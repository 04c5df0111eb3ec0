------------------------- MODULE AuthSessionsProofs -------------------------
(* Type correctness of AuthSessions, OneLiveToken, RevokedIsFinal,          *)
(* NoFalseAlarm and DeactivatedSignedOut, for any number of sessions,       *)
(* tokens and handlers.                                                     *)
EXTENDS AuthSessions, TLAPS

(* What a handler carries: a token that is stored; a family that was opened *)
(* and, before its first token, has none; a session whose tokens it is      *)
(* about to revoke is revoked already.                                      *)
Carries(h) ==
  /\ h.at = "refresh" => h.token \in {t \in Tokens : family[t] # NONE} \cup {NONE}
  /\ h.at \in {"rotate", "fetch", "signed"} =>
       h.token \in Tokens /\ h.family \in Families /\ family[h.token] = h.family
  /\ h.at \in {"opened", "revoke", "revokeTokens"} =>
       h.family \in Families /\ session[h.family] # "none"
  /\ h.at = "opened" => \A t \in Tokens : family[t] # h.family
  /\ h.at = "revokeTokens" => session[h.family] \in Revoked

Carried == \A r \in Requests : Carries(request[r])

(* A session is opened by one handler. *)
OneOpener ==
  \A q, r \in Requests :
    /\ At(q, "opened") /\ At(r, "opened")
    /\ request[q].family = request[r].family
    => q = r

(* What the administrator and the browser know of was opened; what the      *)
(* administrator has marked is revoked.                                     *)
Opened ==
  /\ \A f \in admin.chosen \cup known : session[f] # "none"
  /\ admin.at = "marked" => \A f \in admin.chosen : session[f] \in Revoked

(* Element by element: an open session that has tokens has one good one.    *)
Good(f, t) ==
  /\ family[t] = f /\ t \notin spent
  /\ \A u \in Tokens : family[u] = f /\ u \notin spent => u = t

OneLive ==
  \A f \in Families : session[f] = "open" =>
    \/ \A u \in Tokens : family[u] # f
    \/ \E t \in Tokens : Good(f, t)

SInv == TypeOK /\ Carried /\ OneOpener /\ Opened /\ OneLive

-----------------------------------------------------------------------------
(* The rows of the handlers. *)

LEMMA RowEffect ==
  ASSUME TypeOK, NEW r \in Requests, NEW h \in Handler,
         request' = [request EXCEPT ![r] = h]
  PROVE  /\ request' \in [Requests -> Handler]
         /\ \A q \in Requests \ {r} : request'[q] = request[q]
         /\ request'[r] = h
  BY DEF TypeOK

LEMMA RowTyped ==
  ASSUME NEW stage \in Stages, NEW who \in {"lock", "plain", "gone"},
         NEW t \in Tokens \cup {NONE}, NEW f \in Families \cup {NONE}
  PROVE  Row(stage, who, t, f) \in Handler
  BY DEF Row, Handler, Revoked

LEMMA RowFields ==
  /\ \A stage, who, t, f :
       /\ Row(stage, who, t, f).at = stage /\ Row(stage, who, t, f).sender = who
       /\ Row(stage, who, t, f).token = t /\ Row(stage, who, t, f).family = f
       /\ Row(stage, who, t, f).reason = "revoked"
  /\ NoRequest.at = "off" /\ NoRequest.sender = "gone" /\ NoRequest.token = NONE
  /\ NoRequest.family = NONE /\ NoRequest.reason = "revoked"
  BY DEF Row, NoRequest

LEMMA NoRequestTyped == NoRequest \in Handler
  BY RowTyped DEF NoRequest, Stages

(* A handler that begins. *)
LEMMA BeginEffect ==
  ASSUME TypeOK, NEW r \in Requests, NEW stage \in Stages,
         NEW who \in {"lock", "plain", "gone"}, NEW t \in Tokens \cup {NONE},
         NEW f \in Families \cup {NONE}, Begin(r, stage, who, t, f)
  PROVE  /\ request' \in [Requests -> Handler]
         /\ \A q \in Requests \ {r} : request'[q] = request[q]
         /\ request'[r] = Row(stage, who, t, f)
<1>1. request' = [request EXCEPT ![r] = Row(stage, who, t, f)]
  BY DEF Begin
<1> QED BY <1>1, RowTyped, RowEffect

(* An answer is on its way to the tab that waits, or the handler is done. *)
LEMMA AnswerEffect ==
  ASSUME TypeOK, NEW r \in Requests, NEW stage \in Stages,
         NEW t \in Tokens \cup {NONE}, NEW f \in Families \cup {NONE},
         Answer(r, stage, t, f)
  PROVE  /\ request' \in [Requests -> Handler]
         /\ \A q \in Requests \ {r} : request'[q] = request[q]
         /\ \/ request'[r] = NoRequest
            \/ request'[r] = Row(stage, request[r].sender, t, f)
<1>1. request[r].sender \in {"lock", "plain", "gone"}
  BY DEF TypeOK, Handler
<1>2. PICK h \in {NoRequest, Row(stage, request[r].sender, t, f)} :
        request' = [request EXCEPT ![r] = h]
  BY DEF Answer
<1> QED BY <1>1, <1>2, NoRequestTyped, RowTyped, RowEffect

LEMMA GotoEffect ==
  ASSUME TypeOK, NEW r \in Requests, NEW stage \in Stages, Goto(r, stage)
  PROVE  /\ request' \in [Requests -> Handler]
         /\ \A q \in Requests \ {r} : request'[q] = request[q]
         /\ request'[r].at = stage /\ request'[r].token = request[r].token
         /\ request'[r].family = request[r].family
         /\ request'[r].reason = request[r].reason
         /\ request'[r].sender = request[r].sender
<1>1. request[r] \in Handler /\ request \in [Requests -> Handler]
  BY DEF TypeOK
<1>2. [request[r] EXCEPT !.at = stage] \in Handler
  BY <1>1 DEF Handler
<1>3. request' = [request EXCEPT ![r] = [request[r] EXCEPT !.at = stage]]
  BY DEF Goto
<1> QED BY <1>1, <1>2, <1>3 DEF Handler

(* The three ways a refresh may go after its reads. *)
LEMMA CheckEffect ==
  ASSUME TypeOK, NEW r \in Requests, CheckRefresh(r)
  PROVE  /\ request' \in [Requests -> Handler]
         /\ \A q \in Requests \ {r} : request'[q] = request[q]
         /\ \/ request'[r] = NoRequest
            \/ request'[r] = Row("refused", request[r].sender, NONE, NONE)
            \/ /\ request'[r].at \in {"revoke", "rotate"}
               /\ request'[r].token = request[r].token
               /\ request'[r].token \in Tokens
               /\ request'[r].family = family[request[r].token]
               /\ session[family[request[r].token]] = "open"
               /\ request'[r].sender = request[r].sender
               /\ request'[r].at = "rotate" =>
                    /\ request[r].token \notin spent
                    /\ request'[r].reason = request[r].reason
               /\ request'[r].reason # request[r].reason =>
                    \/ request'[r].reason = "revoked"
                    \/ request[r].token \in spent
<1> DEFINE t == request[r].token
           f == IF t = NONE THEN NONE ELSE family[t]
           Revoking(reason) == [request[r] EXCEPT !.at = "revoke", !.family = f,
                                                  !.reason = reason]
           Rotating == [request[r] EXCEPT !.at = "rotate", !.family = f]
<1>1. request[r] \in Handler
  BY DEF TypeOK
<1>2. f \in Families \cup {NONE} /\ (t # NONE => t \in Tokens)
  BY <1>1 DEF TypeOK, Handler
<1>3. CASE Refuse(r)
  BY <1>3, AnswerEffect DEF Refuse, Stages
<1>4. CASE /\ t # NONE /\ session[f] = "open"
           /\ \E reason \in {"revoked", "replay"} :
                /\ reason = "replay" => t \in spent
                /\ request' = [request EXCEPT ![r].at = "revoke", ![r].family = f,
                                              ![r].reason = reason]
  <2>1. PICK reason \in {"revoked", "replay"} :
          /\ reason = "replay" => t \in spent
          /\ request' = [request EXCEPT ![r] = Revoking(reason)]
    BY <1>4
  <2>2. Revoking(reason) \in Handler
    BY <1>1, <1>2 DEF Handler, Stages, Revoked
  <2>3. /\ request' \in [Requests -> Handler]
        /\ \A q \in Requests \ {r} : request'[q] = request[q]
        /\ request'[r] = Revoking(reason)
    BY <2>1, <2>2, RowEffect
  <2>4. /\ Revoking(reason).at = "revoke" /\ Revoking(reason).token = t
        /\ Revoking(reason).family = f /\ Revoking(reason).reason = reason
        /\ Revoking(reason).sender = request[r].sender
    BY <1>1 DEF Handler
  <2> QED BY <1>2, <1>4, <2>1, <2>3, <2>4
<1>5. CASE /\ t # NONE /\ session[f] = "open" /\ t \notin spent
           /\ request' = [request EXCEPT ![r].at = "rotate", ![r].family = f]
  <2>1. request' = [request EXCEPT ![r] = Rotating]
    BY <1>5
  <2>2. Rotating \in Handler
    BY <1>1, <1>2 DEF Handler, Stages
  <2>3. /\ request' \in [Requests -> Handler]
        /\ \A q \in Requests \ {r} : request'[q] = request[q]
        /\ request'[r] = Rotating
    BY <2>1, <2>2, RowEffect
  <2>4. /\ Rotating.at = "rotate" /\ Rotating.token = t /\ Rotating.family = f
        /\ Rotating.reason = request[r].reason
        /\ Rotating.sender = request[r].sender
    BY <1>1 DEF Handler
  <2> QED BY <1>2, <1>5, <2>3, <2>4
<1> QED BY <1>3, <1>4, <1>5 DEF CheckRefresh

(* A tab gives up. *)
LEMMA AbandonEffect ==
  ASSUME TypeOK, NEW r \in Requests, Abandon(r)
  PROVE  /\ request' \in [Requests -> Handler]
         /\ \A q \in Requests \ {r} : request'[q] = request[q]
         /\ \/ request'[r] = NoRequest
            \/ /\ request'[r].at = request[r].at
               /\ request'[r].token = request[r].token
               /\ request'[r].family = request[r].family
               /\ request'[r].reason = request[r].reason
               /\ request'[r].sender = "gone"
<1>1. request[r] \in Handler
  BY DEF TypeOK
<1>2. [request[r] EXCEPT !.sender = "gone"] \in Handler
  BY <1>1 DEF Handler
<1>3. PICK h \in {NoRequest, [request[r] EXCEPT !.sender = "gone"]} :
        request' = [request EXCEPT ![r] = h]
  BY DEF Abandon
<1>4. /\ request' \in [Requests -> Handler]
      /\ \A q \in Requests \ {r} : request'[q] = request[q]
      /\ request'[r] = h
  BY <1>2, <1>3, NoRequestTyped, RowEffect
<1> QED BY <1>1, <1>3, <1>4 DEF Handler

(* The session is opened, and its first token stored. *)
LEMMA OpenEffect ==
  ASSUME TypeOK, NEW r \in Requests, OpenSession(r)
  PROVE  \E f \in Families :
           /\ session[f] = "none" /\ session' = [session EXCEPT ![f] = "open"]
           /\ request' \in [Requests -> Handler]
           /\ \A q \in Requests \ {r} : request'[q] = request[q]
           /\ request'[r].at = "opened" /\ request'[r].family = f
           /\ request'[r].reason = request[r].reason
           /\ request'[r].sender = request[r].sender
<1>1. request[r] \in Handler
  BY DEF TypeOK
<1>2. PICK f \in Families :
        /\ session[f] = "none" /\ session' = [session EXCEPT ![f] = "open"]
        /\ request' = [request EXCEPT ![r] = [request[r] EXCEPT !.at = "opened",
                                                               !.family = f]]
  BY DEF OpenSession
<1>3. [request[r] EXCEPT !.at = "opened", !.family = f] \in Handler
  BY <1>1 DEF Handler, Stages
<1>4. /\ request' \in [Requests -> Handler]
      /\ \A q \in Requests \ {r} : request'[q] = request[q]
      /\ request'[r] = [request[r] EXCEPT !.at = "opened", !.family = f]
  BY <1>2, <1>3, RowEffect
<1> QED BY <1>1, <1>2, <1>4 DEF Handler

(* A token is exchanged: the new one was not stored before. *)
LEMMA SucceedEffect ==
  ASSUME TypeOK, NEW r \in Requests, NEW t, NEW f \in Families, Succeed(r, t, f)
  PROVE  \E n \in Tokens :
           /\ family[n] = NONE /\ family' = [family EXCEPT ![n] = f]
           /\ spent' = spent \cup {t} /\ session' = session
           /\ request' \in [Requests -> Handler]
           /\ \A q \in Requests \ {r} : request'[q] = request[q]
           /\ request'[r].at = "fetch" /\ request'[r].token = n
           /\ request'[r].family = request[r].family
           /\ request'[r].reason = request[r].reason
           /\ request'[r].sender = request[r].sender
<1>1. request[r] \in Handler
  BY DEF TypeOK
<1>2. PICK n \in Tokens :
        /\ family[n] = NONE /\ family' = [family EXCEPT ![n] = f]
        /\ spent' = spent \cup {t} /\ session' = session
        /\ request' = [request EXCEPT ![r] = [request[r] EXCEPT !.at = "fetch",
                                                               !.token = n]]
  BY DEF Succeed, Of
<1>3. [request[r] EXCEPT !.at = "fetch", !.token = n] \in Handler
  BY <1>1 DEF Handler, Stages
<1>4. /\ request' \in [Requests -> Handler]
      /\ \A q \in Requests \ {r} : request'[q] = request[q]
      /\ request'[r] = [request[r] EXCEPT !.at = "fetch", !.token = n]
  BY <1>2, <1>3, RowEffect
<1> QED BY <1>1, <1>2, <1>4 DEF Handler

(* Every session an operation of a handler names is one that was opened. *)
LEMMA LogoutFamily ==
  ASSUME TypeOK, Opened
  PROVE  \A f \in IF cookie # NONE THEN {family[cookie]} ELSE known :
           f \in Families /\ session[f] # "none"
  BY NoneAssumption DEF TypeOK, Opened

-----------------------------------------------------------------------------
(* Types. *)

LEMMA TypeStep ==
  ASSUME SInv, [Next]_vars
  PROVE  TypeOK'
<1> USE DEF browser, account
<1>1. TypeOK /\ Carried /\ Opened
  BY DEF SInv
<1>2. \A r \in Requests : request[r] \in Handler
  BY <1>1 DEF TypeOK
<1>3. ASSUME NEW r \in Requests, BeginLogin(r)
      PROVE  TypeOK'
  <2>1. request' \in [Requests -> Handler]
    BY <1>1, <1>3, BeginEffect DEF BeginLogin, Stages
  <2> QED BY <1>1, <1>3, <2>1 DEF TypeOK, BeginLogin
<1>4. ASSUME NEW r \in Requests, OpenSession(r)
      PROVE  TypeOK'
  <2>1. PICK f \in Families : /\ session' = [session EXCEPT ![f] = "open"]
                             /\ request' \in [Requests -> Handler]
    BY <1>1, <1>4, OpenEffect
  <2> QED BY <1>1, <1>4, <2>1 DEF TypeOK, OpenSession
<1>5. ASSUME NEW r \in Requests, StoreToken(r)
      PROVE  TypeOK'
  <2>1. PICK t \in Of(NONE) : /\ family' = [family EXCEPT ![t] = request[r].family]
                              /\ Sign(r, t)
    BY <1>5 DEF StoreToken
  <2>2. /\ request[r].family \in Families
        /\ session[request[r].family] # "none"
        /\ t \in Tokens /\ family[t] = NONE
    BY <1>1, <1>5, <2>1 DEF StoreToken, Carried, Carries, At, Of
  <2>3. request' \in [Requests -> Handler]
    BY <1>1, <2>1, <2>2, AnswerEffect DEF Sign, Stages
  <2> QED BY <1>1, <1>5, <2>1, <2>2, <2>3 DEF TypeOK, StoreToken
<1>6. ASSUME NEW r \in Requests, BeginRefresh(r)
      PROVE  TypeOK'
  <2>1. request' \in [Requests -> Handler]
    BY <1>1, <1>6, BeginEffect DEF BeginRefresh, Stages, TypeOK
  <2> QED BY <1>1, <1>6, <2>1 DEF TypeOK, BeginRefresh
<1>7. ASSUME NEW r \in Requests, CheckRefresh(r)
      PROVE  TypeOK'
  <2>1. request' \in [Requests -> Handler]
    BY <1>1, <1>7, CheckEffect
  <2> QED BY <1>1, <1>7, <2>1 DEF TypeOK, CheckRefresh
<1>8. ASSUME NEW r \in Requests, Rotate(r)
      PROVE  TypeOK'
  <2>1. /\ request[r].family \in Families /\ request[r].token \in Tokens
        /\ family[request[r].token] = request[r].family
    BY <1>1, <1>8 DEF Rotate, Carried, Carries, At
  <2>2. CASE Refuse(r) /\ UNCHANGED <<session, family, spent>>
    <3>1. request' \in [Requests -> Handler]
      BY <1>1, <2>2, AnswerEffect DEF Refuse, Stages
    <3> QED BY <1>1, <1>8, <2>2, <3>1 DEF TypeOK, Rotate
  <2>3. CASE /\ session[request[r].family] = "open"
             /\ session' = [session EXCEPT ![request[r].family] = "replay"]
             /\ spent' = spent \cup Of(request[r].family)
             /\ Refuse(r) /\ UNCHANGED family
    <3>1. request' \in [Requests -> Handler]
      BY <1>1, <2>3, AnswerEffect DEF Refuse, Stages
    <3>2. Of(request[r].family) \subseteq {t \in Tokens : family[t] # NONE}
      BY <2>1, NoneAssumption DEF Of
    <3> QED BY <1>1, <1>8, <2>1, <2>3, <3>1, <3>2 DEF TypeOK, Rotate, Revoked
  <2>4. CASE /\ session[request[r].family] = "open"
             /\ Succeed(r, request[r].token, request[r].family)
    <3>1. PICK n \in Tokens :
             /\ family[n] = NONE /\ family' = [family EXCEPT ![n] = request[r].family]
             /\ spent' = spent \cup {request[r].token} /\ session' = session
             /\ request' \in [Requests -> Handler]
      BY <1>1, <2>1, <2>4, SucceedEffect
    <3>2. request[r].token # n
      BY <2>1, <3>1, NoneAssumption
    <3> QED BY <1>1, <1>8, <2>1, <2>4, <3>1, <3>2, NoneAssumption DEF TypeOK, Rotate
  <2> QED BY <1>8, <2>2, <2>3, <2>4 DEF Rotate
<1>9. ASSUME NEW r \in Requests, RotationFails(r)
      PROVE  TypeOK'
  <2>1. request' \in [Requests -> Handler]
    BY <1>1, <1>9, AnswerEffect DEF RotationFails, Refuse, Stages
  <2> QED BY <1>1, <1>9, <2>1 DEF TypeOK, RotationFails
<1>10. ASSUME NEW r \in Requests, FetchUser(r)
       PROVE  TypeOK'
  <2>1. request[r].family \in Families /\ request[r].token \in Tokens
    BY <1>1, <1>10 DEF FetchUser, Carried, Carries, At
  <2>2. request' \in [Requests -> Handler]
    BY <1>1, <1>10, <2>1, AnswerEffect, GotoEffect DEF FetchUser, Sign, Stages
  <2> QED BY <1>1, <1>10, <2>2 DEF TypeOK, FetchUser
<1>11. ASSUME NEW r \in Requests, BeginLogout(r) \/ AccessExpired(r)
       PROVE  TypeOK'
  <2>1. PICK f \in Families, who \in {"plain", "gone"} :
          Begin(r, "revoke", who, NONE, f)
    BY <1>1, <1>11, LogoutFamily DEF BeginLogout, AccessExpired, TypeOK
  <2>2. request' \in [Requests -> Handler]
    BY <1>1, <2>1, BeginEffect DEF Stages
  <2> QED BY <1>1, <1>11, <2>2 DEF TypeOK, BeginLogout, AccessExpired
<1>12. ASSUME NEW r \in Requests, RevokeSession(r)
       PROVE  TypeOK'
  <2>1. request[r].family \in Families /\ session[request[r].family] # "none"
    BY <1>1, <1>12 DEF RevokeSession, Carried, Carries, At
  <2>2. request' \in [Requests -> Handler]
    BY <1>1, <1>12, GotoEffect DEF RevokeSession, Stages
  <2>3. /\ session' \in [Families -> {"none", "open"} \cup Revoked]
        /\ \A f \in Families : session[f] # "none" => session'[f] # "none"
    BY <1>1, <1>2, <1>12, <2>1 DEF TypeOK, RevokeSession, Handler, Revoked
  <2> QED BY <1>1, <1>12, <2>2, <2>3, NoneAssumption DEF TypeOK, RevokeSession
<1>13. ASSUME NEW r \in Requests, RevokeTokens(r)
       PROVE  TypeOK'
  <2>1. request[r].family \in Families
    BY <1>1, <1>13 DEF RevokeTokens, Carried, Carries, At
  <2>2. Of(request[r].family) \subseteq {t \in Tokens : family[t] # NONE}
    BY <2>1, NoneAssumption DEF Of
  <2>3. request' \in [Requests -> Handler]
    BY <1>1, <1>13, AnswerEffect DEF RevokeTokens, Refuse, Stages
  <2> QED BY <1>1, <1>13, <2>2, <2>3 DEF TypeOK, RevokeTokens
<1>14. ASSUME NEW r \in Requests, Hear(r)
       PROVE  TypeOK'
  <2>1. request' \in [Requests -> Handler]
    BY <1>1, <1>14, NoRequestTyped, RowEffect DEF Hear
  <2>2. At(r, "signed") => /\ request[r].family \in Families
                           /\ request[r].token \in Tokens
                           /\ family[request[r].token] # NONE
    BY <1>1, NoneAssumption DEF Carried, Carries, At
  <2> QED BY <1>1, <1>14, <2>1, <2>2 DEF TypeOK, Hear
<1>15. ASSUME NEW r \in Requests, Abandon(r)
       PROVE  TypeOK'
  <2>1. request' \in [Requests -> Handler]
    BY <1>1, <1>15, AbandonEffect
  <2> QED BY <1>1, <1>15, <2>1 DEF TypeOK, Abandon
<1>16. CASE Deactivate \/ ChangeRole \/ Activate
  BY <1>1, <1>16 DEF TypeOK, Deactivate, ChangeRole, Activate, AdminGoes
<1>17. CASE SelectSessions
  BY <1>1, <1>17 DEF TypeOK, SelectSessions
<1>18. CASE RevokeChosen
  <2>1. /\ session' \in [Families -> {"none", "open"} \cup Revoked]
        /\ \A f \in Families : session[f] # "none" => session'[f] # "none"
    BY <1>1, <1>18 DEF TypeOK, RevokeChosen, Revoked
  <2> QED BY <1>1, <1>18, <2>1, NoneAssumption DEF TypeOK, RevokeChosen, AdminGoes
<1>19. CASE RevokeChosenTokens
  <2>1. UNION {Of(f) : f \in admin.chosen} \subseteq {t \in Tokens : family[t] # NONE}
    BY <1>1, NoneAssumption DEF TypeOK, Of
  <2> QED BY <1>1, <1>19, <2>1 DEF TypeOK, RevokeChosenTokens, Idle
<1>20. ASSUME NEW f \in Families, Expire(f)
       PROVE  TypeOK'
  BY <1>1, <1>20 DEF TypeOK, Expire
<1>21. CASE Restart
  BY <1>1, <1>21, NoRequestTyped DEF TypeOK, Restart, Idle
<1>22. CASE UNCHANGED vars
  BY <1>1, <1>22 DEF TypeOK, vars
<1> QED BY <1>3, <1>4, <1>5, <1>6, <1>7, <1>8, <1>9, <1>10, <1>11, <1>12, <1>13,
           <1>14, <1>15, <1>16, <1>17, <1>18, <1>19, <1>20, <1>21, <1>22 DEF Next

-----------------------------------------------------------------------------
(* What only grows: a stored token keeps its family, an opened session      *)
(* stays, a revoked one stays revoked; a family gets a token only as its    *)
(* first, from the handler that opened it, or while it is open.             *)

Grows ==
  /\ \A t \in Tokens : family[t] # NONE => family'[t] = family[t]
  /\ \A f \in Families : session[f] # "none" => session'[f] # "none"
  /\ \A f \in Families : session[f] \in Revoked => session'[f] \in Revoked
  /\ \A f \in Families : Of(f)' # Of(f) =>
       \/ \E r \in Requests : StoreToken(r) /\ request[r].family = f
       \/ session[f] = "open" /\ Of(f) # {}

LEMMA GrowsStep ==
  ASSUME SInv, [Next]_vars
  PROVE  Grows
<1> USE DEF browser, account
<1>1. TypeOK /\ Carried /\ Opened
  BY DEF SInv
<1>2. CASE UNCHANGED <<session, family>>
  BY <1>2 DEF Grows, Of
<1>3. ASSUME NEW r \in Requests, OpenSession(r)
      PROVE  Grows
  <2>1. PICK f \in Families : /\ session[f] = "none"
                              /\ session' = [session EXCEPT ![f] = "open"]
    BY <1>1, <1>3, OpenEffect
  <2>2. family' = family
    BY <1>3 DEF OpenSession
  <2> QED BY <1>1, <2>1, <2>2 DEF Grows, Of, TypeOK, Revoked
<1>4. ASSUME NEW r \in Requests, StoreToken(r)
      PROVE  Grows
  <2>1. PICK t \in Of(NONE) : family' = [family EXCEPT ![t] = request[r].family]
    BY <1>4 DEF StoreToken
  <2>2. t \in Tokens /\ family[t] = NONE /\ session' = session
    BY <1>4, <2>1 DEF StoreToken, Of
  <2>3. \A f \in Families : f # request[r].family => Of(f)' = Of(f)
    BY <1>1, <2>1, <2>2, NoneAssumption DEF Of, TypeOK
  <2> QED BY <1>1, <1>4, <2>1, <2>2, <2>3 DEF Grows, TypeOK
<1>5. ASSUME NEW r \in Requests, Rotate(r)
      PROVE  Grows
  <2>1. /\ request[r].family \in Families /\ request[r].token \in Tokens
        /\ family[request[r].token] = request[r].family
    BY <1>1, <1>5 DEF Rotate, Carried, Carries, At
  <2>2. CASE session' = [session EXCEPT ![request[r].family] = "replay"]
             /\ UNCHANGED family
    BY <1>1, <2>1, <2>2 DEF Grows, Of, TypeOK, Revoked
  <2>3. CASE /\ session[request[r].family] = "open"
             /\ Succeed(r, request[r].token, request[r].family)
    <3>1. PICK n \in Tokens :
             /\ family[n] = NONE /\ family' = [family EXCEPT ![n] = request[r].family]
             /\ session' = session
      BY <1>1, <2>1, <2>3, SucceedEffect
    <3>2. \A f \in Families : f # request[r].family => Of(f)' = Of(f)
      BY <1>1, <3>1, NoneAssumption DEF Of, TypeOK
    <3>3. Of(request[r].family) # {}
      BY <2>1 DEF Of
    <3> QED BY <1>1, <2>3, <3>1, <3>2, <3>3 DEF Grows, TypeOK
  <2> QED BY <1>2, <1>5, <2>2, <2>3 DEF Rotate
<1>6. ASSUME NEW r \in Requests, RevokeSession(r)
      PROVE  Grows
  <2>1. request[r].family \in Families /\ request[r].reason \in Revoked
    BY <1>1, <1>6 DEF RevokeSession, Carried, Carries, At, TypeOK, Handler
  <2> QED BY <1>1, <1>6, <2>1 DEF RevokeSession, Grows, Of, TypeOK, Revoked
<1>7. CASE RevokeChosen
  BY <1>1, <1>7 DEF RevokeChosen, Grows, Of, TypeOK, Revoked
<1>8. ASSUME NEW r \in Requests,
             \/ BeginLogin(r) \/ BeginRefresh(r) \/ CheckRefresh(r)
             \/ RotationFails(r) \/ FetchUser(r) \/ BeginLogout(r)
             \/ AccessExpired(r) \/ RevokeTokens(r) \/ Hear(r) \/ Abandon(r)
      PROVE  UNCHANGED <<session, family>>
  BY <1>8 DEF BeginLogin, BeginRefresh, CheckRefresh, RotationFails, FetchUser,
              BeginLogout, AccessExpired, RevokeTokens, Hear, Abandon
<1>9. ASSUME \/ Deactivate \/ ChangeRole \/ Activate \/ SelectSessions
             \/ RevokeChosenTokens \/ Restart \/ UNCHANGED vars
             \/ \E f \in Families : Expire(f)
      PROVE  UNCHANGED <<session, family>>
  BY <1>9 DEF Deactivate, ChangeRole, Activate, SelectSessions,
              RevokeChosenTokens, Restart, Expire, vars
<1> QED BY <1>2, <1>3, <1>4, <1>5, <1>6, <1>7, <1>8, <1>9 DEF Next

-----------------------------------------------------------------------------
(* What handlers carry. *)

(* A handler that does not move keeps what it carries. *)
LEMMA OthersCarry ==
  ASSUME SInv, [Next]_vars, NEW q \in Requests, request'[q] = request[q]
  PROVE  Carries(request[q])'
<1>1. /\ TypeOK /\ Carried /\ OneOpener /\ Grows
      /\ Carries(request[q]) /\ request[q] \in Handler
  BY GrowsStep DEF SInv, Carried, TypeOK
<1>2. ASSUME request[q].at = "opened"
      PROVE  \A t \in Tokens : family'[t] # request'[q].family
  <2>1. request[q].family \in Families /\ Of(request[q].family) = {}
    BY <1>1, <1>2 DEF Carries, Of
  <2>2. ASSUME NEW r \in Requests, StoreToken(r),
               request[r].family = request[q].family
        PROVE  FALSE
    <3>1. r = q
      BY <1>1, <1>2, <2>2 DEF OneOpener, StoreToken, At
    <3>2. PICK t \in Tokens : Sign(r, t)
      BY <2>2 DEF StoreToken, Of
    <3>3. request'[r] = NoRequest
            \/ request'[r] = Row("signed", request[r].sender, t, request[r].family)
      BY <1>1, <3>2 DEF Sign, Answer, TypeOK
    <3> QED BY <1>2, <3>1, <3>3 DEF NoRequest, Row
  <2>3. PICK f \in Families : f = request[q].family
    BY <2>1
  <2>4. Of(f)' = {}
    BY <1>1, <2>1, <2>2, <2>3 DEF Grows
  <2>5. \A t \in Tokens : family'[t] # f
    BY <2>4 DEF Of
  <2> QED BY <2>3, <2>5
<1>3. /\ \A t \in Tokens : family[t] # NONE => family'[t] = family[t]
      /\ \A f \in Families : session[f] # "none" => session'[f] # "none"
      /\ \A f \in Families : session[f] \in Revoked => session'[f] \in Revoked
  BY <1>1 DEF Grows
<1>4. request[q].family \in Families => request[q].family # NONE
  BY NoneAssumption
<1>5. request[q].at = "refresh" =>
        request[q].token \in {t \in Tokens : family'[t] # NONE} \cup {NONE}
  BY <1>1, <1>3 DEF Carries
<1>6. request[q].at \in {"rotate", "fetch", "signed"} =>
        /\ request[q].token \in Tokens /\ request[q].family \in Families
        /\ family'[request[q].token] = request[q].family
  BY <1>1, <1>3, <1>4 DEF Carries
<1>7. /\ request[q].at \in {"opened", "revoke", "revokeTokens"} =>
           request[q].family \in Families /\ session'[request[q].family] # "none"
      /\ request[q].at = "revokeTokens" => session'[request[q].family] \in Revoked
  BY <1>1, <1>3 DEF Carries
<1> QED BY <1>2, <1>5, <1>6, <1>7 DEF Carries

(* A handler that is done, that answers a refusal, or has just begun to     *)
(* sign in carries nothing.                                                 *)
LEMMA CarriesNothing ==
  ASSUME NEW r \in Requests,
         request'[r].at \notin {"opened", "refresh", "rotate", "fetch", "signed",
                               "revoke", "revokeTokens"}
  PROVE  Carries(request[r])'
  BY DEF Carries

LEMMA CarriedStep ==
  ASSUME SInv, [Next]_vars
  PROVE  Carried'
<1> USE DEF browser, account
<1>1. TypeOK /\ Carried /\ Opened /\ Grows /\ TypeOK'
  BY GrowsStep, TypeStep DEF SInv
<1>2. \A r \in Requests : request[r] \in Handler /\ Carries(request[r])
  BY <1>1 DEF TypeOK, Carried
<1>3. ASSUME NEW r \in Requests, Carries(request[r])',
             \A q \in Requests \ {r} : request'[q] = request[q]
      PROVE  Carried'
  BY <1>3, OthersCarry DEF Carried
<1>4. CASE request' = request
  BY <1>4, OthersCarry DEF Carried
<1>5. ASSUME NEW r \in Requests,
             BeginLogin(r) \/ BeginRefresh(r) \/ BeginLogout(r) \/ AccessExpired(r)
      PROVE  Carried'
  <2>1. /\ session' = session /\ family' = family
        /\ \E t \in Tokens \cup {NONE}, f \in Families \cup {NONE} :
             \/ Begin(r, "admitted", "plain", t, f)
             \/ Begin(r, "refresh", "lock", t, f) /\ t = cookie
             \/ \E who \in {"plain", "gone"} : /\ Begin(r, "revoke", who, t, f)
                                               /\ f \in Families
                                               /\ session[f] # "none"
    BY <1>1, <1>5, LogoutFamily
       DEF BeginLogin, BeginRefresh, BeginLogout, AccessExpired, TypeOK
  <2>2. PICK t \in Tokens \cup {NONE}, f \in Families \cup {NONE},
             stage \in {"admitted", "refresh", "revoke"},
             who \in {"lock", "plain", "gone"} :
          /\ Begin(r, stage, who, t, f)
          /\ stage = "refresh" => t = cookie
          /\ stage = "revoke" => f \in Families /\ session[f] # "none"
    BY <2>1
  <2>3. /\ \A q \in Requests \ {r} : request'[q] = request[q]
        /\ request'[r] = Row(stage, who, t, f)
    BY <1>1, <2>2, BeginEffect DEF Stages
  <2>4. Carries(request[r])'
    BY <1>1, <2>1, <2>2, <2>3, RowFields DEF Carries, TypeOK
  <2> QED BY <1>3, <2>3, <2>4
<1>6. ASSUME NEW r \in Requests, OpenSession(r)
      PROVE  Carried'
  <2>1. PICK f \in Families :
          /\ session[f] = "none" /\ session' = [session EXCEPT ![f] = "open"]
          /\ \A q \in Requests \ {r} : request'[q] = request[q]
          /\ request'[r].at = "opened" /\ request'[r].family = f
    BY <1>1, <1>6, OpenEffect
  <2>2. family' = family /\ session'[f] = "open"
    BY <1>1, <1>6, <2>1 DEF OpenSession, TypeOK
  <2>3. \A t \in Tokens : family'[t] # f
    BY <1>1, <2>1, <2>2, NoneAssumption DEF TypeOK
  <2>4. Carries(request[r])'
    BY <2>1, <2>2, <2>3 DEF Carries, Of
  <2> QED BY <1>3, <2>1, <2>4
<1>7. ASSUME NEW r \in Requests, StoreToken(r)
      PROVE  Carried'
  <2>1. PICK t \in Tokens : /\ family' = [family EXCEPT ![t] = request[r].family]
                            /\ Sign(r, t)
    BY <1>7 DEF StoreToken, Of
  <2>2. request[r].family \in Families
    BY <1>2, <1>7 DEF StoreToken, Carries, At
  <2>3. /\ \A q \in Requests \ {r} : request'[q] = request[q]
        /\ \/ request'[r] = NoRequest
           \/ request'[r] = Row("signed", request[r].sender, t, request[r].family)
    BY <1>1, <2>1, <2>2, AnswerEffect DEF Sign, Stages
  <2>4. family'[t] = request[r].family
    BY <1>1, <2>1 DEF TypeOK
  <2>5. Carries(request[r])'
    BY <2>2, <2>3, <2>4, RowFields DEF Carries
  <2> QED BY <1>3, <2>3, <2>5
<1>8. ASSUME NEW r \in Requests, CheckRefresh(r)
      PROVE  Carried'
  <2>1. /\ \A q \in Requests \ {r} : request'[q] = request[q]
        /\ \/ request'[r].at \in {"off", "refused"}
           \/ /\ request'[r].at \in {"revoke", "rotate"}
              /\ request'[r].token = request[r].token
              /\ request'[r].token \in Tokens
              /\ request'[r].family = family[request[r].token]
              /\ session[family[request[r].token]] = "open"
    BY <1>1, <1>8, CheckEffect, RowFields
  <2>4. session' = session /\ family' = family
    BY <1>8 DEF CheckRefresh
  <2>2. request[r].token \in Tokens => family[request[r].token] \in Families
    BY <1>1, <1>2, <1>8, NoneAssumption DEF CheckRefresh, Carries, At, TypeOK
  <2>3. Carries(request[r])'
    BY <2>1, <2>2, <2>4 DEF Carries
  <2> QED BY <1>3, <2>1, <2>3
<1>9. ASSUME NEW r \in Requests, Refuse(r)
      PROVE  Carried'
  <2>1. /\ \A q \in Requests \ {r} : request'[q] = request[q]
        /\ request'[r].at \in {"off", "refused"}
    BY <1>1, <1>9, AnswerEffect, RowFields DEF Refuse, Stages
  <2>2. Carries(request[r])'
    BY <2>1, CarriesNothing
  <2> QED BY <1>3, <2>1, <2>2
<1>10. ASSUME NEW r \in Requests, Rotate(r)
       PROVE  Carried'
  <2>1. /\ request[r].family \in Families /\ request[r].token \in Tokens
        /\ family[request[r].token] = request[r].family
    BY <1>2, <1>10 DEF Rotate, Carries, At
  <2>2. CASE Succeed(r, request[r].token, request[r].family)
    <3>1. PICK n \in Tokens :
             /\ family' = [family EXCEPT ![n] = request[r].family]
             /\ \A q \in Requests \ {r} : request'[q] = request[q]
             /\ request'[r].at = "fetch" /\ request'[r].token = n
             /\ request'[r].family = request[r].family
      BY <1>1, <2>1, <2>2, SucceedEffect
    <3>2. Carries(request[r])'
      BY <1>1, <2>1, <3>1 DEF Carries, TypeOK
    <3> QED BY <1>3, <3>1, <3>2
  <2> QED BY <1>9, <1>10, <2>2 DEF Rotate
<1>11. ASSUME NEW r \in Requests, FetchUser(r)
       PROVE  Carried'
  <2>1. /\ request[r].family \in Families /\ request[r].token \in Tokens
        /\ family[request[r].token] = request[r].family
        /\ session' = session /\ family' = family
    BY <1>2, <1>11 DEF FetchUser, Carries, At
  <2>2. CASE Sign(r, request[r].token)
    <3>1. /\ \A q \in Requests \ {r} : request'[q] = request[q]
          /\ \/ request'[r] = NoRequest
             \/ request'[r] = Row("signed", request[r].sender, request[r].token,
                                  request[r].family)
      BY <1>1, <2>1, <2>2, AnswerEffect DEF Sign, Stages
    <3>2. Carries(request[r])'
      BY <2>1, <3>1, RowFields DEF Carries
    <3> QED BY <1>3, <3>1, <3>2
  <2>3. CASE Goto(r, "revoke")
    <3>1. /\ \A q \in Requests \ {r} : request'[q] = request[q]
          /\ request'[r].at = "revoke" /\ request'[r].family = request[r].family
      BY <1>1, <2>3, GotoEffect DEF Stages
    <3>2. Carries(request[r])'
      BY <1>1, <2>1, <3>1, NoneAssumption DEF Carries, TypeOK
    <3> QED BY <1>3, <3>1, <3>2
  <2> QED BY <1>11, <2>2, <2>3 DEF FetchUser
<1>12. ASSUME NEW r \in Requests, RevokeSession(r)
       PROVE  Carried'
  <2>1. request[r].family \in Families /\ session[request[r].family] # "none"
    BY <1>2, <1>12 DEF RevokeSession, Carries, At
  <2>2. /\ \A q \in Requests \ {r} : request'[q] = request[q]
        /\ request'[r].at = "revokeTokens"
        /\ request'[r].family = request[r].family
    BY <1>1, <1>12, GotoEffect DEF RevokeSession, Stages
  <2>3. session'[request[r].family] \in Revoked
    BY <1>1, <1>2, <1>12, <2>1 DEF RevokeSession, TypeOK, Handler
  <2>4. Carries(request[r])'
    BY <2>1, <2>2, <2>3 DEF Carries, Revoked
  <2> QED BY <1>3, <2>2, <2>4
<1>13. ASSUME NEW r \in Requests, Hear(r)
       PROVE  Carried'
  <2>1. /\ \A q \in Requests \ {r} : request'[q] = request[q]
        /\ request'[r].at = "off"
    BY <1>1, <1>13, NoRequestTyped, RowEffect, RowFields DEF Hear
  <2>2. Carries(request[r])'
    BY <2>1, CarriesNothing
  <2> QED BY <1>3, <2>1, <2>2
<1>14. ASSUME NEW r \in Requests, Abandon(r)
       PROVE  Carried'
  <2>1. /\ \A q \in Requests \ {r} : request'[q] = request[q]
        /\ session' = session /\ family' = family
        /\ \/ request'[r].at = "off"
           \/ /\ request'[r].at = request[r].at
              /\ request'[r].token = request[r].token
              /\ request'[r].family = request[r].family
    BY <1>1, <1>14, AbandonEffect, RowFields DEF Abandon
  <2>2. Carries(request[r])'
    BY <1>2, <2>1 DEF Carries, Of
  <2> QED BY <1>3, <2>1, <2>2
<1>15. CASE Restart
  <2>1. \A r \in Requests : request'[r].at = "off"
    BY <1>15, RowFields DEF Restart
  <2> QED BY <2>1, CarriesNothing DEF Carried
<1>16. ASSUME NEW r \in Requests, RotationFails(r) \/ RevokeTokens(r)
       PROVE  Refuse(r)
  BY <1>16 DEF RotationFails, RevokeTokens
<1>17. ASSUME \/ Deactivate \/ ChangeRole \/ Activate \/ SelectSessions
              \/ RevokeChosen \/ RevokeChosenTokens \/ UNCHANGED vars
              \/ \E f \in Families : Expire(f)
       PROVE  request' = request
  BY <1>17 DEF Deactivate, ChangeRole, Activate, SelectSessions, RevokeChosen,
               RevokeChosenTokens, Expire, vars
<1> QED BY <1>4, <1>5, <1>6, <1>7, <1>8, <1>9, <1>10, <1>11, <1>12, <1>13, <1>14,
           <1>15, <1>16, <1>17 DEF Next

-----------------------------------------------------------------------------
(* How a handler moves, and which action moves it.                          *)

Begins(r) ==
  \/ BeginLogin(r) /\ request'[r] = Row("admitted", "plain", NONE, NONE)
  \/ BeginRefresh(r) /\ request'[r] = Row("refresh", "lock", cookie, NONE)
  \/ \E who \in {"plain", "gone"}, f \in Families :
       request[r].at = "off" /\ request'[r] = Row("revoke", who, NONE, f)

Answers(r) ==
  \/ /\ request'[r] = NoRequest
     /\ Hear(r) \/ Abandon(r) \/ request[r].sender = "gone"
  \/ request'[r] = Row("refused", request[r].sender, NONE, NONE)
  \/ \E t \in Tokens :
       /\ request'[r] = Row("signed", request[r].sender, t, request[r].family)
       /\ \/ StoreToken(r) /\ family[t] = NONE
          \/ request[r].at = "fetch" /\ t = request[r].token

Advances(r) ==
  /\ request'[r].sender = request[r].sender
  /\ \/ /\ OpenSession(r) /\ request'[r].at = "opened"
        /\ request'[r].reason = request[r].reason
     \/ /\ request[r].at = "refresh" /\ request'[r].at \in {"rotate", "revoke"}
        /\ request[r].token \in Tokens /\ request'[r].token = request[r].token
        /\ session[family[request[r].token]] = "open"
        /\ \/ request'[r].reason \in {"revoked", request[r].reason}
           \/ request[r].token \in spent
     \/ /\ Rotate(r) /\ request'[r].at = "fetch"
        /\ request'[r].token \in Tokens /\ family[request'[r].token] = NONE
        /\ request'[r].reason = request[r].reason
     \/ /\ request[r].at \in {"fetch", "revoke"}
        /\ request'[r].at \in {"revoke", "revokeTokens"}
        /\ request'[r].reason = request[r].reason

LeftAlone(r) ==
  /\ Abandon(r) /\ request'[r].sender = "gone"
  /\ request'[r].at = request[r].at /\ request'[r].token = request[r].token
  /\ request'[r].family = request[r].family
  /\ request'[r].reason = request[r].reason

LEMMA MoveStep ==
  ASSUME SInv, [Next]_vars
  PROVE  \/ Restart /\ \A q \in Requests : request'[q] = NoRequest
         \/ request' = request
         \/ \E r \in Requests :
              /\ \A q \in Requests \ {r} : request'[q] = request[q]
              /\ Begins(r) \/ Answers(r) \/ Advances(r) \/ LeftAlone(r)
<1> USE DEF browser, account
<1>1. TypeOK /\ Carried /\ Opened
  BY DEF SInv
<1>2. CASE request' = request
  BY <1>2
<1> DEFINE Moves(r) ==
             /\ \A q \in Requests \ {r} : request'[q] = request[q]
             /\ Begins(r) \/ Answers(r) \/ Advances(r) \/ LeftAlone(r)
<1>3. ASSUME NEW r \in Requests, BeginLogin(r) \/ BeginRefresh(r)
      PROVE  Moves(r)
  <2>1. /\ BeginLogin(r) => Begin(r, "admitted", "plain", NONE, NONE)
        /\ BeginRefresh(r) => Begin(r, "refresh", "lock", cookie, NONE)
    BY DEF BeginLogin, BeginRefresh
  <2>2. cookie \in Tokens \cup {NONE}
    BY <1>1 DEF TypeOK
  <2> QED BY <1>1, <1>3, <2>1, <2>2, BeginEffect DEF Begins, Stages
<1>4. ASSUME NEW r \in Requests, BeginLogout(r) \/ AccessExpired(r)
      PROVE  Moves(r)
  <2>1. PICK who \in {"plain", "gone"}, f \in Families : Begin(r, "revoke", who, NONE, f)
    BY <1>1, <1>4, LogoutFamily DEF BeginLogout, AccessExpired, TypeOK
  <2>2. request[r].at = "off"
    BY <2>1 DEF Begin, At
  <2> QED BY <1>1, <2>1, <2>2, BeginEffect DEF Begins, Stages
<1>5. ASSUME NEW r \in Requests, OpenSession(r)
      PROVE  Moves(r)
  <2>1. /\ \A q \in Requests \ {r} : request'[q] = request[q]
        /\ request'[r].at = "opened" /\ request'[r].reason = request[r].reason
        /\ request'[r].sender = request[r].sender
    BY <1>1, <1>5, OpenEffect
  <2> QED BY <1>5, <2>1 DEF Advances
<1>6. ASSUME NEW r \in Requests, Refuse(r)
      PROVE  Moves(r)
  <2>1. request'[r] = NoRequest => request[r].sender = "gone"
    BY <1>1, <1>6, RowFields DEF Refuse, Answer, TypeOK
  <2> QED BY <1>1, <1>6, <2>1, AnswerEffect DEF Refuse, Stages, Answers
<1>7. ASSUME NEW r \in Requests, NEW t \in Tokens, Sign(r, t),
             \/ StoreToken(r) /\ family[t] = NONE
             \/ request[r].at = "fetch" /\ t = request[r].token
      PROVE  Moves(r)
  <2>1. request'[r] = NoRequest => request[r].sender = "gone"
    BY <1>1, <1>7, RowFields DEF Sign, Answer, TypeOK
  <2>2. request[r].family \in Families \cup {NONE}
    BY <1>1 DEF TypeOK, Handler
  <2>3. /\ \A q \in Requests \ {r} : request'[q] = request[q]
        /\ \/ request'[r] = NoRequest
           \/ request'[r] = Row("signed", request[r].sender, t, request[r].family)
    BY <1>1, <1>7, <2>2, AnswerEffect DEF Sign, Stages
  <2> QED BY <1>7, <2>1, <2>3 DEF Answers
<1>8. ASSUME NEW r \in Requests, StoreToken(r)
      PROVE  Moves(r)
  <2>1. PICK t \in Tokens : family[t] = NONE /\ Sign(r, t)
    BY <1>8 DEF StoreToken, Of
  <2> QED BY <1>7, <1>8, <2>1
<1>9. ASSUME NEW r \in Requests, CheckRefresh(r)
      PROVE  Moves(r)
  <2>1. request[r].at = "refresh"
    BY <1>9 DEF CheckRefresh, At
  <2>2. request[r].sender = "gone" \/ request'[r] # NoRequest
    <3>1. CASE Refuse(r)
      BY <1>1, <3>1, RowFields DEF Refuse, Answer, TypeOK
    <3>2. CASE ~Refuse(r)
      <4>1. request'[r].at \in {"revoke", "rotate"}
        BY <1>1, <1>9, <3>2 DEF CheckRefresh, TypeOK, Handler
      <4> QED BY <4>1, RowFields
    <3> QED BY <3>1, <3>2
  <2>3. /\ \A q \in Requests \ {r} : request'[q] = request[q]
        /\ \/ request'[r] = NoRequest
           \/ request'[r] = Row("refused", request[r].sender, NONE, NONE)
           \/ /\ request'[r].at \in {"revoke", "rotate"}
              /\ request'[r].token = request[r].token
              /\ request'[r].token \in Tokens
              /\ session[family[request[r].token]] = "open"
              /\ request'[r].sender = request[r].sender
              /\ request'[r].reason # request[r].reason =>
                   \/ request'[r].reason = "revoked"
                   \/ request[r].token \in spent
    BY <1>1, <1>9, CheckEffect
  <2> QED BY <2>1, <2>2, <2>3 DEF Answers, Advances
<1>10. ASSUME NEW r \in Requests, Rotate(r)
       PROVE  Moves(r)
  <2>1. request[r].family \in Families
    BY <1>1, <1>10 DEF Rotate, Carried, Carries, At
  <2>2. CASE Succeed(r, request[r].token, request[r].family)
    <3>1. /\ \A q \in Requests \ {r} : request'[q] = request[q]
          /\ request'[r].at = "fetch" /\ request'[r].reason = request[r].reason
          /\ request'[r].token \in Tokens /\ family[request'[r].token] = NONE
          /\ request'[r].sender = request[r].sender
      BY <1>1, <2>1, <2>2, SucceedEffect
    <3> QED BY <1>10, <3>1 DEF Advances
  <2> QED BY <1>6, <1>10, <2>2 DEF Rotate
<1>11. ASSUME NEW r \in Requests, NEW stage \in {"revoke", "revokeTokens"},
              request[r].at \in {"fetch", "revoke"}, Goto(r, stage)
       PROVE  Moves(r)
  <2>1. /\ \A q \in Requests \ {r} : request'[q] = request[q]
        /\ request'[r].at = stage /\ request'[r].reason = request[r].reason
        /\ request'[r].sender = request[r].sender
    BY <1>1, <1>11, GotoEffect DEF Stages
  <2> QED BY <1>11, <2>1 DEF Advances
<1>12. ASSUME NEW r \in Requests, FetchUser(r) \/ RevokeSession(r)
       PROVE  Moves(r)
  <2>1. CASE FetchUser(r)
    <3>1. request[r].token \in Tokens /\ request[r].at = "fetch"
      BY <1>1, <2>1 DEF FetchUser, Carried, Carries, At
    <3> QED BY <1>7, <1>11, <2>1, <3>1 DEF FetchUser
  <2>2. CASE RevokeSession(r)
    <3>1. request[r].at = "revoke" /\ Goto(r, "revokeTokens")
      BY <2>2 DEF RevokeSession, At
    <3> QED BY <1>11, <3>1
  <2> QED BY <1>12, <2>1, <2>2
<1>13. ASSUME NEW r \in Requests, Hear(r)
       PROVE  Moves(r)
  <2>1. /\ \A q \in Requests \ {r} : request'[q] = request[q]
        /\ request'[r] = NoRequest
    BY <1>1, <1>13, NoRequestTyped, RowEffect DEF Hear
  <2> QED BY <1>13, <2>1 DEF Answers
<1>14. ASSUME NEW r \in Requests, Abandon(r)
       PROVE  Moves(r)
  BY <1>1, <1>14, AbandonEffect DEF Answers, LeftAlone
<1>15. ASSUME NEW r \in Requests, RotationFails(r) \/ RevokeTokens(r)
       PROVE  Refuse(r)
  BY <1>15 DEF RotationFails, RevokeTokens
<1>16. CASE Restart
  BY <1>16 DEF Restart
<1>17. ASSUME \/ Deactivate \/ ChangeRole \/ Activate \/ SelectSessions
              \/ RevokeChosen \/ RevokeChosenTokens \/ UNCHANGED vars
              \/ \E f \in Families : Expire(f)
       PROVE  request' = request
  BY <1>17 DEF Deactivate, ChangeRole, Activate, SelectSessions, RevokeChosen,
               RevokeChosenTokens, Expire, vars
<1> QED BY <1>2, <1>3, <1>4, <1>5, <1>6, <1>8, <1>9, <1>10, <1>12, <1>13, <1>14,
           <1>15, <1>16, <1>17 DEF Next

(* A handler that has opened a session did so in this step or before, and   *)
(* one that is admitted was let in while the account was active.            *)
LEMMA StageBefore ==
  ASSUME SInv, [Next]_vars, NEW q \in Requests
  PROVE  /\ request'[q].at = "opened" =>
              \/ OpenSession(q)
              \/ request[q].at = "opened" /\ request'[q].family = request[q].family
         /\ request'[q].at = "admitted" =>
              BeginLogin(q) \/ request[q].at = "admitted"
<1>1. CASE request'[q] \in {request[q], NoRequest}
  BY <1>1, RowFields
<1>2. CASE Begins(q) \/ Answers(q)
  BY <1>2, RowFields DEF Begins, Answers
<1>3. CASE Advances(q) \/ LeftAlone(q)
  BY <1>3 DEF Advances, LeftAlone
<1> QED BY <1>1, <1>2, <1>3, MoveStep

-----------------------------------------------------------------------------
(* The rest of the invariant. *)

LEMMA OneOpenerStep ==
  ASSUME SInv, [Next]_vars
  PROVE  OneOpener'
<1>1. TypeOK /\ Carried /\ OneOpener
  BY DEF SInv
<1>2. SUFFICES ASSUME NEW q \in Requests, NEW r \in Requests,
                      request'[q].at = "opened", request'[r].at = "opened",
                      request'[q].family = request'[r].family, q # r
               PROVE  FALSE
  BY DEF OneOpener, At
<1>3. ASSUME NEW a \in Requests, NEW b \in Requests, a # b, OpenSession(a),
             request'[b].at = "opened", request'[a].family = request'[b].family
      PROVE  FALSE
  <2>1. PICK f \in Families :
          /\ session[f] = "none" /\ request'[a].family = f
          /\ request'[b] = request[b]
    BY <1>1, <1>3, OpenEffect
  <2> QED BY <1>1, <1>3, <2>1 DEF Carried, Carries
<1>4. CASE /\ request[q].at = "opened" /\ request'[q].family = request[q].family
           /\ request[r].at = "opened" /\ request'[r].family = request[r].family
  BY <1>1, <1>2, <1>4 DEF OneOpener, At
<1> QED BY <1>2, <1>3, <1>4, StageBefore

LEMMA OpenedStep ==
  ASSUME SInv, [Next]_vars
  PROVE  Opened'
<1> USE DEF browser, account
<1>1. TypeOK /\ Carried /\ Opened /\ Grows
  BY GrowsStep DEF SInv
<1>2. /\ admin.chosen \subseteq Families /\ known \subseteq Families
      /\ \A f \in Families : session[f] # "none" => session'[f] # "none"
      /\ \A f \in Families : session[f] \in Revoked => session'[f] \in Revoked
  BY <1>1 DEF TypeOK, Grows
<1>3. CASE admin' = admin /\ known' = known
  BY <1>1, <1>2, <1>3 DEF Opened
<1>4. ASSUME NEW r \in Requests, Hear(r)
      PROVE  Opened'
  <2>1. \A f \in known' : f \in Families /\ session[f] # "none"
    <3>1. CASE At(r, "signed") /\ known' = known \cup {request[r].family}
      <4>1. /\ request[r].token \in Tokens /\ request[r].family \in Families
            /\ family[request[r].token] = request[r].family
        BY <1>1, <3>1 DEF Carried, Carries, At
      <4>2. session[request[r].family] # "none"
        BY <1>1, <4>1, NoneAssumption DEF TypeOK
      <4> QED BY <1>1, <1>2, <3>1, <4>1, <4>2 DEF Opened
    <3> QED BY <1>1, <1>2, <1>4, <3>1 DEF Hear, Opened
  <2>2. admin' = admin
    BY <1>4 DEF Hear
  <2> QED BY <1>1, <1>2, <2>1, <2>2 DEF Opened
<1>5. CASE Deactivate \/ ChangeRole
  <2>1. known' = known /\ admin' = [admin EXCEPT !.at = "changed"]
    BY <1>5 DEF Deactivate, ChangeRole, AdminGoes
  <2>2. admin'.at = "changed" /\ admin'.chosen = admin.chosen
    BY <1>1, <2>1 DEF TypeOK
  <2> QED BY <1>1, <1>2, <2>1, <2>2 DEF Opened
<1>6. CASE SelectSessions
  <2>1. /\ known' = known /\ admin'.at = "selected"
        /\ \A f \in admin'.chosen : f \in Families /\ session[f] # "none"
    BY <1>6 DEF SelectSessions
  <2> QED BY <1>1, <1>2, <2>1 DEF Opened
<1>7. CASE RevokeChosen
  <2>1. known' = known /\ admin' = [admin EXCEPT !.at = "marked"]
    BY <1>7 DEF RevokeChosen, AdminGoes
  <2>2. admin'.at = "marked" /\ admin'.chosen = admin.chosen
    BY <1>1, <2>1 DEF TypeOK
  <2>3. \A f \in admin'.chosen : session'[f] \in Revoked
    BY <1>2, <1>7, <2>2 DEF RevokeChosen, Revoked
  <2> QED BY <1>1, <1>2, <2>1, <2>2, <2>3 DEF Opened
<1>8. CASE RevokeChosenTokens \/ Restart
  <2>1. known' = known /\ admin'.at = "idle" /\ admin'.chosen = {}
    BY <1>8 DEF RevokeChosenTokens, Restart, Idle
  <2> QED BY <1>1, <1>2, <2>1 DEF Opened
<1>9. ASSUME NEW r \in Requests,
             \/ BeginLogin(r) \/ OpenSession(r) \/ StoreToken(r)
             \/ BeginRefresh(r) \/ CheckRefresh(r) \/ Rotate(r)
             \/ RotationFails(r) \/ FetchUser(r) \/ BeginLogout(r)
             \/ AccessExpired(r) \/ RevokeSession(r) \/ RevokeTokens(r)
             \/ Abandon(r)
      PROVE  admin' = admin /\ known' = known
  BY <1>9 DEF BeginLogin, OpenSession, StoreToken, BeginRefresh, CheckRefresh,
              Rotate, RotationFails, FetchUser, BeginLogout, AccessExpired,
              RevokeSession, RevokeTokens, Abandon
<1>10. ASSUME Activate \/ UNCHANGED vars \/ \E f \in Families : Expire(f)
       PROVE  admin' = admin /\ known' = known
  BY <1>10 DEF Activate, Expire, vars
<1> QED BY <1>3, <1>4, <1>5, <1>6, <1>7, <1>8, <1>9, <1>10 DEF Next

LEMMA OneLiveStep ==
  ASSUME SInv, [Next]_vars
  PROVE  OneLive'
<1> USE DEF browser, account
<1>1. TypeOK /\ Carried /\ Opened /\ OneLive
  BY DEF SInv
<1>2. CASE UNCHANGED <<session, family, spent>>
  BY <1>1, <1>2 DEF OneLive, Good
<1>3. ASSUME family' = family,
             \A f \in Families : session'[f] = "open" => session[f] = "open",
             \A t \in Tokens : t \in spent' /\ t \notin spent =>
               /\ family[t] \in Families /\ session'[family[t]] # "open",
             spent \subseteq spent'
      PROVE  OneLive'
  BY <1>1, <1>3 DEF OneLive, Good
<1>4. ASSUME NEW r \in Requests, OpenSession(r)
      PROVE  OneLive'
  <2>1. PICK f \in Families :
          session[f] = "none" /\ session' = [session EXCEPT ![f] = "open"]
    BY <1>1, <1>4, OpenEffect
  <2>2. family' = family /\ spent' = spent
    BY <1>4 DEF OpenSession
  <2>3. \A u \in Tokens : family[u] # f
    BY <1>1, <2>1, NoneAssumption DEF TypeOK
  <2>4. \A g \in Families : session'[g] = "open" => g = f \/ session[g] = "open"
    BY <1>1, <2>1 DEF TypeOK
  <2> QED BY <1>1, <2>2, <2>3, <2>4 DEF OneLive, Good
<1>5. ASSUME NEW r \in Requests, StoreToken(r)
      PROVE  OneLive'
  <2>1. PICK n \in Tokens :
          /\ family[n] = NONE /\ family' = [family EXCEPT ![n] = request[r].family]
          /\ session' = session /\ spent' = spent
    BY <1>5 DEF StoreToken, Of
  <2>2. PICK f \in Families :
          f = request[r].family /\ \A u \in Tokens : family[u] # f
    BY <1>1, <1>5 DEF StoreToken, Carried, Carries, At
  <2>3. /\ n \notin spent /\ family'[n] = f
        /\ \A u \in Tokens : u # n => family'[u] = family[u]
    BY <1>1, <2>1, <2>2 DEF TypeOK
  <2>4. Good(f, n)'
    BY <2>1, <2>2, <2>3 DEF Good
  <2>5. ASSUME NEW g \in Families, session[g] = "open", g # f
        PROVE  (\A u \in Tokens : family'[u] # g) \/ \E t \in Tokens : Good(g, t)'
    <3>1. \A u \in Tokens : family'[u] = g <=> family[u] = g
      BY <2>1, <2>3, <2>5, NoneAssumption
    <3>2. CASE \A u \in Tokens : family[u] # g
      BY <3>1, <3>2
    <3>3. ASSUME NEW t \in Tokens, Good(g, t)
          PROVE  Good(g, t)'
      BY <2>1, <3>1, <3>3 DEF Good
    <3> QED BY <1>1, <2>5, <3>2, <3>3 DEF OneLive
  <2> QED BY <2>1, <2>2, <2>4, <2>5 DEF OneLive
<1>6. ASSUME NEW r \in Requests, Rotate(r)
      PROVE  OneLive'
  <2>1. PICK t \in Tokens, f \in Families :
          t = request[r].token /\ f = request[r].family /\ family[t] = f
    BY <1>1, <1>6 DEF Rotate, Carried, Carries, At
  <2>2. CASE /\ session' = [session EXCEPT ![f] = "replay"]
             /\ spent' = spent \cup Of(f) /\ UNCHANGED family
    <3>1. session'[f] # "open"
      BY <1>1, <2>1, <2>2 DEF TypeOK
    <3>2. \A g \in Families : session'[g] = "open" => session[g] = "open"
      BY <1>1, <2>1, <2>2 DEF TypeOK
    <3> QED BY <1>3, <2>1, <2>2, <3>1, <3>2 DEF Of
  <2>3. CASE session[f] = "open" /\ t \notin spent /\ Succeed(r, t, f)
    <3>1. PICK n \in Tokens :
             /\ family[n] = NONE /\ family' = [family EXCEPT ![n] = f]
             /\ spent' = spent \cup {t} /\ session' = session
      BY <1>1, <2>1, <2>3, SucceedEffect
    <3>2. /\ n \notin spent /\ n # t /\ family'[n] = f
          /\ \A u \in Tokens : u # n => family'[u] = family[u]
      BY <1>1, <2>1, <3>1, NoneAssumption DEF TypeOK
    <3>3. \A u \in Tokens : family[u] = f /\ u \notin spent => u = t
      BY <1>1, <2>1, <2>3 DEF OneLive, Good
    <3>4. Good(f, n)'
      BY <3>1, <3>2, <3>3 DEF Good
    <3>5. ASSUME NEW g \in Families, session[g] = "open", g # f
          PROVE  (\A u \in Tokens : family'[u] # g) \/ \E u \in Tokens : Good(g, u)'
      <4>1. \A u \in Tokens : /\ family'[u] = g <=> family[u] = g
                              /\ family[u] = g => (u \in spent' <=> u \in spent)
        BY <2>1, <3>1, <3>2, <3>5, NoneAssumption
      <4>2. CASE \A u \in Tokens : family[u] # g
        BY <4>1, <4>2
      <4>3. ASSUME NEW u \in Tokens, Good(g, u)
            PROVE  Good(g, u)'
        BY <4>1, <4>3 DEF Good
      <4> QED BY <1>1, <3>5, <4>2, <4>3 DEF OneLive
    <3> QED BY <3>1, <3>4, <3>5 DEF OneLive
  <2> QED BY <1>2, <1>6, <2>1, <2>2, <2>3 DEF Rotate
<1>7. ASSUME NEW r \in Requests, RevokeSession(r)
      PROVE  OneLive'
  <2>1. /\ request[r].family \in Families /\ request[r].reason # "open"
        /\ session' = [session EXCEPT ![request[r].family] =
                         IF session[request[r].family] = "open" THEN request[r].reason
                         ELSE session[request[r].family]]
    BY <1>1, <1>7 DEF RevokeSession, Carried, Carries, At, TypeOK, Handler, Revoked
  <2>2. \A f \in Families : session'[f] = "open" => session[f] = "open"
    BY <1>1, <2>1 DEF TypeOK
  <2>3. family' = family /\ spent' = spent
    BY <1>7 DEF RevokeSession
  <2> QED BY <1>3, <2>2, <2>3
<1>8. ASSUME NEW r \in Requests, RevokeTokens(r)
      PROVE  OneLive'
  <2>1. /\ request[r].family \in Families /\ session[request[r].family] # "open"
        /\ session' = session /\ family' = family
        /\ spent' = spent \cup Of(request[r].family)
    BY <1>1, <1>8 DEF RevokeTokens, Carried, Carries, At, Revoked
  <2> QED BY <1>3, <2>1 DEF Of
<1>9. CASE RevokeChosen
  <2>1. /\ \A f \in Families : session'[f] = "open" => session[f] = "open"
        /\ family' = family /\ spent' = spent
    BY <1>9 DEF RevokeChosen
  <2> QED BY <1>3, <2>1
<1>10. CASE RevokeChosenTokens
  <2>1. /\ session' = session /\ family' = family
        /\ spent' = spent \cup UNION {Of(f) : f \in admin.chosen}
        /\ \A f \in admin.chosen : f \in Families /\ session[f] # "open"
    BY <1>1, <1>10 DEF RevokeChosenTokens, Opened, TypeOK, Revoked
  <2> QED BY <1>3, <2>1 DEF Of
<1>11. ASSUME NEW r \in Requests,
              \/ BeginLogin(r) \/ BeginRefresh(r) \/ CheckRefresh(r)
              \/ RotationFails(r) \/ FetchUser(r) \/ BeginLogout(r)
              \/ AccessExpired(r) \/ Hear(r) \/ Abandon(r)
       PROVE  UNCHANGED <<session, family, spent>>
  BY <1>11 DEF BeginLogin, BeginRefresh, CheckRefresh, RotationFails, FetchUser,
               BeginLogout, AccessExpired, Hear, Abandon
<1>12. ASSUME \/ Deactivate \/ ChangeRole \/ Activate \/ SelectSessions
              \/ Restart \/ UNCHANGED vars \/ \E f \in Families : Expire(f)
       PROVE  UNCHANGED <<session, family, spent>>
  BY <1>12 DEF Deactivate, ChangeRole, Activate, SelectSessions, Restart, Expire,
               vars
<1> QED BY <1>2, <1>4, <1>5, <1>6, <1>7, <1>8, <1>9, <1>10, <1>11, <1>12 DEF Next

LEMMA InitInvariant ==
  ASSUME Init
  PROVE  SInv
<1>1. TypeOK
  BY NoRequestTyped DEF Init, TypeOK, Idle
<1>2. \A r \in Requests : request[r].at = "off"
  BY RowFields DEF Init
<1>3. /\ \A t \in Tokens : family[t] = NONE
      /\ \A f \in Families : session[f] = "none"
      /\ admin.at = "idle" /\ admin.chosen = {} /\ known = {}
  BY DEF Init, Idle
<1>4. Carried
  BY <1>2 DEF Carried, Carries
<1>5. OneOpener
  BY <1>2 DEF OneOpener, At
<1>6. Opened
  BY <1>3 DEF Opened
<1>7. OneLive
  BY <1>3 DEF OneLive
<1> QED BY <1>1, <1>4, <1>5, <1>6, <1>7 DEF SInv

-----------------------------------------------------------------------------
(* The invariant holds, with what follows from it. *)

(* Every reachable state satisfies the inductive invariant of the handlers, *)
(* the sessions and their tokens.                                           *)
THEOREM Invariance == Spec => []SInv
<1>1. SInv /\ [Next]_vars => SInv'
  BY TypeStep, CarriedStep, OneOpenerStep, OpenedStep, OneLiveStep DEF SInv
<1> QED BY <1>1, InitInvariant, PTL DEF Spec

(* The tables, the handlers, the browser and the administrator keep their   *)
(* types; a stored token belongs to a session that was opened, and only     *)
(* stored tokens are spent or held (db.py:1275, token_auth.py:111).         *)
THEOREM SessionsTyped == Spec => []TypeOK
<1>1. SInv => TypeOK
  BY DEF SInv
<1> QED BY <1>1, Invariance, PTL

(* An open session has exactly one token that can be exchanged, for any     *)
(* number of handlers between their reads and their writes (db.py:1275).    *)
THEOREM LiveTokenUnique == Spec => []OneLiveToken
<1>1. ASSUME SInv
      PROVE  OneLiveToken
  <2>1. SUFFICES ASSUME NEW f \in Families, session[f] = "open", Of(f) # {}
                 PROVE  \E t \in Tokens : Of(f) \ spent = {t}
    BY DEF OneLiveToken
  <2>2. PICK t \in Tokens : Good(f, t)
    BY <1>1, <2>1 DEF SInv, OneLive, Of
  <2>3. Of(f) \ spent = {t}
    BY <2>2 DEF Good, Of
  <2> QED BY <2>3
<1> QED BY <1>1, Invariance, PTL

(* A revoked session stays revoked, and none of its tokens is exchanged any *)
(* more (db.py:1263, token_auth.py:157).                                    *)
THEOREM RevocationIsFinal == Spec => RevokedIsFinal
<1>1. ASSUME SInv, [Next]_vars
      PROVE  \A f \in Families : session[f] \in Revoked =>
               /\ session'[f] \in Revoked
               /\ Of(f) # {} => Of(f)' = Of(f)
  <2>1. Grows /\ Carried
    BY <1>1, GrowsStep DEF SInv
  <2>2. SUFFICES ASSUME NEW f \in Families, session[f] \in Revoked
                 PROVE  /\ session'[f] \in Revoked
                        /\ Of(f) # {} => Of(f)' = Of(f)
    OBVIOUS
  <2>3. ASSUME NEW r \in Requests, StoreToken(r), request[r].family = f
        PROVE  Of(f) = {}
    BY <2>1, <2>3 DEF StoreToken, Carried, Carries, At, Of
  <2>4. session[f] # "open"
    BY <2>2 DEF Revoked
  <2> QED BY <2>1, <2>2, <2>3, <2>4 DEF Grows
<1>2. SInv /\ [Next]_vars =>
        [\A f \in Families : session[f] \in Revoked =>
           /\ session'[f] \in Revoked
           /\ Of(f) # {} => Of(f)' = Of(f)]_vars
  BY <1>1
<1> QED BY <1>2, Invariance, PTL DEF Spec, RevokedIsFinal

-----------------------------------------------------------------------------
(* The two properties of AuthSessions that rest on what the browser and the *)
(* administrator do: a browser whose refreshes are all answered is never    *)
(* taken for a replay, and a disabled account is signed out.                *)

(* The token can be exchanged, if its session is open. *)
Unspent(t) == t # NONE /\ session[family[t]] = "open" => t \notin spent

(* A handler with a token that is, was or will be the cookie. *)
Holds(h) == h.at \in {"refresh", "rotate", "fetch", "signed"}

(* One tab at a time is inside the lock. *)
Locks ==
  \A q, r \in Requests :
    request[q].sender = "lock" /\ request[r].sender = "lock" => q = r

(* A refresh has its tab waiting, and a token that nobody has exchanged.    *)
Straight(h) ==
  /\ h.reason # "replay"
  /\ h.at = "off" => h.sender = "gone"
  /\ h.at \in {"refresh", "rotate", "fetch"} => h.sender = "lock"
  /\ Holds(h) => Unspent(h.token)
  /\ h.at \in {"fetch", "signed"} => h.token # cookie

Apart ==
  \A q, r \in Requests :
    /\ q # r /\ Holds(request[q]) /\ Holds(request[r])
    /\ request[q].token = request[r].token
    => request[q].token = NONE

(* A cookie that was exchanged is about to be replaced, and nobody inside   *)
(* the lock is about to send it.                                            *)
Replaced ==
  \/ Unspent(cookie)
  \/ \E r \in Requests : /\ request[r].sender = "lock"
                         /\ request[r].at \notin {"refresh", "rotate"}

Honest ==
  /\ \A f \in Families : session[f] # "replay"
  /\ \A r \in Requests : Straight(request[r])
  /\ Apart
  /\ Replaced

(* While an account is disabled: nobody is admitted once the sessions have  *)
(* been read, and what is still open then is chosen to be revoked.          *)
Closing ==
  ~active /\ ~slipped =>
    /\ admin.at # "changed" => \A r \in Requests : request[r].at # "admitted"
    /\ admin.at \in {"idle", "marked"} => \A f \in Families : session[f] # "open"
    /\ admin.at = "selected" =>
         \A f \in Families : session[f] = "open" => f \in admin.chosen

GInv == SInv /\ Closing /\ Locks /\ (~lost => Honest)

-----------------------------------------------------------------------------
(* A disabled account. *)

(* A session opens in OpenSession only. *)
LEMMA OpensOnly ==
  ASSUME SInv, [Next]_vars, NEW f \in Families,
         session'[f] = "open", session[f] # "open"
  PROVE  \E r \in Requests : OpenSession(r)
<1> USE DEF browser, account
<1>1. TypeOK /\ Carried
  BY DEF SInv
<1>2. ASSUME NEW r \in Requests, Rotate(r)
      PROVE  FALSE
  <2>1. request[r].family \in Families
    BY <1>1, <1>2 DEF Rotate, Carried, Carries, At
  <2> QED BY <1>1, <1>2, <2>1 DEF Rotate, Succeed, TypeOK
<1>3. ASSUME NEW r \in Requests, RevokeSession(r)
      PROVE  FALSE
  <2>1. request[r].family \in Families /\ request[r].reason # "open"
    BY <1>1, <1>3 DEF RevokeSession, Carried, Carries, At, TypeOK, Handler, Revoked
  <2>2. session' = [session EXCEPT ![request[r].family] =
                     IF session[request[r].family] = "open" THEN request[r].reason
                     ELSE session[request[r].family]]
    BY <1>3 DEF RevokeSession
  <2> QED BY <1>1, <2>1, <2>2 DEF TypeOK
<1>4. CASE RevokeChosen
  BY <1>4 DEF RevokeChosen
<1>5. ASSUME NEW r \in Requests,
             \/ BeginLogin(r) \/ StoreToken(r) \/ BeginRefresh(r) \/ CheckRefresh(r)
             \/ RotationFails(r) \/ FetchUser(r) \/ BeginLogout(r)
             \/ AccessExpired(r) \/ RevokeTokens(r) \/ Hear(r) \/ Abandon(r)
      PROVE  session' = session
  BY <1>5 DEF BeginLogin, StoreToken, BeginRefresh, CheckRefresh, RotationFails,
              FetchUser, BeginLogout, AccessExpired, RevokeTokens, Hear, Abandon
<1>6. ASSUME \/ Deactivate \/ ChangeRole \/ Activate \/ SelectSessions
             \/ RevokeChosenTokens \/ Restart \/ UNCHANGED vars
             \/ \E g \in Families : Expire(g)
      PROVE  session' = session
  BY <1>6 DEF Deactivate, ChangeRole, Activate, SelectSessions,
              RevokeChosenTokens, Restart, Expire, vars
<1> QED BY <1>2, <1>3, <1>4, <1>5, <1>6 DEF Next

LEMMA ClosingStep ==
  ASSUME SInv, Closing, [Next]_vars
  PROVE  Closing'
<1> USE DEF browser, account
<1>1. TypeOK
  BY DEF SInv
<1>2. SUFFICES ASSUME ~active', ~slipped'
               PROVE  Closing'
  BY DEF Closing
<1>3. CASE active' = active /\ slipped' = slipped /\ admin' = admin
  <2>1. CASE admin.at = "changed"
    BY <1>3, <2>1 DEF Closing
  <2>2. CASE admin.at # "changed"
    <3>1. \A r \in Requests : request[r].at # "admitted"
      BY <1>2, <1>3, <2>2 DEF Closing
    <3>2. \A r \in Requests : ~OpenSession(r) /\ ~BeginLogin(r)
      BY <1>2, <1>3, <3>1 DEF OpenSession, BeginLogin, At
    <3>3. \A r \in Requests : request'[r].at # "admitted"
      BY <3>1, <3>2, StageBefore
    <3>4. \A f \in Families : session'[f] = "open" => session[f] = "open"
      BY <3>2, OpensOnly
    <3> QED BY <1>2, <1>3, <2>2, <3>3, <3>4 DEF Closing
  <2> QED BY <2>1, <2>2
<1>4. CASE Deactivate \/ ChangeRole
  <2>1. admin'.at = "changed"
    BY <1>1, <1>4 DEF Deactivate, ChangeRole, AdminGoes, TypeOK
  <2> QED BY <2>1 DEF Closing
<1>5. CASE SelectSessions
  <2>1. /\ admin'.at = "selected" /\ session' = session /\ request' = request
        /\ admin'.chosen = {f \in Families : session[f] = "open"}
        /\ \A r \in Requests : request[r].at # "admitted"
    BY <1>2, <1>5 DEF SelectSessions, At
  <2> QED BY <2>1 DEF Closing
<1>6. CASE RevokeChosen
  <2>1. /\ admin.at = "selected" /\ active' = active /\ slipped' = slipped
        /\ request' = request /\ admin'.at = "marked"
        /\ session' = [f \in Families |->
                         IF f \in admin.chosen THEN "revoked" ELSE session[f]]
    BY <1>1, <1>6 DEF RevokeChosen, AdminGoes, TypeOK
  <2>2. \A f \in Families : session[f] = "open" => f \in admin.chosen
    BY <1>2, <2>1 DEF Closing
  <2>3. \A r \in Requests : request[r].at # "admitted"
    BY <1>2, <2>1 DEF Closing
  <2> QED BY <2>1, <2>2, <2>3 DEF Closing
<1>7. CASE RevokeChosenTokens
  <2>1. /\ admin.at = "marked" /\ active' = active /\ slipped' = slipped
        /\ request' = request /\ session' = session /\ admin'.at = "idle"
    BY <1>7 DEF RevokeChosenTokens, Idle
  <2> QED BY <1>2, <2>1 DEF Closing
<1>8. CASE Restart
  <2>1. /\ admin.at \in {"idle", "marked"} /\ active' = active /\ ~slipped
        /\ session' = session /\ admin'.at = "idle"
        /\ \A r \in Requests : request'[r] = NoRequest
    BY <1>1, <1>2, <1>8 DEF Restart, Idle, TypeOK
  <2> QED BY <1>2, <2>1, RowFields DEF Closing
<1>9. CASE Activate
  BY <1>2, <1>9 DEF Activate
<1>10. ASSUME NEW r \in Requests,
              \/ BeginLogin(r) \/ OpenSession(r) \/ StoreToken(r)
              \/ BeginRefresh(r) \/ CheckRefresh(r) \/ Rotate(r)
              \/ RotationFails(r) \/ FetchUser(r) \/ BeginLogout(r)
              \/ AccessExpired(r) \/ RevokeSession(r) \/ RevokeTokens(r)
              \/ Hear(r) \/ Abandon(r)
       PROVE  active' = active /\ slipped' = slipped /\ admin' = admin
  BY <1>10 DEF BeginLogin, OpenSession, StoreToken, BeginRefresh, CheckRefresh,
               Rotate, RotationFails, FetchUser, BeginLogout, AccessExpired,
               RevokeSession, RevokeTokens, Hear, Abandon
<1>11. ASSUME UNCHANGED vars \/ \E f \in Families : Expire(f)
       PROVE  active' = active /\ slipped' = slipped /\ admin' = admin
  BY <1>11 DEF Expire, vars
<1> QED BY <1>3, <1>4, <1>5, <1>6, <1>7, <1>8, <1>9, <1>10, <1>11 DEF Next

-----------------------------------------------------------------------------
(* The lock. *)

LEMMA LocksStep ==
  ASSUME SInv, Locks, [Next]_vars
  PROVE  Locks'
<1>1. ASSUME NEW q \in Requests, request'[q].sender = "lock"
      PROVE  BeginRefresh(q) \/ request[q].sender = "lock"
  <2>1. CASE request'[q] \in {request[q], NoRequest}
    BY <1>1, <2>1, RowFields
  <2>2. CASE Begins(q) \/ Answers(q)
    BY <1>1, <2>2, RowFields DEF Begins, Answers
  <2>3. CASE Advances(q) \/ LeftAlone(q)
    BY <1>1, <2>3 DEF Advances, LeftAlone
  <2> QED BY <2>1, <2>2, <2>3, MoveStep
<1>2. ASSUME NEW q \in Requests, NEW r \in Requests, BeginRefresh(q), q # r
      PROVE  request'[r].sender # "lock"
  <2>1. request[r].sender # "lock" /\ ~BeginRefresh(r)
    <3>1. \A p \in Requests : request[p].sender # "lock"
      BY <1>2 DEF BeginRefresh
    <3>2. request' = [request EXCEPT ![q] = Row("refresh", "lock", cookie, NONE)]
      BY <1>2 DEF BeginRefresh, Begin
    <3>3. request'[r] = request[r]
      BY <1>2, <3>2 DEF SInv, TypeOK
    <3>4. ASSUME BeginRefresh(r)
          PROVE  FALSE
      <4>1. request' = [request EXCEPT ![r] = Row("refresh", "lock", cookie, NONE)]
        BY <3>4 DEF BeginRefresh, Begin
      <4>2. request'[r].sender = "lock"
        BY <4>1, RowFields DEF SInv, TypeOK
      <4> QED BY <3>1, <3>3, <4>2
    <3> QED BY <3>1, <3>4
  <2> QED BY <1>1, <2>1
<1> QED BY <1>1, <1>2 DEF Locks

-----------------------------------------------------------------------------
(* Tokens. *)

(* What is open after a step, and had tokens, was open before.              *)
LEMMA OpenBefore ==
  ASSUME SInv, [Next]_vars, NEW t \in Tokens, family[t] # NONE,
         session'[family'[t]] = "open"
  PROVE  family'[t] = family[t] /\ session[family[t]] = "open"
<1>1. TypeOK /\ Grows
  BY GrowsStep DEF SInv
<1>2. family'[t] = family[t] /\ family[t] \in Families
  BY <1>1 DEF TypeOK, Grows
<1>3. session[family[t]] \in {"open"} \cup Revoked
  BY <1>1, <1>2 DEF TypeOK
<1>4. session[family[t]] \notin Revoked
  BY <1>1, <1>2 DEF Grows, Revoked
<1> QED BY <1>2, <1>3, <1>4

(* A good token of an open session is spent only when it is exchanged.      *)
LEMMA SpentBy ==
  ASSUME SInv, [Next]_vars, NEW t \in Tokens, t \in spent', t \notin spent,
         session[family[t]] = "open", session'[family[t]] = "open"
  PROVE  \E r \in Requests :
           /\ request[r].at = "rotate" /\ request[r].token = t
           /\ request'[r].at = "fetch" /\ request'[r].sender = request[r].sender
<1> USE DEF browser, account
<1>1. TypeOK /\ Carried /\ Opened
  BY DEF SInv
<1>2. ASSUME NEW r \in Requests, Rotate(r)
      PROVE  /\ request[r].at = "rotate" /\ request[r].token = t
             /\ request'[r].at = "fetch" /\ request'[r].sender = request[r].sender
  <2>1. /\ request[r].family \in Families /\ request[r].token \in Tokens
        /\ family[request[r].token] = request[r].family /\ request[r].at = "rotate"
    BY <1>1, <1>2 DEF Rotate, Carried, Carries, At
  <2>2. CASE spent' = spent
    BY <2>2
  <2>3. CASE /\ session' = [session EXCEPT ![request[r].family] = "replay"]
             /\ spent' = spent \cup Of(request[r].family)
    BY <1>1, <2>1, <2>3 DEF Of, TypeOK
  <2>4. CASE Succeed(r, request[r].token, request[r].family)
    <3>1. /\ spent' = spent \cup {request[r].token}
          /\ request'[r].at = "fetch" /\ request'[r].sender = request[r].sender
      BY <1>1, <2>1, <2>4, SucceedEffect
    <3> QED BY <2>1, <3>1
  <2> QED BY <1>2, <2>2, <2>3, <2>4 DEF Rotate
<1>3. ASSUME NEW r \in Requests, RevokeTokens(r)
      PROVE  FALSE
  BY <1>1, <1>3 DEF RevokeTokens, Carried, Carries, At, Of, Revoked
<1>4. CASE RevokeChosenTokens
  BY <1>1, <1>4 DEF RevokeChosenTokens, Opened, Of, Revoked
<1>5. ASSUME NEW r \in Requests,
             \/ BeginLogin(r) \/ OpenSession(r) \/ StoreToken(r)
             \/ BeginRefresh(r) \/ CheckRefresh(r)
             \/ RotationFails(r) \/ FetchUser(r) \/ BeginLogout(r)
             \/ AccessExpired(r) \/ RevokeSession(r) \/ Hear(r) \/ Abandon(r)
      PROVE  spent' = spent
  BY <1>5 DEF BeginLogin, OpenSession, StoreToken, BeginRefresh, CheckRefresh,
              RotationFails, FetchUser, BeginLogout, AccessExpired,
              RevokeSession, Hear, Abandon
<1>6. ASSUME \/ Deactivate \/ ChangeRole \/ Activate \/ SelectSessions
             \/ RevokeChosen \/ Restart \/ UNCHANGED vars
             \/ \E f \in Families : Expire(f)
      PROVE  spent' = spent
  BY <1>6 DEF Deactivate, ChangeRole, Activate, SelectSessions, RevokeChosen,
              Restart, Expire, vars
<1> QED BY <1>2, <1>3, <1>4, <1>5, <1>6 DEF Next

(* A token that can be exchanged stays so, unless this is what happens.     *)
LEMMA UnspentStep ==
  ASSUME SInv, [Next]_vars, NEW t \in Tokens \cup {NONE},
         t # NONE => family[t] # NONE, Unspent(t)
  PROVE  \/ Unspent(t)'
         \/ \E r \in Requests :
              /\ request[r].at = "rotate" /\ request[r].token = t
              /\ request'[r].at = "fetch" /\ request'[r].sender = request[r].sender
<1>1. SUFFICES ASSUME t # NONE, session'[family'[t]] = "open", t \in spent'
               PROVE  \E r \in Requests :
                        /\ request[r].at = "rotate" /\ request[r].token = t
                        /\ request'[r].at = "fetch"
                        /\ request'[r].sender = request[r].sender
  BY DEF Unspent
<1>2. family'[t] = family[t] /\ session[family[t]] = "open"
  BY <1>1, OpenBefore
<1>3. t \notin spent
  BY <1>1, <1>2 DEF Unspent
<1> QED BY <1>1, <1>2, <1>3, SpentBy

(* The cookie changes when an answer is heard. *)
LEMMA CookieStep ==
  ASSUME SInv, [Next]_vars
  PROVE  \/ cookie' = cookie /\ \A r \in Requests : ~Hear(r)
         \/ \E r \in Requests :
              /\ Hear(r) /\ request'[r] = NoRequest
              /\ \/ cookie' = NONE
                 \/ request[r].at = "signed" /\ cookie' = request[r].token
<1> USE DEF browser, account
<1>1. TypeOK
  BY DEF SInv
<1>2. ASSUME NEW r \in Requests, Hear(r)
      PROVE  /\ request'[r] = NoRequest
             /\ \/ cookie' = NONE
                \/ request[r].at = "signed" /\ cookie' = request[r].token
  <2>1. request' = [request EXCEPT ![r] = NoRequest]
    BY <1>2 DEF Hear
  <2> QED BY <1>1, <1>2, <2>1 DEF Hear, At, TypeOK
<1>3. ASSUME NEW r \in Requests,
             \/ BeginLogin(r) \/ OpenSession(r) \/ StoreToken(r)
             \/ BeginRefresh(r) \/ CheckRefresh(r) \/ Rotate(r)
             \/ RotationFails(r) \/ FetchUser(r) \/ BeginLogout(r)
             \/ AccessExpired(r) \/ RevokeSession(r) \/ RevokeTokens(r)
             \/ Abandon(r)
      PROVE  cookie' = cookie
  BY <1>3 DEF BeginLogin, OpenSession, StoreToken, BeginRefresh, CheckRefresh,
              Rotate, RotationFails, FetchUser, BeginLogout, AccessExpired,
              RevokeSession, RevokeTokens, Abandon
<1>4. ASSUME \/ Deactivate \/ ChangeRole \/ Activate \/ SelectSessions
             \/ RevokeChosen \/ RevokeChosenTokens \/ Restart \/ UNCHANGED vars
             \/ \E f \in Families : Expire(f)
      PROVE  cookie' = cookie
  BY <1>4 DEF Deactivate, ChangeRole, Activate, SelectSessions, RevokeChosen,
              RevokeChosenTokens, Restart, Expire, vars
<1> QED BY <1>2, <1>3, <1>4 DEF Next

-----------------------------------------------------------------------------
(* An honest browser. *)

LEMMA LostStep ==
  ASSUME [Next]_vars, lost
  PROVE  lost'
<1> USE DEF browser, account
<1>1. ASSUME NEW r \in Requests,
             \/ BeginLogin(r) \/ OpenSession(r) \/ StoreToken(r)
             \/ BeginRefresh(r) \/ CheckRefresh(r) \/ Rotate(r)
             \/ RotationFails(r) \/ FetchUser(r) \/ BeginLogout(r)
             \/ AccessExpired(r) \/ RevokeSession(r) \/ RevokeTokens(r)
             \/ Hear(r) \/ Abandon(r)
      PROVE  lost'
  BY <1>1 DEF BeginLogin, OpenSession, StoreToken, BeginRefresh, CheckRefresh,
              Rotate, RotationFails, FetchUser, BeginLogout, AccessExpired,
              RevokeSession, RevokeTokens, Hear, Abandon
<1>2. ASSUME \/ Deactivate \/ ChangeRole \/ Activate \/ SelectSessions
             \/ RevokeChosen \/ RevokeChosenTokens \/ Restart \/ UNCHANGED vars
             \/ \E f \in Families : Expire(f)
      PROVE  lost'
  BY <1>2 DEF Deactivate, ChangeRole, Activate, SelectSessions, RevokeChosen,
              RevokeChosenTokens, Restart, Expire, vars
<1> QED BY <1>1, <1>2 DEF Next

(* Under the assumption that nothing was lost, no step finds a replay. *)
LEMMA NoReplayStep ==
  ASSUME SInv, Honest, [Next]_vars, NEW f \in Families
  PROVE  session'[f] # "replay"
<1> USE DEF browser, account
<1>1. TypeOK /\ Carried
  BY DEF SInv
<1>2. session[f] # "replay" /\ \A r \in Requests : Straight(request[r])
  BY DEF Honest
<1>3. ASSUME NEW r \in Requests, OpenSession(r)
      PROVE  session'[f] # "replay"
  <2>1. PICK g \in Families : session' = [session EXCEPT ![g] = "open"]
    BY <1>1, <1>3, OpenEffect
  <2> QED BY <1>1, <1>2, <2>1 DEF TypeOK
<1>4. ASSUME NEW r \in Requests, Rotate(r)
      PROVE  session'[f] # "replay"
  <2>1. /\ request[r].family \in Families /\ request[r].token \in Tokens
        /\ family[request[r].token] = request[r].family /\ request[r].at = "rotate"
    BY <1>1, <1>4 DEF Rotate, Carried, Carries, At
  <2>2. ~(session[request[r].family] = "open" /\ request[r].token \in spent)
    BY <1>2, <2>1, NoneAssumption DEF Straight, Holds, Unspent
  <2>3. session' = session
    BY <1>4, <2>2 DEF Rotate, Succeed
  <2> QED BY <1>2, <2>3
<1>5. ASSUME NEW r \in Requests, RevokeSession(r)
      PROVE  session'[f] # "replay"
  <2>1. request[r].family \in Families /\ request[r].reason # "replay"
    BY <1>1, <1>2, <1>5 DEF RevokeSession, Carried, Carries, At, Straight
  <2>2. session' = [session EXCEPT ![request[r].family] =
                     IF session[request[r].family] = "open" THEN request[r].reason
                     ELSE session[request[r].family]]
    BY <1>5 DEF RevokeSession
  <2>3. session[request[r].family] # "replay"
    BY <2>1 DEF Honest
  <2> QED BY <1>1, <1>2, <2>1, <2>2, <2>3 DEF TypeOK
<1>6. CASE RevokeChosen
  BY <1>2, <1>6 DEF RevokeChosen
<1>7. ASSUME NEW r \in Requests,
             \/ BeginLogin(r) \/ StoreToken(r) \/ BeginRefresh(r) \/ CheckRefresh(r)
             \/ RotationFails(r) \/ FetchUser(r) \/ BeginLogout(r)
             \/ AccessExpired(r) \/ RevokeTokens(r) \/ Hear(r) \/ Abandon(r)
      PROVE  session' = session
  BY <1>7 DEF BeginLogin, StoreToken, BeginRefresh, CheckRefresh, RotationFails,
              FetchUser, BeginLogout, AccessExpired, RevokeTokens, Hear, Abandon
<1>8. ASSUME \/ Deactivate \/ ChangeRole \/ Activate \/ SelectSessions
             \/ RevokeChosenTokens \/ Restart \/ UNCHANGED vars
             \/ \E g \in Families : Expire(g)
      PROVE  session' = session
  BY <1>8 DEF Deactivate, ChangeRole, Activate, SelectSessions,
              RevokeChosenTokens, Restart, Expire, vars
<1> QED BY <1>2, <1>3, <1>4, <1>5, <1>6, <1>7, <1>8 DEF Next

(* What a handler holds is stored. *)
LEMMA HeldStored ==
  ASSUME SInv, NEW q \in Requests, Holds(request[q])
  PROVE  /\ request[q].token \in Tokens \cup {NONE}
         /\ request[q].token # NONE => family[request[q].token] # NONE
         /\ request[q].at \in {"rotate", "fetch", "signed"} =>
              request[q].token \in Tokens /\ request[q].token # NONE
<1>1. Carries(request[q])
  BY DEF SInv, Carried
<1> QED BY <1>1, NoneAssumption DEF Carries, Holds

(* The token a handler holds is exchanged by nobody else, and not the       *)
(* cookie before the handler has answered.                                  *)
LEMMA HeldStep ==
  ASSUME SInv, Honest, [Next]_vars, NEW q \in Requests, Holds(request[q]),
         NEW t, t = request[q].token
  PROVE  /\ ~(request[q].at = "rotate" /\ request'[q].at = "fetch") => Unspent(t)'
         /\ request[q].at \in {"fetch", "signed"} /\ request'[q].at # "off" =>
              t # cookie'
<1>1. /\ t \in Tokens \cup {NONE}
      /\ t # NONE => family[t] # NONE
      /\ Unspent(t) /\ Apart /\ Straight(request[q])
  BY HeldStored DEF Honest, Straight
<1>2. ASSUME NEW r \in Requests, request[r].at \in {"rotate", "signed"},
             request[r].token = t
      PROVE  r = q
  <2>1. Holds(request[r]) /\ t # NONE
    BY <1>2, HeldStored DEF Holds
  <2> QED BY <1>1, <1>2, <2>1 DEF Apart
<1>3. ~(request[q].at = "rotate" /\ request'[q].at = "fetch") => Unspent(t)'
  BY <1>1, <1>2, UnspentStep
<1>4. ASSUME request[q].at \in {"fetch", "signed"}, request'[q].at # "off"
      PROVE  t # cookie'
  <2>1. t # cookie /\ t # NONE
    BY <1>1, <1>4, HeldStored DEF Straight
  <2>2. ASSUME NEW r \in Requests, request'[r] = NoRequest,
               request[r].at = "signed", cookie' = request[r].token
        PROVE  t # cookie'
    BY <1>2, <1>4, <2>2, RowFields
  <2> QED BY <2>1, <2>2, CookieStep
<1> QED BY <1>3, <1>4

LEMMA StraightStep ==
  ASSUME GInv, [Next]_vars, ~lost', NEW r \in Requests
  PROVE  Straight(request[r])'
<1> USE DEF browser, account
<1>1. SInv /\ Honest /\ TypeOK /\ Carried
  BY LostStep DEF GInv, SInv
<1>2. Straight(request[r]) /\ request[r] \in Handler
  BY <1>1 DEF Honest, TypeOK
<1>3. ASSUME Holds(request[r]), request'[r].token = request[r].token,
             ~(request[r].at = "rotate" /\ request'[r].at = "fetch")
      PROVE  Unspent(request[r].token)'
  <2>1. PICK t : t = request[r].token
    OBVIOUS
  <2>2. Unspent(t)'
    BY <1>1, <1>3, <2>1, HeldStep
  <2> QED BY <1>3, <2>1, <2>2 DEF Unspent
<1>4. ASSUME request[r].at \in {"fetch", "signed"}, request'[r].at # "off",
             request'[r].token = request[r].token
      PROVE  request'[r].token # cookie'
  <2>1. Holds(request[r])
    BY <1>4 DEF Holds
  <2> QED BY <1>1, <1>4, <2>1, HeldStep
<1>5. CASE request'[r] = request[r]
  <2>1. /\ request'[r].at = request[r].at /\ request'[r].sender = request[r].sender
        /\ request'[r].token = request[r].token
        /\ request'[r].reason = request[r].reason
    BY <1>5
  <2> QED BY <1>2, <1>3, <1>4, <2>1 DEF Straight, Holds
<1>6. CASE request'[r] = NoRequest
  BY <1>6, RowFields DEF Straight, Holds
<1>7. CASE Begins(r)
  <2>1. CASE request'[r].at \in {"admitted", "revoke"} /\ request'[r].reason = "revoked"
    BY <2>1 DEF Straight, Holds
  <2>2. CASE BeginRefresh(r) /\ request'[r] = Row("refresh", "lock", cookie, NONE)
    <3>1. Unspent(cookie)
      BY <1>1, <2>2 DEF BeginRefresh, Honest, Replaced
    <3>2. Unspent(request[r].token)'
      BY <2>2, <3>1, RowFields DEF BeginRefresh, Unspent
    <3> QED BY <2>2, <3>2, RowFields DEF Straight, Holds
  <2> QED BY <1>7, <2>1, <2>2, RowFields DEF Begins
<1>8. CASE Answers(r)
  <2>1. CASE request'[r] = Row("refused", request[r].sender, NONE, NONE)
    BY <2>1, RowFields DEF Straight, Holds
  <2>2. ASSUME NEW t \in Tokens,
               request'[r] = Row("signed", request[r].sender, t, request[r].family)
        PROVE  /\ request'[r].at = "signed" /\ request'[r].token = t
               /\ request'[r].reason = "revoked"
    BY <2>2, RowFields
  <2>3. ASSUME NEW t \in Tokens, StoreToken(r), family[t] = NONE,
               request'[r] = Row("signed", request[r].sender, t, request[r].family)
        PROVE  Straight(request[r])'
    <3>1. spent' = spent /\ cookie' = cookie /\ t \notin spent /\ t # cookie
      BY <1>1, <2>3, NoneAssumption DEF StoreToken, TypeOK
    <3>2. Unspent(request[r].token)'
      BY <2>2, <2>3, <3>1 DEF Unspent
    <3> QED BY <2>2, <2>3, <3>1, <3>2 DEF Straight, Holds
  <2>4. ASSUME NEW t \in Tokens, request[r].at = "fetch", t = request[r].token,
               request'[r] = Row("signed", request[r].sender, t, request[r].family)
        PROVE  Straight(request[r])'
    <3>1. Unspent(request[r].token)' /\ request'[r].token # cookie'
      BY <1>3, <1>4, <2>2, <2>4 DEF Holds
    <3> QED BY <2>2, <2>4, <3>1 DEF Straight, Holds
  <2> QED BY <1>6, <1>8, <2>1, <2>3, <2>4 DEF Answers
<1>9. CASE Advances(r)
  <2>1. CASE request'[r].at \in {"opened", "revoke", "revokeTokens"}
             /\ request'[r].reason \in {"revoked", request[r].reason}
    BY <1>2, <2>1 DEF Straight, Holds
  <2>2. CASE /\ request[r].at = "refresh" /\ request'[r].at \in {"rotate", "revoke"}
             /\ request[r].token \in Tokens /\ request'[r].token = request[r].token
             /\ session[family[request[r].token]] = "open"
             /\ \/ request'[r].reason \in {"revoked", request[r].reason}
                \/ request[r].token \in spent
    <3>1. Holds(request[r]) /\ request[r].token # NONE
      BY <2>2, NoneAssumption DEF Holds
    <3>2. request[r].token \notin spent
      BY <1>2, <2>2, <3>1 DEF Straight, Unspent
    <3>3. Unspent(request[r].token)'
      BY <1>3, <2>2, <3>1
    <3>4. request'[r].sender = "lock"
      BY <1>2, <1>9, <2>2 DEF Advances, Straight
    <3> QED BY <1>2, <2>2, <3>2, <3>3, <3>4 DEF Straight, Holds
  <2>3. CASE /\ Rotate(r) /\ request'[r].at = "fetch"
             /\ request'[r].token \in Tokens /\ family[request'[r].token] = NONE
             /\ request'[r].reason = request[r].reason
    <3>1. PICK n \in Tokens : n = request'[r].token
      BY <2>3
    <3>2. /\ request[r].at = "rotate" /\ request[r].token \in Tokens
          /\ request[r].family \in Families
          /\ family[request[r].token] = request[r].family
      BY <1>1, <2>3 DEF Rotate, Carried, Carries, At
    <3>3. n \notin spent /\ n # cookie /\ n # request[r].token
      BY <1>1, <2>3, <3>1, <3>2, NoneAssumption DEF TypeOK
    <3>4. request'[r].sender = "lock" /\ cookie' = cookie
      BY <1>2, <1>9, <2>3, <3>2 DEF Advances, Straight, Rotate
    <3>5. Succeed(r, request[r].token, request[r].family)
      <4>1. CASE Refuse(r)
        <5>1. request'[r].at \in {"off", "refused"}
          <6>1. PICK stage \in Stages : stage = "refused"
            BY DEF Stages
          <6>2. Answer(r, stage, NONE, NONE)
            BY <4>1, <6>1 DEF Refuse
          <6>3. \/ request'[r] = NoRequest
                \/ request'[r] = Row(stage, request[r].sender, NONE, NONE)
            BY <1>1, <6>2, AnswerEffect
          <6> QED BY <6>1, <6>3, RowFields
        <5> QED BY <2>3, <5>1
      <4> QED BY <2>3, <4>1 DEF Rotate
    <3>6. n \notin spent'
      BY <3>3, <3>5 DEF Succeed
    <3>7. Unspent(request[r].token)'
      BY <3>1, <3>6 DEF Unspent
    <3> QED BY <1>2, <2>3, <3>1, <3>3, <3>4, <3>7 DEF Straight, Holds
  <2> QED BY <1>9, <2>1, <2>2, <2>3 DEF Advances
<1>10. CASE LeftAlone(r)
  <2>1. /\ request'[r].at = request[r].at /\ request'[r].token = request[r].token
        /\ request'[r].reason = request[r].reason /\ request'[r].sender = "gone"
        /\ request[r].sender # "lock"
    BY <1>10 DEF LeftAlone, Abandon
  <2>2. request[r].at \notin {"refresh", "rotate", "fetch"}
    BY <1>2, <2>1 DEF Straight
  <2> QED BY <1>2, <1>3, <1>4, <2>1, <2>2 DEF Straight, Holds
<1> QED BY <1>1, <1>5, <1>6, <1>7, <1>8, <1>9, <1>10, MoveStep

(* What a handler holds it held before, or it has just taken it from the    *)
(* browser, or nobody had it.                                               *)
LEMMA HeldBefore ==
  ASSUME SInv, [Next]_vars, NEW r \in Requests, Holds(request'[r])
  PROVE  \/ Holds(request[r]) /\ request'[r].token = request[r].token
         \/ BeginRefresh(r) /\ request'[r].token = cookie
         \/ request'[r].token \in Tokens /\ family[request'[r].token] = NONE
<1>1. CASE request'[r] \in {request[r], NoRequest}
  BY <1>1, RowFields DEF Holds
<1>2. CASE Begins(r)
  BY <1>2, RowFields DEF Begins, Holds
<1>3. CASE Answers(r)
  BY <1>3, RowFields DEF Answers, Holds
<1>4. CASE Advances(r) \/ LeftAlone(r)
  BY <1>4 DEF Advances, LeftAlone, Holds
<1> QED BY <1>1, <1>2, <1>3, <1>4, MoveStep

LEMMA ApartStep ==
  ASSUME GInv, [Next]_vars, ~lost'
  PROVE  Apart'
<1>1. SInv /\ Honest /\ Apart
  BY LostStep DEF GInv, Honest
<1>2. SUFFICES ASSUME NEW q \in Requests, NEW r \in Requests, q # r,
                      Holds(request'[q]), Holds(request'[r]),
                      request'[q].token = request'[r].token
               PROVE  request'[q].token = NONE
  BY DEF Apart, Holds
<1>3. ASSUME NEW a \in Requests, NEW b \in Requests, a # b,
             Holds(request'[a]), request'[b] = request[b], Holds(request[b]),
             request'[a].token = request[b].token
      PROVE  request[b].token = NONE
  <2>1. CASE Holds(request[a]) /\ request'[a].token = request[a].token
    BY <1>1, <1>3, <2>1 DEF Apart
  <2>2. CASE BeginRefresh(a) /\ request'[a].token = cookie
    <3>1. request[b].sender # "lock" /\ Straight(request[b])
      BY <1>1, <2>2 DEF BeginRefresh, Honest
    <3> QED BY <1>3, <2>2, <3>1 DEF Straight, Holds
  <2>3. CASE request'[a].token \in Tokens /\ family[request'[a].token] = NONE
    BY <1>1, <1>3, <2>3, HeldStored
  <2> QED BY <1>1, <1>3, <2>1, <2>2, <2>3, HeldBefore
<1>4. request'[q] = request[q] \/ request'[r] = request[r]
  <2>1. CASE \E p \in Requests : \A o \in Requests \ {p} : request'[o] = request[o]
    BY <1>2, <2>1
  <2>2. CASE \A o \in Requests : request'[o] = NoRequest
    BY <1>2, <2>2, RowFields DEF Holds
  <2> QED BY <1>1, <2>1, <2>2, MoveStep
<1> QED BY <1>2, <1>3, <1>4

(* Who is inside the lock stays there until the answer is heard. *)
LEMMA LockKept ==
  ASSUME GInv, [Next]_vars, ~lost', NEW p \in Requests,
         request[p].sender = "lock", request[p].at \notin {"refresh", "rotate"}
  PROVE  \/ Hear(p)
         \/ /\ request'[p].sender = "lock"
            /\ request'[p].at \notin {"refresh", "rotate"}
<1>1. SInv /\ Straight(request[p]) /\ request[p].at # "off"
  BY LostStep DEF GInv, Honest, Straight
<1>2. CASE request'[p] = request[p]
  BY <1>2
<1>3. ~Restart /\ ~Abandon(p)
  BY DEF Restart, Abandon
<1>4. CASE Begins(p)
  BY <1>1, <1>4 DEF Begins, BeginLogin, BeginRefresh, Begin, At
<1>5. CASE Answers(p)
  BY <1>3, <1>5, RowFields DEF Answers
<1>6. CASE Advances(p)
  BY <1>6 DEF Advances
<1>7. CASE LeftAlone(p)
  BY <1>3, <1>7 DEF LeftAlone
<1> QED BY <1>1, <1>2, <1>3, <1>4, <1>5, <1>6, <1>7, MoveStep

LEMMA ReplacedStep ==
  ASSUME GInv, [Next]_vars, ~lost'
  PROVE  Replaced'
<1>1. SInv /\ Honest /\ TypeOK
  BY LostStep DEF GInv, SInv
<1>2. Unspent(NONE)'
  BY DEF Unspent
<1>3. ASSUME NEW r \in Requests, request'[r] = NoRequest,
             \/ cookie' = NONE
             \/ request[r].at = "signed" /\ cookie' = request[r].token
      PROVE  Unspent(cookie)'
  <2>1. CASE cookie' = NONE
    BY <2>1 DEF Unspent
  <2>2. CASE request[r].at = "signed" /\ cookie' = request[r].token
    <3>1. PICK t : t = request[r].token
      OBVIOUS
    <3>2. Unspent(t)'
      BY <1>1, <2>2, <3>1, HeldStep DEF Holds
    <3> QED BY <2>2, <3>1, <3>2 DEF Unspent
  <2> QED BY <1>3, <2>1, <2>2
<1>4. CASE cookie' = cookie /\ \A r \in Requests : ~Hear(r)
  <2>1. CASE Unspent(cookie)
    <3>1. PICK t : t = cookie
      OBVIOUS
    <3>2. t \in Tokens \cup {NONE}
      BY <1>1, <3>1 DEF TypeOK
    <3>3. t # NONE => family[t] # NONE
      BY <1>1, <3>1 DEF TypeOK
    <3>4. Unspent(t)
      BY <2>1, <3>1
    <3>5. CASE Unspent(t)'
      BY <1>4, <3>1, <3>5 DEF Replaced, Unspent
    <3>6. ASSUME NEW r \in Requests, request[r].at = "rotate",
                 request'[r].at = "fetch", request'[r].sender = request[r].sender
          PROVE  Replaced'
      BY <1>1, <3>6 DEF Replaced, Honest, Straight
    <3> QED BY <1>1, <3>2, <3>3, <3>4, <3>5, <3>6, UnspentStep
  <2>2. ASSUME NEW p \in Requests, request[p].sender = "lock",
               request[p].at \notin {"refresh", "rotate"}
        PROVE  Replaced'
    BY <1>4, <2>2, LockKept DEF Replaced
  <2> QED BY <1>1, <2>1, <2>2 DEF Honest, Replaced
<1> QED BY <1>1, <1>3, <1>4, CookieStep DEF Replaced

-----------------------------------------------------------------------------
(* The invariant holds, with what follows from it. *)

LEMMA GInitInvariant ==
  ASSUME Init
  PROVE  GInv
<1>1. SInv
  BY InitInvariant
<1>2. \A r \in Requests : request[r] = NoRequest
  BY DEF Init
<1>3. Closing
  BY DEF Init, Closing
<1>4. Locks
  BY <1>2, RowFields DEF Locks
<1>5. Honest
  <2>1. \A f \in Families : session[f] # "replay"
    BY DEF Init
  <2>2. \A r \in Requests : Straight(request[r])
    BY <1>2, RowFields DEF Straight, Holds
  <2>3. Apart
    BY <1>2, RowFields DEF Apart, Holds
  <2>4. Replaced
    BY DEF Init, Replaced, Unspent
  <2> QED BY <2>1, <2>2, <2>3, <2>4 DEF Honest
<1> QED BY <1>1, <1>3, <1>4, <1>5 DEF GInv

LEMMA GStep ==
  ASSUME GInv, [Next]_vars
  PROVE  GInv'
<1>1. SInv /\ Closing /\ Locks
  BY DEF GInv
<1>2. SInv'
  BY <1>1, TypeStep, CarriedStep, OneOpenerStep, OpenedStep, OneLiveStep DEF SInv
<1>3. ASSUME ~lost'
      PROVE  Honest'
  <2>1. Honest
    BY <1>3, LostStep DEF GInv
  <2>2. \A f \in Families : session'[f] # "replay"
    BY <1>1, <2>1, NoReplayStep
  <2>3. \A r \in Requests : Straight(request[r])'
    BY <1>3, StraightStep
  <2>4. Apart' /\ Replaced'
    BY <1>3, ApartStep, ReplacedStep
  <2> QED BY <2>2, <2>3, <2>4 DEF Honest
<1> QED BY <1>1, <1>2, <1>3, ClosingStep, LocksStep DEF GInv

LEMMA GInvariance == Spec => []GInv
<1>1. GInv /\ [Next]_vars => GInv'
  BY GStep
<1> QED BY <1>1, GInitInvariant, PTL DEF Spec

(* A browser whose refreshes are all answered is never taken for a replay,  *)
(* whatever its tabs do at the same time (client.ts:128, db.py:1275).       *)
THEOREM HonestNeverAlarmed == Spec => []NoFalseAlarm
<1>1. GInv => NoFalseAlarm
  BY DEF GInv, Honest, NoFalseAlarm
<1> QED BY <1>1, GInvariance, PTL

(* A disabled account has no open session, unless a sign-in was under way   *)
(* or the server stopped at that moment (admin_api.py:293).                 *)
THEOREM DisabledIsSignedOut == Spec => []DeactivatedSignedOut
<1>1. GInv => DeactivatedSignedOut
  BY DEF GInv, Closing, DeactivatedSignedOut
<1> QED BY <1>1, GInvariance, PTL
=============================================================================
