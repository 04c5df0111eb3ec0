---------------------------- MODULE AuthSessions ----------------------------
(* The sessions of one customer: token_auth.py, the handlers of             *)
(* user_auth.py and the tables auth_sessions and refresh_tokens.  A sign-in *)
(* opens a family of refresh tokens; a refresh spends the family's token    *)
(* and mints its successor; a spent token that comes back revokes the       *)
(* family.  The handlers read before they write, and revoke in two          *)
(* statements.  Modelled with them: the customer's browser, whose tabs      *)
(* share the refresh cookie and take a Web Lock around a refresh            *)
(* (client.ts), answers that arrive late or not at all, an administrator    *)
(* who disables the account, and restarts.                                  *)
CONSTANTS
  Families,  \* sessions that may be opened; an id is never reused
  Tokens,    \* refresh tokens that may be minted, each drawn once
  Requests,  \* bound: requests under way at one time
  NONE       \* no token, no family

ASSUME NoneAssumption == NONE \notin Tokens \cup Families

VARIABLES
  session,  \* auth_sessions: not there, open, or the reason it was revoked for
  family,   \* refresh_tokens: the family of each token, NONE before it is stored
  spent,    \* refresh_tokens: those that were used or revoked
  expired,  \* families past their expires_at
  active,   \* users.is_active
  request,  \* the handlers under way and their answers
  admin,    \* the administrator's handler
  cookie,   \* the refresh cookie the browser holds
  known,    \* families of which some tab has an access token
  lost,     \* a refresh was given up before its answer came
  slipped   \* a revocation of all sessions has missed one

vars == <<session, family, spent, expired, active, request, admin, cookie,
          known, lost, slipped>>
browser == <<cookie, known, lost>>
account == <<expired, active, admin, slipped>>

(* A handler: past the check of a sign-in, with its session opened;         *)
(* a refresh as sent, about to rotate, about to look up the user; about to  *)
(* revoke the session, then its tokens; the answer sets or clears the       *)
(* cookie.                                                                  *)
Stages == {"off", "admitted", "opened", "refresh", "rotate", "fetch",
           "revoke", "revokeTokens", "signed", "refused"}

Revoked == {"replay", "revoked"}

(* sender: a tab that waits inside the lock, or without it, or no longer.   *)
Handler == [at : Stages, sender : {"lock", "plain", "gone"},
            token : Tokens \cup {NONE}, family : Families \cup {NONE},
            reason : Revoked]

Row(stage, who, t, f) ==
  [at |-> stage, sender |-> who, token |-> t, family |-> f, reason |-> "revoked"]

NoRequest == Row("off", "gone", NONE, NONE)

Idle == [at |-> "idle", chosen |-> {}]

TypeOK ==
  /\ session \in [Families -> {"none", "open"} \cup Revoked]
  /\ family \in [Tokens -> Families \cup {NONE}]
  /\ \A t \in Tokens : family[t] # NONE => session[family[t]] # "none"
  /\ spent \subseteq {t \in Tokens : family[t] # NONE}
  /\ expired \subseteq Families /\ known \subseteq Families
  /\ request \in [Requests -> Handler]
  /\ admin \in [at : {"idle", "changed", "selected", "marked"},
                chosen : SUBSET Families]
  /\ cookie \in {t \in Tokens : family[t] # NONE} \cup {NONE}
  /\ active \in BOOLEAN /\ lost \in BOOLEAN /\ slipped \in BOOLEAN

Init ==
  /\ session = [f \in Families |-> "none"]
  /\ family = [t \in Tokens |-> NONE]
  /\ spent = {} /\ expired = {} /\ known = {}
  /\ active = TRUE
  /\ request = [r \in Requests |-> NoRequest]
  /\ admin = Idle
  /\ cookie = NONE
  /\ lost = FALSE /\ slipped = FALSE

At(r, stage) == request[r].at = stage
Goto(r, stage) == request' = [request EXCEPT ![r].at = stage]

Begin(r, stage, who, t, f) ==
  /\ At(r, "off")
  /\ request' = [request EXCEPT ![r] = Row(stage, who, t, f)]

(* The answer is on its way, if anybody still waits for it. *)
Answer(r, stage, t, f) ==
  request' = [request EXCEPT ![r] =
                IF request[r].sender = "gone" THEN NoRequest
                ELSE Row(stage, request[r].sender, t, f)]

Refuse(r) == Answer(r, "refused", NONE, NONE)

Sign(r, t) == Answer(r, "signed", t, request[r].family)

(* The tokens of a family. *)
Of(f) == {t \in Tokens : family[t] = f}

-----------------------------------------------------------------------------
(* Signing in.                                                              *)

(* Mutant: the account is not looked at. *)
BeginLoginUnchecked(r) ==
  /\ Begin(r, "admitted", "plain", NONE, NONE)
  /\ UNCHANGED <<session, family, spent, browser, account>>

(* The handler has read an active account and accepts the credentials. *)
BeginLogin(r) ==
  /\ active
  /\ Begin(r, "admitted", "plain", NONE, NONE)
  /\ UNCHANGED <<session, family, spent, browser, account>>

(* Mutant: the session is not stored before its token. *)
OpenNothing(r) ==
  /\ At(r, "admitted")
  /\ \E f \in Families :
       /\ session[f] = "none"
       /\ request' = [request EXCEPT ![r].at = "opened", ![r].family = f]
  /\ UNCHANGED <<session, family, spent, browser, account>>

(* create_token_family: a statement for the session, one for its token. *)
OpenSession(r) ==
  /\ At(r, "admitted")
  /\ \E f \in Families :
       /\ session[f] = "none"
       /\ session' = [session EXCEPT ![f] = "open"]
       /\ request' = [request EXCEPT ![r].at = "opened", ![r].family = f]
  /\ UNCHANGED <<family, spent, browser, account>>

StoreToken(r) ==
  /\ At(r, "opened")
  /\ \E t \in Of(NONE) :
       /\ family' = [family EXCEPT ![t] = request[r].family]
       /\ Sign(r, t)
  /\ UNCHANGED <<session, spent, browser, account>>

-----------------------------------------------------------------------------
(* Refreshing.  A refusal before the cookie is read changes nothing.        *)

(* Mutant: tabs do not wait for each other. *)
BeginRefreshUnlocked(r) ==
  /\ Begin(r, "refresh", "lock", cookie, NONE)
  /\ UNCHANGED <<session, family, spent, browser, account>>

(* A tab asks for an access token, with the cookie of that moment, if any;  *)
(* one tab of the browser at a time waits for the answer.                   *)
BeginRefresh(r) ==
  /\ \A q \in Requests : request[q].sender # "lock"
  /\ Begin(r, "refresh", "lock", cookie, NONE)
  /\ UNCHANGED <<session, family, spent, browser, account>>

(* The reads of rotate_refresh_token: no token, or one of a session that is *)
(* revoked; one of a session that has expired; one that was exchanged       *)
(* before; one that is good.                                                *)
CheckRefresh(r) ==
  LET t == request[r].token
      f == IF t = NONE THEN NONE ELSE family[t]
      Revoke(reason) ==
        request' = [request EXCEPT ![r].at = "revoke", ![r].family = f,
                                   ![r].reason = reason]
  IN  /\ At(r, "refresh")
      /\ \/ t = NONE /\ Refuse(r)
         \/ t # NONE /\ session[f] # "open" /\ Refuse(r)
         \/ /\ t # NONE /\ session[f] = "open"
            /\ \/ f \in expired /\ Revoke("revoked")
               \/ f \notin expired /\ t \in spent /\ Revoke("replay")
               \/ /\ f \notin expired /\ t \notin spent
                  /\ request' = [request EXCEPT ![r].at = "rotate",
                                                ![r].family = f]
      /\ UNCHANGED <<session, family, spent, browser, account>>

(* Successor of t, stored with it spent. *)
Succeed(r, t, f) ==
  \E successor \in Of(NONE) :
    /\ family' = [family EXCEPT ![successor] = f]
    /\ spent' = spent \cup {t}
    /\ request' = [request EXCEPT ![r].at = "fetch", ![r].token = successor]
    /\ UNCHANGED session

(* Mutant: that the token is still good is not checked again. *)
RotateAgain(r) ==
  LET t == request[r].token
      f == request[r].family
  IN  /\ At(r, "rotate")
      /\ \/ session[f] # "open" /\ Refuse(r)
            /\ UNCHANGED <<session, family, spent>>
         \/ session[f] = "open" /\ Succeed(r, t, f)
      /\ UNCHANGED <<browser, account>>

(* Mutant: that the session is still open is not checked again. *)
RotateRevoked(r) ==
  LET t == request[r].token
  IN  /\ At(r, "rotate")
      /\ Succeed(r, t, request[r].family)
      /\ UNCHANGED <<browser, account>>

(* rotate_refresh_token_tx *)
Rotate(r) ==
  LET t == request[r].token
      f == request[r].family
  IN  /\ At(r, "rotate")
      /\ \/ /\ session[f] # "open"
            /\ Refuse(r)
            /\ UNCHANGED <<session, family, spent>>
         \/ /\ session[f] = "open" /\ t \in spent
            /\ session' = [session EXCEPT ![f] = "replay"]
            /\ spent' = spent \cup Of(f)
            /\ Refuse(r)
            /\ UNCHANGED family
         \/ /\ session[f] = "open" /\ t \notin spent
            /\ Succeed(r, t, f)
      /\ UNCHANGED <<browser, account>>

(* The transaction fails, and leaves nothing behind. *)
RotationFails(r) ==
  /\ At(r, "rotate")
  /\ Refuse(r)
  /\ UNCHANGED <<session, family, spent, browser, account>>

(* The end of rotate_refresh_token: the account may have been disabled. *)
FetchUser(r) ==
  /\ At(r, "fetch")
  /\ \/ active /\ Sign(r, request[r].token)
     \/ ~active /\ Goto(r, "revoke")
  /\ UNCHANGED <<session, family, spent, browser, account>>

-----------------------------------------------------------------------------
(* Signing out, and the other ways to revoke one session.                   *)

(* /logout revokes the family of the cookie, or without a cookie that of    *)
(* the access token.                                                        *)
BeginLogout(r) ==
  /\ \E f \in IF cookie # NONE THEN {family[cookie]} ELSE known :
       Begin(r, "revoke", "plain", NONE, f)
  /\ UNCHANGED <<session, family, spent, browser, account>>

(* access_required finds that the session of an access token has expired;   *)
(* its answer leaves the cookie alone.                                      *)
AccessExpired(r) ==
  /\ \E f \in known \cap expired :
       /\ session[f] = "open"
       /\ Begin(r, "revoke", "gone", NONE, f)
  /\ UNCHANGED <<session, family, spent, browser, account>>

(* revoke_auth_session: a statement for the session, one for its tokens. *)
RevokeSession(r) ==
  LET f == request[r].family
  IN  /\ At(r, "revoke")
      /\ session' = [session EXCEPT ![f] =
                     IF session[f] = "open" THEN request[r].reason ELSE session[f]]
      /\ Goto(r, "revokeTokens")
      /\ UNCHANGED <<family, spent, browser, account>>

RevokeTokens(r) ==
  /\ At(r, "revokeTokens")
  /\ spent' = spent \cup Of(request[r].family)
  /\ Refuse(r)
  /\ UNCHANGED <<session, family, browser, account>>

-----------------------------------------------------------------------------
(* The browser and its answers.                                             *)

(* The answer arrives: it sets the cookie, or clears whatever cookie is     *)
(* there by then.                                                           *)
Hear(r) ==
  /\ request[r].sender # "gone"
  /\ \/ /\ At(r, "signed")
        /\ cookie' = request[r].token
        /\ known' = known \cup {request[r].family}
     \/ /\ At(r, "refused")
        /\ cookie' = NONE /\ UNCHANGED known
  /\ request' = [request EXCEPT ![r] = NoRequest]
  /\ UNCHANGED <<session, family, spent, lost, account>>

(* The tab times out (15 s for a refresh), is closed, or the connection     *)
(* drops: the lock is free, the server goes on.                             *)
Abandon(r) ==
  /\ ~At(r, "off") /\ request[r].sender # "gone"
  /\ request' = [request EXCEPT
       ![r] = IF request[r].at \in {"signed", "refused"} THEN NoRequest
              ELSE [request[r] EXCEPT !.sender = "gone"]]
  /\ lost' = (lost \/ request[r].sender = "lock")
  /\ UNCHANGED <<session, family, spent, cookie, known, account>>

-----------------------------------------------------------------------------
(* The administrator, the clock, restarts.                                  *)

AdminGoes(stage) == admin' = [admin EXCEPT !.at = stage]

(* /users/<id>/status with is_active false; repeated, it revokes again. *)
Deactivate ==
  /\ admin.at = "idle"
  /\ active' = FALSE
  /\ AdminGoes("changed")
  /\ UNCHANGED <<session, family, spent, request, browser, expired, slipped>>

(* /users/<id>/role, and an administrator's password that is rotated at     *)
(* start-up.                                                                *)
ChangeRole ==
  /\ admin.at = "idle"
  /\ AdminGoes("changed")
  /\ UNCHANGED <<session, family, spent, request, browser, expired, active,
                 slipped>>

(* /users/<id>/status with is_active true: no session comes back. *)
Activate ==
  /\ admin.at = "idle"
  /\ active' = TRUE
  /\ UNCHANGED <<session, family, spent, request, browser, expired, admin,
                 slipped>>

(* revoke_all_user_sessions: a read, a statement for the sessions it found, *)
(* one for their tokens.  A sign-in that was admitted before and has not    *)
(* opened its session yet is missed.                                        *)
SelectSessions ==
  /\ admin.at = "changed"
  /\ admin' = [at |-> "selected",
               chosen |-> {f \in Families : session[f] = "open"}]
  /\ slipped' = (slipped \/ \E r \in Requests : At(r, "admitted"))
  /\ UNCHANGED <<session, family, spent, request, browser, expired, active>>

RevokeChosen ==
  /\ admin.at = "selected"
  /\ session' = [f \in Families |->
                   IF f \in admin.chosen THEN "revoked" ELSE session[f]]
  /\ AdminGoes("marked")
  /\ UNCHANGED <<family, spent, request, browser, expired, active, slipped>>

RevokeChosenTokens ==
  /\ admin.at = "marked"
  /\ spent' = spent \cup UNION {Of(f) : f \in admin.chosen}
  /\ admin' = Idle
  /\ UNCHANGED <<session, family, request, browser, expired, active, slipped>>

(* expires_at passes; the tokens of a family expire with it.  What has been *)
(* revoked is never looked at for its expiry.                               *)
Expire(f) ==
  /\ session[f] = "open" /\ f \notin expired
  /\ expired' = expired \cup {f}
  /\ UNCHANGED <<session, family, spent, request, browser, active, admin,
                 slipped>>

(* The server stops between any two statements. *)
Restart ==
  /\ request' = [r \in Requests |-> NoRequest]
  /\ admin' = Idle
  /\ lost' = (lost \/ \E r \in Requests : request[r].sender = "lock")
  /\ slipped' = (slipped \/ admin.at \in {"changed", "selected"})
  /\ UNCHANGED <<session, family, spent, cookie, known, expired, active>>

Next ==
  \/ \E r \in Requests :
       \/ BeginLogin(r) \/ OpenSession(r) \/ StoreToken(r)
       \/ BeginRefresh(r) \/ CheckRefresh(r) \/ Rotate(r) \/ RotationFails(r)
       \/ FetchUser(r)
       \/ BeginLogout(r) \/ AccessExpired(r) \/ RevokeSession(r)
       \/ RevokeTokens(r)
       \/ Hear(r) \/ Abandon(r)
  \/ Deactivate \/ ChangeRole \/ Activate
  \/ SelectSessions \/ RevokeChosen \/ RevokeChosenTokens
  \/ \E f \in Families : Expire(f)
  \/ Restart

Spec == Init /\ [][Next]_vars

-----------------------------------------------------------------------------
(* Properties.                                                              *)

(* An open session has exactly one token that can be exchanged, however     *)
(* many refreshes and revocations of it are under way: it neither splits in *)
(* two nor loses its chain (db.py:1275).                                    *)
OneLiveToken ==
  \A f \in Families : session[f] = "open" /\ Of(f) # {} =>
    \E t \in Tokens : Of(f) \ spent = {t}

(* A revoked session stays revoked, and none of its tokens is exchanged any *)
(* more; only a sign-in that it overtook still stores its first token       *)
(* (db.py:1263, token_auth.py:157).                                         *)
RevokedIsFinal ==
  [][\A f \in Families : session[f] \in Revoked =>
       /\ session'[f] \in Revoked
       /\ Of(f) # {} => Of(f)' = Of(f)]_vars

(* A browser whose refreshes are all answered is never taken for a replay,  *)
(* whatever its tabs do at the same time: sign in, sign out, refresh, with  *)
(* answers out of order (client.ts:128, db.py:1275).                        *)
NoFalseAlarm == ~lost => \A f \in Families : session[f] # "replay"

(* A disabled account has no open session, unless a sign-in was under way   *)
(* or the server stopped at that moment (admin_api.py:293).                 *)
DeactivatedSignedOut ==
  ~active /\ admin.at = "idle" /\ ~slipped =>
    \A f \in Families : session[f] # "open"
=============================================================================
