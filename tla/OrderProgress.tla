---------------------------- MODULE OrderProgress ----------------------------
(***************************************************************************)
(* The last step of ActivationWizard.tsx: what it shows of the order that  *)
(* was just bought, the two loops that keep it up to date, the download    *)
(* ticket, and the way back to another purchase.                           *)
(*                                                                         *)
(* The loop over the legacy queue has no flag that stops it: its cleanup   *)
(* clears the timer, but a read under way goes on, and after its answer    *)
(* the loop decides by the status it was started with.  The loop over the  *)
(* provider's status has such a flag (cancelled).                          *)
(***************************************************************************)
EXTENDS Browser

CONSTANTS
  ProgressOrders,   \* the numbers of the orders the customer buys in turn
  MaxStatuses       \* bound: the states a provider's order goes through

OrderKind == {"provider", "queue", "manual", "apk"}
ProviderStatus == {"none", "processing", "awaiting_reconciliation", "completed", "failed",
                   "refunded", "cancelled"}
ProviderTerminal == {"completed", "failed", "refunded", "cancelled"}
QueueStatus == {"waiting", "processing", "completed", "error"}

NotShown == [step |-> "elsewhere", order |-> 0, kind |-> "manual", client |-> 0,
             queue |-> "waiting", provider |-> "none", error |-> "none",
             stopped |-> FALSE, ticket |-> FALSE]

ProgressInit ==
  /\ page = "progress"
  /\ ui = NotShown
  /\ calls = {}
  /\ \E kind \in [ProgressOrders -> OrderKind] :
       db = [bought |-> 0, kind |-> kind,
             provider |-> [o \in ProgressOrders |-> "processing"],
             was |-> [o \in ProgressOrders |-> {"processing"}],   \* history
             queue |-> [o \in ProgressOrders |-> "waiting"]]

Loop(op, order, seen, stage) ==
  [id |-> FreeId, op |-> op, order |-> order, seen |-> seen, live |-> TRUE,
   stage |-> stage, reply |-> "none"]

-----------------------------------------------------------------------------
(* The two effects, run after every change of what they depend on *)

QueueDeps(u) == <<u.step, u.kind, u.client, u.queue>>
ProviderDeps(u) == <<u.step, u.kind, u.order>>

(* Mutant: a loop has no flag, only its timer is cleared. *)
CleanupOfTimers(cs, op) == {c \in cs : ~(c.op = op /\ c.stage = "timer")}

(* clearTimeout for the loop waiting; a read under way is only no longer the
   effect's own. *)
Cleanup(cs, op) ==
  {IF c.op = op THEN [c EXCEPT !.live = FALSE] ELSE c :
     c \in {d \in cs : ~(d.op = op /\ d.live /\ d.stage = "timer")}}

QueuePolling(u) ==
  u.step = "completed" /\ u.kind = "queue" /\ u.client # 0 /\ u.queue # "completed"

ProviderPolling(u) == u.step = "completed" /\ u.kind = "provider" /\ u.order # 0

(* The page after a change to u, with the loops the effects leave behind.
   The provider loop reads at once, the other after its first pause. *)
Render(u, cs) ==
  LET queueRuns == QueueDeps(u) # QueueDeps(ui)
      providerRuns == ProviderDeps(u) # ProviderDeps(ui)
      kept == LET q == IF queueRuns THEN Cleanup(cs, "queue") ELSE cs
              IN  IF providerRuns THEN Cleanup(q, "provider") ELSE q
      started == (IF queueRuns /\ QueuePolling(u)
                  THEN {Loop("queue", u.client, u.queue, "timer")} ELSE {})
                 \cup (IF providerRuns /\ ProviderPolling(u)
                       THEN {Loop("provider", u.order, "none", "sent")} ELSE {})
  IN  /\ Cardinality(kept \cup started) \leq MaxCalls
      /\ calls' = kept \cup started
      /\ ui' = IF providerRuns /\ ProviderPolling(u) THEN [u EXCEPT !.stopped = FALSE] ELSE u

-----------------------------------------------------------------------------
(* What is shown *)

ProviderHeadline ==
  IF ui.provider \in ProviderTerminal \cup {"awaiting_reconciliation"} THEN ui.provider
  ELSE "processing"

Headline ==
  CASE ui.kind = "manual"   -> IF ui.queue \in {"completed", "processing"} THEN ui.queue
                               ELSE "sent"
    [] ui.kind = "apk"      -> "ready"
    [] ui.kind = "provider" -> ProviderHeadline
    [] OTHER                -> IF ui.queue \in {"completed", "error"} THEN ui.queue
                               ELSE "queued"

(* The guide below: only the provider's has the DNS profile, once its order
   is done; the APK is offered at once, the profile of a legacy order late. *)
ApkView == IF ui.kind = "apk" /\ ~ui.ticket THEN {"ticket"} ELSE {}
ProviderView ==
  IF ui.kind # "provider" THEN {}
  ELSE IF ui.provider = "completed" THEN {"dns"}
  ELSE IF ui.stopped /\ ui.provider = "awaiting_reconciliation" THEN {"come back later"}
  ELSE {}
IosGuide ==
  IF ui.kind = "queue" /\ ~ui.ticket /\ ui.queue = "completed" THEN {"ticket"} ELSE {}

ProgressOffered ==
  IF ui.step # "completed" THEN {} ELSE {"another"} \cup ApkView \cup ProviderView \cup IosGuide

-----------------------------------------------------------------------------
(* The purchase brings the customer here with the order it made. *)
OrderBought ==
  /\ ui.step = "elsewhere" /\ db.bought + 1 \in ProgressOrders
  /\ LET o == db.bought + 1
     IN  /\ db' = [db EXCEPT !.bought = o]
         /\ Render([ui EXCEPT !.step = "completed", !.order = o, !.kind = db.kind[o],
                              !.client = IF db.kind[o] = "queue" THEN o ELSE 0,
                              !.queue = "waiting"], calls)
  /\ UNCHANGED page

(* handleReset leaves the error, the stop and the ticket as they are. *)
ProgressReset ==
  /\ "another" \in ProgressOffered
  /\ Render([NotShown EXCEPT !.error = ui.error, !.stopped = ui.stopped,
                             !.ticket = ui.ticket], calls)
  /\ UNCHANGED <<page, db>>

TimerFires(c) ==
  /\ c.stage = "timer"
  /\ Change(c, [c EXCEPT !.stage = "sent"])
  /\ UNCHANGED <<page, ui, db>>

ReadStatus(c) ==
  /\ c.stage = "sent" /\ c.op \in {"queue", "provider"}
  /\ Change(c, [c EXCEPT !.stage = "answered",
                         !.reply = IF c.op = "queue" THEN db.queue[c.order]
                                   ELSE db.provider[c.order]])
  /\ UNCHANGED <<page, ui, db>>

(* The loop goes on by the status captured when it was started, and no
   cleanup reaches it any more once its effect was replaced. *)
PollQueue(c) ==
  /\ c.op = "queue" /\ c.stage \in {"sent", "answered"}
  /\ LET u == IF c.stage = "sent" THEN ui     \* no answer
              ELSE [ui EXCEPT !.queue = c.reply,
                              !.error = IF c.reply = "error" THEN "queue" ELSE @]
         again == [c EXCEPT !.stage = "timer", !.reply = "none"]
     IN  Render(u, (calls \ {c}) \cup (IF c.seen = "error" THEN {} ELSE {again}))
  /\ UNCHANGED <<page, db>>

(* Nothing is written, and nothing started again, once the loop is cancelled;
   without an answer it goes on until ten minutes are over. *)
PollProvider(c) ==
  /\ c.op = "provider" /\ c.stage \in {"sent", "answered"}
  /\ LET told == c.live /\ c.stage = "answered"
         u == IF ~told THEN ui
              ELSE [ui EXCEPT
                      !.provider = c.reply,
                      !.queue = IF c.reply = "completed" THEN "completed"
                                ELSE IF c.reply \in ProviderTerminal THEN "error"
                                ELSE "processing",
                      !.error = IF c.reply \in ProviderTerminal \ {"completed"}
                                THEN c.reply ELSE @]
         over == ~c.live \/ (told /\ c.reply \in ProviderTerminal)
         again == [c EXCEPT !.stage = "timer", !.reply = "none"]
     IN  \/ Render(u, (calls \ {c}) \cup (IF over THEN {} ELSE {again}))
         \/ ~over /\ Render([u EXCEPT !.stopped = TRUE], calls \ {c})
  /\ UNCHANGED <<page, db>>

HandleRequestDownloadTicket ==
  /\ "ticket" \in ProgressOffered
  /\ Begin(Loop("ticket", ui.order, "none", "sent"))
  /\ ui' = [ui EXCEPT !.ticket = TRUE]
  /\ UNCHANGED <<page, db>>

(* A file to download, or an error, and the button is back. *)
TicketAnswered(c) ==
  /\ c.op = "ticket"
  /\ End(c)
  /\ ui' = [ui EXCEPT !.ticket = FALSE]
  /\ UNCHANGED <<page, db>>

(* The shop goes on with its orders: a failure may be tried again, completed
   by hand or refunded, and a refunded order still be reconciled. *)
OrderMoves(o) ==
  /\ o \in 1 .. db.bought
  /\ \/ /\ db.kind[o] = "provider" /\ db.provider[o] # "completed"
        /\ \E s \in ProviderStatus \ {"none", db.provider[o]} :
             /\ s \in db.was[o] \/ Cardinality(db.was[o]) < MaxStatuses
             /\ db' = [db EXCEPT !.provider[o] = s, !.was[o] = @ \cup {s}]
     \/ /\ db.kind[o] = "queue" /\ db.queue[o] \in {"waiting", "processing"}
        /\ \E s \in {"processing", "completed", "error"} \ {db.queue[o]} :
             db' = [db EXCEPT !.queue[o] = s]
  /\ UNCHANGED <<page, ui, calls>>

ProgressNext ==
  \/ OrderBought \/ ProgressReset \/ HandleRequestDownloadTicket
  \/ \E c \in calls :
       TimerFires(c) \/ ReadStatus(c) \/ PollQueue(c) \/ PollProvider(c) \/ TicketAnswered(c)
  \/ \E o \in ProgressOrders : OrderMoves(o)

-----------------------------------------------------------------------------
(* Types of the page's state and of its calls. *)
ProgressTypeOK ==
  /\ ui \in [step : {"elsewhere", "completed"}, order : ProgressOrders \cup {0},
             kind : OrderKind, client : ProgressOrders \cup {0}, queue : QueueStatus,
             provider : ProviderStatus, error : ProviderTerminal \cup {"none", "queue"},
             stopped : BOOLEAN, ticket : BOOLEAN]
  /\ \A c \in calls : c.id \in 1 .. MaxCalls + 1 /\ c.stage \in {"timer", "sent", "answered"}

(* The headline of a provider's order says what is, or was, true of that very
   order, though reads sent for the one before it may be answered only now. *)
ProviderHeadlineTrue ==
  (ui.step = "completed" /\ ui.provider # "none") =>
    ui.kind = "provider" /\ ui.provider \in db.was[ui.order]

(* The headline of an order of the legacy queue says that it succeeded or
   failed when it did.  backend/README.md:261 says of the queue:
   "**Completion**: Shows success/error message when processing finishes".
   The loop over the queue, which nothing stops, writes what it reads of the
   order before on the page of the next. *)
QueueHeadlineTrue ==
  (page = "progress" /\ ui.step = "completed" /\ ui.kind = "queue"
   /\ Headline \in {"completed", "error"}) => db.queue[ui.order] = Headline
=============================================================================
