---------------------------- MODULE RestoreQueue ----------------------------
(* The queue that activates orders of the legacy provider: queue_manager.py *)
(* with the account pool of rotator.py.  One daemon thread per pooled       *)
(* account takes the oldest waiting row of queue_requests, asks RevenueCat  *)
(* for the restore, writes the row's end and then, in a transaction of its  *)
(* own, the order's.  Modelled with it: what sells, dispatches and refunds  *)
(* the orders, administrators who change the pool while it works, restarts, *)
(* statements that fail, and the scripts that call db.init() beside the     *)
(* running application.                                                     *)
EXTENDS ActivationOrders, Naturals, FiniteSets, SequencesExt

CONSTANTS
  Orders,         \* auto_activation orders of the legacy provider
  Visitors,       \* accounts restored through /api/restore, with no order
  Slots,          \* accounts a pool can hold; a slot id is never reused
  FirstSlots,     \* the accounts configured at the start
  NONE,           \* a worker's job when it has none
  MAX_QUEUE_SIZE, \* rows that may wait or be processed at one time
  MaxMishaps      \* bound: restarts, runs of a script beside the
                  \* application, times the database is too busy to write

ASSUME RequestsAssumption == /\ Orders \cap Visitors = {}
                             /\ NONE \notin Orders \cup Visitors
ASSUME PoolAssumption == FirstSlots \subseteq Slots /\ FirstSlots # {}
ASSUME BoundsAssumption == MAX_QUEUE_SIZE \in Nat \ {0} /\ MaxMishaps \in Nat

VARIABLES
  order,     \* activation_orders: status, payment_method, queue_client_id set
  row,       \* queue_requests: the status of each request's row
  line,      \* the rows that wait or are processed, by added_at
  slot,      \* accounts: not yet added, in the pool, removed
  worker,    \* the threads: where each is, its row, what it will write
  granted,   \* orders whose customer RevenueCat records a Gold entitlement for
  returned,  \* wallet_transactions: the keys under which Coin was refunded
  unsent,    \* orders sold by a request that has not dispatched them yet
  removing,  \* accounts whose removal has passed its check of the pool's size
  lost,      \* orders whose status write was lost to a crash or a failure
  scripted,  \* another process has called db.init()
  mishaps    \* counts what MaxMishaps bounds

vars == <<order, row, line, slot, worker, granted, returned, unsent, removing,
          lost, scripted, mishaps>>
tables == <<order, row, line>>
bounds == <<scripted, mishaps>>

Requests == Orders \cup Visitors

Live     == {"waiting", "processing"}
Terminal == {"completed", "error"}

(* The idempotency keys of the two refund endpoints, but for the order's id *)
RefundKeys == {"refund_act", "admin_refund_manual"}

(* A thread: off, at the head of its loop, past the check of its stop       *)
(* event, with a row claimed, resolving the account, in restorePurchase,    *)
(* about to write the row, about to write the order, ended by an exception. *)
Stages == {"off", "idle", "polling", "claimed", "serving", "restoring",
           "finishing", "settling", "dead"}

Idle(stage) == [at |-> stage, job |-> NONE, outcome |-> "none", stop |-> FALSE]

TypeOK ==
  /\ order \in [Orders -> [status : OrderStatus \cup {"none"},
                           coin : BOOLEAN, client : BOOLEAN]]
  /\ row \in [Requests -> Live \cup Terminal \cup {"none"}]
  /\ line \in Seq(Requests) /\ IsInjective(line)
  /\ Range(line) = {r \in Requests : row[r] \in Live}
  /\ slot \in [Slots -> {"unused", "pooled", "removed"}]
  /\ worker \in [Slots -> [at : Stages, job : Requests \cup {NONE},
                           outcome : Terminal \cup {"none"}, stop : BOOLEAN]]
  /\ granted \subseteq Orders /\ unsent \subseteq Orders /\ lost \subseteq Orders
  /\ returned \in [Orders -> SUBSET RefundKeys]
  /\ removing \subseteq Slots
  /\ scripted \in BOOLEAN /\ mishaps \in 0..MaxMishaps

Init ==
  /\ order = [o \in Orders |-> [status |-> "none", coin |-> FALSE,
                                client |-> FALSE]]
  /\ row = [r \in Requests |-> "none"]
  /\ line = <<>>
  /\ slot = [s \in Slots |-> IF s \in FirstSlots THEN "pooled" ELSE "unused"]
  /\ worker = [s \in Slots |-> Idle(IF s \in FirstSlots THEN "idle" ELSE "off")]
  /\ granted = {} /\ unsent = {} /\ removing = {} /\ lost = {}
  /\ returned = [o \in Orders |-> {}]
  /\ scripted = FALSE /\ mishaps = 0

-----------------------------------------------------------------------------
(* Orders and requests enter the queue.                                     *)

(* A purchase with Coin is born awaiting_queue; a transfer makes its order  *)
(* paid.  The request that sold it dispatches it next.                      *)
Sell(o) ==
  /\ order[o].status = "none"
  /\ \E coin \in BOOLEAN :
       order' = [order EXCEPT ![o] =
                   [status |-> IF coin THEN "awaiting_queue" ELSE "paid",
                    coin |-> coin, client |-> FALSE]]
  /\ unsent' = unsent \cup {o}
  /\ UNCHANGED <<row, line, slot, worker, granted, returned, removing, lost,
                 bounds>>

(* The customer repeats a purchase with Coin under the same key: the        *)
(* handler finds the order and dispatches it again, which does nothing to   *)
(* one that has its row.                                                    *)
RetryPurchase(o) ==
  /\ order[o].status # "none" /\ order[o].coin /\ ~order[o].client
  /\ o \notin unsent
  /\ unsent' = unsent \cup {o}
  /\ UNCHANGED <<tables, slot, worker, granted, returned, removing, lost,
                 bounds>>

Full == Len(line) >= MAX_QUEUE_SIZE

Insert(r) == /\ row' = [row EXCEPT ![r] = "waiting"]
             /\ line' = Append(line, r)

(* Mutant: the order gets the status of the row. *)
EnqueueCopiesStatus(o) ==
  IF row[o] = "none" /\ ~Full
     /\ order[o].status \in {"paid", "awaiting_queue", "queued"}
  THEN /\ Insert(o)
       /\ order' = [order EXCEPT ![o].status = "waiting", ![o].client = TRUE]
  ELSE UNCHANGED tables

(* add_to_queue for an order: at most one row, none when the queue is full, *)
(* none when the order has moved on (the insertion is rolled back).         *)
Enqueue(o) ==
  IF row[o] = "none" /\ ~Full
     /\ order[o].status \in {"paid", "awaiting_queue", "queued"}
  THEN /\ Insert(o)
       /\ order' = [order EXCEPT ![o].status = "queued", ![o].client = TRUE]
  ELSE UNCHANGED tables

(* dispatch_paid_activation_order; what its read of queue_client_id decides *)
(* is decided again by the transaction.                                     *)
Dispatch(o) ==
  /\ o \in unsent
  /\ unsent' = unsent \ {o}
  /\ IF order[o].client THEN UNCHANGED tables ELSE Enqueue(o)
  /\ UNCHANGED <<slot, worker, granted, returned, removing, lost, bounds>>

(* /api/restore: refused with an empty pool or while a row of the account   *)
(* is in flight.  A later request of the same account is a new row.         *)
Visit(v) ==
  /\ \E s \in Slots : slot[s] = "pooled"
  /\ row[v] \notin Live
  /\ \A s \in Slots : worker[s].job # v
  /\ ~Full
  /\ Insert(v)
  /\ UNCHANGED <<order, slot, worker, granted, returned, unsent, removing,
                 lost, bounds>>

(* refund_activation_order_coin for an order without a provider job: the    *)
(* row of the queue is not touched.                                         *)
Refund(o) ==
  /\ order[o].coin
  /\ order[o].status \in {"failed", "awaiting_queue", "queued"}
  /\ order' = [order EXCEPT ![o].status = "refunded"]
  /\ returned' = [returned EXCEPT ![o] = @ \cup {"refund_act"}]
  /\ UNCHANGED <<row, line, slot, worker, granted, unsent, removing, lost,
                 bounds>>

(* admin_refund_manual_order does not ask who fulfills the order: it takes  *)
(* one of the queue as well, in processing included.  Coin goes back for an *)
(* order paid with it; for a transfer the admin names the bank's reference. *)
(* The row of the queue is not touched here either.                         *)
RefundManual(o) ==
  /\ order[o].status \in {"paid", "processing", "failed", "cancelled"}
  /\ order[o].coin => "admin_refund_manual" \notin returned[o]
  /\ order' = [order EXCEPT ![o].status = "refunded"]
  /\ returned' = IF order[o].coin
                 THEN [returned EXCEPT ![o] = @ \cup {"admin_refund_manual"}]
                 ELSE returned
  /\ UNCHANGED <<row, line, slot, worker, granted, unsent, removing, lost,
                 bounds>>

-----------------------------------------------------------------------------
(* A worker.                                                                *)

Moves(s, stage) == worker' = [worker EXCEPT ![s].at = stage]

(* The head of the loop: stop_event is looked at here only. *)
Loop(s) ==
  /\ worker[s].at = "idle"
  /\ IF worker[s].stop THEN worker' = [worker EXCEPT ![s] = Idle("off")]
                       ELSE Moves(s, "polling")
  /\ UNCHANGED <<tables, slot, granted, returned, unsent, removing, lost,
                 bounds>>

Waits(i) == i \in DOMAIN line /\ row[line[i]] = "waiting"

(* Mutant: the newest row is taken first. *)
Newest(i) == Waits(i) /\ \A j \in DOMAIN line : Waits(j) => j <= i

(* The row that has waited longest. *)
Oldest(i) == Waits(i) /\ \A j \in DOMAIN line : Waits(j) => i <= j

(* _claim_next_waiting up to its first statement, which is atomic. *)
Claim(s) ==
  /\ worker[s].at = "polling"
  /\ \E i \in DOMAIN line :
       /\ Oldest(i)
       /\ row' = [row EXCEPT ![line[i]] = "processing"]
       /\ worker' = [worker EXCEPT
            ![s].at = IF line[i] \in Orders THEN "claimed" ELSE "serving",
            ![s].job = line[i]]
  /\ UNCHANGED <<order, line, slot, granted, returned, unsent, removing, lost,
                 bounds>>

(* Nothing waits: old rows that have ended are removed (_maybe_cleanup).    *)
ClaimNothing(s) ==
  /\ worker[s].at = "polling"
  /\ ~ \E i \in DOMAIN line : Waits(i)
  /\ \E old \in SUBSET {r \in Requests : row[r] \in Terminal} :
       row' = [r \in Requests |-> IF r \in old THEN "none" ELSE row[r]]
  /\ Moves(s, "idle")
  /\ UNCHANGED <<order, line, slot, granted, returned, unsent, removing, lost,
                 bounds>>

(* update_activation_order_status: a refused transition leaves the order.   *)
WriteOrder(o, status) ==
  order' = IF TransitionOk(order[o].status, status)
           THEN [order EXCEPT ![o].status = status, ![o].client = TRUE]
           ELSE order

(* The second transaction of _claim_next_waiting. *)
MarkProcessing(s) ==
  /\ worker[s].at = "claimed"
  /\ WriteOrder(worker[s].job, "processing")
  /\ Moves(s, "serving")
  /\ UNCHANGED <<row, line, slot, granted, returned, unsent, removing, lost,
                 bounds>>

Concludes(s, end) ==
  worker' = [worker EXCEPT ![s].at = "finishing", ![s].outcome = end]

(* _process_request up to restorePurchase: the account does not resolve, or *)
(* the slot has been removed from the pool (KeyError), or the call starts.  *)
Serve(s) ==
  /\ worker[s].at = "serving"
  /\ \/ Concludes(s, "error")
     \/ slot[s] = "pooled" /\ Moves(s, "restoring")
  /\ UNCHANGED <<tables, slot, granted, returned, unsent, removing, lost,
                 bounds>>

(* RevenueCat records the entitlement (a call the worker may repeat). *)
Grant(s) ==
  /\ worker[s].at = "restoring"
  /\ worker[s].job \in Orders \ granted
  /\ granted' = granted \cup {worker[s].job}
  /\ UNCHANGED <<tables, slot, worker, returned, unsent, removing, lost,
                 bounds>>

(* Mutant: any answer without an exception is taken for success. *)
AnswerUnchecked(s) ==
  /\ worker[s].at = "restoring"
  /\ \E end \in Terminal : Concludes(s, end)
  /\ UNCHANGED <<tables, slot, granted, returned, unsent, removing, lost,
                 bounds>>

(* restorePurchase ends: with an answer that shows the entitlement, with    *)
(* one that does not, or with the exception of the last attempt.            *)
Answer(s) ==
  /\ worker[s].at = "restoring"
  /\ \E end \in Terminal :
       /\ end = "completed" => worker[s].job \in Visitors \cup granted
       /\ Concludes(s, end)
  /\ UNCHANGED <<tables, slot, granted, returned, unsent, removing, lost,
                 bounds>>

(* The worker goes back to the head of its loop. *)
Released(s) == worker' = [worker EXCEPT ![s] =
                            [Idle("idle") EXCEPT !.stop = worker[s].stop]]

(* The row is no longer one that waits or is processed. *)
Leaves(r) == \/ \E i \in DOMAIN line : line[i] = r /\ line' = RemoveAt(line, i)
             \/ r \notin Range(line) /\ UNCHANGED line

(* _finalize, the transaction of the row; a row already removed ends it. *)
FinalizeRow(s) ==
  LET r == worker[s].job
  IN  /\ worker[s].at = "finishing"
      /\ IF row[r] = "none"
         THEN UNCHANGED <<row, line>>
         ELSE /\ row' = [row EXCEPT ![r] = worker[s].outcome]
              /\ Leaves(r)
      /\ IF r \in Orders /\ row[r] # "none"
         THEN Moves(s, "settling")
         ELSE Released(s)
      /\ UNCHANGED <<order, slot, granted, returned, unsent, removing, lost,
                     bounds>>

(* Mutant: a restore that failed leaves the order alone. *)
SettleCompletedOnly(s) ==
  /\ worker[s].at = "settling"
  /\ IF worker[s].outcome = "completed"
     THEN WriteOrder(worker[s].job, "completed")
     ELSE UNCHANGED order
  /\ Released(s)
  /\ UNCHANGED <<row, line, slot, granted, returned, unsent, removing, lost,
                 bounds>>

(* _finalize, the transaction of the order. *)
SettleOrder(s) ==
  /\ worker[s].at = "settling"
  /\ WriteOrder(worker[s].job,
                IF worker[s].outcome = "completed" THEN "completed" ELSE "failed")
  /\ Released(s)
  /\ UNCHANGED <<row, line, slot, granted, returned, unsent, removing, lost,
                 bounds>>

Work(s) == \/ Loop(s) \/ Claim(s) \/ ClaimNothing(s) \/ MarkProcessing(s)
           \/ Serve(s) \/ Answer(s) \/ FinalizeRow(s) \/ SettleOrder(s)

-----------------------------------------------------------------------------
(* Statements that fail.                                                    *)

Mishap == mishaps < MaxMishaps /\ mishaps' = mishaps + 1

Fault == Mishap /\ UNCHANGED scripted

(* The claim is outside the try of _process_queue: its exception ends the   *)
(* thread, and nothing starts another one.                                  *)
ClaimFails(s) ==
  /\ worker[s].at = "polling"
  /\ worker' = [worker EXCEPT ![s] = Idle("dead")]
  /\ Fault
  /\ UNCHANGED <<tables, slot, granted, returned, unsent, removing, lost>>

(* The write of 'processing' fails: the worker goes on without it. *)
MarkFails(s) ==
  /\ worker[s].at = "claimed"
  /\ Moves(s, "serving")
  /\ lost' = lost \cup {worker[s].job}
  /\ Fault
  /\ UNCHANGED <<tables, slot, granted, returned, unsent, removing>>

(* The transaction of the row fails: the handlers around it finalize the    *)
(* request again, now as an error, two attempts after a success and one     *)
(* after an error; if the database stays busy, the last one ends the thread.*)
FinalizeFails(s) ==
  /\ worker[s].at = "finishing"
  /\ \/ worker' = [worker EXCEPT ![s].outcome = "error"]
     \/ Moves(s, "dead")
  /\ Fault
  /\ UNCHANGED <<tables, slot, granted, returned, unsent, removing, lost>>

(* The transaction of the order fails: it is not tried again. *)
SettleFails(s) ==
  /\ worker[s].at = "settling"
  /\ lost' = lost \cup {worker[s].job}
  /\ Released(s)
  /\ Fault
  /\ UNCHANGED <<tables, slot, granted, returned, unsent, removing>>

-----------------------------------------------------------------------------
(* The pool, restarts and scripts.                                          *)

(* accounts_add *)
AddSlot(s) ==
  /\ slot[s] = "unused"
  /\ slot' = [slot EXCEPT ![s] = "pooled"]
  /\ worker' = [worker EXCEPT ![s] = Idle("idle")]
  /\ UNCHANGED <<tables, granted, returned, unsent, removing, lost, bounds>>

(* accounts_remove: the check of the pool's size, and later the removal.    *)
CheckRemoval(s) ==
  /\ slot[s] = "pooled" /\ s \notin removing
  /\ Cardinality({t \in Slots : slot[t] = "pooled"}) > 1
  /\ removing' = removing \cup {s}
  /\ UNCHANGED <<tables, slot, worker, granted, returned, unsent, lost, bounds>>

(* Mutant: the removal ends the thread at once. *)
RemoveSlotAtOnce(s) ==
  /\ s \in removing
  /\ removing' = removing \ {s}
  /\ slot' = [slot EXCEPT ![s] = "removed"]
  /\ worker' = [worker EXCEPT ![s] = Idle("off")]
  /\ UNCHANGED <<tables, granted, returned, unsent, lost, bounds>>

RemoveSlot(s) ==
  /\ s \in removing
  /\ removing' = removing \ {s}
  /\ slot' = [slot EXCEPT ![s] = "removed"]
  /\ worker' = [worker EXCEPT ![s].stop = TRUE]
  /\ UNCHANGED <<tables, granted, returned, unsent, lost, bounds>>

(* Mutant: the reset is missing. *)
NoReset == UNCHANGED row

(* db.init(): rows in processing are taken for leftovers of an earlier run. *)
ResetProcessing ==
  row' = [r \in Requests |-> IF row[r] = "processing" THEN "waiting" ELSE row[r]]

(* The process ends anywhere and starts again: one thread per account. *)
Restart ==
  /\ Mishap
  /\ ResetProcessing
  /\ worker' = [s \in Slots |->
                  Idle(IF slot[s] = "pooled" THEN "idle" ELSE "off")]
  /\ unsent' = {} /\ removing' = {}
  /\ lost' = lost \cup {worker[s].job : s \in {t \in Slots :
                                                 worker[t].at = "settling"}}
  /\ UNCHANGED <<order, line, slot, granted, returned, scripted>>

(* create_accounts.py or migrate_lunakey_plans.py runs beside the           *)
(* application and calls db.init() in its own process.                      *)
ScriptRuns ==
  /\ Mishap /\ scripted' = TRUE
  /\ ResetProcessing
  /\ UNCHANGED <<order, line, slot, worker, granted, returned, unsent,
                 removing, lost>>

Next ==
  \/ \E o \in Orders : \/ Sell(o) \/ RetryPurchase(o) \/ Dispatch(o)
                       \/ Refund(o) \/ RefundManual(o)
  \/ \E v \in Visitors : Visit(v)
  \/ \E s \in Slots : Work(s) \/ Grant(s)
  \/ \E s \in Slots : \/ ClaimFails(s) \/ MarkFails(s)
                      \/ FinalizeFails(s) \/ SettleFails(s)
  \/ \E s \in Slots : AddSlot(s) \/ CheckRemoval(s) \/ RemoveSlot(s)
  \/ Restart \/ ScriptRuns

Spec == Init /\ [][Next]_vars

(* A thread that is runnable runs, and every call it makes returns (each    *)
(* HTTP request has a timeout, each loop of retries an end).                *)
FairSpec == Spec /\ \A s \in Slots : WF_vars(Work(s))

-----------------------------------------------------------------------------
(* Properties.                                                              *)

Serving(s) == worker[s].at \in {"claimed", "serving", "restoring", "finishing"}

(* A row in processing has a worker on it, or one that died on it: neither  *)
(* the removal of its account nor a restart leaves a row that no worker     *)
(* will ever end (queue_manager.py:413, db.py:557).  And it has only one,   *)
(* however often the application restarts, as long as no other process      *)
(* resets the rows (queue_manager.py:427).                                  *)
RowsHeldOnce ==
  /\ \A r \in Requests : row[r] = "processing" =>
       \E s \in Slots : worker[s].job = r /\ (Serving(s) \/ worker[s].at = "dead")
  /\ ~scripted =>
       \A s, t \in Slots : s # t /\ Serving(s) /\ Serving(t)
                             => worker[s].job # worker[t].job

(* An order that says it is queued or processing still has its row in the   *)
(* queue or a worker about to settle it; only an order whose status write   *)
(* was lost can be left behind (queue_manager.py:523, :447).                *)
NeverStranded ==
  \A o \in Orders \ lost : order[o].status \in {"queued", "processing"} =>
    row[o] \in Live \/ \E s \in Slots : worker[s].job = o
                                        /\ worker[s].at = "settling"

(* What an order says of its end is true.  Coins went back exactly once for *)
(* an order that was paid with Coin and is refunded, and never for another, *)
(* although either of two endpoints refunds it, in any state but completed, *)
(* and its row stays in the queue and is finished later (db.py:3716, :3819, *)
(* :3548).  And it is completed only after RevenueCat recorded the          *)
(* entitlement, in this run of the restore or in one a crash cut short      *)
(* (queue_manager.py:641).                                                  *)
EndsTrue ==
  \A o \in Orders :
    /\ IF order[o].coin /\ order[o].status = "refunded"
       THEN \E key \in RefundKeys : returned[o] = {key}
       ELSE returned[o] = {}
    /\ order[o].status = "completed" => o \in granted

(* No thread has died and the pool is not empty. *)
Staffed == /\ \A s \in Slots : worker[s].at # "dead"
           /\ \E s \in Slots : slot[s] = "pooled"

(* An order in the queue leaves it and gets its end, however many later     *)
(* requests keep coming and whichever account is removed, unless its status *)
(* write was lost or nobody works (queue_manager.py:427, :454).             *)
OrderSettles ==
  \A o \in Orders : row[o] \in Live ~>
    \/ row[o] \notin Live /\ order[o].status \in {"completed", "failed", "refunded"}
    \/ o \in lost \/ ~Staffed

(* Once the Coin of an order went back through refund-coin, its restore no  *)
(* longer takes place (what admin_api.py:2055 promises of that refund).     *)
RefundedNeverRestored ==
  [][\A o \in Orders : "refund_act" \in returned[o]
                         => (o \in granted' => o \in granted)]_vars
=============================================================================
