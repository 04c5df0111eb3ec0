--------------------------- MODULE ProviderOutbox ---------------------------
(* The LunaKey outbox: provider_jobs rows, the worker threads that lease    *)
(* them and call the provider, the periodic maintenance, the admin          *)
(* endpoints that retry, reconcile and refund, process restarts, and the    *)
(* provider at the other end of an unreliable connection.                   *)
(*                                                                          *)
(* One action is one SQLite statement or transaction (each is serialised    *)
(* by the database) or one step of a thread outside the database.  Times    *)
(* are abstracted to what the code tests: a lease that is over, a replay    *)
(* window that is open or closed, a back-off that has elapsed.              *)
EXTENDS ActivationOrders, FiniteSets, Integers

CONSTANTS
  Orders,          \* ids of the orders sold through the provider
  CoinOrders,      \* those paid from the wallet; the others are paid by QR
  Workers,         \* the worker threads of the process
  MaxAttempts,     \* provider_jobs.max_attempts
  WindowSettings,  \* is LUNAKEY_IDEMPOTENCY_WINDOW_SECONDS > 0: the values it may have
  MaxDeliveries,   \* bound on how often the provider may execute one request
  MaxLate,         \* bound on the abandoned requests of one order
  MaxRestarts,     \* bound on the restarts of the process
  None             \* NULL, and any lease_owner of an earlier process

ASSUME CoinAssumption == CoinOrders \subseteq Orders
ASSUME WorkersAssumption == IsFiniteSet(Workers)
ASSUME AttemptsAssumption == MaxAttempts \in Nat \ {0}
ASSUME WindowAssumption == WindowSettings \subseteq BOOLEAN
ASSUME BoundAssumption == /\ MaxDeliveries \in Nat
                          /\ MaxLate \in Nat
                          /\ MaxRestarts \in Nat
ASSUME NoneAssumption == None \notin Workers \cup Orders

VARIABLES
  order,        \* order[o]: activation_orders.status, "none" before the sale
  funded,       \* orders whose coins were taken or whose own payment is paid
  superseded,   \* superseded[o]: the payments that renewals of o replaced
  job,          \* job[o]: the provider_jobs row of o
  credits,      \* credits[o]: the refund keys in wallet_transactions for o
  paused,       \* site_settings: the provider is paused
  worker,       \* worker[w]: where thread w is, and what it holds
  dispatching,  \* orders whose request handler has yet to create the job
  retrying,     \* retry requests that passed the pause check
  late,         \* late[o]: requests the client gave up on, still under way
  delivered,    \* delivered[o]: how often the provider executed o's request
  restarts      \* restarts of the process so far

vars == <<order, funded, superseded, job, credits, paused, worker, dispatching,
          retrying, late, delivered, restarts>>
dbVars == <<order, funded, superseded, job, credits, paused>>
handlerVars == <<dispatching, retrying>>
upstreamVars == <<late, delivered, restarts>>

------------------------------------------------------------------------------
(* The provider_jobs row *)

JobStatus == {"none", "pending", "leased", "succeeded", "failed",
              "awaiting_reconciliation", "cancelled"}
Outcome == {"null", "sent_unclear", "rejected", "failed", "succeeded"}
Replay == {"null", "open", "closed"}

(* "none": o was not renewed; "paid": a transfer was booked on a payment    *)
(* that a renewal had replaced                                              *)
Superseded == {"none", "unpaid", "paid"}

(* status "none" stands for a missing row; "leaseOver" for lease_expires_at *)
(* < now, "sent" for first_sent_at IS NOT NULL, "replay" for replay_deadline *)
(* against the clock, "due" for next_attempt_at <= now or NULL.              *)
JobRow == [status: JobStatus, owner: Workers \cup {None}, leaseOver: BOOLEAN,
           attempts: 0..MaxAttempts, sent: BOOLEAN, replay: Replay,
           outcome: Outcome, due: BOOLEAN]

NoRow == [status |-> "none", owner |-> None, leaseOver |-> FALSE,
          attempts |-> 0, sent |-> FALSE, replay |-> "null",
          outcome |-> "null", due |-> TRUE]

(* create_provider_job: one row per order, an existing row is kept *)
Created(row) == IF row.status = "none" THEN [row EXCEPT !.status = "pending"]
                                       ELSE row

Leased(row, w) == row.status = "leased" /\ row.owner = w

Released(row) == [row EXCEPT !.owner = None, !.leaseOver = FALSE]

(* What ends an attempt: the lease goes, status and outcome are written.   *)
Concluded(row, status, outcome) ==
  [Released(row) EXCEPT !.status = status, !.outcome = outcome]

(* Mutant: every order that was once paid. *)
OncePaid == {"paid", "awaiting_queue", "queued", "processing", "failed",
             "refunded"}

(* _PROVIDER_CLAIMABLE_ORDER_STATUSES: an activation is still wanted *)
Claimable == {"paid", "awaiting_queue", "queued", "processing", "failed"}

(* Mutant: a deadline that was never set is no limit. *)
SafeUnlessClosed(row) ==
  ~row.sent \/ row.outcome = "rejected" \/ row.replay # "closed"

(* A row that was sent with an outcome that does not exclude execution may  *)
(* only be sent again inside a confirmed window.                            *)
SafeToSend(row) ==
  ~row.sent \/ row.outcome = "rejected" \/ row.replay = "open"

(* Mutant: the attempt limit is left to the maintenance. *)
RunnableWithoutLimit(o) ==
  /\ job[o].status = "pending"
  /\ job[o].due
  /\ order[o] \in Claimable
  /\ job[o].outcome # "succeeded"
  /\ SafeToSend(job[o])

Runnable(o) ==
  /\ job[o].status = "pending"
  /\ job[o].attempts < MaxAttempts
  /\ job[o].due
  /\ order[o] \in Claimable
  /\ job[o].outcome # "succeeded"
  /\ SafeToSend(job[o])

(* Mutant: a new attempt starts with the outcome of the last one. *)
ClaimedAsIs(row, w, confirmed) ==
  [row EXCEPT !.status = "leased", !.owner = w, !.leaseOver = FALSE,
              !.attempts = @ + 1, !.sent = TRUE,
              !.replay = IF @ = "null" /\ confirmed THEN "open" ELSE @]

(* What a claim writes.  The first send fixes the replay deadline, if the   *)
(* window is confirmed then; the outcome of an earlier attempt is forgotten *)
(* since a new one may be under way from here on.                           *)
Claimed(row, w, confirmed) ==
  [row EXCEPT !.status = "leased", !.owner = w, !.leaseOver = FALSE,
              !.attempts = @ + 1, !.sent = TRUE,
              !.replay = IF @ = "null" /\ confirmed THEN "open" ELSE @,
              !.outcome = "sent_unclear"]

(* What the maintenance statements write to a row they select. *)
Reclaimed(row) ==
  IF row.status = "leased" /\ row.leaseOver
  THEN [Released(row) EXCEPT !.status = "pending"] ELSE row

Exhausted(row) ==
  IF row.status = "pending" /\ row.attempts >= MaxAttempts
  THEN [Released(row) EXCEPT !.status = "awaiting_reconciliation"] ELSE row

(* Mutant: a row without a deadline is not selected. *)
UnreplayableIfClosed(row) ==
  IF row.status = "pending" /\ ~SafeToSend(row) /\ row.replay = "closed"
  THEN [Released(row) EXCEPT !.status = "awaiting_reconciliation"] ELSE row

Unreplayable(row) ==
  IF row.status = "pending" /\ ~SafeToSend(row)
  THEN [Released(row) EXCEPT !.status = "awaiting_reconciliation"] ELSE row

------------------------------------------------------------------------------
(* The worker threads.  A tick is: maintenance when its interval is over    *)
(* ("reclaim" .. "recovering"), the pause check, the claim, then outside    *)
(* any transaction the call ("send", "await"), then the writes that record  *)
(* its verdict ("pause", "finalize").                                       *)

PC == {"idle", "reclaim", "exhaust", "unreplayable", "recover", "recovering",
       "check", "claim", "send", "await", "pause", "finalize"}

Verdict == {"none", "success", "refused", "failed", "retry", "unclear"}

WorkerState == [pc: PC, on: Orders \cup {None}, served: BOOLEAN,
                verdict: Verdict, todo: SUBSET Orders]

Idle == [pc |-> "idle", on |-> None, served |-> FALSE, verdict |-> "none",
         todo |-> {}]

At(w, pc) == worker[w].pc = pc
Goto(w, pc) == worker' = [worker EXCEPT ![w].pc = pc]
Rest(w) == worker' = [worker EXCEPT ![w] = Idle]

Init ==
  /\ order = [o \in Orders |-> "none"]
  /\ funded = {}
  /\ superseded = [o \in Orders |-> "none"]
  /\ job = [o \in Orders |-> NoRow]
  /\ credits = [o \in Orders |-> {}]
  /\ paused = FALSE
  /\ worker = [w \in Workers |-> Idle]
  /\ dispatching = {}
  /\ retrying = {}
  /\ late = [o \in Orders |-> 0]
  /\ delivered = [o \in Orders |-> 0]
  /\ restarts = 0

------------------------------------------------------------------------------
(* Sales.  How an order gets paid is the business of the payment modules;   *)
(* here it is paid, and the handler that got it paid goes on to dispatch.   *)

(* purchase_plan_with_coin_atomic: a provider order is born paid *)
PlaceCoinOrder(o) ==
  /\ o \in CoinOrders
  /\ order[o] = "none"
  /\ order' = [order EXCEPT ![o] = "paid"]
  /\ funded' = funded \cup {o}
  /\ dispatching' = dispatching \cup {o}
  /\ UNCHANGED <<superseded, job, credits, paused, worker, retrying, upstreamVars>>

(* create_plan_payment: a QR order waits for the transfer *)
PlaceQrOrder(o) ==
  /\ o \notin CoinOrders
  /\ order[o] = "none"
  /\ order' = [order EXCEPT ![o] = "awaiting_payment"]
  /\ UNCHANGED <<funded, superseded, job, credits, paused, worker, handlerVars,
                 upstreamVars>>

(* Mutant: only an order that still waits is paid by the transfer. *)
PaymentConfirmedInTime(o) ==
  /\ o \notin CoinOrders \cup funded
  /\ order[o] \in {"awaiting_payment", "cancelled", "refunded"}
  /\ funded' = funded \cup {o}
  /\ order' = IF order[o] # "awaiting_payment" THEN order
              ELSE [order EXCEPT ![o] = "paid"]
  /\ dispatching' = dispatching \cup {o}
  /\ UNCHANGED <<superseded, job, credits, paused, worker, retrying,
                 upstreamVars>>

(* confirm_payment for the order's own payment, the one it is linked to, as  *)
(* long as that is pending or expired: the transfer is booked once.  It     *)
(* pays the order, one that was cancelled when the payment expired included;*)
(* an order the admin refunded meanwhile stays refunded, and is dispatched  *)
(* all the same.                                                            *)
PaymentConfirmed(o) ==
  /\ o \notin CoinOrders \cup funded
  /\ order[o] \in {"awaiting_payment", "cancelled", "refunded"}
  /\ funded' = funded \cup {o}
  /\ order' = IF order[o] = "refunded" THEN order ELSE [order EXCEPT ![o] = "paid"]
  /\ dispatching' = dispatching \cup {o}
  /\ UNCHANGED <<superseded, job, credits, paused, worker, retrying,
                 upstreamVars>>

(* confirm_payment for a payment that a renewal has replaced: it has no     *)
(* order any more.  The transfer is booked, and the order goes on to wait   *)
(* for the other payment: it does not move and is not dispatched.           *)
SupersededConfirmed(o) ==
  /\ superseded[o] = "unpaid"
  /\ superseded' = [superseded EXCEPT ![o] = "paid"]
  /\ UNCHANGED <<order, funded, job, credits, paused, worker, handlerVars,
                 upstreamVars>>

(* The order's payment expires or is cancelled, before any money was seen.  *)
(* Which of the two is left open: a transfer that comes later pays an       *)
(* expired one and is refused for the other.                                *)
PaymentLapses(o) ==
  /\ order[o] = "awaiting_payment"
  /\ order' = [order EXCEPT ![o] = "cancelled"]
  /\ UNCHANGED <<funded, superseded, job, credits, paused, worker, handlerVars,
                 upstreamVars>>

(* renew_payment: a fresh payment takes over the order of one that lapsed,  *)
(* whatever has become of the order; one that merely became overdue has     *)
(* left it waiting                                                          *)
PaymentRenewed(o) ==
  /\ o \notin CoinOrders \cup funded
  /\ order[o] \in {"awaiting_payment", "cancelled", "refunded"}
  /\ order' = [order EXCEPT ![o] = "awaiting_payment"]
  /\ superseded' = [superseded EXCEPT ![o] = IF @ = "none" THEN "unpaid" ELSE @]
  /\ UNCHANGED <<funded, job, credits, paused, worker, handlerVars, upstreamVars>>

(* dispatch_provider_order: the handler creates the job of its order *)
Dispatch(o) ==
  /\ o \in dispatching
  /\ dispatching' = dispatching \ {o}
  /\ job' = [job EXCEPT ![o] = Created(@)]
  /\ UNCHANGED <<order, funded, superseded, credits, paused, worker, retrying,
                 upstreamVars>>

(* an error (a locked database) ends the handler: the order stays paid, and *)
(* its job is left to the maintenance                                       *)
DispatchFails(o) ==
  /\ o \in dispatching
  /\ dispatching' = dispatching \ {o}
  /\ UNCHANGED <<dbVars, worker, retrying, upstreamVars>>

------------------------------------------------------------------------------
(* A worker's tick: maintenance, then the claim *)

(* tick: maintenance runs when its interval is over, and is skipped else *)
BeginMaintenance(w) ==
  /\ At(w, "idle")
  /\ Goto(w, "reclaim")
  /\ UNCHANGED <<dbVars, handlerVars, upstreamVars>>

SkipMaintenance(w) ==
  /\ At(w, "idle")
  /\ Goto(w, "check")
  /\ UNCHANGED <<dbVars, handlerVars, upstreamVars>>

(* reclaim_expired_provider_leases *)
Reclaim(w) ==
  /\ At(w, "reclaim")
  /\ job' = [o \in Orders |-> Reclaimed(job[o])]
  /\ Goto(w, "exhaust")
  /\ UNCHANGED <<order, funded, superseded, credits, paused, handlerVars,
                 upstreamVars>>

(* expire_exhausted_provider_jobs *)
ExpireExhausted(w) ==
  /\ At(w, "exhaust")
  /\ job' = [o \in Orders |-> Exhausted(job[o])]
  /\ Goto(w, "unreplayable")
  /\ UNCHANGED <<order, funded, superseded, credits, paused, handlerVars,
                 upstreamVars>>

(* expire_unreplayable_provider_jobs *)
ExpireUnreplayable(w) ==
  /\ At(w, "unreplayable")
  /\ job' = [o \in Orders |-> Unreplayable(job[o])]
  /\ Goto(w, "recover")
  /\ UNCHANGED <<order, funded, superseded, credits, paused, handlerVars,
                 upstreamVars>>

(* recover_missing_provider_jobs, the query: paid orders without a job *)
FindMissing(w) ==
  /\ At(w, "recover")
  /\ worker' = [worker EXCEPT
       ![w].pc = "recovering",
       ![w].todo = {o \in Orders : /\ job[o].status = "none"
                                   /\ order[o] \in {"paid", "awaiting_queue"}}]
  /\ UNCHANGED <<dbVars, handlerVars, upstreamVars>>

(* recover_missing_provider_jobs, the loop: the rows are not read again *)
RecoverOne(w, o) ==
  /\ At(w, "recovering")
  /\ o \in worker[w].todo
  /\ job' = [job EXCEPT ![o] = Created(@)]
  /\ worker' = [worker EXCEPT ![w].todo = @ \ {o}]
  /\ UNCHANGED <<order, funded, superseded, credits, paused, handlerVars,
                 upstreamVars>>

EndMaintenance(w) ==
  /\ At(w, "recovering")
  /\ worker[w].todo = {}
  /\ Goto(w, "check")
  /\ UNCHANGED <<dbVars, handlerVars, upstreamVars>>

(* a statement of _maintenance raises: the rest of it is skipped *)
MaintenanceFails(w) ==
  /\ worker[w].pc \in {"reclaim", "exhaust", "unreplayable", "recover",
                       "recovering"}
  /\ worker' = [worker EXCEPT ![w] = [Idle EXCEPT !.pc = "check"]]
  /\ UNCHANGED <<dbVars, handlerVars, upstreamVars>>

(* is_provider_paused: read before, and not together with, the claim *)
CheckPaused(w) ==
  /\ At(w, "check")
  /\ IF paused THEN Rest(w) ELSE Goto(w, "claim")
  /\ UNCHANGED <<dbVars, handlerVars, upstreamVars>>

(* claim_provider_job: which runnable row comes first depends on the times  *)
(* that are abstracted away; "confirmed" is the window setting of this tick *)
Claim(w, o) ==
  /\ At(w, "claim")
  /\ Runnable(o)
  /\ \E confirmed \in WindowSettings :
       job' = [job EXCEPT ![o] = Claimed(@, w, confirmed)]
  /\ worker' = [worker EXCEPT ![w].pc = "send", ![w].on = o]
  /\ UNCHANGED <<order, funded, superseded, credits, paused, handlerVars,
                 upstreamVars>>

NothingToClaim(w) ==
  /\ At(w, "claim")
  /\ \A o \in Orders : ~Runnable(o)
  /\ Rest(w)
  /\ UNCHANGED <<dbVars, handlerVars, upstreamVars>>

------------------------------------------------------------------------------
(* The call, and the provider at the other end (external).  The provider    *)
(* executes a request at most once while the confirmed replay window of its *)
(* request id is open; afterwards it may take a repeat for a new request.   *)

Executes(o) ==
  \/ /\ delivered[o] > 0
     /\ UNCHANGED delivered
  \/ /\ ~(delivered[o] > 0 /\ job[o].replay = "open")
     /\ delivered[o] < MaxDeliveries
     /\ delivered' = [delivered EXCEPT ![o] = @ + 1]

(* activate: the request leaves for the provider *)
Send(w) ==
  /\ At(w, "send")
  /\ Goto(w, "await")
  /\ UNCHANGED <<dbVars, handlerVars, upstreamVars>>

(* activate raises LunaKeyConfigError before anything is sent; the codes    *)
(* that concern the whole provider also pause it                            *)
ConfigError(w) ==
  /\ At(w, "send")
  /\ \/ worker' = [worker EXCEPT ![w].pc = "pause", ![w].verdict = "failed"]
     \/ worker' = [worker EXCEPT ![w].pc = "finalize", ![w].verdict = "failed"]
  /\ UNCHANGED <<dbVars, handlerVars, upstreamVars>>

(* the provider executes the request of a waiting thread *)
Serve(w) ==
  /\ At(w, "await")
  /\ ~worker[w].served
  /\ Executes(worker[w].on)
  /\ worker' = [worker EXCEPT ![w].served = TRUE]
  /\ UNCHANGED <<dbVars, handlerVars, late, restarts>>

Concludes(w, pc, verdict) ==
  worker' = [worker EXCEPT ![w].pc = pc, ![w].verdict = verdict]

(* a well-formed 200: the order code of an executed request *)
ReceiveSuccess(w) ==
  /\ At(w, "await")
  /\ worker[w].served
  /\ Concludes(w, "finalize", "success")
  /\ UNCHANGED <<dbVars, handlerVars, upstreamVars>>

(* 401, 402, 400 and 409: the provider did not execute this request.  401   *)
(* and 402 are kept for the admin, 401 pauses the provider first; 400 and   *)
(* 409 fail the order.                                                      *)
ReceiveRefusal(w) ==
  /\ At(w, "await")
  /\ ~worker[w].served
  /\ \/ Concludes(w, "pause", "refused")
     \/ Concludes(w, "finalize", "refused")
     \/ Concludes(w, "finalize", "failed")
  /\ UNCHANGED <<dbVars, handlerVars, upstreamVars>>

(* A time-out, a broken connection, a 5xx or a malformed answer: whether    *)
(* the request was executed is unknown, and one that was not may still be   *)
(* under way.  _schedule_retry_or_reconcile decides on the claimed row; as  *)
(* long as the lease is held the row still has those values.                *)
ReceiveUnclear(w) ==
  LET o == worker[w].on IN
  /\ At(w, "await")
  /\ Concludes(w, "finalize",
               IF job[o].attempts < MaxAttempts /\ job[o].replay = "open"
               THEN "retry" ELSE "unclear")
  /\ \/ UNCHANGED late
     \/ /\ ~worker[w].served
        /\ late[o] < MaxLate
        /\ late' = [late EXCEPT ![o] = @ + 1]
  /\ UNCHANGED <<dbVars, handlerVars, delivered, restarts>>

(* an abandoned request arrives after all, or is lost *)
LateServe(o) ==
  /\ late[o] > 0
  /\ late' = [late EXCEPT ![o] = @ - 1]
  /\ Executes(o)
  /\ UNCHANGED <<dbVars, handlerVars, worker, restarts>>

LateLost(o) ==
  /\ late[o] > 0
  /\ late' = [late EXCEPT ![o] = @ - 1]
  /\ UNCHANGED <<dbVars, handlerVars, worker, delivered, restarts>>

------------------------------------------------------------------------------
(* Recording the verdict: finalize_provider_job_tx *)

(* pause_provider: a write of its own, before the job is finalized *)
PauseProvider(w) ==
  /\ At(w, "pause")
  /\ paused' = TRUE
  /\ Goto(w, "finalize")
  /\ UNCHANGED <<order, funded, superseded, job, credits, handlerVars,
                 upstreamVars>>

(* a thread at the end of _process with a given verdict and a lease it holds *)
Finalizes(w, verdict) ==
  /\ At(w, "finalize")
  /\ worker[w].verdict = verdict
  /\ Leased(job[worker[w].on], w)
  /\ Rest(w)
  /\ UNCHANGED <<funded, superseded, credits, paused, handlerVars, upstreamVars>>

(* the lease was lost: nothing is written *)
FinalizeStale(w) ==
  /\ At(w, "finalize")
  /\ ~Leased(job[worker[w].on], w)
  /\ Rest(w)
  /\ UNCHANGED <<dbVars, handlerVars, upstreamVars>>

(* Mutant: the order is left to a second transaction. *)
FinalizeSuccessJobOnly(w) ==
  LET o == worker[w].on IN
  /\ Finalizes(w, "success")
  /\ job' = [job EXCEPT ![o] = Concluded(@, "succeeded", "succeeded")]
  /\ UNCHANGED order

(* success: the order is completed with the job; when its status forbids    *)
(* that, the evidence stays on the job and waits for the admin              *)
FinalizeSuccess(w) ==
  LET o == worker[w].on
      ok == TransitionOk(order[o], "completed")
  IN
  /\ Finalizes(w, "success")
  /\ job' = [job EXCEPT ![o] =
               Concluded(@, IF ok THEN "succeeded" ELSE "awaiting_reconciliation",
                         "succeeded")]
  /\ order' = IF ok THEN [order EXCEPT ![o] = "completed"] ELSE order

(* a definite failure: the order fails with the job unless its status       *)
(* forbids that, and then it is left alone                                  *)
FinalizeFailure(w) ==
  LET o == worker[w].on IN
  /\ Finalizes(w, "failed")
  /\ job' = [job EXCEPT ![o] = Concluded(@, "failed", "rejected")]
  /\ order' = IF TransitionOk(order[o], "failed")
              THEN [order EXCEPT ![o] = "failed"] ELSE order

(* _mark_reconciliation: the order keeps its status *)
FinalizeReconcile(w) ==
  LET o == worker[w].on IN
  /\ \/ /\ Finalizes(w, "refused")
        /\ job' = [job EXCEPT ![o] =
                     Concluded(@, "awaiting_reconciliation", "rejected")]
     \/ /\ Finalizes(w, "unclear")
        /\ job' = [job EXCEPT ![o] =
                     Concluded(@, "awaiting_reconciliation", "sent_unclear")]
  /\ UNCHANGED order

(* back to the pool until the back-off has elapsed *)
FinalizeRetry(w) ==
  LET o == worker[w].on IN
  /\ Finalizes(w, "retry")
  /\ job' = [job EXCEPT ![o] =
               [Concluded(@, "pending", "sent_unclear") EXCEPT !.due = FALSE]]
  /\ UNCHANGED order

(* the transaction raises and is rolled back; tick goes on without a result *)
FinalizeError(w) ==
  /\ At(w, "finalize")
  /\ Rest(w)
  /\ UNCHANGED <<dbVars, handlerVars, upstreamVars>>

------------------------------------------------------------------------------
(* The admin endpoints *)

(* provider_job_retry: the pause check, then the reset transaction *)
RetryRequested(o) ==
  /\ ~paused
  /\ order[o] # "none"
  /\ o \notin retrying
  /\ retrying' = retrying \cup {o}
  /\ UNCHANGED <<dbVars, worker, dispatching, upstreamVars>>

(* the conditions under which reset_provider_job_for_retry goes ahead *)
Retryable(o) ==
  /\ job[o].status # "none"
  /\ order[o] \in Claimable
  /\ job[o].status # "succeeded"
  /\ job[o].outcome # "succeeded"
  /\ job[o].status # "leased"
  /\ SafeToSend(job[o])

(* What the retry of an admin writes to the row. *)
Reopened(row, resetAttempts) ==
  [Released(row) EXCEPT !.status = "pending", !.due = TRUE,
                        !.attempts = IF resetAttempts THEN 0 ELSE row.attempts]

(* Mutant: the order is not opened again with the job. *)
ResetJobForRetry(o, resetAttempts) ==
  /\ o \in retrying
  /\ retrying' = retrying \ {o}
  /\ Retryable(o)
  /\ job' = [job EXCEPT ![o] = Reopened(@, resetAttempts)]
  /\ UNCHANGED <<order, funded, superseded, credits, paused, worker,
                 dispatching, upstreamVars>>

(* reset_provider_job_for_retry: a failed order is paid again, so that it   *)
(* can be completed and not be refunded meanwhile                           *)
ResetForRetry(o, resetAttempts) ==
  /\ o \in retrying
  /\ retrying' = retrying \ {o}
  /\ Retryable(o)
  /\ order' = IF order[o] = "failed" THEN [order EXCEPT ![o] = "paid"] ELSE order
  /\ job' = [job EXCEPT ![o] = Reopened(@, resetAttempts)]
  /\ UNCHANGED <<funded, superseded, credits, paused, worker, dispatching,
                 upstreamVars>>

RetryRefused(o) ==
  /\ o \in retrying
  /\ retrying' = retrying \ {o}
  /\ ~Retryable(o)
  /\ UNCHANGED <<dbVars, worker, dispatching, upstreamVars>>

(* mark_provider_job_reconciled: the admin's conclusion on a job that is    *)
(* not leased, not settled, and whose order may take the conclusion         *)
Reconcile(o, conclusion) ==
  /\ job[o].status \in {"pending", "awaiting_reconciliation", "failed"}
  /\ ~(conclusion = "failed" /\ job[o].outcome = "succeeded")
  /\ TransitionOk(order[o], conclusion)
  /\ LET result == IF conclusion = "completed" THEN "succeeded" ELSE "failed"
     IN  job' = [job EXCEPT ![o] = Concluded(@, result, result)]
  /\ order' = [order EXCEPT ![o] = conclusion]
  /\ UNCHANGED <<funded, superseded, credits, paused, worker, handlerVars,
                 upstreamVars>>

(* refund_activation_order_coin (POST /orders/<id>/refund-coin): the job    *)
(* must not have succeeded, be leased, or be open with an unclear outcome   *)
RefundCoin(o) ==
  /\ o \in CoinOrders
  /\ order[o] \in {"failed", "awaiting_queue", "queued"}
  /\ job[o].status # "succeeded" /\ job[o].outcome # "succeeded"
  /\ job[o].status # "leased"
  /\ job[o].status \in {"pending", "awaiting_reconciliation"}
       => job[o].outcome = "rejected"
  /\ credits' = [credits EXCEPT ![o] = @ \cup {"refund_act"}]
  /\ order' = [order EXCEPT ![o] = "refunded"]
  /\ job' = IF job[o].status \in {"pending", "leased", "awaiting_reconciliation"}
            THEN [job EXCEPT ![o] = [Released(@) EXCEPT !.status = "cancelled"]]
            ELSE job
  /\ UNCHANGED <<funded, superseded, paused, worker, handlerVars, upstreamVars>>

(* Mutant: its own idempotency key is all that stops a second refund. *)
RefundManualByKey(o) ==
  /\ order[o] \in {"paid", "processing", "failed", "cancelled", "refunded"}
  /\ "admin_refund_manual" \notin credits[o]
  /\ credits' = IF o \in CoinOrders
                THEN [credits EXCEPT ![o] = @ \cup {"admin_refund_manual"}]
                ELSE credits
  /\ order' = [order EXCEPT ![o] = "refunded"]
  /\ UNCHANGED <<funded, superseded, job, paused, worker, handlerVars,
                 upstreamVars>>

(* admin_refund_manual_order (POST /orders/<id>/refund): takes an order of  *)
(* any fulfillment mode and does not look at provider_jobs.  A QR order is  *)
(* refunded outside the system.                                             *)
RefundManual(o) ==
  /\ order[o] \in {"paid", "processing", "failed", "cancelled"}
  /\ "admin_refund_manual" \notin credits[o]
  /\ credits' = IF o \in CoinOrders
                THEN [credits EXCEPT ![o] = @ \cup {"admin_refund_manual"}]
                ELSE credits
  /\ order' = [order EXCEPT ![o] = "refunded"]
  /\ UNCHANGED <<funded, superseded, job, paused, worker, handlerVars,
                 upstreamVars>>

(* provider_pause, provider_resume *)
SetPaused(flag) ==
  /\ paused # flag
  /\ paused' = flag
  /\ UNCHANGED <<order, funded, superseded, job, credits, worker, handlerVars,
                 upstreamVars>>

------------------------------------------------------------------------------
(* Time, and the process *)

LeaseExpires(o) ==
  /\ job[o].status = "leased"
  /\ ~job[o].leaseOver
  /\ job' = [job EXCEPT ![o].leaseOver = TRUE]
  /\ UNCHANGED <<order, funded, superseded, credits, paused, worker,
                 handlerVars, upstreamVars>>

ReplayWindowCloses(o) ==
  /\ job[o].replay = "open"
  /\ job' = [job EXCEPT ![o].replay = "closed"]
  /\ UNCHANGED <<order, funded, superseded, credits, paused, worker,
                 handlerVars, upstreamVars>>

BackoffElapses(o) ==
  /\ ~job[o].due
  /\ job' = [job EXCEPT ![o].due = TRUE]
  /\ UNCHANGED <<order, funded, superseded, credits, paused, worker,
                 handlerVars, upstreamVars>>

(* The process dies and starts again: threads and request handlers are      *)
(* gone, the new threads have lease owners of their own, and requests that  *)
(* were out may still arrive.                                               *)
Restart ==
  /\ restarts < MaxRestarts
  /\ restarts' = restarts + 1
  /\ worker' = [w \in Workers |-> Idle]
  /\ dispatching' = {}
  /\ retrying' = {}
  /\ job' = [o \in Orders |-> [job[o] EXCEPT !.owner = None]]
  /\ \E lingering \in SUBSET {w \in Workers : At(w, "await") /\ ~worker[w].served} :
       late' = [o \in Orders |->
                  late[o] + Cardinality({w \in lingering : worker[w].on = o})]
  /\ \A o \in Orders : late'[o] <= MaxLate
  /\ UNCHANGED <<order, funded, superseded, credits, paused, delivered>>

------------------------------------------------------------------------------
Sale(o) ==
  \/ PlaceCoinOrder(o) \/ PlaceQrOrder(o)
  \/ PaymentConfirmed(o) \/ SupersededConfirmed(o)
  \/ PaymentLapses(o) \/ PaymentRenewed(o)

Maintenance(w) ==
  \/ BeginMaintenance(w) \/ Reclaim(w) \/ ExpireExhausted(w)
  \/ ExpireUnreplayable(w) \/ FindMissing(w)
  \/ \E o \in Orders : RecoverOne(w, o)
  \/ EndMaintenance(w)

Finalize(w) ==
  \/ FinalizeStale(w) \/ FinalizeSuccess(w) \/ FinalizeFailure(w)
  \/ FinalizeReconcile(w) \/ FinalizeRetry(w)

(* The steps a thread takes by itself, without the provider's cooperation. *)
Tick(w) ==
  \/ CheckPaused(w) \/ \E o \in Orders : Claim(w, o)
  \/ NothingToClaim(w) \/ Send(w) \/ ReceiveUnclear(w)
  \/ PauseProvider(w) \/ Finalize(w)

Thread(w) ==
  \/ Maintenance(w) \/ MaintenanceFails(w) \/ SkipMaintenance(w)
  \/ Tick(w) \/ FinalizeError(w) \/ ConfigError(w)
  \/ Serve(w) \/ ReceiveSuccess(w) \/ ReceiveRefusal(w)

Admin(o) ==
  \/ RetryRequested(o) \/ RetryRefused(o)
  \/ \E reset \in BOOLEAN : ResetForRetry(o, reset)
  \/ \E conclusion \in {"completed", "failed"} : Reconcile(o, conclusion)
  \/ RefundCoin(o) \/ RefundManual(o)

Time(o) == LeaseExpires(o) \/ ReplayWindowCloses(o) \/ BackoffElapses(o)

Next ==
  \/ \E w \in Workers : Thread(w)
  \/ \E o \in Orders : Sale(o) \/ Dispatch(o) \/ DispatchFails(o)
                       \/ Admin(o) \/ Time(o) \/ LateServe(o) \/ LateLost(o)
  \/ \E flag \in BOOLEAN : SetPaused(flag)
  \/ Restart

Spec == Init /\ [][Next]_vars

(* The threads loop for ever and every call has a time-out, so a thread     *)
(* that can go on does.  Maintenance comes round every 30 s, and its        *)
(* statements fail only now and then.  Clocks run.                          *)
Fairness ==
  /\ \A w \in Workers :
       /\ WF_vars(Tick(w))
       /\ SF_vars(BeginMaintenance(w))
       /\ SF_vars(Reclaim(w))
       /\ SF_vars(ExpireExhausted(w))
       /\ SF_vars(ExpireUnreplayable(w))
       /\ SF_vars(FindMissing(w))
       /\ SF_vars(EndMaintenance(w))
       /\ \A o \in Orders : SF_vars(RecoverOne(w, o))
  /\ \A o \in Orders :
       /\ WF_vars(LeaseExpires(o))
       /\ WF_vars(BackoffElapses(o))
       /\ WF_vars(ReplayWindowCloses(o))

FairSpec == Spec /\ Fairness

------------------------------------------------------------------------------
(* Properties *)

(* Every variable keeps its type. *)
TypeOK ==
  /\ order \in [Orders -> OrderStatus \cup {"none"}]
  /\ funded \in SUBSET Orders
  /\ superseded \in [Orders -> Superseded]
  /\ job \in [Orders -> JobRow]
  /\ credits \in [Orders -> SUBSET {"refund_act", "admin_refund_manual"}]
  /\ paused \in BOOLEAN
  /\ worker \in [Workers -> WorkerState]
  /\ dispatching \in SUBSET Orders
  /\ retrying \in SUBSET Orders
  /\ late \in [Orders -> 0..MaxLate]
  /\ delivered \in [Orders -> 0..MaxDeliveries]
  /\ restarts \in 0..MaxRestarts

(* The two tables agree: an order is completed exactly when its job has     *)
(* succeeded, whatever mix of workers, admins and restarts wrote them.      *)
CompletedWithJob ==
  \A o \in Orders : order[o] = "completed" <=> job[o].status = "succeeded"

(* An order that shows as failed, the state the refund endpoint takes, has  *)
(* a job that has failed: it is not waiting to be sent, out at the          *)
(* provider, or parked with an unknown result.                              *)
FailedWithJob ==
  \A o \in Orders : order[o] = "failed" => job[o].status = "failed"

(* Whatever the customer and the refund endpoint read of the order is what  *)
(* became of its job.                                                       *)
OrderAndJobAgree == CompletedWithJob /\ FailedWithJob

(* Evidence of a success is never left without a trace: the order is        *)
(* completed, or it had been refunded and the job waits for the admin.      *)
EvidenceAccounted ==
  \A o \in Orders : job[o].outcome = "succeeded" =>
    \/ order[o] = "completed"
    \/ order[o] = "refunded" /\ job[o].status = "awaiting_reconciliation"

(* Money and fulfilment agree, although payments lapse, are renewed and     *)
(* arrive late, and refunds do not look at them.  What is paid, failed or   *)
(* completed, or has a job, was paid for with its coins or by the payment   *)
(* it is linked to: a transfer that is booked on a payment it was renewed   *)
(* from activates nothing.  And an order whose own payment was booked does  *)
(* not show as unpaid.  Money on a payment it was renewed from is the       *)
(* exception: such an order goes on to wait (PaidHasOrder in Payments).     *)
FundedShows ==
  \A o \in Orders :
    /\ order[o] \in {"paid", "failed", "completed"} \/ job[o].status # "none"
         => o \in funded
    /\ o \in funded =>
         order[o] \notin {"none", "awaiting_payment", "cancelled"}

(* The coins of an order come back at most once, although the two refund    *)
(* endpoints use different idempotency keys and know nothing of each other. *)
RefundedOnce ==
  \A o \in Orders : Cardinality(credits[o]) <= 1

(* After a coin refund nothing reports a success for the order any more:    *)
(* the job is settled, and a thread that still has a request out is fenced. *)
CoinRefundIsFinal ==
  \A o \in Orders : "refund_act" \in credits[o] =>
    /\ order[o] = "refunded"
    /\ job[o].status \in {"failed", "cancelled"}
    /\ job[o].outcome # "succeeded"

(* What the provider has been asked and has not yet answered. *)
InFlight(o) ==
  late[o] + Cardinality({w \in Workers : /\ At(w, "await")
                                         /\ worker[w].on = o
                                         /\ ~worker[w].served})

(* As long as no replay window is confirmed: an order never has two         *)
(* requests out, not after a lease ran out under a slow call, a restart, an *)
(* admin's retry or a refusal, and so is never activated twice.             *)
SentOnceAtATime ==
  \A o \in Orders : InFlight(o) <= 1 /\ delivered[o] + InFlight(o) <= 1

(* As long as no replay window is confirmed: the outcome that lets the      *)
(* admin retry and refund is the truth. "rejected" on a job that is not     *)
(* leased means the provider has executed nothing and nothing is under way. *)
RejectedMeansUntouched ==
  \A o \in Orders : job[o].outcome = "rejected" =>
    delivered[o] = 0 /\ InFlight(o) = 0

(* What the comment in refund_activation_order_coin asks of every refund:   *)
(* an order is not refunded while its activation is in flight, that is,     *)
(* while the thread that holds the lease waits for the provider's answer.   *)
(* RefundManual does not ask.                                               *)
RefundAwaitsOutcome ==
  \A o \in Orders, w \in Workers :
    /\ At(w, "await") /\ worker[w].on = o
    /\ Leased(job[o], w)
    => order[o] # "refunded"

(* The order as ActivationPromise sees it: a refund before any money came   *)
(* leaves it unpaid, and so does money on a payment that was renewed.       *)
Phase(status, paid) ==
  IF ~paid THEN "unpaid"
  ELSE CASE status = "completed" -> "delivered"
         [] status = "failed"    -> "failed"
         [] status = "refunded"  -> "returned"
         [] OTHER                -> "open"

Promise == INSTANCE ActivationPromise WITH
  phase <- [o \in Orders |-> Phase(order[o], o \in funded)],
  evidence <- [o \in Orders |-> job[o].outcome = "succeeded"]

(* The outbox keeps the promise: completion and evidence are recorded       *)
(* together, evidence is never erased, no order with evidence is written    *)
(* off, and a completed or refunded order stays so.                         *)
KeepsPromise == Promise!Spec

(* Nothing is left to happen to o without the admin. *)
Settled(o) ==
  \/ order[o] # "paid"
  \/ job[o].status \in {"succeeded", "failed", "awaiting_reconciliation",
                        "cancelled"}

(* Once the provider stays unpaused, a paid order gets its result or is     *)
(* handed to the admin: neither a restart between payment and job, nor a    *)
(* thread that dies with a lease, nor a lost answer leaves it in limbo.     *)
PaidOrderSettles ==
  <>[]~paused => \A o \in Orders : order[o] = "paid" ~> Settled(o)
=============================================================================
