------------------------ MODULE ProviderOutboxProofs ------------------------
(* What holds of the outbox for every number of orders, threads, attempts   *)
(* and restarts.  The invariant that makes it provable, IInv, ties the      *)
(* order, its job row and its refunds together, order by order.             *)
EXTENDS ProviderOutbox, FiniteSetTheorems, TLAPS

(* What a provider order can be: the states of the legacy queue are not     *)
(* among them.                                                              *)
ProviderStatus == {"none", "awaiting_payment", "cancelled", "paid", "failed",
                   "completed", "refunded"}

Sold(status) == status \notin {"none", "awaiting_payment", "cancelled"}

(* What ties the status of an order to its job row and its refund keys. *)
Consistent(status, row, keys) ==
  /\ status \in ProviderStatus
  /\ row.status # "none" => Sold(status)
  /\ row.status = "leased" => /\ row.outcome = "sent_unclear"
                              /\ status \in {"paid", "refunded"}
  /\ status = "completed" <=> row.status = "succeeded"
  /\ status = "failed" => row.status = "failed"
  /\ row.outcome = "succeeded" =>
       \/ status = "completed"
       \/ status = "refunded" /\ row.status = "awaiting_reconciliation"
  /\ keys \in {{}, {"refund_act"}, {"admin_refund_manual"}}
  /\ keys # {} => status = "refunded"
  /\ "refund_act" \in keys => /\ row.status \in {"failed", "cancelled"}
                              /\ row.outcome # "succeeded"

(* A thread that has claimed something knows which order it is for. *)
OnOrder ==
  \A w \in Workers :
    worker[w].pc \in {"send", "await", "pause", "finalize"} =>
      worker[w].on \in Orders

(* What no money was booked for has no job and no refund, and never had. *)
Unfunded(o) ==
  /\ order[o] \in {"none", "awaiting_payment", "cancelled", "refunded"}
  /\ o \in CoinOrders => order[o] = "none"
  /\ job[o].status = "none"
  /\ credits[o] = {}

(* A job is only ever created for an order that has been paid, and such an  *)
(* order is never taken back to waiting for its payment.                    *)
Funding ==
  /\ \A o \in funded : Sold(order[o])
  /\ \A o \in Orders \ funded : Unfunded(o)
  /\ dispatching \subseteq funded
  /\ \A w \in Workers : worker[w].todo \subseteq funded

IInv ==
  /\ TypeOK
  /\ OnOrder
  /\ Funding
  /\ \A o \in Orders : Consistent(order[o], job[o], credits[o])

------------------------------------------------------------------------------
(* The helpers that rewrite a row return a row. *)

LEMMA RowsTyped ==
  ASSUME NEW row \in JobRow
  PROVE  /\ Created(row) \in JobRow
         /\ Released(row) \in JobRow
         /\ Reclaimed(row) \in JobRow
         /\ Exhausted(row) \in JobRow
         /\ Unreplayable(row) \in JobRow
<1>1. Created(row) \in JobRow
  BY DEF JobRow, JobStatus, Created
<1>2. Released(row) \in JobRow
  BY DEF JobRow, Released
<1>3. \A status \in JobStatus : [Released(row) EXCEPT !.status = status] \in JobRow
  BY <1>2 DEF JobRow
<1>4. Reclaimed(row) \in JobRow
  BY <1>3 DEF Reclaimed, JobStatus
<1>5. Exhausted(row) \in JobRow
  BY <1>3 DEF Exhausted, JobStatus
<1>6. Unreplayable(row) \in JobRow
  BY <1>3 DEF Unreplayable, JobStatus
<1> QED BY <1>1, <1>2, <1>4, <1>5, <1>6

(* A claim counts an attempt, and is made only below the limit. *)
LEMMA ClaimedTyped ==
  ASSUME NEW row \in JobRow, NEW w \in Workers, NEW confirmed \in BOOLEAN,
         row.attempts < MaxAttempts
  PROVE  Claimed(row, w, confirmed) \in JobRow
<1> DEFINE replay == IF row.replay = "null" /\ confirmed THEN "open" ELSE row.replay
<1>1. replay \in Replay
  BY DEF JobRow, Replay
<1>2. row.attempts + 1 \in 0..MaxAttempts
  BY AttemptsAssumption DEF JobRow
<1>3. Claimed(row, w, confirmed)
        = [row EXCEPT !.status = "leased", !.owner = w, !.leaseOver = FALSE,
                      !.attempts = row.attempts + 1, !.sent = TRUE,
                      !.replay = replay, !.outcome = "sent_unclear"]
  BY DEF Claimed
<1> HIDE DEF replay
<1> QED BY <1>1, <1>2, <1>3 DEF JobRow, JobStatus, Outcome

LEMMA ReopenedTyped ==
  ASSUME NEW row \in JobRow, NEW reset \in BOOLEAN
  PROVE  Reopened(row, reset) \in JobRow
<1>1. Released(row) \in JobRow /\ 0 \in 0..MaxAttempts
  BY RowsTyped, AttemptsAssumption
<1>2. row.attempts \in 0..MaxAttempts
  BY DEF JobRow
<1>3. \A attempts \in 0..MaxAttempts :
        [Released(row) EXCEPT !.status = "pending", !.due = TRUE,
                              !.attempts = attempts] \in JobRow
  BY <1>1 DEF JobRow, JobStatus
<1> QED BY <1>1, <1>2, <1>3 DEF Reopened

LEMMA ConcludedRow ==
  ASSUME NEW row \in JobRow, NEW status \in JobStatus, NEW outcome \in Outcome
  PROVE  /\ Concluded(row, status, outcome) \in JobRow
         /\ Concluded(row, status, outcome).status = status
         /\ Concluded(row, status, outcome).outcome = outcome
<1>1. Released(row) \in JobRow
  BY RowsTyped
<1> QED BY <1>1 DEF Concluded, JobRow

(* A row sent back to wait for its back-off. *)
LEMMA DeferredRow ==
  ASSUME NEW row \in JobRow
  PROVE  LET deferred == [Concluded(row, "pending", "sent_unclear") EXCEPT !.due = FALSE]
         IN  /\ deferred \in JobRow
             /\ deferred.status = "pending"
             /\ deferred.outcome = "sent_unclear"
<1>1. /\ Concluded(row, "pending", "sent_unclear") \in JobRow
      /\ Concluded(row, "pending", "sent_unclear").status = "pending"
      /\ Concluded(row, "pending", "sent_unclear").outcome = "sent_unclear"
  BY ConcludedRow DEF JobStatus, Outcome
<1> QED BY <1>1 DEF JobRow

(* The maintenance statements keep an order consistent: they act on rows    *)
(* that are waiting, and none of those has evidence of a success.           *)
LEMMA MaintenanceConsistent ==
  ASSUME NEW status, NEW row \in JobRow, NEW keys,
         Consistent(status, row, keys)
  PROVE  /\ Consistent(status, Reclaimed(row), keys)
         /\ Consistent(status, Exhausted(row), keys)
         /\ Consistent(status, Unreplayable(row), keys)
         /\ Sold(status) => Consistent(status, Created(row), keys)
<1>1. Consistent(status, Reclaimed(row), keys)
  BY DEF Consistent, JobRow, Released, Reclaimed
<1>2. Consistent(status, Exhausted(row), keys)
  BY DEF Consistent, JobRow, Released, Exhausted
<1>3. Consistent(status, Unreplayable(row), keys)
  BY DEF Consistent, JobRow, Released, Unreplayable
<1>4. Sold(status) => Consistent(status, Created(row), keys)
  BY DEF Consistent, JobRow, Created, Sold
<1> QED BY <1>1, <1>2, <1>3, <1>4

LEMMA InitInvariant == Init => IInv
<1> SUFFICES ASSUME Init PROVE IInv
  OBVIOUS
<1>1. NoRow \in JobRow
  BY AttemptsAssumption DEF NoRow, JobRow, JobStatus, Outcome, Replay
<1>2. Idle \in WorkerState
  BY DEF Idle, WorkerState, PC, Verdict
<1>3. TypeOK
  <2>1. order \in [Orders -> OrderStatus \cup {"none"}] /\ job \in [Orders -> JobRow]
    BY <1>1 DEF Init
  <2>2. /\ credits \in [Orders -> SUBSET {"refund_act", "admin_refund_manual"}]
        /\ funded \in SUBSET Orders
        /\ superseded \in [Orders -> Superseded]
    BY DEF Init, Superseded
  <2>3. paused \in BOOLEAN /\ worker \in [Workers -> WorkerState]
    BY <1>2 DEF Init
  <2>4. dispatching \in SUBSET Orders /\ retrying \in SUBSET Orders
    BY DEF Init
  <2>5. /\ late \in [Orders -> 0..MaxLate]
        /\ delivered \in [Orders -> 0..MaxDeliveries]
        /\ restarts \in 0..MaxRestarts
    BY BoundAssumption DEF Init
  <2> QED BY <2>1, <2>2, <2>3, <2>4, <2>5 DEF TypeOK
<1>4. OnOrder
  BY DEF Init, OnOrder, Idle
<1>5. Funding
  BY DEF Init, Funding, Unfunded, Idle, NoRow
<1>6. ASSUME NEW o \in Orders
      PROVE  Consistent(order[o], job[o], credits[o])
  BY DEF Init, Consistent, ProviderStatus, NoRow
<1> QED BY <1>3, <1>4, <1>5, <1>6 DEF IInv

------------------------------------------------------------------------------
(* Every step keeps the types.  The bounds that take an argument: attempts, *)
(* because a claim tests them; late requests, because a restart counts a    *)
(* finite set of threads.                                                   *)
LEMMA TypeStep ==
  ASSUME IInv, [Next]_vars
  PROVE  TypeOK'
<1> USE DEF dbVars, handlerVars, upstreamVars, At, Goto, Rest
<1>1. TypeOK
  BY DEF IInv
<1>2. \A w \in Workers : worker[w] \in WorkerState
  BY <1>1 DEF TypeOK
<1>3. ASSUME NEW state \in WorkerState, NEW w \in Workers
      PROVE  [worker EXCEPT ![w] = state] \in [Workers -> WorkerState]
  BY <1>1, <1>3 DEF TypeOK
<1>4. ASSUME NEW w \in Workers, NEW pc \in PC
      PROVE  /\ [worker EXCEPT ![w].pc = pc] \in [Workers -> WorkerState]
             /\ \A on \in Orders :
                  [worker EXCEPT ![w].pc = pc, ![w].on = on]
                    \in [Workers -> WorkerState]
             /\ \A verdict \in Verdict :
                  [worker EXCEPT ![w].pc = pc, ![w].verdict = verdict]
                    \in [Workers -> WorkerState]
             /\ \A todo \in SUBSET Orders :
                  [worker EXCEPT ![w].pc = pc, ![w].todo = todo]
                    \in [Workers -> WorkerState]
  <2>1. [worker EXCEPT ![w].pc = pc] \in [Workers -> WorkerState]
    <3>1. [worker[w] EXCEPT !.pc = pc] \in WorkerState
      BY <1>2 DEF WorkerState
    <3> QED BY <1>1, <1>3, <3>1 DEF TypeOK
  <2>2. ASSUME NEW on \in Orders
        PROVE  [worker EXCEPT ![w].pc = pc, ![w].on = on] \in [Workers -> WorkerState]
    <3>1. [worker[w] EXCEPT !.pc = pc, !.on = on] \in WorkerState
      BY <1>2 DEF WorkerState
    <3> QED BY <1>1, <1>3, <3>1 DEF TypeOK
  <2>3. ASSUME NEW verdict \in Verdict
        PROVE  [worker EXCEPT ![w].pc = pc, ![w].verdict = verdict]
                 \in [Workers -> WorkerState]
    <3>1. [worker[w] EXCEPT !.pc = pc, !.verdict = verdict] \in WorkerState
      BY <1>2 DEF WorkerState
    <3> QED BY <1>1, <1>3, <3>1 DEF TypeOK
  <2>4. ASSUME NEW todo \in SUBSET Orders
        PROVE  [worker EXCEPT ![w].pc = pc, ![w].todo = todo]
                 \in [Workers -> WorkerState]
    <3>1. [worker[w] EXCEPT !.pc = pc, !.todo = todo] \in WorkerState
      BY <1>2 DEF WorkerState
    <3> QED BY <1>1, <1>3, <3>1 DEF TypeOK
  <2> QED BY <2>1, <2>2, <2>3, <2>4
<1>5. Idle \in WorkerState
  BY DEF Idle, WorkerState, PC, Verdict
<1>6. ASSUME NEW row \in JobRow, NEW o \in Orders
      PROVE  [job EXCEPT ![o] = row] \in [Orders -> JobRow]
  BY <1>1, <1>6 DEF TypeOK
<1>7. \A o \in Orders : job[o] \in JobRow
  BY <1>1 DEF TypeOK
<1>8. ASSUME NEW status \in OrderStatus, NEW o \in Orders
      PROVE  [order EXCEPT ![o] = status] \in [Orders -> OrderStatus \cup {"none"}]
  BY <1>1, <1>8 DEF TypeOK
<1>11. ASSUME NEW o \in Orders, PlaceCoinOrder(o) \/ PlaceQrOrder(o)
       PROVE  TypeOK'
  BY <1>1, <1>8, <1>11 DEF TypeOK, PlaceCoinOrder, PlaceQrOrder, OrderStatus
<1>12. ASSUME NEW o \in Orders,
              \/ PaymentConfirmed(o) \/ SupersededConfirmed(o)
              \/ PaymentLapses(o) \/ PaymentRenewed(o)
       PROVE  TypeOK'
  <2>1. superseded' \in [Orders -> Superseded]
    BY <1>1, <1>12
       DEF TypeOK, Superseded, PaymentConfirmed, SupersededConfirmed,
           PaymentLapses, PaymentRenewed
  <2> QED
    BY <1>1, <1>8, <1>12, <2>1
       DEF TypeOK, PaymentConfirmed, SupersededConfirmed, PaymentLapses,
           PaymentRenewed, OrderStatus
<1>13. ASSUME NEW o \in Orders, Dispatch(o) \/ DispatchFails(o)
       PROVE  TypeOK'
  <2>1. Created(job[o]) \in JobRow
    BY <1>7, RowsTyped
  <2> QED BY <1>1, <1>6, <1>13, <2>1 DEF TypeOK, Dispatch, DispatchFails
<1>14. ASSUME NEW w \in Workers,
              Reclaim(w) \/ ExpireExhausted(w) \/ ExpireUnreplayable(w)
       PROVE  TypeOK'
  <2>1. job' \in [Orders -> JobRow]
    BY <1>7, <1>14, RowsTyped DEF Reclaim, ExpireExhausted, ExpireUnreplayable
  <2>2. worker' \in [Workers -> WorkerState]
    <3>1. PICK pc \in PC : worker' = [worker EXCEPT ![w].pc = pc]
      BY <1>14 DEF Reclaim, ExpireExhausted, ExpireUnreplayable, PC
    <3> QED BY <1>4, <3>1
  <2> QED BY <1>1, <1>14, <2>1, <2>2
          DEF TypeOK, Reclaim, ExpireExhausted, ExpireUnreplayable
<1>15. ASSUME NEW w \in Workers,
              \/ BeginMaintenance(w) \/ SkipMaintenance(w) \/ EndMaintenance(w)
              \/ CheckPaused(w) \/ Send(w)
       PROVE  TypeOK'
  <2>1. worker' \in [Workers -> WorkerState]
    <3>1. \/ \E pc \in PC : worker' = [worker EXCEPT ![w].pc = pc]
          \/ worker' = [worker EXCEPT ![w] = Idle]
      BY <1>15
         DEF BeginMaintenance, SkipMaintenance, EndMaintenance, CheckPaused, Send, PC
    <3> QED BY <1>3, <1>4, <1>5, <3>1
  <2> QED BY <1>1, <1>15, <2>1
          DEF TypeOK, BeginMaintenance, SkipMaintenance, EndMaintenance,
              CheckPaused, Send
<1>16. ASSUME NEW w \in Workers, FindMissing(w)
       PROVE  TypeOK'
  <2>1. worker' \in [Workers -> WorkerState]
    <3> DEFINE missing == {o \in Orders : /\ job[o].status = "none"
                                          /\ order[o] \in {"paid", "awaiting_queue"}}
    <3>1. missing \in SUBSET Orders /\ "recovering" \in PC
      BY DEF PC
    <3>2. worker' = [worker EXCEPT ![w].pc = "recovering", ![w].todo = missing]
      BY <1>16 DEF FindMissing
    <3> HIDE DEF missing
    <3> QED BY <1>4, <3>1, <3>2
  <2> QED BY <1>1, <1>16, <2>1 DEF TypeOK, FindMissing
<1>17. ASSUME NEW w \in Workers, NEW o \in Orders, RecoverOne(w, o)
       PROVE  TypeOK'
  <2>1. Created(job[o]) \in JobRow
    BY <1>7, RowsTyped
  <2>2. worker' \in [Workers -> WorkerState]
    BY <1>1, <1>17 DEF TypeOK, RecoverOne, WorkerState
  <2> QED BY <1>1, <1>6, <1>17, <2>1, <2>2 DEF TypeOK, RecoverOne
<1>18. ASSUME NEW w \in Workers,
              MaintenanceFails(w) \/ NothingToClaim(w) \/ FinalizeStale(w)
                \/ FinalizeError(w)
       PROVE  TypeOK'
  <2>1. [Idle EXCEPT !.pc = "check"] \in WorkerState
    BY DEF Idle, WorkerState, PC, Verdict
  <2>2. worker' \in [Workers -> WorkerState]
    BY <1>3, <1>5, <1>18, <2>1
       DEF MaintenanceFails, NothingToClaim, FinalizeStale, FinalizeError
  <2> QED BY <1>1, <1>18, <2>2
          DEF TypeOK, MaintenanceFails, NothingToClaim, FinalizeStale, FinalizeError
<1>19. ASSUME NEW w \in Workers, NEW o \in Orders, Claim(w, o)
       PROVE  TypeOK'
  <2>1. PICK confirmed \in WindowSettings :
          job' = [job EXCEPT ![o] = Claimed(job[o], w, confirmed)]
    BY <1>19 DEF Claim
  <2>2. Claimed(job[o], w, confirmed) \in JobRow
    BY <1>7, <1>19, ClaimedTyped, WindowAssumption DEF Claim, Runnable
  <2>3. worker' \in [Workers -> WorkerState]
    BY <1>4, <1>19 DEF Claim, PC
  <2> QED BY <1>1, <1>6, <1>19, <2>1, <2>2, <2>3 DEF TypeOK, Claim
<1>20. ASSUME NEW w \in Workers, ConfigError(w) \/ ReceiveSuccess(w) \/ ReceiveRefusal(w)
       PROVE  TypeOK'
  <2>1. worker' \in [Workers -> WorkerState]
    <3>1. PICK pc \in PC, verdict \in Verdict :
            worker' = [worker EXCEPT ![w].pc = pc, ![w].verdict = verdict]
      BY <1>20
         DEF ConfigError, ReceiveSuccess, ReceiveRefusal, Concludes, PC, Verdict
    <3> QED BY <1>4, <3>1
  <2> QED BY <1>1, <1>20, <2>1 DEF TypeOK, ConfigError, ReceiveSuccess, ReceiveRefusal
<1>21. ASSUME NEW o \in Orders, Executes(o)
       PROVE  delivered' \in [Orders -> 0..MaxDeliveries]
  BY <1>1, <1>21, BoundAssumption DEF TypeOK, Executes
<1>22. ASSUME NEW w \in Workers, Serve(w)
       PROVE  TypeOK'
  <2>1. worker[w].on \in Orders
    BY <1>22 DEF IInv, OnOrder, Serve
  <2>2. worker' \in [Workers -> WorkerState]
    <3>1. [worker[w] EXCEPT !.served = TRUE] \in WorkerState
      BY <1>2 DEF WorkerState
    <3>2. worker' = [worker EXCEPT ![w] = [worker[w] EXCEPT !.served = TRUE]]
      BY <1>22 DEF Serve
    <3> QED BY <1>3, <3>1, <3>2
  <2> QED BY <1>1, <1>21, <1>22, <2>1, <2>2 DEF TypeOK, Serve
<1>23. ASSUME NEW w \in Workers, ReceiveUnclear(w)
       PROVE  TypeOK'
  <2>1. worker[w].on \in Orders
    BY <1>23 DEF IInv, OnOrder, ReceiveUnclear
  <2>2. worker' \in [Workers -> WorkerState]
    BY <1>3, <1>4, <1>23 DEF ReceiveUnclear, Concludes, PC, Verdict
  <2>3. late' \in [Orders -> 0..MaxLate]
    BY <1>1, <1>23, <2>1, BoundAssumption DEF TypeOK, ReceiveUnclear
  <2> QED BY <1>1, <1>23, <2>2, <2>3 DEF TypeOK, ReceiveUnclear
<1>24. ASSUME NEW o \in Orders, LateServe(o) \/ LateLost(o)
       PROVE  TypeOK'
  <2>1. late' \in [Orders -> 0..MaxLate]
    BY <1>1, <1>24, BoundAssumption DEF TypeOK, LateServe, LateLost
  <2>2. delivered' \in [Orders -> 0..MaxDeliveries]
    BY <1>1, <1>21, <1>24 DEF TypeOK, LateServe, LateLost
  <2> QED BY <1>1, <1>24, <2>1, <2>2 DEF TypeOK, LateServe, LateLost
<1>25. ASSUME NEW w \in Workers, PauseProvider(w)
       PROVE  TypeOK'
  <2>1. worker' \in [Workers -> WorkerState]
    BY <1>3, <1>4, <1>25 DEF PauseProvider, PC
  <2> QED BY <1>1, <1>25, <2>1 DEF TypeOK, PauseProvider
<1>26. ASSUME NEW o \in Orders, NEW status \in JobStatus, NEW outcome \in Outcome
       PROVE  [job EXCEPT ![o] = Concluded(job[o], status, outcome)] \in [Orders -> JobRow]
  BY <1>6, <1>7, ConcludedRow
<1>27. ASSUME NEW w \in Workers,
              \/ FinalizeSuccess(w) \/ FinalizeFailure(w)
              \/ FinalizeReconcile(w) \/ FinalizeRetry(w)
       PROVE  TypeOK'
  <2> DEFINE o == worker[w].on
  <2>1. o \in Orders /\ worker' = [worker EXCEPT ![w] = Idle]
    BY <1>27
       DEF IInv, OnOrder, FinalizeSuccess, FinalizeFailure, FinalizeReconcile,
           FinalizeRetry, Finalizes
  <2>2. job' \in [Orders -> JobRow]
    <3>1. CASE FinalizeSuccess(w)
      BY <1>6, <1>26, <2>1, <3>1 DEF FinalizeSuccess, JobStatus, Outcome
    <3>2. CASE FinalizeFailure(w)
      BY <1>6, <1>26, <2>1, <3>2 DEF FinalizeFailure, JobStatus, Outcome
    <3>3. CASE FinalizeReconcile(w)
      <4>1. PICK outcome \in Outcome :
              job' = [job EXCEPT ![o] =
                        Concluded(job[o], "awaiting_reconciliation", outcome)]
        BY <3>3 DEF FinalizeReconcile, Outcome
      <4> QED BY <1>6, <1>26, <2>1, <4>1 DEF JobStatus
    <3>4. CASE FinalizeRetry(w)
      BY <1>6, <1>7, <2>1, <3>4, DeferredRow DEF FinalizeRetry
    <3> QED BY <1>27, <3>1, <3>2, <3>3, <3>4
  <2>3. order' \in [Orders -> OrderStatus \cup {"none"}]
    BY <1>1, <1>8, <1>27, <2>1
       DEF TypeOK, FinalizeSuccess, FinalizeFailure, FinalizeReconcile,
           FinalizeRetry, OrderStatus
  <2> QED BY <1>1, <1>3, <1>5, <1>27, <2>1, <2>2, <2>3
          DEF TypeOK, FinalizeSuccess, FinalizeFailure, FinalizeReconcile,
              FinalizeRetry, Finalizes
<1>28. ASSUME NEW o \in Orders, RetryRequested(o) \/ RetryRefused(o)
       PROVE  TypeOK'
  BY <1>1, <1>28 DEF TypeOK, RetryRequested, RetryRefused
<1>29. ASSUME NEW o \in Orders, NEW reset \in BOOLEAN, ResetForRetry(o, reset)
       PROVE  TypeOK'
  <2>1. job' \in [Orders -> JobRow]
    BY <1>6, <1>7, <1>29, ReopenedTyped DEF ResetForRetry
  <2> QED BY <1>1, <1>8, <1>29, <2>1 DEF TypeOK, ResetForRetry, OrderStatus
<1>30. ASSUME NEW o \in Orders, NEW conclusion \in {"completed", "failed"},
              Reconcile(o, conclusion)
       PROVE  TypeOK'
  <2>1. job' \in [Orders -> JobRow]
    BY <1>6, <1>26, <1>30 DEF Reconcile, JobStatus, Outcome
  <2> QED BY <1>1, <1>8, <1>30, <2>1 DEF TypeOK, Reconcile, OrderStatus
<1>31. ASSUME NEW o \in Orders, RefundCoin(o)
       PROVE  TypeOK'
  <2>1. [Released(job[o]) EXCEPT !.status = "cancelled"] \in JobRow
    BY <1>7, RowsTyped DEF JobRow, JobStatus
  <2>2. job' \in [Orders -> JobRow]
    BY <1>1, <1>6, <1>31, <2>1 DEF TypeOK, RefundCoin
  <2> QED BY <1>1, <1>8, <1>31, <2>2 DEF TypeOK, RefundCoin, OrderStatus
<1>32. ASSUME NEW o \in Orders, RefundManual(o)
       PROVE  TypeOK'
  BY <1>1, <1>8, <1>32 DEF TypeOK, RefundManual, OrderStatus
<1>33. ASSUME NEW flag \in BOOLEAN, SetPaused(flag)
       PROVE  TypeOK'
  BY <1>1, <1>33 DEF TypeOK, SetPaused
<1>34. ASSUME NEW o \in Orders, Time(o)
       PROVE  TypeOK'
  <2>1. job' \in [Orders -> JobRow]
    <3>1. /\ [job[o] EXCEPT !.leaseOver = TRUE] \in JobRow
          /\ [job[o] EXCEPT !.replay = "closed"] \in JobRow
          /\ [job[o] EXCEPT !.due = TRUE] \in JobRow
      BY <1>7 DEF JobRow, Replay
    <3>2. PICK row \in JobRow : job' = [job EXCEPT ![o] = row]
      BY <1>34, <3>1 DEF Time, LeaseExpires, ReplayWindowCloses, BackoffElapses
    <3> QED BY <1>6, <3>2
  <2> QED BY <1>1, <1>34, <2>1
          DEF TypeOK, Time, LeaseExpires, ReplayWindowCloses, BackoffElapses
<1>35. CASE Restart
  <2>1. job' \in [Orders -> JobRow]
    <3>1. \A o \in Orders : [job[o] EXCEPT !.owner = None] \in JobRow
      BY <1>7 DEF JobRow
    <3>2. job' = [o \in Orders |-> [job[o] EXCEPT !.owner = None]]
      BY <1>35 DEF Restart
    <3> QED BY <3>1, <3>2
  <2>2. late' \in [Orders -> 0..MaxLate]
    <3>1. PICK lingering \in SUBSET {w \in Workers : worker[w].pc = "await"
                                                     /\ ~worker[w].served} :
            late' = [o \in Orders |->
                       late[o] + Cardinality({w \in lingering : worker[w].on = o})]
      BY <1>35 DEF Restart
    <3>2. \A o \in Orders : Cardinality({w \in lingering : worker[w].on = o}) \in Nat
      BY WorkersAssumption, FS_Subset, FS_CardinalityType
    <3>3. ASSUME NEW o \in Orders
          PROVE  late'[o] \in 0..MaxLate
      <4>1. late[o] \in Nat
        BY <1>1, BoundAssumption DEF TypeOK
      <4>2. late'[o] = late[o] + Cardinality({w \in lingering : worker[w].on = o})
        BY <3>1
      <4>3. late'[o] <= MaxLate
        BY <1>35 DEF Restart
      <4> QED BY <3>2, <4>1, <4>2, <4>3, BoundAssumption
    <3> QED BY <3>1, <3>3
  <2>3. restarts' \in 0..MaxRestarts
    BY <1>1, <1>35, BoundAssumption DEF TypeOK, Restart
  <2> QED BY <1>1, <1>5, <1>35, <2>1, <2>2, <2>3 DEF TypeOK, Restart
<1>36. CASE UNCHANGED vars
  BY <1>1, <1>36 DEF TypeOK, vars
<1> QED
  BY <1>11, <1>12, <1>13, <1>14, <1>15, <1>16, <1>17, <1>18, <1>19, <1>20,
     <1>22, <1>23, <1>24, <1>25, <1>27, <1>28, <1>29, <1>30, <1>31, <1>32,
     <1>33, <1>34, <1>35, <1>36
     DEF Next, Thread, Maintenance, Tick, Finalize, Sale, Admin

(* A thread keeps its order from the claim to the end of its tick. *)
LEMMA OnOrderStep ==
  ASSUME IInv, [Next]_vars
  PROVE  OnOrder'
<1> USE DEF dbVars, handlerVars, upstreamVars, At, Goto, Rest
<1>1. OnOrder /\ \A w \in Workers : worker[w] \in WorkerState
  BY DEF IInv, TypeOK
<1>2. worker \in [Workers -> WorkerState]
  BY DEF IInv, TypeOK
<1>3. ASSUME NEW w \in Workers, worker' = [worker EXCEPT ![w] = Idle]
      PROVE  OnOrder'
  BY <1>1, <1>2, <1>3 DEF OnOrder, Idle
<1>4. ASSUME NEW w \in Workers, Maintenance(w) \/ SkipMaintenance(w)
      PROVE  OnOrder'
  BY <1>1, <1>2, <1>4
     DEF OnOrder, Maintenance, BeginMaintenance, SkipMaintenance, Reclaim,
         ExpireExhausted, ExpireUnreplayable, FindMissing, RecoverOne,
         EndMaintenance, WorkerState
<1>5. ASSUME NEW w \in Workers, MaintenanceFails(w)
      PROVE  OnOrder'
  BY <1>1, <1>2, <1>5 DEF OnOrder, MaintenanceFails, Idle
<1>6. ASSUME NEW w \in Workers, CheckPaused(w)
      PROVE  OnOrder'
  BY <1>1, <1>2, <1>3, <1>6 DEF OnOrder, CheckPaused, WorkerState
<1>7. ASSUME NEW w \in Workers, NEW o \in Orders, Claim(w, o)
      PROVE  OnOrder'
  BY <1>1, <1>2, <1>7 DEF OnOrder, Claim, WorkerState
<1>8. ASSUME NEW w \in Workers, Send(w) \/ Serve(w) \/ PauseProvider(w)
      PROVE  OnOrder'
  BY <1>1, <1>2, <1>8 DEF OnOrder, Send, Serve, PauseProvider, WorkerState
<1>9. ASSUME NEW w \in Workers,
             \/ ConfigError(w) \/ ReceiveSuccess(w)
             \/ ReceiveRefusal(w) \/ ReceiveUnclear(w)
      PROVE  OnOrder'
  BY <1>1, <1>2, <1>9
     DEF OnOrder, ConfigError, ReceiveSuccess, ReceiveRefusal, ReceiveUnclear,
         Concludes, WorkerState
<1>10. ASSUME NEW w \in Workers, NothingToClaim(w) \/ Finalize(w) \/ FinalizeError(w)
       PROVE  OnOrder'
  <2>1. worker' = [worker EXCEPT ![w] = Idle]
    BY <1>10
       DEF NothingToClaim, Finalize, FinalizeError, FinalizeStale,
           FinalizeSuccess, FinalizeFailure, FinalizeReconcile, FinalizeRetry,
           Finalizes
  <2> QED BY <1>3, <2>1
<1>11. ASSUME NEW o \in Orders, Sale(o) \/ Dispatch(o) \/ DispatchFails(o) \/ Admin(o)
                                   \/ Time(o) \/ LateServe(o) \/ LateLost(o)
       PROVE  OnOrder'
  <2>1. worker' = worker
    BY <1>11
       DEF Sale, PlaceCoinOrder, PlaceQrOrder, PaymentConfirmed,
           SupersededConfirmed, PaymentLapses, PaymentRenewed, Dispatch,
           DispatchFails, Admin, RetryRequested, RetryRefused, ResetForRetry,
           Reconcile, RefundCoin, RefundManual, Time, LeaseExpires,
           ReplayWindowCloses, BackoffElapses, LateServe, LateLost
  <2> QED BY <1>1, <2>1 DEF OnOrder
<1>12. ASSUME NEW flag \in BOOLEAN, SetPaused(flag)
       PROVE  OnOrder'
  BY <1>1, <1>12 DEF OnOrder, SetPaused
<1>13. CASE Restart
  BY <1>1, <1>13 DEF OnOrder, Restart, Idle
<1>14. CASE UNCHANGED vars
  BY <1>1, <1>14 DEF OnOrder, vars
<1> QED
  BY <1>4, <1>5, <1>6, <1>7, <1>8, <1>9, <1>10, <1>11, <1>12, <1>13, <1>14
     DEF Next, Thread, Tick

(* The steps of the threads that leave the tables alone, and those of the   *)
(* handlers, the clock and the network that leave the orders alone.         *)
LEMMA OrderKept ==
  ASSUME [Next]_vars,
         \A o \in Orders : ~ \/ Sale(o) \/ Reconcile(o, "completed")
                              \/ Reconcile(o, "failed") \/ RefundCoin(o)
                              \/ RefundManual(o)
                              \/ \E reset \in BOOLEAN : ResetForRetry(o, reset),
         \A w \in Workers : ~(FinalizeSuccess(w) \/ FinalizeFailure(w))
  PROVE  order' = order
<1> USE DEF dbVars, handlerVars, upstreamVars
<1>1. ASSUME NEW w \in Workers, Thread(w)
      PROVE  order' = order
  BY <1>1
     DEF Thread, Maintenance, BeginMaintenance, SkipMaintenance, Reclaim,
         ExpireExhausted, ExpireUnreplayable, FindMissing, RecoverOne,
         EndMaintenance, MaintenanceFails, Tick, CheckPaused, Claim,
         NothingToClaim, Send, Serve, ConfigError, ReceiveSuccess,
         ReceiveRefusal, ReceiveUnclear, PauseProvider, Finalize, FinalizeStale,
         FinalizeReconcile, FinalizeRetry, FinalizeError
<1>2. ASSUME NEW o \in Orders, \/ Sale(o) \/ Dispatch(o) \/ DispatchFails(o) \/ Admin(o)
                               \/ Time(o) \/ LateServe(o) \/ LateLost(o)
      PROVE  order' = order
  BY <1>2
     DEF Dispatch, DispatchFails, Admin, RetryRequested, RetryRefused, Time,
         LeaseExpires, ReplayWindowCloses, BackoffElapses, LateServe, LateLost
<1> QED BY <1>1, <1>2 DEF Next, SetPaused, Restart, vars

(* Only a payment books money. *)
LEMMA FundedKept ==
  ASSUME [Next]_vars,
         \A o \in Orders : ~(PlaceCoinOrder(o) \/ PaymentConfirmed(o))
  PROVE  funded' = funded
<1> USE DEF dbVars, handlerVars, upstreamVars
<1>1. ASSUME NEW w \in Workers, Thread(w)
      PROVE  funded' = funded
  BY <1>1
     DEF Thread, Maintenance, BeginMaintenance, SkipMaintenance, Reclaim,
         ExpireExhausted, ExpireUnreplayable, FindMissing, RecoverOne,
         EndMaintenance, MaintenanceFails, Tick, CheckPaused, Claim,
         NothingToClaim, Send, Serve, ConfigError, ReceiveSuccess,
         ReceiveRefusal, ReceiveUnclear, PauseProvider, Finalize, FinalizeStale,
         FinalizeSuccess, FinalizeFailure, FinalizeReconcile, FinalizeRetry,
         Finalizes, FinalizeError
<1>2. ASSUME NEW o \in Orders, \/ Sale(o) \/ Dispatch(o) \/ DispatchFails(o) \/ Admin(o)
                               \/ Time(o) \/ LateServe(o) \/ LateLost(o)
      PROVE  funded' = funded
  BY <1>2
     DEF Sale, PlaceQrOrder, SupersededConfirmed, PaymentLapses,
         PaymentRenewed, Dispatch, DispatchFails, Admin, RetryRequested,
         RetryRefused, ResetForRetry, Reconcile, RefundCoin, RefundManual, Time,
         LeaseExpires, ReplayWindowCloses, BackoffElapses, LateServe, LateLost
<1> QED BY <1>1, <1>2 DEF Next, SetPaused, Restart, vars

(* An order that was paid for stays sold: nothing takes it back to waiting  *)
(* for its payment, or cancels it.                                          *)
LEMMA SoldStays ==
  ASSUME IInv, [Next]_vars
  PROVE  /\ funded \subseteq funded'
         /\ \A o \in funded' : Sold(order'[o])
<1>1. /\ order \in [Orders -> OrderStatus \cup {"none"}]
      /\ funded \subseteq Orders
      /\ \A o \in funded : Sold(order[o])
      /\ OnOrder
  BY DEF IInv, TypeOK, Funding
<1>2. ASSUME NEW o \in Orders, Sale(o)
      PROVE  funded \subseteq funded' /\ \A p \in funded' : Sold(order'[p])
  <2>1. CASE PlaceCoinOrder(o)
    BY <1>1, <2>1 DEF PlaceCoinOrder, Sold
  <2>2. CASE PlaceQrOrder(o)
    BY <1>1, <2>2 DEF PlaceQrOrder, Sold
  <2>3. CASE PaymentConfirmed(o)
    BY <1>1, <2>3 DEF PaymentConfirmed, Sold
  <2>4. CASE PaymentLapses(o)
    BY <1>1, <2>4 DEF PaymentLapses, Sold
  <2>5. CASE PaymentRenewed(o)
    BY <1>1, <2>5 DEF PaymentRenewed, Sold
  <2>6. CASE SupersededConfirmed(o)
    BY <1>1, <2>6 DEF SupersededConfirmed
  <2> QED BY <1>2, <2>1, <2>2, <2>3, <2>4, <2>5, <2>6 DEF Sale
<1>3. (\A o \in Orders : ~Sale(o)) => funded' = funded
  BY FundedKept DEF Sale
<1>4. ASSUME NEW o \in Orders,
             \/ Reconcile(o, "completed") \/ Reconcile(o, "failed")
             \/ RefundCoin(o) \/ RefundManual(o)
             \/ \E reset \in BOOLEAN : ResetForRetry(o, reset)
      PROVE  \A p \in Orders : Sold(order[p]) => Sold(order'[p])
  BY <1>1, <1>4 DEF Reconcile, RefundCoin, RefundManual, ResetForRetry, Sold
<1>5. ASSUME NEW w \in Workers, FinalizeSuccess(w) \/ FinalizeFailure(w)
      PROVE  \A p \in Orders : Sold(order[p]) => Sold(order'[p])
  BY <1>1, <1>5 DEF FinalizeSuccess, FinalizeFailure, Sold
<1>6. (\A o \in Orders : ~Sale(o)) =>
        \A p \in Orders : Sold(order[p]) => Sold(order'[p])
  BY <1>4, <1>5, OrderKept
<1> QED BY <1>1, <1>2, <1>3, <1>6

(* What no money was booked for keeps its empty row: whoever writes a row   *)
(* either finds one there or is about to create it for a paid order.        *)
LEMMA UnfundedStep ==
  ASSUME IInv, [Next]_vars
  PROVE  \A o \in Orders \ funded' : Unfunded(o)'
<1> USE DEF dbVars, handlerVars, upstreamVars, At, Goto, Rest
<1>1. /\ order \in [Orders -> OrderStatus \cup {"none"}]
      /\ job \in [Orders -> JobRow] /\ \A o \in Orders : job[o] \in JobRow
      /\ credits \in [Orders -> SUBSET {"refund_act", "admin_refund_manual"}]
      /\ funded \subseteq funded'
      /\ \A o \in Orders \ funded : Unfunded(o)
      /\ OnOrder /\ Funding
  BY SoldStays DEF IInv, TypeOK, Funding
<1>2. ASSUME \A o \in Orders \ funded :
               /\ order'[o] = order[o] /\ credits'[o] = credits[o]
               /\ job[o].status = "none" => job'[o].status = "none"
      PROVE  \A o \in Orders \ funded' : Unfunded(o)'
  BY <1>1, <1>2 DEF Unfunded
<1>3. ASSUME NEW p \in Orders, Sale(p)
      PROVE  \A o \in Orders \ funded' : Unfunded(o)'
  <2>1. CASE SupersededConfirmed(p)
    BY <1>2, <2>1 DEF SupersededConfirmed
  <2>2. CASE ~SupersededConfirmed(p)
    <3>1. /\ job' = job /\ credits' = credits
          /\ \A o \in Orders \ {p} : order'[o] = order[o]
      BY <1>1, <1>3, <2>2
         DEF Sale, PlaceCoinOrder, PlaceQrOrder, PaymentConfirmed,
             PaymentLapses, PaymentRenewed
    <3>2. p \notin funded' =>
            /\ order'[p] \in {"awaiting_payment", "cancelled"}
            /\ p \notin CoinOrders
      <4>1. order[p] = "awaiting_payment" /\ p \notin funded => p \notin CoinOrders
        BY <1>1 DEF Unfunded
      <4> QED BY <1>1, <1>3, <2>2, <4>1
              DEF Sale, PlaceCoinOrder, PlaceQrOrder, PaymentConfirmed,
                  PaymentLapses, PaymentRenewed
    <3> QED BY <1>1, <3>1, <3>2 DEF Unfunded
  <2> QED BY <2>1, <2>2
<1>4. ASSUME NEW p \in Orders, RefundManual(p)
      PROVE  \A o \in Orders \ funded' : Unfunded(o)'
  <2>1. /\ job' = job
        /\ \A o \in Orders \ {p} : order'[o] = order[o] /\ credits'[o] = credits[o]
        /\ order'[p] = "refunded"
    BY <1>1, <1>4 DEF RefundManual
  <2>2. p \notin funded => p \notin CoinOrders /\ credits' = credits
    BY <1>1, <1>4 DEF RefundManual, Unfunded
  <2> QED BY <1>1, <2>1, <2>2 DEF Unfunded
<1>5. ASSUME NEW p \in funded,
             \A o \in Orders \ {p} : /\ order'[o] = order[o]
                                     /\ credits'[o] = credits[o]
                                     /\ job'[o] = job[o]
      PROVE  \A o \in Orders \ funded' : Unfunded(o)'
  BY <1>2, <1>5
<1>6. ASSUME NEW p \in Orders, job[p].status # "none" \/ order[p] = "failed"
      PROVE  p \in funded
  BY <1>1, <1>6 DEF Unfunded
<1>7. ASSUME NEW p \in Orders,
             \/ \E reset \in BOOLEAN : ResetForRetry(p, reset)
             \/ \E conclusion \in {"completed", "failed"} : Reconcile(p, conclusion)
             \/ RefundCoin(p)
      PROVE  \A o \in Orders \ funded' : Unfunded(o)'
  <2>1. p \in funded
    BY <1>1, <1>7, <1>6
       DEF ResetForRetry, Retryable, Reconcile, RefundCoin, Unfunded
  <2>2. \A o \in Orders \ {p} : /\ order'[o] = order[o]
                                 /\ credits'[o] = credits[o]
                                 /\ job'[o] = job[o]
    BY <1>1, <1>7 DEF ResetForRetry, Reconcile, RefundCoin
  <2> QED BY <1>5, <2>1, <2>2
<1>8. ASSUME NEW w \in Workers,
             \/ FinalizeSuccess(w) \/ FinalizeFailure(w)
             \/ FinalizeReconcile(w) \/ FinalizeRetry(w)
      PROVE  \A o \in Orders \ funded' : Unfunded(o)'
  <2> DEFINE p == worker[w].on
  <2>1. p \in funded
    BY <1>1, <1>8, <1>6
       DEF OnOrder, FinalizeSuccess, FinalizeFailure, FinalizeReconcile,
           FinalizeRetry, Finalizes, Leased
  <2>2. \A o \in Orders \ {p} : /\ order'[o] = order[o]
                                 /\ credits'[o] = credits[o]
                                 /\ job'[o] = job[o]
    BY <1>1, <1>8
       DEF FinalizeSuccess, FinalizeFailure, FinalizeReconcile, FinalizeRetry,
           Finalizes
  <2> HIDE DEF p
  <2> QED BY <1>5, <2>1, <2>2
<1>9. ASSUME NEW p \in Orders,
             \/ Dispatch(p)
             \/ \E w \in Workers : RecoverOne(w, p) \/ Claim(w, p)
      PROVE  \A o \in Orders \ funded' : Unfunded(o)'
  <2>1. p \in funded
    BY <1>1, <1>9, <1>6 DEF Dispatch, RecoverOne, Claim, Runnable, Funding
  <2>2. \A o \in Orders \ {p} : /\ order'[o] = order[o]
                                 /\ credits'[o] = credits[o]
                                 /\ job'[o] = job[o]
    BY <1>1, <1>9 DEF Dispatch, RecoverOne, Claim
  <2> QED BY <1>5, <2>1, <2>2
<1>10. ASSUME NEW w \in Workers,
              Reclaim(w) \/ ExpireExhausted(w) \/ ExpireUnreplayable(w)
       PROVE  \A o \in Orders \ funded' : Unfunded(o)'
  BY <1>2, <1>10
     DEF Reclaim, ExpireExhausted, ExpireUnreplayable, Reclaimed, Exhausted,
         Unreplayable
<1>11. ASSUME NEW p \in Orders, Time(p)
       PROVE  \A o \in Orders \ funded' : Unfunded(o)'
  <2>1. \A o \in Orders : job'[o].status = job[o].status
    BY <1>1, <1>11
       DEF Time, LeaseExpires, ReplayWindowCloses, BackoffElapses, JobRow
  <2>2. order' = order /\ credits' = credits
    BY <1>11 DEF Time, LeaseExpires, ReplayWindowCloses, BackoffElapses
  <2> QED BY <1>2, <2>1, <2>2
<1>12. CASE Restart
  BY <1>1, <1>2, <1>12 DEF Restart, JobRow
<1>13. ASSUME order' = order, job' = job, credits' = credits
       PROVE  \A o \in Orders \ funded' : Unfunded(o)'
  BY <1>2, <1>13
<1>14. ASSUME NEW w \in Workers,
              \/ BeginMaintenance(w) \/ FindMissing(w) \/ EndMaintenance(w)
              \/ MaintenanceFails(w) \/ SkipMaintenance(w) \/ CheckPaused(w)
              \/ NothingToClaim(w) \/ Send(w) \/ ConfigError(w) \/ Serve(w)
              \/ ReceiveSuccess(w) \/ ReceiveRefusal(w) \/ ReceiveUnclear(w)
              \/ PauseProvider(w) \/ FinalizeStale(w) \/ FinalizeError(w)
       PROVE  order' = order /\ job' = job /\ credits' = credits
  BY <1>14
     DEF BeginMaintenance, FindMissing, EndMaintenance, MaintenanceFails,
         SkipMaintenance, CheckPaused, NothingToClaim, Send, ConfigError, Serve,
         ReceiveSuccess, ReceiveRefusal, ReceiveUnclear, PauseProvider,
         FinalizeStale, FinalizeError
<1>15. ASSUME NEW o \in Orders,
              \/ DispatchFails(o) \/ RetryRequested(o) \/ RetryRefused(o)
              \/ LateServe(o) \/ LateLost(o)
       PROVE  order' = order /\ job' = job /\ credits' = credits
  BY <1>15 DEF DispatchFails, RetryRequested, RetryRefused, LateServe, LateLost
<1>16. ASSUME UNCHANGED vars \/ \E flag \in BOOLEAN : SetPaused(flag)
       PROVE  order' = order /\ job' = job /\ credits' = credits
  BY <1>16 DEF vars, SetPaused
<1> QED
  BY <1>3, <1>4, <1>7, <1>8, <1>9, <1>10, <1>11, <1>12, <1>13, <1>14, <1>15, <1>16
     DEF Next, Thread, Maintenance, Tick, Finalize, Admin

(* Whoever creates a job has it from a paid order: the handler from the     *)
(* payment, the maintenance from the query of its own round.                *)
LEMMA FundingStep ==
  ASSUME IInv, [Next]_vars
  PROVE  Funding'
<1> USE DEF dbVars, handlerVars, upstreamVars, At, Goto, Rest
<1>1. /\ Funding
      /\ worker \in [Workers -> WorkerState]
      /\ dispatching \subseteq funded
      /\ \A w \in Workers : worker[w].todo \subseteq Orders
  BY DEF IInv, TypeOK, WorkerState, Funding
<1>2. /\ funded \subseteq funded'
      /\ \A o \in funded' : Sold(order'[o])
      /\ \A o \in Orders \ funded' : Unfunded(o)'
  BY SoldStays, UnfundedStep
<1>3. dispatching' \subseteq funded'
  <2>1. ASSUME NEW o \in Orders, Sale(o)
        PROVE  dispatching' \subseteq funded'
    BY <1>1, <2>1
       DEF Sale, PlaceCoinOrder, PlaceQrOrder, PaymentConfirmed,
           SupersededConfirmed, PaymentLapses, PaymentRenewed
  <2>2. ASSUME NEW o \in Orders, \/ Dispatch(o) \/ DispatchFails(o) \/ Admin(o)
                                 \/ Time(o) \/ LateServe(o) \/ LateLost(o)
        PROVE  dispatching' \subseteq dispatching
    BY <2>2
       DEF Dispatch, DispatchFails, Admin, RetryRequested, RetryRefused,
           ResetForRetry, Reconcile, RefundCoin, RefundManual, Time,
           LeaseExpires, ReplayWindowCloses, BackoffElapses, LateServe, LateLost
  <2>3. ASSUME NEW w \in Workers, Thread(w)
        PROVE  dispatching' = dispatching
    BY <2>3
       DEF Thread, Maintenance, BeginMaintenance, SkipMaintenance, Reclaim,
           ExpireExhausted, ExpireUnreplayable, FindMissing, RecoverOne,
           EndMaintenance, MaintenanceFails, Tick, CheckPaused, Claim,
           NothingToClaim, Send, Serve, ConfigError, ReceiveSuccess,
           ReceiveRefusal, ReceiveUnclear, PauseProvider, Finalize,
           FinalizeStale, FinalizeSuccess, FinalizeFailure, FinalizeReconcile,
           FinalizeRetry, FinalizeError, Finalizes
  <2> QED BY <1>1, <1>2, <2>1, <2>2, <2>3 DEF Next, SetPaused, Restart, vars
<1>4. \A w \in Workers : \A o \in worker'[w].todo :
        o \in worker[w].todo \/ o \in funded
  <2>1. ASSUME NEW w \in Workers, FindMissing(w)
        PROVE  \A v \in Workers : \A o \in worker'[v].todo :
                 o \in worker[v].todo \/ o \in funded
    BY <1>1, <2>1 DEF FindMissing, WorkerState, Funding, Unfunded
  <2>2. ASSUME NEW w \in Workers, NEW o \in Orders, RecoverOne(w, o)
        PROVE  \A v \in Workers : worker'[v].todo \subseteq worker[v].todo
    BY <1>1, <2>2 DEF RecoverOne, WorkerState
  <2>3. ASSUME NEW w \in Workers,
               \/ BeginMaintenance(w) \/ Reclaim(w) \/ ExpireExhausted(w)
               \/ ExpireUnreplayable(w) \/ EndMaintenance(w) \/ MaintenanceFails(w)
               \/ SkipMaintenance(w) \/ CheckPaused(w) \/ Send(w) \/ Serve(w)
               \/ \E o \in Orders : Claim(w, o)
        PROVE  \A v \in Workers : worker'[v].todo \subseteq worker[v].todo
    BY <1>1, <2>3
       DEF BeginMaintenance, Reclaim, ExpireExhausted, ExpireUnreplayable,
           EndMaintenance, MaintenanceFails, SkipMaintenance, CheckPaused, Send,
           Serve, Claim, WorkerState, Idle
  <2>4. ASSUME NEW w \in Workers,
               \/ NothingToClaim(w) \/ ConfigError(w) \/ ReceiveSuccess(w)
               \/ ReceiveRefusal(w) \/ ReceiveUnclear(w) \/ PauseProvider(w)
               \/ Finalize(w) \/ FinalizeError(w)
        PROVE  \A v \in Workers : worker'[v].todo \subseteq worker[v].todo
    BY <1>1, <2>4
       DEF NothingToClaim, ConfigError, ReceiveSuccess, ReceiveRefusal,
           ReceiveUnclear, Concludes, PauseProvider, Finalize, FinalizeStale,
           FinalizeSuccess, FinalizeFailure, FinalizeReconcile, FinalizeRetry,
           Finalizes, FinalizeError, WorkerState, Idle
  <2>5. ASSUME NEW o \in Orders, \/ Sale(o) \/ Dispatch(o) \/ DispatchFails(o) \/ Admin(o)
                                 \/ Time(o) \/ LateServe(o) \/ LateLost(o)
        PROVE  worker' = worker
    BY <2>5
       DEF Sale, PlaceCoinOrder, PlaceQrOrder, PaymentConfirmed,
           SupersededConfirmed, PaymentLapses, PaymentRenewed, Dispatch,
           DispatchFails, Admin, RetryRequested, RetryRefused, ResetForRetry,
           Reconcile, RefundCoin, RefundManual, Time, LeaseExpires,
           ReplayWindowCloses, BackoffElapses, LateServe, LateLost
  <2>6. CASE Restart
    BY <2>6 DEF Restart, Idle
  <2>7. ASSUME UNCHANGED vars \/ \E flag \in BOOLEAN : SetPaused(flag)
        PROVE  worker' = worker
    BY <2>7 DEF vars, SetPaused
  <2> QED BY <2>1, <2>2, <2>3, <2>4, <2>5, <2>6, <2>7
          DEF Next, Thread, Maintenance, Tick
<1> QED BY <1>1, <1>2, <1>3, <1>4 DEF Funding

AllConsistent == \A o \in Orders : Consistent(order[o], job[o], credits[o])

(* The heart of the argument: every write leaves the order it concerns      *)
(* consistent, and the others as they are.                                  *)
LEMMA ConsistentStep ==
  ASSUME IInv, [Next]_vars
  PROVE  AllConsistent'
<1> USE DEF dbVars, handlerVars, upstreamVars, At, Goto, Rest
<1>1. /\ AllConsistent
      /\ order \in [Orders -> OrderStatus \cup {"none"}]
      /\ job \in [Orders -> JobRow]
      /\ credits \in [Orders -> SUBSET {"refund_act", "admin_refund_manual"}]
      /\ \A o \in Orders : job[o] \in JobRow
      /\ OnOrder
      /\ Funding
  BY DEF IInv, AllConsistent, TypeOK
<1>2. ASSUME order' = order, job' = job, credits' = credits
      PROVE  AllConsistent'
  BY <1>1, <1>2 DEF AllConsistent
<1>3. ASSUME NEW o \in Orders, Sale(o)
      PROVE  AllConsistent'
  <2>1. CASE SupersededConfirmed(o)
    BY <1>2, <2>1 DEF SupersededConfirmed
  <2>2. CASE ~SupersededConfirmed(o)
    <3>1. \E status \in {"paid", "awaiting_payment", "cancelled", order[o]} :
            order' = [order EXCEPT ![o] = status] /\ job' = job /\ credits' = credits
      BY <1>1, <1>3, <2>2
         DEF Sale, PlaceCoinOrder, PlaceQrOrder, PaymentConfirmed,
             PaymentLapses, PaymentRenewed
    <3>2. o \notin funded
      BY <1>1, <1>3, <2>2
         DEF Sale, PlaceCoinOrder, PlaceQrOrder, PaymentConfirmed,
             PaymentLapses, PaymentRenewed, Funding, Sold
    <3>3. job[o].status = "none" /\ credits[o] = {} /\ job[o].outcome # "succeeded"
      BY <1>1, <3>2 DEF AllConsistent, Consistent, Funding, Unfunded
    <3> QED BY <1>1, <3>1, <3>3 DEF AllConsistent, Consistent, ProviderStatus
  <2> QED BY <2>1, <2>2
<1>4. ASSUME NEW o \in Orders, Sold(order[o]), order' = order, credits' = credits,
             job' = [job EXCEPT ![o] = Created(job[o])]
      PROVE  AllConsistent'
  BY <1>1, <1>4, MaintenanceConsistent DEF AllConsistent
<1>5. ASSUME NEW o \in Orders, Dispatch(o) \/ \E w \in Workers : RecoverOne(w, o)
      PROVE  AllConsistent'
  BY <1>1, <1>4, <1>5 DEF Dispatch, RecoverOne, Funding
<1>6. ASSUME NEW w \in Workers,
             Reclaim(w) \/ ExpireExhausted(w) \/ ExpireUnreplayable(w)
      PROVE  AllConsistent'
  <2>1. CASE Reclaim(w)
    BY <1>1, <2>1, MaintenanceConsistent DEF AllConsistent, Reclaim
  <2>2. CASE ExpireExhausted(w)
    BY <1>1, <2>2, MaintenanceConsistent DEF AllConsistent, ExpireExhausted
  <2>3. CASE ExpireUnreplayable(w)
    BY <1>1, <2>3, MaintenanceConsistent DEF AllConsistent, ExpireUnreplayable
  <2> QED BY <1>6, <2>1, <2>2, <2>3
<1>7. ASSUME NEW w \in Workers, NEW o \in Orders, Claim(w, o)
      PROVE  AllConsistent'
  <2>1. PICK confirmed \in WindowSettings :
          job' = [job EXCEPT ![o] = Claimed(job[o], w, confirmed)]
    BY <1>7 DEF Claim
  <2>2. /\ Claimed(job[o], w, confirmed).status = "leased"
        /\ Claimed(job[o], w, confirmed).outcome = "sent_unclear"
    BY <1>1 DEF Claimed, JobRow
  <2>3. order[o] = "paid" /\ credits[o] = {}
    BY <1>1, <1>7
       DEF AllConsistent, Consistent, ProviderStatus, Claim, Runnable, Claimable
  <2>4. Consistent(order[o], Claimed(job[o], w, confirmed), credits[o])
    BY <2>2, <2>3 DEF Consistent, ProviderStatus, Sold
  <2> QED BY <1>1, <1>7, <2>1, <2>4 DEF AllConsistent, Claim
<1>8. ASSUME NEW o \in Orders, Time(o)
      PROVE  AllConsistent'
  <2>1. /\ [job[o] EXCEPT !.leaseOver = TRUE].status = job[o].status
        /\ [job[o] EXCEPT !.leaseOver = TRUE].outcome = job[o].outcome
        /\ [job[o] EXCEPT !.replay = "closed"].status = job[o].status
        /\ [job[o] EXCEPT !.replay = "closed"].outcome = job[o].outcome
        /\ [job[o] EXCEPT !.due = TRUE].status = job[o].status
        /\ [job[o] EXCEPT !.due = TRUE].outcome = job[o].outcome
    BY <1>1 DEF JobRow
  <2>2. \E row : /\ row.status = job[o].status /\ row.outcome = job[o].outcome
                 /\ job' = [job EXCEPT ![o] = row]
    BY <1>8, <2>1 DEF Time, LeaseExpires, ReplayWindowCloses, BackoffElapses
  <2>3. order' = order /\ credits' = credits
    BY <1>8 DEF Time, LeaseExpires, ReplayWindowCloses, BackoffElapses
  <2> QED BY <1>1, <2>2, <2>3 DEF AllConsistent, Consistent
<1>9. CASE Restart
  <2>1. \A o \in Orders : /\ job'[o].status = job[o].status
                          /\ job'[o].outcome = job[o].outcome
    BY <1>1, <1>9 DEF Restart, JobRow
  <2> QED BY <1>1, <1>9, <2>1 DEF AllConsistent, Consistent, Restart
<1>10. ASSUME NEW o \in Orders, NEW status, NEW row, NEW keys,
              order' = [order EXCEPT ![o] = status],
              job' = [job EXCEPT ![o] = row],
              credits' = [credits EXCEPT ![o] = keys],
              Consistent(status, row, keys)
       PROVE  AllConsistent'
  BY <1>1, <1>10 DEF AllConsistent
<1>11. ASSUME NEW o \in Orders, NEW reset \in BOOLEAN, ResetForRetry(o, reset)
       PROVE  AllConsistent'
  <2>1. /\ Reopened(job[o], reset).status = "pending"
        /\ Reopened(job[o], reset).outcome = job[o].outcome
    BY <1>1 DEF Reopened, Released, JobRow
  <2>2. order[o] \in {"paid", "failed"} /\ credits[o] = {} /\ job[o].outcome # "succeeded"
    BY <1>1, <1>11
       DEF AllConsistent, Consistent, ProviderStatus, ResetForRetry, Retryable,
           Claimable
  <2>3. Consistent("paid", Reopened(job[o], reset), credits[o])
    BY <2>1, <2>2 DEF Consistent, ProviderStatus, Sold
  <2>4. order' = [order EXCEPT ![o] = "paid"]
    BY <1>1, <1>11, <2>2 DEF ResetForRetry
  <2> QED BY <1>1, <1>11, <2>3, <2>4 DEF AllConsistent, ResetForRetry
<1>12. \A o \in Orders : \A status \in JobStatus : \A outcome \in Outcome :
         /\ Concluded(job[o], status, outcome).status = status
         /\ Concluded(job[o], status, outcome).outcome = outcome
  BY <1>1, ConcludedRow
<1>13. ASSUME NEW o \in Orders, NEW conclusion \in {"completed", "failed"},
              Reconcile(o, conclusion)
       PROVE  AllConsistent'
  <2>1. order[o] \in {"paid", "failed"} /\ credits[o] = {}
    BY <1>1, <1>13
       DEF AllConsistent, Consistent, ProviderStatus, Sold, Reconcile,
           TransitionOk, VALID_ACT_TRANSITIONS
  <2> DEFINE result == IF conclusion = "completed" THEN "succeeded" ELSE "failed"
             row == Concluded(job[o], result, result)
  <2>2. row.status = result /\ row.outcome = result
    BY <1>12 DEF JobStatus, Outcome
  <2>4. job' = [job EXCEPT ![o] = row]
    BY <1>13 DEF Reconcile
  <2> HIDE DEF row
  <2>3. Consistent(conclusion, row, credits[o])
    BY <2>1, <2>2 DEF Consistent, ProviderStatus, Sold
  <2> QED BY <1>1, <1>13, <2>3, <2>4 DEF AllConsistent, Reconcile
<1>14. ASSUME NEW o \in Orders, RefundCoin(o)
       PROVE  AllConsistent'
  <2>1. /\ order[o] = "failed" /\ credits[o] = {}
        /\ job[o].status = "failed" /\ job[o].outcome # "succeeded"
    BY <1>1, <1>14 DEF AllConsistent, Consistent, ProviderStatus, RefundCoin
  <2>2. Consistent("refunded", job[o], {"refund_act"})
    BY <2>1 DEF Consistent, ProviderStatus, Sold
  <2> QED BY <1>1, <1>14, <2>1, <2>2 DEF AllConsistent, RefundCoin
<1>15. ASSUME NEW o \in Orders, RefundManual(o)
       PROVE  AllConsistent'
  <2>1. /\ order[o] \in {"paid", "failed", "cancelled"} /\ credits[o] = {}
        /\ job[o].status # "succeeded" /\ job[o].outcome # "succeeded"
    BY <1>1, <1>15 DEF AllConsistent, Consistent, ProviderStatus, RefundManual
  <2>2. \A keys \in {{}, {"admin_refund_manual"}} : Consistent("refunded", job[o], keys)
    BY <1>1, <2>1 DEF AllConsistent, Consistent, ProviderStatus, Sold
  <2>3. credits'[o] \in {{}, {"admin_refund_manual"}}
    BY <1>1, <1>15, <2>1 DEF RefundManual
  <2> QED BY <1>1, <1>15, <2>2, <2>3 DEF AllConsistent, RefundManual
<1>16. ASSUME NEW w \in Workers,
              \/ FinalizeSuccess(w) \/ FinalizeFailure(w)
              \/ FinalizeReconcile(w) \/ FinalizeRetry(w)
       PROVE  AllConsistent'
  <2> DEFINE o == worker[w].on
  <2>1. /\ o \in Orders /\ job[o].status = "leased" /\ credits' = credits
    BY <1>1, <1>16
       DEF OnOrder, FinalizeSuccess, FinalizeFailure, FinalizeReconcile,
           FinalizeRetry, Finalizes, Leased
  <2>2. /\ order[o] \in {"paid", "refunded"}
        /\ "refund_act" \notin credits[o]
        /\ Consistent(order[o], job[o], credits[o])
    BY <1>1, <2>1 DEF AllConsistent, Consistent
  <2> HIDE DEF o
  <2>3. CASE FinalizeSuccess(w)
    <3>1. CASE order[o] = "paid"
      <4>1. TransitionOk(order[o], "completed")
        BY <3>1 DEF TransitionOk, VALID_ACT_TRANSITIONS
      <4> DEFINE row == Concluded(job[o], "succeeded", "succeeded")
      <4>2. row.status = "succeeded" /\ row.outcome = "succeeded"
        BY <1>12, <2>1 DEF JobStatus, Outcome
      <4>5. job' = [job EXCEPT ![o] = row]
        BY <2>3, <4>1 DEF FinalizeSuccess, o
      <4> HIDE DEF row
      <4>3. Consistent("completed", row, credits[o])
        BY <2>2, <3>1, <4>2 DEF Consistent, ProviderStatus, Sold
      <4>4. order' = [order EXCEPT ![o] = "completed"]
        BY <2>3, <4>1 DEF FinalizeSuccess, o
      <4> QED BY <1>1, <2>1, <4>3, <4>4, <4>5 DEF AllConsistent
    <3>2. CASE order[o] = "refunded"
      <4>1. ~TransitionOk(order[o], "completed")
        BY <3>2 DEF TransitionOk, VALID_ACT_TRANSITIONS
      <4> DEFINE row == Concluded(job[o], "awaiting_reconciliation", "succeeded")
      <4>2. row.status = "awaiting_reconciliation" /\ row.outcome = "succeeded"
        BY <1>12, <2>1 DEF JobStatus, Outcome
      <4>5. job' = [job EXCEPT ![o] = row]
        BY <2>3, <4>1 DEF FinalizeSuccess, o
      <4> HIDE DEF row
      <4>3. Consistent(order[o], row, credits[o])
        BY <2>2, <3>2, <4>2 DEF Consistent, ProviderStatus, Sold
      <4>4. order' = order
        BY <2>3, <4>1 DEF FinalizeSuccess, o
      <4> QED BY <1>1, <2>1, <4>3, <4>4, <4>5 DEF AllConsistent
    <3> QED BY <2>2, <3>1, <3>2
  <2>4. CASE FinalizeFailure(w)
    <3> DEFINE row == Concluded(job[o], "failed", "rejected")
    <3>1. row.status = "failed" /\ row.outcome = "rejected"
      BY <1>12, <2>1 DEF JobStatus, Outcome
    <3>5. job' = [job EXCEPT ![o] = row]
      BY <2>4 DEF FinalizeFailure, o
    <3> HIDE DEF row
    <3>2. \/ order' = [order EXCEPT ![o] = "failed"] /\ order[o] = "paid"
          \/ order' = order /\ order[o] = "refunded"
      BY <2>2, <2>4 DEF FinalizeFailure, o, TransitionOk, VALID_ACT_TRANSITIONS
    <3>3. order[o] = "paid" => Consistent("failed", row, credits[o])
      BY <2>2, <3>1 DEF Consistent, ProviderStatus, Sold
    <3>4. order[o] = "refunded" => Consistent("refunded", row, credits[o])
      BY <2>2, <3>1 DEF Consistent, ProviderStatus, Sold
    <3> QED BY <1>1, <2>1, <3>2, <3>3, <3>4, <3>5 DEF AllConsistent
  <2>5. CASE FinalizeReconcile(w) \/ FinalizeRetry(w)
    <3>1. PICK row : /\ job' = [job EXCEPT ![o] = row]
                     /\ row.status \in {"awaiting_reconciliation", "pending"}
                     /\ row.outcome \in {"rejected", "sent_unclear"}
      <4>1. CASE FinalizeReconcile(w)
        BY <1>12, <2>1, <4>1 DEF FinalizeReconcile, o, JobStatus, Outcome
      <4>2. CASE FinalizeRetry(w)
        BY <1>1, <2>1, <4>2, DeferredRow DEF FinalizeRetry, o
      <4> QED BY <2>5, <4>1, <4>2
    <3>2. Consistent(order[o], row, credits[o])
      BY <2>2, <3>1 DEF Consistent, ProviderStatus, Sold
    <3>3. order' = order
      BY <2>5 DEF FinalizeReconcile, FinalizeRetry
    <3> QED BY <1>1, <2>1, <3>1, <3>2, <3>3 DEF AllConsistent
  <2> QED BY <1>16, <2>3, <2>4, <2>5
<1>17. ASSUME NEW w \in Workers,
              \/ BeginMaintenance(w) \/ FindMissing(w) \/ EndMaintenance(w)
              \/ MaintenanceFails(w) \/ SkipMaintenance(w) \/ CheckPaused(w)
              \/ NothingToClaim(w) \/ Send(w) \/ ConfigError(w) \/ Serve(w)
              \/ ReceiveSuccess(w) \/ ReceiveRefusal(w) \/ ReceiveUnclear(w)
              \/ PauseProvider(w) \/ FinalizeStale(w) \/ FinalizeError(w)
       PROVE  AllConsistent'
  BY <1>2, <1>17
     DEF BeginMaintenance, FindMissing, EndMaintenance, MaintenanceFails,
         SkipMaintenance, CheckPaused, NothingToClaim, Send, ConfigError, Serve,
         ReceiveSuccess, ReceiveRefusal, ReceiveUnclear, PauseProvider,
         FinalizeStale, FinalizeError
<1>18. ASSUME NEW o \in Orders,
              \/ DispatchFails(o) \/ RetryRequested(o) \/ RetryRefused(o)
              \/ LateServe(o) \/ LateLost(o)
       PROVE  AllConsistent'
  BY <1>2, <1>18 DEF DispatchFails, RetryRequested, RetryRefused, LateServe, LateLost
<1>19. ASSUME UNCHANGED vars \/ \E flag \in BOOLEAN : SetPaused(flag)
       PROVE  AllConsistent'
  BY <1>2, <1>19 DEF vars, SetPaused
<1> QED
  BY <1>3, <1>5, <1>6, <1>7, <1>8, <1>9, <1>11, <1>13, <1>14, <1>15, <1>16,
     <1>17, <1>18, <1>19
     DEF Next, Thread, Maintenance, Tick, Finalize, Admin

(* IInv is an invariant: the basis of every theorem below. *)
LEMMA Invariance == Spec => []IInv
<1>1. ASSUME IInv, [Next]_vars
      PROVE  IInv'
  BY <1>1, TypeStep, OnOrderStep, FundingStep, ConsistentStep
     DEF IInv, AllConsistent
<1> QED BY <1>1, InitInvariant, PTL DEF Spec

(* Every variable keeps its type, in every run of the outbox. *)
THEOREM TypeCorrect == Spec => []TypeOK
<1>1. IInv => TypeOK
  BY DEF IInv
<1> QED BY <1>1, Invariance, PTL

(* An order is completed exactly when its job has succeeded, however many   *)
(* threads, admins and restarts write the two tables: no success is         *)
(* recorded by halves, and no completed order has its job taken up again.   *)
THEOREM CompletedTogether == Spec => []CompletedWithJob
<1>1. IInv => CompletedWithJob
  BY DEF IInv, Consistent, CompletedWithJob
<1> QED BY <1>1, Invariance, PTL

(* An order that may be refunded as failed has a job that has failed, so    *)
(* none that is waiting, leased or parked with an unknown result.           *)
THEOREM FailedTogether == Spec => []FailedWithJob
<1>1. IInv => FailedWithJob
  BY DEF IInv, Consistent, FailedWithJob
<1> QED BY <1>1, Invariance, PTL

(* An order reads as completed or failed exactly as its job ended, for any  *)
(* number of threads, admins, refunds and restarts.                         *)
THEOREM OrdersAgreeWithJobs == Spec => []OrderAndJobAgree
<1>1. CompletedWithJob /\ FailedWithJob => OrderAndJobAgree
  BY DEF OrderAndJobAgree
<1> QED BY <1>1, CompletedTogether, FailedTogether, PTL

(* A success of the provider, once recorded, stands on a completed order or *)
(* on a job that waits for the admin because the order was refunded first.  *)
THEOREM EvidenceNeverLost == Spec => []EvidenceAccounted
<1>1. IInv => EvidenceAccounted
  BY DEF IInv, Consistent, EvidenceAccounted
<1> QED BY <1>1, Invariance, PTL

(* After a coin refund the job is settled without a success for good: a     *)
(* thread that still has the request out can no longer write its verdict.   *)
THEOREM CoinRefundSettles == Spec => []CoinRefundIsFinal
<1>1. IInv => CoinRefundIsFinal
  BY DEF IInv, Consistent, CoinRefundIsFinal
<1> QED BY <1>1, Invariance, PTL

(* What is fulfilled was paid for, with its coins or by the payment it is   *)
(* linked to, and then does not show as unpaid, however late that transfer  *)
(* and however often the order was renewed.  Transfers on payments it was   *)
(* renewed from are booked beside it and change neither.                    *)
THEOREM FundingShows == Spec => []FundedShows
<1>1. IInv => FundedShows
  BY DEF IInv, Funding, Unfunded, Sold, FundedShows
<1> QED BY <1>1, Invariance, PTL

(* The two refund endpoints never both credit the wallet for one order.     *)
THEOREM NoDoubleRefund == Spec => []RefundedOnce
<1>1. IInv => RefundedOnce
  <2> SUFFICES ASSUME IInv, NEW o \in Orders
               PROVE  Cardinality(credits[o]) <= 1
    BY DEF RefundedOnce
  <2>1. credits[o] \in {{}, {"refund_act"}, {"admin_refund_manual"}}
    BY DEF IInv, Consistent
  <2>2. Cardinality({}) = 0
    BY FS_EmptySet
  <2>3. /\ Cardinality({"refund_act"}) = 1
        /\ Cardinality({"admin_refund_manual"}) = 1
    BY FS_Singleton
  <2> QED BY <2>1, <2>2, <2>3
<1> QED BY <1>1, Invariance, PTL

------------------------------------------------------------------------------
(* While no replay window is confirmed.  Then nothing is sent again unless  *)
(* the provider refused it, and the thread that carries a refusal is the    *)
(* only one that has anything to do with the order.                         *)

Engaged(r) == r.pc \in {"send", "await", "pause", "finalize"}

(* The thread's request has not been executed, as far as the thread goes:   *)
(* it has yet to be sent, or is out, or was refused.                        *)
Clean(r) ==
  \/ r.pc = "send"
  \/ r.pc = "await" /\ ~r.served
  \/ r.pc \in {"pause", "finalize"} /\ r.verdict \in {"refused", "failed"}

Sendable(row) == ~row.sent \/ row.outcome = "rejected"

Untouched(o) == delivered[o] = 0 /\ late[o] = 0

Once(o) ==
  /\ job[o].replay = "null"
  /\ delivered[o] + late[o] <= 1
  /\ \A w \in Workers : Clean(worker[w]) /\ worker[w].on = o => Untouched(o)
  /\ \A v, w \in Workers : /\ Engaged(worker[v]) /\ worker[v].on = o
                           /\ Engaged(worker[w]) /\ worker[w].on = o
                           => v = w
  /\ Sendable(job[o]) =>
       Untouched(o) /\ \A w \in Workers : Engaged(worker[w]) => worker[w].on # o

AllOnce == \A o \in Orders : Once(o)

(* What most steps do to a thread and to a row. *)
Goes(old, new) ==
  /\ Engaged(new) => Engaged(old) /\ new.on = old.on
  /\ Clean(new) => Clean(old)

RowKept(old, new) == new.replay = "null" /\ (Sendable(new) => Sendable(old))

LEMMA CleanEngaged ==
  ASSUME NEW r
  PROVE  /\ Goes(r, r) /\ (Clean(r) => Engaged(r))
         /\ ~Engaged(Idle) /\ ~Clean(Idle) /\ Goes(r, Idle)
BY DEF Goes, Clean, Engaged, Idle

LEMMA OnceKept ==
  ASSUME AllOnce, UNCHANGED <<late, delivered>>,
         \A w \in Workers : Goes(worker[w], worker'[w]),
         \A o \in Orders : RowKept(job[o], job'[o])
  PROVE  AllOnce'
<1> SUFFICES ASSUME NEW o \in Orders
             PROVE  Once(o)'
  BY DEF AllOnce
<1>1. Once(o) /\ RowKept(job[o], job'[o])
  BY DEF AllOnce
<1>2. \A w \in Workers : Clean(worker[w]) => Engaged(worker[w])
  BY CleanEngaged
<1>3. \A w \in Workers :
        /\ Engaged(worker'[w]) => Engaged(worker[w]) /\ worker'[w].on = worker[w].on
        /\ Clean(worker'[w]) => Clean(worker[w]) /\ worker'[w].on = worker[w].on
  BY <1>2, CleanEngaged DEF Goes
<1>4. Untouched(o)' <=> Untouched(o)
  BY DEF Untouched
<1> QED BY <1>1, <1>3, <1>4 DEF Once, RowKept

(* The helpers that rewrite a row. *)
LEMMA RowsKept ==
  ASSUME NEW row \in JobRow, row.replay = "null"
  PROVE  /\ RowKept(row, row) /\ RowKept(row, Created(row))
         /\ RowKept(row, Released(row))
         /\ RowKept(row, Reclaimed(row)) /\ RowKept(row, Exhausted(row))
         /\ RowKept(row, Unreplayable(row))
<1>1. RowKept(row, row) /\ RowKept(row, Created(row)) /\ RowKept(row, Released(row))
  BY DEF RowKept, Sendable, Created, Released, JobRow
<1>2. ASSUME NEW status
      PROVE  RowKept(row, [Released(row) EXCEPT !.status = status])
  BY DEF RowKept, Sendable, Released, JobRow
<1> QED BY <1>1, <1>2 DEF Reclaimed, Exhausted, Unreplayable

LEMMA ConcludedKept ==
  ASSUME NEW row \in JobRow, row.replay = "null", NEW status, NEW outcome
  PROVE  /\ Concluded(row, status, outcome).replay = "null"
         /\ outcome # "rejected" =>
              /\ RowKept(row, Concluded(row, status, outcome))
              /\ RowKept(row, [Concluded(row, status, outcome) EXCEPT !.due = FALSE])
BY DEF RowKept, Sendable, Concluded, Released, JobRow

LEMMA ReopenedKept ==
  ASSUME NEW row \in JobRow, row.replay = "null", NEW reset \in BOOLEAN
  PROVE  RowKept(row, Reopened(row, reset))
<1>1. ASSUME NEW attempts
      PROVE  RowKept(row, [Released(row) EXCEPT !.status = "pending", !.due = TRUE,
                                                !.attempts = attempts])
  BY DEF RowKept, Sendable, Released, JobRow
<1> QED BY <1>1 DEF Reopened

(* Steps that write one row, and threads that stay where they are. *)
LEMMA OneRowKept ==
  ASSUME TypeOK, AllOnce, UNCHANGED <<late, delivered>>,
         \A w \in Workers : Goes(worker[w], worker'[w]),
         NEW o \in Orders, NEW row, RowKept(job[o], row),
         job' = [job EXCEPT ![o] = row]
  PROVE  AllOnce'
<1>1. \A q \in Orders : job[q] \in JobRow /\ job[q].replay = "null"
  BY DEF TypeOK, AllOnce, Once
<1>2. \A q \in Orders : job'[q] = IF q = o THEN row ELSE job[q]
  BY DEF TypeOK
<1>3. \A q \in Orders : RowKept(job[q], job'[q])
  BY <1>1, <1>2, RowsKept
<1> QED BY <1>3, OnceKept

LEMMA NullRows ==
  ASSUME TypeOK, AllOnce
  PROVE  \A o \in Orders : /\ job[o] \in JobRow /\ job[o].replay = "null"
                           /\ RowKept(job[o], job[o])
                           /\ delivered[o] \in Nat /\ late[o] \in Nat
<1>1. \A o \in Orders : job[o] \in JobRow /\ job[o].replay = "null"
  BY DEF TypeOK, AllOnce, Once
<1>2. \A o \in Orders : delivered[o] \in Nat /\ late[o] \in Nat
  BY BoundAssumption DEF TypeOK
<1> QED BY <1>1, <1>2, RowsKept

(* One thread moves. *)
LEMMA OneGoes ==
  ASSUME TypeOK, NEW w \in Workers, NEW r, Goes(worker[w], r),
         worker' = [worker EXCEPT ![w] = r]
  PROVE  \A v \in Workers : Goes(worker[v], worker'[v])
BY CleanEngaged DEF TypeOK

LEMMA QuietThreadsOnce ==
  ASSUME TypeOK, AllOnce, NEW w \in Workers,
         \/ BeginMaintenance(w) \/ FindMissing(w) \/ EndMaintenance(w)
         \/ MaintenanceFails(w) \/ SkipMaintenance(w) \/ CheckPaused(w)
         \/ NothingToClaim(w) \/ Send(w) \/ ConfigError(w)
         \/ ReceiveSuccess(w) \/ ReceiveRefusal(w)
         \/ PauseProvider(w) \/ FinalizeStale(w) \/ FinalizeError(w)
  PROVE  AllOnce'
<1> USE DEF At, Goto, Rest, Concludes, dbVars, upstreamVars
<1>1. worker[w] \in WorkerState /\ worker \in [Workers -> WorkerState]
  BY DEF TypeOK
<1>2. \E r : Goes(worker[w], r) /\ worker' = [worker EXCEPT ![w] = r]
  <2>1. CASE \/ NothingToClaim(w) \/ FinalizeStale(w) \/ FinalizeError(w)
             \/ CheckPaused(w) /\ paused
    BY <2>1, CleanEngaged DEF NothingToClaim, FinalizeStale, FinalizeError, CheckPaused
  <2>2. CASE MaintenanceFails(w)
    <3>1. PICK r : r = [Idle EXCEPT !.pc = "check"]
      OBVIOUS
    <3>2. r.pc = "check"
      BY <3>1 DEF Idle
    <3>3. Goes(worker[w], r)
      BY <3>2 DEF Goes, Engaged, Clean
    <3> QED BY <2>2, <3>1, <3>3 DEF MaintenanceFails
  <2>3. CASE \/ BeginMaintenance(w) \/ EndMaintenance(w) \/ SkipMaintenance(w)
             \/ (CheckPaused(w) /\ ~paused) \/ Send(w) \/ PauseProvider(w)
    <3>1. PICK pc : /\ worker' = [worker EXCEPT ![w].pc = pc]
                    /\ \/ pc \in {"reclaim", "check", "claim"}
                       \/ pc = "await" /\ worker[w].pc = "send"
                       \/ pc = "finalize" /\ worker[w].pc = "pause"
      BY <2>3 DEF BeginMaintenance, EndMaintenance, SkipMaintenance, CheckPaused, Send,
                  PauseProvider
    <3>2. PICK r : r = [worker[w] EXCEPT !.pc = pc]
      OBVIOUS
    <3>3. /\ r.pc = pc /\ r.on = worker[w].on /\ r.served = worker[w].served
          /\ r.verdict = worker[w].verdict
      BY <1>1, <3>2 DEF WorkerState
    <3>4. Goes(worker[w], r)
      BY <3>1, <3>3 DEF Goes, Engaged, Clean
    <3> QED BY <3>1, <3>2, <3>4
  <2>4. CASE ConfigError(w) \/ ReceiveSuccess(w) \/ ReceiveRefusal(w)
    <3>1. PICK pc, verdict :
            /\ worker' = [worker EXCEPT ![w].pc = pc, ![w].verdict = verdict]
            /\ pc \in {"pause", "finalize"} /\ worker[w].pc \in {"send", "await"}
            /\ Clean(worker[w]) \/ verdict = "success"
      BY <2>4 DEF ConfigError, ReceiveSuccess, ReceiveRefusal, Clean
    <3>2. PICK r : r = [worker[w] EXCEPT !.pc = pc, !.verdict = verdict]
      OBVIOUS
    <3>3. r.pc = pc /\ r.on = worker[w].on /\ r.verdict = verdict
      BY <1>1, <3>2 DEF WorkerState
    <3>4. Goes(worker[w], r)
      BY <3>1, <3>3 DEF Goes, Engaged, Clean
    <3> QED BY <3>1, <3>2, <3>4
  <2>5. CASE FindMissing(w)
    <3>1. PICK todo : worker' = [worker EXCEPT ![w].pc = "recovering", ![w].todo = todo]
      BY <2>5 DEF FindMissing
    <3>2. PICK r : r = [worker[w] EXCEPT !.pc = "recovering", !.todo = todo]
      OBVIOUS
    <3>3. r.pc = "recovering"
      BY <1>1, <3>2 DEF WorkerState
    <3>4. Goes(worker[w], r)
      BY <3>3 DEF Goes, Engaged, Clean
    <3> QED BY <3>1, <3>2, <3>4
  <2> QED BY <2>1, <2>2, <2>3, <2>4, <2>5
<1>3. \A v \in Workers : Goes(worker[v], worker'[v])
  BY <1>2, OneGoes
<1>4. UNCHANGED <<job, late, delivered>>
  BY DEF BeginMaintenance, FindMissing, EndMaintenance, MaintenanceFails, SkipMaintenance,
         CheckPaused, NothingToClaim, Send, ConfigError, ReceiveSuccess, ReceiveRefusal,
         PauseProvider, FinalizeStale, FinalizeError
<1> QED BY <1>3, <1>4, NullRows, OnceKept

LEMMA MaintenanceOnce ==
  ASSUME TypeOK, AllOnce, NEW w \in Workers,
         \/ Reclaim(w) \/ ExpireExhausted(w) \/ ExpireUnreplayable(w)
         \/ \E o \in Orders : RecoverOne(w, o)
  PROVE  AllOnce'
<1> USE DEF At, Goto, upstreamVars
<1>1. worker[w] \in WorkerState /\ worker \in [Workers -> WorkerState]
  BY DEF TypeOK
<1>2. \E r : Goes(worker[w], r) /\ worker' = [worker EXCEPT ![w] = r]
  <2>1. CASE Reclaim(w) \/ ExpireExhausted(w) \/ ExpireUnreplayable(w)
    <3>1. PICK pc \in {"exhaust", "unreplayable", "recover"} :
            worker' = [worker EXCEPT ![w].pc = pc]
      BY <2>1 DEF Reclaim, ExpireExhausted, ExpireUnreplayable
    <3>2. PICK r : r = [worker[w] EXCEPT !.pc = pc]
      OBVIOUS
    <3>3. r.pc = pc
      BY <1>1, <3>2 DEF WorkerState
    <3>4. Goes(worker[w], r)
      BY <3>1, <3>3 DEF Goes, Engaged, Clean
    <3> QED BY <3>1, <3>2, <3>4
  <2>2. CASE \E o \in Orders : RecoverOne(w, o)
    <3>1. PICK o \in Orders : RecoverOne(w, o)
      BY <2>2
    <3>2. PICK r : r = [worker[w] EXCEPT !.todo = @ \ {o}]
      OBVIOUS
    <3>3. r.pc = "recovering"
      BY <1>1, <3>1, <3>2 DEF WorkerState, RecoverOne
    <3>4. Goes(worker[w], r)
      BY <3>3 DEF Goes, Engaged, Clean
    <3> QED BY <3>1, <3>2, <3>4 DEF RecoverOne
  <2> QED BY <2>1, <2>2
<1>3. \A v \in Workers : Goes(worker[v], worker'[v])
  BY <1>2, OneGoes
<1>4. UNCHANGED <<late, delivered>>
  BY DEF Reclaim, ExpireExhausted, ExpireUnreplayable, RecoverOne
<1>5. \A o \in Orders : RowKept(job[o], job'[o])
  <2>1. CASE Reclaim(w) \/ ExpireExhausted(w) \/ ExpireUnreplayable(w)
    BY <2>1, NullRows, RowsKept DEF Reclaim, ExpireExhausted, ExpireUnreplayable
  <2>2. ASSUME NEW q \in Orders, RecoverOne(w, q)
        PROVE  \A o \in Orders : RowKept(job[o], job'[o])
    <3>1. \A o \in Orders : job'[o] = IF o = q THEN Created(job[o]) ELSE job[o]
      BY <2>2 DEF RecoverOne, TypeOK
    <3> QED BY <3>1, NullRows, RowsKept
  <2> QED BY <2>1, <2>2
<1> QED BY <1>3, <1>4, <1>5, OnceKept

(* The database is written by others than the threads. *)
LEMMA RowOnce ==
  ASSUME TypeOK, AllOnce, NEW o \in Orders,
         \/ Dispatch(o) \/ \E reset \in BOOLEAN : ResetForRetry(o, reset)
         \/ \E conclusion \in {"completed", "failed"} : Reconcile(o, conclusion)
         \/ RefundCoin(o) \/ Time(o)
  PROVE  AllOnce'
<1> USE DEF upstreamVars
<1>1. UNCHANGED <<worker, late, delivered>>
  BY DEF Dispatch, ResetForRetry, Reconcile, RefundCoin, Time, LeaseExpires,
         ReplayWindowCloses, BackoffElapses
<1>2. \A w \in Workers : Goes(worker[w], worker'[w])
  BY <1>1, CleanEngaged
<1>3. job[o] \in JobRow /\ job[o].replay = "null"
  BY NullRows
<1>4. ASSUME UNCHANGED job
      PROVE  AllOnce'
  BY <1>1, <1>2, <1>4, NullRows, OnceKept
<1>5. ASSUME NEW row, RowKept(job[o], row), job' = [job EXCEPT ![o] = row]
      PROVE  AllOnce'
  BY <1>1, <1>2, <1>5, OneRowKept
<1>6. CASE Dispatch(o)
  BY <1>3, <1>5, <1>6, RowsKept DEF Dispatch
<1>7. CASE \E reset \in BOOLEAN : ResetForRetry(o, reset)
  BY <1>3, <1>5, <1>7, ReopenedKept DEF ResetForRetry
<1>8. CASE \E conclusion \in {"completed", "failed"} : Reconcile(o, conclusion)
  <2>1. PICK result \in {"succeeded", "failed"} :
          job' = [job EXCEPT ![o] = Concluded(job[o], result, result)]
    BY <1>8 DEF Reconcile
  <2>2. RowKept(job[o], Concluded(job[o], result, result))
    BY <1>3, ConcludedKept
  <2> QED BY <1>5, <2>1, <2>2
<1>9. CASE RefundCoin(o)
  <2>1. RowKept(job[o], [Released(job[o]) EXCEPT !.status = "cancelled"])
    BY <1>3 DEF RowKept, Sendable, Released, JobRow
  <2> QED BY <1>4, <1>5, <1>9, <2>1 DEF RefundCoin
<1>10. CASE Time(o)
  <2>1. ~ReplayWindowCloses(o)
    BY <1>3 DEF ReplayWindowCloses
  <2>2. /\ RowKept(job[o], [job[o] EXCEPT !.leaseOver = TRUE])
        /\ RowKept(job[o], [job[o] EXCEPT !.due = TRUE])
    BY <1>3 DEF RowKept, Sendable, JobRow
  <2> QED BY <1>5, <1>10, <2>1, <2>2 DEF Time, LeaseExpires, BackoffElapses
<1> QED BY <1>6, <1>7, <1>8, <1>9, <1>10

(* A verdict is written.  A refusal makes the row sendable; the thread that *)
(* brings it was alone on the order, and goes.                              *)
LEMMA FinalizeOnce ==
  ASSUME TypeOK, AllOnce, OnOrder, NEW w \in Workers,
         \/ FinalizeSuccess(w) \/ FinalizeFailure(w)
         \/ FinalizeReconcile(w) \/ FinalizeRetry(w)
  PROVE  AllOnce'
<1>0. PICK o \in Orders : o = worker[w].on
  BY DEF FinalizeSuccess, FinalizeFailure, FinalizeReconcile, FinalizeRetry, Finalizes,
         At, OnOrder
<1>1. worker[w].pc = "finalize" /\ o \in Orders /\ UNCHANGED <<late, delivered>>
  BY <1>0 DEF FinalizeSuccess, FinalizeFailure, FinalizeReconcile, FinalizeRetry, Finalizes,
         At, OnOrder, upstreamVars
<1>2. worker' = [worker EXCEPT ![w] = Idle] /\ worker \in [Workers -> WorkerState]
  BY <1>0 DEF FinalizeSuccess, FinalizeFailure, FinalizeReconcile, FinalizeRetry, Finalizes,
         Rest, TypeOK
<1>3. \A v \in Workers : Goes(worker[v], worker'[v])
  BY <1>0, <1>2, CleanEngaged, OneGoes
<1>4. job[o] \in JobRow /\ job[o].replay = "null"
  BY <1>0, <1>1, NullRows
<1>5. ASSUME NEW row, RowKept(job[o], row), job' = [job EXCEPT ![o] = row]
      PROVE  AllOnce'
  <2> QED BY <1>0, <1>1, <1>3, <1>5, OneRowKept
<1>6. ASSUME worker[w].verdict \in {"refused", "failed"}, NEW row, row.replay = "null",
             job' = [job EXCEPT ![o] = row]
      PROVE  AllOnce'
  <2>1. Untouched(o) /\ Engaged(worker[w])
    BY <1>0, <1>1, <1>6 DEF AllOnce, Once, Clean, Engaged
  <2>2. \A v \in Workers \ {w} : Engaged(worker[v]) => worker[v].on # o
    BY <1>0, <1>1, <2>1 DEF AllOnce, Once
  <2>3. \A v \in Workers : /\ Engaged(worker'[v]) => v # w /\ worker'[v] = worker[v]
                           /\ Clean(worker'[v]) => v # w /\ worker'[v] = worker[v]
    BY <1>0, <1>2, CleanEngaged
  <2>4. Once(o)'
    <3>1. Untouched(o)' /\ delivered'[o] + late'[o] <= 1
      BY <1>0, <1>1, <2>1 DEF Untouched
    <3>2. \A v \in Workers : Engaged(worker'[v]) => worker'[v].on # o
      BY <1>0, <2>2, <2>3
    <3>3. job'[o] = row
      BY <1>0, <1>1, <1>6 DEF TypeOK
    <3> QED BY <1>0, <1>6, <3>1, <3>2, <3>3 DEF Once
  <2>5. ASSUME NEW q \in Orders \ {o}
        PROVE  Once(q)'
    <3>1. job'[q] = job[q] /\ (Untouched(q)' <=> Untouched(q))
      BY <1>0, <1>1, <1>6 DEF TypeOK, Untouched
    <3>2. delivered'[q] + late'[q] = delivered[q] + late[q]
      BY <1>0, <1>1
    <3> QED BY <1>0, <2>3, <3>1, <3>2 DEF AllOnce, Once
  <2> QED BY <1>0, <2>4, <2>5 DEF AllOnce
<1>7. CASE FinalizeSuccess(w)
  <2>1. PICK status : job' = [job EXCEPT ![o] = Concluded(job[o], status, "succeeded")]
    BY <1>0, <1>7 DEF FinalizeSuccess
  <2>2. RowKept(job[o], Concluded(job[o], status, "succeeded"))
    BY <1>0, <1>4, ConcludedKept
  <2> QED BY <1>0, <1>5, <2>1, <2>2
<1>8. CASE FinalizeRetry(w)
  <2>1. job' = [job EXCEPT ![o] =
                  [Concluded(job[o], "pending", "sent_unclear") EXCEPT !.due = FALSE]]
    BY <1>0, <1>8 DEF FinalizeRetry
  <2>2. RowKept(job[o], [Concluded(job[o], "pending", "sent_unclear") EXCEPT !.due = FALSE])
    BY <1>0, <1>4, ConcludedKept
  <2> QED BY <1>0, <1>5, <2>1, <2>2
<1>9. CASE FinalizeFailure(w)
  <2>1. /\ worker[w].verdict = "failed"
        /\ job' = [job EXCEPT ![o] = Concluded(job[o], "failed", "rejected")]
    BY <1>0, <1>9 DEF FinalizeFailure, Finalizes
  <2>2. Concluded(job[o], "failed", "rejected").replay = "null"
    BY <1>0, <1>4, ConcludedKept
  <2> QED BY <1>0, <1>6, <2>1, <2>2
<1>10. CASE FinalizeReconcile(w)
  <2>1. \/ /\ worker[w].verdict = "refused"
           /\ job' = [job EXCEPT ![o] =
                        Concluded(job[o], "awaiting_reconciliation", "rejected")]
        \/ job' = [job EXCEPT ![o] =
                     Concluded(job[o], "awaiting_reconciliation", "sent_unclear")]
    BY <1>0, <1>10 DEF FinalizeReconcile, Finalizes
  <2>2. /\ Concluded(job[o], "awaiting_reconciliation", "rejected").replay = "null"
        /\ RowKept(job[o], Concluded(job[o], "awaiting_reconciliation", "sent_unclear"))
    BY <1>0, <1>4, ConcludedKept
  <2> QED BY <1>0, <1>5, <1>6, <2>1, <2>2
<1> QED BY <1>0, <1>7, <1>8, <1>9, <1>10

(* A row that is claimed is one that nobody has anything to do with. *)
LEMMA ClaimOnce ==
  ASSUME WindowSettings \subseteq {FALSE}, TypeOK, AllOnce,
         NEW w \in Workers, NEW o \in Orders, Claim(w, o)
  PROVE  AllOnce'
<1>1. /\ Sendable(job[o]) /\ job[o] \in JobRow /\ job[o].replay = "null"
  BY NullRows DEF Claim, Runnable, SafeToSend, Sendable
<1>2. Untouched(o) /\ \A v \in Workers : Engaged(worker[v]) => worker[v].on # o
  BY <1>1 DEF AllOnce, Once
<1>3. PICK row : row = Claimed(job[o], w, FALSE)
  OBVIOUS
<1>4. row.replay = "null" /\ ~Sendable(row)
  BY <1>1, <1>3 DEF Claimed, JobRow, Sendable
<1>5. job' = [job EXCEPT ![o] = row]
  BY <1>3 DEF Claim
<1>6. PICK r : r = [worker[w] EXCEPT !.pc = "send", !.on = o]
  OBVIOUS
<1>7. /\ worker' = [worker EXCEPT ![w] = r] /\ UNCHANGED <<late, delivered>>
      /\ r.pc = "send" /\ r.on = o
  <2>1. worker[w] \in WorkerState
    BY DEF TypeOK
  <2>2. r.pc = "send" /\ r.on = o
    BY <1>6, <2>1 DEF WorkerState
  <2>3. worker' = [worker EXCEPT ![w] = r] /\ UNCHANGED <<late, delivered>>
    BY <1>6 DEF Claim, upstreamVars
  <2> QED BY <2>2, <2>3
<1>8. /\ job'[o] = row /\ \A q \in Orders \ {o} : job'[q] = job[q]
      /\ worker'[w] = r /\ \A v \in Workers \ {w} : worker'[v] = worker[v]
  BY <1>5, <1>7 DEF TypeOK
<1>9. \A q \in Orders : /\ Untouched(q)' <=> Untouched(q)
                        /\ delivered'[q] + late'[q] = delivered[q] + late[q]
  BY <1>7 DEF Untouched
<1>10. \A v \in Workers : Clean(worker'[v]) => Engaged(worker'[v])
  BY CleanEngaged
<1>11. Once(o)'
  BY <1>2, <1>4, <1>7, <1>8, <1>9, <1>10 DEF AllOnce, Once
<1>12. ASSUME NEW q \in Orders \ {o}
       PROVE  Once(q)'
  BY <1>7, <1>8, <1>9 DEF AllOnce, Once
<1> QED BY <1>11, <1>12 DEF AllOnce

(* The provider executes a request that a thread waits for. *)
LEMMA ServeOnce ==
  ASSUME TypeOK, AllOnce, OnOrder, NEW w \in Workers, Serve(w)
  PROVE  AllOnce'
<1>0. PICK o \in Orders : o = worker[w].on
  BY DEF Serve, At, OnOrder
<1>1. /\ worker[w].pc = "await" /\ ~worker[w].served /\ o \in Orders
      /\ UNCHANGED <<job, late>> /\ Executes(o)
  BY <1>0 DEF Serve, At, OnOrder, dbVars
<1>2. PICK r : r = [worker[w] EXCEPT !.served = TRUE]
  OBVIOUS
<1>3. /\ r.pc = "await" /\ r.served = TRUE /\ r.on = o
      /\ worker' = [worker EXCEPT ![w] = r]
  BY <1>0, <1>1, <1>2 DEF Serve, TypeOK, WorkerState
<1>4. worker'[w] = r /\ \A v \in Workers \ {w} : worker'[v] = worker[v]
  BY <1>0, <1>3 DEF TypeOK
<1>5. /\ Clean(worker[w]) /\ Engaged(worker[w]) /\ Engaged(r) /\ ~Clean(r)
  BY <1>0, <1>1, <1>3 DEF Clean, Engaged
<1>6. delivered[o] = 0 /\ late[o] = 0
  BY <1>0, <1>1, <1>5 DEF AllOnce, Once, Untouched
<1>7. delivered' = [delivered EXCEPT ![o] = @ + 1]
  BY <1>0, <1>1, <1>6 DEF Executes
<1>8. /\ delivered'[o] = 1 /\ late'[o] = 0
      /\ \A q \in Orders \ {o} : delivered'[q] = delivered[q] /\ late'[q] = late[q]
  BY <1>0, <1>1, <1>6, <1>7 DEF TypeOK
<1>9. \A v \in Workers : Clean(worker[v]) => Engaged(worker[v])
  BY <1>0, CleanEngaged
<1>10. Once(o)'
  BY <1>0, <1>1, <1>3, <1>4, <1>5, <1>8, <1>9 DEF AllOnce, Once
<1>11. ASSUME NEW q \in Orders \ {o}
       PROVE  Once(q)'
  <2>1. Untouched(q)' <=> Untouched(q)
    BY <1>0, <1>8 DEF Untouched
  <2> QED BY <1>0, <1>1, <1>3, <1>4, <1>5, <1>8, <2>1 DEF AllOnce, Once
<1> QED BY <1>0, <1>10, <1>11 DEF AllOnce

(* A thread gives up; its request may still be under way. *)
LEMMA ReceiveUnclearOnce ==
  ASSUME TypeOK, AllOnce, OnOrder, NEW w \in Workers, ReceiveUnclear(w)
  PROVE  AllOnce'
<1>0. PICK o \in Orders : o = worker[w].on
  BY DEF ReceiveUnclear, At, OnOrder
<1>1. worker[w].pc = "await" /\ o \in Orders /\ UNCHANGED <<job, delivered>>
  BY <1>0 DEF ReceiveUnclear, At, OnOrder, dbVars
<1>2. PICK verdict \in {"retry", "unclear"} : Concludes(w, "finalize", verdict)
  BY <1>0 DEF ReceiveUnclear
<1>3. PICK r : r = [worker[w] EXCEPT !.pc = "finalize", !.verdict = verdict]
  OBVIOUS
<1>4. /\ r.pc = "finalize" /\ r.verdict = verdict /\ r.on = o
      /\ worker' = [worker EXCEPT ![w] = r]
  BY <1>0, <1>2, <1>3 DEF Concludes, TypeOK, WorkerState
<1>5. worker'[w] = r /\ \A v \in Workers \ {w} : worker'[v] = worker[v]
  BY <1>0, <1>4 DEF TypeOK
<1>6. Engaged(worker[w]) /\ Engaged(r) /\ ~Clean(r)
  BY <1>0, <1>1, <1>2, <1>4 DEF Clean, Engaged
<1>7. CASE UNCHANGED late
  <2>1. \A v \in Workers : Goes(worker[v], worker'[v])
    <3>1. Goes(worker[w], r)
      BY <1>0, <1>4, <1>6 DEF Goes
    <3> QED BY <1>0, <1>4, <3>1, OneGoes
  <2> QED BY <1>0, <1>1, <1>7, <2>1, NullRows, OnceKept
<1>8. CASE ~worker[w].served /\ late' = [late EXCEPT ![o] = @ + 1]
  <2>1. delivered[o] = 0 /\ late[o] = 0
    BY <1>0, <1>1, <1>8 DEF AllOnce, Once, Untouched, Clean
  <2>2. /\ delivered'[o] = 0 /\ late'[o] = 1
        /\ \A q \in Orders \ {o} : delivered'[q] = delivered[q] /\ late'[q] = late[q]
    BY <1>0, <1>1, <1>8, <2>1 DEF TypeOK
  <2>3. \A v \in Workers : Clean(worker[v]) => Engaged(worker[v])
    BY <1>0, CleanEngaged
  <2>4. Once(o)'
    BY <1>0, <1>1, <1>4, <1>5, <1>6, <2>2, <2>3 DEF AllOnce, Once
  <2>5. ASSUME NEW q \in Orders \ {o}
        PROVE  Once(q)'
    <3>1. Untouched(q)' <=> Untouched(q)
      BY <1>0, <2>2 DEF Untouched
    <3> QED BY <1>0, <1>1, <1>4, <1>5, <1>6, <2>2, <3>1 DEF AllOnce, Once
  <2> QED BY <1>0, <2>4, <2>5 DEF AllOnce
<1> QED BY <1>0, <1>7, <1>8 DEF ReceiveUnclear

(* An abandoned request arrives, or does not. *)
LEMMA LateOnce ==
  ASSUME TypeOK, AllOnce, NEW o \in Orders, LateServe(o) \/ LateLost(o)
  PROVE  AllOnce'
<1>1. UNCHANGED <<job, worker>> /\ late[o] > 0 /\ delivered[o] \in Nat /\ late[o] \in Nat
  BY NullRows DEF LateServe, LateLost, dbVars
<1>2. late' = [late EXCEPT ![o] = @ - 1]
  BY DEF LateServe, LateLost
<1>3. \/ UNCHANGED delivered
      \/ delivered' = [delivered EXCEPT ![o] = @ + 1]
  BY DEF LateServe, LateLost, Executes
<1>4. /\ late'[o] = late[o] - 1 /\ delivered'[o] \in {delivered[o], delivered[o] + 1}
      /\ \A q \in Orders \ {o} : delivered'[q] = delivered[q] /\ late'[q] = late[q]
  BY <1>1, <1>2, <1>3 DEF TypeOK
<1>5. ~Untouched(o) /\ delivered'[o] + late'[o] <= delivered[o] + late[o]
  BY <1>1, <1>4 DEF Untouched
<1>6. Once(o)'
  <2>1. delivered[o] + late[o] <= 1
    BY DEF AllOnce, Once
  <2>2. delivered'[o] + late'[o] <= 1
    BY <1>1, <1>4, <1>5, <2>1
  <2> QED BY <1>1, <1>5, <2>2 DEF AllOnce, Once
<1>7. ASSUME NEW q \in Orders \ {o}
      PROVE  Once(q)'
  <2>1. Untouched(q)' <=> Untouched(q)
    BY <1>4 DEF Untouched
  <2> QED BY <1>1, <1>4, <2>1 DEF AllOnce, Once
<1> QED BY <1>6, <1>7 DEF AllOnce

(* The process restarts: what its threads waited for may still arrive. *)
LEMMA RestartOnce ==
  ASSUME TypeOK, AllOnce, Restart
  PROVE  AllOnce'
<1> SUFFICES ASSUME NEW o \in Orders
             PROVE  Once(o)'
  BY DEF AllOnce
<1>1. /\ UNCHANGED delivered
      /\ \A w \in Workers : ~Engaged(worker'[w]) /\ ~Clean(worker'[w])
  BY CleanEngaged DEF Restart
<1>2. PICK lingering \in SUBSET {w \in Workers : At(w, "await") /\ ~worker[w].served} :
        late' = [q \in Orders |->
                   late[q] + Cardinality({w \in lingering : worker[w].on = q})]
  BY DEF Restart
<1>3. PICK out : out = {w \in lingering : worker[w].on = o}
  OBVIOUS
<1>4. late'[o] = late[o] + Cardinality(out)
  BY <1>2, <1>3
<1>5. \A w \in out : /\ w \in Workers /\ worker[w].on = o
                     /\ Engaged(worker[w]) /\ Clean(worker[w])
  BY <1>2, <1>3 DEF At, Engaged, Clean
<1>6. Once(o) /\ delivered[o] \in Nat /\ late[o] \in Nat
  BY NullRows DEF AllOnce
<1>7. job[o] \in JobRow /\ job'[o] = [job[o] EXCEPT !.owner = None]
  BY DEF Restart, TypeOK
<1>8. job'[o].replay = "null" /\ (Sendable(job'[o]) => Sendable(job[o]))
  BY <1>6, <1>7 DEF JobRow, Sendable, Once
<1>9. CASE out = {}
  <2>1. late'[o] = late[o]
    BY <1>4, <1>6, <1>9, FS_EmptySet
  <2>2. Untouched(o)' <=> Untouched(o)
    BY <1>1, <2>1 DEF Untouched
  <2> QED BY <1>1, <1>6, <1>8, <2>1, <2>2 DEF Once
<1>10. CASE out # {}
  <2>1. PICK w : w \in out
    BY <1>10
  <2>2. out = {w}
    BY <1>5, <1>6, <2>1 DEF Once
  <2>3. Cardinality({w}) = 1
    BY FS_Singleton
  <2>4. delivered[o] = 0 /\ late[o] = 0 /\ ~Sendable(job[o])
    BY <1>5, <1>6, <2>1 DEF Once, Untouched
  <2>5. delivered'[o] + late'[o] = 1
    BY <1>1, <1>4, <2>2, <2>3, <2>4
  <2> QED BY <1>1, <1>8, <2>4, <2>5 DEF Once
<1> QED BY <1>9, <1>10

LEMMA InitOnce == Init => AllOnce
<1> SUFFICES ASSUME Init, NEW o \in Orders
             PROVE  Once(o)
  BY DEF AllOnce
<1>1. /\ delivered[o] = 0 /\ late[o] = 0 /\ job[o].replay = "null"
      /\ \A w \in Workers : ~Engaged(worker[w]) /\ ~Clean(worker[w])
  BY CleanEngaged DEF Init, NoRow
<1> QED BY <1>1 DEF Once, Untouched

LEMMA OnceStep ==
  ASSUME WindowSettings \subseteq {FALSE}, IInv, AllOnce, [Next]_vars
  PROVE  AllOnce'
<1>1. TypeOK /\ OnOrder
  BY DEF IInv
<1>2. ASSUME UNCHANGED <<job, worker, late, delivered>>
      PROVE  AllOnce'
  <2>1. \A w \in Workers : Goes(worker[w], worker'[w])
    BY <1>2, CleanEngaged
  <2> QED BY <1>1, <1>2, <2>1, NullRows, OnceKept
<1>3. CASE UNCHANGED vars
  BY <1>2, <1>3 DEF vars
<1>4. ASSUME NEW w \in Workers, Thread(w)
      PROVE  AllOnce'
  <2>1. CASE \/ BeginMaintenance(w) \/ FindMissing(w) \/ EndMaintenance(w)
             \/ MaintenanceFails(w) \/ SkipMaintenance(w) \/ CheckPaused(w)
             \/ NothingToClaim(w) \/ Send(w) \/ ConfigError(w)
             \/ ReceiveSuccess(w) \/ ReceiveRefusal(w)
             \/ PauseProvider(w) \/ FinalizeStale(w) \/ FinalizeError(w)
    BY <1>1, <2>1, QuietThreadsOnce
  <2>2. CASE \/ Reclaim(w) \/ ExpireExhausted(w) \/ ExpireUnreplayable(w)
             \/ \E o \in Orders : RecoverOne(w, o)
    BY <1>1, <2>2, MaintenanceOnce
  <2>3. CASE \/ FinalizeSuccess(w) \/ FinalizeFailure(w)
             \/ FinalizeReconcile(w) \/ FinalizeRetry(w)
    BY <1>1, <2>3, FinalizeOnce
  <2>4. CASE \E o \in Orders : Claim(w, o)
    BY <1>1, <2>4, ClaimOnce
  <2>5. CASE Serve(w)
    BY <1>1, <2>5, ServeOnce
  <2>6. CASE ReceiveUnclear(w)
    BY <1>1, <2>6, ReceiveUnclearOnce
  <2> QED BY <1>4, <2>1, <2>2, <2>3, <2>4, <2>5, <2>6
          DEF Thread, Maintenance, Tick, Finalize
<1>5. ASSUME NEW o \in Orders,
             \/ Sale(o) \/ Dispatch(o) \/ DispatchFails(o) \/ Admin(o)
             \/ Time(o) \/ LateServe(o) \/ LateLost(o)
      PROVE  AllOnce'
  <2>1. CASE \/ Sale(o) \/ DispatchFails(o)
             \/ RetryRequested(o) \/ RetryRefused(o) \/ RefundManual(o)
    <3>1. UNCHANGED <<job, worker, late, delivered>>
      BY <2>1 DEF Sale, PlaceCoinOrder, PlaceQrOrder, PaymentConfirmed,
                  SupersededConfirmed, PaymentLapses, PaymentRenewed,
                  DispatchFails, RetryRequested, RetryRefused, RefundManual,
                  dbVars, upstreamVars
    <3> QED BY <1>2, <3>1
  <2>2. CASE \/ Dispatch(o) \/ \E reset \in BOOLEAN : ResetForRetry(o, reset)
             \/ \E conclusion \in {"completed", "failed"} : Reconcile(o, conclusion)
             \/ RefundCoin(o) \/ Time(o)
    BY <1>1, <2>2, RowOnce
  <2>3. CASE LateServe(o) \/ LateLost(o)
    BY <1>1, <2>3, LateOnce
  <2> QED BY <1>5, <2>1, <2>2, <2>3 DEF Admin
<1>6. ASSUME NEW flag \in BOOLEAN, SetPaused(flag)
      PROVE  AllOnce'
  BY <1>2, <1>6 DEF SetPaused, upstreamVars
<1>7. CASE Restart
  BY <1>1, <1>7, RestartOnce
<1> QED BY <1>3, <1>4, <1>5, <1>6, <1>7 DEF Next

LEMMA OnceInvariance ==
  ASSUME WindowSettings \subseteq {FALSE}
  PROVE  Spec => [](TypeOK /\ AllOnce)
<1>1. Init => IInv /\ AllOnce
  BY InitInvariant, InitOnce
<1>2. IInv /\ AllOnce /\ [Next]_vars => AllOnce'
  BY OnceStep
<1>3. IInv => TypeOK
  BY DEF IInv
<1> QED BY <1>1, <1>2, <1>3, Invariance, PTL DEF Spec

(* What is out at the provider: nothing, or one request that has yet to be  *)
(* executed, on an order for which nothing has been.                        *)
LEMMA InFlightOnce ==
  ASSUME TypeOK, AllOnce, NEW o \in Orders
  PROVE  /\ delivered[o] \in Nat /\ InFlight(o) \in Nat
         /\ delivered[o] + InFlight(o) <= 1
         /\ Sendable(job[o]) => delivered[o] = 0 /\ InFlight(o) = 0
<1>1. PICK out : out = {w \in Workers : /\ At(w, "await")
                                        /\ worker[w].on = o
                                        /\ ~worker[w].served}
  OBVIOUS
<1>2. InFlight(o) = late[o] + Cardinality(out)
  BY <1>1 DEF InFlight
<1>3. \A w \in out : /\ w \in Workers /\ worker[w].on = o
                     /\ Engaged(worker[w]) /\ Clean(worker[w])
  BY <1>1 DEF At, Engaged, Clean
<1>4. Once(o) /\ delivered[o] \in Nat /\ late[o] \in Nat
  BY NullRows DEF AllOnce
<1>5. CASE out = {}
  <2>1. Cardinality(out) = 0
    BY <1>5, FS_EmptySet
  <2> QED BY <1>2, <1>4, <2>1 DEF Once, Untouched
<1>6. CASE out # {}
  <2>1. PICK w : w \in out
    BY <1>6
  <2>2. out = {w}
    BY <1>3, <1>4, <2>1 DEF Once
  <2>3. Cardinality(out) = 1
    BY <2>2, FS_Singleton
  <2>4. delivered[o] = 0 /\ late[o] = 0 /\ ~Sendable(job[o])
    BY <1>3, <1>4, <2>1 DEF Once, Untouched
  <2> QED BY <1>2, <2>3, <2>4
<1> QED BY <1>5, <1>6

(* While no replay window is confirmed, an order never has two requests out *)
(* and is never activated twice, whatever leases run out, threads die,      *)
(* answers get lost and admins retry.                                       *)
THEOREM NeverSentTwice ==
  ASSUME WindowSettings \subseteq {FALSE}
  PROVE  Spec => []SentOnceAtATime
<1>1. TypeOK /\ AllOnce => SentOnceAtATime
  BY InFlightOnce DEF SentOnceAtATime
<1> QED BY <1>1, OnceInvariance, PTL

(* While no replay window is confirmed, a job that shows as rejected, which *)
(* is what opens it to another send and its order to a refund, was never    *)
(* executed and has nothing under way.                                      *)
THEOREM RejectionIsTrue ==
  ASSUME WindowSettings \subseteq {FALSE}
  PROVE  Spec => []RejectedMeansUntouched
<1>1. TypeOK /\ AllOnce => RejectedMeansUntouched
  BY InFlightOnce DEF RejectedMeansUntouched, Sendable
<1> QED BY <1>1, OnceInvariance, PTL

-----------------------------------------------------------------------------
(* The outbox keeps the promise of ActivationPromise, for every value of    *)
(* the constants.  A step of the outbox either leaves what an order amounts *)
(* to and what is known of it alone, or it is one step of the promise; the  *)
(* invariant IInv is what rules every other step out.                       *)

Evidence(row) == row.outcome = "succeeded"

(* What the promise allows to become of one order. *)
Allowed(from, known, to, knownThen) ==
  \/ from = to /\ known = knownThen
  \/ from = "unpaid" /\ to = "open" /\ known = knownThen
  \/ from \in {"open", "failed"} /\ to = "delivered" /\ knownThen
  \/ from = "open" /\ ~known /\ to = "failed" /\ ~knownThen
  \/ from = "failed" /\ to = "open" /\ known = knownThen
  \/ from \in {"unpaid", "open", "failed"} /\ ~known /\ to = "returned" /\ ~knownThen
  \/ from = "returned" /\ to = "returned" /\ knownThen

phase == [o \in Orders |-> Phase(order[o], o \in funded)]
evidence == [o \in Orders |-> job[o].outcome = "succeeded"]

(* A step that concerns one order, and treats it as the promise allows. *)
LEMMA PromiseMove ==
  ASSUME order \in [Orders -> OrderStatus \cup {"none"}],
         job \in [Orders -> JobRow],
         NEW o \in Orders, NEW status, NEW row,
         order' = [order EXCEPT ![o] = status],
         job' = [job EXCEPT ![o] = row],
         NEW paid \in BOOLEAN, o \in funded' <=> paid,
         \A p \in Orders \ {o} : p \in funded' <=> p \in funded,
         Allowed(Phase(order[o], o \in funded), Evidence(job[o]),
                 Phase(status, paid), Evidence(row))
  PROVE  [Promise!Next]_(Promise!vars)
<1> DEFINE known == Evidence(job[o])
           knownThen == Evidence(row)
           from == Phase(order[o], o \in funded)
           to == Phase(status, paid)
<1>1. phase' = [phase EXCEPT ![o] = to]
  <2>1. ASSUME NEW p \in Orders \ {o}
        PROVE  Phase(order[p], p \in funded)' = Phase(order[p], p \in funded)
    BY <2>1 DEF Phase
  <2>2. Phase(order[o], o \in funded)' = to
    BY DEF Phase
  <2> HIDE DEF to
  <2> QED BY <2>1, <2>2 DEF phase
<1>2. evidence' = [evidence EXCEPT ![o] = knownThen]
  BY DEF evidence, Evidence
<1>3. phase[o] = from /\ evidence[o] = known
  BY DEF phase, evidence, Evidence
<1>4. (knownThen = known) => evidence' = evidence
  BY <1>2, <1>3 DEF evidence
<1>5. to = from => phase' = phase
  BY <1>1, <1>3 DEF phase
<1>6. known \in BOOLEAN /\ knownThen \in BOOLEAN
  BY DEF Evidence
<1>7. phase' = phase /\ evidence' = evidence => UNCHANGED Promise!vars
  BY DEF Promise!vars, phase, evidence
<1>8. /\ Promise!Sell(o) \/ Promise!Deliver(o) \/ Promise!Fail(o) => Promise!Next
      /\ Promise!Reopen(o) \/ Promise!Return(o) \/ Promise!LateEvidence(o) => Promise!Next
  BY DEF Promise!Next
<1>9. ASSUME NEW then, phase' = [phase EXCEPT ![o] = then]
      PROVE  Promise!Becomes(o, then)
  BY <1>9 DEF Promise!Becomes, phase
<1>10. CASE from = to /\ known = knownThen
  BY <1>4, <1>5, <1>7, <1>10
<1>11. CASE from = "unpaid" /\ to = "open" /\ known = knownThen
  <2>1. Promise!Sell(o)
    BY <1>1, <1>3, <1>4, <1>9, <1>11 DEF Promise!Sell, phase, evidence
  <2> QED BY <1>8, <2>1
<1>12. CASE /\ from \in {"open", "failed"}
            /\ to = "delivered" /\ knownThen
  <2>1. Promise!Deliver(o)
    BY <1>1, <1>2, <1>3, <1>9, <1>12 DEF Promise!Deliver, phase, evidence
  <2> QED BY <1>8, <2>1
<1>13. CASE /\ from = "open" /\ to = "failed"
            /\ ~known /\ ~knownThen
  <2>1. knownThen = known
    BY <1>6, <1>13
  <2>2. ~evidence[o]
    BY <1>3, <1>13
  <2>3. Promise!Fail(o)
    BY <1>1, <1>3, <1>4, <1>9, <1>13, <2>1, <2>2 DEF Promise!Fail, phase, evidence
  <2> QED BY <1>8, <2>3
<1>14. CASE from = "failed" /\ to = "open" /\ known = knownThen
  <2>1. Promise!Reopen(o)
    BY <1>1, <1>3, <1>4, <1>9, <1>14 DEF Promise!Reopen, phase, evidence
  <2> QED BY <1>8, <2>1
<1>15. CASE /\ from \in {"unpaid", "open", "failed"}
            /\ to = "returned" /\ ~known /\ ~knownThen
  <2>1. knownThen = known
    BY <1>6, <1>15
  <2>2. ~evidence[o]
    BY <1>3, <1>15
  <2>3. Promise!Return(o)
    BY <1>1, <1>3, <1>4, <1>9, <1>15, <2>1, <2>2 DEF Promise!Return, phase, evidence
  <2> QED BY <1>8, <2>3
<1>16. CASE /\ from = "returned" /\ to = "returned"
            /\ knownThen
  <2>1. Promise!LateEvidence(o)
    BY <1>2, <1>3, <1>5, <1>16 DEF Promise!LateEvidence, phase, evidence
  <2> QED BY <1>8, <2>1
<1> QED BY <1>10, <1>11, <1>12, <1>13, <1>14, <1>15, <1>16 DEF Allowed

(* A step that leaves the orders alone and adds or loses no evidence. *)
LEMMA PromiseStutter ==
  ASSUME order' = order, funded' = funded,
         \A o \in Orders : Evidence(job'[o]) <=> Evidence(job[o])
  PROVE  UNCHANGED Promise!vars
<1>1. phase' = phase
  BY DEF phase
<1>2. evidence' = evidence
  BY DEF evidence, Evidence
<1> QED BY <1>1, <1>2 DEF Promise!vars, phase, evidence

(* The helpers that leave the outcome of a row alone. *)
LEMMA OutcomeKept ==
  ASSUME NEW row \in JobRow
  PROVE  /\ Created(row).outcome = row.outcome
         /\ Reclaimed(row).outcome = row.outcome
         /\ Exhausted(row).outcome = row.outcome
         /\ Unreplayable(row).outcome = row.outcome
         /\ \A reset : Reopened(row, reset).outcome = row.outcome
         /\ [Released(row) EXCEPT !.status = "cancelled"].outcome = row.outcome
<1>1. Released(row) \in JobRow /\ Released(row).outcome = row.outcome
  BY RowsTyped DEF Released, JobRow
<1>2. Created(row).outcome = row.outcome
  BY DEF Created, JobRow
<1>3. /\ Reclaimed(row).outcome = row.outcome
      /\ Exhausted(row).outcome = row.outcome
      /\ Unreplayable(row).outcome = row.outcome
  BY <1>1 DEF Reclaimed, Exhausted, Unreplayable, JobRow
<1>4. \A reset : Reopened(row, reset).outcome = row.outcome
  BY <1>1 DEF Reopened, JobRow
<1>5. [Released(row) EXCEPT !.status = "cancelled"].outcome = row.outcome
  BY <1>1 DEF JobRow
<1> QED BY <1>2, <1>3, <1>4, <1>5

(* The steps the promise does not notice. *)
LEMMA QuietStep ==
  ASSUME IInv, [Next]_vars,
         \A o \in Orders : ~ \/ Sale(o) \/ Reconcile(o, "completed")
                              \/ Reconcile(o, "failed") \/ RefundCoin(o)
                              \/ RefundManual(o)
                              \/ \E reset \in BOOLEAN : ResetForRetry(o, reset),
         \A w \in Workers : ~(FinalizeSuccess(w) \/ FinalizeFailure(w))
  PROVE  UNCHANGED Promise!vars
<1> USE DEF dbVars, handlerVars, upstreamVars, At, Goto, Rest
<1>1. /\ order' = order /\ funded' = funded
      /\ job \in [Orders -> JobRow] /\ \A o \in Orders : job[o] \in JobRow
      /\ OnOrder
      /\ \A o \in Orders : Consistent(order[o], job[o], credits[o])
  BY OrderKept, FundedKept DEF IInv, TypeOK, Sale
<1>2. ASSUME job' = job
      PROVE  UNCHANGED Promise!vars
  BY <1>1, <1>2, PromiseStutter
<1>3. ASSUME NEW o \in Orders, NEW row, job' = [job EXCEPT ![o] = row],
             Evidence(row) <=> Evidence(job[o])
      PROVE  UNCHANGED Promise!vars
  <2>1. \A p \in Orders : Evidence(job'[p]) <=> Evidence(job[p])
    BY <1>1, <1>3
  <2> QED BY <1>1, <2>1, PromiseStutter
<1>4. ASSUME NEW o \in Orders, Dispatch(o) \/ \E w \in Workers : RecoverOne(w, o)
      PROVE  UNCHANGED Promise!vars
  <2>1. job' = [job EXCEPT ![o] = Created(job[o])]
    BY <1>4 DEF Dispatch, RecoverOne
  <2>2. Evidence(Created(job[o])) <=> Evidence(job[o])
    BY <1>1, OutcomeKept DEF Evidence
  <2> QED BY <1>3, <2>1, <2>2
<1>5. ASSUME NEW w \in Workers,
             Reclaim(w) \/ ExpireExhausted(w) \/ ExpireUnreplayable(w)
      PROVE  UNCHANGED Promise!vars
  <2>1. \A o \in Orders : job'[o].outcome = job[o].outcome
    BY <1>1, <1>5, OutcomeKept DEF Reclaim, ExpireExhausted, ExpireUnreplayable
  <2> QED BY <1>1, <2>1, PromiseStutter DEF Evidence
<1>6. ASSUME NEW w \in Workers, NEW o \in Orders, Claim(w, o)
      PROVE  UNCHANGED Promise!vars
  <2>1. PICK confirmed \in WindowSettings :
          job' = [job EXCEPT ![o] = Claimed(job[o], w, confirmed)]
    BY <1>6 DEF Claim
  <2>2. Claimed(job[o], w, confirmed).outcome = "sent_unclear"
    BY <1>1 DEF Claimed, JobRow
  <2>3. Evidence(Claimed(job[o], w, confirmed)) <=> Evidence(job[o])
    BY <1>6, <2>2 DEF Claim, Runnable, Evidence
  <2> QED BY <1>3, <2>1, <2>3
<1>7. ASSUME NEW w \in Workers, FinalizeReconcile(w) \/ FinalizeRetry(w)
      PROVE  UNCHANGED Promise!vars
  <2> DEFINE o == worker[w].on
  <2>1. o \in Orders /\ job[o].status = "leased"
    BY <1>1, <1>7 DEF OnOrder, FinalizeReconcile, FinalizeRetry, Finalizes, Leased
  <2>2. ~Evidence(job[o])
    BY <1>1, <2>1 DEF Consistent, Evidence
  <2> HIDE DEF o
  <2>3. CASE FinalizeReconcile(w)
    <3>1. PICK outcome \in {"rejected", "sent_unclear"} :
            job' = [job EXCEPT ![o] =
                      Concluded(job[o], "awaiting_reconciliation", outcome)]
      BY <2>3 DEF FinalizeReconcile, o
    <3>2. ~Evidence(Concluded(job[o], "awaiting_reconciliation", outcome))
      BY <1>1, <2>1, ConcludedRow DEF Evidence, JobStatus, Outcome
    <3> QED BY <1>3, <2>1, <2>2, <3>1, <3>2
  <2>4. CASE FinalizeRetry(w)
    <3> DEFINE row == [Concluded(job[o], "pending", "sent_unclear") EXCEPT !.due = FALSE]
    <3>1. job' = [job EXCEPT ![o] = row]
      BY <2>4 DEF FinalizeRetry, o
    <3>2. ~Evidence(row)
      BY <1>1, <2>1, DeferredRow DEF Evidence
    <3> HIDE DEF row
    <3> QED BY <1>3, <2>1, <2>2, <3>1, <3>2
  <2> QED BY <1>7, <2>3, <2>4
<1>8. ASSUME NEW o \in Orders, Time(o)
      PROVE  UNCHANGED Promise!vars
  <2>1. /\ [job[o] EXCEPT !.leaseOver = TRUE].outcome = job[o].outcome
        /\ [job[o] EXCEPT !.replay = "closed"].outcome = job[o].outcome
        /\ [job[o] EXCEPT !.due = TRUE].outcome = job[o].outcome
    BY <1>1 DEF JobRow
  <2>2. \E row : row.outcome = job[o].outcome /\ job' = [job EXCEPT ![o] = row]
    BY <1>8, <2>1 DEF Time, LeaseExpires, ReplayWindowCloses, BackoffElapses
  <2> QED BY <1>3, <2>2 DEF Evidence
<1>9. CASE Restart
  <2>1. \A o \in Orders : job'[o].outcome = job[o].outcome
    BY <1>1, <1>9 DEF Restart, JobRow
  <2> QED BY <1>1, <2>1, PromiseStutter DEF Evidence
<1>10. ASSUME NEW w \in Workers,
              \/ BeginMaintenance(w) \/ FindMissing(w) \/ EndMaintenance(w)
              \/ MaintenanceFails(w) \/ SkipMaintenance(w) \/ CheckPaused(w)
              \/ NothingToClaim(w) \/ Send(w) \/ ConfigError(w) \/ Serve(w)
              \/ ReceiveSuccess(w) \/ ReceiveRefusal(w) \/ ReceiveUnclear(w)
              \/ PauseProvider(w) \/ FinalizeStale(w) \/ FinalizeError(w)
       PROVE  UNCHANGED Promise!vars
  BY <1>2, <1>10
     DEF BeginMaintenance, FindMissing, EndMaintenance, MaintenanceFails,
         SkipMaintenance, CheckPaused, NothingToClaim, Send, ConfigError, Serve,
         ReceiveSuccess, ReceiveRefusal, ReceiveUnclear, PauseProvider,
         FinalizeStale, FinalizeError
<1>11. ASSUME NEW o \in Orders,
              \/ DispatchFails(o) \/ RetryRequested(o) \/ RetryRefused(o)
              \/ LateServe(o) \/ LateLost(o)
       PROVE  UNCHANGED Promise!vars
  BY <1>2, <1>11 DEF DispatchFails, RetryRequested, RetryRefused, LateServe, LateLost
<1>12. ASSUME UNCHANGED vars \/ \E flag \in BOOLEAN : SetPaused(flag)
       PROVE  UNCHANGED Promise!vars
  BY <1>2, <1>12 DEF vars, SetPaused
<1> QED
  BY <1>4, <1>5, <1>6, <1>7, <1>8, <1>9, <1>10, <1>11, <1>12
     DEF Next, Thread, Maintenance, Tick, Finalize, Admin

(* Every step of the outbox is a step of the promise, or none. *)
LEMMA PromiseStep ==
  ASSUME IInv, [Next]_vars
  PROVE  [Promise!Next]_(Promise!vars)
<1> USE DEF dbVars, handlerVars, upstreamVars, At, Goto, Rest
<1>1. /\ order \in [Orders -> OrderStatus \cup {"none"}]
      /\ job \in [Orders -> JobRow] /\ \A o \in Orders : job[o] \in JobRow
      /\ OnOrder /\ Funding
      /\ \A o \in Orders : Consistent(order[o], job[o], credits[o])
  BY DEF IInv, TypeOK
<1>2. ASSUME NEW o \in Orders, NEW status, order' = [order EXCEPT ![o] = status],
             job' = job, NEW paid \in BOOLEAN, o \in funded' <=> paid,
             \A p \in Orders \ {o} : p \in funded' <=> p \in funded,
             Allowed(Phase(order[o], o \in funded), Evidence(job[o]),
                     Phase(status, paid), Evidence(job[o]))
      PROVE  [Promise!Next]_(Promise!vars)
  <2>1. job' = [job EXCEPT ![o] = job[o]]
    BY <1>1, <1>2
  <2> QED BY <1>1, <1>2, <2>1, PromiseMove
<1>3. ASSUME NEW o \in Orders, Sale(o)
      PROVE  [Promise!Next]_(Promise!vars)
  <2>1. CASE SupersededConfirmed(o)
    <3>1. \A p \in Orders : job'[p].outcome = job[p].outcome
      BY <2>1 DEF SupersededConfirmed
    <3> QED BY <1>1, <2>1, <3>1, PromiseStutter DEF SupersededConfirmed, Evidence
  <2>2. CASE ~SupersededConfirmed(o)
    <3>1. \A p \in Orders \ {o} : p \in funded' <=> p \in funded
      BY <1>3, <2>2
         DEF Sale, PlaceCoinOrder, PlaceQrOrder, PaymentConfirmed,
             PaymentLapses, PaymentRenewed
    <3>2. o \notin funded
      BY <1>1, <1>3, <2>2
         DEF Sale, PlaceCoinOrder, PlaceQrOrder, PaymentConfirmed,
             PaymentLapses, PaymentRenewed, Funding, Sold
    <3>3. ~Evidence(job[o])
      BY <1>1, <3>2 DEF Funding, Unfunded, Consistent, Evidence
    <3>4. PICK status : /\ order' = [order EXCEPT ![o] = status]
                        /\ job' = job
                        /\ o \in funded' => status \in {"paid", "refunded"}
      <4>1. CASE PlaceCoinOrder(o)
        BY <4>1 DEF PlaceCoinOrder
      <4>2. CASE PlaceQrOrder(o) \/ PaymentLapses(o) \/ PaymentRenewed(o)
        BY <3>2, <4>2 DEF PlaceQrOrder, PaymentLapses, PaymentRenewed
      <4>3. CASE PaymentConfirmed(o) /\ order[o] = "refunded"
        <5>1. order' = [order EXCEPT ![o] = "refunded"] /\ job' = job
          BY <1>1, <4>3 DEF PaymentConfirmed
        <5> QED BY <5>1
      <4>4. CASE PaymentConfirmed(o) /\ order[o] # "refunded"
        BY <4>4 DEF PaymentConfirmed
      <4> QED BY <1>3, <2>2, <4>1, <4>2, <4>3, <4>4 DEF Sale
    <3> DEFINE paid == o \in funded'
    <3>5. paid \in BOOLEAN /\ (o \in funded' <=> paid)
      OBVIOUS
    <3>6. Phase(order[o], o \in funded) = "unpaid"
      BY <3>2 DEF Phase
    <3>7. Phase(status, paid) \in {"unpaid", "open", "returned"}
      BY <3>4 DEF Phase
    <3>8. Allowed("unpaid", Evidence(job[o]), Phase(status, paid), Evidence(job[o]))
      BY <3>3, <3>7 DEF Allowed
    <3> HIDE DEF paid
    <3> QED BY <1>2, <3>1, <3>4, <3>5, <3>6, <3>8
  <2> QED BY <2>1, <2>2
<1>10. ASSUME NEW o \in Orders, job[o].status # "none" \/ order[o] = "failed"
       PROVE  o \in funded
  BY <1>1, <1>10 DEF Funding, Unfunded
<1>11. ASSUME \A o \in Orders : ~(PlaceCoinOrder(o) \/ PaymentConfirmed(o))
       PROVE  funded' = funded
  BY <1>11, FundedKept
<1>4. ASSUME NEW o \in Orders, NEW reset \in BOOLEAN, ResetForRetry(o, reset)
      PROVE  [Promise!Next]_(Promise!vars)
  <2> DEFINE row == Reopened(job[o], reset)
  <2>1. job' = [job EXCEPT ![o] = row] /\ ~Evidence(row) /\ ~Evidence(job[o])
    BY <1>1, <1>4, OutcomeKept DEF ResetForRetry, Retryable, Evidence
  <2>2. order' = [order EXCEPT ![o] = "paid"] /\ order[o] \in {"paid", "failed"}
    BY <1>1, <1>4
       DEF ResetForRetry, Retryable, Claimable, Consistent, ProviderStatus
  <2>5. o \in funded /\ funded' = funded
    BY <1>4, <1>10 DEF ResetForRetry, Retryable
  <2> HIDE DEF row
  <2>3. Allowed(Phase(order[o], o \in funded), Evidence(job[o]),
                Phase("paid", TRUE), Evidence(row))
    BY <2>1, <2>2, <2>5 DEF Allowed, Phase, Evidence
  <2> QED BY <1>1, <2>1, <2>2, <2>3, <2>5, PromiseMove
<1>5. ASSUME NEW o \in Orders, NEW conclusion \in {"completed", "failed"},
             Reconcile(o, conclusion)
      PROVE  [Promise!Next]_(Promise!vars)
  <2> DEFINE result == IF conclusion = "completed" THEN "succeeded" ELSE "failed"
             row == Concluded(job[o], result, result)
  <2>1. job' = [job EXCEPT ![o] = row] /\ order' = [order EXCEPT ![o] = conclusion]
    BY <1>5 DEF Reconcile
  <2>2. row.outcome = result
    BY <1>1, ConcludedRow DEF JobStatus, Outcome
  <2>3. /\ order[o] \in {"paid", "failed"}
        /\ conclusion = "failed" => ~Evidence(job[o])
    BY <1>1, <1>5
       DEF Consistent, ProviderStatus, Sold, Reconcile, TransitionOk,
           VALID_ACT_TRANSITIONS, Evidence
  <2>5. o \in funded /\ funded' = funded
    BY <1>5, <1>10 DEF Reconcile
  <2>4. Allowed(Phase(order[o], o \in funded), Evidence(job[o]),
                Phase(conclusion, TRUE), Evidence(row))
    <3>1. CASE conclusion = "completed"
      BY <2>2, <2>3, <2>5, <3>1 DEF Allowed, Phase, Evidence
    <3>2. CASE conclusion = "failed"
      BY <2>2, <2>3, <2>5, <3>2 DEF Allowed, Phase, Evidence
    <3> QED BY <3>1, <3>2
  <2> HIDE DEF row
  <2> QED BY <1>1, <2>1, <2>4, <2>5, PromiseMove
<1>6. ASSUME NEW o \in Orders, RefundCoin(o)
      PROVE  [Promise!Next]_(Promise!vars)
  <2>1. PICK row : job' = [job EXCEPT ![o] = row] /\ row.outcome = job[o].outcome
    <3>1. CASE job' = job
      <4>1. job' = [job EXCEPT ![o] = job[o]]
        BY <1>1, <3>1
      <4> QED BY <4>1
    <3>2. CASE job' # job
      BY <1>1, <1>6, <3>2, OutcomeKept DEF RefundCoin
    <3> QED BY <3>1, <3>2
  <2>2. /\ order[o] = "failed" /\ ~Evidence(job[o])
        /\ order' = [order EXCEPT ![o] = "refunded"]
    BY <1>1, <1>6 DEF RefundCoin, Consistent, ProviderStatus, Evidence
  <2>4. o \in funded /\ funded' = funded
    BY <1>6, <1>10, <2>2 DEF RefundCoin
  <2>3. Allowed(Phase(order[o], o \in funded), Evidence(job[o]),
                Phase("refunded", TRUE), Evidence(row))
    BY <2>1, <2>2, <2>4 DEF Allowed, Phase, Evidence
  <2> QED BY <1>1, <2>1, <2>2, <2>3, <2>4, PromiseMove
<1>7. ASSUME NEW o \in Orders, RefundManual(o)
      PROVE  [Promise!Next]_(Promise!vars)
  <2>1. /\ order[o] \in {"paid", "failed", "cancelled"} /\ ~Evidence(job[o])
        /\ order' = [order EXCEPT ![o] = "refunded"] /\ job' = job
    BY <1>1, <1>7 DEF RefundManual, Consistent, ProviderStatus, Evidence
  <2>2. funded' = funded
    BY <1>7 DEF RefundManual
  <2>3. CASE o \in funded
    <3>1. Allowed(Phase(order[o], o \in funded), Evidence(job[o]),
                  Phase("refunded", TRUE), Evidence(job[o]))
      BY <2>1, <2>3 DEF Allowed, Phase
    <3> QED BY <1>2, <2>1, <2>2, <2>3, <3>1
  <2>4. CASE o \notin funded
    <3>1. Allowed(Phase(order[o], o \in funded), Evidence(job[o]),
                  Phase("refunded", FALSE), Evidence(job[o]))
      BY <2>1, <2>4 DEF Allowed, Phase
    <3> QED BY <1>2, <2>1, <2>2, <2>4, <3>1
  <2> QED BY <2>3, <2>4
<1>8. ASSUME NEW w \in Workers, FinalizeSuccess(w) \/ FinalizeFailure(w)
      PROVE  [Promise!Next]_(Promise!vars)
  <2> DEFINE o == worker[w].on
  <2>1. o \in Orders /\ job[o].status = "leased"
    BY <1>1, <1>8 DEF OnOrder, FinalizeSuccess, FinalizeFailure, Finalizes, Leased
  <2>2. order[o] \in {"paid", "refunded"} /\ ~Evidence(job[o])
    BY <1>1, <2>1 DEF Consistent, Evidence
  <2>7. o \in funded /\ funded' = funded
    BY <1>8, <1>10, <2>1 DEF FinalizeSuccess, FinalizeFailure, Finalizes
  <2>3. /\ TransitionOk("paid", "completed") /\ ~TransitionOk("refunded", "completed")
        /\ TransitionOk("paid", "failed") /\ ~TransitionOk("refunded", "failed")
    BY DEF TransitionOk, VALID_ACT_TRANSITIONS
  <2> DEFINE done == IF order[o] = "paid" THEN "succeeded" ELSE "awaiting_reconciliation"
             confirmed == Concluded(job[o], done, "succeeded")
             rejected == Concluded(job[o], "failed", "rejected")
  <2>4. Evidence(confirmed) /\ ~Evidence(rejected)
    BY <1>1, <2>1, ConcludedRow DEF Evidence, JobStatus, Outcome
  <2>5. CASE FinalizeSuccess(w)
    <3> DEFINE status == IF order[o] = "paid" THEN "completed" ELSE order[o]
    <3>1. job' = [job EXCEPT ![o] = confirmed]
      BY <2>2, <2>3, <2>5 DEF FinalizeSuccess
    <3>2. order' = [order EXCEPT ![o] = status]
      BY <1>1, <2>1, <2>2, <2>3, <2>5 DEF FinalizeSuccess
    <3>3. Allowed(Phase(order[o], o \in funded), Evidence(job[o]),
                  Phase(status, TRUE), Evidence(confirmed))
      BY <2>2, <2>4, <2>7 DEF Allowed, Phase
    <3> HIDE DEF status, confirmed, o
    <3> QED BY <1>1, <2>1, <2>7, <3>1, <3>2, <3>3, PromiseMove
  <2>6. CASE FinalizeFailure(w)
    <3> DEFINE status == IF order[o] = "paid" THEN "failed" ELSE order[o]
    <3>1. job' = [job EXCEPT ![o] = rejected]
      BY <2>6 DEF FinalizeFailure
    <3>2. order' = [order EXCEPT ![o] = status]
      BY <1>1, <2>1, <2>2, <2>3, <2>6 DEF FinalizeFailure
    <3> HIDE DEF rejected, o
    <3>3. Allowed(Phase(order[o], o \in funded), Evidence(job[o]),
                  Phase(status, TRUE), Evidence(rejected))
      BY <2>2, <2>4, <2>7 DEF Allowed, Phase, Evidence
    <3> HIDE DEF status
    <3> QED BY <1>1, <2>1, <2>7, <3>1, <3>2, <3>3, PromiseMove
  <2> QED BY <1>8, <2>5, <2>6
<1>9. ASSUME UNCHANGED Promise!vars
      PROVE  [Promise!Next]_(Promise!vars)
  BY <1>9
<1> QED BY <1>3, <1>4, <1>5, <1>6, <1>7, <1>8, <1>9, QuietStep

(* The outbox implements the promise: completion and evidence are recorded  *)
(* in one step, evidence is never erased, no order with evidence is written *)
(* off, and a completed or refunded order stays so, whatever threads,       *)
(* admins, restarts and lost answers do.                                    *)
THEOREM OutboxKeepsPromise == Spec => KeepsPromise
<1>1. Init => Promise!Init
  <2> SUFFICES ASSUME Init PROVE Promise!Init
    OBVIOUS
  <2>1. \A o \in Orders : Phase(order[o], o \in funded) = "unpaid" /\ job[o].outcome # "succeeded"
    BY DEF Init, Phase, NoRow
  <2> QED BY <2>1 DEF Promise!Init
<1> QED BY <1>1, PromiseStep, Invariance, PTL DEF Spec, KeepsPromise, Promise!Spec
=============================================================================
