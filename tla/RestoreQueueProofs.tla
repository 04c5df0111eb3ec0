-------------------------- MODULE RestoreQueueProofs --------------------------
(* The safety properties of RestoreQueue, for any orders, visitors, pool of *)
(* accounts and queue size, and any number of restarts, scripts and failed  *)
(* statements.                                                              *)
EXTENDS RestoreQueue, SequenceTheorems, TLAPS

(* What a thread has in its hands at each place. *)
WorkerSound(w, grants) ==
  /\ w.at \in {"off", "idle", "polling"} => w.job = NONE /\ w.outcome = "none"
  /\ w.at \in {"claimed", "settling"} => w.job \in Orders
  /\ w.at \in {"serving", "restoring", "finishing"} => w.job \in Requests
  /\ w.at \in {"claimed", "serving", "restoring"} => w.outcome = "none"
  /\ w.at \in {"finishing", "settling"} => w.outcome \in Terminal
  /\ w.outcome = "completed" /\ w.job \in Orders => w.job \in grants

(* A slot that was never in the pool has no thread; what is being removed   *)
(* is in the pool.                                                          *)
PoolSound ==
  /\ \A s \in Slots : slot[s] = "unused" => worker[s].at = "off"
  /\ \A s \in removing : slot[s] = "pooled"

(* queue_client_id is set when the row is inserted: before that no row and  *)
(* no worker has the order, and afterwards it is past the dispatch.         *)
Dispatched == {"queued", "processing", "completed", "failed", "refunded"}

OrderSound(o) ==
  /\ order[o].status \in Dispatched \cup {"none", "paid", "awaiting_queue"}
  /\ order[o].client => order[o].status \in Dispatched
  /\ ~order[o].client =>
       /\ order[o].status \in {"none", "paid", "awaiting_queue", "refunded"}
       /\ row[o] = "none"
       /\ \A s \in Slots : worker[s].job # o

(* The order of a row that is served says so, unless that write was lost.   *)
ServedSays ==
  \A s \in Slots :
    worker[s].at \in {"serving", "restoring", "finishing", "settling"}
      /\ worker[s].job \in Orders \ lost
    => order[worker[s].job].status \in Dispatched \ {"queued"}

(* As long as no script reset the rows, a row that is served is marked so.  *)
ServedMarked ==
  ~scripted => \A s \in Slots : Serving(s) => row[worker[s].job] = "processing"

IInv ==
  /\ TypeOK
  /\ \A s \in Slots : WorkerSound(worker[s], granted)
  /\ PoolSound
  /\ \A o \in Orders : OrderSound(o)
  /\ ServedSays /\ ServedMarked
  /\ RowsHeldOnce /\ NeverStranded /\ EndsTrue

-----------------------------------------------------------------------------
(* The rows of the tables *)

OrderRow == [status : OrderStatus \cup {"none"}, coin : BOOLEAN, client : BOOLEAN]

WorkerRow == [at : Stages, job : Requests \cup {NONE},
              outcome : Terminal \cup {"none"}, stop : BOOLEAN]

(* The rows that wait or are processed, in their order. *)
InLine(queue, rows) ==
  /\ queue \in Seq(Requests) /\ IsInjective(queue)
  /\ Range(queue) = {r \in Requests : rows[r] \in Live}

Typed ==
  /\ order \in [Orders -> OrderRow]
  /\ row \in [Requests -> Live \cup Terminal \cup {"none"}]
  /\ InLine(line, row)
  /\ slot \in [Slots -> {"unused", "pooled", "removed"}]
  /\ worker \in [Slots -> WorkerRow]
  /\ granted \subseteq Orders /\ unsent \subseteq Orders /\ lost \subseteq Orders
  /\ returned \in [Orders -> SUBSET RefundKeys]
  /\ removing \subseteq Slots
  /\ scripted \in BOOLEAN /\ mishaps \in 0..MaxMishaps

LEMMA TypedIsTypeOK == Typed <=> TypeOK
  BY DEF Typed, TypeOK, InLine, OrderRow, WorkerRow

LEMMA Statuses ==
  /\ Dispatched \subseteq OrderStatus
  /\ {"none", "paid", "awaiting_queue"} \subseteq OrderStatus \cup {"none"}
  /\ Live \cap Terminal = {} /\ "none" \notin Live \cup Terminal
  /\ Orders \cap Visitors = {} /\ NONE \notin Requests
  /\ Orders \subseteq Requests /\ Visitors \subseteq Requests
  BY RequestsAssumption DEF Dispatched, OrderStatus, Live, Terminal, Requests

LEMMA SameLine ==
  ASSUME NEW queue, NEW rows, NEW new, InLine(queue, rows),
         \A r \in Requests : new[r] \in Live <=> rows[r] \in Live
  PROVE  InLine(queue, new)
  BY DEF InLine

LEMMA JoinLine ==
  ASSUME NEW queue, NEW rows, NEW new, InLine(queue, rows), NEW r \in Requests,
         rows[r] \notin Live, new[r] \in Live,
         \A q \in Requests \ {r} : new[q] = rows[q]
  PROVE  InLine(Append(queue, r), new)
  <1> DEFINE next == Append(queue, r)
  <1>1. queue \in Seq(Requests) /\ Range(queue) = {q \in Requests : rows[q] \in Live}
    BY DEF InLine
  <1>2. /\ next \in Seq(Requests) /\ DOMAIN next = 1..Len(queue) + 1
        /\ \A i \in 1..Len(queue) : next[i] = queue[i]
        /\ next[Len(queue) + 1] = r
    BY <1>1, AppendProperties
  <1>3. \A i \in 1..Len(queue) : queue[i] # r
    BY <1>1 DEF Range
  <1>4. IsInjective(next)
    BY <1>1, <1>2, <1>3 DEF InLine, IsInjective
  <1>5. Range(next) = Range(queue) \cup {r}
    BY <1>1, <1>2 DEF Range
  <1> HIDE DEF next
  <1>6. InLine(next, new)
    BY <1>1, <1>2, <1>4, <1>5 DEF InLine
  <1> QED BY <1>6 DEF next

LEMMA LeaveLine ==
  ASSUME InLine(line, row), NEW r \in Requests, Leaves(r), row'[r] \notin Live,
         \A q \in Requests \ {r} : row'[q] = row[q]
  PROVE  InLine(line', row')
  <1>0. line \in Seq(Requests) /\ IsInjective(line)
        /\ Range(line) = {q \in Requests : row[q] \in Live}
    BY DEF InLine
  <1>1. CASE r \notin Range(line) /\ UNCHANGED line
    BY <1>0, <1>1 DEF InLine
  <1>2. ASSUME NEW i \in DOMAIN line, line[i] = r, line' = RemoveAt(line, i)
        PROVE  InLine(line', row')
    <2> DEFINE a == SubSeq(line, 1, i - 1)
               b == SubSeq(line, i + 1, Len(line))
    <2>1. i \in 1..Len(line) /\ Len(line) \in Nat
      BY <1>0, <1>2
    <2>2. /\ a \in Seq(Requests) /\ Len(a) = i - 1
          /\ \A k \in 1..i - 1 : a[k] = line[k]
      BY <1>0, <2>1
    <2>3. /\ b \in Seq(Requests) /\ Len(b) = Len(line) - i
          /\ \A k \in 1..Len(line) - i : b[k] = line[k + i]
      BY <1>0, <2>1
    <2> HIDE DEF a, b
    <2>4. line' = a \o b
      BY <1>2 DEF RemoveAt, a, b
    <2>5. /\ line' \in Seq(Requests) /\ Len(line') = Len(line) - 1
          /\ \A k \in 1..Len(line) - 1 :
               line'[k] = IF k < i THEN line[k] ELSE line[k + 1]
      <3>1. /\ a \o b \in Seq(Requests) /\ Len(a \o b) = Len(a) + Len(b)
            /\ \A k \in 1..Len(a) + Len(b) :
                 (a \o b)[k] = IF k <= Len(a) THEN a[k] ELSE b[k - Len(a)]
        BY <2>2, <2>3, ConcatProperties
      <3>2. Len(a) + Len(b) = Len(line) - 1
        BY <2>1, <2>2, <2>3
      <3>3. ASSUME NEW k \in 1..Len(line) - 1
            PROVE  line'[k] = IF k < i THEN line[k] ELSE line[k + 1]
        <4>1. line'[k] = IF k <= i - 1 THEN a[k] ELSE b[k - (i - 1)]
          BY <2>2, <2>4, <3>1, <3>2
        <4>2. CASE k < i
          BY <2>1, <2>2, <4>1, <4>2
        <4>3. CASE ~(k < i)
          <5>1. k - (i - 1) \in 1..Len(line) - i /\ (k - (i - 1)) + i = k + 1
            BY <2>1, <4>3
          <5> QED BY <2>1, <2>3, <4>1, <4>3, <5>1
        <4> QED BY <4>2, <4>3
      <3> QED BY <2>4, <3>1, <3>2, <3>3
    <2>6. DOMAIN line' = 1..Len(line) - 1 /\ DOMAIN line = 1..Len(line)
      BY <1>0, <2>5
    <2>7. IsInjective(line')
      <3> SUFFICES ASSUME NEW k \in DOMAIN line', NEW m \in DOMAIN line', line'[k] = line'[m]
                   PROVE  k = m
        BY DEF IsInjective
      <3>1. PICK from \in DOMAIN line :
              /\ line'[k] = line[from] /\ from = IF k < i THEN k ELSE k + 1
        BY <2>1, <2>5, <2>6
      <3>2. PICK other \in DOMAIN line :
              /\ line'[m] = line[other] /\ other = IF m < i THEN m ELSE m + 1
        BY <2>1, <2>5, <2>6
      <3>3. from = other
        BY <1>0, <3>1, <3>2 DEF IsInjective
      <3> QED BY <2>1, <2>6, <3>1, <3>2, <3>3
    <2>8. \A k \in DOMAIN line' : line'[k] # r /\ line'[k] \in Range(line)
      <3> SUFFICES ASSUME NEW k \in DOMAIN line'
                   PROVE  line'[k] # r /\ line'[k] \in Range(line)
        OBVIOUS
      <3>1. \E m \in DOMAIN line : m # i /\ line'[k] = line[m]
        <4>1. CASE k < i
          BY <2>1, <2>5, <2>6, <4>1
        <4>2. CASE ~(k < i)
          <5>1. k + 1 \in DOMAIN line /\ k + 1 # i /\ line'[k] = line[k + 1]
            BY <2>1, <2>5, <2>6, <4>2
          <5> QED BY <5>1
        <4> QED BY <4>1, <4>2
      <3> QED BY <1>0, <1>2, <3>1 DEF IsInjective, Range
    <2>9. \A q \in Range(line) \ {r} : q \in Range(line')
      <3> SUFFICES ASSUME NEW k \in DOMAIN line, line[k] # r
                   PROVE  line[k] \in Range(line')
        BY DEF Range
      <3>1. CASE k < i
        BY <2>1, <2>5, <2>6, <3>1 DEF Range
      <3>2. CASE k > i
        <4>1. k - 1 \in DOMAIN line' /\ line'[k - 1] = line[k]
          BY <2>1, <2>5, <2>6, <3>2
        <4> QED BY <4>1 DEF Range
      <3> QED BY <1>2, <2>1, <2>6, <3>1, <3>2
    <2>10. Range(line') = Range(line) \ {r}
      BY <2>8, <2>9 DEF Range
    <2> QED BY <1>0, <2>5, <2>7, <2>10 DEF InLine
  <1> QED BY <1>1, <1>2 DEF Leaves

-----------------------------------------------------------------------------
(* The parts of the invariant, for one worker, row or order at a time *)

Busy(w) == w.at \in {"claimed", "serving", "restoring", "finishing"}
Late(w) == w.at \in {"serving", "restoring", "finishing", "settling"}
Holds(w, r) == w.job = r /\ (Busy(w) \/ w.at = "dead")

Held ==
  \A r \in Requests : row[r] = "processing" => \E s \in Slots : Holds(worker[s], r)

HeldOnce ==
  ~scripted => \A s, t \in Slots : s # t /\ Busy(worker[s]) /\ Busy(worker[t])
                                    => worker[s].job # worker[t].job

Workers == \A s \in Slots : WorkerSound(worker[s], granted)
OrdersSound == \A o \in Orders : OrderSound(o)

Parts == /\ Typed /\ Workers /\ PoolSound /\ OrdersSound /\ ServedSays /\ ServedMarked
         /\ Held /\ HeldOnce /\ NeverStranded /\ EndsTrue

LEMMA InvariantParts == IInv <=> Parts
  BY TypedIsTypeOK DEF IInv, Parts, Workers, OrdersSound, RowsHeldOnce, Held, HeldOnce,
                       Holds, Busy, Serving

LEMMA InvariantPartsNext == IInv' <=> Parts'
  BY InvariantParts, PTL

LEMMA WorkerRows ==
  ASSUME Typed, NEW s \in Slots
  PROVE  /\ worker[s] \in WorkerRow /\ worker[s].at \in Stages
         /\ worker[s].job \in Requests \cup {NONE}
         /\ worker[s].outcome \in Terminal \cup {"none"} /\ worker[s].stop \in BOOLEAN
  BY DEF Typed, WorkerRow

LEMMA OrderRows ==
  ASSUME Typed, NEW o \in Orders
  PROVE  /\ order[o] \in OrderRow /\ order[o].status \in OrderStatus \cup {"none"}
         /\ order[o].coin \in BOOLEAN /\ order[o].client \in BOOLEAN
  BY DEF Typed, OrderRow

LEMMA IdleRow ==
  ASSUME NEW stage \in Stages
  PROVE  /\ Idle(stage) \in WorkerRow /\ Idle(stage).at = stage
         /\ Idle(stage).job = NONE /\ Idle(stage).outcome = "none"
  BY DEF Idle, WorkerRow

(* Only one thread moves, and keeps what it holds.                           *)
Proceeds(old, new) ==
  /\ WorkerSound(new, granted)
  /\ new.job \in {old.job, NONE}
  /\ Late(new) => Late(old) /\ new.job = old.job
  /\ Busy(new) => Busy(old) /\ new.job = old.job
  /\ Busy(old) \/ old.at = "dead" => new.job = old.job /\ (Busy(new) \/ new.at = "dead")
  /\ old.at = "settling" => new.at = "settling" /\ new.job = old.job

LEMMA WorkerMove ==
  ASSUME Parts, NEW s \in Slots, worker' \in [Slots -> WorkerRow],
         \A t \in Slots \ {s} : worker'[t] = worker[t],
         Proceeds(worker[s], worker'[s]),
         UNCHANGED <<tables, granted, returned, unsent, lost, scripted>>,
         mishaps' \in 0..MaxMishaps, slot' \in [Slots -> {"unused", "pooled", "removed"}],
         removing' \subseteq Slots, PoolSound'
  PROVE  Parts'
  <1>1. Typed'
    BY DEF Parts, Typed, tables
  <1>2. Workers'
    BY DEF Parts, Workers, Proceeds
  <1>3. OrdersSound'
    BY Statuses DEF Parts, OrdersSound, OrderSound, Proceeds, tables
  <1>4. ServedSays'
    BY DEF Parts, ServedSays, Proceeds, Late, tables
  <1>5. ServedMarked'
    BY DEF Parts, ServedMarked, Serving, Proceeds, Busy, tables
  <1>6. Held'
    BY DEF Parts, Held, Holds, Proceeds, tables
  <1>7. HeldOnce'
    BY DEF Parts, HeldOnce, Proceeds, tables
  <1>8. NeverStranded'
    BY DEF Parts, NeverStranded, Proceeds, tables
  <1>9. EndsTrue'
    BY DEF Parts, EndsTrue, tables
  <1> QED BY <1>1, <1>2, <1>3, <1>4, <1>5, <1>6, <1>7, <1>8, <1>9 DEF Parts

(* The pool is not touched. *)
LEMMA WorkerMoveOnly ==
  ASSUME Parts, NEW s \in Slots, worker' \in [Slots -> WorkerRow],
         \A t \in Slots \ {s} : worker'[t] = worker[t],
         Proceeds(worker[s], worker'[s]), worker[s].at # "off",
         UNCHANGED <<tables, granted, returned, unsent, lost, scripted, slot, removing>>,
         mishaps' \in 0..MaxMishaps
  PROVE  Parts'
  <1>1. slot' \in [Slots -> {"unused", "pooled", "removed"}] /\ removing' \subseteq Slots
    BY DEF Parts, Typed
  <1>2. PoolSound'
    BY DEF Parts, PoolSound
  <1> QED BY <1>1, <1>2, WorkerMove

LEMMA MishapCount ==
  ASSUME Typed, Mishap
  PROVE  mishaps' \in 0..MaxMishaps
  BY BoundsAssumption DEF Typed, Mishap

LEMMA LoopStep ==
  ASSUME Parts, NEW s \in Slots, Loop(s)
  PROVE  Parts'
  <1>0. worker \in [Slots -> WorkerRow] /\ WorkerSound(worker[s], granted)
        /\ worker[s].at = "idle"
    BY DEF Parts, Typed, Workers, Loop
  <1>1. /\ worker' \in [Slots -> WorkerRow]
        /\ \A t \in Slots \ {s} : worker'[t] = worker[t]
        /\ worker'[s].at \in {"off", "polling"} /\ worker'[s].job = NONE
        /\ worker'[s].outcome = "none"
    <2>1. CASE worker[s].stop
      <3>1. worker' = [worker EXCEPT ![s] = Idle("off")]
        BY <2>1 DEF Loop
      <3>2. "off" \in Stages
        BY DEF Stages
      <3> QED BY <1>0, <3>1, <3>2, IdleRow
    <2>2. CASE ~worker[s].stop
      <3>1. worker' = [worker EXCEPT ![s].at = "polling"]
        BY <2>2 DEF Loop, Moves
      <3> QED BY <1>0, <3>1 DEF WorkerRow, Stages, WorkerSound
    <2> QED BY <2>1, <2>2
  <1>2. Proceeds(worker[s], worker'[s])
    BY <1>0, <1>1, Statuses DEF Proceeds, WorkerSound, Late, Busy
  <1> QED BY <1>0, <1>1, <1>2, WorkerMoveOnly DEF Loop, Parts, Typed, bounds

LEMMA ServeStep ==
  ASSUME Parts, NEW s \in Slots, Serve(s) \/ Answer(s)
  PROVE  Parts'
  <1>0. worker \in [Slots -> WorkerRow] /\ WorkerSound(worker[s], granted)
        /\ worker[s].at \in {"serving", "restoring"}
    BY DEF Parts, Typed, Workers, Serve, Answer
  <1>1. CASE worker' = [worker EXCEPT ![s].at = "restoring"]
    <2>1. /\ worker' \in [Slots -> WorkerRow] /\ worker'[s].at = "restoring"
          /\ \A t \in Slots \ {s} : worker'[t] = worker[t]
          /\ worker'[s].job = worker[s].job /\ worker'[s].outcome = worker[s].outcome
      BY <1>0, <1>1 DEF WorkerRow, Stages
    <2>2. Proceeds(worker[s], worker'[s])
      BY <1>0, <2>1 DEF Proceeds, WorkerSound, Late, Busy
    <2> QED BY <1>0, <2>1, <2>2, WorkerMoveOnly DEF Serve, Answer, Parts, Typed, bounds
  <1>2. ASSUME NEW end \in Terminal, Concludes(s, end),
               end = "completed" => worker[s].job \in Visitors \cup granted
        PROVE  Parts'
    <2>1. /\ worker' \in [Slots -> WorkerRow] /\ worker'[s].at = "finishing"
          /\ \A t \in Slots \ {s} : worker'[t] = worker[t]
          /\ worker'[s].job = worker[s].job /\ worker'[s].outcome = end
      BY <1>0, <1>2 DEF WorkerRow, Stages, Concludes
    <2>2. Proceeds(worker[s], worker'[s])
      BY <1>0, <1>2, <2>1, Statuses DEF Proceeds, WorkerSound, Late, Busy
    <2> QED BY <1>0, <2>1, <2>2, WorkerMoveOnly DEF Serve, Answer, Parts, Typed, bounds
  <1>3. CASE Serve(s)
    <2>1. "error" \in Terminal /\ "error" # "completed"
      BY DEF Terminal
    <2> QED BY <1>1, <1>2, <1>3, <2>1 DEF Serve, Moves
  <1> QED BY <1>2, <1>3 DEF Answer

LEMMA ClaimFailsStep ==
  ASSUME Parts, NEW s \in Slots, ClaimFails(s)
  PROVE  Parts'
  <1>0. worker \in [Slots -> WorkerRow] /\ WorkerSound(worker[s], granted)
        /\ worker[s].at = "polling"
    BY DEF Parts, Typed, Workers, ClaimFails
  <1>1. /\ worker' \in [Slots -> WorkerRow]
        /\ \A t \in Slots \ {s} : worker'[t] = worker[t]
        /\ worker'[s].at = "dead" /\ worker'[s].job = NONE /\ worker'[s].outcome = "none"
    <2>1. "dead" \in Stages
      BY DEF Stages
    <2> QED BY <1>0, <2>1, IdleRow DEF ClaimFails
  <1>2. Proceeds(worker[s], worker'[s])
    BY <1>0, <1>1 DEF Proceeds, WorkerSound, Late, Busy
  <1>3. mishaps' \in 0..MaxMishaps
    BY MishapCount DEF ClaimFails, Fault, Parts
  <1> QED BY <1>0, <1>1, <1>2, <1>3, WorkerMoveOnly DEF ClaimFails, Fault

LEMMA FinalizeFailsStep ==
  ASSUME Parts, NEW s \in Slots, FinalizeFails(s)
  PROVE  Parts'
  <1>0. worker \in [Slots -> WorkerRow] /\ WorkerSound(worker[s], granted)
        /\ worker[s].at = "finishing"
    BY DEF Parts, Typed, Workers, FinalizeFails
  <1>1. /\ worker' \in [Slots -> WorkerRow]
        /\ \A t \in Slots \ {s} : worker'[t] = worker[t]
        /\ worker'[s].job = worker[s].job
        /\ \/ worker'[s].at = "finishing" /\ worker'[s].outcome = "error"
           \/ worker'[s].at = "dead" /\ worker'[s].outcome = worker[s].outcome
    <2>1. CASE worker' = [worker EXCEPT ![s].outcome = "error"]
      BY <1>0, <2>1 DEF WorkerRow, Terminal
    <2>2. CASE worker' = [worker EXCEPT ![s].at = "dead"]
      BY <1>0, <2>2 DEF WorkerRow, Stages
    <2> QED BY <2>1, <2>2 DEF FinalizeFails, Moves
  <1>2. Proceeds(worker[s], worker'[s])
    <2>1. "error" \in Terminal /\ "error" # "completed"
      BY DEF Terminal
    <2> QED BY <1>0, <1>1, <2>1 DEF Proceeds, WorkerSound, Late, Busy
  <1>3. mishaps' \in 0..MaxMishaps
    BY MishapCount DEF FinalizeFails, Fault, Parts
  <1> QED BY <1>0, <1>1, <1>2, <1>3, WorkerMoveOnly DEF FinalizeFails, Fault

LEMMA AddSlotStep ==
  ASSUME Parts, NEW s \in Slots, AddSlot(s)
  PROVE  Parts'
  <1>0. /\ worker \in [Slots -> WorkerRow] /\ WorkerSound(worker[s], granted)
        /\ worker[s].at = "off" /\ slot \in [Slots -> {"unused", "pooled", "removed"}]
    BY DEF Parts, Typed, Workers, AddSlot, PoolSound
  <1>1. /\ worker' \in [Slots -> WorkerRow]
        /\ \A t \in Slots \ {s} : worker'[t] = worker[t]
        /\ worker'[s].at = "idle" /\ worker'[s].job = NONE /\ worker'[s].outcome = "none"
    <2>1. "idle" \in Stages
      BY DEF Stages
    <2> QED BY <1>0, <2>1, IdleRow DEF AddSlot
  <1>2. Proceeds(worker[s], worker'[s])
    BY <1>0, <1>1 DEF Proceeds, WorkerSound, Late, Busy
  <1>3. /\ slot' \in [Slots -> {"unused", "pooled", "removed"}]
        /\ slot'[s] = "pooled" /\ \A t \in Slots \ {s} : slot'[t] = slot[t]
    BY <1>0 DEF AddSlot
  <1>4. PoolSound'
    BY <1>1, <1>3 DEF AddSlot, Parts, PoolSound, Typed
  <1> QED BY <1>0, <1>1, <1>2, <1>3, <1>4, WorkerMove DEF AddSlot, Parts, Typed, bounds

LEMMA RemoveSlotStep ==
  ASSUME Parts, NEW s \in Slots, RemoveSlot(s)
  PROVE  Parts'
  <1>0. /\ worker \in [Slots -> WorkerRow] /\ WorkerSound(worker[s], granted)
        /\ slot \in [Slots -> {"unused", "pooled", "removed"}]
    BY DEF Parts, Typed, Workers
  <1>1. /\ worker' \in [Slots -> WorkerRow]
        /\ \A t \in Slots \ {s} : worker'[t] = worker[t]
        /\ worker'[s].at = worker[s].at /\ worker'[s].job = worker[s].job
        /\ worker'[s].outcome = worker[s].outcome
    BY <1>0 DEF RemoveSlot, WorkerRow
  <1>2. Proceeds(worker[s], worker'[s])
    BY <1>0, <1>1 DEF Proceeds, WorkerSound, Late, Busy
  <1>3. /\ slot' \in [Slots -> {"unused", "pooled", "removed"}]
        /\ slot'[s] = "removed" /\ \A t \in Slots \ {s} : slot'[t] = slot[t]
    BY <1>0 DEF RemoveSlot
  <1>4. PoolSound'
    BY <1>1, <1>3 DEF RemoveSlot, Parts, PoolSound, Typed
  <1> QED BY <1>0, <1>1, <1>2, <1>3, <1>4, WorkerMove
        DEF RemoveSlot, Parts, Typed, bounds

-----------------------------------------------------------------------------
(* Orders and requests enter the queue *)

(* What was refunded of an order: its Coin, once, and only when it was paid *)
(* with Coin and is refunded.                                               *)
Repaid(entry, keys) ==
  IF entry.coin /\ entry.status = "refunded"
  THEN \E key \in RefundKeys : keys = {key}
  ELSE keys = {}

LEMMA RepaidOrders ==
  ASSUME EndsTrue
  PROVE  \A o \in Orders : Repaid(order[o], returned[o])
  BY DEF EndsTrue, Repaid

(* One order changes, and nothing a worker has to do with.                   *)
LEMMA OrderOnly ==
  ASSUME Parts, NEW o \in Orders, order' \in [Orders -> OrderRow],
         \A q \in Orders \ {o} : order'[q] = order[q] /\ returned'[q] = returned[q],
         returned' \in [Orders -> SUBSET RefundKeys], unsent' \subseteq Orders,
         UNCHANGED <<row, line, slot, worker, granted, removing, lost, bounds>>,
         OrderSound(o)',
         \A s \in Slots : Late(worker[s]) /\ worker[s].job = o /\ o \notin lost
                          => order'[o].status \in Dispatched \ {"queued"},
         order'[o].status \notin {"queued", "processing", "completed"},
         Repaid(order'[o], returned'[o])
  PROVE  Parts'
  <1>1. Typed'
    BY DEF Parts, Typed, bounds
  <1>2. Workers' /\ PoolSound' /\ ServedMarked' /\ Held' /\ HeldOnce'
    BY DEF Parts, Workers, PoolSound, ServedMarked, Held, HeldOnce, bounds, Serving
  <1>3. OrdersSound'
    BY DEF Parts, OrdersSound, OrderSound
  <1>4. ServedSays'
    BY DEF Parts, ServedSays, Late
  <1>5. NeverStranded'
    BY DEF Parts, NeverStranded
  <1>6. EndsTrue'
    <2>1. \A q \in Orders : Repaid(order[q], returned[q])
      BY RepaidOrders DEF Parts
    <2>2. \A q \in Orders : Repaid(order'[q], returned'[q])
      BY <2>1
    <2>3. \A q \in Orders : order'[q].status = "completed" => q \in granted'
      BY DEF Parts, EndsTrue
    <2> QED BY <2>2, <2>3 DEF EndsTrue, Repaid
  <1> QED BY <1>1, <1>2, <1>3, <1>4, <1>5, <1>6 DEF Parts

LEMMA SellStep ==
  ASSUME Parts, NEW o \in Orders, Sell(o)
  PROVE  Parts'
  <1>1. order \in [Orders -> OrderRow] /\ order[o].status = "none" /\ order[o].client \in BOOLEAN
    BY OrderRows DEF Parts, Typed, Sell
  <1>2. ~order[o].client /\ row[o] = "none" /\ \A s \in Slots : worker[s].job # o
    BY <1>1 DEF Parts, OrdersSound, OrderSound, Dispatched
  <1>3. PICK r : /\ order' = [order EXCEPT ![o] = r] /\ r.status \in {"paid", "awaiting_queue"}
                 /\ r.client = FALSE /\ r \in OrderRow
    <2>1. PICK coin \in BOOLEAN :
            order' = [order EXCEPT ![o] =
                        [status |-> IF coin THEN "awaiting_queue" ELSE "paid",
                         coin |-> coin, client |-> FALSE]]
      BY DEF Sell
    <2>2. PICK r : r = [status |-> IF coin THEN "awaiting_queue" ELSE "paid",
                        coin |-> coin, client |-> FALSE]
      OBVIOUS
    <2>3. r.status \in {"paid", "awaiting_queue"} /\ r.client = FALSE /\ r \in OrderRow
      BY <2>2 DEF OrderRow, OrderStatus
    <2> QED BY <2>1, <2>2, <2>3
  <1>4. /\ order' \in [Orders -> OrderRow] /\ order'[o] = r
        /\ \A q \in Orders \ {o} : order'[q] = order[q]
    BY <1>1, <1>3
  <1>5. OrderSound(o)'
    BY <1>2, <1>3, <1>4 DEF Sell, OrderSound
  <1>6. returned' = returned /\ returned[o] = {} /\ returned \in [Orders -> SUBSET RefundKeys]
        /\ unsent' \subseteq Orders
    BY <1>1 DEF Sell, Parts, Typed, EndsTrue
  <1>7. Repaid(order'[o], returned'[o])
    BY <1>3, <1>4, <1>6 DEF Repaid
  <1> QED BY <1>2, <1>3, <1>4, <1>5, <1>6, <1>7, OrderOnly DEF Sell, bounds

(* An order that is refunded, whichever endpoint does it.                    *)
LEMMA Refunds ==
  ASSUME Parts, NEW o \in Orders,
         order' = [order EXCEPT ![o].status = "refunded"],
         returned' \in [Orders -> SUBSET RefundKeys],
         \A q \in Orders \ {o} : returned'[q] = returned[q],
         Repaid(order'[o], returned'[o]),
         UNCHANGED <<row, line, slot, worker, granted, unsent, removing, lost,
                     bounds>>
  PROVE  Parts'
  <1>1. order \in [Orders -> OrderRow] /\ unsent' \subseteq Orders
    BY DEF Parts, Typed
  <1>2. /\ order' \in [Orders -> OrderRow] /\ order'[o].status = "refunded"
        /\ order'[o].client = order[o].client
        /\ \A q \in Orders \ {o} : order'[q] = order[q]
    BY <1>1 DEF OrderRow, OrderStatus
  <1>3. OrderSound(o)'
    BY <1>2 DEF Parts, OrdersSound, OrderSound, Dispatched
  <1> QED BY <1>1, <1>2, <1>3, OrderOnly DEF bounds, Dispatched

(* An order with nothing refunded yet. *)
LEMMA NothingReturned ==
  ASSUME Parts, NEW o \in Orders, order[o].status # "refunded"
  PROVE  /\ order \in [Orders -> OrderRow] /\ order[o] \in OrderRow
         /\ returned \in [Orders -> SUBSET RefundKeys] /\ returned[o] = {}
  BY DEF Parts, Typed, EndsTrue

LEMMA RefundStep ==
  ASSUME Parts, NEW o \in Orders, Refund(o)
  PROVE  Parts'
  <1>1. /\ order \in [Orders -> OrderRow] /\ order[o] \in OrderRow
        /\ returned \in [Orders -> SUBSET RefundKeys] /\ returned[o] = {}
    BY NothingReturned DEF Refund
  <1>2. order'[o].coin /\ order'[o].status = "refunded"
    BY <1>1 DEF Refund, OrderRow
  <1>3. /\ returned' \in [Orders -> SUBSET RefundKeys]
        /\ returned'[o] = {"refund_act"}
        /\ \A q \in Orders \ {o} : returned'[q] = returned[q]
    BY <1>1 DEF Refund, RefundKeys
  <1>4. Repaid(order'[o], returned'[o])
    BY <1>2, <1>3 DEF Repaid, RefundKeys
  <1> QED BY <1>3, <1>4, Refunds DEF Refund

LEMMA RefundManualStep ==
  ASSUME Parts, NEW o \in Orders, RefundManual(o)
  PROVE  Parts'
  <1>1. /\ order \in [Orders -> OrderRow] /\ order[o] \in OrderRow
        /\ returned \in [Orders -> SUBSET RefundKeys] /\ returned[o] = {}
    BY NothingReturned DEF RefundManual
  <1>2. order'[o].coin = order[o].coin /\ order'[o].status = "refunded"
    BY <1>1 DEF RefundManual, OrderRow
  <1>3. CASE order[o].coin
    <2>1. /\ returned' \in [Orders -> SUBSET RefundKeys]
          /\ returned'[o] = {"admin_refund_manual"}
          /\ \A q \in Orders \ {o} : returned'[q] = returned[q]
      BY <1>1, <1>3 DEF RefundManual, RefundKeys
    <2>2. Repaid(order'[o], returned'[o])
      BY <1>2, <1>3, <2>1 DEF Repaid, RefundKeys
    <2> QED BY <2>1, <2>2, Refunds DEF RefundManual
  <1>4. CASE ~order[o].coin
    <2>1. returned' = returned
      BY <1>4 DEF RefundManual
    <2>2. Repaid(order'[o], returned'[o])
      BY <1>1, <1>2, <1>4, <2>1 DEF Repaid
    <2> QED BY <1>1, <2>1, <2>2, Refunds DEF RefundManual
  <1> QED BY <1>3, <1>4

(* A row that no worker has is inserted. *)
LEMMA Inserted ==
  ASSUME Parts, NEW r \in Requests, Insert(r), row[r] \notin Live,
         \A s \in Slots : worker[s].job # r
  PROVE  /\ row' \in [Requests -> Live \cup Terminal \cup {"none"}]
         /\ row'[r] = "waiting" /\ \A q \in Requests \ {r} : row'[q] = row[q]
         /\ InLine(line', row')
  <1>1. /\ row' \in [Requests -> Live \cup Terminal \cup {"none"}]
        /\ row'[r] = "waiting" /\ \A q \in Requests \ {r} : row'[q] = row[q]
    BY DEF Parts, Typed, Insert, Live
  <1>2. InLine(line', row')
    <2>1. "waiting" \in Live /\ InLine(line, row) /\ line' = Append(line, r)
      BY DEF Live, Parts, Typed, Insert
    <2> QED BY <1>1, <2>1, JoinLine
  <1> QED BY <1>1, <1>2

LEMMA InsertStep ==
  ASSUME Parts, NEW r \in Requests, Insert(r), row[r] \notin Live,
         \A s \in Slots : worker[s].job # r, order' \in [Orders -> OrderRow],
         \A q \in Orders \ {r} : order'[q] = order[q],
         r \in Orders => /\ order'[r].status = "queued" /\ order'[r].client
                        /\ order[r].status # "refunded",
         UNCHANGED <<slot, worker, granted, returned, removing, lost, bounds>>,
         unsent' \subseteq Orders
  PROVE  Parts'
  <1>1. /\ row' \in [Requests -> Live \cup Terminal \cup {"none"}]
        /\ row'[r] = "waiting" /\ \A q \in Requests \ {r} : row'[q] = row[q]
        /\ InLine(line', row')
    BY Inserted
  <1>2. Typed'
    BY <1>1 DEF Parts, Typed, bounds
  <1>3. Workers' /\ PoolSound' /\ HeldOnce'
    BY DEF Parts, Workers, PoolSound, HeldOnce, bounds
  <1>4. OrdersSound'
    BY <1>1, Statuses DEF Parts, OrdersSound, OrderSound, Dispatched
  <1>5. ServedSays'
    BY DEF Parts, ServedSays
  <1>6. ServedMarked'
    <2>1. \A s \in Slots : Serving(s) => worker[s].job \in Requests
      BY Statuses DEF Parts, Workers, WorkerSound, Serving
    <2> QED BY <1>1, <2>1 DEF Parts, ServedMarked, Serving, bounds
  <1>7. Held'
    BY <1>1 DEF Parts, Held
  <1>8. NeverStranded'
    BY <1>1, Statuses DEF Parts, NeverStranded, Live
  <1>9. EndsTrue'
    BY DEF Parts, EndsTrue
  <1> QED BY <1>2, <1>3, <1>4, <1>5, <1>6, <1>7, <1>8, <1>9 DEF Parts

LEMMA VisitStep ==
  ASSUME Parts, NEW v \in Visitors, Visit(v)
  PROVE  Parts'
  <1>1. v \in Requests /\ v \notin Orders
    BY Statuses
  <1> QED BY <1>1, InsertStep DEF Visit, Parts, Typed

(* Only the handlers that are under way change. *)
LEMMA HandlersOnly ==
  ASSUME Parts, UNCHANGED <<tables, slot, worker, granted, returned, lost, bounds>>,
         unsent' \subseteq Orders, removing' \subseteq Slots,
         \A s \in removing' : slot[s] = "pooled"
  PROVE  Parts'
  <1>1. Typed'
    BY DEF Parts, Typed, tables, bounds
  <1>2. Workers' /\ PoolSound' /\ HeldOnce' /\ OrdersSound' /\ ServedSays' /\ ServedMarked'
    BY DEF Parts, Workers, PoolSound, HeldOnce, OrdersSound, OrderSound, ServedSays,
           ServedMarked, Serving, tables, bounds
  <1>3. Held' /\ NeverStranded' /\ EndsTrue'
    BY DEF Parts, Held, NeverStranded, EndsTrue, tables
  <1> QED BY <1>1, <1>2, <1>3 DEF Parts

LEMMA DispatchStep ==
  ASSUME Parts, NEW o \in Orders, Dispatch(o)
  PROVE  Parts'
  <1>1. unsent' \subseteq Orders
    BY DEF Dispatch, Parts, Typed
  <1>2. CASE UNCHANGED tables
    BY <1>1, <1>2, HandlersOnly DEF Dispatch, Parts, Typed, PoolSound
  <1>3. CASE /\ ~order[o].client /\ row[o] = "none"
             /\ order[o].status \in {"paid", "awaiting_queue", "queued"} /\ Insert(o)
             /\ order' = [order EXCEPT ![o].status = "queued", ![o].client = TRUE]
    <2>1. order \in [Orders -> OrderRow] /\ o \in Requests
      BY Statuses DEF Parts, Typed
    <2>2. /\ order' \in [Orders -> OrderRow] /\ order'[o].status = "queued"
          /\ order'[o].client = TRUE /\ \A q \in Orders \ {o} : order'[q] = order[q]
      BY <1>3, <2>1 DEF OrderRow, OrderStatus
    <2>3. row[o] \notin Live /\ \A s \in Slots : worker[s].job # o
      BY <1>3, Statuses DEF Parts, OrdersSound, OrderSound
    <2> QED BY <1>1, <1>3, <2>1, <2>2, <2>3, InsertStep DEF Dispatch
  <1> QED BY <1>2, <1>3 DEF Dispatch, Enqueue

LEMMA RetryStep ==
  ASSUME Parts, \/ \E o \in Orders : RetryPurchase(o)
                \/ \E s \in Slots : CheckRemoval(s)
  PROVE  Parts'
  <1>1. unsent' \subseteq Orders /\ removing' \subseteq Slots
        /\ \A s \in removing' : slot[s] = "pooled"
    BY DEF RetryPurchase, CheckRemoval, Parts, Typed, PoolSound
  <1> QED BY <1>1, HandlersOnly DEF RetryPurchase, CheckRemoval

-----------------------------------------------------------------------------
(* A worker and the row it has claimed *)

LEMMA ClaimStep ==
  ASSUME Parts, NEW s \in Slots, Claim(s)
  PROVE  Parts'
  <1>0. worker \in [Slots -> WorkerRow] /\ WorkerSound(worker[s], granted)
        /\ worker[s].at = "polling" /\ worker[s].outcome = "none"
    BY DEF Parts, Typed, Workers, WorkerSound, Claim
  <1>1. PICK i \in DOMAIN line :
          /\ Oldest(i)
          /\ row' = [row EXCEPT ![line[i]] = "processing"]
          /\ worker' = [worker EXCEPT
               ![s].at = IF line[i] \in Orders THEN "claimed" ELSE "serving",
               ![s].job = line[i]]
    BY DEF Claim
  <1>2. PICK r \in Requests : r = line[i] /\ row[r] = "waiting"
    <2>1. line[i] \in Requests
      BY DEF Parts, Typed, InLine
    <2> QED BY <1>1, <2>1 DEF Oldest, Waits
  <1>3. /\ row' \in [Requests -> Live \cup Terminal \cup {"none"}]
        /\ row'[r] = "processing" /\ \A q \in Requests \ {r} : row'[q] = row[q]
    BY <1>1, <1>2 DEF Parts, Typed, Live
  <1>4. /\ worker' \in [Slots -> WorkerRow]
        /\ \A t \in Slots \ {s} : worker'[t] = worker[t]
        /\ worker'[s].at = (IF r \in Orders THEN "claimed" ELSE "serving")
        /\ worker'[s].job = r /\ worker'[s].outcome = "none"
    <2>1. PICK at \in Stages : at = IF r \in Orders THEN "claimed" ELSE "serving"
      BY DEF Stages
    <2>2. PICK w : w = [worker[s] EXCEPT !.at = at, !.job = r]
      OBVIOUS
    <2>3. w \in WorkerRow /\ w.at = at /\ w.job = r /\ w.outcome = "none"
      BY <1>0, <2>2 DEF WorkerRow
    <2>4. worker' = [worker EXCEPT ![s] = w]
      BY <1>0, <1>1, <1>2, <2>1, <2>2
    <2> QED BY <1>0, <2>1, <2>3, <2>4
  <1>5. Typed'
    <2>1. InLine(line, row')
      BY <1>2, <1>3, SameLine DEF Parts, Typed, Live
    <2> QED BY <1>3, <1>4, <2>1 DEF Claim, Parts, Typed, bounds
  <1>6. Workers'
    BY <1>4, Statuses DEF Parts, Workers, WorkerSound, Terminal, Claim
  <1>7. PoolSound'
    BY <1>0, <1>4 DEF Parts, PoolSound, Claim
  <1>8. OrdersSound'
    BY <1>2, <1>3, <1>4 DEF Parts, OrdersSound, OrderSound, Claim
  <1>9. ServedSays'
    BY <1>4 DEF Parts, ServedSays, Claim
  <1>10. \A t \in Slots : Busy(worker[t]) => worker[t].job \in Requests
    BY Statuses DEF Parts, Workers, WorkerSound, Busy
  <1>11. ServedMarked'
    BY <1>2, <1>3, <1>4, <1>10 DEF Parts, ServedMarked, Serving, Busy, Claim, bounds
  <1>12. Held'
    BY <1>0, <1>3, <1>4 DEF Parts, Held, Holds, Busy
  <1>13. HeldOnce'
    <2>1. ~scripted => \A t \in Slots : Busy(worker[t]) => worker[t].job # r
      BY <1>2 DEF Parts, ServedMarked, Serving, Busy
    <2> QED BY <1>4, <2>1 DEF Parts, HeldOnce, Claim, bounds
  <1>14. NeverStranded'
    BY <1>0, <1>2, <1>3, <1>4, Statuses DEF Parts, NeverStranded, Live, Claim
  <1>15. EndsTrue'
    BY DEF Parts, EndsTrue, Claim
  <1> QED BY <1>5, <1>6, <1>7, <1>8, <1>9, <1>11, <1>12, <1>13, <1>14, <1>15 DEF Parts

LEMMA ClaimNothingStep ==
  ASSUME Parts, NEW s \in Slots, ClaimNothing(s)
  PROVE  Parts'
  <1>0. worker \in [Slots -> WorkerRow] /\ WorkerSound(worker[s], granted)
        /\ worker[s].at = "polling"
    BY DEF Parts, Typed, Workers, ClaimNothing
  <1>1. /\ worker' \in [Slots -> WorkerRow]
        /\ \A t \in Slots \ {s} : worker'[t] = worker[t]
        /\ worker'[s].at = "idle" /\ worker'[s].job = worker[s].job
        /\ worker'[s].outcome = worker[s].outcome
    BY <1>0 DEF ClaimNothing, Moves, WorkerRow, Stages
  <1>2. PICK old \in SUBSET {r \in Requests : row[r] \in Terminal} :
          row' = [r \in Requests |-> IF r \in old THEN "none" ELSE row[r]]
    BY DEF ClaimNothing
  <1>3. /\ row' \in [Requests -> Live \cup Terminal \cup {"none"}]
        /\ \A r \in Requests : \/ row'[r] = row[r]
                               \/ row[r] \in Terminal /\ row'[r] = "none"
    <2>1. row \in [Requests -> Live \cup Terminal \cup {"none"}]
      BY DEF Parts, Typed
    <2>2. \A r \in Requests : row'[r] = IF r \in old THEN "none" ELSE row[r]
      BY <1>2
    <2>3. \A r \in Requests : \/ row'[r] = row[r]
                              \/ row[r] \in Terminal /\ row'[r] = "none"
      BY <2>2
    <2>4. \A r \in Requests : row'[r] \in Live \cup Terminal \cup {"none"}
      BY <2>1, <2>3
    <2>5. row' = [r \in Requests |-> row'[r]]
      BY <1>2
    <2> QED BY <2>3, <2>4, <2>5
  <1>4. Typed'
    <2>1. InLine(line, row')
      BY <1>3, SameLine, Statuses DEF Parts, Typed
    <2> QED BY <1>1, <1>3, <2>1 DEF ClaimNothing, Parts, Typed, bounds
  <1>5. Workers' /\ PoolSound'
    BY <1>0, <1>1 DEF Parts, Workers, WorkerSound, PoolSound, ClaimNothing
  <1>6. OrdersSound'
    BY <1>1, <1>3, Statuses DEF Parts, OrdersSound, OrderSound, ClaimNothing
  <1>7. ServedSays'
    BY <1>1 DEF Parts, ServedSays, ClaimNothing
  <1>8. ServedMarked'
    <2>1. \A t \in Slots : Busy(worker[t]) => worker[t].job \in Requests
      BY Statuses DEF Parts, Workers, WorkerSound, Busy
    <2> QED BY <1>1, <1>3, <2>1 DEF Parts, ServedMarked, Serving, Busy, ClaimNothing, bounds,
                                    Terminal
  <1>9. Held' /\ HeldOnce'
    BY <1>0, <1>1, <1>3 DEF Parts, Held, Holds, HeldOnce, Busy, ClaimNothing, bounds
  <1>10. NeverStranded'
    BY <1>0, <1>1, <1>3, Statuses DEF Parts, NeverStranded, ClaimNothing
  <1>11. EndsTrue'
    BY DEF Parts, EndsTrue, ClaimNothing
  <1> QED BY <1>4, <1>5, <1>6, <1>7, <1>8, <1>9, <1>10, <1>11 DEF Parts

LEMMA GrantStep ==
  ASSUME Parts, NEW s \in Slots, Grant(s)
  PROVE  Parts'
  <1>1. granted \subseteq granted' /\ granted' \subseteq Orders
    BY DEF Grant, Parts, Typed
  <1>2. Typed'
    BY <1>1 DEF Grant, Parts, Typed, tables, bounds
  <1>3. Workers'
    BY <1>1 DEF Grant, Parts, Workers, WorkerSound
  <1>4. PoolSound' /\ HeldOnce' /\ OrdersSound' /\ ServedSays' /\ ServedMarked'
    BY DEF Grant, Parts, PoolSound, HeldOnce, OrdersSound, OrderSound, ServedSays,
           ServedMarked, Serving, tables, bounds
  <1>5. Held' /\ NeverStranded'
    BY DEF Grant, Parts, Held, NeverStranded, tables
  <1>6. EndsTrue'
    BY <1>1 DEF Grant, Parts, EndsTrue, tables
  <1> QED BY <1>2, <1>3, <1>4, <1>5, <1>6 DEF Parts

LEMMA ReleasedRow ==
  ASSUME Typed, NEW s \in Slots, Released(s)
  PROVE  /\ worker' \in [Slots -> WorkerRow]
         /\ \A t \in Slots \ {s} : worker'[t] = worker[t]
         /\ worker'[s].at = "idle" /\ worker'[s].job = NONE /\ worker'[s].outcome = "none"
  <1>1. PICK r : r = [Idle("idle") EXCEPT !.stop = worker[s].stop]
    OBVIOUS
  <1>2. r \in WorkerRow /\ r.at = "idle" /\ r.job = NONE /\ r.outcome = "none"
    BY <1>1, WorkerRows DEF Idle, WorkerRow, Stages
  <1>3. worker' = [worker EXCEPT ![s] = r]
    BY <1>1 DEF Released
  <1> QED BY <1>2, <1>3 DEF Typed

(* The worker lets go of a row whose end it has written, or which is gone.  *)
LEMMA FinalizeRowStep ==
  ASSUME Parts, NEW s \in Slots, FinalizeRow(s)
  PROVE  Parts'
  <1>0. /\ worker \in [Slots -> WorkerRow] /\ WorkerSound(worker[s], granted)
        /\ worker[s].at = "finishing"
    BY DEF Parts, Typed, Workers, FinalizeRow
  <1>1. PICK r \in Requests : r = worker[s].job /\ worker[s].outcome \in Terminal
    BY <1>0 DEF WorkerSound
  <1>2. /\ row' \in [Requests -> Live \cup Terminal \cup {"none"}]
        /\ \A q \in Requests \ {r} : row'[q] = row[q]
        /\ row'[r] \in Terminal \cup {"none"} /\ (row[r] = "none" => row'[r] = "none")
        /\ InLine(line', row')
    <2>1. CASE row[r] = "none"
      BY <1>1, <2>1 DEF FinalizeRow, Parts, Typed
    <2>2. CASE row[r] # "none"
      <3>1. row' = [row EXCEPT ![r] = worker[s].outcome] /\ Leaves(r)
        BY <1>1, <2>2 DEF FinalizeRow
      <3>2. /\ row' \in [Requests -> Live \cup Terminal \cup {"none"}]
            /\ row'[r] \in Terminal /\ \A q \in Requests \ {r} : row'[q] = row[q]
        BY <1>1, <3>1 DEF Parts, Typed
      <3>3. InLine(line', row')
        BY <3>1, <3>2, LeaveLine, Statuses DEF Parts, Typed
      <3> QED BY <2>2, <3>2, <3>3
    <2> QED BY <2>1, <2>2
  <1>3. /\ worker' \in [Slots -> WorkerRow]
        /\ \A t \in Slots \ {s} : worker'[t] = worker[t]
        /\ \/ /\ worker'[s].at = "settling" /\ worker'[s].job = r /\ r \in Orders
              /\ worker'[s].outcome = worker[s].outcome
           \/ /\ worker'[s].at = "idle" /\ worker'[s].job = NONE
              /\ worker'[s].outcome = "none" /\ (r \in Orders => row[r] = "none")
    <2>1. CASE r \in Orders /\ row[r] # "none"
      <3>1. worker' = [worker EXCEPT ![s].at = "settling"]
        BY <1>1, <2>1 DEF FinalizeRow, Moves
      <3> QED BY <1>0, <1>1, <2>1, <3>1 DEF WorkerRow, Stages
    <2>2. CASE ~(r \in Orders /\ row[r] # "none")
      <3>1. Released(s)
        BY <1>1, <2>2 DEF FinalizeRow
      <3> QED BY <2>2, <3>1, ReleasedRow DEF Parts
    <2> QED BY <2>1, <2>2
  <1>4. UNCHANGED <<order, slot, granted, returned, unsent, removing, lost, bounds>>
    BY DEF FinalizeRow
  <1>5. Typed'
    BY <1>2, <1>3, <1>4 DEF Parts, Typed, bounds
  <1>6. Workers'
    BY <1>0, <1>1, <1>3, <1>4, Statuses DEF Parts, Workers, WorkerSound
  <1>7. PoolSound'
    BY <1>0, <1>3, <1>4 DEF Parts, PoolSound
  <1>8. OrdersSound'
    BY <1>1, <1>2, <1>3, <1>4, Statuses DEF Parts, OrdersSound, OrderSound
  <1>9. ServedSays'
    BY <1>0, <1>1, <1>3, <1>4 DEF Parts, ServedSays
  <1>10. ServedMarked'
    <2>1. ~scripted => \A t \in Slots \ {s} : Busy(worker[t]) => worker[t].job # r
      BY <1>0, <1>1 DEF Parts, HeldOnce, Busy
    <2>2. \A t \in Slots : Busy(worker[t]) => worker[t].job \in Requests
      BY Statuses DEF Parts, Workers, WorkerSound, Busy
    <2> QED BY <1>2, <1>3, <1>4, <2>1, <2>2 DEF Parts, ServedMarked, Serving, Busy, bounds
  <1>11. Held'
    BY <1>0, <1>1, <1>2, <1>3 DEF Parts, Held, Holds, Busy, Terminal
  <1>12. HeldOnce'
    BY <1>3, <1>4 DEF Parts, HeldOnce, Busy, bounds
  <1>13. NeverStranded'
    BY <1>0, <1>1, <1>2, <1>3, <1>4, Statuses DEF Parts, NeverStranded
  <1>14. EndsTrue'
    BY <1>4 DEF Parts, EndsTrue
  <1> QED BY <1>5, <1>6, <1>7, <1>8, <1>9, <1>10, <1>11, <1>12, <1>13, <1>14 DEF Parts

-----------------------------------------------------------------------------
(* What a worker writes to the order *)

LEMMA Transitions ==
  ASSUME NEW from \in Dispatched, NEW to \in {"processing", "completed", "failed"}
  PROVE  /\ TransitionOk(from, to) => from # "refunded"
         /\ TransitionOk(from, "processing") => from \in {"queued", "processing"}
         /\ from = "queued" => TransitionOk(from, "processing")
         /\ from = "processing" => TransitionOk(from, to)
         /\ from = "failed" => TransitionOk(from, "failed") /\ TransitionOk(from, "completed")
  BY DEF Dispatched, TransitionOk, VALID_ACT_TRANSITIONS

LEMMA OrderWritten ==
  ASSUME Parts, NEW o \in Orders, NEW to \in {"processing", "completed", "failed"},
         WriteOrder(o, to)
  PROVE  /\ order' \in [Orders -> OrderRow]
         /\ \A q \in Orders \ {o} : order'[q] = order[q]
         /\ order'[o].coin = order[o].coin
         /\ \/ /\ TransitionOk(order[o].status, to)
               /\ order'[o].status = to /\ order'[o].client = TRUE
            \/ ~TransitionOk(order[o].status, to) /\ order'[o] = order[o]
  <1>1. order \in [Orders -> OrderRow]
    BY DEF Parts, Typed
  <1>2. CASE TransitionOk(order[o].status, to)
    <2>1. order' = [order EXCEPT ![o].status = to, ![o].client = TRUE]
      BY <1>2 DEF WriteOrder
    <2> QED BY <1>1, <1>2, <2>1 DEF OrderRow, OrderStatus
  <1>3. CASE ~TransitionOk(order[o].status, to)
    <2>1. order' = order
      BY <1>3 DEF WriteOrder
    <2> QED BY <1>1, <1>3, <2>1
  <1> QED BY <1>2, <1>3

(* An order a worker has was dispatched. *)
LEMMA WorkedOrder ==
  ASSUME Parts, NEW s \in Slots, worker[s].job \in Orders
  PROVE  order[worker[s].job].client /\ order[worker[s].job].status \in Dispatched
  BY DEF Parts, OrdersSound, OrderSound

LEMMA MarkProcessingStep ==
  ASSUME Parts, NEW s \in Slots, MarkProcessing(s)
  PROVE  Parts'
  <1>0. /\ worker \in [Slots -> WorkerRow] /\ WorkerSound(worker[s], granted)
        /\ worker[s].at = "claimed"
    BY DEF Parts, Typed, Workers, MarkProcessing
  <1>1. PICK o \in Orders : o = worker[s].job
    BY <1>0 DEF WorkerSound
  <1>2. /\ worker' \in [Slots -> WorkerRow] /\ worker'[s].at = "serving"
        /\ \A t \in Slots \ {s} : worker'[t] = worker[t]
        /\ worker'[s].job = o /\ worker'[s].outcome = worker[s].outcome
    BY <1>0, <1>1 DEF MarkProcessing, Moves, WorkerRow, Stages
  <1>3. order[o].client /\ order[o].status \in Dispatched
    BY <1>1, WorkedOrder
  <1>4. /\ order' \in [Orders -> OrderRow]
        /\ \A q \in Orders \ {o} : order'[q] = order[q]
        /\ \/ order'[o].status = "processing" /\ order[o].status \in {"queued", "processing"}
           \/ order'[o].status = order[o].status /\ order[o].status # "queued"
        /\ order'[o].client /\ order'[o].coin = order[o].coin
    BY <1>1, <1>3, OrderWritten, Transitions DEF MarkProcessing
  <1>5. UNCHANGED <<row, line, slot, granted, returned, unsent, removing, lost, bounds>>
    BY DEF MarkProcessing
  <1>6. Typed'
    BY <1>2, <1>4, <1>5 DEF Parts, Typed, bounds
  <1>7. Workers' /\ PoolSound'
    BY <1>0, <1>1, <1>2, <1>5, Statuses DEF Parts, Workers, WorkerSound, PoolSound
  <1>8. OrdersSound'
    BY <1>1, <1>2, <1>3, <1>4, <1>5 DEF Parts, OrdersSound, OrderSound, Dispatched
  <1>9. ServedSays'
    BY <1>1, <1>2, <1>3, <1>4, <1>5 DEF Parts, ServedSays, Dispatched
  <1>10. ServedMarked' /\ Held' /\ HeldOnce'
    BY <1>0, <1>1, <1>2, <1>5
       DEF Parts, ServedMarked, Held, HeldOnce, Holds, Serving, Busy, bounds
  <1>11. NeverStranded'
    BY <1>0, <1>2, <1>4, <1>5 DEF Parts, NeverStranded
  <1>12. EndsTrue'
    <2>1. \A q \in Orders : order'[q].coin = order[q].coin
      BY <1>4
    <2> QED BY <1>4, <1>5, <2>1 DEF Parts, EndsTrue
  <1> QED BY <1>6, <1>7, <1>8, <1>9, <1>10, <1>11, <1>12 DEF Parts

LEMMA MarkFailsStep ==
  ASSUME Parts, NEW s \in Slots, MarkFails(s)
  PROVE  Parts'
  <1>0. /\ worker \in [Slots -> WorkerRow] /\ WorkerSound(worker[s], granted)
        /\ worker[s].at = "claimed"
    BY DEF Parts, Typed, Workers, MarkFails
  <1>1. PICK o \in Orders : o = worker[s].job
    BY <1>0 DEF WorkerSound
  <1>2. /\ worker' \in [Slots -> WorkerRow] /\ worker'[s].at = "serving"
        /\ \A t \in Slots \ {s} : worker'[t] = worker[t]
        /\ worker'[s].job = o /\ worker'[s].outcome = worker[s].outcome
    BY <1>0, <1>1 DEF MarkFails, Moves, WorkerRow, Stages
  <1>3. /\ UNCHANGED <<order, row, line, slot, granted, returned, unsent, removing, scripted>>
        /\ lost' = lost \cup {o} /\ mishaps' \in 0..MaxMishaps
    BY <1>1, MishapCount DEF MarkFails, Fault, tables, Parts
  <1>4. Typed'
    BY <1>2, <1>3 DEF Parts, Typed
  <1>5. Workers' /\ PoolSound'
    BY <1>0, <1>1, <1>2, <1>3, Statuses DEF Parts, Workers, WorkerSound, PoolSound
  <1>6. OrdersSound' /\ ServedSays'
    BY <1>1, <1>2, <1>3 DEF Parts, OrdersSound, OrderSound, ServedSays
  <1>7. ServedMarked' /\ Held' /\ HeldOnce'
    BY <1>0, <1>1, <1>2, <1>3
       DEF Parts, ServedMarked, Held, HeldOnce, Holds, Serving, Busy
  <1>8. NeverStranded' /\ EndsTrue'
    BY <1>0, <1>2, <1>3 DEF Parts, NeverStranded, EndsTrue
  <1> QED BY <1>4, <1>5, <1>6, <1>7, <1>8 DEF Parts

LEMMA SettleOrderStep ==
  ASSUME Parts, NEW s \in Slots, SettleOrder(s)
  PROVE  Parts'
  <1>0. /\ WorkerSound(worker[s], granted) /\ worker[s].at = "settling"
    BY DEF Parts, Typed, Workers, SettleOrder
  <1>1. PICK o \in Orders : o = worker[s].job
    BY <1>0 DEF WorkerSound
  <1>2. /\ worker' \in [Slots -> WorkerRow]
        /\ \A t \in Slots \ {s} : worker'[t] = worker[t]
        /\ worker'[s].at = "idle" /\ worker'[s].job = NONE /\ worker'[s].outcome = "none"
    BY ReleasedRow DEF SettleOrder, Parts
  <1>3. order[o].client /\ order[o].status \in Dispatched
        /\ (o \notin lost => order[o].status # "queued")
    BY <1>0, <1>1, WorkedOrder DEF Parts, ServedSays
  <1>4. PICK to \in {"completed", "failed"} :
          WriteOrder(o, to) /\ (to = "completed" => o \in granted)
    BY <1>0, <1>1 DEF SettleOrder, WorkerSound
  <1>5. /\ order' \in [Orders -> OrderRow]
        /\ \A q \in Orders \ {o} : order'[q] = order[q]
        /\ \/ order'[o].status = to /\ order[o].status # "refunded"
           \/ order'[o].status = order[o].status /\ order[o].status # "processing"
        /\ order'[o].client /\ order'[o].coin = order[o].coin
    BY <1>3, <1>4, OrderWritten, Transitions
  <1>6. UNCHANGED <<row, line, slot, granted, returned, unsent, removing, lost, bounds>>
    BY DEF SettleOrder
  <1>7. Typed'
    BY <1>2, <1>5, <1>6 DEF Parts, Typed, bounds
  <1>8. Workers' /\ PoolSound'
    BY <1>0, <1>2, <1>6, Statuses DEF Parts, Workers, WorkerSound, PoolSound
  <1>9. OrdersSound'
    BY <1>2, <1>3, <1>5, <1>6, Statuses DEF Parts, OrdersSound, OrderSound, Dispatched
  <1>10. ServedSays'
    BY <1>2, <1>3, <1>5, <1>6 DEF Parts, ServedSays, Dispatched
  <1>11. ServedMarked' /\ Held' /\ HeldOnce'
    BY <1>0, <1>2, <1>6
       DEF Parts, ServedMarked, Held, HeldOnce, Holds, Serving, Busy, bounds
  <1>12. NeverStranded'
    BY <1>1, <1>2, <1>3, <1>5, <1>6 DEF Parts, NeverStranded
  <1>13. EndsTrue'
    <2>1. \A q \in Orders : order'[q].coin = order[q].coin
      BY <1>5
    <2> QED BY <1>4, <1>5, <1>6, <2>1 DEF Parts, EndsTrue
  <1> QED BY <1>7, <1>8, <1>9, <1>10, <1>11, <1>12, <1>13 DEF Parts

LEMMA SettleFailsStep ==
  ASSUME Parts, NEW s \in Slots, SettleFails(s)
  PROVE  Parts'
  <1>0. /\ WorkerSound(worker[s], granted) /\ worker[s].at = "settling"
    BY DEF Parts, Typed, Workers, SettleFails
  <1>1. PICK o \in Orders : o = worker[s].job
    BY <1>0 DEF WorkerSound
  <1>2. /\ worker' \in [Slots -> WorkerRow]
        /\ \A t \in Slots \ {s} : worker'[t] = worker[t]
        /\ worker'[s].at = "idle" /\ worker'[s].job = NONE /\ worker'[s].outcome = "none"
    BY ReleasedRow DEF SettleFails, Parts
  <1>3. /\ UNCHANGED <<order, row, line, slot, granted, returned, unsent, removing, scripted>>
        /\ lost' = lost \cup {o} /\ mishaps' \in 0..MaxMishaps
    BY <1>1, MishapCount DEF SettleFails, Fault, tables, Parts
  <1>4. Typed'
    BY <1>2, <1>3 DEF Parts, Typed
  <1>5. Workers' /\ PoolSound'
    BY <1>0, <1>2, <1>3, Statuses DEF Parts, Workers, WorkerSound, PoolSound
  <1>6. OrdersSound' /\ ServedSays'
    BY <1>2, <1>3, Statuses DEF Parts, OrdersSound, OrderSound, ServedSays
  <1>7. ServedMarked' /\ Held' /\ HeldOnce'
    BY <1>0, <1>2, <1>3
       DEF Parts, ServedMarked, Held, HeldOnce, Holds, Serving, Busy
  <1>8. NeverStranded' /\ EndsTrue'
    BY <1>1, <1>2, <1>3 DEF Parts, NeverStranded, EndsTrue
  <1> QED BY <1>4, <1>5, <1>6, <1>7, <1>8 DEF Parts

-----------------------------------------------------------------------------
(* The rows in processing are reset *)

LEMMA RowsReset ==
  ASSUME Parts, ResetProcessing, UNCHANGED line
  PROVE  /\ row' \in [Requests -> Live \cup Terminal \cup {"none"}]
         /\ InLine(line', row')
         /\ \A r \in Requests : /\ row'[r] # "processing"
                                /\ row'[r] \in Live <=> row[r] \in Live
                                /\ row[r] = "none" => row'[r] = "none"
  <1>1. row \in [Requests -> Live \cup Terminal \cup {"none"}] /\ InLine(line, row)
    BY DEF Parts, Typed
  <1>2. \A r \in Requests :
          row'[r] = IF row[r] = "processing" THEN "waiting" ELSE row[r]
    BY DEF ResetProcessing
  <1>3. row' \in [Requests -> Live \cup Terminal \cup {"none"}]
    BY <1>1, <1>2 DEF ResetProcessing, Live
  <1>4. \A r \in Requests : /\ row'[r] # "processing"
                            /\ row'[r] \in Live <=> row[r] \in Live
                            /\ row[r] = "none" => row'[r] = "none"
    BY <1>2 DEF Live
  <1> QED BY <1>1, <1>3, <1>4, SameLine

LEMMA ScriptRunsStep ==
  ASSUME Parts, ScriptRuns
  PROVE  Parts'
  <1>1. /\ row' \in [Requests -> Live \cup Terminal \cup {"none"}]
        /\ InLine(line', row')
        /\ \A r \in Requests : /\ row'[r] # "processing"
                               /\ row'[r] \in Live <=> row[r] \in Live
                               /\ row[r] = "none" => row'[r] = "none"
    BY RowsReset DEF ScriptRuns
  <1>2. /\ UNCHANGED <<order, line, slot, worker, granted, returned, unsent, removing, lost>>
        /\ scripted' = TRUE /\ mishaps' \in 0..MaxMishaps
    BY MishapCount DEF ScriptRuns, Parts
  <1>3. Typed'
    BY <1>1, <1>2 DEF Parts, Typed
  <1>4. Workers' /\ PoolSound' /\ ServedSays' /\ ServedMarked' /\ HeldOnce' /\ EndsTrue'
    BY <1>2 DEF Parts, Workers, PoolSound, ServedSays, ServedMarked, HeldOnce, EndsTrue
  <1>5. OrdersSound' /\ Held' /\ NeverStranded'
    BY <1>1, <1>2, Statuses DEF Parts, OrdersSound, OrderSound, Held, NeverStranded
  <1> QED BY <1>3, <1>4, <1>5 DEF Parts

LEMMA RestartStep ==
  ASSUME Parts, Restart
  PROVE  Parts'
  <1>1. /\ row' \in [Requests -> Live \cup Terminal \cup {"none"}]
        /\ InLine(line', row')
        /\ \A r \in Requests : /\ row'[r] # "processing"
                               /\ row'[r] \in Live <=> row[r] \in Live
                               /\ row[r] = "none" => row'[r] = "none"
    BY RowsReset DEF Restart
  <1>2. /\ UNCHANGED <<order, line, slot, granted, returned, scripted>>
        /\ unsent' = {} /\ removing' = {} /\ mishaps' \in 0..MaxMishaps
    BY MishapCount DEF Restart, Parts
  <1>3. /\ worker' \in [Slots -> WorkerRow]
        /\ \A s \in Slots : /\ worker'[s].at \in {"idle", "off"}
                            /\ worker'[s].at = "idle" => slot[s] = "pooled"
                            /\ worker'[s].job = NONE /\ worker'[s].outcome = "none"
    <2>1. \A s \in Slots :
            worker'[s] = Idle(IF slot[s] = "pooled" THEN "idle" ELSE "off")
      BY DEF Restart
    <2>2. "idle" \in Stages /\ "off" \in Stages
      BY DEF Stages
    <2>3. \A s \in Slots : worker'[s] \in WorkerRow
      BY <2>1, <2>2, IdleRow
    <2>4. worker' \in [Slots -> WorkerRow]
      BY <2>3 DEF Restart
    <2> QED BY <2>1, <2>2, <2>4, IdleRow
  <1>4. lost' \subseteq Orders /\ lost \subseteq lost'
        /\ \A s \in Slots : worker[s].at = "settling" => worker[s].job \in lost'
    BY DEF Restart, Parts, Typed, Workers, WorkerSound
  <1>5. Typed'
    BY <1>1, <1>2, <1>3, <1>4 DEF Parts, Typed
  <1>6. Workers' /\ PoolSound' /\ ServedSays' /\ ServedMarked' /\ HeldOnce'
    BY <1>2, <1>3, Statuses
       DEF Parts, Workers, WorkerSound, PoolSound, ServedSays, ServedMarked, HeldOnce,
           Serving, Busy
  <1>7. OrdersSound'
    BY <1>1, <1>2, <1>3, Statuses DEF Parts, OrdersSound, OrderSound
  <1>8. Held'
    BY <1>1 DEF Held, Live
  <1>9. NeverStranded'
    BY <1>1, <1>2, <1>4, Statuses DEF Parts, NeverStranded
  <1>10. EndsTrue'
    <2>1. granted' = granted /\ order' = order /\ returned' = returned
      BY <1>2
    <2> QED BY <2>1 DEF Parts, EndsTrue
  <1> QED BY <1>5, <1>6, <1>7, <1>8, <1>9, <1>10 DEF Parts

-----------------------------------------------------------------------------
(* The invariant *)

LEMMA InitInvariant == Init => Parts
  <1> SUFFICES ASSUME Init
               PROVE  Parts
    OBVIOUS
  <1>1. \A s \in Slots : /\ worker[s] \in WorkerRow /\ worker[s].at \in {"idle", "off"}
                         /\ worker[s].job = NONE /\ worker[s].outcome = "none"
                         /\ slot[s] = "unused" => worker[s].at = "off"
    <2> SUFFICES ASSUME NEW s \in Slots
                 PROVE  /\ worker[s] \in WorkerRow /\ worker[s].at \in {"idle", "off"}
                        /\ worker[s].job = NONE /\ worker[s].outcome = "none"
                        /\ slot[s] = "unused" => worker[s].at = "off"
      OBVIOUS
    <2> DEFINE stage == IF s \in FirstSlots THEN "idle" ELSE "off"
    <2>1. stage \in Stages /\ stage \in {"idle", "off"}
      BY DEF Stages
    <2>2. worker[s] = Idle(stage) /\ (slot[s] = "unused" => stage = "off")
      BY DEF Init
    <2> HIDE DEF stage
    <2> QED BY <2>1, <2>2, IdleRow
  <1>2. \A o \in Orders : /\ order[o] \in OrderRow /\ order[o].status = "none"
                          /\ order[o].client = FALSE
    BY DEF Init, OrderRow
  <1>3. InLine(line, row)
    <2>1. line = <<>> /\ Range(line) = {} /\ IsInjective(line) /\ line \in Seq(Requests)
      BY DEF Init, Range, IsInjective
    <2>2. {r \in Requests : row[r] \in Live} = {}
      BY DEF Init, Live
    <2> QED BY <2>1, <2>2 DEF InLine
  <1>4. Typed
    <2>1. worker \in [Slots -> WorkerRow]
      BY <1>1 DEF Init
    <2>2. order \in [Orders -> OrderRow]
      BY <1>2 DEF Init
    <2>3. row \in [Requests -> Live \cup Terminal \cup {"none"}]
          /\ slot \in [Slots -> {"unused", "pooled", "removed"}]
      BY DEF Init
    <2>4. /\ granted = {} /\ unsent = {} /\ removing = {} /\ lost = {}
          /\ scripted = FALSE /\ mishaps = 0
      BY DEF Init
    <2>5. returned \in [Orders -> SUBSET RefundKeys]
      BY DEF Init
    <2>6. mishaps \in 0..MaxMishaps
      BY <2>4, BoundsAssumption
    <2> QED BY <1>3, <2>1, <2>2, <2>3, <2>4, <2>5, <2>6 DEF Typed
  <1>5. Workers /\ PoolSound /\ ServedSays /\ ServedMarked /\ HeldOnce
    BY <1>1, Statuses DEF Init, Workers, WorkerSound, PoolSound, ServedSays, ServedMarked,
                          HeldOnce, Serving, Busy
  <1>6. OrdersSound /\ NeverStranded
    BY <1>1, <1>2, Statuses DEF Init, OrdersSound, OrderSound, NeverStranded
  <1>7. Held
    BY DEF Init, Held
  <1>8. EndsTrue
    BY <1>2 DEF Init, EndsTrue
  <1> QED BY <1>4, <1>5, <1>6, <1>7, <1>8 DEF Parts

LEMMA WorkStep ==
  ASSUME Parts, NEW s \in Slots, Work(s)
  PROVE  Parts'
  BY LoopStep, ClaimStep, ClaimNothingStep, MarkProcessingStep, ServeStep,
     FinalizeRowStep, SettleOrderStep
     DEF Work

LEMMA NextStep == Parts /\ [Next]_vars => Parts'
  <1> SUFFICES ASSUME Parts, [Next]_vars
               PROVE  Parts'
    OBVIOUS
  <1>1. CASE UNCHANGED vars
    BY <1>1, HandlersOnly DEF vars, tables, bounds, Parts, Typed, PoolSound
  <1>2. ASSUME NEW o \in Orders,
               \/ Sell(o) \/ RetryPurchase(o) \/ Dispatch(o)
               \/ Refund(o) \/ RefundManual(o)
        PROVE  Parts'
    BY <1>2, SellStep, RetryStep, DispatchStep, RefundStep, RefundManualStep
  <1>3. ASSUME NEW v \in Visitors, Visit(v)
        PROVE  Parts'
    BY <1>3, VisitStep
  <1>4. ASSUME NEW s \in Slots, Work(s) \/ Grant(s)
        PROVE  Parts'
    BY <1>4, WorkStep, GrantStep
  <1>5. ASSUME NEW s \in Slots,
               ClaimFails(s) \/ MarkFails(s) \/ FinalizeFails(s) \/ SettleFails(s)
        PROVE  Parts'
    BY <1>5, ClaimFailsStep, MarkFailsStep, FinalizeFailsStep, SettleFailsStep
  <1>6. ASSUME NEW s \in Slots, AddSlot(s) \/ CheckRemoval(s) \/ RemoveSlot(s)
        PROVE  Parts'
    BY <1>6, AddSlotStep, RetryStep, RemoveSlotStep
  <1>7. CASE Restart \/ ScriptRuns
    BY <1>7, RestartStep, ScriptRunsStep
  <1> QED BY <1>1, <1>2, <1>3, <1>4, <1>5, <1>6, <1>7 DEF Next

LEMMA Invariant == Spec => []IInv
  <1>1. Parts /\ [Next]_vars => Parts'
    BY NextStep
  <1>2. Init => Parts
    BY InitInvariant
  <1>3. Spec => []Parts
    BY <1>1, <1>2, PTL DEF Spec
  <1>4. Parts => IInv
    BY InvariantParts
  <1> QED BY <1>3, <1>4, PTL

-----------------------------------------------------------------------------
(* The results *)

(* Every row keeps its type, and the line holds each row that waits or is   *)
(* processed once and no other.                                             *)
THEOREM QueueTyped == Spec => []TypeOK
  <1>1. IInv => TypeOK
    BY DEF IInv
  <1> QED BY <1>1, Invariant, PTL

(* However large the pool, and whatever is removed or restarted: each row   *)
(* in processing has a worker, and no two workers share one as long as no   *)
(* other process resets the rows.                                           *)
THEOREM RowsHaveOneWorker == Spec => []RowsHeldOnce
  <1>1. IInv => RowsHeldOnce
    BY DEF IInv
  <1> QED BY <1>1, Invariant, PTL

(* An order whose status writes all arrived never says that it is queued or *)
(* processing with neither a row nor a worker left to end it.               *)
THEOREM NoOrderStranded == Spec => []NeverStranded
  <1>1. IInv => NeverStranded
    BY DEF IInv
  <1> QED BY <1>1, Invariant, PTL

(* What an order says of its end is true: an order paid with Coin had it    *)
(* back once if it is refunded, by whichever endpoint, no other order had   *)
(* any back, and a completed order has its entitlement.                     *)
THEOREM EndsAreTrue == Spec => []EndsTrue
  <1>1. IInv => EndsTrue
    BY DEF IInv
  <1> QED BY <1>1, Invariant, PTL
=============================================================================
