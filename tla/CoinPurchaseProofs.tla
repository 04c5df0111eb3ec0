------------------------- MODULE CoinPurchaseProofs -------------------------
(* Type correctness of CoinPurchase, ChargedOnce and JobKeepsRequest, for any *)
(* keys, forms, adjustments, threads and bounds.                              *)
EXTENDS CoinPurchase, FiniteSetTheorems, TLAPS

OrderRow == [form : Forms, key : Keys, status : {"paid", "completed", "failed", "refunded"},
             request : Nat]
Row == [at : {"idle", "checked", "dispatch", "insert", "name"},
        key : Keys \cup {None}, form : Forms \cup {None}, order : Nat, request : Nat]

Typed ==
  /\ balance \in Nat /\ minted \in Nat
  /\ orders \in Seq(OrderRow) /\ job \in Seq(Nat) /\ Len(job) = Len(orders)
  /\ handler \in [Handlers -> Row]

(* No id is ahead of the counter they are minted from. *)
Counted ==
  \A o \in DOMAIN job : job[o] \leq minted /\ orders[o].request \leq minted

(* What a thread may hold, given the jobs and the ids minted: an order that is *)
(* there, and before the insertion an id that no job has.                      *)
Holds(r, jobs, n) ==
  /\ r \in Row /\ r.request \leq n
  /\ r.order \in DOMAIN jobs \cup {0}
  /\ r.at = "checked" => r.key \in Keys /\ r.form \in Forms
  /\ r.at \in {"dispatch", "insert", "name"} => r.order \in DOMAIN jobs
  /\ r.at = "insert" => r.request # 0 /\ \A o \in DOMAIN jobs : jobs[o] # r.request

(* No two threads are about to insert the same id, and no two orders have one. *)
Apart ==
  \A g, h \in Handlers :
    handler[g].at = "insert" /\ handler[h].at = "insert"
      /\ handler[g].request = handler[h].request => g = h

OneOrderEach == \A o, p \in DOMAIN job : job[o] # 0 /\ job[o] = job[p] => o = p

PInv ==
  /\ Typed /\ Counted /\ Apart /\ OneOrderEach
  /\ \A h \in Handlers : Holds(handler[h], job, minted)

(* What a step may do to the jobs: add orders, and give an order without a job one. *)
Kept == \A o \in DOMAIN job : o \in DOMAIN job' /\ (job[o] # 0 => job'[o] = job[o])

Promised == PInv' /\ Kept

-----------------------------------------------------------------------------
(* The rows of the tables *)

LEMMA Rows ==
  ASSUME Typed
  PROVE  /\ DOMAIN orders = DOMAIN job /\ DOMAIN job \subseteq Nat
         /\ \A o \in DOMAIN job :
              /\ job[o] \in Nat /\ orders[o] \in OrderRow /\ orders[o].form \in Forms
              /\ orders[o].key \in Keys /\ orders[o].request \in Nat
              /\ orders[o].status \in {"paid", "completed", "failed", "refunded"}
  <1>1. /\ DOMAIN orders = DOMAIN job /\ DOMAIN job \subseteq Nat
        /\ \A o \in DOMAIN job : job[o] \in Nat /\ orders[o] \in OrderRow
    BY DEF Typed
  <1> QED BY <1>1 DEF OrderRow

(* One row of the orders is written. *)
LEMMA WriteOrder ==
  ASSUME Typed, NEW o \in DOMAIN orders, NEW row \in OrderRow,
         orders' = [orders EXCEPT ![o] = row]
  PROVE  /\ orders' \in Seq(OrderRow) /\ Len(orders') = Len(orders) /\ orders'[o] = row
         /\ \A p \in DOMAIN orders \ {o} : orders'[p] = orders[p]
  BY DEF Typed

(* The rows of the threads *)

LEMMA MoveThread ==
  ASSUME PInv, NEW h \in Handlers, NEW r, Becomes(h, r), Holds(r, job', minted'),
         \A g \in Handlers \ {h} : Holds(handler[g], job', minted'),
         r.at = "insert" => \A g \in Handlers \ {h} :
                              handler[g].at = "insert" => handler[g].request # r.request
  PROVE  /\ handler' \in [Handlers -> Row] /\ Apart'
         /\ \A g \in Handlers : Holds(handler'[g], job', minted')
  <1>1. /\ handler' \in [Handlers -> Row] /\ handler'[h] = r
        /\ \A g \in Handlers \ {h} : handler'[g] = handler[g]
    BY DEF PInv, Typed, Becomes, Holds
  <1>2. Apart'
    BY <1>1 DEF PInv, Apart
  <1> QED BY <1>1, <1>2

(* A thread that moves while the tables stay as they are. *)
LEMMA MoveOnly ==
  ASSUME PInv, NEW h \in Handlers, NEW r, Becomes(h, r), Holds(r, job, minted),
         r.at # "insert", UNCHANGED <<balance, orders, job, minted>>
  PROVE  Promised
  <1>1. /\ handler' \in [Handlers -> Row] /\ Apart'
        /\ \A g \in Handlers : Holds(handler'[g], job', minted')
    BY MoveThread DEF PInv
  <1> QED BY <1>1 DEF PInv, Typed, Counted, OneOrderEach, Promised, Kept

LEMMA IdleHolds == ASSUME PInv PROVE Holds(Idle, job, minted)
  BY DEF Holds, Idle, Row, PInv, Typed

LEMMA DispatchHolds ==
  ASSUME NEW jobs, NEW n \in Nat, NEW o \in DOMAIN jobs, o \in Nat
  PROVE  Holds([Idle EXCEPT !.at = "dispatch", !.order = o], jobs, n)
  <1> SUFFICES ASSUME NEW r, r = [Idle EXCEPT !.at = "dispatch", !.order = o]
               PROVE  Holds(r, jobs, n)
    OBVIOUS
  <1>1. r \in Row /\ r.at = "dispatch" /\ r.order = o /\ r.request = 0
    BY DEF Idle, Row
  <1> QED BY <1>1 DEF Holds

(* A change of the orders that keeps their ids leaves everything else alone. *)
LEMMA OrdersOnly ==
  ASSUME PInv, orders' \in Seq(OrderRow), Len(orders') = Len(orders), balance' \in Nat,
         \A o \in DOMAIN orders : orders'[o].request \leq minted,
         UNCHANGED <<job, handler, minted>>
  PROVE  Promised
  <1>1. Typed'
    BY DEF PInv, Typed
  <1>2. Counted'
    BY DEF PInv, Typed, Counted
  <1>3. Apart' /\ OneOrderEach' /\ Kept
    BY DEF PInv, Apart, OneOrderEach, Kept
  <1>4. \A h \in Handlers : Holds(handler'[h], job', minted')
    BY DEF PInv
  <1> QED BY <1>1, <1>2, <1>3, <1>4 DEF PInv, Promised

-----------------------------------------------------------------------------
(* The purchase *)

LEMMA ReceivePurchaseStep ==
  ASSUME PInv, NEW h \in Handlers, NEW key \in Keys, NEW form \in Forms,
         ReceivePurchase(h, key, form)
  PROVE  Promised
  <1>1. UNCHANGED <<balance, orders, job, minted>>
    BY DEF ReceivePurchase
  <1>2. ASSUME NEW o \in DOMAIN orders,
               Becomes(h, [Idle EXCEPT !.at = "dispatch", !.order = o])
        PROVE  Promised
    <2>1. o \in DOMAIN job /\ o \in Nat /\ minted \in Nat
      BY DEF PInv, Typed
    <2>2. [Idle EXCEPT !.at = "dispatch", !.order = o].at # "insert"
      BY DEF Idle
    <2> QED BY <1>1, <1>2, <2>1, <2>2, DispatchHolds, MoveOnly
  <1>3. ASSUME Becomes(h, [Idle EXCEPT !.at = "checked", !.key = key, !.form = form])
        PROVE  Promised
    <2>1. PICK r : r = [Idle EXCEPT !.at = "checked", !.key = key, !.form = form]
      OBVIOUS
    <2>2. Becomes(h, r)
      BY <1>3, <2>1
    <2>3. /\ r \in Row /\ r.at = "checked" /\ r.key = key /\ r.form = form
          /\ r.order = 0 /\ r.request = 0
      BY <2>1 DEF Idle, Row
    <2>4. Holds(r, job, minted)
      BY <2>3 DEF Holds, PInv, Typed
    <2> QED BY <1>1, <2>2, <2>3, <2>4, MoveOnly
  <1> QED BY <1>2, <1>3 DEF ReceivePurchase, BoughtWith

(* The order that is charged for gets a row, a job row without an id, and the *)
(* thread goes on with it.                                                    *)
LEMMA NewOrder ==
  ASSUME PInv, NEW h \in Handlers, NEW key \in Keys, NEW form \in Forms,
         orders' = Append(orders, [form |-> form, key |-> key, status |-> "paid",
                                   request |-> 0]),
         job' = Append(job, 0), balance' \in Nat, UNCHANGED minted,
         Becomes(h, [Idle EXCEPT !.at = "dispatch", !.order = Len(orders) + 1])
  PROVE  Promised
  <1> DEFINE row == [form |-> form, key |-> key, status |-> "paid", request |-> 0]
             r == [Idle EXCEPT !.at = "dispatch", !.order = Len(orders) + 1]
  <1>1. row \in OrderRow /\ row.request = 0
    BY DEF OrderRow
  <1>2. orders' = Append(orders, row)
    OBVIOUS
  <1> HIDE DEF row
  <1>3. /\ orders' \in Seq(OrderRow) /\ job' \in Seq(Nat) /\ Len(job') = Len(orders')
        /\ DOMAIN job' = DOMAIN job \cup {Len(job) + 1} /\ DOMAIN orders' = DOMAIN job'
        /\ Len(job) + 1 \in Nat /\ Len(orders) = Len(job) /\ minted' \in Nat
    BY <1>1, <1>2 DEF PInv, Typed
  <1>4. /\ \A o \in DOMAIN job : job'[o] = job[o] /\ orders'[o] = orders[o]
        /\ job'[Len(job) + 1] = 0 /\ orders'[Len(job) + 1] = row
    BY <1>1, <1>2 DEF PInv, Typed
  <1>5. Holds(r, job', minted') /\ r.at # "insert"
    BY <1>3, DispatchHolds DEF Idle
  <1>6. ASSUME NEW g \in Handlers
        PROVE  Holds(handler[g], job', minted')
    BY <1>3, <1>4 DEF PInv, Holds
  <1>7. /\ handler' \in [Handlers -> Row] /\ Apart'
        /\ \A g \in Handlers : Holds(handler'[g], job', minted')
    <2> HIDE DEF r
    <2>1. Becomes(h, r)
      BY DEF r
    <2> QED BY <1>5, <1>6, <2>1, MoveThread
  <1>8. Counted' /\ OneOrderEach' /\ Kept
    BY <1>1, <1>3, <1>4 DEF PInv, Typed, Counted, OneOrderEach, Kept
  <1> QED BY <1>3, <1>7, <1>8 DEF PInv, Typed, Promised

LEMMA ChargeStep ==
  ASSUME PInv, NEW h \in Handlers, Charge(h)
  PROVE  Promised
  <1> DEFINE key == handler[h].key
             form == handler[h].form
  <1>1. key \in Keys /\ form \in Forms /\ form.price \in Nat
    <2>1. handler[h].at = "checked" /\ Holds(handler[h], job, minted)
      BY DEF Charge, At, PInv
    <2> QED BY <2>1, PurchaseAssumption DEF Holds
  <1>2. UNCHANGED minted
    BY DEF Charge
  <1>3. ASSUME Leaves(h), UNCHANGED <<balance, ledger, orders, job>>
        PROVE  Promised
    <2>1. Idle.at # "insert"
      BY DEF Idle
    <2> QED BY <1>2, <1>3, <2>1, IdleHolds, MoveOnly DEF Leaves
  <1>4. ASSUME NEW o \in DOMAIN orders, UNCHANGED <<balance, ledger, orders, job>>,
               Becomes(h, [Idle EXCEPT !.at = "dispatch", !.order = o])
        PROVE  Promised
    <2>1. o \in DOMAIN job /\ o \in Nat /\ minted \in Nat
      BY DEF PInv, Typed
    <2>2. [Idle EXCEPT !.at = "dispatch", !.order = o].at # "insert"
      BY DEF Idle
    <2> QED BY <1>2, <1>4, <2>1, <2>2, DispatchHolds, MoveOnly
  <1>5. ASSUME Affordable(form), Book(<<"purchase", key>>, -form.price, Len(orders) + 1),
               orders' = Append(orders, [form |-> form, key |-> key, status |-> "paid",
                                         request |-> 0]),
               job' = Append(job, 0),
               Becomes(h, [Idle EXCEPT !.at = "dispatch", !.order = Len(orders) + 1])
        PROVE  Promised
    <2>1. balance' \in Nat
      BY <1>1, <1>5 DEF Affordable, Book, PInv, Typed
    <2> HIDE DEF key, form
    <2> QED BY <1>1, <1>2, <1>5, <2>1, NewOrder
  <1> QED BY <1>3, <1>4, <1>5 DEF Charge, Replayed, BoughtWith

-----------------------------------------------------------------------------
(* The job *)

LEMMA EnsureProviderJobStep ==
  ASSUME PInv, NEW h \in Handlers, EnsureProviderJob(h)
  PROVE  Promised
  <1>1. UNCHANGED <<balance, orders, job>>
    BY DEF EnsureProviderJob
  <1>2. ASSUME Leaves(h), UNCHANGED minted
        PROVE  Promised
    <2>1. Idle.at # "insert"
      BY DEF Idle
    <2> QED BY <1>1, <1>2, <2>1, IdleHolds, MoveOnly DEF Leaves
  <1>3. ASSUME minted' = minted + 1,
               Becomes(h, [handler[h] EXCEPT !.at = "insert", !.request = minted + 1])
        PROVE  Promised
    <2>0. PICK r : r = [handler[h] EXCEPT !.at = "insert", !.request = minted + 1]
      OBVIOUS
    <2>1. handler[h] \in Row /\ handler[h].at = "dispatch" /\ handler[h].order \in DOMAIN job
          /\ minted \in Nat
      BY DEF EnsureProviderJob, At, PInv, Typed, Holds
    <2>2. /\ r \in Row /\ r.at = "insert" /\ r.order = handler[h].order
          /\ r.request = minted + 1
      <3>1. minted + 1 \in Nat
        BY <2>1
      <3> QED BY <2>0, <2>1, <3>1 DEF Row
    <2>3. Holds(r, job', minted')
      <3>1. \A o \in DOMAIN job : job[o] # minted + 1
        BY <2>1 DEF PInv, Typed, Counted
      <3> QED BY <1>1, <1>3, <2>1, <2>2, <3>1 DEF Holds
    <2>4. ASSUME NEW g \in Handlers
          PROVE  Holds(handler[g], job', minted') /\ handler[g].request # r.request
      BY <1>1, <1>3, <2>1, <2>2 DEF Holds, PInv, Typed, Row
    <2>5. /\ handler' \in [Handlers -> Row] /\ Apart'
          /\ \A g \in Handlers : Holds(handler'[g], job', minted')
      <3>1. Becomes(h, r)
        BY <1>3, <2>0
      <3> QED BY <2>3, <2>4, <3>1, MoveThread
    <2>6. Counted'
      <3>1. \A o \in DOMAIN job : job[o] \in Nat /\ orders[o].request \in Nat
        BY Rows DEF PInv
      <3> QED BY <1>1, <1>3, <2>1, <3>1 DEF PInv, Counted
    <2>7. OneOrderEach' /\ Kept /\ minted' \in Nat
      BY <1>1, <1>3, <2>1 DEF PInv, OneOrderEach, Kept
    <2> QED BY <1>1, <2>5, <2>6, <2>7 DEF PInv, Typed, Promised
  <1> QED BY <1>2, <1>3 DEF EnsureProviderJob

LEMMA CreateProviderJobStep ==
  ASSUME PInv, NEW h \in Handlers, CreateProviderJob(h)
  PROVE  Promised
  <1> DEFINE o == handler[h].order
             id == handler[h].request
             r == [handler[h] EXCEPT !.at = "name"]
  <1>1. UNCHANGED <<balance, orders, minted>> /\ Becomes(h, r)
    BY DEF CreateProviderJob
  <1>2. /\ handler[h] \in Row /\ handler[h].at = "insert" /\ o \in DOMAIN job
        /\ id \in Nat /\ id # 0 /\ id \leq minted /\ \A p \in DOMAIN job : job[p] # id
    BY DEF CreateProviderJob, At, PInv, Typed, Holds, Row
  <1>3. r \in Row /\ r.at = "name" /\ r.order = o /\ r.request = id
    BY <1>2 DEF Row
  <1>4. /\ job' \in Seq(Nat) /\ DOMAIN job' = DOMAIN job /\ Len(job') = Len(job)
        /\ job'[o] = IF job[o] = 0 THEN id ELSE job[o]
        /\ \A p \in DOMAIN job \ {o} : job'[p] = job[p]
    BY <1>2 DEF CreateProviderJob, PInv, Typed
  <1> HIDE DEF o, id, r
  <1>5. Holds(r, job', minted') /\ r.at # "insert"
    BY <1>1, <1>2, <1>3, <1>4 DEF Holds
  <1>6. ASSUME NEW g \in Handlers \ {h}
        PROVE  Holds(handler[g], job', minted')
    <2>1. handler[g].at = "insert" => handler[g].request # id
      BY <1>2 DEF PInv, Apart, id
    <2> QED BY <1>1, <1>2, <1>4, <2>1 DEF PInv, Holds
  <1>7. /\ handler' \in [Handlers -> Row] /\ Apart'
        /\ \A g \in Handlers : Holds(handler'[g], job', minted')
    BY <1>1, <1>5, <1>6, MoveThread
  <1>8. Counted' /\ OneOrderEach' /\ Kept
    BY <1>1, <1>2, <1>4 DEF PInv, Typed, Counted, OneOrderEach, Kept
  <1> QED BY <1>1, <1>4, <1>7, <1>8 DEF PInv, Typed, Promised

LEMMA NameRequestStep ==
  ASSUME PInv, NEW h \in Handlers, NameRequest(h)
  PROVE  Promised
  <1> DEFINE o == handler[h].order
             id == handler[h].request
  <1>1. UNCHANGED <<balance, job, minted>> /\ Becomes(h, Idle)
    BY DEF NameRequest, Leaves
  <1>2. o \in DOMAIN orders /\ id \in Nat /\ id \leq minted
    BY DEF NameRequest, At, PInv, Typed, Holds, Row
  <1>3. orders' = [orders EXCEPT ![o].request = IF @ = 0 THEN id ELSE @]
    BY DEF NameRequest
  <1> HIDE DEF o, id
  <1>4. /\ orders' \in Seq(OrderRow) /\ Len(orders') = Len(orders)
        /\ \A p \in DOMAIN orders : orders'[p].request \in {orders[p].request, id}
    <2>1. PICK row : row = [orders[o] EXCEPT !.request = IF @ = 0 THEN id ELSE @]
      OBVIOUS
    <2>2. row \in OrderRow /\ row.request \in {orders[o].request, id}
      BY <1>2, <2>1, Rows DEF PInv, OrderRow
    <2>3. orders' = [orders EXCEPT ![o] = row]
      BY <1>3, <2>1
    <2> QED BY <1>2, <2>2, <2>3, WriteOrder DEF PInv
  <1>5. /\ handler' \in [Handlers -> Row] /\ Apart'
        /\ \A g \in Handlers : Holds(handler'[g], job', minted')
    <2>1. Idle.at # "insert"
      BY DEF Idle
    <2> QED BY <1>1, <2>1, IdleHolds, MoveThread DEF PInv
  <1>6. Counted'
    <2>1. \A p \in DOMAIN job : orders'[p].request \leq minted
      BY <1>2, <1>4, Rows DEF PInv, Counted
    <2> QED BY <1>1, <2>1 DEF PInv, Counted
  <1>7. OneOrderEach' /\ Kept
    BY <1>1 DEF PInv, OneOrderEach, Kept
  <1> QED BY <1>1, <1>4, <1>5, <1>6, <1>7 DEF PInv, Typed, Promised

LEMMA RecoverMissingJobStep ==
  ASSUME PInv, NEW h \in Handlers, RecoverMissingJob(h)
  PROVE  Promised
  <1>1. PICK o \in DOMAIN orders : Becomes(h, [Idle EXCEPT !.at = "dispatch", !.order = o])
    BY DEF RecoverMissingJob
  <1>2. o \in DOMAIN job /\ o \in Nat /\ minted \in Nat
    BY DEF PInv, Typed
  <1>3. [Idle EXCEPT !.at = "dispatch", !.order = o].at # "insert"
    BY DEF Idle
  <1>4. UNCHANGED <<balance, orders, job, minted>>
    BY DEF RecoverMissingJob
  <1> QED BY <1>1, <1>2, <1>3, <1>4, DispatchHolds, MoveOnly

LEMMA DiesStep ==
  ASSUME PInv, NEW h \in Handlers, Dies(h)
  PROVE  Promised
  <1>1. Idle.at # "insert"
    BY DEF Idle
  <1> QED BY <1>1, IdleHolds, MoveOnly DEF Dies, Leaves

-----------------------------------------------------------------------------
(* Orders and wallet *)

LEMMA StatusOnly ==
  ASSUME PInv, NEW o \in DOMAIN orders,
         NEW status \in {"paid", "completed", "failed", "refunded"},
         OrderBecomes(o, status), balance' \in Nat, UNCHANGED <<job, handler, minted>>
  PROVE  Promised
  <1>1. /\ orders' \in Seq(OrderRow) /\ Len(orders') = Len(orders)
        /\ \A p \in DOMAIN orders : orders'[p].request = orders[p].request
    <2>1. PICK row : row = [orders[o] EXCEPT !.status = status]
      OBVIOUS
    <2>2. row \in OrderRow /\ row.request = orders[o].request
      BY <2>1, Rows DEF PInv, OrderRow
    <2>3. orders' = [orders EXCEPT ![o] = row]
      BY <2>1 DEF OrderBecomes
    <2> QED BY <2>2, <2>3, WriteOrder DEF PInv
  <1>2. \A p \in DOMAIN orders : orders[p].request \leq minted
    BY DEF PInv, Typed, Counted
  <1> QED BY <1>1, <1>2, OrdersOnly

LEMMA OrderStep ==
  ASSUME PInv, NEW o \in DOMAIN orders, OrderEnds(o) \/ RetryJob(o) \/ RefundCoin(o)
  PROVE  Promised
  <1>1. orders[o].form.price \in Nat /\ balance \in Nat
    BY PurchaseAssumption, Rows DEF PInv, Typed
  <1>2. CASE OrderEnds(o)
    BY <1>1, <1>2, StatusOnly DEF OrderEnds
  <1>3. CASE RetryJob(o)
    BY <1>1, <1>3, StatusOnly DEF RetryJob
  <1>4. CASE RefundCoin(o)
    BY <1>1, <1>4, StatusOnly DEF RefundCoin, Book
  <1> QED BY <1>2, <1>3, <1>4

LEMMA AdjustWalletStep ==
  ASSUME PInv, NEW amount \in Adjustments, AdjustWallet(amount)
  PROVE  Promised
  <1>1. balance' \in Nat
    BY PurchaseAssumption DEF AdjustWallet, Book, PInv, Typed
  <1>2. \A o \in DOMAIN orders : orders[o].request \leq minted
    BY DEF PInv, Typed, Counted
  <1> QED BY <1>1, <1>2, OrdersOnly DEF AdjustWallet, Book, PInv, Typed

-----------------------------------------------------------------------------
LEMMA InitPInv == Init => PInv
  BY PurchaseAssumption
  DEF Init, PInv, Typed, Counted, Apart, OneOrderEach, Holds, Idle, Row

LEMMA NextPromised == PInv /\ [Next]_vars => Promised
  <1> SUFFICES ASSUME PInv, [Next]_vars
               PROVE  Promised
    OBVIOUS
  <1>1. ASSUME NEW h \in Handlers, NEW key \in Keys, NEW form \in Forms,
               ReceivePurchase(h, key, form)
        PROVE  Promised
    BY <1>1, ReceivePurchaseStep
  <1>2. ASSUME NEW h \in Handlers,
               \/ Charge(h) \/ EnsureProviderJob(h) \/ CreateProviderJob(h) \/ NameRequest(h)
               \/ RecoverMissingJob(h) \/ Dies(h)
        PROVE  Promised
    BY <1>2, ChargeStep, EnsureProviderJobStep, CreateProviderJobStep, NameRequestStep,
       RecoverMissingJobStep, DiesStep
  <1>3. ASSUME NEW o \in DOMAIN orders, OrderEnds(o) \/ RetryJob(o) \/ RefundCoin(o)
        PROVE  Promised
    BY <1>3, OrderStep
  <1>4. ASSUME NEW amount \in Adjustments, AdjustWallet(amount)
        PROVE  Promised
    BY <1>4, AdjustWalletStep
  <1>5. CASE UNCHANGED vars
    BY <1>5 DEF vars, PInv, Typed, Counted, Apart, OneOrderEach, Promised, Kept
  <1> QED BY <1>1, <1>2, <1>3, <1>4, <1>5 DEF Next

-----------------------------------------------------------------------------
(* What the wallet was charged *)

EntryKeys == {"purchase", "refund", "adjustment"} \X (Keys \cup Int)

LedgerRow == [key : EntryKeys,
              amount : Int, before : Int, after : Int, order : Nat]

(* A key buys one order. *)
KeysApart ==
  \A o, p \in DOMAIN orders : orders[o].key = orders[p].key => o = p

(* The row e charges for the order: no other row is about it, but for the one
   that gave the coins back. *)
Charges(e, o, rows, row) ==
  /\ rows[e].order = o /\ rows[e].key = <<"purchase", row.key>>
  /\ rows[e].amount = -row.form.price
  /\ \E f \in DOMAIN rows :
       /\ rows[f].order = o /\ (f = e <=> row.status # "refunded")
       /\ \A g \in DOMAIN rows : rows[g].order = o => g \in {e, f}

ChargedEach ==
  \A o \in DOMAIN orders : \E e \in DOMAIN ledger : Charges(e, o, ledger, orders[o])

Charged ==
  /\ ledger \in Seq(LedgerRow) /\ LedgerAddsUp
  /\ \A e \in DOMAIN ledger : ledger[e].order \in DOMAIN orders \cup {0}
  /\ KeysApart /\ ChargedEach
  /\ CouponUses \leq CouponLimit
  /\ OneInFlight

(* A row is booked. *)
LEMMA Booked ==
  ASSUME ledger \in Seq(LedgerRow), LedgerAddsUp, balance \in Int,
         NEW key \in EntryKeys,
         NEW amount \in Int, NEW o \in Nat, Book(key, amount, o)
  PROVE  /\ ledger' \in Seq(LedgerRow) /\ LedgerAddsUp'
         /\ Len(ledger) + 1 \notin DOMAIN ledger
         /\ DOMAIN ledger' = DOMAIN ledger \cup {Len(ledger) + 1}
         /\ \A e \in DOMAIN ledger : ledger'[e] = ledger[e]
         /\ ledger'[Len(ledger) + 1].key = key /\ ledger'[Len(ledger) + 1].order = o
         /\ ledger'[Len(ledger) + 1].amount = amount
  <1>1. PICK row : row = [key |-> key, amount |-> amount, order |-> o,
                          before |-> balance, after |-> balance + amount]
    OBVIOUS
  <1>2. /\ row \in LedgerRow /\ row.key = key /\ row.amount = amount /\ row.order = o
        /\ row.before = balance /\ row.after = balance + amount
    BY <1>1 DEF LedgerRow
  <1>3. ledger' = Append(ledger, row) /\ balance' = balance + amount
    BY <1>1 DEF Book
  <1>4. /\ ledger' \in Seq(LedgerRow) /\ Len(ledger') = Len(ledger) + 1
        /\ DOMAIN ledger = 1..Len(ledger) /\ Len(ledger) \in Nat
        /\ DOMAIN ledger' = DOMAIN ledger \cup {Len(ledger) + 1}
        /\ \A e \in DOMAIN ledger : ledger'[e] = ledger[e]
        /\ ledger'[Len(ledger) + 1] = row
    BY <1>2, <1>3
  <1>5. LedgerAddsUp'
    <2>1. balance' = ledger'[Len(ledger')].after /\ ledger' # <<>>
      BY <1>2, <1>3, <1>4
    <2>2. row.before = IF Len(ledger) + 1 = 1 THEN Start ELSE ledger[Len(ledger)].after
      BY <1>2, <1>4 DEF LedgerAddsUp
    <2>3. ASSUME NEW e \in DOMAIN ledger'
          PROVE  /\ ledger'[e].before = IF e = 1 THEN Start ELSE ledger'[e - 1].after
                 /\ ledger'[e].after = ledger'[e].before + ledger'[e].amount
      <3>1. CASE e \in DOMAIN ledger
        <4>1. e # 1 => e - 1 \in DOMAIN ledger
          BY <1>4, <3>1
        <4> QED BY <1>4, <3>1, <4>1 DEF LedgerAddsUp
      <3>2. CASE e = Len(ledger) + 1
        <4>1. e # 1 => e - 1 = Len(ledger) /\ Len(ledger) \in DOMAIN ledger
          BY <1>4, <3>2
        <4> QED BY <1>2, <1>4, <2>2, <3>2, <4>1
      <3> QED BY <1>4, <3>1, <3>2
    <2> QED BY <2>1, <2>3 DEF LedgerAddsUp
  <1> QED BY <1>2, <1>4, <1>5

(* Orders move on while nothing is booked. *)
LEMMA ChargedKept ==
  ASSUME Typed, Charged, UNCHANGED <<ledger, balance>>, DOMAIN orders' = DOMAIN orders,
         \A o \in DOMAIN orders :
           /\ orders'[o].form = orders[o].form /\ orders'[o].key = orders[o].key
           /\ orders'[o].status = "refunded" <=> orders[o].status = "refunded"
           /\ retried' = {} /\ orders'[o].status = "paid" => orders[o].status = "paid",
         retried' = {} => retried = {}
  PROVE  Charged'
  <1>1. KeysApart' /\ OneInFlight'
    BY DEF Charged, KeysApart, OneInFlight
  <1>2. ChargedEach'
    <2> SUFFICES ASSUME NEW o \in DOMAIN orders
                 PROVE  \E e \in DOMAIN ledger : Charges(e, o, ledger, orders'[o])
      BY DEF ChargedEach
    <2>1. PICK e \in DOMAIN ledger : Charges(e, o, ledger, orders[o])
      BY DEF Charged, ChargedEach
    <2> QED BY <2>1 DEF Charges
  <1>3. CouponUses' = CouponUses
    BY DEF CouponUses
  <1>4. LedgerAddsUp'
    BY DEF Charged, LedgerAddsUp
  <1> QED BY <1>1, <1>2, <1>3, <1>4 DEF Charged

LEMMA SomeOrders == ASSUME Typed PROVE IsFiniteSet(DOMAIN orders)
  <1>1. DOMAIN orders = 1..Len(orders) /\ Len(orders) \in Nat
    BY DEF Typed
  <1> QED BY <1>1, FS_Interval

(* The purchase is booked with its order. *)
LEMMA PurchaseCharged ==
  ASSUME PInv, Charged, NEW key \in Keys, NEW form \in Forms,
         ~InFlight(form.account), BoughtWith(key) = {}, Quoted(form),
         orders' = Append(orders, [form |-> form, key |-> key, status |-> "paid",
                                   request |-> 0]),
         Book(<<"purchase", key>>, -form.price, Len(orders) + 1), UNCHANGED retried
  PROVE  Charged'
  <1> DEFINE new == Len(orders) + 1
             e == Len(ledger) + 1
  <1>1. PICK row : row = [form |-> form, key |-> key, status |-> "paid", request |-> 0]
    OBVIOUS
  <1>2. /\ row \in OrderRow /\ row.form = form /\ row.key = key /\ row.status = "paid"
    BY <1>1 DEF OrderRow
  <1>3. /\ DOMAIN orders' = DOMAIN orders \cup {new} /\ new \notin DOMAIN orders
        /\ orders'[new] = row /\ \A o \in DOMAIN orders : orders'[o] = orders[o]
        /\ new \in Nat /\ new # 0 /\ balance \in Int
    BY <1>1, <1>2 DEF PInv, Typed
  <1>4. form.price \in Nat /\ form.coupon \in BOOLEAN
    BY PurchaseAssumption
  <1>5. <<"purchase", key>> \in EntryKeys
    BY DEF EntryKeys
  <1>6. /\ ledger' \in Seq(LedgerRow) /\ LedgerAddsUp' /\ e \notin DOMAIN ledger
        /\ DOMAIN ledger' = DOMAIN ledger \cup {e}
        /\ \A f \in DOMAIN ledger : ledger'[f] = ledger[f]
        /\ ledger'[e].key = <<"purchase", key>> /\ ledger'[e].order = new
        /\ ledger'[e].amount = -form.price
    <2>1. PICK amount \in Int : amount = -form.price
      BY <1>4
    <2>2. PICK o \in Nat : o = new
      BY <1>3
    <2>3. Book(<<"purchase", key>>, amount, o)
      BY <2>1, <2>2
    <2> QED BY <1>3, <1>5, <2>1, <2>2, <2>3, Booked DEF Charged
  <1> HIDE DEF new, e
  <1>7. KeysApart'
    BY <1>2, <1>3 DEF Charged, KeysApart, BoughtWith
  <1>8. ChargedEach'
    <2>1. \A f \in DOMAIN ledger : ledger[f].order # new
      BY <1>3 DEF Charged
    <2>2. Charges(e, new, ledger', orders'[new])
      <3>1. /\ ledger'[e].order = new /\ ledger'[e].key = <<"purchase", orders'[new].key>>
            /\ ledger'[e].amount = -orders'[new].form.price
        BY <1>2, <1>3, <1>6
      <3>2. e \in DOMAIN ledger' /\ orders'[new].status # "refunded"
        BY <1>2, <1>3, <1>6
      <3>3. \A g \in DOMAIN ledger' : ledger'[g].order = new => g = e
        BY <1>6, <2>1
      <3> QED BY <3>1, <3>2, <3>3 DEF Charges
    <2>3. ASSUME NEW o \in DOMAIN orders
          PROVE  \E f \in DOMAIN ledger' : Charges(f, o, ledger', orders'[o])
      <3>1. PICK f \in DOMAIN ledger : Charges(f, o, ledger, orders[o])
        BY DEF Charged, ChargedEach
      <3> QED BY <1>3, <1>6, <3>1 DEF Charges
    <2> QED BY <1>3, <1>6, <2>2, <2>3 DEF ChargedEach
  <1>9. CouponUses' \leq CouponLimit
    <2> DEFINE uses == {o \in DOMAIN orders : orders[o].form.coupon}
    <2>1. IsFiniteSet(uses) /\ new \notin uses
      BY <1>3, SomeOrders, FS_Subset DEF PInv
    <2>2. Cardinality(uses) \in Nat /\ Cardinality(uses \cup {new}) = Cardinality(uses) + 1
      BY <2>1, FS_CardinalityType, FS_AddElement
    <2>3. CouponUses = Cardinality(uses) /\ CouponLimit \in Nat
      BY PurchaseAssumption DEF CouponUses
    <2>4. CASE form.coupon
      <3>1. {o \in DOMAIN orders' : orders'[o].form.coupon} = uses \cup {new}
        BY <1>2, <1>3, <2>4
      <3>2. CouponUses' = Cardinality(uses \cup {new})
        BY <3>1 DEF CouponUses
      <3>3. CouponUses < CouponLimit
        BY <2>4 DEF Quoted
      <3> HIDE DEF uses
      <3> QED BY <2>2, <2>3, <3>2, <3>3
    <2>5. CASE ~form.coupon
      <3>1. {o \in DOMAIN orders' : orders'[o].form.coupon} = uses
        BY <1>2, <1>3, <2>5
      <3> QED BY <2>3, <3>1 DEF CouponUses, Charged
    <2> QED BY <1>4, <2>4, <2>5
  <1>10. OneInFlight'
    BY <1>2, <1>3 DEF Charged, OneInFlight, InFlight
  <1>11. \A f \in DOMAIN ledger' : ledger'[f].order \in DOMAIN orders' \cup {0}
    BY <1>3, <1>6 DEF Charged
  <1> QED BY <1>6, <1>7, <1>8, <1>9, <1>10, <1>11 DEF Charged

LEMMA RefundCharged ==
  ASSUME PInv, Charged, NEW o \in DOMAIN orders, RefundCoin(o)
  PROVE  Charged'
  <1> DEFINE n == Len(ledger) + 1
  <1>1. /\ orders[o].form.price \in Nat /\ balance \in Int /\ o \in Nat /\ o # 0
        /\ orders[o].status = "failed"
    BY PurchaseAssumption, Rows DEF PInv, Typed, RefundCoin
  <1>2. /\ DOMAIN orders' = DOMAIN orders /\ orders'[o].status = "refunded"
        /\ orders'[o].form = orders[o].form /\ orders'[o].key = orders[o].key
        /\ \A p \in DOMAIN orders \ {o} : orders'[p] = orders[p]
    <2>1. PICK row : row = [orders[o] EXCEPT !.status = "refunded"]
      OBVIOUS
    <2>2. /\ row \in OrderRow /\ row.form = orders[o].form /\ row.key = orders[o].key
          /\ row.status = "refunded"
      BY <2>1, Rows DEF PInv, OrderRow
    <2>3. orders' = [orders EXCEPT ![o] = row]
      BY <2>1 DEF RefundCoin, OrderBecomes
    <2> QED BY <2>2, <2>3, WriteOrder DEF PInv, Typed
  <1>3. <<"refund", o>> \in EntryKeys
    BY <1>1 DEF EntryKeys
  <1>4. /\ ledger' \in Seq(LedgerRow) /\ LedgerAddsUp' /\ n \notin DOMAIN ledger
        /\ DOMAIN ledger' = DOMAIN ledger \cup {n}
        /\ \A f \in DOMAIN ledger : ledger'[f] = ledger[f]
        /\ ledger'[n].order = o
    <2>1. PICK amount \in Int : amount = orders[o].form.price
      BY <1>1
    <2>2. Book(<<"refund", o>>, amount, o)
      BY <2>1 DEF RefundCoin
    <2> QED BY <1>1, <1>3, <2>2, Booked DEF Charged
  <1> HIDE DEF n
  <1>5. KeysApart' /\ OneInFlight'
    BY <1>2 DEF Charged, KeysApart, OneInFlight, RefundCoin
  <1>6. ChargedEach'
    <2>1. ASSUME NEW p \in DOMAIN orders \ {o}
          PROVE  \E e \in DOMAIN ledger' : Charges(e, p, ledger', orders'[p])
      <3>1. PICK e \in DOMAIN ledger : Charges(e, p, ledger, orders[p])
        BY DEF Charged, ChargedEach
      <3> QED BY <1>2, <1>4, <3>1 DEF Charges
    <2>2. PICK e \in DOMAIN ledger : Charges(e, o, ledger, orders[o])
      BY DEF Charged, ChargedEach
    <2>3. \A g \in DOMAIN ledger : ledger[g].order = o => g = e
      BY <1>1, <2>2 DEF Charges
    <2>4. Charges(e, o, ledger', orders'[o])
      BY <1>2, <1>4, <2>2, <2>3 DEF Charges
    <2> QED BY <1>2, <1>4, <2>1, <2>4 DEF ChargedEach
  <1>7. CouponUses' = CouponUses
    <2>1. {p \in DOMAIN orders' : orders'[p].form.coupon}
             = {p \in DOMAIN orders : orders[p].form.coupon}
      BY <1>2
    <2> QED BY <2>1 DEF CouponUses
  <1>8. \A f \in DOMAIN ledger' : ledger'[f].order \in DOMAIN orders' \cup {0}
    BY <1>2, <1>4 DEF Charged
  <1> QED BY <1>4, <1>5, <1>6, <1>7, <1>8 DEF Charged

LEMMA AdjustmentCharged ==
  ASSUME PInv, Charged, NEW amount \in Adjustments, AdjustWallet(amount)
  PROVE  Charged'
  <1> DEFINE n == Len(ledger) + 1
  <1>1. amount \in Int /\ balance \in Int
    BY PurchaseAssumption DEF PInv, Typed
  <1>2. <<"adjustment", amount>> \in EntryKeys
    BY <1>1 DEF EntryKeys
  <1>3. /\ ledger' \in Seq(LedgerRow) /\ LedgerAddsUp' /\ n \notin DOMAIN ledger
        /\ DOMAIN ledger' = DOMAIN ledger \cup {n}
        /\ \A f \in DOMAIN ledger : ledger'[f] = ledger[f]
        /\ ledger'[n].order = 0
    BY <1>1, <1>2, Booked DEF Charged, AdjustWallet
  <1>4. UNCHANGED <<orders, retried>> /\ \A o \in DOMAIN orders : o # 0
    BY DEF AdjustWallet, PInv, Typed
  <1> HIDE DEF n
  <1>5. ChargedEach'
    <2>1. ASSUME NEW o \in DOMAIN orders
          PROVE  \E e \in DOMAIN ledger' : Charges(e, o, ledger', orders[o])
      <3>1. PICK e \in DOMAIN ledger : Charges(e, o, ledger, orders[o])
        BY DEF Charged, ChargedEach
      <3> QED BY <1>3, <1>4, <3>1 DEF Charges
    <2> QED BY <1>4, <2>1 DEF ChargedEach
  <1>6. KeysApart' /\ OneInFlight' /\ CouponUses' \leq CouponLimit
    BY <1>4 DEF Charged, KeysApart, OneInFlight, CouponUses
  <1>7. \A f \in DOMAIN ledger' : ledger'[f].order \in DOMAIN orders' \cup {0}
    BY <1>3, <1>4 DEF Charged
  <1> QED BY <1>3, <1>5, <1>6, <1>7 DEF Charged

LEMMA OrderCharged ==
  ASSUME PInv, Charged, NEW o \in DOMAIN orders, OrderEnds(o) \/ RetryJob(o)
  PROVE  Charged'
  <1>1. PICK status \in {"paid", "completed", "failed"} :
          /\ OrderBecomes(o, status) /\ orders[o].status # "refunded"
          /\ retried' = {} => retried = {} /\ status # "paid"
    BY DEF OrderEnds, RetryJob
  <1>2. /\ DOMAIN orders' = DOMAIN orders /\ orders'[o].status = status
        /\ orders'[o].form = orders[o].form /\ orders'[o].key = orders[o].key
        /\ \A p \in DOMAIN orders \ {o} : orders'[p] = orders[p]
    <2>1. PICK row : row = [orders[o] EXCEPT !.status = status]
      OBVIOUS
    <2>2. /\ row \in OrderRow /\ row.form = orders[o].form /\ row.key = orders[o].key
          /\ row.status = status
      BY <2>1, Rows DEF PInv, OrderRow
    <2>3. orders' = [orders EXCEPT ![o] = row]
      BY <1>1, <2>1 DEF OrderBecomes
    <2> QED BY <2>2, <2>3, WriteOrder DEF PInv, Typed
  <1>3. UNCHANGED <<ledger, balance>>
    BY DEF OrderEnds, RetryJob
  <1> QED BY <1>1, <1>2, <1>3, ChargedKept DEF PInv

LEMMA NameCharged ==
  ASSUME PInv, Charged, NEW h \in Handlers, NameRequest(h)
  PROVE  Charged'
  <1> DEFINE o == handler[h].order
             id == handler[h].request
  <1>1. o \in DOMAIN orders /\ id \in Nat
    BY DEF NameRequest, At, PInv, Typed, Holds, Row
  <1>2. orders' = [orders EXCEPT ![o].request = IF @ = 0 THEN id ELSE @]
    BY DEF NameRequest
  <1>3. UNCHANGED <<ledger, balance, retried>>
    BY DEF NameRequest
  <1> HIDE DEF o, id
  <1>4. /\ DOMAIN orders' = DOMAIN orders
        /\ \A p \in DOMAIN orders : /\ orders'[p].form = orders[p].form
                                    /\ orders'[p].key = orders[p].key
                                    /\ orders'[p].status = orders[p].status
    <2>1. PICK row : row = [orders[o] EXCEPT !.request = IF @ = 0 THEN id ELSE @]
      OBVIOUS
    <2>2. /\ row \in OrderRow /\ row.form = orders[o].form /\ row.key = orders[o].key
          /\ row.status = orders[o].status
      BY <1>1, <2>1, Rows DEF PInv, OrderRow
    <2>3. orders' = [orders EXCEPT ![o] = row]
      BY <1>2, <2>1
    <2> QED BY <1>1, <2>2, <2>3, WriteOrder DEF PInv, Typed
  <1> QED BY <1>3, <1>4, ChargedKept DEF PInv

LEMMA ChargeCharged ==
  ASSUME PInv, Charged, NEW h \in Handlers, Charge(h)
  PROVE  Charged'
  <1>1. handler[h].key \in Keys /\ handler[h].form \in Forms
    BY DEF Charge, At, PInv, Holds
  <1>2. UNCHANGED retried
    BY DEF Charge
  <1>3. CASE UNCHANGED <<balance, ledger, orders, job>>
    BY <1>2, <1>3, ChargedKept DEF PInv
  <1>4. CASE ~UNCHANGED <<balance, ledger, orders, job>>
    BY <1>1, <1>2, <1>4, PurchaseCharged DEF Charge, Replayed
  <1> QED BY <1>3, <1>4

LEMMA InitCharged == Init => Charged
  <1> SUFFICES ASSUME Init
               PROVE  Charged
    OBVIOUS
  <1>1. orders = <<>> /\ ledger = <<>> /\ balance = Start
    BY DEF Init
  <1>2. {o \in DOMAIN orders : orders[o].form.coupon} = {}
    BY <1>1
  <1>3. CouponUses \leq CouponLimit
    BY <1>2, FS_EmptySet, PurchaseAssumption DEF CouponUses
  <1> QED BY <1>1, <1>3 DEF Charged, LedgerAddsUp, KeysApart, ChargedEach, OneInFlight

LEMMA NextCharged == PInv /\ Charged /\ [Next]_vars => Charged'
  <1> SUFFICES ASSUME PInv, Charged, [Next]_vars
               PROVE  Charged'
    OBVIOUS
  <1>1. ASSUME UNCHANGED <<balance, ledger, orders, retried>>
        PROVE  Charged'
    BY <1>1, ChargedKept DEF PInv
  <1>2. ASSUME NEW h \in Handlers,
               \/ \E key \in Keys, form \in Forms : ReceivePurchase(h, key, form)
               \/ EnsureProviderJob(h) \/ CreateProviderJob(h)
               \/ RecoverMissingJob(h) \/ Dies(h)
        PROVE  Charged'
    BY <1>1, <1>2 DEF ReceivePurchase, EnsureProviderJob, CreateProviderJob,
                      RecoverMissingJob, Dies
  <1>3. ASSUME NEW h \in Handlers, Charge(h) \/ NameRequest(h)
        PROVE  Charged'
    BY <1>3, ChargeCharged, NameCharged
  <1>4. ASSUME NEW o \in DOMAIN orders, OrderEnds(o) \/ RetryJob(o) \/ RefundCoin(o)
        PROVE  Charged'
    BY <1>4, OrderCharged, RefundCharged
  <1>5. ASSUME NEW amount \in Adjustments, AdjustWallet(amount)
        PROVE  Charged'
    BY <1>5, AdjustmentCharged
  <1>6. CASE UNCHANGED vars
    BY <1>1, <1>6 DEF vars
  <1> QED BY <1>2, <1>3, <1>4, <1>5, <1>6 DEF Next

(* The rows of an order, counted. *)
LEMMA BookedRows ==
  ASSUME Charged, NEW o \in DOMAIN orders
  PROVE  /\ Cardinality(BookedFor(o)) = IF orders[o].status = "refunded" THEN 2 ELSE 1
         /\ \E e \in BookedFor(o) : /\ ledger[e].key = <<"purchase", orders[o].key>>
                                    /\ ledger[e].amount = -orders[o].form.price
  <1>1. PICK e \in DOMAIN ledger : Charges(e, o, ledger, orders[o])
    BY DEF Charged, ChargedEach
  <1>2. PICK f \in DOMAIN ledger :
          /\ ledger[f].order = o /\ (f = e <=> orders[o].status # "refunded")
          /\ \A g \in DOMAIN ledger : ledger[g].order = o => g \in {e, f}
    BY <1>1 DEF Charges
  <1>3. BookedFor(o) = {e} \cup {f}
    BY <1>1, <1>2 DEF Charges, BookedFor
  <1>4. IsFiniteSet({e}) /\ Cardinality({e}) = 1
    BY FS_Singleton
  <1>5. Cardinality({e} \cup {f}) = IF f = e THEN 1 ELSE 2
    <2>1. CASE f = e
      <3>1. {e} \cup {f} = {e}
        BY <2>1
      <3> QED BY <1>4, <2>1, <3>1
    <2>2. CASE f # e
      <3>1. f \notin {e}
        BY <2>2
      <3> QED BY <1>4, <2>2, <3>1, FS_AddElement
    <2> QED BY <2>1, <2>2
  <1> QED BY <1>1, <1>2, <1>3, <1>5 DEF Charges

LEMMA Invariance == Spec => []PInv
  BY InitPInv, NextPromised, PTL DEF Spec, Promised

(* Type correctness; in particular a wallet is never overdrawn, however many
   purchases, refunds and adjustments meet at it (TypeOK of CoinPurchase). *)
THEOREM PurchaseTyped == Spec => []TypeOK
  <1>1. PInv => TypeOK
    <2> SUFFICES ASSUME PInv
                 PROVE  TypeOK
      OBVIOUS
    <2>1. \A o \in DOMAIN orders :
            /\ orders[o].form \in Forms /\ orders[o].key \in Keys
            /\ orders[o].status \in {"paid", "completed", "failed", "refunded"}
            /\ orders[o].request \in 0 .. minted
      BY Rows DEF PInv, Typed, Counted
    <2>2. job \in Seq(0 .. minted) /\ DOMAIN job = DOMAIN orders
      <3>1. \A o \in DOMAIN job : job[o] \in 0 .. minted
        BY Rows DEF PInv, Typed, Counted
      <3> QED BY <3>1, Rows DEF PInv, Typed
    <2>3. \A h \in Handlers : handler[h].order \in DOMAIN orders \cup {0}
      BY Rows DEF PInv, Holds
    <2> QED BY <2>1, <2>2, <2>3 DEF TypeOK, PInv, Typed
  <1> QED BY Invariance, <1>1, PTL

(* The request id of a job is chosen once and belongs to one order, however
   many handlers and recoveries create jobs at the same time and whichever of
   them dies where (JobKeepsRequest of CoinPurchase). *)
THEOREM RequestIsKept == Spec => JobKeepsRequest
  <1> DEFINE Keeps == \A o \in DOMAIN job : job[o] # 0 =>
                        /\ job'[o] = job[o]
                        /\ \A p \in DOMAIN job' : job'[p] = job[o] => p = o
  <1>1. PInv /\ [Next]_vars => [Keeps]_vars
    <2> SUFFICES ASSUME PInv, [Next]_vars
                 PROVE  Keeps
      OBVIOUS
    <2>1. Promised
      BY NextPromised
    <2> QED BY <2>1 DEF Promised, PInv, Kept, OneOrderEach
  <1>2. Spec => [][Keeps]_vars
    BY Invariance, <1>1, PTL DEF Spec
  <1> QED BY <1>2 DEF JobKeepsRequest

(* However many tabs send the purchase and whichever handler dies: each order
   was charged once and refunded at most once, the ledger adds up to the
   balance, the coupon is used within its limit, and two orders of an account
   are in flight only after a retry (ChargedOnce of CoinPurchase). *)
THEOREM EveryOrderChargedOnce == Spec => []ChargedOnce
  <1>1. PInv /\ Charged /\ [Next]_vars => Charged'
    BY NextCharged
  <1>2. Spec => []Charged
    BY Invariance, InitCharged, <1>1, PTL DEF Spec
  <1>3. Charged => ChargedOnce
    <2> SUFFICES ASSUME Charged
                 PROVE  ChargedOnce
      OBVIOUS
    <2>1. ASSUME NEW o \in DOMAIN orders
          PROVE  Cardinality(BoughtWith(orders[o].key)) = 1
      <3>1. BoughtWith(orders[o].key) = {o}
        BY DEF Charged, KeysApart, BoughtWith
      <3> QED BY <3>1, FS_Singleton
    <2> QED BY <2>1, BookedRows DEF Charged, ChargedOnce
  <1> QED BY <1>2, <1>3, PTL
=============================================================================
