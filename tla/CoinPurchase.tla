---------------------------- MODULE CoinPurchase ----------------------------
(***************************************************************************)
(* A purchase with coins: the wallet with its ledger, handlers that check, *)
(* charge and dispatch while others do the same, and the creation of the   *)
(* job of a provider order, which request handlers and the recovery of the *)
(* worker threads may attempt at the same time.  The route looks for the   *)
(* idempotency key and for an order in flight before it goes to the        *)
(* network; the transaction looks again.  A handler may die at any await.  *)
(*                                                                         *)
(* There is one customer, with any number of tabs; what becomes of a job   *)
(* is ProviderOutbox, and here only the end of its order.                  *)
(***************************************************************************)
EXTENDS Integers, FiniteSets, Sequences

CONSTANTS
  Keys,         \* idempotency keys of purchases
  Forms,        \* what may be asked for, see FormType
  Handlers,     \* threads: request handlers, and workers while they recover jobs
  Start,        \* the balance a behaviour begins with
  Adjustments,  \* amounts an administrator books, each with a key of its own
  CouponLimit,  \* usage_limit_total of the coupon
  MaxOrders,    \* bound
  MaxDeaths,    \* bound: handlers that die
  None

FormType == [provider : {"lunakey", "legacy_locket"}, account : STRING \cup {None},
             price : Nat, coupon : BOOLEAN]

ASSUME PurchaseAssumption ==
  /\ Start \in Nat /\ CouponLimit \in Nat /\ MaxOrders \in Nat /\ MaxDeaths \in Nat
  /\ Adjustments \subseteq Int \ {0}
  /\ \A f \in Forms : f.price \in Nat /\ f.coupon \in BOOLEAN

VARIABLES
  balance,   \* wallets.balance_coin
  ledger,    \* wallet_transactions
  orders,    \* activation_orders, by id
  job,       \* the request id of each order's provider_jobs row, 0 without one
  handler,   \* where each thread is, and what it holds
  minted,    \* request ids made so far
  retried,   \* history: orders an administrator has retried
  deaths     \* history

vars == <<balance, ledger, orders, job, handler, minted, retried, deaths>>

Idle == [at |-> "idle", key |-> None, form |-> None, order |-> 0, request |-> 0]
At(h, place) == handler[h].at = place
Becomes(h, r) == handler' = [handler EXCEPT ![h] = r]
Leaves(h) == Becomes(h, Idle)

Init ==
  /\ balance = Start /\ ledger = <<>> /\ orders = <<>> /\ job = <<>>
  /\ handler = [h \in Handlers |-> Idle]
  /\ minted = 0 /\ retried = {} /\ deaths = 0

-----------------------------------------------------------------------------
(* The purchase *)

(* Orders wait for their activation in 'paid' here; the queue of the other
   statuses is RestoreQueue. *)
InFlight(account) ==
  account # None /\ \E o \in DOMAIN orders : /\ orders[o].form.account = account
                                             /\ orders[o].status = "paid"

(* The order that was bought with a key, if there is one. *)
BoughtWith(key) == {o \in DOMAIN orders : orders[o].key = key}

(* A key is answered with its order before anything else is looked at, but
   only for the same request. *)
ReceivePurchase(h, key, form) ==
  /\ At(h, "idle")
  /\ \/ \E o \in BoughtWith(key) :
          /\ orders[o].form = form
          /\ Becomes(h, [Idle EXCEPT !.at = "dispatch", !.order = o])
     \/ /\ BoughtWith(key) = {} /\ ~InFlight(form.account)
        /\ Becomes(h, [Idle EXCEPT !.at = "checked", !.key = key, !.form = form])
  /\ UNCHANGED <<balance, ledger, orders, job, minted, retried, deaths>>

(* Mutant: the wallet was looked at by the page. *)
AffordableAnyway(form) == TRUE

Affordable(form) == balance >= form.price

CouponUses == Cardinality({o \in DOMAIN orders : orders[o].form.coupon})
Quoted(form) == form.coupon => CouponUses < CouponLimit

(* Every change of the balance has its row in the ledger, which says what the
   balance was and what it became. *)
Book(key, amount, o) ==
  /\ balance' = balance + amount
  /\ ledger' = Append(ledger, [key |-> key, amount |-> amount, order |-> o,
                               before |-> balance, after |-> balance + amount])

(* Mutant: the key was looked for before the transaction. *)
NotReplayed(key) == {}

Replayed(key) == BoughtWith(key)

(* purchase_plan_with_coin_atomic: the order in flight comes first, so that a
   repeated purchase which overtakes its first is refused; then the key. *)
Charge(h) ==
  /\ At(h, "checked")
  /\ LET key == handler[h].key
         form == handler[h].form
         new == Len(orders) + 1
     IN  \/ /\ \/ InFlight(form.account)
               \/ \E o \in Replayed(key) : orders[o].form # form
               \/ Replayed(key) = {} /\ ~(Quoted(form) /\ Affordable(form))
            /\ Leaves(h)
            /\ UNCHANGED <<balance, ledger, orders, job>>
         \/ /\ ~InFlight(form.account)
            /\ \E o \in Replayed(key) :
                 /\ orders[o].form = form
                 /\ Becomes(h, [Idle EXCEPT !.at = "dispatch", !.order = o])
            /\ UNCHANGED <<balance, ledger, orders, job>>
         \/ /\ ~InFlight(form.account) /\ Replayed(key) = {}
            /\ Quoted(form) /\ Affordable(form)
            /\ new \leq MaxOrders
            /\ orders' = Append(orders, [form |-> form, key |-> key, status |-> "paid",
                                         request |-> 0])
            /\ job' = Append(job, 0)
            /\ Book(<<"purchase", key>>, -form.price, new)
            /\ Becomes(h, [Idle EXCEPT !.at = "dispatch", !.order = new])
  /\ UNCHANGED <<minted, retried, deaths>>

-----------------------------------------------------------------------------
(* ensure_provider_job_for_order: read, insert, name *)

(* An order that waits for the administrator needs no dispatch.  A request id
   is minted where there is no job: the order has one only after its job. *)
EnsureProviderJob(h) ==
  /\ At(h, "dispatch")
  /\ LET o == handler[h].order
     IN  IF orders[o].form.provider # "lunakey" \/ job[o] # 0
         THEN Leaves(h) /\ UNCHANGED minted
         ELSE /\ minted' = minted + 1
              /\ Becomes(h, [handler[h] EXCEPT !.at = "insert", !.request = minted + 1])
  /\ UNCHANGED <<balance, ledger, orders, job, retried, deaths>>

(* Mutant: the insertion replaces the row it finds. *)
CreateOrReplaceJob(h) ==
  /\ At(h, "insert")
  /\ job' = [job EXCEPT ![handler[h].order] = handler[h].request]
  /\ Becomes(h, [handler[h] EXCEPT !.at = "name"])
  /\ UNCHANGED <<balance, ledger, orders, minted, retried, deaths>>

(* A job that is there by now is kept, with the id it has. *)
CreateProviderJob(h) ==
  /\ At(h, "insert")
  /\ job' = [job EXCEPT ![handler[h].order] = IF @ = 0 THEN handler[h].request ELSE @]
  /\ Becomes(h, [handler[h] EXCEPT !.at = "name"])
  /\ UNCHANGED <<balance, ledger, orders, minted, retried, deaths>>

NameRequest(h) ==
  /\ At(h, "name")
  /\ orders' = [orders EXCEPT ![handler[h].order].request =
                  IF @ = 0 THEN handler[h].request ELSE @]
  /\ Leaves(h)
  /\ UNCHANGED <<balance, ledger, job, minted, retried, deaths>>

(* recover_missing_provider_jobs reads a list and takes its orders in turn;
   how old the list is by then is how long the thread waits here. *)
RecoverMissingJob(h) ==
  /\ At(h, "idle")
  /\ \E o \in DOMAIN orders :
       /\ orders[o].form.provider = "lunakey" /\ orders[o].status = "paid" /\ job[o] = 0
       /\ Becomes(h, [Idle EXCEPT !.at = "dispatch", !.order = o])
  /\ UNCHANGED <<balance, ledger, orders, job, minted, retried, deaths>>

Dies(h) ==
  /\ ~At(h, "idle") /\ deaths < MaxDeaths
  /\ deaths' = deaths + 1
  /\ Leaves(h)
  /\ UNCHANGED <<balance, ledger, orders, job, minted, retried>>

-----------------------------------------------------------------------------
(* What else happens to orders and wallet *)

OrderBecomes(o, status) == orders' = [orders EXCEPT ![o].status = status]

OrderEnds(o) ==
  /\ orders[o].status = "paid"
  /\ \/ OrderBecomes(o, "completed")
     \/ orders[o].form.provider = "lunakey" /\ OrderBecomes(o, "failed")
  /\ orders[o].form.provider = "lunakey" => job[o] # 0
  /\ UNCHANGED <<balance, ledger, job, handler, minted, retried, deaths>>

(* The administrator sends a failed order again, or returns the coins. *)
RetryJob(o) ==
  /\ orders[o].status = "failed"
  /\ OrderBecomes(o, "paid")
  /\ retried' = retried \cup {o}
  /\ UNCHANGED <<balance, ledger, job, handler, minted, deaths>>

RefundCoin(o) ==
  /\ orders[o].status = "failed"
  /\ OrderBecomes(o, "refunded")
  /\ Book(<<"refund", o>>, orders[o].form.price, o)
  /\ UNCHANGED <<job, handler, minted, retried, deaths>>

(* admin_adjust_user_wallet_atomic: once for a key, never below nothing *)
AdjustWallet(amount) ==
  /\ \A e \in DOMAIN ledger : ledger[e].key # <<"adjustment", amount>>
  /\ balance + amount >= 0
  /\ Book(<<"adjustment", amount>>, amount, 0)
  /\ UNCHANGED <<orders, job, handler, minted, retried, deaths>>

Next ==
  \/ \E h \in Handlers :
       \/ \E key \in Keys, form \in Forms : ReceivePurchase(h, key, form)
       \/ Charge(h) \/ EnsureProviderJob(h) \/ CreateProviderJob(h) \/ NameRequest(h)
       \/ RecoverMissingJob(h) \/ Dies(h)
  \/ \E o \in DOMAIN orders : OrderEnds(o)
  \/ \E o \in DOMAIN orders : RetryJob(o)
  \/ \E o \in DOMAIN orders : RefundCoin(o)
  \/ \E amount \in Adjustments : AdjustWallet(amount)

Spec == Init /\ [][Next]_vars

-----------------------------------------------------------------------------
(* Types; a wallet is never overdrawn. *)
TypeOK ==
  /\ balance \in Nat
  /\ \A o \in DOMAIN orders :
       /\ orders[o].form \in Forms /\ orders[o].key \in Keys
       /\ orders[o].status \in {"paid", "completed", "failed", "refunded"}
       /\ orders[o].request \in 0 .. minted
  /\ job \in Seq(0 .. minted) /\ DOMAIN job = DOMAIN orders
  /\ \A h \in Handlers : handler[h].order \in DOMAIN orders \cup {0}

(* The rows of the ledger add up, from Start to the balance. *)
LedgerAddsUp ==
  /\ \A e \in DOMAIN ledger :
       /\ ledger[e].before = IF e = 1 THEN Start ELSE ledger[e - 1].after
       /\ ledger[e].after = ledger[e].before + ledger[e].amount
  /\ balance = IF ledger = <<>> THEN Start ELSE ledger[Len(ledger)].after

BookedFor(o) == {e \in DOMAIN ledger : ledger[e].order = o}

OneInFlight ==
  retried = {} => \A o, p \in DOMAIN orders :
    /\ orders[o].form.account = orders[p].form.account /\ orders[o].form.account # None
    /\ orders[o].status = "paid" /\ orders[p].status = "paid"
    => o = p

(* The customer pays once for what was asked for once, though tabs and retries
   send a purchase at the same time and each has looked before the others
   were charged: every order was charged once, with its price and under its
   key, and given back only when it was refunded; the balance is what the
   ledger says; and unless the administrator retried one, no two orders of an
   account wait for their activation (db.py:3094, :3135). *)
ChargedOnce ==
  /\ LedgerAddsUp
  /\ \A o \in DOMAIN orders :
       /\ Cardinality(BoughtWith(orders[o].key)) = 1
       /\ Cardinality(BookedFor(o)) = IF orders[o].status = "refunded" THEN 2 ELSE 1
       /\ \E e \in BookedFor(o) : /\ ledger[e].key = <<"purchase", orders[o].key>>
                                  /\ ledger[e].amount = -orders[o].form.price
  /\ CouponUses \leq CouponLimit
  /\ OneInFlight

(* An order is sent upstream under one request id for ever, and no two orders
   share one: the provider can tell a repetition from a new request, whoever
   created the job (lunakey_service.py:257, db.py:4948). *)
JobKeepsRequest ==
  [][\A o \in DOMAIN job : job[o] # 0 =>
       /\ job'[o] = job[o]
       /\ \A p \in DOMAIN job' : job'[p] = job[o] => p = o]_vars

(* The order carries the request id its job is sent with
   (lunakey_service.py:261, :293). *)
OrderNamesRequest ==
  \A o \in DOMAIN orders : orders[o].request # 0 => orders[o].request = job[o]
=============================================================================
