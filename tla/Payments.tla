------------------------------ MODULE Payments ------------------------------
(* Paying by bank transfer: payment_orders rows and their transfer codes,   *)
(* the bank's webhook, the administrator's confirmation and rejection, the  *)
(* customer who looks, cancels and renews, and what these write to the      *)
(* linked activation order, to the wallet and to the coupon reservation.    *)
(*                                                                          *)
(* One action is one transaction, or the read a handler makes before its    *)
(* transaction.  The amount of a transfer is that of the payment: any other *)
(* is acknowledged and changes nothing.  There is one coupon and one        *)
(* customer, whose limit is the smaller of the coupon's two.                *)
EXTENDS ActivationOrders, FiniteSets, Integers

CONSTANTS
  MaxPayments,   \* bound on the payments; a payment is its id, 1, 2, ...
  Codes,         \* the pool of transfer codes
  Transfers,     \* bank transactions, SEPAY_<id> as bank_transaction_id
  References,    \* bank references an administrator may type
  Goods,         \* what is sold: coins, and plans by their fulfillment mode
  CouponGoods,   \* the plans that are sold with the coupon
  CouponLimit,   \* usage limit of the coupon
  MaxRequests,   \* bound on the requests of a kind under way at a time
  None           \* NULL

ASSUME BoundAssumption == MaxPayments \in Nat /\ MaxRequests \in Nat
ASSUME LimitAssumption == CouponLimit \in Nat \ {0}
ASSUME GoodsAssumption ==
  /\ Goods \subseteq {"wallet_topup", "auto_activation", "manual_contact",
                      "apk_download"}
  /\ CouponGoods \subseteq {"auto_activation", "manual_contact", "apk_download"}

Generated == "MANUAL_ADMIN"    \* a reference made up for one confirmation

ASSUME NoneAssumption ==
  /\ None \notin Codes \cup Transfers \cup References \cup Int
  /\ None \notin {"auto_activation", "manual_contact", "apk_download"}
  /\ Transfers \cap (References \cup {Generated}) = {}

VARIABLES
  pay,          \* pay[p]: the payment_orders row with id p
  order,        \* order[o]: the activation order created with payment o
  redemption,   \* redemption[o]: the coupon_redemptions row created with payment o
  coinUses,     \* coupon_redemptions rows of coin purchases
  ledger,       \* payments with a topup entry in wallet_transactions
  transfer,     \* transfer[t]: what the bank knows of t
  closing,      \* status reads that go on to close the payment
  renewing,     \* renewals that have passed the first checks
  dispatching   \* payments just confirmed whose APK order is to be dispatched

vars == <<pay, order, redemption, coinUses, ledger, transfer,
          closing, renewing, dispatching>>
handlers == <<closing, renewing, dispatching>>

------------------------------------------------------------------------------
(* The rows *)

Payments == 1..MaxPayments
Modes == (Goods \cup CouponGoods) \ {"wallet_topup"}
Purpose == {"wallet_topup", "plan_purchase"}

(* "underpaid" and "review_needed" are never written.  "overdue" is         *)
(* expires_at < now, "cooled": created_at and updated_at lie further back   *)
(* than the reuse delay of transfer codes.                                  *)
PaymentRow ==
  [status: {"none", "pending", "paid", "expired", "cancelled"},
   purpose: Purpose, code: Codes \cup {None}, coupon: BOOLEAN,
   overdue: BOOLEAN, cooled: BOOLEAN, renewedFrom: Payments \cup {None},
   bank: Transfers \cup References \cup {Generated, None}]

OrderRow == [status: OrderStatus \cup {"none"}, payment: Payments \cup {None},
             mode: Modes \cup {None}]

(* expires_at of a reservation is that of its payment *)
RedemptionRow == [status: {"none", "reserved", "redeemed", "released"},
                  payment: Payments \cup {None}]

(* "inWindow": the bank's date, give or take the tolerance for clocks, lies *)
(* in the time window of the payment; "alive": the bank may still report it *)
TransferRow == [for: Payments \cup {None}, inWindow: BOOLEAN, alive: BOOLEAN]

Init ==
  /\ pay = [p \in Payments |->
              [status |-> "none", purpose |-> "wallet_topup", code |-> None,
               coupon |-> FALSE, overdue |-> FALSE, cooled |-> FALSE,
               renewedFrom |-> None, bank |-> None]]
  /\ order = [o \in Payments |-> [status |-> "none", payment |-> None,
                                  mode |-> None]]
  /\ redemption = [o \in Payments |-> [status |-> "none", payment |-> None]]
  /\ coinUses = 0
  /\ ledger = {}
  /\ transfer = [t \in Transfers |-> [for |-> None, inWindow |-> FALSE,
                                      alive |-> FALSE]]
  /\ closing = {}
  /\ renewing = {}
  /\ dispatching = {}

Exists(p) == pay[p].status # "none"
NextId(p) == ~Exists(p) /\ \A q \in Payments : q < p => Exists(q)
Renewed(p) == \E q \in Payments : pay[q].renewedFrom = p
Linked(p) == {o \in Payments : order[o].payment = p}

(* get_payment_order_by_code: the newest row with the code *)
Newest(p, code) ==
  pay[p].code = code /\ \A q \in Payments : pay[q].code = code => q <= p

(* a write to the row sets updated_at *)
WithStatus(row, status) == [row EXCEPT !.status = status, !.cooled = FALSE]

------------------------------------------------------------------------------
(* Transfer codes: allocate_transfer_code *)

(* It first expires the overdue rows, and leaves their orders alone. *)
Swept(row) == IF row.status = "pending" /\ row.overdue
              THEN WithStatus(row, "expired") ELSE row

(* Mutant: only a code that is being paid with is taken. *)
InUseUntilExpired(row) == row.status = "pending" /\ ~row.overdue

InUse(row) ==
  /\ row.status # "none"
  /\ \/ row.status = "pending" /\ ~row.overdue
     \/ ~row.cooled

(* the codes it may return: never one in use, and that of the renewed       *)
(* payment only when there is no other                                      *)
Allocatable(exclude) ==
  LET free == Codes \ {pay[q].code : q \in {q \in Payments : InUse(Swept(pay[q]))}}
  IN  IF free = {exclude} THEN free ELSE free \ {exclude}

NewPayment(purpose, code, coupon, from) ==
  [status |-> "pending", purpose |-> purpose, code |-> code,
   coupon |-> coupon, overdue |-> FALSE, cooled |-> FALSE,
   renewedFrom |-> from, bank |-> None]

(* Coupons *)

(* sweep_expired_reservations *)
SweptRedemptions ==
  [o \in Payments |->
     IF /\ redemption[o].status = "reserved"
        /\ pay[redemption[o].payment].overdue
     THEN [redemption[o] EXCEPT !.status = "released"] ELSE redemption[o]]

Uses(rows) ==
  Cardinality({o \in Payments : rows[o].status \in {"reserved", "redeemed"}})
    + coinUses

------------------------------------------------------------------------------
(* New payments *)

CreateTopup(p) ==
  /\ NextId(p)
  /\ \E code \in Allocatable(None) :
       pay' = [q \in Payments |->
                 IF q = p THEN NewPayment("wallet_topup", code, FALSE, None)
                 ELSE Swept(pay[q])]
  /\ UNCHANGED <<order, redemption, coinUses, ledger, transfer, handlers>>

(* create_plan_payment: with a coupon, the quota is taken until the payment *)
(* expires                                                                  *)
CreatePlanPayment(p, mode, coupon) ==
  /\ NextId(p)
  /\ coupon => Uses(SweptRedemptions) < CouponLimit
  /\ \E code \in Allocatable(None) :
       pay' = [q \in Payments |->
                 IF q = p THEN NewPayment("plan_purchase", code, coupon, None)
                 ELSE Swept(pay[q])]
  /\ order' = [order EXCEPT ![p] = [status |-> "awaiting_payment",
                                    payment |-> p, mode |-> mode]]
  /\ redemption' = IF coupon
                   THEN [SweptRedemptions EXCEPT ![p] = [status |-> "reserved",
                                                         payment |-> p]]
                   ELSE redemption
  /\ UNCHANGED <<coinUses, ledger, transfer, handlers>>

(* Mutant: the purchase relies on the quote the customer was shown. *)
CoinPurchaseAsQuoted ==
  /\ redemption' = SweptRedemptions
  /\ coinUses' = coinUses + 1
  /\ UNCHANGED <<pay, order, ledger, transfer, handlers>>

(* purchase_plan_with_coin_atomic takes a use of the coupon at once *)
CoinPurchase ==
  /\ Uses(SweptRedemptions) < CouponLimit
  /\ redemption' = SweptRedemptions
  /\ coinUses' = coinUses + 1
  /\ UNCHANGED <<pay, order, ledger, transfer, handlers>>

(* coupon_validate: a quote sweeps as well *)
Quote ==
  /\ redemption' = SweptRedemptions
  /\ UNCHANGED <<pay, order, coinUses, ledger, transfer, handlers>>

------------------------------------------------------------------------------
(* The bank (external).  A transfer is made with the code of a payment the  *)
(* customer was shown, before the code may be used again, and is            *)
(* reported any number of times until the bank gives up.  Its date may be   *)
(* inside the payment's window, outside, or unreadable, which counts as     *)
(* outside; a later payment with the same code starts after it.             *)

MakeTransfer(t, p, inWindow) ==
  /\ transfer[t].for = None
  /\ Exists(p)
  /\ ~pay[p].cooled
  /\ Newest(p, pay[p].code)
  /\ transfer' = [transfer EXCEPT
                    ![t] = [for |-> p, inWindow |-> inWindow, alive |-> TRUE]]
  /\ UNCHANGED <<pay, order, redemption, coinUses, ledger, handlers>>

GiveUp(t) ==
  /\ transfer[t].alive
  /\ transfer' = [transfer EXCEPT ![t].alive = FALSE]
  /\ UNCHANGED <<pay, order, redemption, coinUses, ledger, handlers>>

------------------------------------------------------------------------------
(* Confirmation *)

ReferenceUnused(p, bank) ==
  bank # Generated => \A q \in Payments \ {p} : pay[q].bank # bank

(* "recovers" is can_recover_expired: an override, or a transfer in time *)
Accepted(p, bank, recovers) ==
  /\ ReferenceUnused(p, bank)
  /\ \/ pay[p].status = "pending" /\ (~pay[p].overdue \/ recovers)
     \/ pay[p].status = "expired" /\ recovers

(* Mutant: the order of an expired payment is taken to be cancelled. *)
PaidIfCancelled(p, row) ==
  IF row.status = (IF pay[p].status = "expired" THEN "cancelled"
                                                ELSE "awaiting_payment")
  THEN [row EXCEPT !.status =
          IF row.mode = "apk_download" THEN "completed" ELSE "paid"]
  ELSE row

(* What the confirmation does to the linked order: one that waits is paid,  *)
(* and one that was cancelled when the recovered payment expired            *)
PaidOrder(p, row) ==
  IF \/ row.status = "awaiting_payment"
     \/ row.status = "cancelled" /\ pay[p].status = "expired"
  THEN [row EXCEPT !.status =
          IF row.mode = "apk_download" THEN "completed" ELSE "paid"]
  ELSE row

(* redeem_reserved_coupon *)
Redeemed(p, recovers, row) ==
  IF /\ row.payment = p
     /\ \/ row.status = "reserved"
        \/ row.status = "released" /\ recovers
  THEN [row EXCEPT !.status = "redeemed"] ELSE row

Settled(p, bank, recovers) ==
  /\ Accepted(p, bank, recovers)
  /\ pay' = [pay EXCEPT ![p] = [WithStatus(pay[p], "paid") EXCEPT !.bank = bank]]
  /\ ledger' = IF pay[p].purpose = "wallet_topup" THEN ledger \cup {p} ELSE ledger
  /\ order' = [o \in Payments |->
                 IF o \in Linked(p) THEN PaidOrder(p, order[o]) ELSE order[o]]
  /\ redemption' = [o \in Payments |-> Redeemed(p, recovers, redemption[o])]
  /\ dispatching' = IF \E o \in Linked(p) : order[o].mode = "apk_download"
                    THEN dispatching \cup {p} ELSE dispatching
  /\ UNCHANGED <<coinUses, transfer, closing, renewing>>

(* an order that waits is cancelled with its payment *)
CancelWaiting(p) ==
  order' = [o \in Payments |->
              IF o \in Linked(p) /\ order[o].status = "awaiting_payment"
              THEN [order[o] EXCEPT !.status = "cancelled"] ELSE order[o]]

(* an overdue payment that may not be recovered is closed instead; its      *)
(* coupon reservation is left to the sweep                                  *)
TooLate(p, bank, recovers) ==
  /\ ReferenceUnused(p, bank)
  /\ pay[p].status = "pending" /\ pay[p].overdue /\ ~recovers
  /\ pay' = [pay EXCEPT ![p] = WithStatus(pay[p], "expired")]
  /\ CancelWaiting(p)
  /\ UNCHANGED <<redemption, coinUses, ledger, transfer, handlers>>

(* confirm_payment_order_tx: anything else is refused and changes nothing *)
Confirm(p, bank, recovers) ==
  Settled(p, bank, recovers) \/ TooLate(p, bank, recovers)

(* _process_payment: the payment is found by the code of the transfer.  It  *)
(* is read before the transaction, but what is used of it does not change.  *)
Webhook(t, p) ==
  /\ transfer[t].alive
  /\ Newest(p, pay[transfer[t].for].code)
  /\ Confirm(p, t, transfer[t].for = p /\ transfer[t].inWindow)

(* payment_confirm, and payment_manual_confirm with "override": the admin   *)
(* types the bank's reference or has one generated                          *)
AdminConfirm(p, bank, override) ==
  /\ Exists(p)
  /\ Confirm(p, bank, override)

(* dispatch_paid_activation_order: an APK order is completed whatever its   *)
(* status; the other modes go to the outbox, the queue or the admin, which  *)
(* writes nothing here                                                      *)
DispatchPaid(p) ==
  /\ p \in dispatching
  /\ dispatching' = dispatching \ {p}
  /\ order' = [o \in Payments |->
                 IF o \in Linked(p)
                 THEN [order[o] EXCEPT !.status = "completed"] ELSE order[o]]
  /\ UNCHANGED <<pay, redemption, coinUses, ledger, transfer,
                 closing, renewing>>

------------------------------------------------------------------------------
(* Rejection: reject_payment_order_tx refuses a paid row and nothing else *)

(* room for one more handler between its read and its transaction *)
Room(waiting) == Cardinality(waiting) < MaxRequests

(* release_reserved_coupon *)
Released(p) ==
  [o \in Payments |->
     IF redemption[o].payment = p /\ redemption[o].status = "reserved"
     THEN [redemption[o] EXCEPT !.status = "released"] ELSE redemption[o]]

(* Mutant: the caller has seen that the payment is open. *)
ClosesAsRead(p, status) ==
  /\ Exists(p)
  /\ pay' = [pay EXCEPT ![p] = WithStatus(pay[p], status)]
  /\ CancelWaiting(p)
  /\ redemption' = Released(p)
  /\ UNCHANGED <<coinUses, ledger, transfer, renewing, dispatching>>

(* Mutant: the reservation is left to the sweep. *)
ClosesKeepingQuota(p, status) ==
  /\ Exists(p)
  /\ pay[p].status # "paid"
  /\ pay' = [pay EXCEPT ![p] = WithStatus(pay[p], status)]
  /\ CancelWaiting(p)
  /\ UNCHANGED <<redemption, coinUses, ledger, transfer, renewing, dispatching>>

Closes(p, status) ==
  /\ Exists(p)
  /\ pay[p].status # "paid"
  /\ pay' = [pay EXCEPT ![p] = WithStatus(pay[p], status)]
  /\ CancelWaiting(p)
  /\ redemption' = Released(p)
  /\ UNCHANGED <<coinUses, ledger, transfer, renewing, dispatching>>

(* get_payment_status sees a pending row that is overdue, cancel_payment    *)
(* one that is pending; each then closes it in a transaction of its own     *)
ReadToClose(p, status) ==
  /\ pay[p].status = "pending"
  /\ status = "expired" => pay[p].overdue
  /\ Room(closing)
  /\ closing' = closing \cup {<<p, status>>}
  /\ UNCHANGED <<pay, order, redemption, coinUses, ledger, transfer,
                 renewing, dispatching>>

Close(p, status) ==
  /\ <<p, status>> \in closing
  /\ closing' = closing \ {<<p, status>>}
  /\ \/ Closes(p, status)
     \/ /\ pay[p].status = "paid"
        /\ UNCHANGED <<pay, order, redemption, coinUses, ledger, transfer,
                       renewing, dispatching>>

(* payment_reject *)
AdminReject(p) ==
  /\ Closes(p, "cancelled")
  /\ UNCHANGED closing

------------------------------------------------------------------------------
(* Renewal: renew_payment *)

(* the state in which a payment may be renewed *)
Lapsed(p) == \/ pay[p].status \in {"expired", "cancelled"}
             \/ pay[p].status = "pending" /\ pay[p].overdue

BeginRenewal(p) ==
  /\ Lapsed(p)
  /\ ~Renewed(p)
  /\ Room(renewing)
  /\ renewing' = renewing \cup {p}
  /\ UNCHANGED <<pay, order, redemption, coinUses, ledger, transfer,
                 closing, dispatching>>

(* the reservation of a renewed payment: one that was released has to find  *)
(* room under the limit, after a sweep                                      *)
Reserved(p) == {o \in Payments : redemption[o].payment = p}

(* Mutant: the quota was taken once and that is enough. *)
QuotaAlwaysRegained(p) ==
  pay[p].coupon => \A o \in Reserved(p) : redemption[o].status # "redeemed"

QuotaRegained(p) ==
  pay[p].coupon => \A o \in Reserved(p) :
    \/ redemption[o].status = "reserved"
    \/ redemption[o].status = "released" /\ Uses(SweptRedemptions) < CouponLimit

(* what the renewal starts from: the swept rows when the quota is looked at *)
RedemptionsAtRenewal(p) ==
  IF \E o \in Reserved(p) : redemption[o].status = "released"
  THEN SweptRedemptions ELSE redemption

(* the replacement itself: a new payment for the same amount takes over the *)
(* reservation and the order, whatever the status of the order              *)
Replace(p, n) ==
  /\ NextId(n)
  /\ \E code \in Allocatable(pay[p].code) :
       pay' = [q \in Payments |->
                 IF q = n THEN NewPayment(pay[p].purpose, code, pay[p].coupon, p)
                 ELSE Swept(pay[q])]
  /\ redemption' = [o \in Payments |->
                      IF o \in Reserved(p)
                      THEN [status |-> "reserved", payment |-> n]
                      ELSE RedemptionsAtRenewal(p)[o]]
  /\ order' = [o \in Payments |->
                 IF o \in Linked(p)
                 THEN [order[o] EXCEPT !.payment = n,
                                       !.status = "awaiting_payment"]
                 ELSE order[o]]
  /\ UNCHANGED <<coinUses, ledger, transfer, closing, dispatching>>

(* another tab may be renewing the same payment *)
EndsRenewal(p) == p \in renewing /\ renewing' \in {renewing, renewing \ {p}}

(* Mutant: the transaction goes by what the handler read before it. *)
RenewAsRead(p, n) ==
  EndsRenewal(p) /\ ~Renewed(p) /\ QuotaRegained(p) /\ Replace(p, n)

(* Mutant: only the first check looks for an earlier renewal. *)
RenewTwice(p, n) ==
  EndsRenewal(p) /\ Lapsed(p) /\ QuotaRegained(p) /\ Replace(p, n)

(* The transaction checks everything again. *)
Renew(p, n) ==
  EndsRenewal(p) /\ Lapsed(p) /\ ~Renewed(p) /\ QuotaRegained(p) /\ Replace(p, n)

(* paid or renewed meanwhile, no quota, no code, or a busy database *)
RenewRefused(p) ==
  /\ EndsRenewal(p)
  /\ UNCHANGED <<pay, order, redemption, coinUses, ledger, transfer,
                 closing, dispatching>>

------------------------------------------------------------------------------
(* The order after the payment *)

Moves(o, status) ==
  /\ order' = [order EXCEPT ![o].status = status]
  /\ UNCHANGED <<pay, redemption, coinUses, ledger, transfer, handlers>>

(* update_activation_order_status: what the queue worker or the outbox      *)
(* makes of an activated order; the statuses on the way are left out        *)
Activation(o, status) ==
  /\ order[o].mode = "auto_activation"
  /\ order[o].status \in {"paid", "failed"}
  /\ TransitionOk(order[o].status, status)
  /\ Moves(o, status)

(* admin_transition_manual_order: "start" and "complete" *)
ManualStep(o) ==
  /\ order[o].mode = "manual_contact"
  /\ \/ order[o].status = "paid" /\ Moves(o, "processing")
     \/ order[o].status = "processing" /\ Moves(o, "completed")

(* admin_cancel_manual_order: does not look at the payment *)
ManualCancel(o) ==
  /\ order[o].mode = "manual_contact"
  /\ order[o].status \notin {"completed", "refunded", "cancelled"}
  /\ Moves(o, "cancelled")

(* admin_refund_manual_order: the money of a QR order goes back by hand *)
RefundManual(o) ==
  /\ order[o].status \in {"paid", "processing", "failed", "cancelled"}
  /\ Moves(o, "refunded")

------------------------------------------------------------------------------
(* Time, and the process *)

(* PAYMENT_TTL_SECONDS have passed *)
Overdue(p) ==
  /\ Exists(p)
  /\ ~pay[p].overdue
  /\ pay' = [pay EXCEPT ![p].overdue = TRUE]
  /\ UNCHANGED <<order, redemption, coinUses, ledger, transfer, handlers>>

(* PAYMENT_CODE_REUSE_DELAY_SECONDS have passed since the last write: a day *)
(* by default, longer than the TTL, than any request takes, and than a      *)
(* transfer is reported                                                     *)
Cools(p) ==
  /\ pay[p].overdue
  /\ ~pay[p].cooled
  /\ \A t \in Transfers : transfer[t].alive => pay[transfer[t].for].code # pay[p].code
  /\ \A x \in closing : x[1] # p
  /\ p \notin renewing \cup dispatching
  /\ pay' = [pay EXCEPT ![p].cooled = TRUE]
  /\ UNCHANGED <<order, redemption, coinUses, ledger, transfer, handlers>>

(* the process dies with the handlers that were under way *)
Restart ==
  /\ closing' = {}
  /\ renewing' = {}
  /\ dispatching' = {}
  /\ UNCHANGED <<pay, order, redemption, coinUses, ledger, transfer>>

------------------------------------------------------------------------------
Customer(p) ==
  \/ "wallet_topup" \in Goods /\ CreateTopup(p)
  \/ \E mode \in Goods \ {"wallet_topup"} : CreatePlanPayment(p, mode, FALSE)
  \/ \E mode \in CouponGoods : CreatePlanPayment(p, mode, TRUE)
  \/ \E status \in {"expired", "cancelled"} :
       ReadToClose(p, status) \/ Close(p, status)
  \/ BeginRenewal(p) \/ RenewRefused(p)
  \/ \E n \in Payments : Renew(p, n)

Bank(t) ==
  \/ \E p \in Payments, inWindow \in BOOLEAN : MakeTransfer(t, p, inWindow)
  \/ \E p \in Payments : Webhook(t, p)
  \/ GiveUp(t)

Admin(p) ==
  \/ \E bank \in References \cup {Generated}, override \in BOOLEAN :
       AdminConfirm(p, bank, override)
  \/ AdminReject(p) \/ ManualStep(p) \/ ManualCancel(p) \/ RefundManual(p)

Next ==
  \/ \E p \in Payments : Customer(p) \/ Admin(p) \/ DispatchPaid(p)
                         \/ Overdue(p) \/ Cools(p)
                         \/ \E s \in {"completed", "failed"} : Activation(p, s)
  \/ \E t \in Transfers : Bank(t)
  \/ CoinPurchase \/ Quote \/ Restart

Spec == Init /\ [][Next]_vars

------------------------------------------------------------------------------
(* Properties *)

(* Every variable keeps its type. *)
TypeOK ==
  /\ pay \in [Payments -> PaymentRow]
  /\ order \in [Payments -> OrderRow]
  /\ redemption \in [Payments -> RedemptionRow]
  /\ coinUses \in 0..CouponLimit
  /\ ledger \in SUBSET Payments
  /\ transfer \in [Transfers -> TransferRow]
  /\ closing \in SUBSET (Payments \X {"expired", "cancelled"})
  /\ renewing \in SUBSET Payments
  /\ dispatching \in SUBSET Payments

(* What is fulfilled, or on its way, is paid for: the payment the order is  *)
(* linked to now is paid, although orders change payments and handlers work *)
(* on what they read earlier.                                               *)
OrderPaidFor ==
  \A o \in Payments :
    order[o].status \in {"paid", "processing", "completed", "failed"} =>
      pay[order[o].payment].status = "paid"

(* A payment that was booked has its effect, exactly once: coins for a      *)
(* top-up; for a plan the order moves on, unless the admin cancelled or     *)
(* refunded it, or a renewal has taken the order away before.  A transfer   *)
(* is booked on one payment at most, by webhooks that are repeated and      *)
(* admins who type its reference.                                           *)
MoneyAccounted ==
  /\ \A p, q \in Payments :
       pay[p].bank \notin {None, Generated} /\ pay[p].bank = pay[q].bank => p = q
  /\ ledger = {p \in Payments : /\ pay[p].status = "paid"
                                /\ pay[p].purpose = "wallet_topup"}
  /\ \A o \in Payments :
       order[o].status = "awaiting_payment" => pay[order[o].payment].status # "paid"

(* A customer is asked to pay a purchase with one code at a time, and each  *)
(* code that lapsed was replaced at most once: two tabs that renew at the   *)
(* same time do not fork the purchase.                                      *)
RenewedOnce ==
  \A p, q \in Payments :
    pay[p].renewedFrom # None /\ pay[p].renewedFrom = pay[q].renewedFrom => p = q

(* The webhook books a transfer on the payment whose code the customer was  *)
(* shown, although codes are few, are used again, and a renewal may fall    *)
(* between the transfer and its report.                                     *)
TransferReachesItsPayment ==
  \A p \in Payments :
    pay[p].bank \in Transfers => transfer[pay[p].bank].for = p

(* Once booked, a payment is never undone, booked again or parted from its  *)
(* order: not by a renewal, status read or rejection that began before.     *)
PaidIsFinal ==
  [][\A p \in Payments : pay[p].status = "paid" =>
       /\ pay'[p].status = "paid"
       /\ pay'[p].bank = pay[p].bank
       /\ \A o \in Linked(p) : order'[o].payment = p]_vars

(* The coupon is used within its limit, with one exception: a reservation   *)
(* that was released, and whose use may have gone to somebody else, comes   *)
(* back when its lapsed payment is booked after all.  An administrator's    *)
(* override does that, and so does the webhook: see ReleasedByOverrideOnly. *)
CouponWithinLimit ==
  [][Uses(redemption)' > Uses(redemption) =>
       \/ Uses(redemption)' <= CouponLimit
       \/ \E o \in Payments : /\ redemption[o].status = "released"
                              /\ redemption'[o].status = "redeemed"]_vars

(* A use of the coupon counts exactly as long as it is paid for or may be:  *)
(* redeemed with a paid payment, and never left reserved by one.            *)
CouponFollowsPayment ==
  \A o \in Payments :
    /\ redemption[o].status = "redeemed" => pay[redemption[o].payment].status = "paid"
    /\ redemption[o].status = "reserved" =>
         pay[redemption[o].payment].status \in {"pending", "expired"}

(* What confirm_payment_order_tx says of a plan purchase: "marks payment    *)
(* paid and sets activation_order status to 'paid'".  So a transfer that    *)
(* the webhook booked for a plan has an order to show for it.               *)
PaidHasOrder ==
  \A p \in Payments :
    pay[p].bank \in Transfers /\ pay[p].purpose = "plan_purchase" => Linked(p) # {}

(* What redeem_reserved_coupon says: "A released reservation is redeemable  *)
(* only for an explicit admin manual override".  So the transfer that the   *)
(* webhook books brings no released reservation back.                       *)
ReleasedByOverrideOnly ==
  [][\A o \in Payments :
       redemption[o].status = "released" /\ redemption'[o].status = "redeemed"
         => pay'[redemption[o].payment].bank \notin Transfers]_vars
=============================================================================
