--------------------------- MODULE PaymentsProofs ---------------------------
(* The safety properties of Payments, for any number of payments, codes,    *)
(* transfers and handlers under way.                                        *)
EXTENDS Payments, FiniteSetTheorems, TLAPS

(* An order has the id of the payment it was created with, and is linked to *)
(* that payment or to a later one.                                          *)
Unlinked(row) == row.status = "none" /\ row.payment = None /\ row.mode = None

OrdersLinked ==
  \A o \in Payments :
    \/ Unlinked(order[o])
    \/ /\ order[o].status # "none" /\ order[o].payment # None
       /\ Exists(o) /\ Exists(order[o].payment)

(* So is a reservation, and its payment is one with the coupon. *)
RedemptionsLinked ==
  \A o \in Payments :
    \/ redemption[o].status = "none" /\ redemption[o].payment = None
    \/ /\ redemption[o].status # "none" /\ redemption[o].payment # None
       /\ Exists(o) /\ Exists(redemption[o].payment)
       /\ pay[redemption[o].payment].coupon

OneReservation ==
  \A o, q \in Payments :
    redemption[o].payment # None /\ redemption[o].payment = redemption[q].payment
      => o = q

(* A transfer the bank may still report was made for the newest payment     *)
(* with its code, and that code is not free yet.                            *)
Reportable(f) == Exists(f) /\ ~pay[f].cooled /\ Newest(f, pay[f].code)

ReportsInTime ==
  \A t \in Transfers :
    transfer[t].alive => transfer[t].for # None /\ Reportable(transfer[t].for)

DispatchedPaid == \A p \in dispatching : pay[p].status = "paid"

PInv ==
  /\ TypeOK
  /\ OrdersLinked /\ RedemptionsLinked /\ OneReservation
  /\ ReportsInTime /\ DispatchedPaid
  /\ OrderPaidFor /\ MoneyAccounted /\ CouponFollowsPayment
  /\ RenewedOnce /\ TransferReachesItsPayment

(* What every step does besides: the two action properties. *)
PaidStep ==
  \A p \in Payments : pay[p].status = "paid" =>
    /\ pay'[p].status = "paid"
    /\ pay'[p].bank = pay[p].bank
    /\ \A o \in Linked(p) : order'[o].payment = p

LimitStep ==
  Uses(redemption)' > Uses(redemption) =>
    \/ Uses(redemption)' <= CouponLimit
    \/ \E o \in Payments : /\ redemption[o].status = "released"
                           /\ redemption'[o].status = "redeemed"

Promised == PInv' /\ PaidStep /\ LimitStep

(* The parts of the invariant by what they are about: the payments with the *)
(* money, the orders, and the reservations.                                 *)
BanksApart ==
  \A p, q \in Payments :
    pay[p].bank \notin {None, Generated} /\ pay[p].bank = pay[q].bank => p = q

Booked ==
  ledger = {p \in Payments : pay[p].status = "paid" /\ pay[p].purpose = "wallet_topup"}

Awaited ==
  \A o \in Payments :
    order[o].status = "awaiting_payment" => pay[order[o].payment].status # "paid"

PaySide == /\ BanksApart /\ Booked /\ RenewedOnce /\ TransferReachesItsPayment
           /\ ReportsInTime /\ DispatchedPaid
OrderSide == OrdersLinked /\ OrderPaidFor /\ Awaited
CouponSide == RedemptionsLinked /\ OneReservation /\ CouponFollowsPayment

LEMMA Parts == PInv <=> TypeOK /\ PaySide /\ OrderSide /\ CouponSide
  BY DEF PInv, PaySide, OrderSide, CouponSide, MoneyAccounted, BanksApart, Booked, Awaited

-----------------------------------------------------------------------------
(* The rows of the tables *)

PayStatus == {"none", "pending", "paid", "expired", "cancelled"}

LEMMA PayRows ==
  ASSUME NEW row \in PaymentRow
  PROVE  /\ row.status \in PayStatus /\ row.purpose \in Purpose
         /\ row.code \in Codes \cup {None} /\ row.coupon \in BOOLEAN
         /\ row.overdue \in BOOLEAN /\ row.cooled \in BOOLEAN
         /\ row.renewedFrom \in Payments \cup {None}
         /\ row.bank \in Transfers \cup References \cup {Generated, None}
  BY DEF PaymentRow, PayStatus

LEMMA NoneApart ==
  /\ None \notin Payments /\ None \notin Codes /\ None \notin Modes
  /\ None \notin Transfers /\ Generated \notin Transfers
  /\ Transfers \cap References = {} /\ Payments \subseteq Nat
  <1>1. None \notin Payments /\ Payments \subseteq Nat
    BY NoneAssumption, BoundAssumption DEF Payments
  <1>2. None \notin Modes
    BY NoneAssumption, GoodsAssumption DEF Modes
  <1> QED BY <1>1, <1>2, NoneAssumption

(* What two rows have in common when only the status, the clock and the bank *)
(* reference differ.                                                        *)
SameOffer(row, new) ==
  /\ new.purpose = row.purpose /\ new.code = row.code /\ new.coupon = row.coupon
  /\ new.renewedFrom = row.renewedFrom

LEMMA WithStatusRow ==
  ASSUME NEW row \in PaymentRow, NEW status \in PayStatus
  PROVE  /\ WithStatus(row, status) \in PaymentRow
         /\ SameOffer(row, WithStatus(row, status))
         /\ WithStatus(row, status).status = status
         /\ WithStatus(row, status).cooled = FALSE
         /\ WithStatus(row, status).bank = row.bank
  <1>1. PICK r : r = [row EXCEPT !.status = status, !.cooled = FALSE]
    OBVIOUS
  <1>2. r \in PaymentRow /\ SameOffer(row, r) /\ r.status = status
        /\ r.cooled = FALSE /\ r.bank = row.bank
    BY <1>1 DEF PaymentRow, PayStatus, SameOffer
  <1> QED BY <1>1, <1>2 DEF WithStatus

(* A row after the sweep of allocate_transfer_code. *)
Aged(row, new) ==
  /\ new \in PaymentRow /\ SameOffer(row, new) /\ new.bank = row.bank
  /\ \/ new.status = row.status
     \/ row.status = "pending" /\ new.status = "expired"
  /\ new.cooled => row.cooled

LEMMA SweptRow ==
  ASSUME NEW row \in PaymentRow
  PROVE  Aged(row, Swept(row))
  <1>1. CASE row.status = "pending" /\ row.overdue
    <2>1. "expired" \in PayStatus
      BY DEF PayStatus
    <2> QED BY <1>1, <2>1, WithStatusRow DEF Swept, Aged
  <1>2. CASE ~(row.status = "pending" /\ row.overdue)
    BY <1>2 DEF Swept, Aged, SameOffer
  <1> QED BY <1>1, <1>2

(* A code that is handed out is not that of a row that has not cooled. *)
LEMMA AllocatedFree ==
  ASSUME TypeOK, NEW exclude, NEW code \in Allocatable(exclude)
  PROVE  /\ code \in Codes
         /\ \A q \in Payments : Exists(q) /\ ~pay[q].cooled => pay[q].code # code
  <1> DEFINE used == {pay[q].code : q \in {q \in Payments : InUse(Swept(pay[q]))}}
  <1>1. code \in Codes \ used
    BY DEF Allocatable
  <1>2. ASSUME NEW q \in Payments, Exists(q), ~pay[q].cooled
        PROVE  pay[q].code \in used
    <2>1. pay[q] \in PaymentRow
      BY DEF TypeOK
    <2>2. Aged(pay[q], Swept(pay[q]))
      BY <2>1, SweptRow
    <2>3. InUse(Swept(pay[q]))
      BY <1>2, <2>2 DEF Aged, InUse, Exists
    <2> QED BY <2>3
  <1> QED BY <1>1, <1>2

-----------------------------------------------------------------------------
(* What happens to the payments: a new one is added, one is written, or one *)
(* is settled.                                                              *)

Grown(n) ==
  /\ ~Exists(n)
  /\ pay' \in [Payments -> PaymentRow]
  /\ pay'[n].status = "pending" /\ pay'[n].bank = None
  /\ \A q \in Payments : Exists(q) /\ ~pay[q].cooled => pay[q].code # pay'[n].code
  /\ \A q \in Payments \ {n} : Aged(pay[q], pay'[q])

(* Nothing that was booked is touched, and nothing is booked. *)
PaidSame ==
  \A q \in Payments :
    /\ Exists(q) => pay'[q].status # "none" /\ pay'[q].coupon = pay[q].coupon
    /\ pay[q].status = "paid" <=> pay'[q].status = "paid"
    /\ pay[q].status = "paid" => pay'[q].bank = pay[q].bank

LEMMA ReportsKept ==
  ASSUME PInv, UNCHANGED transfer,
         \A q \in Payments : Exists(q) => pay'[q].status # "none" /\ pay'[q].code = pay[q].code,
         \A q \in Payments : ~Exists(q) =>
            \/ pay'[q].code = pay[q].code
            \/ \A f \in Payments : Exists(f) /\ ~pay[f].cooled => pay[f].code # pay'[q].code,
         \A t \in Transfers : transfer[t].alive => ~pay'[transfer[t].for].cooled
  PROVE  ReportsInTime'
  <1> SUFFICES ASSUME NEW t \in Transfers, transfer[t].alive
               PROVE  transfer[t].for # None /\ Reportable(transfer[t].for)'
    BY DEF ReportsInTime
  <1>1. transfer[t].for # None /\ Reportable(transfer[t].for)
    BY DEF PInv, ReportsInTime
  <1>2. transfer[t].for \in Payments
    BY <1>1 DEF PInv, TypeOK, TransferRow
  <1>3. PICK f \in Payments : f = transfer[t].for
    BY <1>2
  <1>4. pay'[f].status # "none" /\ pay'[f].code = pay[f].code /\ ~pay'[f].cooled
    BY <1>1, <1>3 DEF Reportable, Exists
  <1>5. ASSUME NEW q \in Payments, pay'[q].code = pay[f].code
        PROVE  q \leq f
    BY <1>1, <1>3, <1>5 DEF Reportable, Newest, Exists
  <1> QED BY <1>1, <1>3, <1>4, <1>5 DEF Reportable, Newest, Exists

LEMMA GrownPay ==
  ASSUME PInv, NEW n \in Payments, Grown(n), UNCHANGED <<ledger, transfer, dispatching>>,
         pay'[n].renewedFrom # None => ~Renewed(pay'[n].renewedFrom)
  PROVE  PaySide' /\ PaidSame
  <1>1. \A q \in Payments \ {n} :
          /\ Exists(q) => pay'[q].status # "none"
          /\ pay'[q].code = pay[q].code /\ pay'[q].bank = pay[q].bank
          /\ pay'[q].purpose = pay[q].purpose /\ pay'[q].renewedFrom = pay[q].renewedFrom
          /\ pay[q].status = "paid" <=> pay'[q].status = "paid"
          /\ pay'[q].coupon = pay[q].coupon /\ (pay'[q].cooled => pay[q].cooled)
    BY DEF Grown, Aged, SameOffer, Exists
  <1>2. PaidSame
    BY <1>1 DEF Grown, PaidSame, Exists
  <1>3. BanksApart'
    BY <1>1, Parts DEF Grown, PaySide, BanksApart
  <1>4. Booked'
    BY <1>1, Parts DEF Grown, PaySide, Booked, Exists
  <1>5. RenewedOnce'
    BY <1>1, Parts DEF Grown, PaySide, RenewedOnce, Renewed
  <1>6. TransferReachesItsPayment'
    BY <1>1, Parts, NoneApart DEF Grown, PaySide, TransferReachesItsPayment
  <1>7. ReportsInTime'
    <2>1. ASSUME NEW t \in Transfers, transfer[t].alive
          PROVE  ~pay'[transfer[t].for].cooled
      <3>1. transfer[t].for \in Payments /\ Reportable(transfer[t].for)
        BY <2>1 DEF PInv, ReportsInTime, TypeOK, TransferRow
      <3> QED BY <1>1, <3>1 DEF Reportable, Grown
    <2> QED BY <1>1, <2>1, ReportsKept DEF Grown
  <1>8. DispatchedPaid'
    BY <1>2, Parts DEF PInv, TypeOK, DispatchedPaid, PaidSame
  <1> QED BY <1>2, <1>3, <1>4, <1>5, <1>6, <1>7, <1>8 DEF PaySide

(* One row is written, and the payment neither becomes paid nor stops being so. *)
LEMMA WrittenPay ==
  ASSUME PInv, NEW p \in Payments, NEW r \in PaymentRow, pay' = [pay EXCEPT ![p] = r],
         SameOffer(pay[p], r), r.bank = pay[p].bank, Exists(p) => r.status # "none",
         pay[p].status = "paid" <=> r.status = "paid",
         r.cooled => pay[p].cooled \/ \A t \in Transfers : transfer[t].alive => transfer[t].for # p,
         UNCHANGED <<ledger, transfer, dispatching>>
  PROVE  pay' \in [Payments -> PaymentRow] /\ PaySide' /\ PaidSame
  <1>0. pay \in [Payments -> PaymentRow]
    BY DEF PInv, TypeOK
  <1>1. /\ pay' \in [Payments -> PaymentRow] /\ pay'[p] = r
        /\ \A q \in Payments \ {p} : pay'[q] = pay[q]
    BY <1>0
  <1>2. \A q \in Payments :
          /\ Exists(q) => pay'[q].status # "none"
          /\ pay'[q].code = pay[q].code /\ pay'[q].bank = pay[q].bank
          /\ pay'[q].purpose = pay[q].purpose /\ pay'[q].renewedFrom = pay[q].renewedFrom
          /\ pay[q].status = "paid" <=> pay'[q].status = "paid"
          /\ pay'[q].coupon = pay[q].coupon
    BY <1>1 DEF SameOffer, Exists
  <1>3. PaidSame
    BY <1>2 DEF PaidSame
  <1>4. BanksApart' /\ Booked' /\ RenewedOnce' /\ TransferReachesItsPayment'
    BY <1>2, Parts DEF PaySide, BanksApart, Booked, RenewedOnce, TransferReachesItsPayment
  <1>5. ReportsInTime'
    <2>1. ASSUME NEW t \in Transfers, transfer[t].alive
          PROVE  ~pay'[transfer[t].for].cooled
      <3>1. transfer[t].for \in Payments /\ Reportable(transfer[t].for)
        BY <2>1 DEF PInv, ReportsInTime, TypeOK, TransferRow
      <3> QED BY <1>1, <2>1, <3>1 DEF Reportable
    <2> QED BY <1>2, <2>1, ReportsKept
  <1>6. DispatchedPaid'
    BY <1>2, Parts DEF PInv, TypeOK, PaySide, DispatchedPaid
  <1> QED BY <1>1, <1>3, <1>4, <1>5, <1>6 DEF PaySide

(* The payments stay as they are. *)
LEMMA SamePay ==
  ASSUME PInv, UNCHANGED <<pay, ledger, transfer>>, dispatching' \subseteq dispatching
  PROVE  PaySide' /\ PaidSame
  <1>1. PaidSame
    BY DEF PaidSame, Exists
  <1>2. BanksApart' /\ Booked' /\ RenewedOnce' /\ TransferReachesItsPayment'
    BY Parts DEF PaySide, BanksApart, Booked, RenewedOnce, TransferReachesItsPayment
  <1>3. ReportsInTime' /\ DispatchedPaid'
    BY Parts DEF PaySide, ReportsInTime, DispatchedPaid, Reportable, Newest, Exists
  <1> QED BY <1>1, <1>2, <1>3 DEF PaySide

(* A payment is settled, with a reference that is its own. *)
LEMMA SettledPay ==
  ASSUME PInv, NEW p \in Payments, NEW r \in PaymentRow, pay' = [pay EXCEPT ![p] = r],
         SameOffer(pay[p], r), r.status = "paid", r.cooled = FALSE, Exists(p),
         pay[p].status # "paid", ReferenceUnused(p, r.bank),
         r.bank \in Transfers => transfer[r.bank].for = p,
         ledger' = IF pay[p].purpose = "wallet_topup" THEN ledger \cup {p} ELSE ledger,
         UNCHANGED transfer, dispatching' \subseteq dispatching \cup {p}
  PROVE  pay' \in [Payments -> PaymentRow] /\ PaySide'
  <1>0. pay \in [Payments -> PaymentRow]
    BY DEF PInv, TypeOK
  <1>1. /\ pay' \in [Payments -> PaymentRow] /\ pay'[p] = r
        /\ \A q \in Payments \ {p} : pay'[q] = pay[q]
    BY <1>0
  <1>2. BanksApart'
    BY <1>1, Parts DEF PaySide, BanksApart, ReferenceUnused
  <1>3. Booked'
    BY <1>1, Parts DEF PaySide, Booked, SameOffer
  <1>4. RenewedOnce'
    BY <1>1, Parts DEF PaySide, RenewedOnce, SameOffer
  <1>5. TransferReachesItsPayment'
    BY <1>1, Parts DEF PaySide, TransferReachesItsPayment
  <1>6. ReportsInTime'
    <2>1. ASSUME NEW t \in Transfers, transfer[t].alive
          PROVE  ~pay'[transfer[t].for].cooled
      <3>1. transfer[t].for \in Payments /\ Reportable(transfer[t].for)
        BY <2>1 DEF PInv, ReportsInTime, TypeOK, TransferRow
      <3> QED BY <1>1, <3>1 DEF Reportable
    <2>2. \A q \in Payments : /\ Exists(q) => pay'[q].status # "none"
                              /\ pay'[q].code = pay[q].code
      BY <1>1 DEF SameOffer, Exists
    <2> QED BY <2>1, <2>2, ReportsKept
  <1>7. DispatchedPaid'
    BY <1>1, Parts DEF PInv, TypeOK, PaySide, DispatchedPaid
  <1> QED BY <1>1, <1>2, <1>3, <1>4, <1>5, <1>6, <1>7 DEF PaySide

-----------------------------------------------------------------------------
(* The orders, one at a time *)

Fulfilled == {"paid", "processing", "completed", "failed"}

OrderSound(o, row, pays) ==
  \/ Unlinked(row)
  \/ /\ row.status # "none" /\ row.payment \in Payments
     /\ pays[o].status # "none" /\ pays[row.payment].status # "none"
     /\ row.status \in Fulfilled => pays[row.payment].status = "paid"
     /\ row.status = "awaiting_payment" => pays[row.payment].status # "paid"

LEMMA OrderRows ==
  ASSUME NEW row \in OrderRow
  PROVE  /\ row.status \in OrderStatus \cup {"none"}
         /\ row.payment \in Payments \cup {None} /\ row.mode \in Modes \cup {None}
  BY DEF OrderRow

(* A row of an order with another status. *)
LEMMA MovedRow ==
  ASSUME NEW row \in OrderRow, NEW status \in OrderStatus
  PROVE  /\ [row EXCEPT !.status = status] \in OrderRow
         /\ [row EXCEPT !.status = status].status = status
         /\ [row EXCEPT !.status = status].payment = row.payment
         /\ [row EXCEPT !.status = status].mode = row.mode
  BY DEF OrderRow

LEMMA OrderSoundNow ==
  ASSUME PInv, NEW o \in Payments
  PROVE  order[o] \in OrderRow /\ OrderSound(o, order[o], pay)
  <1>1. order[o] \in OrderRow
    BY DEF PInv, TypeOK
  <1>2. order[o].payment \in Payments \cup {None}
    BY <1>1, OrderRows
  <1> QED BY <1>1, <1>2, Parts
        DEF OrderSide, OrdersLinked, OrderPaidFor, Awaited, OrderSound, Fulfilled,
            Exists, Unlinked

LEMMA OrdersSound ==
  ASSUME \A o \in Payments : OrderSound(o, order'[o], pay')
  PROVE  OrderSide'
  <1>1. None \notin Payments
    BY NoneApart
  <1>2. OrdersLinked'
    BY <1>1 DEF OrderSound, OrdersLinked, Exists, Unlinked
  <1>3. OrderPaidFor'
    BY DEF OrderSound, OrderPaidFor, Fulfilled, Unlinked
  <1>4. Awaited'
    BY DEF OrderSound, Awaited, Unlinked
  <1> QED BY <1>2, <1>3, <1>4 DEF OrderSide

LEMMA OrderKept ==
  ASSUME PInv, PaidSame, NEW o \in Payments
  PROVE  OrderSound(o, order[o], pay')
  BY OrderSoundNow DEF OrderSound, PaidSame, Exists

LEMMA OrdersKept ==
  ASSUME PInv, PaidSame, UNCHANGED order
  PROVE  order' \in [Payments -> OrderRow] /\ OrderSide'
  BY OrderKept, OrdersSound DEF PInv, TypeOK

(* PaidStep follows from what happens to the rows that are paid. *)
LEMMA PaidKept ==
  ASSUME PInv, PaidSame,
         \A o \in Payments : \/ order'[o].payment = order[o].payment
                             \/ order[o].payment \notin Payments
                             \/ pay[order[o].payment].status # "paid"
  PROVE  PaidStep
  BY DEF PaidSame, PaidStep, Linked

-----------------------------------------------------------------------------
(* The coupon reservations *)

CouponSound(o, row, pays) ==
  \/ row.status = "none" /\ row.payment = None
  \/ /\ row.status # "none" /\ row.payment \in Payments
     /\ pays[o].status # "none" /\ pays[row.payment].status # "none"
     /\ pays[row.payment].coupon
     /\ row.status = "redeemed" => pays[row.payment].status = "paid"
     /\ row.status = "reserved" => pays[row.payment].status \in {"pending", "expired"}

OpenSame ==
  \A q \in Payments : pay[q].status \in {"pending", "expired"} =>
                        pay'[q].status \in {"pending", "expired"}

LEMMA RedemptionRows ==
  ASSUME NEW row \in RedemptionRow
  PROVE  /\ row.status \in {"none", "reserved", "redeemed", "released"}
         /\ row.payment \in Payments \cup {None}
         /\ \A status \in {"none", "reserved", "redeemed", "released"} :
              /\ [row EXCEPT !.status = status] \in RedemptionRow
              /\ [row EXCEPT !.status = status].status = status
              /\ [row EXCEPT !.status = status].payment = row.payment
  BY DEF RedemptionRow

LEMMA ReleasedRow ==
  ASSUME NEW row \in RedemptionRow, NEW new, new = [row EXCEPT !.status = "released"]
  PROVE  new \in RedemptionRow /\ new.status = "released" /\ new.payment = row.payment
  BY RedemptionRows

LEMMA CouponSoundNow ==
  ASSUME PInv, NEW o \in Payments
  PROVE  redemption[o] \in RedemptionRow /\ CouponSound(o, redemption[o], pay)
  <1>1. redemption[o] \in RedemptionRow
    BY DEF PInv, TypeOK
  <1>2. redemption[o].payment \in Payments \cup {None}
    BY <1>1, RedemptionRows
  <1> QED BY <1>1, <1>2, Parts
        DEF CouponSide, RedemptionsLinked, CouponFollowsPayment, CouponSound, Exists

LEMMA CouponsSound ==
  ASSUME \A o \in Payments : CouponSound(o, redemption'[o], pay'), OneReservation'
  PROVE  CouponSide'
  <1>1. None \notin Payments
    BY NoneApart
  <1>2. RedemptionsLinked'
    BY <1>1 DEF CouponSound, RedemptionsLinked, Exists
  <1>3. CouponFollowsPayment'
    BY DEF CouponSound, CouponFollowsPayment
  <1> QED BY <1>2, <1>3 DEF CouponSide

(* A reservation stays as it is, or is released. *)
Eased(row, new) ==
  \/ new = row
  \/ row.status = "reserved" /\ new = [row EXCEPT !.status = "released"]

LEMMA EasedSound ==
  ASSUME PInv, PaidSame, OpenSame, NEW o \in Payments, NEW new, Eased(redemption[o], new)
  PROVE  /\ new \in RedemptionRow /\ new.payment = redemption[o].payment
         /\ CouponSound(o, new, pay')
         /\ new.status \in {"reserved", "redeemed"} => redemption[o].status = new.status
  <1>1. redemption[o] \in RedemptionRow /\ CouponSound(o, redemption[o], pay)
    BY CouponSoundNow
  <1>2. CouponSound(o, redemption[o], pay')
    BY <1>1 DEF CouponSound, PaidSame, OpenSame, Exists
  <1>3. /\ new \in RedemptionRow /\ new.payment = redemption[o].payment
        /\ \/ new.status = redemption[o].status
           \/ redemption[o].status = "reserved" /\ new.status = "released"
    <2>1. CASE new = redemption[o]
      BY <1>1, <2>1
    <2>2. CASE /\ redemption[o].status = "reserved"
               /\ new = [redemption[o] EXCEPT !.status = "released"]
      BY <1>1, <2>2, ReleasedRow
    <2> QED BY <2>1, <2>2 DEF Eased
  <1> QED BY <1>2, <1>3 DEF CouponSound

LEMMA SweptEased ==
  ASSUME PInv
  PROVE  /\ SweptRedemptions = [o \in Payments |-> SweptRedemptions[o]]
         /\ \A o \in Payments : Eased(redemption[o], SweptRedemptions[o])
  BY DEF SweptRedemptions, Eased

(* The uses of the coupon *)

Taken(rows) == {o \in Payments : rows[o].status \in {"reserved", "redeemed"}}

LEMMA TakenFinite ==
  ASSUME NEW rows
  PROVE  IsFiniteSet(Taken(rows)) /\ Cardinality(Taken(rows)) \in Nat
  <1>1. IsFiniteSet(Payments)
    BY FS_Interval, BoundAssumption DEF Payments
  <1>2. Taken(rows) \subseteq Payments
    BY DEF Taken
  <1> QED BY <1>1, <1>2, FS_Subset, FS_CardinalityType

LEMMA TakenFewer ==
  ASSUME NEW rows, NEW new, Taken(new) \subseteq Taken(rows)
  PROVE  Cardinality(Taken(new)) \leq Cardinality(Taken(rows))
  BY TakenFinite, FS_Subset

LEMMA TakenOneMore ==
  ASSUME NEW rows, NEW new, NEW o, Taken(new) \subseteq Taken(rows) \cup {o}
  PROVE  Cardinality(Taken(new)) \leq Cardinality(Taken(rows)) + 1
  <1>1. /\ IsFiniteSet(Taken(rows) \cup {o})
        /\ Cardinality(Taken(rows) \cup {o}) \in Nat
        /\ Cardinality(Taken(rows) \cup {o}) \leq Cardinality(Taken(rows)) + 1
    BY TakenFinite, FS_AddElement, FS_CardinalityType
  <1>2. Cardinality(Taken(new)) \leq Cardinality(Taken(rows) \cup {o})
    BY <1>1, FS_Subset
  <1> QED BY <1>1, <1>2, TakenFinite

LEMMA UsesTaken ==
  ASSUME NEW rows
  PROVE  Uses(rows) = Cardinality(Taken(rows)) + coinUses
  BY DEF Uses, Taken

LEMMA UsesTakenNext ==
  Uses(redemption)' = Cardinality(Taken(redemption')) + coinUses'
  BY DEF Uses, Taken

LEMMA LimitFewer ==
  ASSUME TypeOK, UNCHANGED coinUses, Taken(redemption') \subseteq Taken(redemption)
  PROVE  LimitStep
  <1>1. Cardinality(Taken(redemption')) \leq Cardinality(Taken(redemption))
    BY TakenFewer
  <1>2. coinUses \in Int
    BY LimitAssumption DEF TypeOK
  <1>3. ~(Uses(redemption)' > Uses(redemption))
    BY <1>1, <1>2, TakenFinite, UsesTaken, UsesTakenNext
  <1> QED BY <1>3 DEF LimitStep

LEMMA LimitOneMore ==
  ASSUME TypeOK, UNCHANGED coinUses, NEW o, Uses(SweptRedemptions) < CouponLimit,
         Taken(redemption') \subseteq Taken(SweptRedemptions) \cup {o}
  PROVE  LimitStep
  <1>1. Cardinality(Taken(redemption')) \leq Cardinality(Taken(SweptRedemptions)) + 1
    BY TakenOneMore
  <1>2. coinUses \in Int /\ CouponLimit \in Int
    BY LimitAssumption DEF TypeOK
  <1>3. Uses(redemption)' \leq CouponLimit
    BY <1>1, <1>2, TakenFinite, UsesTaken, UsesTakenNext
  <1> QED BY <1>3 DEF LimitStep

-----------------------------------------------------------------------------
(* The parts put together *)

LEMMA Together ==
  ASSUME TypeOK', PaySide', OrderSide', CouponSide', PaidStep, LimitStep
  PROVE  Promised
  BY DEF Promised, PInv, PaySide, OrderSide, CouponSide, MoneyAccounted, BanksApart,
         Booked, Awaited

LEMMA CouponsEased ==
  ASSUME PInv, PaidSame, OpenSame, UNCHANGED coinUses,
         redemption' = [o \in Payments |-> redemption'[o]],
         \A o \in Payments : Eased(redemption[o], redemption'[o])
  PROVE  redemption' \in [Payments -> RedemptionRow] /\ CouponSide' /\ LimitStep
  <1>1. \A o \in Payments :
          /\ redemption'[o] \in RedemptionRow
          /\ redemption'[o].payment = redemption[o].payment
          /\ CouponSound(o, redemption'[o], pay')
          /\ redemption'[o].status \in {"reserved", "redeemed"} =>
               redemption[o].status = redemption'[o].status
    BY EasedSound
  <1>2. redemption' \in [Payments -> RedemptionRow]
    BY <1>1
  <1>3. OneReservation'
    BY <1>1, Parts DEF CouponSide, OneReservation
  <1>4. CouponSide'
    BY <1>1, <1>3, CouponsSound
  <1>5. Taken(redemption') \subseteq Taken(redemption)
    BY <1>1 DEF Taken
  <1> QED BY <1>2, <1>4, <1>5, LimitFewer DEF PInv

LEMMA CouponsKept ==
  ASSUME PInv, PaidSame, OpenSame, UNCHANGED <<redemption, coinUses>>
  PROVE  redemption' \in [Payments -> RedemptionRow] /\ CouponSide' /\ LimitStep
  <1>1. redemption' = [o \in Payments |-> redemption'[o]]
    BY DEF PInv, TypeOK
  <1>2. \A o \in Payments : Eased(redemption[o], redemption'[o])
    BY DEF Eased
  <1> QED BY <1>1, <1>2, CouponsEased

(* Only what the handlers and the bank know changes. *)
LEMMA NothingWritten ==
  ASSUME PInv, UNCHANGED <<pay, order, redemption, coinUses, ledger>>,
         TypeOK', ReportsInTime', TransferReachesItsPayment', dispatching' \subseteq dispatching
  PROVE  Promised
  <1>1. PaidSame /\ OpenSame
    BY DEF PaidSame, OpenSame, Exists
  <1>2. PaySide'
    BY Parts DEF PaySide, BanksApart, Booked, RenewedOnce, DispatchedPaid
  <1>3. OrderSide' /\ PaidStep
    BY <1>1, OrdersKept, PaidKept
  <1>4. CouponSide' /\ LimitStep
    BY <1>1, CouponsKept
  <1> QED BY <1>2, <1>3, <1>4, Together

(* Only the handlers change. *)
LEMMA HandlersOnly ==
  ASSUME PInv, UNCHANGED <<pay, order, redemption, coinUses, ledger, transfer>>,
         closing' \in SUBSET (Payments \X {"expired", "cancelled"}),
         renewing' \in SUBSET Payments, dispatching' \subseteq dispatching
  PROVE  Promised
  <1>1. TypeOK'
    BY DEF PInv, TypeOK
  <1>2. ReportsInTime' /\ TransferReachesItsPayment'
    BY DEF PInv, ReportsInTime, TransferReachesItsPayment, Reportable, Newest, Exists
  <1> QED BY <1>1, <1>2, NothingWritten

(* Only orders change. *)
LEMMA OrdersMoved ==
  ASSUME PInv, UNCHANGED <<pay, redemption, coinUses, ledger, transfer, closing, renewing>>,
         dispatching' \subseteq dispatching, order' \in [Payments -> OrderRow],
         \A o \in Payments : /\ OrderSound(o, order'[o], pay)
                             /\ order'[o].payment = order[o].payment
  PROVE  Promised
  <1>1. TypeOK'
    BY DEF PInv, TypeOK
  <1>2. PaySide' /\ PaidSame /\ OpenSame
    BY SamePay DEF OpenSame
  <1>3. OrderSide' /\ PaidStep
    BY <1>2, OrdersSound, PaidKept
  <1>4. CouponSide' /\ LimitStep
    BY <1>2, CouponsKept
  <1> QED BY <1>1, <1>2, <1>3, <1>4, Together

(* The status of one order changes *)
LEMMA MovesKeeps ==
  ASSUME PInv, NEW o \in Payments, NEW status \in OrderStatus, Moves(o, status),
         ~Unlinked(order[o]), status # "awaiting_payment",
         status \in Fulfilled => order[o].status \in Fulfilled
  PROVE  Promised
  <1>1. order[o] \in OrderRow /\ OrderSound(o, order[o], pay)
    BY OrderSoundNow
  <1>2. PICK row \in OrderRow : /\ row = [order[o] EXCEPT !.status = status]
                               /\ row.status = status /\ row.payment = order[o].payment
    BY <1>1, MovedRow
  <1>3. order' = [order EXCEPT ![o] = row]
    BY <1>2 DEF Moves
  <1>4. /\ order' \in [Payments -> OrderRow] /\ order'[o] = row
        /\ \A q \in Payments \ {o} : order'[q] = order[q]
    BY <1>3 DEF PInv, TypeOK
  <1>5. OrderSound(o, row, pay)
    BY <1>1, <1>2 DEF OrderSound, OrderStatus
  <1>6. \A q \in Payments : /\ OrderSound(q, order'[q], pay)
                            /\ order'[q].payment = order[q].payment
    BY <1>2, <1>4, <1>5, OrderSoundNow
  <1> QED BY <1>4, <1>6, OrdersMoved DEF Moves, handlers

-----------------------------------------------------------------------------
(* New payments *)

LEMMA NewRow ==
  ASSUME PInv, NEW n \in Payments, ~Exists(n), NEW exclude, NEW code \in Allocatable(exclude),
         NEW purpose \in Purpose, NEW coupon \in BOOLEAN, NEW from \in Payments \cup {None},
         pay' = [q \in Payments |-> pay'[q]],
         pay'[n] = NewPayment(purpose, code, coupon, from),
         \A q \in Payments \ {n} : pay'[q] = Swept(pay[q])
  PROVE  /\ Grown(n) /\ OpenSame /\ pay' \in [Payments -> PaymentRow]
         /\ pay'[n].coupon = coupon /\ pay'[n].renewedFrom = from
         /\ pay'[n].status = "pending"
  <1>1. PICK r : r = NewPayment(purpose, code, coupon, from)
    OBVIOUS
  <1>2. /\ code \in Codes
        /\ \A q \in Payments : Exists(q) /\ ~pay[q].cooled => pay[q].code # code
    BY AllocatedFree DEF PInv
  <1>3. /\ r \in PaymentRow /\ r.status = "pending" /\ r.bank = None /\ r.code = code
        /\ r.coupon = coupon /\ r.renewedFrom = from
    BY <1>1, <1>2 DEF NewPayment, PaymentRow
  <1>4. pay'[n] = r
    BY <1>1
  <1>5. \A q \in Payments \ {n} : pay'[q] = Swept(pay[q]) /\ Aged(pay[q], pay'[q])
    BY SweptRow DEF PInv, TypeOK
  <1>6. pay' \in [Payments -> PaymentRow]
    <2>1. \A q \in Payments : pay'[q] \in PaymentRow
      BY <1>3, <1>4, <1>5 DEF Aged
    <2>2. pay' = [q \in Payments |-> pay'[q]]
      OBVIOUS
    <2> QED BY <2>1, <2>2
  <1>7. Grown(n)
    BY <1>2, <1>3, <1>4, <1>5, <1>6 DEF Grown
  <1>8. OpenSame
    BY <1>3, <1>4, <1>5 DEF OpenSame, Aged
  <1> QED BY <1>3, <1>4, <1>6, <1>7, <1>8

LEMMA CreateTopupStep ==
  ASSUME PInv, NEW p \in Payments, CreateTopup(p)
  PROVE  Promised
  <1> DEFINE none == FALSE
  <1>0. none \in BOOLEAN
    OBVIOUS
  <1>1. PICK code \in Allocatable(None) :
          pay' = [q \in Payments |->
                    IF q = p THEN NewPayment("wallet_topup", code, none, None)
                    ELSE Swept(pay[q])]
    BY DEF CreateTopup
  <1> HIDE DEF none
  <1>2. /\ Grown(p) /\ OpenSame /\ pay' \in [Payments -> PaymentRow]
        /\ pay'[p].renewedFrom = None
    <2>1. ~Exists(p) /\ "wallet_topup" \in Purpose
          /\ None \in Payments \cup {None}
      BY DEF CreateTopup, NextId, Purpose
    <2>2. /\ pay' = [q \in Payments |-> pay'[q]]
          /\ pay'[p] = NewPayment("wallet_topup", code, none, None)
          /\ \A q \in Payments \ {p} : pay'[q] = Swept(pay[q])
      BY <1>1
    <2> QED BY <1>0, <2>1, <2>2, NewRow
  <1>3. PaySide' /\ PaidSame
    BY <1>2, GrownPay DEF CreateTopup, handlers
  <1>4. OrderSide' /\ PaidStep
    BY <1>3, OrdersKept, PaidKept DEF CreateTopup
  <1>5. CouponSide' /\ LimitStep
    BY <1>2, <1>3, CouponsKept DEF CreateTopup
  <1>6. TypeOK'
    BY <1>2 DEF CreateTopup, handlers, PInv, TypeOK
  <1> QED BY <1>3, <1>4, <1>5, <1>6, Together

(* One reservation is written over the swept ones. *)
LEMMA ReservationWritten ==
  ASSUME PInv, PaidSame, OpenSame, NEW o \in Payments, NEW row \in RedemptionRow,
         UNCHANGED coinUses, Uses(SweptRedemptions) < CouponLimit,
         redemption' = [SweptRedemptions EXCEPT ![o] = row],
         CouponSound(o, row, pay'),
         \A q \in Payments \ {o} : redemption[q].payment # row.payment
  PROVE  redemption' \in [Payments -> RedemptionRow] /\ CouponSide' /\ LimitStep
  <1>1. /\ redemption'[o] = row
        /\ \A q \in Payments \ {o} : redemption'[q] = SweptRedemptions[q]
        /\ redemption' = [q \in Payments |-> redemption'[q]]
    BY SweptEased
  <1>2. \A q \in Payments \ {o} :
          /\ redemption'[q] \in RedemptionRow
          /\ redemption'[q].payment = redemption[q].payment
          /\ CouponSound(q, redemption'[q], pay')
    BY <1>1, SweptEased, EasedSound
  <1>3. redemption' \in [Payments -> RedemptionRow]
    BY <1>1, <1>2
  <1>4. OneReservation'
    BY <1>1, <1>2, Parts DEF CouponSide, OneReservation
  <1>5. CouponSide'
    BY <1>1, <1>2, <1>4, CouponsSound
  <1>6. Taken(redemption') \subseteq Taken(SweptRedemptions) \cup {o}
    BY <1>1 DEF Taken
  <1> QED BY <1>3, <1>5, <1>6, LimitOneMore DEF PInv

LEMMA CreatePlanPaymentStep ==
  ASSUME PInv, NEW p \in Payments, NEW mode \in Modes, NEW coupon \in BOOLEAN,
         CreatePlanPayment(p, mode, coupon)
  PROVE  Promised
  <1>1. ~Exists(p)
    BY DEF CreatePlanPayment, NextId
  <1>2. PICK code \in Allocatable(None) :
          pay' = [q \in Payments |->
                    IF q = p THEN NewPayment("plan_purchase", code, coupon, None)
                    ELSE Swept(pay[q])]
    BY DEF CreatePlanPayment
  <1>3. /\ Grown(p) /\ OpenSame /\ pay' \in [Payments -> PaymentRow]
        /\ pay'[p].renewedFrom = None /\ pay'[p].coupon = coupon
        /\ pay'[p].status = "pending"
    <2>1. "plan_purchase" \in Purpose /\ None \in Payments \cup {None}
      BY DEF Purpose
    <2>2. /\ pay' = [q \in Payments |-> pay'[q]]
          /\ pay'[p] = NewPayment("plan_purchase", code, coupon, None)
          /\ \A q \in Payments \ {p} : pay'[q] = Swept(pay[q])
      BY <1>2
    <2> QED BY <1>1, <2>1, <2>2, NewRow
  <1>4. PaySide' /\ PaidSame
    BY <1>3, GrownPay DEF CreatePlanPayment, handlers
  <1>5. Unlinked(order[p]) /\ order[p].payment \notin Payments
    BY <1>1, OrderSoundNow, NoneApart DEF OrderSound, Exists, Unlinked
  <1>6. PICK new \in OrderRow :
          /\ order' = [order EXCEPT ![p] = new]
          /\ new.status = "awaiting_payment" /\ new.payment = p
    <2>1. PICK new : new = [status |-> "awaiting_payment", payment |-> p, mode |-> mode]
      OBVIOUS
    <2>2. /\ new \in OrderRow /\ new.status = "awaiting_payment" /\ new.payment = p
      BY <2>1 DEF OrderRow, OrderStatus
    <2>3. order' = [order EXCEPT ![p] = new]
      BY <2>1 DEF CreatePlanPayment
    <2> QED BY <2>2, <2>3
  <1>7. /\ order' \in [Payments -> OrderRow] /\ order'[p] = new
        /\ \A q \in Payments \ {p} : order'[q] = order[q]
    BY <1>6 DEF PInv, TypeOK
  <1>8. OrderSide'
    <2>1. OrderSound(p, new, pay')
      BY <1>3, <1>6 DEF OrderSound, Fulfilled
    <2> QED BY <1>4, <1>7, <2>1, OrderKept, OrdersSound
  <1>9. PaidStep
    BY <1>4, <1>5, <1>7, PaidKept
  <1>10. redemption' \in [Payments -> RedemptionRow] /\ CouponSide' /\ LimitStep
    <2>1. CASE ~coupon
      BY <1>3, <1>4, <2>1, CouponsKept DEF CreatePlanPayment
    <2>2. CASE coupon
      <3>1. PICK row \in RedemptionRow :
              /\ row.status = "reserved" /\ row.payment = p
              /\ redemption' = [SweptRedemptions EXCEPT ![p] = row]
        BY <2>2 DEF CreatePlanPayment, RedemptionRow
      <3>2. CouponSound(p, row, pay')
        BY <1>3, <2>2, <3>1 DEF CouponSound
      <3>3. \A q \in Payments \ {p} : redemption[q].payment # p
        BY <1>1, CouponSoundNow, NoneApart DEF CouponSound, Exists
      <3> QED BY <1>3, <1>4, <2>2, <3>1, <3>2, <3>3, ReservationWritten
            DEF CreatePlanPayment
    <2> QED BY <2>1, <2>2
  <1>11. TypeOK'
    BY <1>3, <1>7, <1>10 DEF CreatePlanPayment, handlers, PInv, TypeOK
  <1> QED BY <1>4, <1>8, <1>9, <1>10, <1>11, Together

(* A coin purchase takes a use after a sweep, a quote only sweeps. *)
LEMMA SweptOnly ==
  ASSUME PInv, redemption' = SweptRedemptions, UNCHANGED <<pay, order, ledger, transfer, handlers>>
  PROVE  /\ PaySide' /\ OrderSide' /\ CouponSide' /\ PaidStep
         /\ redemption' \in [Payments -> RedemptionRow]
         /\ Taken(redemption') \subseteq Taken(redemption)
  <1>1. PaySide' /\ PaidSame /\ OpenSame
    BY SamePay DEF OpenSame, handlers
  <1>2. OrderSide' /\ PaidStep
    BY <1>1, OrdersKept, PaidKept
  <1>3. /\ redemption' = [o \in Payments |-> redemption'[o]]
        /\ \A o \in Payments : Eased(redemption[o], redemption'[o])
    BY SweptEased
  <1>4. \A o \in Payments :
          /\ redemption'[o] \in RedemptionRow
          /\ redemption'[o].payment = redemption[o].payment
          /\ CouponSound(o, redemption'[o], pay')
          /\ redemption'[o].status \in {"reserved", "redeemed"} =>
               redemption[o].status = redemption'[o].status
    BY <1>1, <1>3, EasedSound
  <1>5. redemption' \in [Payments -> RedemptionRow]
    BY <1>3, <1>4
  <1>6. OneReservation'
    BY <1>4, Parts DEF CouponSide, OneReservation
  <1>7. Taken(redemption') \subseteq Taken(redemption)
    BY <1>4 DEF Taken
  <1> QED BY <1>1, <1>2, <1>4, <1>5, <1>6, <1>7, CouponsSound

LEMMA CoinPurchaseStep ==
  ASSUME PInv, CoinPurchase
  PROVE  Promised
  <1>1. /\ PaySide' /\ OrderSide' /\ CouponSide' /\ PaidStep
        /\ redemption' \in [Payments -> RedemptionRow]
    BY SweptOnly DEF CoinPurchase
  <1>2. coinUses \in Nat /\ CouponLimit \in Nat
    BY LimitAssumption DEF PInv, TypeOK
  <1>3. Cardinality(Taken(SweptRedemptions)) + coinUses < CouponLimit
    BY UsesTaken DEF CoinPurchase
  <1>4. coinUses' = coinUses + 1 /\ coinUses' \in 0..CouponLimit
    BY <1>2, <1>3, TakenFinite DEF CoinPurchase
  <1>5. Uses(redemption)' \leq CouponLimit
    BY <1>2, <1>3, <1>4, TakenFinite, UsesTakenNext DEF CoinPurchase
  <1>6. TypeOK'
    BY <1>1, <1>4 DEF CoinPurchase, handlers, PInv, TypeOK
  <1> QED BY <1>1, <1>5, <1>6, Together DEF LimitStep

LEMMA QuoteStep ==
  ASSUME PInv, Quote
  PROVE  Promised
  <1>1. /\ PaySide' /\ OrderSide' /\ CouponSide' /\ PaidStep
        /\ redemption' \in [Payments -> RedemptionRow]
        /\ Taken(redemption') \subseteq Taken(redemption)
    BY SweptOnly DEF Quote
  <1>2. LimitStep
    BY <1>1, LimitFewer DEF Quote, PInv
  <1>3. TypeOK'
    BY <1>1 DEF Quote, handlers, PInv, TypeOK
  <1> QED BY <1>1, <1>2, <1>3, Together

-----------------------------------------------------------------------------
(* The bank *)

LEMMA MakeTransferStep ==
  ASSUME PInv, NEW t \in Transfers, NEW p \in Payments, NEW inWindow \in BOOLEAN,
         MakeTransfer(t, p, inWindow)
  PROVE  Promised
  <1>1. PICK r : r = [for |-> p, inWindow |-> inWindow, alive |-> TRUE]
    OBVIOUS
  <1>2. r \in TransferRow /\ r.for = p
    BY <1>1 DEF TransferRow
  <1>3. transfer' = [transfer EXCEPT ![t] = r]
    BY <1>1 DEF MakeTransfer
  <1>4. /\ transfer' \in [Transfers -> TransferRow] /\ transfer'[t] = r
        /\ \A u \in Transfers \ {t} : transfer'[u] = transfer[u]
    BY <1>2, <1>3 DEF PInv, TypeOK
  <1>5. TypeOK'
    BY <1>4 DEF MakeTransfer, handlers, PInv, TypeOK
  <1>6. ReportsInTime'
    <2>1. p # None /\ Reportable(p)
      BY NoneApart DEF MakeTransfer, Reportable
    <2>2. \A f \in Payments : Reportable(f) => Reportable(f)'
      BY DEF MakeTransfer, Reportable, Newest, Exists
    <2>3. \A u \in Transfers : transfer[u].for \in Payments \cup {None}
      BY DEF PInv, TypeOK, TransferRow
    <2> QED BY <1>2, <1>4, <2>1, <2>2, <2>3 DEF PInv, ReportsInTime
  <1>7. TransferReachesItsPayment'
    BY <1>4, NoneApart DEF MakeTransfer, PInv, TransferReachesItsPayment
  <1> QED BY <1>5, <1>6, <1>7, NothingWritten DEF MakeTransfer, handlers

LEMMA GiveUpStep ==
  ASSUME PInv, NEW t \in Transfers, GiveUp(t)
  PROVE  Promised
  <1>1. PICK r : r = [transfer[t] EXCEPT !.alive = FALSE]
    OBVIOUS
  <1>2. r \in TransferRow /\ r.for = transfer[t].for /\ r.alive = FALSE
    BY <1>1 DEF PInv, TypeOK, TransferRow
  <1>3. transfer' = [transfer EXCEPT ![t] = r]
    BY <1>1 DEF GiveUp
  <1>4. /\ transfer' \in [Transfers -> TransferRow] /\ transfer'[t] = r
        /\ \A u \in Transfers \ {t} : transfer'[u] = transfer[u]
    BY <1>2, <1>3 DEF PInv, TypeOK
  <1>5. TypeOK'
    BY <1>4 DEF GiveUp, handlers, PInv, TypeOK
  <1>6. ReportsInTime'
    BY <1>2, <1>4 DEF GiveUp, PInv, ReportsInTime, Reportable, Newest, Exists
  <1>7. TransferReachesItsPayment'
    BY <1>2, <1>4 DEF GiveUp, PInv, TransferReachesItsPayment
  <1> QED BY <1>5, <1>6, <1>7, NothingWritten DEF GiveUp, handlers

-----------------------------------------------------------------------------
(* Confirmation *)

LEMMA PaidOrderRow ==
  ASSUME NEW p, NEW row \in OrderRow
  PROVE  /\ PaidOrder(p, row) \in OrderRow /\ PaidOrder(p, row).payment = row.payment
         /\ \/ PaidOrder(p, row).status \in {"completed", "paid"}
            \/ /\ PaidOrder(p, row).status = row.status
               /\ row.status # "awaiting_payment"
  <1> DEFINE status == IF row.mode = "apk_download" THEN "completed" ELSE "paid"
             moved == [row EXCEPT !.status = status]
  <1>1. status \in OrderStatus /\ status \in {"completed", "paid"}
    BY DEF OrderStatus
  <1>2. \/ PaidOrder(p, row) = moved
        \/ PaidOrder(p, row) = row /\ row.status # "awaiting_payment"
    BY DEF PaidOrder
  <1>3. moved \in OrderRow /\ moved.status = status /\ moved.payment = row.payment
    <2> HIDE DEF status
    <2> QED BY <1>1, MovedRow
  <1> QED BY <1>1, <1>2, <1>3

LEMMA RedeemedRow ==
  ASSUME NEW p, NEW recovers, NEW row \in RedemptionRow
  PROVE  /\ Redeemed(p, recovers, row) \in RedemptionRow
         /\ Redeemed(p, recovers, row).payment = row.payment
         /\ \/ /\ Redeemed(p, recovers, row) = row
               /\ ~(row.payment = p /\ row.status = "reserved")
            \/ /\ row.payment = p /\ Redeemed(p, recovers, row).status = "redeemed"
               /\ row.status \in {"reserved", "released"}
  <1>1. PICK moved \in RedemptionRow :
          /\ moved = [row EXCEPT !.status = "redeemed"]
          /\ moved.status = "redeemed" /\ moved.payment = row.payment
    BY RedemptionRows
  <1>2. CASE row.payment = p /\ (row.status = "reserved" \/ (row.status = "released" /\ recovers))
    <2>1. Redeemed(p, recovers, row) = moved
      BY <1>1, <1>2 DEF Redeemed
    <2> QED BY <1>1, <1>2, <2>1
  <1>3. CASE ~(row.payment = p /\ (row.status = "reserved" \/ (row.status = "released" /\ recovers)))
    <2>1. Redeemed(p, recovers, row) = row
      BY <1>3 DEF Redeemed
    <2> QED BY <1>3, <2>1
  <1> QED BY <1>2, <1>3

LEMMA SettledStep ==
  ASSUME PInv, NEW p \in Payments, NEW bank \in Transfers \cup References \cup {Generated},
         NEW recovers \in BOOLEAN, Exists(p), Settled(p, bank, recovers),
         bank \in Transfers => transfer[bank].for = p
  PROVE  Promised
  <1>1. pay[p] \in PaymentRow /\ pay[p].status \in {"pending", "expired"}
        /\ ReferenceUnused(p, bank)
    BY DEF PInv, TypeOK, Settled, Accepted
  <1>2. PICK row : row = WithStatus(pay[p], "paid")
    OBVIOUS
  <1>3. row \in PaymentRow /\ SameOffer(pay[p], row) /\ row.status = "paid" /\ row.cooled = FALSE
    BY <1>1, <1>2, WithStatusRow DEF PayStatus
  <1>4. PICK r : r = [row EXCEPT !.bank = bank]
    OBVIOUS
  <1>5. /\ r \in PaymentRow /\ SameOffer(pay[p], r) /\ r.status = "paid" /\ r.cooled = FALSE
        /\ r.bank = bank
    BY <1>3, <1>4 DEF PaymentRow, SameOffer
  <1>6. pay' = [pay EXCEPT ![p] = r]
    BY <1>2, <1>4 DEF Settled
  <1>7. /\ pay' \in [Payments -> PaymentRow] /\ pay'[p] = r
        /\ \A q \in Payments \ {p} : pay'[q] = pay[q]
    BY <1>5, <1>6 DEF PInv, TypeOK
  <1>8. PaySide'
    BY <1>1, <1>5, <1>6, SettledPay DEF Settled
  <1>9. \A o \in Payments :
          /\ order'[o] \in OrderRow /\ order'[o].payment = order[o].payment
          /\ OrderSound(o, order'[o], pay')
    <2> SUFFICES ASSUME NEW o \in Payments
                 PROVE  /\ order'[o] \in OrderRow /\ order'[o].payment = order[o].payment
                        /\ OrderSound(o, order'[o], pay')
      OBVIOUS
    <2>1. order[o] \in OrderRow /\ OrderSound(o, order[o], pay)
      BY OrderSoundNow
    <2>2. CASE order[o].payment = p
      <3>1. order'[o] = PaidOrder(p, order[o])
        BY <2>2 DEF Settled, Linked
      <3>2. OrderSound(o, PaidOrder(p, order[o]), pay')
        <4>1. ~Unlinked(order[o])
          BY <2>2, NoneApart DEF Unlinked
        <4> QED BY <1>5, <1>7, <2>1, <2>2, <4>1, PaidOrderRow DEF OrderSound, Fulfilled
      <3> QED BY <2>1, <3>1, <3>2, PaidOrderRow
    <2>3. CASE order[o].payment # p
      <3>1. order'[o] = order[o]
        BY <2>3 DEF Settled, Linked
      <3> QED BY <1>5, <1>7, <2>1, <2>3, <3>1 DEF OrderSound
    <2> QED BY <2>2, <2>3
  <1>10. order' \in [Payments -> OrderRow] /\ OrderSide'
    BY <1>9, OrdersSound DEF Settled
  <1>11. PaidStep
    BY <1>1, <1>7, <1>9 DEF PaidStep, Linked
  <1>12. \A o \in Payments :
           /\ redemption'[o] = Redeemed(p, recovers, redemption[o])
           /\ redemption[o] \in RedemptionRow /\ redemption'[o] \in RedemptionRow
           /\ redemption'[o].payment = redemption[o].payment
    BY CouponSoundNow, RedeemedRow DEF Settled
  <1>13. \A o \in Payments : CouponSound(o, redemption'[o], pay')
    <2> SUFFICES ASSUME NEW o \in Payments
                 PROVE  CouponSound(o, redemption'[o], pay')
      OBVIOUS
    <2>1. CouponSound(o, redemption[o], pay)
      BY CouponSoundNow
    <2>2. pay'[p].coupon = pay[p].coupon /\ pay'[p].status = "paid"
      BY <1>5, <1>7 DEF SameOffer
    <2>3. CASE redemption[o].payment = p
      <3>1. redemption[o].status # "none"
        BY <2>1, <2>3, NoneApart DEF CouponSound
      <3> QED BY <1>7, <1>12, <2>1, <2>2, <2>3, <3>1, RedeemedRow DEF CouponSound
    <2>4. CASE redemption[o].payment # p
      <3>1. redemption'[o] = redemption[o]
        BY <1>12, <2>4, RedeemedRow
      <3> QED BY <1>7, <2>1, <2>2, <2>4, <3>1 DEF CouponSound
    <2> QED BY <2>3, <2>4
  <1>14. OneReservation'
    BY <1>12, Parts DEF CouponSide, OneReservation
  <1>15. CouponSide' /\ redemption' \in [Payments -> RedemptionRow]
    BY <1>12, <1>13, <1>14, CouponsSound DEF Settled
  <1>16. LimitStep
    <2>1. CASE \E o \in Payments : /\ redemption[o].status = "released"
                                   /\ redemption'[o].status = "redeemed"
      BY <2>1 DEF LimitStep
    <2>2. CASE \A o \in Payments : ~ /\ redemption[o].status = "released"
                                     /\ redemption'[o].status = "redeemed"
      <3>1. Taken(redemption') \subseteq Taken(redemption)
        BY <1>12, <2>2, RedeemedRow DEF Taken
      <3> QED BY <3>1, LimitFewer DEF PInv, Settled
    <2> QED BY <2>1, <2>2
  <1>17. TypeOK'
    <2>1. ledger' \in SUBSET Payments /\ dispatching' \in SUBSET Payments
      BY DEF Settled, PInv, TypeOK
    <2> QED BY <1>7, <1>10, <1>15, <2>1 DEF Settled, PInv, TypeOK
  <1> QED BY <1>8, <1>10, <1>11, <1>15, <1>16, <1>17, Together

(* An order that waits is cancelled with its payment, which is not paid. *)
LEMMA CancelWaitingOrders ==
  ASSUME PInv, PaidSame, NEW p \in Payments, pay[p].status # "paid", CancelWaiting(p)
  PROVE  order' \in [Payments -> OrderRow] /\ OrderSide' /\ PaidStep
  <1>1. \A o \in Payments :
          /\ order'[o] \in OrderRow /\ order'[o].payment = order[o].payment
          /\ OrderSound(o, order'[o], pay')
    <2> SUFFICES ASSUME NEW o \in Payments
                 PROVE  /\ order'[o] \in OrderRow /\ order'[o].payment = order[o].payment
                        /\ OrderSound(o, order'[o], pay')
      OBVIOUS
    <2>1. order[o] \in OrderRow /\ OrderSound(o, order[o], pay')
      BY OrderSoundNow, OrderKept
    <2>2. CASE o \in Linked(p) /\ order[o].status = "awaiting_payment"
      <3>1. PICK row \in OrderRow :
              /\ row = [order[o] EXCEPT !.status = "cancelled"]
              /\ row.status = "cancelled" /\ row.payment = order[o].payment
        <4>1. "cancelled" \in OrderStatus
          BY DEF OrderStatus
        <4> QED BY <2>1, <4>1, MovedRow
      <3>2. order'[o] = row
        BY <2>2, <3>1 DEF CancelWaiting
      <3>3. OrderSound(o, row, pay')
        BY <2>1, <2>2, <3>1 DEF OrderSound, Unlinked, Fulfilled
      <3> QED BY <3>1, <3>2, <3>3
    <2>3. CASE ~(o \in Linked(p) /\ order[o].status = "awaiting_payment")
      <3>1. order'[o] = order[o]
        BY <2>3 DEF CancelWaiting
      <3> QED BY <2>1, <3>1
    <2> QED BY <2>2, <2>3
  <1>2. order' \in [Payments -> OrderRow]
    BY <1>1 DEF CancelWaiting
  <1> QED BY <1>1, <1>2, OrdersSound, PaidKept

(* The row of a payment that is closed *)
LEMMA ClosedRow ==
  ASSUME PInv, NEW p \in Payments, Exists(p), pay[p].status # "paid",
         NEW status \in {"expired", "cancelled"},
         pay' = [pay EXCEPT ![p] = WithStatus(pay[p], status)],
         UNCHANGED <<ledger, transfer, dispatching>>
  PROVE  /\ pay' \in [Payments -> PaymentRow] /\ PaySide' /\ PaidSame
         /\ pay'[p].status = status /\ \A q \in Payments \ {p} : pay'[q] = pay[q]
  <1>1. pay[p] \in PaymentRow /\ pay \in [Payments -> PaymentRow]
    BY DEF PInv, TypeOK
  <1>2. PICK r \in PaymentRow :
          /\ r = WithStatus(pay[p], status) /\ SameOffer(pay[p], r)
          /\ r.status = status /\ r.cooled = FALSE /\ r.bank = pay[p].bank
    <2>1. status \in PayStatus
      BY DEF PayStatus
    <2>2. PICK r : r = WithStatus(pay[p], status)
      OBVIOUS
    <2>3. /\ r \in PaymentRow /\ SameOffer(pay[p], r)
          /\ r.status = status /\ r.cooled = FALSE /\ r.bank = pay[p].bank
      BY <1>1, <2>1, <2>2, WithStatusRow
    <2> QED BY <2>2, <2>3
  <1>3. pay' = [pay EXCEPT ![p] = r]
    BY <1>2
  <1> QED BY <1>1, <1>2, <1>3, WrittenPay

LEMMA TooLateStep ==
  ASSUME PInv, NEW p \in Payments, NEW bank, NEW recovers, TooLate(p, bank, recovers)
  PROVE  Promised
  <1>1. /\ pay' \in [Payments -> PaymentRow] /\ PaySide' /\ PaidSame
        /\ pay'[p].status = "expired" /\ \A q \in Payments \ {p} : pay'[q] = pay[q]
    BY ClosedRow DEF TooLate, Exists, handlers
  <1>2. OpenSame
    BY <1>1 DEF OpenSame
  <1>3. order' \in [Payments -> OrderRow] /\ OrderSide' /\ PaidStep
    BY <1>1, CancelWaitingOrders DEF TooLate
  <1>4. CouponSide' /\ LimitStep
    BY <1>1, <1>2, CouponsKept DEF TooLate
  <1>5. TypeOK'
    BY <1>1, <1>3 DEF TooLate, handlers, PInv, TypeOK
  <1> QED BY <1>1, <1>3, <1>4, <1>5, Together

LEMMA ConfirmStep ==
  ASSUME PInv, NEW p \in Payments, NEW bank \in Transfers \cup References \cup {Generated},
         NEW recovers \in BOOLEAN, Exists(p), Confirm(p, bank, recovers),
         bank \in Transfers => transfer[bank].for = p
  PROVE  Promised
  BY SettledStep, TooLateStep DEF Confirm

LEMMA WebhookStep ==
  ASSUME PInv, NEW t \in Transfers, NEW p \in Payments, Webhook(t, p)
  PROVE  Promised
  <1>1. PICK f \in Payments : f = transfer[t].for /\ Reportable(f)
    BY DEF Webhook, PInv, ReportsInTime, TypeOK, TransferRow
  <1>2. p = f
    BY <1>1, NoneApart DEF Webhook, Newest, Reportable
  <1>3. PICK recovers \in BOOLEAN : Confirm(p, t, recovers)
    <2>1. (transfer[t].for = p /\ transfer[t].inWindow) \in BOOLEAN
      OBVIOUS
    <2> QED BY <2>1 DEF Webhook
  <1>4. Exists(p)
    BY <1>1, <1>2 DEF Reportable
  <1> QED BY <1>1, <1>2, <1>3, <1>4, ConfirmStep

LEMMA AdminConfirmStep ==
  ASSUME PInv, NEW p \in Payments, NEW bank \in References \cup {Generated},
         NEW override \in BOOLEAN, AdminConfirm(p, bank, override)
  PROVE  Promised
  BY ConfirmStep, NoneApart DEF AdminConfirm

LEMMA DispatchPaidStep ==
  ASSUME PInv, NEW p \in Payments, DispatchPaid(p)
  PROVE  Promised
  <1>1. pay[p].status = "paid"
    BY DEF DispatchPaid, PInv, DispatchedPaid
  <1>2. \A o \in Payments :
          /\ order'[o] \in OrderRow /\ order'[o].payment = order[o].payment
          /\ OrderSound(o, order'[o], pay)
    <2> SUFFICES ASSUME NEW o \in Payments
                 PROVE  /\ order'[o] \in OrderRow /\ order'[o].payment = order[o].payment
                        /\ OrderSound(o, order'[o], pay)
      OBVIOUS
    <2>1. order[o] \in OrderRow /\ OrderSound(o, order[o], pay)
      BY OrderSoundNow
    <2>2. CASE o \in Linked(p)
      <3>1. PICK row \in OrderRow :
              /\ row = [order[o] EXCEPT !.status = "completed"]
              /\ row.status = "completed" /\ row.payment = order[o].payment
        <4>1. "completed" \in OrderStatus
          BY DEF OrderStatus
        <4> QED BY <2>1, <4>1, MovedRow
      <3>2. order'[o] = row
        BY <2>2, <3>1 DEF DispatchPaid
      <3>3. ~Unlinked(order[o])
        BY <2>2, NoneApart DEF Unlinked, Linked
      <3>4. OrderSound(o, row, pay)
        BY <1>1, <2>1, <2>2, <3>1, <3>3 DEF OrderSound, Linked
      <3> QED BY <3>1, <3>2, <3>4
    <2>3. CASE o \notin Linked(p)
      <3>1. order'[o] = order[o]
        BY <2>3 DEF DispatchPaid
      <3> QED BY <2>1, <3>1
    <2> QED BY <2>2, <2>3
  <1>3. order' \in [Payments -> OrderRow]
    BY <1>2 DEF DispatchPaid
  <1> QED BY <1>2, <1>3, OrdersMoved DEF DispatchPaid

-----------------------------------------------------------------------------
(* Rejection, and the reads before it *)

LEMMA ReleasedEased ==
  ASSUME NEW p, redemption' = Released(p)
  PROVE  /\ redemption' = [o \in Payments |-> redemption'[o]]
         /\ \A o \in Payments :
              /\ Eased(redemption[o], redemption'[o])
              /\ redemption[o].payment = p /\ redemption[o].status = "reserved" =>
                   redemption'[o] = [redemption[o] EXCEPT !.status = "released"]
  BY DEF Released, Eased

LEMMA ClosesStep ==
  ASSUME PInv, NEW p \in Payments, NEW status \in {"expired", "cancelled"},
         Closes(p, status), closing' \in SUBSET (Payments \X {"expired", "cancelled"})
  PROVE  Promised
  <1>1. /\ pay' \in [Payments -> PaymentRow] /\ PaySide' /\ PaidSame
        /\ pay'[p].status = status /\ \A q \in Payments \ {p} : pay'[q] = pay[q]
    BY ClosedRow DEF Closes
  <1>2. order' \in [Payments -> OrderRow] /\ OrderSide' /\ PaidStep
    BY <1>1, CancelWaitingOrders DEF Closes
  <1>3. /\ redemption' = [o \in Payments |-> redemption'[o]]
        /\ \A o \in Payments :
             /\ Eased(redemption[o], redemption'[o])
             /\ redemption[o].payment = p /\ redemption[o].status = "reserved" =>
                  redemption'[o] = [redemption[o] EXCEPT !.status = "released"]
    BY ReleasedEased DEF Closes
  <1>4. \A o \in Payments :
          /\ redemption'[o] \in RedemptionRow
          /\ redemption'[o].payment = redemption[o].payment
          /\ CouponSound(o, redemption'[o], pay')
          /\ redemption'[o].status \in {"reserved", "redeemed"} =>
               redemption[o].status = redemption'[o].status
    <2> SUFFICES ASSUME NEW o \in Payments
                 PROVE  /\ redemption'[o] \in RedemptionRow
                        /\ redemption'[o].payment = redemption[o].payment
                        /\ CouponSound(o, redemption'[o], pay')
                        /\ redemption'[o].status \in {"reserved", "redeemed"} =>
                             redemption[o].status = redemption'[o].status
      OBVIOUS
    <2>1. redemption[o] \in RedemptionRow /\ CouponSound(o, redemption[o], pay)
      BY CouponSoundNow
    <2>2. CASE redemption[o].status = "reserved"
               /\ redemption'[o] = [redemption[o] EXCEPT !.status = "released"]
      <3>1. /\ redemption'[o] \in RedemptionRow /\ redemption'[o].status = "released"
            /\ redemption'[o].payment = redemption[o].payment
        BY <2>1, <2>2, ReleasedRow
      <3> QED BY <1>1, <2>1, <2>2, <3>1 DEF CouponSound, PaidSame, Exists
    <2>3. CASE redemption'[o] = redemption[o] /\ ~(redemption[o].payment = p
                                                 /\ redemption[o].status = "reserved")
      BY <1>1, <2>1, <2>3 DEF CouponSound, PaidSame, Exists
    <2>4. CASE redemption'[o] = redemption[o] /\ redemption[o].payment = p
               /\ redemption[o].status = "reserved"
      <3>1. redemption'[o].status = "released"
        BY <1>3, <2>1, <2>4, ReleasedRow
      <3> QED BY <2>4, <3>1
    <2> QED BY <1>3, <2>2, <2>3, <2>4 DEF Eased
  <1>5. redemption' \in [Payments -> RedemptionRow]
    BY <1>3, <1>4
  <1>6. OneReservation'
    BY <1>4, Parts DEF CouponSide, OneReservation
  <1>7. CouponSide'
    BY <1>4, <1>6, CouponsSound
  <1>8. LimitStep
    <2>1. Taken(redemption') \subseteq Taken(redemption)
      BY <1>4 DEF Taken
    <2> QED BY <2>1, LimitFewer DEF Closes, PInv
  <1>9. TypeOK'
    BY <1>1, <1>2, <1>5 DEF Closes, PInv, TypeOK
  <1> QED BY <1>1, <1>2, <1>7, <1>8, <1>9, Together

LEMMA ReadToCloseStep ==
  ASSUME PInv, NEW p \in Payments, NEW status \in {"expired", "cancelled"},
         ReadToClose(p, status)
  PROVE  Promised
  BY HandlersOnly DEF ReadToClose, PInv, TypeOK

LEMMA CloseStep ==
  ASSUME PInv, NEW p \in Payments, NEW status \in {"expired", "cancelled"}, Close(p, status)
  PROVE  Promised
  <1>1. closing' \in SUBSET (Payments \X {"expired", "cancelled"})
    BY DEF Close, PInv, TypeOK
  <1>2. CASE Closes(p, status)
    BY <1>1, <1>2, ClosesStep
  <1>3. CASE /\ pay[p].status = "paid"
             /\ UNCHANGED <<pay, order, redemption, coinUses, ledger, transfer,
                            renewing, dispatching>>
    BY <1>1, <1>3, HandlersOnly DEF PInv, TypeOK
  <1> QED BY <1>2, <1>3 DEF Close

LEMMA AdminRejectStep ==
  ASSUME PInv, NEW p \in Payments, AdminReject(p)
  PROVE  Promised
  BY ClosesStep DEF AdminReject, PInv, TypeOK

-----------------------------------------------------------------------------
(* Renewal *)

LEMMA ReplacedOrders ==
  ASSUME PInv, PaidSame, NEW p \in Payments, NEW n \in Payments, pay[p].status # "paid",
         pay'[n].status = "pending",
         order' = [o \in Payments |->
                     IF o \in Linked(p)
                     THEN [order[o] EXCEPT !.payment = n, !.status = "awaiting_payment"]
                     ELSE order[o]]
  PROVE  order' \in [Payments -> OrderRow] /\ OrderSide' /\ PaidStep
  <1>1. \A o \in Payments :
          /\ order'[o] \in OrderRow /\ OrderSound(o, order'[o], pay')
          /\ order[o].payment # p => order'[o].payment = order[o].payment
    <2> SUFFICES ASSUME NEW o \in Payments
                 PROVE  /\ order'[o] \in OrderRow /\ OrderSound(o, order'[o], pay')
                        /\ order[o].payment # p => order'[o].payment = order[o].payment
      OBVIOUS
    <2>1. order[o] \in OrderRow /\ OrderSound(o, order[o], pay')
      BY OrderSoundNow, OrderKept
    <2>2. CASE o \in Linked(p)
      <3>1. PICK row : row = [order[o] EXCEPT !.payment = n, !.status = "awaiting_payment"]
        OBVIOUS
      <3>2. row \in OrderRow /\ row.payment = n /\ row.status = "awaiting_payment"
        BY <2>1, <3>1 DEF OrderRow, OrderStatus
      <3>3. order'[o] = row
        BY <2>2, <3>1
      <3>4. OrderSound(o, row, pay')
        BY <2>1, <2>2, <3>2, NoneApart DEF OrderSound, Unlinked, Fulfilled, Linked
      <3> QED BY <2>2, <3>2, <3>3, <3>4 DEF Linked
    <2>3. CASE o \notin Linked(p)
      <3>1. order'[o] = order[o]
        BY <2>3
      <3> QED BY <2>1, <3>1
    <2> QED BY <2>2, <2>3
  <1>2. order' \in [Payments -> OrderRow]
    BY <1>1
  <1> QED BY <1>1, <1>2, OrdersSound, PaidKept

(* The reservation of the replaced payment moves to the new one. *)
LEMMA ReplacedReservation ==
  ASSUME PInv, PaidSame, OpenSame, NEW p \in Payments, NEW n \in Payments, ~Exists(n),
         QuotaRegained(p), pay'[n].status = "pending", pay'[n].coupon = pay[p].coupon,
         UNCHANGED coinUses,
         redemption' = [o \in Payments |->
                          IF o \in Reserved(p) THEN [status |-> "reserved", payment |-> n]
                          ELSE RedemptionsAtRenewal(p)[o]]
  PROVE  redemption' \in [Payments -> RedemptionRow] /\ CouponSide' /\ LimitStep
  <1>1. PICK row : row = [status |-> "reserved", payment |-> n]
    OBVIOUS
  <1>2. row \in RedemptionRow /\ row.status = "reserved" /\ row.payment = n
    BY <1>1 DEF RedemptionRow
  <1>3. \A o \in Reserved(p) :
          /\ redemption[o].payment = p /\ redemption'[o] = row
          /\ \/ redemption[o].status = "reserved"
             \/ redemption[o].status = "released" /\ Uses(SweptRedemptions) < CouponLimit
          /\ CouponSound(o, row, pay')
    <2> SUFFICES ASSUME NEW o \in Reserved(p)
                 PROVE  /\ redemption[o].payment = p /\ redemption'[o] = row
                        /\ \/ redemption[o].status = "reserved"
                           \/ /\ redemption[o].status = "released"
                              /\ Uses(SweptRedemptions) < CouponLimit
                        /\ CouponSound(o, row, pay')
      OBVIOUS
    <2>1. o \in Payments /\ redemption[o].payment = p /\ redemption'[o] = row
      BY <1>1 DEF Reserved
    <2>2. Exists(o) /\ pay[p].coupon
      BY <2>1, CouponSoundNow, NoneApart DEF CouponSound, Exists
    <2>3. CouponSound(o, row, pay')
      BY <1>2, <2>1, <2>2 DEF CouponSound, PaidSame
    <2> QED BY <2>1, <2>2, <2>3 DEF QuotaRegained
  <1>4. \A o \in Payments \ Reserved(p) :
          /\ redemption'[o] = RedemptionsAtRenewal(p)[o]
          /\ Eased(redemption[o], redemption'[o])
    BY SweptEased DEF RedemptionsAtRenewal, Eased
  <1>5. \A o \in Payments \ Reserved(p) :
          /\ redemption'[o] \in RedemptionRow
          /\ redemption'[o].payment = redemption[o].payment
          /\ CouponSound(o, redemption'[o], pay')
          /\ redemption'[o].status \in {"reserved", "redeemed"} =>
               redemption[o].status = redemption'[o].status
    BY <1>4, EasedSound
  <1>6. redemption' \in [Payments -> RedemptionRow]
    <2>1. redemption' = [o \in Payments |-> redemption'[o]]
      OBVIOUS
    <2> QED BY <1>2, <1>3, <1>5, <2>1
  <1>7. OneReservation'
    <2>1. \A o \in Payments : redemption[o].payment # n
      BY CouponSoundNow, NoneApart DEF CouponSound, Exists
    <2>2. \A o, q \in Reserved(p) : o = q
      BY NoneApart, Parts DEF CouponSide, OneReservation, Reserved
    <2> QED BY <1>2, <1>3, <1>5, <2>1, <2>2, Parts DEF CouponSide, OneReservation
  <1>8. CouponSide'
    BY <1>3, <1>5, <1>7, CouponsSound
  <1>9. LimitStep
    <2>1. CASE \A o \in Reserved(p) : redemption[o].status = "reserved"
      <3>1. Taken(redemption') \subseteq Taken(redemption)
        BY <1>3, <1>5, <2>1 DEF Taken
      <3> QED BY <3>1, LimitFewer DEF PInv
    <2>2. CASE \E o \in Reserved(p) : redemption[o].status # "reserved"
      <3>1. PICK o \in Reserved(p) : redemption[o].status # "reserved"
        BY <2>2
      <3>2. redemption[o].status = "released" /\ Uses(SweptRedemptions) < CouponLimit
        BY <1>3, <3>1
      <3>3. \A q \in Reserved(p) : q = o
        BY NoneApart, Parts DEF CouponSide, OneReservation, Reserved
      <3>4. RedemptionsAtRenewal(p) = SweptRedemptions
        BY <3>2 DEF RedemptionsAtRenewal
      <3>5. Taken(redemption') \subseteq Taken(SweptRedemptions) \cup {o}
        BY <1>4, <3>3, <3>4 DEF Taken
      <3> QED BY <3>2, <3>5, LimitOneMore DEF PInv
    <2> QED BY <2>1, <2>2
  <1> QED BY <1>6, <1>8, <1>9

LEMMA RenewStep ==
  ASSUME PInv, NEW p \in Payments, NEW n \in Payments, Renew(p, n)
  PROVE  Promised
  <1>1. /\ ~Exists(n) /\ pay[p].status # "paid" /\ ~Renewed(p) /\ QuotaRegained(p)
        /\ pay[p].purpose \in Purpose /\ pay[p].coupon \in BOOLEAN
        /\ UNCHANGED <<coinUses, ledger, transfer, closing, dispatching>>
        /\ renewing' \in SUBSET Payments
    <2>1. pay[p] \in PaymentRow
      BY DEF PInv, TypeOK
    <2>2. pay[p].purpose \in Purpose /\ pay[p].coupon \in BOOLEAN
      BY <2>1, PayRows
    <2> QED BY <2>2 DEF Renew, Replace, NextId, Lapsed, EndsRenewal, PInv, TypeOK
  <1>2. PICK code \in Allocatable(pay[p].code) :
          pay' = [q \in Payments |->
                    IF q = n THEN NewPayment(pay[p].purpose, code, pay[p].coupon, p)
                    ELSE Swept(pay[q])]
    BY DEF Renew, Replace
  <1>3. /\ Grown(n) /\ OpenSame /\ pay' \in [Payments -> PaymentRow]
        /\ pay'[n].renewedFrom = p /\ pay'[n].coupon = pay[p].coupon
        /\ pay'[n].status = "pending"
    <2>1. /\ pay' = [q \in Payments |-> pay'[q]]
          /\ pay'[n] = NewPayment(pay[p].purpose, code, pay[p].coupon, p)
          /\ \A q \in Payments \ {n} : pay'[q] = Swept(pay[q])
      BY <1>2
    <2> QED BY <1>1, <2>1, NewRow
  <1>4. PaySide' /\ PaidSame
    BY <1>1, <1>3, GrownPay
  <1>5. order' \in [Payments -> OrderRow] /\ OrderSide' /\ PaidStep
    BY <1>1, <1>3, <1>4, ReplacedOrders DEF Renew, Replace
  <1>6. redemption' \in [Payments -> RedemptionRow] /\ CouponSide' /\ LimitStep
    BY <1>1, <1>3, <1>4, ReplacedReservation DEF Renew, Replace
  <1>7. TypeOK'
    BY <1>1, <1>3, <1>5, <1>6 DEF PInv, TypeOK
  <1> QED BY <1>4, <1>5, <1>6, <1>7, Together

LEMMA BeginRenewalStep ==
  ASSUME PInv, NEW p \in Payments, BeginRenewal(p) \/ RenewRefused(p)
  PROVE  Promised
  <1>1. renewing' \in SUBSET Payments
    BY DEF BeginRenewal, RenewRefused, EndsRenewal, PInv, TypeOK
  <1> QED BY <1>1, HandlersOnly DEF BeginRenewal, RenewRefused, PInv, TypeOK

-----------------------------------------------------------------------------
(* The order after the payment, time and the process *)

LEMMA ActivationStep ==
  ASSUME PInv, NEW o \in Payments, NEW status \in {"completed", "failed"},
         Activation(o, status)
  PROVE  Promised
  <1>1. status \in OrderStatus /\ status # "awaiting_payment"
    BY DEF OrderStatus
  <1>2. order[o].status \in Fulfilled /\ ~Unlinked(order[o])
    BY DEF Activation, Fulfilled, Unlinked
  <1> QED BY <1>1, <1>2, MovesKeeps DEF Activation

LEMMA ManualSteps ==
  ASSUME PInv, NEW o \in Payments, ManualStep(o) \/ ManualCancel(o) \/ RefundManual(o)
  PROVE  Promised
  <1> DEFINE next == {"processing", "completed", "cancelled", "refunded"}
  <1>1. next \subseteq OrderStatus /\ "awaiting_payment" \notin next
    BY DEF OrderStatus
  <1>2. ~Unlinked(order[o])
    <2>1. order[o].mode # None \/ order[o].status # "none"
      <3>1. CASE RefundManual(o)
        BY <3>1 DEF RefundManual
      <3>2. CASE order[o].mode = "manual_contact"
        BY <3>2, NoneAssumption
      <3> QED BY <3>1, <3>2 DEF ManualStep, ManualCancel
    <2> QED BY <2>1 DEF Unlinked
  <1>3. \E status \in next :
          /\ Moves(o, status)
          /\ status \in Fulfilled => order[o].status \in Fulfilled
    BY DEF ManualStep, ManualCancel, RefundManual, Fulfilled
  <1> QED BY <1>1, <1>2, <1>3, MovesKeeps

LEMMA ClockStep ==
  ASSUME PInv, NEW p \in Payments, Overdue(p) \/ Cools(p)
  PROVE  Promised
  <1>1. PICK r \in PaymentRow :
          /\ pay' = [pay EXCEPT ![p] = r] /\ SameOffer(pay[p], r)
          /\ r.status = pay[p].status /\ r.bank = pay[p].bank
          /\ r.cooled => pay[p].cooled \/ Cools(p)
    <2>1. pay[p] \in PaymentRow
      BY DEF PInv, TypeOK
    <2>2. CASE Overdue(p)
      <3>1. PICK r : r = [pay[p] EXCEPT !.overdue = TRUE]
        OBVIOUS
      <3>2. /\ r \in PaymentRow /\ SameOffer(pay[p], r) /\ r.status = pay[p].status
            /\ r.bank = pay[p].bank /\ r.cooled = pay[p].cooled
        BY <2>1, <3>1 DEF PaymentRow, SameOffer
      <3>3. pay' = [pay EXCEPT ![p] = r]
        BY <2>2, <3>1 DEF Overdue
      <3> QED BY <3>2, <3>3
    <2>3. CASE Cools(p)
      <3>1. PICK r : r = [pay[p] EXCEPT !.cooled = TRUE]
        OBVIOUS
      <3>2. /\ r \in PaymentRow /\ SameOffer(pay[p], r) /\ r.status = pay[p].status
            /\ r.bank = pay[p].bank
        BY <2>1, <3>1 DEF PaymentRow, SameOffer
      <3>3. pay' = [pay EXCEPT ![p] = r]
        BY <2>3, <3>1 DEF Cools
      <3> QED BY <2>3, <3>2, <3>3
    <2> QED BY <2>2, <2>3
  <1>2. UNCHANGED <<order, redemption, coinUses, ledger, transfer, handlers>>
    BY DEF Overdue, Cools
  <1>3. Cools(p) => \A t \in Transfers : transfer[t].alive => transfer[t].for # p
    BY DEF Cools
  <1>4. pay' \in [Payments -> PaymentRow] /\ PaySide' /\ PaidSame
    BY <1>1, <1>2, <1>3, WrittenPay DEF Exists, handlers
  <1>5. OpenSame
    BY <1>1 DEF OpenSame, PInv, TypeOK
  <1>6. OrderSide' /\ PaidStep
    BY <1>2, <1>4, OrdersKept, PaidKept
  <1>7. CouponSide' /\ LimitStep
    BY <1>2, <1>4, <1>5, CouponsKept
  <1>8. TypeOK'
    BY <1>2, <1>4 DEF handlers, PInv, TypeOK
  <1> QED BY <1>4, <1>6, <1>7, <1>8, Together

LEMMA RestartStep ==
  ASSUME PInv, Restart
  PROVE  Promised
  BY HandlersOnly DEF Restart

-----------------------------------------------------------------------------
(* The invariant *)

LEMMA InitInvariant == Init => PInv
  <1> SUFFICES ASSUME Init
               PROVE  PInv
    OBVIOUS
  <1>1. \A p \in Payments :
          /\ pay[p] \in PaymentRow /\ pay[p].status = "none" /\ pay[p].bank = None
          /\ pay[p].renewedFrom = None
    BY DEF Init, PaymentRow, Purpose
  <1>2. \A o \in Payments : /\ order[o] \in OrderRow /\ order[o].status = "none"
                            /\ order[o].payment = None /\ order[o].mode = None
    BY DEF Init, OrderRow
  <1>3. \A o \in Payments : /\ redemption[o] \in RedemptionRow
                            /\ redemption[o].status = "none" /\ redemption[o].payment = None
    BY DEF Init, RedemptionRow
  <1>4. \A t \in Transfers : transfer[t] \in TransferRow /\ ~transfer[t].alive
    BY DEF Init, TransferRow
  <1>5. TypeOK
    <2>1. coinUses \in 0..CouponLimit
      BY LimitAssumption DEF Init
    <2>2. ledger = {} /\ closing = {} /\ renewing = {} /\ dispatching = {}
      BY DEF Init
    <2>3. /\ pay \in [Payments -> PaymentRow] /\ order \in [Payments -> OrderRow]
          /\ redemption \in [Payments -> RedemptionRow]
          /\ transfer \in [Transfers -> TransferRow]
      BY <1>1, <1>2, <1>3, <1>4 DEF Init
    <2> QED BY <2>1, <2>2, <2>3 DEF TypeOK
  <1>6. PaySide
    <2>1. ledger = {} /\ dispatching = {}
      BY DEF Init
    <2> QED BY <1>1, <1>4, <2>1, NoneApart
          DEF PaySide, BanksApart, Booked, RenewedOnce, TransferReachesItsPayment,
              ReportsInTime, DispatchedPaid
  <1>7. OrderSide /\ CouponSide
    BY <1>2, <1>3 DEF OrderSide, OrdersLinked, OrderPaidFor, Awaited, Unlinked, CouponSide,
                      RedemptionsLinked, OneReservation, CouponFollowsPayment
  <1> QED BY <1>5, <1>6, <1>7, Parts

LEMMA CustomerStep ==
  ASSUME PInv, NEW p \in Payments, Customer(p)
  PROVE  Promised
  <1>1. ASSUME NEW mode \in Goods \ {"wallet_topup"}, CreatePlanPayment(p, mode, FALSE)
        PROVE  Promised
    <2>1. mode \in Modes /\ FALSE \in BOOLEAN
      BY DEF Modes
    <2> QED BY <1>1, <2>1, CreatePlanPaymentStep, Zenon
  <1>2. ASSUME NEW mode \in CouponGoods, CreatePlanPayment(p, mode, TRUE)
        PROVE  Promised
    <2>1. mode \in Modes /\ TRUE \in BOOLEAN
      BY GoodsAssumption DEF Modes
    <2> QED BY <1>2, <2>1, CreatePlanPaymentStep, Zenon
  <1>3. CASE "wallet_topup" \in Goods /\ CreateTopup(p)
    BY <1>3, CreateTopupStep
  <1>4. CASE \E status \in {"expired", "cancelled"} : ReadToClose(p, status) \/ Close(p, status)
    BY <1>4, ReadToCloseStep, CloseStep
  <1>5. CASE BeginRenewal(p) \/ RenewRefused(p) \/ \E n \in Payments : Renew(p, n)
    BY <1>5, BeginRenewalStep, RenewStep
  <1> QED BY <1>1, <1>2, <1>3, <1>4, <1>5 DEF Customer

LEMMA AdminStep ==
  ASSUME PInv, NEW p \in Payments, Admin(p)
  PROVE  Promised
  BY AdminConfirmStep, AdminRejectStep, ManualSteps DEF Admin

LEMMA BankStep ==
  ASSUME PInv, NEW t \in Transfers, Bank(t)
  PROVE  Promised
  BY MakeTransferStep, WebhookStep, GiveUpStep DEF Bank

LEMMA StutterStep ==
  ASSUME PInv, UNCHANGED vars
  PROVE  Promised
  BY HandlersOnly DEF vars, PInv, TypeOK

LEMMA StepPromised == PInv /\ [Next]_vars => Promised
  <1> SUFFICES ASSUME PInv, [Next]_vars
               PROVE  Promised
    OBVIOUS
  <1>1. CASE UNCHANGED vars
    BY <1>1, StutterStep
  <1>2. ASSUME NEW p \in Payments,
               \/ Customer(p) \/ Admin(p) \/ DispatchPaid(p) \/ Overdue(p) \/ Cools(p)
               \/ \E s \in {"completed", "failed"} : Activation(p, s)
        PROVE  Promised
    BY <1>2, CustomerStep, AdminStep, DispatchPaidStep, ClockStep, ActivationStep
  <1>3. CASE \E t \in Transfers : Bank(t)
    BY <1>3, BankStep
  <1>4. CASE CoinPurchase \/ Quote \/ Restart
    BY <1>4, CoinPurchaseStep, QuoteStep, RestartStep
  <1> QED BY <1>1, <1>2, <1>3, <1>4 DEF Next

LEMMA Invariant == Spec => []PInv
  <1>1. PInv /\ [Next]_vars => PInv'
    BY StepPromised DEF Promised
  <1> QED BY <1>1, InitInvariant, PTL DEF Spec

-----------------------------------------------------------------------------
(* The results *)

(* Every row keeps its type, and coin purchases never use the coupon more   *)
(* often than it may be used.                                               *)
THEOREM PaymentsTyped == Spec => []TypeOK
  <1>1. PInv => TypeOK
    BY DEF PInv
  <1> QED BY <1>1, Invariant, PTL

(* What is fulfilled is paid for, whichever of the confirmations, renewals, *)
(* rejections and status reads were under way at the same time.             *)
THEOREM FulfilledIsPaid == Spec => []OrderPaidFor
  <1>1. PInv => OrderPaidFor
    BY DEF PInv
  <1> QED BY <1>1, Invariant, PTL

(* A transfer is booked on one payment at most, a paid top-up is in the     *)
(* wallet's ledger, and no order is left waiting for a payment that came.   *)
THEOREM MoneyIsAccounted == Spec => []MoneyAccounted
  <1>1. PInv => MoneyAccounted
    BY DEF PInv
  <1> QED BY <1>1, Invariant, PTL

(* A use of the coupon is redeemed with a paid payment and reserved by one  *)
(* that is still open.                                                      *)
THEOREM CouponTied == Spec => []CouponFollowsPayment
  <1>1. PInv => CouponFollowsPayment
    BY DEF PInv
  <1> QED BY <1>1, Invariant, PTL

(* However few the codes are, and whatever is renewed in the meantime, the  *)
(* webhook books a transfer on the payment whose code the customer used.    *)
THEOREM TransferArrives == Spec => []TransferReachesItsPayment
  <1>1. PInv => TransferReachesItsPayment
    BY DEF PInv
  <1> QED BY <1>1, Invariant, PTL

(* Any number of tabs that renew a payment replace it once.                 *)
THEOREM NoForkedRenewal == Spec => []RenewedOnce
  <1>1. PInv => RenewedOnce
    BY DEF PInv
  <1> QED BY <1>1, Invariant, PTL

(* A payment that is booked stays so, under its bank reference and with its *)
(* order.                                                                   *)
THEOREM BookedForGood == Spec => PaidIsFinal
  <1>1. PInv /\ [Next]_vars => [PaidStep]_vars
    BY StepPromised DEF Promised
  <1>2. Spec => [][PaidStep]_vars
    BY <1>1, Invariant, PTL DEF Spec
  <1> QED BY <1>2 DEF PaidIsFinal, PaidStep

(* A new use of the coupon is within its limit, or a released reservation   *)
(* that a late transfer redeems.                                            *)
THEOREM LimitRespected == Spec => CouponWithinLimit
  <1>1. PInv /\ [Next]_vars => [LimitStep]_vars
    BY StepPromised DEF Promised
  <1>2. Spec => [][LimitStep]_vars
    BY <1>1, Invariant, PTL DEF Spec
  <1> QED BY <1>2 DEF CouponWithinLimit, LimitStep
=============================================================================
