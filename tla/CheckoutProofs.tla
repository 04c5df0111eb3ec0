--------------------------- MODULE CheckoutProofs ---------------------------
(* LookupIsCurrent, KeyPerPurchase, CompletesWhenPaid and TypeOK of Checkout, *)
(* for any plans, names, coupons and bounds.                                  *)
EXTENDS Checkout, SequenceTheorems, FiniteSetTheorems, TLAPS

(* What the invariant needs to know of the types: besides the fields of the  *)
(* form, those of the lookups under way and of the tokens.                   *)
Lookup == [plan : Plans \cup {None}, name : Names \cup {None},
           stage : {"profile", "gold"}, current : BOOLEAN]
Token == [plan : Plans \cup {None}, name : Names \cup {None}]

Typed == form \in Entered /\ lookups \subseteq Lookup /\ minted \in Seq(Token)

(* A token f could have entered was issued for f's plan and f's name. *)
Bound(f, tokens) ==
  f.token # 0 => /\ f.token \in DOMAIN tokens
                 /\ tokens[f.token] = [plan |-> f.plan, name |-> f.name]

(* A lookup that was not outrun asks about the form as it is. *)
AsksFor(f, under) == \A l \in under : l.current => l.plan = f.plan /\ l.name = f.name

LInv ==
  /\ Typed
  /\ Bound(form, minted)
  /\ AsksFor(form, lookups)
  /\ info # None => info = form.name

asked == <<form, info, lookups, minted>>

-----------------------------------------------------------------------------
(* What the steps do to the lookups and the form. *)

(* Outrun lookups are lookups, and none of them is current. *)
LEMMA OutrunTyped ==
  ASSUME lookups \subseteq Lookup
  PROVE  LET out == {[l EXCEPT !.current = FALSE] : l \in lookups}
         IN  out \subseteq Lookup /\ \A l \in out : ~l.current
  BY DEF Lookup

(* A form without a token, no profile and every lookup outrun: whatever was
   entered, nothing can be out of date. *)
LEMMA StartsAfresh ==
  ASSUME LInv, Outrun, info' = None, form' \in Entered, form'.token = 0, UNCHANGED minted
  PROVE  LInv'
  <1>1. lookups' \subseteq Lookup /\ \A l \in lookups' : ~l.current
    BY OutrunTyped DEF LInv, Typed, Outrun
  <1>2. Bound(form, minted)' /\ AsksFor(form, lookups)'
    BY <1>1 DEF Bound, AsksFor
  <1> QED BY <1>1, <1>2 DEF LInv, Typed

(* A form that keeps its plan, its name and its token. *)
LEMMA SameBinding ==
  ASSUME LInv, form' \in Entered, UNCHANGED <<info, lookups, minted>>,
         form'.plan = form.plan, form'.name = form.name, form'.token = form.token
  PROVE  LInv'
  BY DEF LInv, Typed, Bound, AsksFor

LEMMA Untouched ==
  ASSUME LInv, UNCHANGED asked
  PROVE  LInv'
  BY DEF LInv, Typed, Bound, AsksFor, asked

LEMMA BlankEntered == Blank \in Entered /\ Blank.token = 0
  BY DEF Blank, Entered

-----------------------------------------------------------------------------
(* The choices of the customer *)

LEMMA HandleSelectPlanStep ==
  ASSUME LInv, NEW p \in Plans, HandleSelectPlan(p)
  PROVE  LInv'
  <1> DEFINE only == IF Catalog[p].platforms = "all" THEN None ELSE Catalog[p].platforms
  <1>1. only \in {"ios", "android", None}
    <2>1. Catalog[p] \in CatalogType
      BY CheckoutAssumption
    <2> QED BY <2>1 DEF CatalogType
  <1>2. form' = [Blank EXCEPT !.plan = p, !.platform = only]
    BY DEF HandleSelectPlan
  <1>3. form' \in Entered /\ form'.token = 0
    BY <1>1, <1>2 DEF Blank, Entered
  <1>4. Outrun /\ info' = None /\ UNCHANGED minted
    BY DEF HandleSelectPlan, Forget, shop
  <1> QED BY <1>3, <1>4, StartsAfresh

LEMMA HandleSelectPlatformStep ==
  ASSUME LInv, NEW pf \in {"ios", "android"}, HandleSelectPlatform(pf)
  PROVE  LInv'
  <1>1. form' = [Blank EXCEPT !.plan = form.plan, !.platform = pf, !.coupon = form.coupon]
    BY DEF HandleSelectPlatform
  <1>2. form' \in Entered /\ form'.token = 0
    BY <1>1 DEF Blank, Entered, LInv, Typed
  <1>3. Outrun /\ info' = None /\ UNCHANGED minted
    BY DEF HandleSelectPlatform, Forget, shop
  <1> QED BY <1>2, <1>3, StartsAfresh

LEMMA HandleResetStep ==
  ASSUME LInv, HandleReset
  PROVE  LInv'
  <1>1. Outrun /\ info' = None /\ form' = Blank /\ UNCHANGED minted
    BY DEF HandleReset, Forget, shop
  <1> QED BY <1>1, BlankEntered, StartsAfresh

LEMMA TypeNameStep ==
  ASSUME LInv, NEW n \in Names \cup {None}, TypeName(n)
  PROVE  LInv'
  <1>1. form' = [form EXCEPT !.name = n, !.token = 0]
    BY DEF TypeName
  <1>2. form' \in Entered /\ form'.token = 0
    BY <1>1 DEF Entered, LInv, Typed
  <1>3. Outrun /\ info' = None /\ UNCHANGED minted
    BY DEF TypeName, shop
  <1> QED BY <1>2, <1>3, StartsAfresh

LEMMA HandleVerifyUsernameStep ==
  ASSUME LInv, HandleVerifyUsername
  PROVE  LInv'
  <1> DEFINE out == {[l EXCEPT !.current = FALSE] : l \in lookups}
             new == [plan |-> form.plan, name |-> form.name, stage |-> "profile",
                     current |-> TRUE]
  <1>1. lookups' = out \cup {new} /\ UNCHANGED <<form, info, minted>>
    BY DEF HandleVerifyUsername, shop
  <1>2. out \subseteq Lookup /\ \A l \in out : ~l.current
    BY OutrunTyped DEF LInv, Typed
  <1>3. new \in Lookup /\ new.plan = form.plan /\ new.name = form.name
    BY DEF LInv, Typed, Entered, Lookup
  <1>4. lookups' \subseteq Lookup
    BY <1>1, <1>2, <1>3
  <1>5. AsksFor(form, lookups)'
    BY <1>1, <1>2, <1>3 DEF AsksFor
  <1> HIDE DEF out, new
  <1> QED BY <1>1, <1>4, <1>5 DEF LInv, Typed, Bound

LEMMA TypeContactStep ==
  ASSUME LInv, TypeContact
  PROVE  LInv'
  <1>1. form' = [form EXCEPT !.contact = TRUE] /\ UNCHANGED <<info, lookups, minted>>
    BY DEF TypeContact, shop
  <1>2. /\ form' \in Entered
        /\ form'.plan = form.plan /\ form'.name = form.name /\ form'.token = form.token
    BY <1>1 DEF Entered, LInv, Typed
  <1> QED BY <1>1, <1>2, SameBinding

(* Only the coupon of the form changes where a handler goes on after the QR
   code is closed. *)
LEMMA CouponChanges ==
  ASSUME LInv, UNCHANGED <<info, lookups, minted>>, NEW c \in Coupons \cup {None},
         form' = [form EXCEPT !.coupon = c] \/ form' = form
  PROVE  LInv'
  <1>1. /\ form' \in Entered
        /\ form'.plan = form.plan /\ form'.name = form.name /\ form'.token = form.token
    BY DEF Entered, LInv, Typed
  <1> QED BY <1>1, SameBinding

LEMMA GoesOn ==
  ASSUME LInv, UNCHANGED <<info, lookups, minted>>, NEW then, NEW previous,
         GoOn(then, previous)
  PROVE  LInv'
  <1>1. CASE then \in Coupons \cup {None}
    BY <1>1, CouponChanges DEF GoOn
  <1>2. CASE then \notin Coupons \cup {None}
    <2>1. form' = form
      BY <1>2 DEF GoOn
    <2> QED BY <2>1, CouponChanges
  <1> QED BY <1>1, <1>2

LEMMA CloseActiveQrOrderStep ==
  ASSUME LInv, NEW then, CloseActiveQrOrder(then)
  PROVE  LInv'
  <1>1. UNCHANGED <<info, lookups, minted>>
    BY DEF CloseActiveQrOrder, shop
  <1>2. CASE qr = None
    BY <1>1, <1>2, GoesOn DEF CloseActiveQrOrder
  <1>3. CASE qr # None
    BY <1>1, <1>3, Untouched DEF CloseActiveQrOrder, asked
  <1> QED BY <1>2, <1>3

LEMMA CouponValidatedStep ==
  ASSUME LInv, CouponValidated
  PROVE  LInv'
  <1>1. UNCHANGED <<info, lookups, minted>>
    BY DEF CouponValidated, shop
  <1>2. \/ GoOn(task.then, task.previous)
        \/ form' = form
        \/ form' = [form EXCEPT !.coupon = None]
    BY DEF CouponValidated
  <1> QED BY <1>1, <1>2, GoesOn, CouponChanges

LEMMA QrOrderClosedStep ==
  ASSUME LInv, QrOrderClosed
  PROVE  LInv'
  <1>1. UNCHANGED <<info, lookups, minted>> /\ GoOn(task.then, task.previous)
    BY DEF QrOrderClosed, shop
  <1> QED BY <1>1, GoesOn

-----------------------------------------------------------------------------
(* The answers of the lookups *)

(* An answer is forgotten if its lookup was outrun; otherwise it is about the
   plan and the name in the form, and its token has to be theirs. *)
LEMMA ConcludedStep ==
  ASSUME LInv, NEW l \in lookups, NEW i, NEW tok, NEW blocked, Concluded(l, i, tok, blocked),
         minted' \in Seq(Token),
         \A t \in DOMAIN minted : t \in DOMAIN minted' /\ minted'[t] = minted[t],
         l.current => /\ i # None => i = l.name
                      /\ tok \in Nat
                      /\ Bound([form EXCEPT !.token = tok], minted')
  PROVE  LInv'
  <1>1. lookups' \subseteq lookups /\ lookups' \subseteq Lookup
    BY DEF Concluded, LInv, Typed
  <1>2. CASE l.current
    <2>1. info' = i /\ form' = [form EXCEPT !.token = tok]
      BY <1>2 DEF Concluded
    <2>2. form' \in Entered /\ form'.plan = form.plan /\ form'.name = form.name
      BY <1>2, <2>1 DEF LInv, Typed, Entered
    <2>3. l.name = form.name
      BY <1>2 DEF LInv, AsksFor
    <2>4. Bound(form', minted') /\ AsksFor(form', lookups')
      BY <1>1, <1>2, <2>1, <2>2 DEF LInv, AsksFor
    <2> QED BY <1>1, <1>2, <2>1, <2>2, <2>3, <2>4 DEF LInv, Typed, Bound, AsksFor
  <1>3. CASE ~l.current
    <2>1. UNCHANGED <<info, form>>
      BY <1>3 DEF Concluded
    <2> QED BY <1>1, <2>1 DEF LInv, Typed, Bound, AsksFor
  <1> QED BY <1>2, <1>3

LEMMA LunakeyFoundStep ==
  ASSUME LInv, NEW l \in lookups, LunakeyFound(l)
  PROVE  LInv'
  <1> DEFINE new == [plan |-> l.plan, name |-> l.name]
  <1>1. new \in Token /\ minted \in Seq(Token)
    BY DEF LInv, Typed, Lookup, Token
  <1>2. minted' = Append(minted, new)
    BY DEF LunakeyFound
  <1> HIDE DEF new
  <1>3. /\ minted' \in Seq(Token) /\ Len(minted') = Len(minted) + 1
        /\ Len(minted') \in DOMAIN minted' /\ minted'[Len(minted')] = new
        /\ Len(minted') \in Nat
        /\ \A t \in DOMAIN minted : t \in DOMAIN minted' /\ minted'[t] = minted[t]
    BY <1>1, <1>2
  <1>4. PICK tok \in {0, Len(minted')} : Concluded(l, l.name, tok, FALSE)
    BY DEF LunakeyFound
  <1>5. ASSUME l.current
        PROVE  Bound([form EXCEPT !.token = tok], minted')
    <2>1. l.plan = form.plan /\ l.name = form.name
      BY <1>5 DEF LInv, AsksFor
    <2>2. new = [plan |-> form.plan, name |-> form.name]
      BY <2>1 DEF new
    <2>3. LET f == [form EXCEPT !.token = tok]
          IN  f.token = tok /\ f.plan = form.plan /\ f.name = form.name
      BY DEF LInv, Typed, Entered
    <2> QED BY <1>3, <1>4, <2>2, <2>3 DEF Bound
  <1> QED BY <1>3, <1>4, <1>5, ConcludedStep

LEMMA NoNewToken ==
  ASSUME LInv, NEW l \in lookups, NEW i, NEW tok \in {0, form.token}, NEW blocked,
         Concluded(l, i, tok, blocked), UNCHANGED minted, i # None => i = l.name
  PROVE  LInv'
  <1>1. tok \in Nat /\ minted' \in Seq(Token)
    BY DEF LInv, Typed, Entered
  <1>2. Bound([form EXCEPT !.token = tok], minted')
    BY DEF LInv, Typed, Entered, Bound
  <1> QED BY <1>1, <1>2, ConcludedStep

LEMMA LookupFailsStep ==
  ASSUME LInv, NEW l \in lookups, LookupFails(l)
  PROVE  LInv'
  BY NoNewToken DEF LookupFails, shop

LEMMA GoldCheckedStep ==
  ASSUME LInv, NEW l \in lookups, GoldChecked(l)
  PROVE  LInv'
  <1>1. PICK blocked \in BOOLEAN :
          Concluded(l, IF blocked THEN None ELSE l.name, form.token, blocked)
    BY DEF GoldChecked
  <1>2. UNCHANGED minted
    BY DEF GoldChecked, shop
  <1> QED BY <1>1, <1>2, NoNewToken

LEMMA ProfileFoundStep ==
  ASSUME LInv, NEW l \in lookups, ProfileFound(l)
  PROVE  LInv'
  <1> DEFINE next == [l EXCEPT !.stage = "gold"]
  <1>1. next \in Lookup /\ next.plan = l.plan /\ next.name = l.name
    BY DEF LInv, Typed, Lookup
  <1>2. UNCHANGED <<form, info, minted>>
    BY DEF ProfileFound, shop
  <1>3. lookups' = (lookups \ {l}) \cup (IF l.current THEN {next} ELSE {})
    BY DEF ProfileFound
  <1> HIDE DEF next
  <1>4. lookups' \subseteq Lookup /\ AsksFor(form, lookups)'
    BY <1>1, <1>2, <1>3 DEF LInv, Typed, AsksFor
  <1> QED BY <1>2, <1>4 DEF LInv, Typed, Bound

-----------------------------------------------------------------------------
(* Everything else leaves the lookups and what was entered alone. *)

LEMMA CustomerStep ==
  ASSUME LInv, CustomerActs
  PROVE  LInv'
  <1>1. ASSUME NEW p \in Plans, OpenPlanDetails(p) \/ HandleSelectPlan(p)
        PROVE  LInv'
    BY <1>1, HandleSelectPlanStep, Untouched DEF OpenPlanDetails, shop, asked
  <1>2. CASE CloseModal
    BY <1>2, Untouched DEF CloseModal, shop, asked
  <1>3. ASSUME NEW pf \in {"ios", "android"}, HandleSelectPlatform(pf)
        PROVE  LInv'
    BY <1>3, HandleSelectPlatformStep
  <1>4. CASE HandleReset
    BY <1>4, HandleResetStep
  <1>5. CASE GoBack \/ CloseGoldPopup
    BY <1>5, Untouched DEF GoBack, CloseGoldPopup, shop, asked
  <1>6. ASSUME NEW n \in Names \cup {None}, TypeName(n)
        PROVE  LInv'
    BY <1>6, TypeNameStep
  <1>7. CASE HandleVerifyUsername
    BY <1>7, HandleVerifyUsernameStep
  <1>8. CASE ContinueToPayment \/ HandleContinueContact
    BY <1>8, Untouched DEF ContinueToPayment, HandleContinueContact, shop, asked
  <1>9. CASE TypeContact
    BY <1>9, TypeContactStep
  <1>10. ASSUME NEW c \in limit.coupons, HandleApplyCoupon(c)
         PROVE  LInv'
    BY <1>10, Untouched DEF HandleApplyCoupon, selection, shop, asked
  <1>11. CASE HandleRemoveCoupon \/ ChooseCoin \/ LeavePayment
    BY <1>11, CloseActiveQrOrderStep DEF HandleRemoveCoupon, ChooseCoin, LeavePayment
  <1>12. CASE ChooseQr
    BY <1>12, Untouched DEF ChooseQr, selection, shop, asked
  <1>13. CASE HandlePayWithCoin \/ RetryCreateQr
    BY <1>13, Untouched
    DEF HandlePayWithCoin, RetryCreateQr, HandleCreateQrPayment, selection, shop, asked
  <1>14. CASE HandleRenewQrOrder
    BY <1>14, Untouched DEF HandleRenewQrOrder, selection, shop, asked
  <1> QED BY <1>1, <1>2, <1>3, <1>4, <1>5, <1>6, <1>7, <1>8, <1>9, <1>10, <1>11, <1>12,
             <1>13, <1>14 DEF CustomerActs

LEMMA AnswerStep ==
  ASSUME LInv, AnswerArrives
  PROVE  LInv'
  <1>1. ASSUME NEW l \in lookups,
               LunakeyFound(l) \/ LookupFails(l) \/ ProfileFound(l) \/ GoldChecked(l)
        PROVE  LInv'
    BY <1>1, LunakeyFoundStep, LookupFailsStep, ProfileFoundStep, GoldCheckedStep
  <1>2. CASE CouponValidated \/ QrOrderClosed
    BY <1>2, CouponValidatedStep, QrOrderClosedStep
  <1>3. CASE QrOrderNotClosed \/ PurchaseFails \/ QrCreated
    BY <1>3, Untouched DEF QrOrderNotClosed, PurchaseFails, QrCreated, selection, shop, asked
  <1>4. CASE CoinPaid \/ StatusChanged
    BY <1>4, Untouched DEF CoinPaid, StatusChanged, shop, asked
  <1>5. CASE QrRenewed \/ RenewFails \/ PollFails
    BY <1>5, Untouched DEF QrRenewed, RenewFails, PollFails, selection, shop, asked
  <1> QED BY <1>1, <1>2, <1>3, <1>4, <1>5 DEF AnswerArrives

LEMMA ShopStep ==
  ASSUME LInv, ShopActs
  PROVE  LInv'
  <1>1. CASE CancelPayment \/ ShopSells \/ \E c \in late : ShopSellsLate(c)
    BY <1>1, Untouched DEF CancelPayment, ShopSells, ShopSellsLate, selection, asked
  <1>2. CASE RenewPayment \/ FetchPaymentStatus
    BY <1>2, Untouched DEF RenewPayment, FetchPaymentStatus, selection, asked
  <1>3. CASE \E p \in 1 .. limit.pays : TimePasses(p) \/ Transfer(p)
    BY <1>3, Untouched DEF TimePasses, Transfer, selection, asked
  <1> QED BY <1>1, <1>2, <1>3 DEF ShopActs

LEMMA OwnStep ==
  ASSUME LInv, AutoCreateQr \/ CheckStatus
  PROVE  LInv'
  BY Untouched DEF AutoCreateQr, HandleCreateQrPayment, CheckStatus, selection, shop, asked

-----------------------------------------------------------------------------
LEMMA InitLInv == Init => LInv
  <1> SUFFICES ASSUME Init
               PROVE  LInv
    OBVIOUS
  <1>1. form \in Entered /\ form.token = 0
    BY BlankEntered DEF Init
  <1>2. lookups = {} /\ minted = <<>> /\ info = None
    BY DEF Init
  <1> QED BY <1>1, <1>2 DEF LInv, Typed, Bound, AsksFor

LEMMA NextLInv == LInv /\ [Next]_vars => LInv'
  <1> SUFFICES ASSUME LInv, [Next]_vars
               PROVE  LInv'
    OBVIOUS
  <1>1. CASE Next
    BY <1>1, OwnStep, CustomerStep, AnswerStep, ShopStep DEF Next
  <1>2. CASE UNCHANGED vars
    BY <1>2, Untouched DEF vars, selection, shop, asked
  <1> QED BY <1>1, <1>2

(* What was confirmed is what will be bought (LookupIsCurrent of Checkout):
   whatever was typed, chosen or reset while lookups were under way, the token
   that a purchase sends along was issued for the plan and the name it sends,
   and the profile shown is that of this name. *)
THEOREM LookupStaysCurrent == Spec => []LookupIsCurrent
  <1>1. LInv => LookupIsCurrent
    BY DEF LInv, Bound, LookupIsCurrent
  <1> QED BY InitLInv, NextLInv, <1>1, PTL DEF Spec

-----------------------------------------------------------------------------
(* A purchase is known by its kind and the turn the form had taken: what was
   sent and not answered, what the shop has made orders of, and the attempt
   of each kind that would be repeated. *)

Attempt == [key : Nat, form : Entered]
Sale == [kind : Kinds, key : Nat, form : Entered, turn : Nat]
Request(answer) ==
  [kind : Kinds, key : Nat, form : Entered, turn : Nat, answer : {answer}]

LastTry(kind) == IF kind = "coin" THEN coinTry ELSE qrTry

Tried == late \cup (IF charge = None THEN {} ELSE {charge})
Sold == {orders[i] : i \in DOMAIN orders}
Held == {[kind |-> k, key |-> LastTry(k).key, form |-> LastTry(k).form, turn |-> turn[k]] :
           k \in {k \in Kinds : LastTry(k) # None}}
Deals == Tried \cup Sold \cup Held

(* The key and the turn were given out, and belong to each other and to one
   form. *)
Dealt(d) ==
  /\ d.kind \in Kinds /\ d.form \in Entered
  /\ d.key \in 1 .. keys /\ d.turn \in 0 .. turn[d.kind]

SamePurchase(d, e) == d.kind = e.kind /\ d.turn = e.turn

KeyTellsPurchase(d, e) ==
  /\ d.key = e.key <=> SamePurchase(d, e)
  /\ d.key = e.key => d.form = e.form

Counters ==
  /\ keys \in Nat /\ turn \in [Kinds -> Nat]
  /\ pressed \in [Kinds -> Entered \cup {None}]
  /\ coinTry \in Attempt \cup {None} /\ qrTry \in Attempt \cup {None}
  /\ charge # None => charge \in Request(charge.answer)
  /\ orders \in Seq(Sale)

(* The form that is compared is the one of the attempt that is repeated. *)
PressedIsTried ==
  \A k \in Kinds : pressed[k] = IF LastTry(k) = None THEN None ELSE LastTry(k).form

KInv ==
  /\ Counters
  /\ PressedIsTried
  /\ \A d \in Deals : Dealt(d)
  /\ \A d, e \in Deals : KeyTellsPurchase(d, e)
  /\ \A i, j \in DOMAIN orders : orders[i].key = orders[j].key => i = j

(* What is shown, polled, renewed or paid is what the shop has, and a poll
   that was answered with "paid" stays right. *)
Bill == [order : Nat, status : PaymentStatus, over : BOOLEAN, from : Nat]

BillsKnown ==
  /\ pays \in Seq(Bill)
  /\ \A p \in DOMAIN pays : pays[p].order \in DOMAIN orders

QrKnown ==
  qr # None => qr \in [pay : Nat, status : PaymentStatus] /\ qr.pay \in DOMAIN pays

PollKnown ==
  poll # None =>
    /\ poll \in [pay : Nat, answer : PaymentStatus \cup {None}]
    /\ poll.pay \in DOMAIN pays
    /\ poll.answer # None /\ poll.answer = "paid" => pays[poll.pay].status = "paid"

RenewalKnown ==
  renewing # None =>
    /\ renewing \in [pay : Nat, answer : Nat]
    /\ renewing.pay \in DOMAIN pays
    /\ renewing.answer # 0 => renewing.answer \in DOMAIN pays

AnswerKnown ==
  charge # None /\ charge.answer # None =>
    charge.answer \in DOMAIN orders /\ orders[charge.answer].key = charge.key

Early == Steps \ {"completed"}

ReturnsEarly ==
  task # None =>
    task \in [then : Coupons \cup {None, "coin", "back"}, pay : Nat, previous : Early,
             answer : {"validate", "ok", "failed", None}]

PInv ==
  /\ BillsKnown /\ QrKnown /\ PollKnown /\ RenewalKnown /\ AnswerKnown /\ ReturnsEarly
  /\ limit \in Limits

-----------------------------------------------------------------------------
(* KeyPerPurchase *)

dealing == <<coinTry, qrTry, pressed, turn, keys, charge, late, orders>>

LEMMA KInvUntouched ==
  ASSUME KInv, UNCHANGED dealing
  PROVE  KInv'
  <1>1. \A k : LastTry(k)' = LastTry(k)
    BY DEF LastTry, dealing
  <1>2. Held' = Held /\ Tried' = Tried /\ Sold' = Sold
    BY <1>1 DEF Held, Tried, Sold, dealing
  <1>3. Deals' = Deals
    BY <1>2 DEF Deals
  <1>4. (\A d \in Deals : Dealt(d))' /\ (\A d, e \in Deals : KeyTellsPurchase(d, e))'
    BY <1>3 DEF KInv, Dealt, KeyTellsPurchase, SamePurchase, dealing
  <1>5. Counters' /\ PressedIsTried'
    BY <1>1 DEF KInv, Counters, PressedIsTried, dealing
  <1> QED BY <1>4, <1>5 DEF KInv, dealing

Alike(d, e) == d.kind = e.kind /\ d.key = e.key /\ d.form = e.form /\ d.turn = e.turn

(* No new purchase: everything under way afterwards was so before, perhaps in
   another place. *)
LEMMA NoNewDeal ==
  ASSUME KInv, UNCHANGED <<keys, turn>>, Counters', PressedIsTried',
         \A d \in Deals' : \E e \in Deals : Alike(d, e),
         \A i, j \in DOMAIN orders' : orders'[i].key = orders'[j].key => i = j
  PROVE  KInv'
  <1>1. (\A d \in Deals : Dealt(d))'
    BY DEF KInv, Dealt, Alike
  <1>2. ASSUME NEW d \in Deals', NEW e \in Deals'
        PROVE  KeyTellsPurchase(d, e)
    <2>1. PICK a \in Deals : Alike(d, a)
      OBVIOUS
    <2>2. PICK b \in Deals : Alike(e, b)
      OBVIOUS
    <2>3. KeyTellsPurchase(a, b)
      BY DEF KInv
    <2> QED BY <2>1, <2>2, <2>3 DEF KeyTellsPurchase, SamePurchase, Alike
  <1>3. (\A d, e \in Deals : KeyTellsPurchase(d, e))'
    BY <1>2 DEF KeyTellsPurchase, SamePurchase
  <1> QED BY <1>1, <1>3 DEF KInv

(* What the customer forgets was not under way at the shop. *)
LEMMA Forgotten ==
  ASSUME KInv, UNCHANGED <<keys, turn, charge, late, orders>>,
         coinTry' \in {None, coinTry}, qrTry' \in {None, qrTry},
         pressed' \in [Kinds -> Entered \cup {None}],
         pressed'["coin"] = IF coinTry' = None THEN None ELSE pressed["coin"],
         pressed'["qr"] = IF qrTry' = None THEN None ELSE pressed["qr"]
  PROVE  KInv'
  <1>1. \A k \in Kinds : LastTry(k)' \in {None, LastTry(k)}
    BY DEF LastTry
  <1>2. Tried' = Tried /\ Sold' = Sold
    BY DEF Tried, Sold
  <1>3. Held' \subseteq Held
    BY <1>1 DEF Held
  <1>4. \A d \in Deals' : d \in Deals
    BY <1>2, <1>3 DEF Deals
  <1>5. Counters'
    BY DEF KInv, Counters
  <1>6. PressedIsTried'
    <2>1. LastTry("coin") = coinTry /\ LastTry("qr") = qrTry
      BY DEF LastTry
    <2>2. LastTry("coin")' = coinTry' /\ LastTry("qr")' = qrTry'
      BY DEF LastTry
    <2>3. /\ pressed["coin"] = IF coinTry = None THEN None ELSE coinTry.form
          /\ pressed["qr"] = IF qrTry = None THEN None ELSE qrTry.form
      BY <2>1 DEF KInv, PressedIsTried, Kinds
    <2> QED BY <2>2, <2>3 DEF PressedIsTried, Kinds
  <1> QED BY <1>4, <1>5, <1>6, NoNewDeal DEF KInv, Alike

LEMMA ForgetForgets ==
  ASSUME KInv, Forget, UNCHANGED <<keys, turn, charge, late, orders>>
  PROVE  KInv'
  <1>1. coinTry' = None /\ qrTry' = None /\ pressed' = [k \in Kinds |-> None]
    BY DEF Forget
  <1> QED BY <1>1, Forgotten DEF Kinds

LEMMA QrOrderClosedKeeps ==
  ASSUME KInv, QrOrderClosed
  PROVE  KInv'
  <1>1. /\ qrTry' = None /\ coinTry' = coinTry /\ UNCHANGED <<keys, turn, charge, late, orders>>
        /\ pressed' = [pressed EXCEPT !["qr"] = None]
    BY DEF QrOrderClosed, shop
  <1>2. pressed \in [Kinds -> Entered \cup {None}]
    BY DEF KInv, Counters
  <1>3. pressed["coin"] = IF coinTry = None THEN None ELSE pressed["coin"]
    BY DEF KInv, PressedIsTried, LastTry, Kinds
  <1> QED BY <1>1, <1>2, <1>3, Forgotten DEF Kinds

(* A purchase is sent: under the key and the turn of the attempt it repeats,
   or under a key and a turn that nothing has yet. *)
LEMMA PurchaseSent ==
  ASSUME KInv, form \in Entered, NEW kind \in Kinds, NEW try, try = LastTry(kind),
         Purchase(kind, try), UNCHANGED <<late, orders>>,
         LastTry(kind)' = [key |-> KeyFor(try), form |-> form],
         \A k \in Kinds \ {kind} : LastTry(k)' = LastTry(k),
         coinTry' \in Attempt \cup {None}, qrTry' \in Attempt \cup {None}
  PROVE  KInv'
  <1> DEFINE c == [kind |-> kind, key |-> KeyFor(try), form |-> form, turn |-> turn'[kind]]
  <1>1. /\ keys \in Nat /\ turn \in [Kinds -> Nat] /\ pressed \in [Kinds -> Entered \cup {None}]
        /\ try \in Attempt \cup {None}
        /\ pressed[kind] = IF try = None THEN None ELSE try.form
    BY DEF KInv, Counters, PressedIsTried, LastTry
  <1>2. charge'.kind = kind /\ charge'.key = KeyFor(try) /\ charge'.form = form
        /\ charge'.turn = turn'[kind]
    BY DEF Purchase
  <1>3. Alike(charge', c)
    BY <1>2 DEF Alike
  <1>4. None # form /\ None # LastTry(kind)'
    <2>1. KeyFor(try) \in Nat
      BY <1>1 DEF KeyFor, Attempt
    <2> QED BY <2>1, NoneAssumption
  <1>5. pressed' = [pressed EXCEPT ![kind] = form]
    BY DEF Purchase
  <1>6. PressedIsTried'
    BY <1>1, <1>4, <1>5 DEF KInv, PressedIsTried
  <1>10. charge' # None => charge' \in Request(charge'.answer)
    <2>1. charge' = [kind |-> kind, key |-> KeyFor(try), form |-> form, turn |-> turn'[kind],
                     answer |-> None]
      BY DEF Purchase
    <2>2. KeyFor(try) \in Nat /\ turn'[kind] \in Nat
      BY <1>1 DEF KeyFor, Attempt, Purchase
    <2> QED BY <2>1, <2>2 DEF Request
  <1>7. \A d \in Deals' : Alike(d, c) \/ (d \in Deals /\ (d.kind = kind => d \in Tried \cup Sold))
    <2>1. \A d \in Tried' : d \in Tried \/ d = charge'
      BY DEF Tried
    <2>2. Sold' = Sold
      BY DEF Sold
    <2>3. ASSUME NEW d \in Held'
          PROVE  Alike(d, c) \/ (d \in Held /\ d.kind # kind)
      <3>1. PICK k \in Kinds : /\ LastTry(k)' # None
                               /\ d = [kind |-> k, key |-> LastTry(k)'.key,
                                       form |-> LastTry(k)'.form, turn |-> turn'[k]]
        BY DEF Held
      <3>2. CASE k = kind
        BY <3>1, <3>2 DEF Alike
      <3>3. CASE k # kind
        <4>1. turn'[k] = turn[k] /\ LastTry(k)' = LastTry(k)
          BY <1>1, <3>3 DEF Purchase
        <4> QED BY <3>1, <3>3, <4>1 DEF Held
      <3> QED BY <3>2, <3>3
    <2> QED BY <1>3, <2>1, <2>2, <2>3 DEF Deals
  <1>8. CASE try # None /\ try.form = form
    <2>1. KeyFor(try) = try.key /\ pressed[kind] = form
      BY <1>1, <1>8 DEF KeyFor
    <2>2. turn' = turn
      BY <2>1 DEF Purchase
    <2>3. PICK h : h = [kind |-> kind, key |-> try.key, form |-> try.form, turn |-> turn[kind]]
      OBVIOUS
    <2>4. h \in Deals /\ Alike(c, h)
      BY <1>8, <2>1, <2>2, <2>3 DEF Deals, Held, Alike
    <2>5. keys' = keys
      <3>1. h.key \in 1 .. keys
        BY <2>4 DEF KInv, Dealt
      <3> QED BY <1>1, <2>1, <2>3, <3>1 DEF Purchase
    <2>6. \A d \in Deals' : \E e \in Deals : Alike(d, e)
      BY <1>7, <2>4 DEF Alike
    <2>7. Counters'
      BY <1>5, <1>10, <2>2, <2>5 DEF KInv, Counters
    <2> QED BY <1>6, <2>2, <2>5, <2>6, <2>7, NoNewDeal DEF KInv
  <1>9. CASE ~(try # None /\ try.form = form)
    <2>1. KeyFor(try) = keys + 1 /\ pressed[kind] # form
      BY <1>1, <1>4, <1>9 DEF KeyFor
    <2>2. keys' = keys + 1 /\ turn' = [turn EXCEPT ![kind] = @ + 1]
      BY <1>1, <2>1 DEF Purchase
    <2>3. c.kind = kind /\ c.key = keys + 1 /\ c.form = form /\ c.turn = turn[kind] + 1
      BY <1>1, <2>1, <2>2
    <2>4. Counters'
      BY <1>1, <1>5, <1>10, <2>2 DEF KInv, Counters
    <2>5. \A d \in Deals : /\ d.kind \in Kinds /\ d.form \in Entered
                           /\ d.key \in 1 .. keys /\ d.turn \in 0 .. turn[d.kind]
      BY DEF KInv, Dealt
    <2> HIDE DEF c
    <2>6. \A k \in Kinds : turn[k] \in Nat /\ turn'[k] = IF k = kind THEN turn[k] + 1 ELSE turn[k]
      BY <1>1, <2>2
    <2>7. ASSUME NEW d \in Deals'
          PROVE  /\ d.kind \in Kinds /\ d.form \in Entered
                 /\ d.key \in 1 .. keys + 1 /\ d.turn \in 0 .. turn'[d.kind]
      <3>1. CASE Alike(d, c)
        BY <1>1, <2>3, <2>6, <3>1 DEF Alike
      <3>2. CASE d \in Deals
        BY <1>1, <2>5, <2>6, <3>2
      <3> QED BY <1>7, <3>1, <3>2
    <2>8. (\A d \in Deals : Dealt(d))'
      BY <2>2, <2>7 DEF Dealt
    <2>9. ASSUME NEW d \in Deals'
          PROVE  Alike(d, c) \/ (d \in Deals /\ d.key # c.key /\ ~SamePurchase(d, c))
      BY <1>1, <1>7, <2>3, <2>5, <2>6 DEF SamePurchase
    <2>10. ASSUME NEW d \in Deals', NEW e \in Deals'
           PROVE  KeyTellsPurchase(d, e)
      <3>1. CASE d \in Deals /\ e \in Deals
        BY <3>1 DEF KInv
      <3>2. CASE Alike(d, c) /\ Alike(e, c)
        BY <3>2 DEF KeyTellsPurchase, SamePurchase, Alike
      <3>3. CASE Alike(d, c) /\ e.key # c.key /\ ~SamePurchase(e, c)
        BY <3>3 DEF KeyTellsPurchase, SamePurchase, Alike
      <3>4. CASE d.key # c.key /\ ~SamePurchase(d, c) /\ Alike(e, c)
        BY <3>4 DEF KeyTellsPurchase, SamePurchase, Alike
      <3> QED BY <2>9, <3>1, <3>2, <3>3, <3>4
    <2>11. (\A d, e \in Deals : KeyTellsPurchase(d, e))'
      BY <2>10 DEF KeyTellsPurchase, SamePurchase
    <2> QED BY <1>6, <2>4, <2>8, <2>11 DEF KInv
  <1> QED BY <1>8, <1>9

LEMMA PayWithCoinKeeps ==
  ASSUME LInv, KInv, HandlePayWithCoin
  PROVE  KInv'
  <1>1. /\ Purchase("coin", coinTry) /\ UNCHANGED <<late, orders, qrTry>>
        /\ coinTry' = [key |-> KeyFor(coinTry), form |-> form]
    BY DEF HandlePayWithCoin, shop
  <1>2. LastTry("coin") = coinTry /\ "coin" \in Kinds
    BY DEF LastTry, Kinds
  <1>3. LastTry("coin")' = coinTry' /\ \A k \in Kinds \ {"coin"} : LastTry(k)' = LastTry(k)
    BY <1>1 DEF LastTry
  <1>4. form \in Entered
    BY DEF LInv, Typed
  <1>5. coinTry' \in Attempt /\ qrTry' \in Attempt \cup {None}
    BY <1>1, <1>4 DEF KInv, Counters, KeyFor, Attempt
  <1> QED BY <1>1, <1>2, <1>3, <1>4, <1>5, PurchaseSent

LEMMA CreateQrKeeps ==
  ASSUME LInv, KInv, HandleCreateQrPayment
  PROVE  KInv'
  <1>1. /\ Purchase("qr", qrTry) /\ UNCHANGED <<late, orders, coinTry>>
        /\ qrTry' = [key |-> KeyFor(qrTry), form |-> form]
    BY DEF HandleCreateQrPayment, shop
  <1>2. LastTry("qr") = qrTry /\ "qr" \in Kinds
    BY DEF LastTry, Kinds
  <1>3. LastTry("qr")' = qrTry' /\ \A k \in Kinds \ {"qr"} : LastTry(k)' = LastTry(k)
    BY <1>1 DEF LastTry, Kinds
  <1>4. form \in Entered
    BY DEF LInv, Typed
  <1>5. qrTry' \in Attempt /\ coinTry' \in Attempt \cup {None}
    BY <1>1, <1>4 DEF KInv, Counters, KeyFor, Attempt
  <1> QED BY <1>1, <1>2, <1>3, <1>4, <1>5, PurchaseSent

(* The shop executes what was sent, perhaps long after. *)
LEMMA ExecutedKeeps ==
  ASSUME KInv, NEW c \in Tried, CallExecuted(c),
         UNCHANGED <<coinTry, qrTry, pressed, turn, keys>>,
         charge' # None => charge' \in Request(charge'.answer),
         \A d \in Tried' : \E e \in Tried : Alike(d, e)
  PROVE  KInv'
  <1>1. c \in Deals /\ c.key \in Nat /\ c.kind \in Kinds /\ c.form \in Entered /\ c.turn \in Nat
    <2>1. c \in Deals
      BY DEF Deals
    <2>2. Dealt(c) /\ keys \in Nat /\ turn \in [Kinds -> Nat]
      BY <2>1 DEF KInv, Counters
    <2> QED BY <2>1, <2>2 DEF Dealt
  <1>2. PICK new : new = [kind |-> c.kind, key |-> c.key, form |-> c.form, turn |-> c.turn]
    OBVIOUS
  <1>3. orders \in Seq(Sale) /\ new \in Sale /\ new.key = c.key /\ Alike(new, c)
    BY <1>1, <1>2 DEF KInv, Counters, Alike, Sale
  <1>4. \/ orders' = orders
        \/ /\ \A i \in DOMAIN orders : orders[i].key # c.key
           /\ orders' = Append(orders, new)
    BY <1>2 DEF CallExecuted
  <1>5. /\ Append(orders, new) \in Seq(Sale)
        /\ Len(Append(orders, new)) = Len(orders) + 1
        /\ \A i \in 1 .. Len(orders) : Append(orders, new)[i] = orders[i]
        /\ Append(orders, new)[Len(orders) + 1] = new
    BY <1>3, AppendProperties
  <1>6. /\ orders' \in Seq(Sale)
        /\ \A i \in DOMAIN orders' :
             \/ i \in DOMAIN orders /\ orders'[i] = orders[i]
             \/ /\ i = Len(orders) + 1 /\ orders'[i] = new
                /\ \A j \in DOMAIN orders : orders[j].key # c.key
    <2>1. CASE orders' = orders
      BY <1>3, <2>1
    <2>2. CASE orders' = Append(orders, new) /\ \A i \in DOMAIN orders : orders[i].key # c.key
      <3>1. Len(orders) \in Nat /\ DOMAIN orders' = 1 .. Len(orders) + 1
        BY <1>3, <1>5, <2>2, LenProperties
      <3>2. DOMAIN orders = 1 .. Len(orders)
        BY <1>3, LenProperties
      <3> QED BY <1>5, <2>2, <3>1, <3>2
    <2> QED BY <1>4, <2>1, <2>2
  <1>7. \A d \in Sold' : d \in Sold \/ Alike(d, c)
    BY <1>3, <1>6 DEF Sold
  <1>8. \A i, j \in DOMAIN orders' : orders'[i].key = orders'[j].key => i = j
    BY <1>3, <1>6 DEF KInv
  <1>9. \A k : LastTry(k)' = LastTry(k)
    BY DEF LastTry
  <1>10. Held' = Held
    BY <1>9 DEF Held
  <1>11. \A d \in Deals' : \E e \in Deals : Alike(d, e)
    BY <1>7, <1>10 DEF Deals, Alike
  <1>12. Counters' /\ PressedIsTried'
    BY <1>6, <1>9 DEF KInv, Counters, PressedIsTried
  <1> QED BY <1>8, <1>11, <1>12, NoNewDeal

LEMMA ShopSellsKeeps ==
  ASSUME KInv, ShopSells
  PROVE  KInv'
  <1>1. /\ charge # None /\ charge \in Tried /\ CallExecuted(charge)
        /\ UNCHANGED <<coinTry, qrTry, pressed, turn, keys, late>>
    BY DEF ShopSells, Tried, history
  <1>2. PICK answer : charge' = [charge EXCEPT !.answer = answer]
    BY DEF ShopSells
  <1>3. charge' \in Request(charge'.answer) /\ Alike(charge', charge)
    <2>1. charge \in Request(charge.answer)
      BY <1>1 DEF KInv, Counters
    <2> QED BY <1>2, <2>1 DEF Alike, Request
  <1>4. \A d \in Tried' : \E e \in Tried : Alike(d, e)
    BY <1>1, <1>3 DEF Tried, Alike
  <1> QED BY <1>1, <1>3, <1>4, ExecutedKeeps

LEMMA ShopSellsLateKeeps ==
  ASSUME KInv, NEW c \in late, ShopSellsLate(c)
  PROVE  KInv'
  <1>1. /\ c \in Tried /\ CallExecuted(c)
        /\ UNCHANGED <<coinTry, qrTry, pressed, turn, keys, charge>>
    BY DEF ShopSellsLate, Tried, history, buying
  <1>2. \A d \in Tried' : d \in Tried
    BY <1>1 DEF ShopSellsLate, Tried
  <1>3. charge # None => charge \in Request(charge.answer)
    BY DEF KInv, Counters
  <1> QED BY <1>1, <1>2, <1>3, ExecutedKeeps DEF Alike

(* The answer to a purchase, or none. *)
LEMMA AnsweredKeeps ==
  ASSUME KInv, charge # None, charge' = None,
         late' \in {late, late \cup {charge}, {charge}},
         UNCHANGED <<coinTry, qrTry, pressed, turn, keys, orders>>
  PROVE  KInv'
  <1>1. \A k : LastTry(k)' = LastTry(k)
    BY DEF LastTry
  <1>2. Held' = Held /\ Sold' = Sold
    BY <1>1 DEF Held, Sold
  <1>3. \A d \in Tried' : d \in Tried
    BY DEF Tried
  <1>4. \A d \in Deals' : \E e \in Deals : Alike(d, e)
    BY <1>2, <1>3 DEF Deals, Alike
  <1>5. Counters' /\ PressedIsTried'
    BY <1>1 DEF KInv, Counters, PressedIsTried
  <1> QED BY <1>4, <1>5, NoNewDeal DEF KInv

LEMMA CustomerKeeps ==
  ASSUME LInv, KInv, CustomerActs
  PROVE  KInv'
  <1> USE DEF selection, buying, panel, shop, history
  <1>1. ASSUME NEW p \in Plans, OpenPlanDetails(p) \/ HandleSelectPlan(p)
        PROVE  KInv'
    BY <1>1, ForgetForgets, KInvUntouched DEF OpenPlanDetails, HandleSelectPlan, dealing
  <1>2. ASSUME NEW pf \in {"ios", "android"}, HandleSelectPlatform(pf)
        PROVE  KInv'
    BY <1>2, ForgetForgets DEF HandleSelectPlatform
  <1>3. CASE HandleReset
    BY <1>3, ForgetForgets DEF HandleReset
  <1>4. CASE CloseModal \/ GoBack \/ CloseGoldPopup \/ HandleVerifyUsername
             \/ ContinueToPayment \/ TypeContact \/ HandleContinueContact
    BY <1>4, KInvUntouched DEF CloseModal, GoBack, CloseGoldPopup, HandleVerifyUsername,
          ContinueToPayment, TypeContact, HandleContinueContact, dealing
  <1>5. ASSUME NEW n \in Names \cup {None}, TypeName(n)
        PROVE  KInv'
    BY <1>5, KInvUntouched DEF TypeName, dealing
  <1>6. ASSUME NEW c \in limit.coupons, HandleApplyCoupon(c)
        PROVE  KInv'
    BY <1>6, KInvUntouched DEF HandleApplyCoupon, dealing
  <1>7. CASE HandleRemoveCoupon \/ ChooseCoin \/ LeavePayment \/ ChooseQr \/ HandleRenewQrOrder
    BY <1>7, KInvUntouched DEF HandleRemoveCoupon, ChooseCoin, LeavePayment, ChooseQr,
          HandleRenewQrOrder, CloseActiveQrOrder, dealing
  <1>8. CASE HandlePayWithCoin \/ RetryCreateQr
    BY <1>8, PayWithCoinKeeps, CreateQrKeeps DEF RetryCreateQr
  <1> QED BY <1>1, <1>2, <1>3, <1>4, <1>5, <1>6, <1>7, <1>8 DEF CustomerActs

LEMMA AnswerKeeps ==
  ASSUME KInv, AnswerArrives
  PROVE  KInv'
  <1> USE DEF selection, buying, panel, shop, history
  <1>1. ASSUME NEW l \in lookups,
               LunakeyFound(l) \/ LookupFails(l) \/ ProfileFound(l) \/ GoldChecked(l)
        PROVE  KInv'
    BY <1>1, KInvUntouched
    DEF LunakeyFound, LookupFails, ProfileFound, GoldChecked, Concluded, dealing
  <1>2. CASE QrOrderClosed
    BY <1>2, QrOrderClosedKeeps
  <1>3. CASE CouponValidated \/ QrOrderNotClosed \/ QrRenewed \/ RenewFails \/ StatusChanged
             \/ PollFails
    BY <1>3, KInvUntouched DEF CouponValidated, QrOrderNotClosed, QrRenewed, RenewFails,
          StatusChanged, PollFails, dealing
  <1>4. CASE PurchaseFails \/ CoinPaid \/ QrCreated
    <2>1. /\ charge # None /\ charge' = None
          /\ late' \in {late, late \cup {charge}, {charge}}
          /\ UNCHANGED <<coinTry, qrTry, pressed, turn, keys, orders>>
      BY <1>4 DEF PurchaseFails, CoinPaid, QrCreated
    <2> QED BY <2>1, AnsweredKeeps
  <1> QED BY <1>1, <1>2, <1>3, <1>4 DEF AnswerArrives

LEMMA ShopKeeps ==
  ASSUME KInv, ShopActs
  PROVE  KInv'
  <1>1. CASE ShopSells \/ \E c \in late : ShopSellsLate(c)
    BY <1>1, ShopSellsKeeps, ShopSellsLateKeeps
  <1>2. CASE \/ CancelPayment \/ RenewPayment \/ FetchPaymentStatus
             \/ \E p \in 1 .. limit.pays : TimePasses(p) \/ Transfer(p)
    BY <1>2, KInvUntouched DEF CancelPayment, RenewPayment, FetchPaymentStatus, TimePasses,
          Transfer, buying, history, dealing
  <1> QED BY <1>1, <1>2 DEF ShopActs

LEMMA InitKInv == Init => KInv
  <1> SUFFICES ASSUME Init
               PROVE  KInv
    OBVIOUS
  <1>1. /\ coinTry = None /\ qrTry = None /\ charge = None /\ late = {} /\ orders = <<>>
        /\ keys = 0 /\ pressed = [k \in Kinds |-> None] /\ turn = [k \in Kinds |-> 0]
    BY DEF Init
  <1>2. \A k : LastTry(k) = None
    BY <1>1 DEF LastTry
  <1>3. Deals = {}
    BY <1>1, <1>2 DEF Deals, Tried, Sold, Held
  <1>4. Counters /\ PressedIsTried
    BY <1>1, <1>2 DEF Counters, PressedIsTried
  <1> QED BY <1>1, <1>3, <1>4 DEF KInv

LEMMA NextKInv == LInv /\ KInv /\ [Next]_vars => KInv'
  <1> SUFFICES ASSUME LInv, KInv, [Next]_vars
               PROVE  KInv'
    OBVIOUS
  <1>1. CASE UNCHANGED vars
    BY <1>1, KInvUntouched DEF vars, buying, shop, history, dealing
  <1>2. CASE AutoCreateQr
    BY <1>2, CreateQrKeeps, KInvUntouched DEF AutoCreateQr, shop, history, dealing
  <1>3. CASE CheckStatus
    BY <1>3, KInvUntouched DEF CheckStatus, buying, shop, history, dealing
  <1> QED BY <1>1, <1>2, <1>3, CustomerKeeps, AnswerKeeps, ShopKeeps DEF Next

(* Pressing again does not buy again (KeyPerPurchase of Checkout): of one kind
   the shop never has two orders for one turn of the form, and a key under
   which the page asks is that of one form, however many answers were lost,
   came late, or were overtaken by changes of the selection. *)
THEOREM OneOrderPerPurchase == Spec => []KeyPerPurchase
  <1>1. KInv => KeyPerPurchase
    <2> SUFFICES ASSUME KInv
                 PROVE  KeyPerPurchase
      OBVIOUS
    <2>1. \A i \in DOMAIN orders : orders[i] \in Deals
      BY DEF Deals, Sold
    <2>2. Tried \subseteq Deals
      BY DEF Deals
    <2>3. \A d, e \in Deals : KeyTellsPurchase(d, e)
      BY DEF KInv
    <2>4. \A i, j \in DOMAIN orders :
            i # j => ~(orders[i].kind = orders[j].kind /\ orders[i].turn = orders[j].turn)
      BY <2>1, <2>3 DEF KInv, KeyTellsPurchase, SamePurchase
    <2>5. /\ \A i \in DOMAIN orders : \A t \in Tried :
               orders[i].key = t.key => orders[i].form = t.form
          /\ \A t, u \in Tried : t.key = u.key => t.form = u.form
      BY <2>1, <2>2, <2>3 DEF KeyTellsPurchase
    <2> QED BY <2>4, <2>5 DEF KeyPerPurchase, Tried
  <1>2. Init => LInv /\ KInv
    BY InitLInv, InitKInv
  <1> QED BY <1>1, <1>2, NextLInv, NextKInv, PTL DEF Spec

-----------------------------------------------------------------------------
(* CompletesWhenPaid *)

(* What may happen to the shop's payments: they stay, each with its order, and
   what is paid stays paid; new ones are for the orders named. *)
Follows(s, t, new) ==
  /\ t \in Seq(Bill)
  /\ \A p \in DOMAIN s : /\ p \in DOMAIN t /\ t[p].order = s[p].order
                         /\ s[p].status = "paid" => t[p].status = "paid"
  /\ \A p \in DOMAIN t : p \notin DOMAIN s => t[p].order \in new

LEMMA OneMarked ==
  ASSUME NEW s \in Seq(Bill), NEW p \in DOMAIN s, NEW bill \in Bill,
         bill.order = s[p].order, s[p].status # "paid"
  PROVE  Follows(s, [s EXCEPT ![p] = bill], {})
  <1>1. p \in 1 .. Len(s) /\ DOMAIN s = 1 .. Len(s)
    BY LenProperties
  <1>2. /\ [s EXCEPT ![p] = bill] \in Seq(Bill)
        /\ Len([s EXCEPT ![p] = bill]) = Len(s)
        /\ \A q \in 1 .. Len(s) : [s EXCEPT ![p] = bill][q] = IF q = p THEN bill ELSE s[q]
    BY <1>1, ExceptSeq
  <1>3. DOMAIN [s EXCEPT ![p] = bill] = DOMAIN s
    OBVIOUS
  <1> QED BY <1>1, <1>2, <1>3 DEF Follows

LEMMA StatusMarked ==
  ASSUME NEW s \in Seq(Bill), NEW p \in DOMAIN s, NEW status \in PaymentStatus,
         s[p].status # "paid"
  PROVE  Follows(s, [s EXCEPT ![p].status = status], {})
  <1>1. s[p] \in Bill
    BY LenProperties, ElementOfSeq
  <1>2. PICK bill : bill = [s[p] EXCEPT !.status = status]
    OBVIOUS
  <1>3. bill \in Bill /\ bill.order = s[p].order
    BY <1>1, <1>2 DEF Bill
  <1>4. [s EXCEPT ![p].status = status] = [s EXCEPT ![p] = bill]
    BY <1>2
  <1> QED BY <1>3, <1>4, OneMarked

LEMMA OneBilled ==
  ASSUME NEW s \in Seq(Bill), NEW bill \in Bill
  PROVE  /\ Follows(s, Append(s, bill), {bill.order})
         /\ Len(Append(s, bill)) \in DOMAIN Append(s, bill)
         /\ Len(Append(s, bill)) \in Nat
  <1>1. /\ Append(s, bill) \in Seq(Bill)
        /\ Len(Append(s, bill)) = Len(s) + 1
        /\ \A i \in 1 .. Len(s) : Append(s, bill)[i] = s[i]
        /\ Append(s, bill)[Len(s) + 1] = bill
    BY AppendProperties
  <1>2. Len(s) \in Nat /\ DOMAIN s = 1 .. Len(s) /\ DOMAIN Append(s, bill) = 1 .. Len(s) + 1
    BY <1>1, LenProperties
  <1> QED BY <1>1, <1>2 DEF Follows

LEMMA FollowsTwice ==
  ASSUME NEW s, NEW t, NEW u, NEW new, Follows(s, t, {}), Follows(t, u, new)
  PROVE  Follows(s, u, new)
  BY DEF Follows

(* A step of the shop, or none, keeps what the page knows right; what else the
   step writes has to be known. *)
LEMMA PInvKept ==
  ASSUME PInv, UNCHANGED limit, Follows(pays, pays', DOMAIN orders'),
         \A i \in DOMAIN orders : i \in DOMAIN orders' /\ orders'[i] = orders[i],
         QrKnown' \/ qr' \in {None, qr}, PollKnown' \/ poll' \in {None, poll},
         RenewalKnown' \/ renewing' \in {None, renewing},
         AnswerKnown' \/ charge' \in {None, charge}, ReturnsEarly' \/ task' \in {None, task}
  PROVE  PInv'
  <1>1. BillsKnown'
    BY DEF PInv, BillsKnown, Follows
  <1>2. QrKnown'
    BY DEF PInv, QrKnown, Follows
  <1>3. PollKnown'
    BY DEF PInv, PollKnown, Follows
  <1>4. RenewalKnown'
    BY DEF PInv, RenewalKnown, Follows
  <1>5. AnswerKnown'
    BY DEF PInv, AnswerKnown
  <1>6. ReturnsEarly'
    BY DEF PInv, ReturnsEarly
  <1> QED BY <1>1, <1>2, <1>3, <1>4, <1>5, <1>6 DEF PInv

LEMMA PInvQuiet ==
  ASSUME PInv, UNCHANGED <<pays, orders, limit>>,
         QrKnown' \/ qr' \in {None, qr}, PollKnown' \/ poll' \in {None, poll},
         RenewalKnown' \/ renewing' \in {None, renewing},
         AnswerKnown' \/ charge' \in {None, charge}, ReturnsEarly' \/ task' \in {None, task}
  PROVE  PInv'
  <1>1. Follows(pays, pays', DOMAIN orders')
    BY DEF Follows, PInv, BillsKnown
  <1> QED BY <1>1, PInvKept

-----------------------------------------------------------------------------
(* No step of the way leads from somewhere back to the end. *)

LEMMA NextStepEarly ==
  ASSUME NEW plan, NEW platform
  PROVE  StepAfterPlatform(plan, platform) \in Early
  BY DEF StepAfterPlatform, Early, Steps

LEMMA PreviousEarly == GetPreviousStep \in Early
  <1> DEFINE detail == IF form.plan = None THEN "username"
                       ELSE IF form.platform = None THEN "payment"
                       ELSE StepAfterPlatform(form.plan, form.platform)
             a == <<"plan">>
             b == IF form.plan = None \/ Catalog[form.plan].platforms = "all"
                  THEN <<"platform">> ELSE <<>>
             c == IF detail = "payment" THEN <<>> ELSE <<detail>>
             d == <<"payment", "completed">>
  <1>1. a \in Seq(Early) /\ b \in Seq(Early)
    <2>1. "plan" \in Early /\ "platform" \in Early
      BY DEF Early, Steps
    <2>2. <<"plan">> \in Seq(Early) /\ <<"platform">> \in Seq(Early) /\ <<>> \in Seq(Early)
      BY <2>1
    <2> QED BY <2>2
  <1>2. detail \in Early
    <2>1. StepAfterPlatform(form.plan, form.platform) \in Early
      BY NextStepEarly
    <2>2. "username" \in Early /\ "payment" \in Early
      BY DEF Early, Steps
    <2> QED BY <2>1, <2>2
  <1>3. c \in Seq(Early)
    BY <1>2
  <1>4. GetActiveSteps = a \o b \o c \o d
    BY DEF GetActiveSteps
  <1>5. d \in Seq(Steps) /\ Len(d) = 2 /\ d[1] = "payment"
    BY DEF Steps
  <1> HIDE DEF a, b, c, d
  <1>6. PICK e \in Seq(Early) : GetActiveSteps = e \o d
    <2>1. a \o b \in Seq(Early)
      BY <1>1, ConcatProperties
    <2>2. a \o b \o c \in Seq(Early)
      BY <1>3, <2>1, ConcatProperties
    <2> QED BY <1>4, <2>2
  <1>7. e \in Seq(Steps) /\ Len(e) \in Nat
    BY <1>6, SeqMonotonic, LenProperties DEF Early
  <1>8. /\ Len(GetActiveSteps) = Len(e) + 2
        /\ \A i \in 1 .. Len(e) + 2 :
             GetActiveSteps[i] = IF i <= Len(e) THEN e[i] ELSE d[i - Len(e)]
    <2>1. /\ Len(e \o d) = Len(e) + Len(d)
          /\ \A i \in 1 .. Len(e) + Len(d) :
               (e \o d)[i] = IF i <= Len(e) THEN e[i] ELSE d[i - Len(e)]
      BY <1>5, <1>7, ConcatProperties
    <2> QED BY <1>5, <1>6, <2>1
  <1>9. \A i \in 1 .. Len(e) : e[i] \in Early
    <2>1. e \in Seq(Early)
      BY <1>6
    <2> QED BY <2>1, ElementOfSeq
  <1>10. \A i \in 2 .. Len(GetActiveSteps) : GetActiveSteps[i - 1] \in Early
    <2> SUFFICES ASSUME NEW i \in 2 .. Len(GetActiveSteps)
                 PROVE  GetActiveSteps[i - 1] \in Early
      OBVIOUS
    <2>1. i - 1 \in 1 .. Len(e) + 1
      BY <1>7, <1>8
    <2>2. CASE i - 1 <= Len(e)
      BY <1>7, <1>8, <1>9, <2>1, <2>2
    <2>3. CASE i - 1 = Len(e) + 1
      <3>1. GetActiveSteps[i - 1] = d[1]
        BY <1>7, <1>8, <2>3
      <3> QED BY <1>5, <3>1 DEF Early, Steps
    <2> QED BY <1>7, <2>1, <2>2, <2>3
  <1>11. "plan" \in Early
    BY DEF Early, Steps
  <1> QED BY <1>10, <1>11 DEF GetPreviousStep

-----------------------------------------------------------------------------
(* The steps that bring something new to the page *)

LEMMA CodeTyped ==
  ASSUME PInv
  PROVE  Code(qr) \in Nat
  BY DEF PInv, QrKnown, Code

LEMMA CloseActiveQrOrderKnown ==
  ASSUME PInv, NEW then \in {None, "coin", "back"}, CloseActiveQrOrder(then)
  PROVE  PInv'
  <1>1. UNCHANGED <<pays, orders, qr, poll, renewing, charge, limit>>
    BY DEF CloseActiveQrOrder, panel, shop, history
  <1>2. qr # None => qr.pay \in Nat
    BY DEF PInv, QrKnown
  <1>3. task' = None \/ ReturnsEarly'
    BY <1>2, PreviousEarly DEF CloseActiveQrOrder, GoOn, ReturnsEarly
  <1> QED BY <1>1, <1>3, PInvQuiet

LEMMA HandleApplyCouponKnown ==
  ASSUME PInv, NEW c \in Coupons, HandleApplyCoupon(c)
  PROVE  PInv'
  <1>1. UNCHANGED <<pays, orders, qr, poll, renewing, charge, limit>>
    BY DEF HandleApplyCoupon, panel, shop, history
  <1>2. step = "payment"
    BY DEF HandleApplyCoupon, Offered, GoldPopup, StepperHeader, PlanCatalogCards,
           PlanDetailsModal, PlatformPanel, UsernamePanel, LookupForm, ProfileCard,
           ContactPanel
  <1>3. task' = [then |-> c, pay |-> Code(qr), previous |-> step, answer |-> "validate"]
    BY DEF HandleApplyCoupon
  <1>4. ReturnsEarly'
    BY <1>2, <1>3, CodeTyped DEF ReturnsEarly, Early, Steps
  <1> QED BY <1>1, <1>4, PInvQuiet

LEMMA CouponValidatedKnown ==
  ASSUME PInv, CouponValidated
  PROVE  PInv'
  <1>1. UNCHANGED <<pays, orders, qr, poll, renewing, charge, limit>>
    BY DEF CouponValidated, panel, shop, history
  <1>2. task' = None \/ task' = [task EXCEPT !.answer = None]
    BY DEF CouponValidated, GoOn
  <1>3. task # None /\ ReturnsEarly
    BY DEF CouponValidated, PInv
  <1>4. ReturnsEarly' \/ task' = None
    BY <1>2, <1>3 DEF ReturnsEarly
  <1> QED BY <1>1, <1>4, PInvQuiet

LEMMA CancelPaymentKnown ==
  ASSUME PInv, CancelPayment
  PROVE  PInv'
  <1>1. UNCHANGED <<orders, qr, poll, renewing, charge, limit>>
    BY DEF CancelPayment, panel, history
  <1>2. PICK answer \in {"ok", "failed"} : task' = [task EXCEPT !.answer = answer]
    BY DEF CancelPayment
  <1>3. ReturnsEarly'
    BY <1>2 DEF CancelPayment, ReturnsEarly, PInv
  <1>4. Follows(pays, pays', DOMAIN orders')
    <2> DEFINE p == task.pay
    <2>1. pays \in Seq(Bill) /\ "cancelled" \in PaymentStatus
      BY DEF PInv, BillsKnown, PaymentStatus
    <2>2. CASE pays' = pays
      BY <2>1, <2>2 DEF Follows
    <2>3. CASE /\ pays[p].status = "pending" /\ p \in DOMAIN pays
               /\ pays' = [pays EXCEPT ![p].status = "cancelled"]
      <3> HIDE DEF p
      <3>1. Follows(pays, pays', {})
        BY <2>1, <2>3, StatusMarked
      <3> QED BY <3>1 DEF Follows
    <2>4. ASSUME p \notin DOMAIN pays, pays' = [pays EXCEPT ![p].status = "cancelled"]
          PROVE  pays' = pays
      BY <2>1, <2>4
    <2> QED BY <2>2, <2>3, <2>4 DEF CancelPayment
  <1> QED BY <1>1, <1>3, <1>4, PInvKept

LEMMA PurchaseKnown ==
  ASSUME PInv, HandlePayWithCoin \/ HandleCreateQrPayment
  PROVE  PInv'
  <1>1. UNCHANGED <<pays, orders, qr, poll, renewing, task, limit>>
    BY DEF HandlePayWithCoin, HandleCreateQrPayment, Purchase, panel, shop
  <1>2. charge'.answer = None
    BY DEF HandlePayWithCoin, HandleCreateQrPayment, Purchase
  <1> QED BY <1>1, <1>2, PInvQuiet DEF AnswerKnown

(* The shop's side of a purchase: it has an order with that key afterwards. *)
LEMMA ExecutedKnown ==
  ASSUME PInv, KInv, NEW c \in Tried, CallExecuted(c)
  PROVE  /\ Follows(pays, pays', DOMAIN orders')
         /\ \A i \in DOMAIN orders : i \in DOMAIN orders' /\ orders'[i] = orders[i]
         /\ \E i \in DOMAIN orders' : orders'[i].key = c.key
  <1>1. pays \in Seq(Bill) /\ orders \in Seq(Sale)
    BY DEF PInv, BillsKnown, KInv, Counters
  <1>2. CASE /\ \E i \in DOMAIN orders : orders[i].key = c.key
             /\ orders' = orders /\ pays' = pays
    BY <1>1, <1>2 DEF Follows
  <1>3. CASE \A i \in DOMAIN orders : orders[i].key # c.key
    <2>1. PICK new : new = [kind |-> c.kind, key |-> c.key, form |-> c.form, turn |-> c.turn]
      OBVIOUS
    <2>2. orders' = Append(orders, new) /\ new.key = c.key
      BY <1>3, <2>1 DEF CallExecuted
    <2>3. new \in Sale
      <3>1. Dealt(c) /\ keys \in Nat /\ turn \in [Kinds -> Nat]
        BY DEF Deals, KInv, Counters
      <3> QED BY <2>1, <3>1 DEF Dealt, Sale
    <2>4. /\ orders' \in Seq(Sale) /\ Len(orders') = Len(orders) + 1
          /\ \A i \in 1 .. Len(orders) : orders'[i] = orders[i]
          /\ orders'[Len(orders) + 1] = new
      BY <1>1, <2>2, <2>3, AppendProperties
    <2>5. /\ Len(orders) \in Nat /\ DOMAIN orders = 1 .. Len(orders)
          /\ DOMAIN orders' = 1 .. Len(orders) + 1
      BY <1>1, <2>4, LenProperties
    <2>6. Follows(pays, pays', DOMAIN orders')
      <3>1. CASE pays' = pays
        BY <1>1, <3>1 DEF Follows
      <3>2. CASE pays' # pays
        <4>1. PICK bill : bill = [order |-> Len(orders'), status |-> "pending",
                                  over |-> FALSE, from |-> 0]
          OBVIOUS
        <4>2. pays' = Append(pays, bill)
          BY <1>3, <3>2, <4>1 DEF CallExecuted
        <4>3. bill \in Bill /\ bill.order \in DOMAIN orders'
          BY <2>4, <2>5, <4>1 DEF Bill, PaymentStatus
        <4>4. Follows(pays, pays', {bill.order})
          BY <1>1, <4>2, <4>3, OneBilled
        <4> QED BY <4>3, <4>4 DEF Follows
      <3> QED BY <3>1, <3>2
    <2> QED BY <2>2, <2>4, <2>5, <2>6
  <1> QED BY <1>2, <1>3 DEF CallExecuted

LEMMA ShopSellsKnown ==
  ASSUME PInv, KInv, ShopSells
  PROVE  PInv'
  <1>1. /\ charge # None /\ charge \in Tried /\ CallExecuted(charge)
        /\ UNCHANGED <<qr, poll, renewing, task, limit>>
    BY DEF ShopSells, Tried, panel, history
  <1>2. PICK answer : /\ answer \in DOMAIN orders' /\ orders'[answer].key = charge.key
                      /\ charge' = [charge EXCEPT !.answer = answer]
    <2>1. \E i \in DOMAIN orders' : orders'[i].key = charge.key
      BY <1>1, ExecutedKnown
    <2> QED BY <2>1 DEF ShopSells
  <1>3. charge'.key = charge.key /\ charge'.answer = answer
    <2>1. charge \in Request(charge.answer)
      BY <1>1 DEF KInv, Counters
    <2> QED BY <1>2, <2>1 DEF Request
  <1>4. AnswerKnown'
    BY <1>2, <1>3 DEF ShopSells, AnswerKnown
  <1> QED BY <1>1, <1>4, ExecutedKnown, PInvKept

LEMMA ShopSellsLateKnown ==
  ASSUME PInv, KInv, NEW c \in late, ShopSellsLate(c)
  PROVE  PInv'
  <1>1. /\ c \in Tried /\ CallExecuted(c)
        /\ UNCHANGED <<qr, poll, renewing, charge, task, limit>>
    BY DEF ShopSellsLate, Tried, panel, buying, history
  <1> QED BY <1>1, ExecutedKnown, PInvKept

LEMMA QrCreatedKnown ==
  ASSUME PInv, QrCreated
  PROVE  PInv'
  <1>1. UNCHANGED <<pays, orders, poll, renewing, task, limit>> /\ charge' = None
    BY DEF QrCreated, shop, history
  <1>2. PICK p \in DOMAIN pays : qr' = [pay |-> p, status |-> pays[p].status]
    BY DEF QrCreated, ShowQr
  <1>3. p \in Nat /\ pays[p] \in Bill
    BY LenProperties, ElementOfSeq DEF PInv, BillsKnown
  <1>4. QrKnown'
    BY <1>1, <1>2, <1>3 DEF QrKnown, Bill
  <1> QED BY <1>1, <1>4, PInvQuiet

LEMMA HandleRenewQrOrderKnown ==
  ASSUME PInv, HandleRenewQrOrder
  PROVE  PInv'
  <1>1. UNCHANGED <<pays, orders, qr, poll, charge, task, limit>>
    BY DEF HandleRenewQrOrder, shop, buying, history
  <1>2. renewing' = [pay |-> qr.pay, answer |-> 0]
    BY DEF HandleRenewQrOrder
  <1>3. qr # None
    BY DEF HandleRenewQrOrder, Offered, GoldPopup, StepperHeader, PlanCatalogCards,
           PlanDetailsModal, PlatformPanel, UsernamePanel, LookupForm, ProfileCard,
           ContactPanel, PaymentPanel, CouponBox, MethodSelector, CoinPaymentView,
           QrPaymentView
  <1>4. RenewalKnown'
    BY <1>1, <1>2, <1>3 DEF RenewalKnown, PInv, QrKnown
  <1> QED BY <1>1, <1>4, PInvQuiet

(* A renewal has the order of what it renews. *)
LEMMA RenewPaymentKnown ==
  ASSUME PInv, RenewPayment
  PROVE  PInv'
  <1>1. UNCHANGED <<orders, qr, poll, charge, task, limit>> /\ renewing # None
    BY DEF RenewPayment, selection, buying, history
  <1>2. PICK p : p = renewing.pay
    OBVIOUS
  <1>3. /\ pays \in Seq(Bill) /\ p \in DOMAIN pays /\ renewing \in [pay : Nat, answer : Nat]
        /\ DOMAIN pays \subseteq Nat /\ pays[p] \in Bill /\ pays[p].order \in DOMAIN orders
    <2>1. pays \in Seq(Bill) /\ p \in DOMAIN pays /\ renewing \in [pay : Nat, answer : Nat]
      BY <1>1, <1>2 DEF PInv, BillsKnown, RenewalKnown
    <2>2. DOMAIN pays \subseteq Nat /\ pays[p] \in Bill
      BY <2>1, LenProperties, ElementOfSeq
    <2> QED BY <2>1, <2>2 DEF PInv, BillsKnown
  <1>4. Follows(pays, pays, DOMAIN orders')
    BY <1>3 DEF Follows
  <1>5. CASE UNCHANGED pays /\ \E a \in DOMAIN pays : renewing' = [renewing EXCEPT !.answer = a]
    <2>1. RenewalKnown'
      BY <1>2, <1>3, <1>5 DEF RenewalKnown
    <2> QED BY <1>1, <1>4, <1>5, <2>1, PInvKept
  <1>6. ASSUME NEW marked, NEW bill,
               marked = IF pays[p].status = "pending"
                        THEN [pays EXCEPT ![p].status = "expired"] ELSE pays,
               bill = [order |-> pays[p].order, status |-> "pending", over |-> FALSE, from |-> p],
               pays' = Append(marked, bill),
               renewing' = [renewing EXCEPT !.answer = Len(pays')]
        PROVE  PInv'
    <2>1. Follows(pays, marked, {})
      <3>1. CASE pays[p].status = "pending"
        BY <1>3, <1>6, <3>1, StatusMarked DEF PaymentStatus
      <3>2. CASE pays[p].status # "pending"
        BY <1>3, <1>6, <3>2 DEF Follows
      <3> QED BY <3>1, <3>2
    <2>2. bill \in Bill /\ bill.order \in DOMAIN orders'
      BY <1>1, <1>3, <1>6 DEF Bill, PaymentStatus
    <2>3. /\ Follows(marked, pays', {bill.order})
          /\ Len(pays') \in DOMAIN pays' /\ Len(pays') \in Nat
      BY <1>6, <2>1, <2>2, OneBilled DEF Follows
    <2>4. Follows(pays, pays', {bill.order})
      BY <2>1, <2>3, FollowsTwice
    <2>5. RenewalKnown'
      BY <1>2, <1>3, <1>6, <2>3, <2>4 DEF RenewalKnown, Follows
    <2>6. Follows(pays, pays', DOMAIN orders')
      BY <2>2, <2>4 DEF Follows
    <2> QED BY <1>1, <2>5, <2>6, PInvKept
  <1> QED BY <1>2, <1>3, <1>5, <1>6 DEF RenewPayment

LEMMA QrRenewedKnown ==
  ASSUME PInv, QrRenewed
  PROVE  PInv'
  <1>1. UNCHANGED <<pays, orders, poll, charge, task, limit>> /\ renewing' = None
    BY DEF QrRenewed, shop, buying, history
  <1>2. PICK p : p = renewing.answer
    OBVIOUS
  <1>3. p \in DOMAIN pays /\ qr' = [pay |-> p, status |-> pays[p].status]
    BY <1>2 DEF QrRenewed, ShowQr, PInv, RenewalKnown
  <1>4. p \in Nat /\ pays[p] \in Bill
    BY <1>3, LenProperties, ElementOfSeq DEF PInv, BillsKnown
  <1>5. QrKnown'
    BY <1>1, <1>3, <1>4 DEF QrKnown, Bill
  <1> QED BY <1>1, <1>5, PInvQuiet

LEMMA CheckStatusKnown ==
  ASSUME PInv, CheckStatus
  PROVE  PInv'
  <1>1. UNCHANGED <<pays, orders, qr, renewing, charge, task, limit>>
    BY DEF CheckStatus, shop, buying, history
  <1>2. qr # None /\ poll' = [pay |-> qr.pay, answer |-> None]
    BY DEF CheckStatus
  <1>3. PollKnown'
    BY <1>1, <1>2 DEF PollKnown, PInv, QrKnown
  <1> QED BY <1>1, <1>3, PInvQuiet

(* What a read finds paid stays paid until its answer arrives. *)
LEMMA FetchPaymentStatusKnown ==
  ASSUME PInv, FetchPaymentStatus
  PROVE  PInv'
  <1>1. UNCHANGED <<orders, qr, renewing, charge, task, limit>> /\ poll # None
    BY DEF FetchPaymentStatus, buying, history
  <1>2. PICK p : p = poll.pay
    OBVIOUS
  <1>3. /\ pays \in Seq(Bill) /\ p \in DOMAIN pays
        /\ poll \in [pay : Nat, answer : PaymentStatus \cup {None}]
    BY <1>1, <1>2 DEF PInv, BillsKnown, PollKnown
  <1>4. Follows(pays, pays', {})
    <2>1. CASE pays' = pays
      BY <1>3, <2>1 DEF Follows
    <2>2. CASE pays[p].status = "pending" /\ pays' = [pays EXCEPT ![p].status = "expired"]
      BY <1>3, <2>2, StatusMarked DEF PaymentStatus
    <2> QED BY <1>2, <2>1, <2>2 DEF FetchPaymentStatus
  <1>5. p \in DOMAIN pays' /\ pays'[p] \in Bill
    <2>1. p \in DOMAIN pays' /\ pays' \in Seq(Bill)
      BY <1>3, <1>4 DEF Follows
    <2> QED BY <2>1, LenProperties, ElementOfSeq
  <1>6. poll' = [poll EXCEPT !.answer = pays'[p].status]
    BY <1>2 DEF FetchPaymentStatus
  <1>7. PollKnown'
    BY <1>2, <1>3, <1>5, <1>6 DEF PollKnown, Bill
  <1>8. Follows(pays, pays', DOMAIN orders')
    BY <1>4 DEF Follows
  <1> QED BY <1>1, <1>7, <1>8, PInvKept

LEMMA StatusChangedKnown ==
  ASSUME PInv, StatusChanged
  PROVE  PInv'
  <1>1. UNCHANGED <<pays, orders, renewing, charge, task, limit>> /\ poll' = None
    BY DEF StatusChanged, shop, history
  <1>2. poll.answer \in PaymentStatus
    BY DEF StatusChanged, PInv, PollKnown
  <1>3. QrKnown' \/ qr' = None
    BY <1>1, <1>2 DEF StatusChanged, PInv, QrKnown
  <1> QED BY <1>1, <1>3, PInvQuiet

(* Nothing takes back what is paid. *)
LEMMA TimeAndBankKnown ==
  ASSUME PInv, NEW p, TimePasses(p) \/ Transfer(p)
  PROVE  PInv'
  <1>1. UNCHANGED <<orders, qr, poll, renewing, charge, task, limit>>
    BY DEF TimePasses, Transfer, panel, buying, history
  <1>2. pays \in Seq(Bill) /\ p \in DOMAIN pays
    BY DEF PInv, BillsKnown, TimePasses, Transfer
  <1>3. pays[p] \in Bill
    BY <1>2, LenProperties, ElementOfSeq
  <1>4. Follows(pays, pays', {})
    <2>1. CASE TimePasses(p)
      <3>1. PICK bill : bill = [pays[p] EXCEPT !.over = TRUE]
        OBVIOUS
      <3>2. bill \in Bill /\ bill.order = pays[p].order
        BY <1>3, <3>1 DEF Bill
      <3>3. pays' = [pays EXCEPT ![p] = bill] /\ pays[p].status # "paid"
        BY <2>1, <3>1 DEF TimePasses
      <3> QED BY <1>2, <3>2, <3>3, OneMarked
    <2>2. CASE Transfer(p)
      <3>1. PICK s \in Outcomes : /\ pays[p].status # "paid"
                                  /\ pays' = [pays EXCEPT ![p].status = s]
        BY <2>2 DEF Transfer
      <3>2. s \in PaymentStatus
        BY CheckoutAssumption DEF PaymentStatus
      <3> QED BY <1>2, <3>1, <3>2, StatusMarked
    <2> QED BY <2>1, <2>2
  <1>5. Follows(pays, pays', DOMAIN orders')
    BY <1>4 DEF Follows
  <1> QED BY <1>1, <1>5, PInvKept

LEMMA CustomerKnown ==
  ASSUME PInv, CustomerActs
  PROVE  PInv'
  <1> USE DEF selection, buying, panel, shop, history
  <1>1. ASSUME NEW p \in Plans, OpenPlanDetails(p) \/ HandleSelectPlan(p)
        PROVE  PInv'
    BY <1>1, PInvQuiet DEF OpenPlanDetails, HandleSelectPlan, Forget, ShowQr
  <1>2. ASSUME NEW pf \in {"ios", "android"}, HandleSelectPlatform(pf)
        PROVE  PInv'
    BY <1>2, PInvQuiet DEF HandleSelectPlatform, Forget, ShowQr
  <1>3. CASE HandleReset
    BY <1>3, PInvQuiet DEF HandleReset, Forget, ShowQr
  <1>4. CASE CloseModal \/ GoBack \/ CloseGoldPopup \/ HandleVerifyUsername
             \/ ContinueToPayment \/ TypeContact \/ HandleContinueContact \/ ChooseQr
    BY <1>4, PInvQuiet DEF CloseModal, GoBack, CloseGoldPopup, HandleVerifyUsername,
          ContinueToPayment, TypeContact, HandleContinueContact, ChooseQr
  <1>5. ASSUME NEW n \in Names \cup {None}, TypeName(n)
        PROVE  PInv'
    BY <1>5, PInvQuiet DEF TypeName
  <1>6. ASSUME NEW c \in limit.coupons, HandleApplyCoupon(c)
        PROVE  PInv'
    <2>1. limit \in LimitsType
      BY CheckoutAssumption DEF PInv
    <2>2. c \in Coupons
      BY <1>6, <2>1 DEF LimitsType
    <2> QED BY <1>6, <2>2, HandleApplyCouponKnown
  <1>7. CASE HandleRemoveCoupon \/ ChooseCoin \/ LeavePayment
    BY <1>7, CloseActiveQrOrderKnown DEF HandleRemoveCoupon, ChooseCoin, LeavePayment
  <1>8. CASE HandlePayWithCoin \/ RetryCreateQr
    BY <1>8, PurchaseKnown DEF RetryCreateQr
  <1>9. CASE HandleRenewQrOrder
    BY <1>9, HandleRenewQrOrderKnown
  <1> QED BY <1>1, <1>2, <1>3, <1>4, <1>5, <1>6, <1>7, <1>8, <1>9 DEF CustomerActs

LEMMA AnswerIsKnown ==
  ASSUME PInv, AnswerArrives
  PROVE  PInv'
  <1> USE DEF selection, buying, panel, shop, history
  <1>1. ASSUME NEW l \in lookups,
               LunakeyFound(l) \/ LookupFails(l) \/ ProfileFound(l) \/ GoldChecked(l)
        PROVE  PInv'
    BY <1>1, PInvQuiet DEF LunakeyFound, LookupFails, ProfileFound, GoldChecked, Concluded
  <1>2. CASE QrOrderClosed \/ QrOrderNotClosed \/ RenewFails \/ PollFails
    BY <1>2, PInvQuiet DEF QrOrderClosed, GoOn, ShowQr, QrOrderNotClosed, RenewFails, PollFails
  <1>3. CASE PurchaseFails \/ CoinPaid
    BY <1>3, PInvQuiet DEF PurchaseFails, CoinPaid
  <1> QED BY <1>1, <1>2, <1>3, CouponValidatedKnown, QrCreatedKnown, QrRenewedKnown,
             StatusChangedKnown DEF AnswerArrives

LEMMA ShopIsKnown ==
  ASSUME PInv, KInv, ShopActs
  PROVE  PInv'
  BY CancelPaymentKnown, ShopSellsKnown, ShopSellsLateKnown, RenewPaymentKnown,
     FetchPaymentStatusKnown, TimeAndBankKnown DEF ShopActs

LEMMA InitPInv == Init => PInv
  <1> SUFFICES ASSUME Init
               PROVE  PInv
    OBVIOUS
  <1>1. /\ qr = None /\ poll = None /\ renewing = None /\ charge = None /\ task = None
        /\ pays = <<>> /\ limit \in Limits
    BY DEF Init
  <1>2. BillsKnown
    BY <1>1 DEF BillsKnown
  <1> QED BY <1>1, <1>2 DEF PInv, QrKnown, PollKnown, RenewalKnown, AnswerKnown, ReturnsEarly

LEMMA NextPInv == KInv /\ PInv /\ [Next]_vars => PInv'
  <1> SUFFICES ASSUME KInv, PInv, [Next]_vars
               PROVE  PInv'
    OBVIOUS
  <1>1. CASE UNCHANGED vars
    BY <1>1, PInvQuiet DEF vars, buying, panel, shop, history
  <1>2. CASE AutoCreateQr
    BY <1>2, PurchaseKnown, PInvQuiet DEF AutoCreateQr, panel, shop, history
  <1> QED BY <1>1, <1>2, CheckStatusKnown, CustomerKnown, AnswerIsKnown, ShopIsKnown DEF Next

-----------------------------------------------------------------------------
(* The last step is reached by the answer to a purchase, or to a poll. *)

PaidFor(o) ==
  /\ o \in DOMAIN orders
  /\ orders[o].kind = "qr" =>
       \E p \in DOMAIN pays : pays[p].order = o /\ pays[p].status = "paid"

Completes == step # "completed" /\ step' = "completed"

LEMMA EarlyIsEarly ==
  /\ "completed" \notin Early
  /\ \A e \in {"plan", "platform", "username", "contact", "payment"} : e # "completed"
  BY DEF Early

(* What was bought with the coin is an order for the coin. *)
LEMMA CoinPaidCompletes ==
  ASSUME KInv, PInv, CoinPaid
  PROVE  PaidFor(shown)'
  <1>1. charge # None /\ charge.kind = "coin" /\ charge.answer # None
        /\ shown' = charge.answer /\ UNCHANGED <<orders, pays>>
    BY DEF CoinPaid, shop
  <1>2. charge.answer \in DOMAIN orders /\ orders[charge.answer].key = charge.key
    BY <1>1 DEF PInv, AnswerKnown
  <1>3. charge \in Deals /\ orders[charge.answer] \in Deals
    BY <1>1, <1>2 DEF Deals, Tried, Sold
  <1>4. orders[charge.answer].kind = "coin"
    BY <1>1, <1>2, <1>3 DEF KInv, KeyTellsPurchase, SamePurchase
  <1> QED BY <1>1, <1>2, <1>4 DEF PaidFor

LEMMA StatusChangedCompletes ==
  ASSUME PInv, StatusChanged, Completes
  PROVE  PaidFor(shown)'
  <1>1. /\ poll # None /\ poll.answer # None /\ poll.answer = "paid"
        /\ shown' = pays[poll.pay].order /\ UNCHANGED <<orders, pays>>
    BY DEF StatusChanged, Completes, shop
  <1>2. poll.pay \in DOMAIN pays /\ pays[poll.pay].status = "paid"
    BY <1>1 DEF PInv, PollKnown
  <1>3. pays[poll.pay].order \in DOMAIN orders
    BY <1>2 DEF PInv, BillsKnown
  <1> QED BY <1>1, <1>2, <1>3 DEF PaidFor

LEMMA CloseActiveQrOrderStays ==
  ASSUME NEW then, CloseActiveQrOrder(then)
  PROVE  ~Completes
  BY PreviousEarly, EarlyIsEarly DEF CloseActiveQrOrder, GoOn, Completes

LEMMA CustomerStays ==
  ASSUME CustomerActs
  PROVE  ~Completes
  <1> USE DEF Completes
  <1>1. ASSUME NEW p \in Plans, OpenPlanDetails(p) \/ HandleSelectPlan(p)
        PROVE  ~Completes
    <2>1. CASE HandleSelectPlan(p)
      <3>1. PICK only : step' = IF only = None THEN "platform" ELSE StepAfterPlatform(p, only)
        BY <2>1 DEF HandleSelectPlan
      <3> QED BY <3>1, NextStepEarly, EarlyIsEarly
    <2> QED BY <1>1, <2>1 DEF OpenPlanDetails
  <1>2. ASSUME NEW pf \in {"ios", "android"}, HandleSelectPlatform(pf)
        PROVE  ~Completes
    BY <1>2, NextStepEarly, EarlyIsEarly DEF HandleSelectPlatform
  <1>3. CASE HandleReset \/ ContinueToPayment \/ HandleContinueContact
    BY <1>3 DEF HandleReset, ContinueToPayment, HandleContinueContact
  <1>4. CASE GoBack
    BY <1>4, PreviousEarly, EarlyIsEarly DEF GoBack
  <1>5. CASE CloseModal \/ CloseGoldPopup \/ HandleVerifyUsername \/ TypeContact \/ ChooseQr
    BY <1>5 DEF CloseModal, CloseGoldPopup, HandleVerifyUsername, TypeContact, ChooseQr, selection
  <1>6. ASSUME NEW n \in Names \cup {None}, TypeName(n)
        PROVE  ~Completes
    BY <1>6 DEF TypeName
  <1>7. ASSUME NEW c \in limit.coupons, HandleApplyCoupon(c)
        PROVE  ~Completes
    BY <1>7 DEF HandleApplyCoupon, selection
  <1>8. CASE HandleRemoveCoupon \/ ChooseCoin \/ LeavePayment
    BY <1>8, CloseActiveQrOrderStays DEF HandleRemoveCoupon, ChooseCoin, LeavePayment
  <1>9. CASE HandlePayWithCoin \/ RetryCreateQr \/ HandleRenewQrOrder
    BY <1>9 DEF HandlePayWithCoin, RetryCreateQr, HandleCreateQrPayment, HandleRenewQrOrder,
          selection
  <1> QED BY <1>1, <1>2, <1>3, <1>4, <1>5, <1>6, <1>7, <1>8, <1>9 DEF CustomerActs

(* A handler that closed the QR code returns to a step before the last. *)
LEMMA GoOnStays ==
  ASSUME PInv, task # None, GoOn(task.then, task.previous)
  PROVE  ~Completes
  BY EarlyIsEarly DEF PInv, ReturnsEarly, GoOn, Completes

LEMMA AnswerCompletes ==
  ASSUME KInv, PInv, AnswerArrives, Completes
  PROVE  PaidFor(shown)'
  <1>1. ASSUME NEW l \in lookups,
               LunakeyFound(l) \/ LookupFails(l) \/ ProfileFound(l) \/ GoldChecked(l)
        PROVE  ~Completes
    BY <1>1 DEF LunakeyFound, LookupFails, ProfileFound, GoldChecked, Concluded, Completes
  <1>2. CASE QrOrderClosed \/ CouponValidated
    BY <1>2, GoOnStays DEF QrOrderClosed, CouponValidated, Completes
  <1>3. CASE QrOrderNotClosed \/ PurchaseFails \/ QrCreated \/ QrRenewed \/ RenewFails \/ PollFails
    BY <1>3 DEF QrOrderNotClosed, PurchaseFails, QrCreated, QrRenewed, RenewFails, PollFails,
          selection, Completes
  <1> QED BY <1>1, <1>2, <1>3, CoinPaidCompletes, StatusChangedCompletes DEF AnswerArrives

LEMMA ShopStays ==
  ASSUME ShopActs
  PROVE  ~Completes
  BY DEF ShopActs, CancelPayment, ShopSells, ShopSellsLate, RenewPayment, FetchPaymentStatus,
         TimePasses, Transfer, selection, Completes

LEMMA CompletesPaid ==
  ASSUME KInv, PInv, [Next]_vars, Completes
  PROVE  PaidFor(shown)'
  <1>1. CASE UNCHANGED vars \/ AutoCreateQr \/ CheckStatus
    BY <1>1 DEF vars, AutoCreateQr, HandleCreateQrPayment, CheckStatus, selection, Completes
  <1> QED BY <1>1, CustomerStays, AnswerCompletes, ShopStays DEF Next

(* The page gets to its last step only with an order that the shop has, and
   that is paid (CompletesWhenPaid of Checkout): whatever was closed, renewed,
   bought again or left while the poll or the purchase was under way, and
   whichever answers were lost. *)
THEOREM CompletionIsPaid == Spec => CompletesWhenPaid
  <1>1. KInv /\ PInv /\ [Next]_vars =>
          [step # "completed" /\ step' = "completed" =>
             /\ shown' \in DOMAIN orders'
             /\ orders'[shown'].kind = "qr" =>
                  \E p \in DOMAIN pays' :
                    pays'[p].order = shown' /\ pays'[p].status = "paid"]_vars
    BY CompletesPaid DEF Completes, PaidFor
  <1>2. Init => LInv /\ KInv /\ PInv
    BY InitLInv, InitKInv, InitPInv
  <1> QED BY <1>1, <1>2, NextLInv, NextKInv, NextPInv, PTL DEF Spec, CompletesWhenPaid

-----------------------------------------------------------------------------
(* TypeOK.  What it says of the bounds follows from the keys: no two orders  *)
(* have the same one, so there are no more orders than keys.                 *)

Asked == [plan : Plans, name : Names, stage : {"profile", "gold"}, current : BOOLEAN]
Issued == [plan : Plans, name : Names]

SelectionTyped ==
  /\ step \in Steps /\ form \in Form /\ info \in Names \cup {None}
  /\ looking \in Plans \cup {None} /\ popup \in BOOLEAN /\ lookups \subseteq Asked
  /\ minted \in Seq(Issued) /\ Len(minted) \leq limit.tokens

BuyingTyped ==
  /\ method \in Kinds /\ charge \in Charge \cup {None} /\ late \subseteq Charge
  /\ coinTry \in Try \cup {None} /\ qrTry \in Try \cup {None}
  /\ autoSig \in Form \cup {None} /\ shown \in 0 .. limit.keys
  /\ orders \in Seq(Order) /\ keys \in 0 .. limit.keys
  /\ pressed \in [Kinds -> Form \cup {None}]

PanelTyped ==
  /\ task # None => task.pay \in 0 .. limit.pays
  /\ watch \in PaymentStatus
  /\ pays \in Seq(Payment) /\ Len(pays) \leq limit.pays

CheckoutTyped == SelectionTyped /\ BuyingTyped /\ PanelTyped

LEMMA LimitTyped ==
  ASSUME limit \in Limits
  PROVE  limit.keys \in Nat /\ limit.tokens \in Nat /\ limit.pays \in Nat
         /\ limit.coupons \subseteq Coupons
  BY CheckoutAssumption DEF LimitsType

LEMMA SameBounds ==
  ASSUME limit' = limit
  PROVE  /\ Form' = Form /\ Try' = Try /\ Charge' = Charge /\ Order' = Order
         /\ Payment' = Payment
  BY DEF Form, Try, Charge, Order, Payment

LEMMA LimitStays == Next => limit' = limit
  <1> USE DEF history
  <1>1. ASSUME NEW kind, NEW try, Purchase(kind, try)
        PROVE  limit' = limit
    BY <1>1 DEF Purchase
  <1>2. AutoCreateQr => limit' = limit
    BY <1>1 DEF AutoCreateQr, HandleCreateQrPayment
  <1>3. CustomerActs => limit' = limit
    BY <1>1 DEF CustomerActs, OpenPlanDetails, HandleSelectPlan, CloseModal,
       HandleSelectPlatform, HandleReset, GoBack, CloseGoldPopup, TypeName,
       HandleVerifyUsername, ContinueToPayment, TypeContact, HandleContinueContact,
       HandleApplyCoupon, HandleRemoveCoupon, ChooseCoin, ChooseQr, LeavePayment,
       CloseActiveQrOrder, HandlePayWithCoin, RetryCreateQr, HandleCreateQrPayment,
       HandleRenewQrOrder
  <1>4. AnswerArrives => limit' = limit
    BY DEF AnswerArrives, LunakeyFound, LookupFails, ProfileFound, GoldChecked, Concluded,
       CouponValidated, QrOrderClosed, QrOrderNotClosed, PurchaseFails, CoinPaid, QrCreated,
       QrRenewed, RenewFails, StatusChanged, PollFails
  <1>5. ShopActs => limit' = limit
    BY DEF ShopActs, CancelPayment, ShopSells, ShopSellsLate, RenewPayment,
       FetchPaymentStatus, TimePasses, Transfer
  <1>6. CheckStatus => limit' = limit
    BY DEF CheckStatus
  <1> QED BY <1>2, <1>3, <1>4, <1>5, <1>6 DEF Next

(* No more orders than keys: an order has a key of its own. *)
OrdersBounded ==
  /\ Len(orders) \in Nat /\ Len(orders) \leq limit.keys
  /\ DOMAIN orders \subseteq 1 .. limit.keys

LEMMA OrdersFit == KInv /\ PInv /\ keys \in 0 .. limit.keys => OrdersBounded
  <1> SUFFICES ASSUME KInv, PInv, keys \in 0 .. limit.keys
               PROVE  OrdersBounded
    OBVIOUS
  <1>1. limit.keys \in Nat
    BY LimitTyped DEF PInv
  <1>2. orders \in Seq(Sale)
    BY DEF KInv, Counters
  <1>3. Len(orders) \in Nat /\ DOMAIN orders = 1 .. Len(orders)
    BY <1>2, LenProperties
  <1>4. \A i \in 1 .. Len(orders) : orders[i].key \in 1 .. limit.keys
    <2> SUFFICES ASSUME NEW i \in 1 .. Len(orders)
                 PROVE  orders[i].key \in 1 .. limit.keys
      OBVIOUS
    <2>1. orders[i] \in Deals
      BY <1>3 DEF Deals, Sold
    <2>2. orders[i].key \in 1 .. keys
      BY <2>1 DEF KInv, Dealt
    <2> QED BY <1>1, <2>2
  <1>5. \A i, j \in 1 .. Len(orders) : orders[i].key = orders[j].key => i = j
    BY <1>3 DEF KInv
  <1> DEFINE S == 1 .. Len(orders)
             T == 1 .. limit.keys
             f == [i \in S |-> orders[i].key]
  <1>6. f \in [S -> T]
    BY <1>4
  <1>7. f \in Injection(S, T)
    BY <1>5, <1>6 DEF Injection, IsInjective
  <1>8. IsFiniteSet(T) /\ Cardinality(T) = limit.keys
    <2>1. PICK n \in Nat : n = limit.keys
      BY <1>1
    <2>2. IsFiniteSet(1 .. n) /\ Cardinality(1 .. n) = n
      BY FS_Interval
    <2> QED BY <2>1, <2>2
  <1>9. Cardinality(S) = Len(orders)
    <2>1. PICK n \in Nat : n = Len(orders)
      BY <1>3
    <2>2. Cardinality(1 .. n) = n
      BY FS_Interval
    <2> QED BY <2>1, <2>2
  <1> HIDE DEF f, S, T
  <1>10. Cardinality(S) \leq Cardinality(T)
    BY <1>7, <1>8, FS_Injection
  <1> QED BY <1>1, <1>3, <1>8, <1>9, <1>10 DEF OrdersBounded

LEMMA SelectionKept ==
  ASSUME SelectionTyped, limit' = limit, UNCHANGED <<form, info, lookups, minted>>,
         step' \in Steps \cup {step}, looking' \in {looking, None},
         popup' \in {popup, FALSE}
  PROVE  SelectionTyped'
  BY SameBounds DEF SelectionTyped

LEMMA OutrunAsked ==
  ASSUME lookups \subseteq Asked
  PROVE  {[l EXCEPT !.current = FALSE] : l \in lookups} \subseteq Asked
  BY DEF Asked

(* A form without a token is a form, however many tokens there may be. *)
LEMMA FormPlain ==
  ASSUME limit \in Limits, NEW p \in Plans \cup {None},
         NEW pf \in {"ios", "android", None}, NEW c \in Coupons \cup {None}
  PROVE  /\ [Blank EXCEPT !.plan = p, !.platform = pf, !.coupon = c] \in Form
         /\ [Blank EXCEPT !.plan = p, !.platform = pf] \in Form
  <1>1. PICK tokens : tokens = 0 .. limit.tokens
    OBVIOUS
  <1>2. 0 \in tokens
    BY <1>1, LimitTyped
  <1> DEFINE F == [plan : Plans \cup {None}, platform : {"ios", "android", None},
                   name : Names \cup {None}, contact : BOOLEAN,
                   coupon : Coupons \cup {None}, token : tokens]
  <1>3. [Blank EXCEPT !.plan = p, !.platform = pf, !.coupon = c] \in F
    BY <1>2 DEF Blank
  <1>4. [Blank EXCEPT !.plan = p, !.platform = pf] \in F
    BY <1>2 DEF Blank
  <1>5. F = Form
    BY <1>1 DEF Form
  <1> QED BY <1>3, <1>4, <1>5

LEMMA FormChanged ==
  ASSUME limit \in Limits, form \in Form, NEW n \in Names \cup {None},
         NEW c \in Coupons \cup {None}, NEW t \in 0 .. limit.tokens
  PROVE  /\ [form EXCEPT !.name = n, !.token = 0] \in Form
         /\ [form EXCEPT !.contact = TRUE] \in Form
         /\ [form EXCEPT !.coupon = c] \in Form
         /\ [form EXCEPT !.token = t] \in Form
  <1>1. 0 \in 0 .. limit.tokens
    BY LimitTyped
  <1>2. [form EXCEPT !.name = n, !.token = 0] \in Form
    BY <1>1 DEF Form
  <1>3. [form EXCEPT !.contact = TRUE] \in Form
    BY DEF Form
  <1>4. [form EXCEPT !.coupon = c] \in Form
    BY DEF Form
  <1>5. [form EXCEPT !.token = t] \in Form
    BY DEF Form
  <1> QED BY <1>2, <1>3, <1>4, <1>5

LEMMA StepsEarly == Early \subseteq Steps
  BY DEF Early

(* Forgotten, with a form that has no token. *)
LEMMA SelectionForgets ==
  ASSUME SelectionTyped, limit' = limit, Outrun, info' = None, form' \in Form,
         step' \in Steps \cup {step}, looking' \in {looking, None},
         popup' \in {popup, FALSE}, minted' = minted
  PROVE  SelectionTyped'
  <1>1. lookups' \subseteq Asked
    BY OutrunAsked DEF SelectionTyped, Outrun
  <1> QED BY <1>1, SameBounds DEF SelectionTyped

LEMMA SelectPlanTyped ==
  ASSUME SelectionTyped, PInv, limit' = limit, NEW p \in Plans, HandleSelectPlan(p)
  PROVE  SelectionTyped'
  <1> DEFINE only == IF Catalog[p].platforms = "all" THEN None ELSE Catalog[p].platforms
  <1>1. only \in {"ios", "android", None}
    <2>1. Catalog[p] \in CatalogType
      BY CheckoutAssumption
    <2> QED BY <2>1 DEF CatalogType
  <1>2. /\ form' = [Blank EXCEPT !.plan = p, !.platform = only]
        /\ step' = IF only = None THEN "platform" ELSE StepAfterPlatform(p, only)
        /\ Outrun /\ info' = None /\ looking' = None /\ UNCHANGED <<popup, minted>>
    BY DEF HandleSelectPlan, Forget, shop
  <1> HIDE DEF only
  <1>3. PICK c \in Coupons \cup {None} : c = None
    OBVIOUS
  <1>4. form' \in Form
    BY <1>1, <1>2, <1>3, FormPlain DEF PInv
  <1>5. step' \in Steps
    <2>1. StepAfterPlatform(p, only) \in Early
      BY NextStepEarly
    <2> QED BY <1>2, <2>1 DEF Early, Steps
  <1> QED BY <1>2, <1>4, <1>5, SelectionForgets

LEMMA SelectPlatformTyped ==
  ASSUME SelectionTyped, PInv, limit' = limit, NEW pf \in {"ios", "android"},
         HandleSelectPlatform(pf)
  PROVE  SelectionTyped'
  <1>1. /\ form' = [Blank EXCEPT !.plan = form.plan, !.platform = pf, !.coupon = form.coupon]
        /\ step' = StepAfterPlatform(form.plan, pf)
        /\ Outrun /\ info' = None /\ UNCHANGED <<looking, popup, minted>>
    BY DEF HandleSelectPlatform, Forget, shop
  <1>2. form.plan \in Plans \cup {None} /\ form.coupon \in Coupons \cup {None}
    BY DEF SelectionTyped, Form
  <1>3. form' \in Form
    BY <1>1, <1>2, FormPlain DEF PInv
  <1>4. step' \in Steps
    <2>1. StepAfterPlatform(form.plan, pf) \in Early
      BY NextStepEarly
    <2> QED BY <1>1, <2>1, StepsEarly
  <1> QED BY <1>1, <1>3, <1>4, SelectionForgets

LEMMA HandleResetTyped ==
  ASSUME SelectionTyped, PInv, limit' = limit, HandleReset
  PROVE  SelectionTyped'
  <1>1. /\ form' = Blank /\ step' = "plan" /\ popup' = FALSE
        /\ Outrun /\ info' = None /\ UNCHANGED <<looking, minted>>
    BY DEF HandleReset, Forget, shop
  <1>2. form' \in Form
    BY <1>1, LimitTyped DEF Blank, Form, PInv
  <1> QED BY <1>1, <1>2, SelectionForgets DEF Steps

LEMMA TypeNameTyped ==
  ASSUME SelectionTyped, PInv, limit' = limit, NEW n \in Names \cup {None}, TypeName(n)
  PROVE  SelectionTyped'
  <1>1. /\ form' = [form EXCEPT !.name = n, !.token = 0]
        /\ Outrun /\ info' = None /\ UNCHANGED <<step, looking, popup, minted>>
    BY DEF TypeName, shop
  <1>2. [form EXCEPT !.name = n, !.token = 0] \in Form
    <2>1. 0 \in 0 .. limit.tokens
      BY LimitTyped DEF PInv
    <2> QED BY <2>1 DEF SelectionTyped, Form
  <1>3. form' \in Form
    BY <1>1, <1>2
  <1> QED BY <1>1, <1>3, SelectionForgets

(* A lookup is offered with a plan and a name. *)
LEMMA LookUpOffered ==
  ASSUME form \in Form, "look up" \in Offered
  PROVE  form.plan \in Plans /\ form.name \in Names
  <1>1. form.plan # None /\ form.name # None
    BY DEF Offered, GoldPopup, StepperHeader, PlanCatalogCards,
           PlanDetailsModal, PlatformPanel, UsernamePanel, LookupForm, ProfileCard,
           ContactPanel, PaymentPanel, CouponBox, MethodSelector, CoinPaymentView,
           QrPaymentView, Chosen
  <1> QED BY <1>1 DEF Form

LEMMA VerifyUsernameTyped ==
  ASSUME SelectionTyped, limit' = limit, HandleVerifyUsername
  PROVE  SelectionTyped'
  <1> DEFINE new == [plan |-> form.plan, name |-> form.name, stage |-> "profile",
                     current |-> TRUE]
  <1>1. /\ lookups' = {[l EXCEPT !.current = FALSE] : l \in lookups} \cup {new}
        /\ UNCHANGED <<step, form, info, looking, popup, minted>>
    BY DEF HandleVerifyUsername, shop
  <1>2. new \in Asked
    BY LookUpOffered DEF SelectionTyped, HandleVerifyUsername, Asked
  <1> HIDE DEF new
  <1>3. lookups' \subseteq Asked
    BY <1>1, <1>2, OutrunAsked DEF SelectionTyped
  <1> QED BY <1>1, <1>3, SameBounds DEF SelectionTyped

LEMMA ConcludedTyped ==
  ASSUME SelectionTyped, PInv, limit' = limit, NEW l \in lookups,
         NEW i \in Names \cup {None}, NEW tok \in 0 .. limit.tokens, NEW blocked \in BOOLEAN,
         Concluded(l, i, tok, blocked),
         minted' \in Seq(Issued), Len(minted') \leq limit.tokens
  PROVE  SelectionTyped'
  <1>1. lookups' \subseteq Asked /\ UNCHANGED <<step, looking>>
    BY DEF Concluded, SelectionTyped
  <1>2. info' \in Names \cup {None} /\ popup' \in BOOLEAN
    BY DEF Concluded, SelectionTyped
  <1>3. form' \in Form
    <2>1. [form EXCEPT !.token = tok] \in Form
      BY FormChanged DEF SelectionTyped, PInv
    <2> QED BY <2>1 DEF Concluded, SelectionTyped
  <1> QED BY <1>1, <1>2, <1>3, SameBounds DEF SelectionTyped

LEMMA LunakeyFoundTyped ==
  ASSUME SelectionTyped, PInv, limit' = limit, NEW l \in lookups, LunakeyFound(l)
  PROVE  SelectionTyped'
  <1> DEFINE new == [plan |-> l.plan, name |-> l.name]
  <1>1. new \in Issued /\ minted \in Seq(Issued) /\ l.name \in Names
    BY DEF SelectionTyped, Asked, Issued
  <1>2. minted' = Append(minted, new) /\ Len(minted) < limit.tokens
    BY DEF LunakeyFound
  <1> HIDE DEF new
  <1>3. /\ minted' \in Seq(Issued) /\ Len(minted') = Len(minted) + 1
        /\ Len(minted') \in Nat /\ Len(minted) \in Nat
    BY <1>1, <1>2, AppendProperties, LenProperties
  <1>4. Len(minted') \in 0 .. limit.tokens /\ 0 \in 0 .. limit.tokens
    BY <1>2, <1>3, LimitTyped DEF PInv
  <1>5. PICK tok \in {0, Len(minted')} : Concluded(l, l.name, tok, FALSE)
    BY DEF LunakeyFound
  <1>6. tok \in 0 .. limit.tokens /\ Len(minted') \leq limit.tokens
    BY <1>2, <1>3, <1>4, <1>5, LimitTyped DEF PInv
  <1>7. PICK blocked \in BOOLEAN : blocked = FALSE
    OBVIOUS
  <1>8. Concluded(l, l.name, tok, blocked)
    BY <1>5, <1>7
  <1> QED BY <1>1, <1>3, <1>6, <1>8, ConcludedTyped

LEMMA LookupConcludedTyped ==
  ASSUME SelectionTyped, PInv, limit' = limit, NEW l \in lookups,
         LookupFails(l) \/ GoldChecked(l)
  PROVE  SelectionTyped'
  <1>1. minted' = minted
    BY DEF LookupFails, GoldChecked, shop
  <1>2. minted' \in Seq(Issued) /\ Len(minted') \leq limit.tokens /\ l.name \in Names
    BY <1>1 DEF SelectionTyped, Asked
  <1>3. form.token \in 0 .. limit.tokens /\ 0 \in 0 .. limit.tokens
    BY LimitTyped DEF SelectionTyped, Form, PInv
  <1>4. PICK i \in Names \cup {None}, tok \in 0 .. limit.tokens, blocked \in BOOLEAN :
          Concluded(l, i, tok, blocked)
    <2>1. CASE LookupFails(l)
      <3>1. PICK no \in BOOLEAN : no = FALSE
        OBVIOUS
      <3>2. PICK tok \in 0 .. limit.tokens :
              tok = IF Catalog[l.plan].provider = "lunakey" THEN 0 ELSE form.token
        BY <1>3
      <3>3. Concluded(l, None, tok, no)
        BY <2>1, <3>1, <3>2 DEF LookupFails
      <3> QED BY <3>3
    <2>2. CASE GoldChecked(l)
      <3>1. PICK blocked \in BOOLEAN :
              Concluded(l, IF blocked THEN None ELSE l.name, form.token, blocked)
        BY <2>2 DEF GoldChecked
      <3>2. PICK i \in Names \cup {None} : i = IF blocked THEN None ELSE l.name
        BY <1>2
      <3>3. Concluded(l, i, form.token, blocked)
        BY <3>1, <3>2
      <3> QED BY <1>3, <3>3
    <2> QED BY <2>1, <2>2
  <1> QED BY <1>2, <1>4, ConcludedTyped

LEMMA ProfileFoundTyped ==
  ASSUME SelectionTyped, limit' = limit, NEW l \in lookups, ProfileFound(l)
  PROVE  SelectionTyped'
  <1>1. /\ lookups' \subseteq lookups \cup {[l EXCEPT !.stage = "gold"]}
        /\ UNCHANGED <<step, form, info, looking, popup, minted>>
    BY DEF ProfileFound, shop
  <1>2. [l EXCEPT !.stage = "gold"] \in Asked
    BY DEF SelectionTyped, Asked
  <1>3. lookups' \subseteq Asked
    BY <1>1, <1>2 DEF SelectionTyped
  <1> QED BY <1>1, <1>3, SameBounds DEF SelectionTyped

LEMMA GoOnTyped ==
  ASSUME SelectionTyped, PInv, limit' = limit, NEW other \in Coupons \cup {None, "coin", "back"},
         NEW previous \in Steps, GoOn(other, previous),
         UNCHANGED <<info, looking, popup, lookups, minted>>
  PROVE  SelectionTyped'
  <1>1. step' \in Steps
    BY DEF GoOn, SelectionTyped
  <1>2. form' \in Form
    <2>1. CASE other \in Coupons \cup {None}
      <3>1. 0 \in 0 .. limit.tokens
        BY LimitTyped DEF PInv
      <3>2. [form EXCEPT !.coupon = other] \in Form
        BY <2>1 DEF SelectionTyped, Form
      <3> QED BY <2>1, <3>2 DEF GoOn
    <2>2. CASE other \notin Coupons \cup {None}
      BY <2>2 DEF GoOn, SelectionTyped
    <2> QED BY <2>1, <2>2
  <1> QED BY <1>1, <1>2, SameBounds DEF SelectionTyped

LEMMA CloseActiveTyped ==
  ASSUME SelectionTyped, PInv, limit' = limit, NEW other \in Coupons \cup {None, "coin", "back"},
         CloseActiveQrOrder(other)
  PROVE  SelectionTyped'
  <1>1. UNCHANGED <<info, looking, popup, lookups, minted>>
    BY DEF CloseActiveQrOrder, shop
  <1>2. CASE qr = None
    <2>1. GetPreviousStep \in Steps
      BY PreviousEarly, StepsEarly
    <2>2. GoOn(other, GetPreviousStep)
      BY <1>2 DEF CloseActiveQrOrder
    <2> QED BY <1>1, <2>1, <2>2, GoOnTyped
  <1>3. CASE qr # None
    BY <1>1, <1>3, SelectionKept DEF CloseActiveQrOrder
  <1> QED BY <1>2, <1>3

LEMMA TaskDoneTyped ==
  ASSUME SelectionTyped, PInv, limit' = limit, CouponValidated \/ QrOrderClosed
  PROVE  SelectionTyped'
  <1>1. UNCHANGED <<info, looking, popup, lookups, minted>> /\ task # None
    BY DEF CouponValidated, QrOrderClosed, shop
  <1>2. task.then \in Coupons \cup {None, "coin", "back"} /\ task.previous \in Steps
    BY <1>1, StepsEarly DEF PInv, ReturnsEarly
  <1>3. CASE GoOn(task.then, task.previous)
    BY <1>1, <1>2, <1>3, GoOnTyped
  <1>4. CASE UNCHANGED <<step, form>>
    BY <1>1, <1>4, SelectionKept
  <1>5. CASE form' = [form EXCEPT !.coupon = None] /\ UNCHANGED step
    <2>1. form' \in Form
      BY <1>5 DEF SelectionTyped, Form
    <2> QED BY <1>1, <1>5, <2>1, SameBounds DEF SelectionTyped
  <1> QED BY <1>3, <1>4, <1>5 DEF CouponValidated, QrOrderClosed

LEMMA SelectionByCustomer ==
  ASSUME SelectionTyped, PInv, limit' = limit, CustomerActs
  PROVE  SelectionTyped'
  <1> USE DEF selection, shop
  <1>1. ASSUME NEW p \in Plans, OpenPlanDetails(p)
        PROVE  SelectionTyped'
    <2>1. UNCHANGED <<step, form, info, popup, lookups, minted>> /\ looking' = p
      BY <1>1 DEF OpenPlanDetails
    <2> QED BY <2>1, SameBounds DEF SelectionTyped
  <1>2. CASE CloseModal \/ CloseGoldPopup
    BY <1>2, SelectionKept DEF CloseModal, CloseGoldPopup
  <1>3. CASE GoBack
    BY <1>3, SelectionKept, PreviousEarly, StepsEarly DEF GoBack
  <1>4. CASE ContinueToPayment \/ HandleContinueContact
    BY <1>4, SelectionKept DEF ContinueToPayment, HandleContinueContact, Steps
  <1>5. CASE TypeContact
    <2>1. UNCHANGED <<step, info, looking, popup, lookups, minted>>
          /\ form' = [form EXCEPT !.contact = TRUE]
      BY <1>5 DEF TypeContact
    <2>2. form' \in Form
      BY <2>1 DEF SelectionTyped, Form
    <2> QED BY <2>1, <2>2, SameBounds DEF SelectionTyped
  <1>6. CASE \/ \E c \in limit.coupons : HandleApplyCoupon(c)
             \/ ChooseQr \/ HandlePayWithCoin \/ RetryCreateQr \/ HandleRenewQrOrder
    BY <1>6, SelectionKept DEF HandleApplyCoupon, ChooseQr, HandlePayWithCoin, RetryCreateQr,
       HandleCreateQrPayment, HandleRenewQrOrder
  <1>7. CASE HandleRemoveCoupon \/ ChooseCoin \/ LeavePayment
    BY <1>7, CloseActiveTyped DEF HandleRemoveCoupon, ChooseCoin, LeavePayment
  <1> QED BY <1>1, <1>2, <1>3, <1>4, <1>5, <1>6, <1>7, SelectPlanTyped, SelectPlatformTyped,
             HandleResetTyped, TypeNameTyped, VerifyUsernameTyped DEF CustomerActs

LEMMA SelectionTypedNext == SelectionTyped /\ PInv /\ [Next]_vars => SelectionTyped'
  <1> SUFFICES ASSUME SelectionTyped, PInv, [Next]_vars
               PROVE  SelectionTyped'
    OBVIOUS
  <1> USE DEF selection, shop
  <1>1. limit' = limit
    BY LimitStays DEF vars, history
  <1>2. CASE UNCHANGED vars
    BY <1>1, <1>2, SelectionKept DEF vars
  <1>3. CASE AutoCreateQr \/ CheckStatus
    BY <1>1, <1>3, SelectionKept DEF AutoCreateQr, HandleCreateQrPayment, CheckStatus
  <1>4. CASE CustomerActs
    BY <1>1, <1>4, SelectionByCustomer
  <1>5. CASE AnswerArrives
    <2>1. ASSUME NEW l \in lookups,
                 LunakeyFound(l) \/ LookupFails(l) \/ ProfileFound(l) \/ GoldChecked(l)
          PROVE  SelectionTyped'
      BY <1>1, <2>1, LunakeyFoundTyped, LookupConcludedTyped, ProfileFoundTyped
    <2>2. CASE CouponValidated \/ QrOrderClosed
      BY <1>1, <2>2, TaskDoneTyped
    <2>3. CASE \/ QrOrderNotClosed \/ PurchaseFails \/ QrCreated \/ QrRenewed \/ RenewFails
               \/ PollFails
      BY <1>1, <2>3, SelectionKept DEF QrOrderNotClosed, PurchaseFails, QrCreated, QrRenewed,
         RenewFails, PollFails
    <2>4. CASE CoinPaid \/ StatusChanged
      BY <1>1, <2>4, SelectionKept DEF CoinPaid, StatusChanged, Steps
    <2> QED BY <1>5, <2>1, <2>2, <2>3, <2>4 DEF AnswerArrives
  <1>6. CASE ShopActs
    <2>1. UNCHANGED <<selection, minted>>
      BY <1>6 DEF ShopActs, CancelPayment, ShopSells, ShopSellsLate, RenewPayment,
         FetchPaymentStatus, TimePasses, Transfer
    <2> QED BY <1>1, <2>1, SelectionKept
  <1> QED BY <1>2, <1>3, <1>4, <1>5, <1>6 DEF Next

LEMMA BuyingKept ==
  ASSUME BuyingTyped, limit' = limit,
         method' \in Kinds \cup {method}, charge' \in Charge \cup {None, charge},
         late' \subseteq Charge \cup late, coinTry' \in Try \cup {None, coinTry},
         qrTry' \in Try \cup {None, qrTry}, autoSig' \in Form \cup {None, autoSig},
         shown' \in (0 .. limit.keys) \cup {shown},
         orders' \in Seq(Order) \cup {orders}, keys' \in (0 .. limit.keys) \cup {keys},
         pressed' \in [Kinds -> Form \cup {None}] \cup {pressed}
  PROVE  BuyingTyped'
  <1>1. Form' = Form /\ Try' = Try /\ Charge' = Charge /\ Order' = Order
    BY SameBounds
  <1>2. late' \subseteq Charge
    BY DEF BuyingTyped
  <1>3. /\ charge' \in Charge \cup {None} /\ coinTry' \in Try \cup {None}
        /\ qrTry' \in Try \cup {None} /\ autoSig' \in Form \cup {None}
    BY DEF BuyingTyped
  <1>4. /\ method' \in Kinds /\ shown' \in 0 .. limit.keys /\ keys' \in 0 .. limit.keys
        /\ pressed' \in [Kinds -> Form \cup {None}] /\ orders' \in Seq(Order)
    BY DEF BuyingTyped
  <1> QED BY <1>1, <1>2, <1>3, <1>4 DEF BuyingTyped

LEMMA BuyingSame ==
  ASSUME BuyingTyped, limit' = limit, UNCHANGED <<orders, keys>>,
         method' \in Kinds \cup {method}, charge' \in {None, charge},
         late' \subseteq Charge \cup late, coinTry' \in {None, coinTry},
         qrTry' \in {None, qrTry}, autoSig' \in {None, autoSig},
         shown' \in (0 .. limit.keys) \cup {shown},
         pressed' \in [Kinds -> Form \cup {None}] \cup {pressed}
  PROVE  BuyingTyped'
  BY BuyingKept

(* A purchase as it is sent. *)
LEMMA PurchaseTyped ==
  ASSUME KInv, PInv, SelectionTyped, BuyingTyped, limit' = limit, NEW kind \in Kinds,
         NEW try, try = LastTry(kind), Purchase(kind, try)
  PROVE  /\ charge' \in Charge /\ keys' \in 0 .. limit.keys
         /\ pressed' \in [Kinds -> Form \cup {None}]
         /\ [key |-> KeyFor(try), form |-> form] \in Try
  <1>1. limit.keys \in Nat /\ keys \in 0 .. limit.keys /\ form \in Form
    BY LimitTyped DEF PInv, BuyingTyped, SelectionTyped
  <1>2. KeyFor(try) \in 1 .. limit.keys
    <2>1. try # None => try \in Try
      BY DEF LastTry, BuyingTyped
    <2>2. CASE try # None /\ try.form = form
      <3>1. try.key \in 1 .. limit.keys
        BY <2>1, <2>2 DEF Try
      <3> QED BY <2>2, <3>1 DEF KeyFor
    <2>3. CASE ~(try # None /\ try.form = form)
      <3>1. KeyFor(try) = keys + 1
        BY <2>3 DEF KeyFor
      <3>2. KeyFor(try) \leq limit.keys
        BY DEF Purchase
      <3> QED BY <1>1, <3>1, <3>2
    <2> QED BY <2>2, <2>3
  <1>3. keys' \in 0 .. limit.keys
    <2>1. PICK k : k = KeyFor(try)
      OBVIOUS
    <2>2. keys' = IF k > keys THEN keys + 1 ELSE keys
      BY <2>1 DEF Purchase
    <2>3. k \in 1 .. limit.keys
      BY <1>2, <2>1
    <2> QED BY <1>1, <2>2, <2>3
  <1>4. turn'[kind] \in Nat
    <2>1. turn \in [Kinds -> Nat]
      BY DEF KInv, Counters
    <2> QED BY <2>1 DEF Purchase
  <1>5. charge' \in Charge
    <2>1. charge' = [kind |-> kind, key |-> KeyFor(try), form |-> form,
                     turn |-> turn'[kind], answer |-> None]
      BY DEF Purchase
    <2>2. PICK answers : answers = (1 .. limit.keys) \cup {0, None}
      OBVIOUS
    <2>3. None \in answers
      BY <2>2
    <2>4. PICK numbers : numbers = 1 .. limit.keys
      OBVIOUS
    <2>5. Charge = [kind : Kinds, key : numbers, form : Form, turn : Nat, answer : answers]
      BY <2>2, <2>4 DEF Charge
    <2>6. KeyFor(try) \in numbers
      BY <1>2, <2>4
    <2> QED BY <1>1, <1>4, <2>1, <2>3, <2>5, <2>6
  <1>6. pressed' \in [Kinds -> Form \cup {None}]
    BY <1>1 DEF BuyingTyped, Purchase
  <1>7. [key |-> KeyFor(try), form |-> form] \in Try
    BY <1>1, <1>2 DEF Try
  <1> QED BY <1>3, <1>5, <1>6, <1>7

LEMMA PayWithCoinTyped ==
  ASSUME KInv, PInv, SelectionTyped, BuyingTyped, limit' = limit, HandlePayWithCoin
  PROVE  BuyingTyped'
  <1>1. /\ Purchase("coin", coinTry) /\ UNCHANGED <<method, late, orders, qrTry, autoSig, shown>>
        /\ coinTry' = [key |-> KeyFor(coinTry), form |-> form]
    BY DEF HandlePayWithCoin, shop
  <1>2. LastTry("coin") = coinTry
    BY DEF LastTry
  <1>3. PICK kind \in Kinds : kind = "coin"
    BY DEF Kinds
  <1>4. coinTry = LastTry(kind) /\ Purchase(kind, coinTry)
    BY <1>1, <1>2, <1>3
  <1>5. /\ charge' \in Charge /\ keys' \in 0 .. limit.keys
        /\ pressed' \in [Kinds -> Form \cup {None}] /\ coinTry' \in Try
    BY <1>1, <1>4, PurchaseTyped
  <1> QED BY <1>1, <1>5, BuyingKept

LEMMA CreateQrTyped ==
  ASSUME KInv, PInv, SelectionTyped, BuyingTyped, limit' = limit, HandleCreateQrPayment,
         autoSig' \in {autoSig, form}
  PROVE  BuyingTyped'
  <1>1. /\ Purchase("qr", qrTry) /\ UNCHANGED <<method, late, orders, coinTry, shown>>
        /\ qrTry' = [key |-> KeyFor(qrTry), form |-> form]
    BY DEF HandleCreateQrPayment, shop
  <1>2. LastTry("qr") = qrTry
    BY DEF LastTry
  <1>3. PICK kind \in Kinds : kind = "qr"
    BY DEF Kinds
  <1>4. qrTry = LastTry(kind) /\ Purchase(kind, qrTry)
    BY <1>1, <1>2, <1>3
  <1>5. /\ charge' \in Charge /\ keys' \in 0 .. limit.keys
        /\ pressed' \in [Kinds -> Form \cup {None}] /\ qrTry' \in Try
    BY <1>1, <1>4, PurchaseTyped
  <1>6. autoSig' \in Form \cup {None, autoSig}
    BY DEF SelectionTyped
  <1> QED BY <1>1, <1>5, <1>6, BuyingKept

(* What the shop makes of a purchase. *)
LEMMA OrdersExecuted ==
  ASSUME NEW c \in Charge, CallExecuted(c), BuyingTyped, PanelTyped
  PROVE  orders' \in Seq(Order)
  <1>1. PICK new : new = [kind |-> c.kind, key |-> c.key, form |-> c.form, turn |-> c.turn]
    OBVIOUS
  <1>2. new \in Order
    BY <1>1 DEF Charge, Order
  <1>3. orders' = orders \/ orders' = Append(orders, new)
    BY <1>1 DEF CallExecuted
  <1>4. orders \in Seq(Order)
    BY DEF BuyingTyped
  <1>5. Append(orders, new) \in Seq(Order)
    BY <1>2, <1>4, AppendProperties
  <1> QED BY <1>3, <1>4, <1>5

LEMMA OrdersFitNext == (KInv /\ PInv /\ keys \in 0 .. limit.keys)' => OrdersBounded'
  BY OrdersFit, PTL

LEMMA OrdersFitAfter ==
  ASSUME KInv', PInv', BuyingTyped, limit' = limit, keys' = keys
  PROVE  OrdersBounded' /\ DOMAIN orders' \subseteq 1 .. limit.keys
  <1>1. (keys \in 0 .. limit.keys)'
    BY DEF BuyingTyped
  <1> QED BY <1>1, OrdersFitNext DEF OrdersBounded

LEMMA ShopSellsTyped ==
  ASSUME KInv, PInv, BuyingTyped, PanelTyped, KInv', PInv', limit' = limit, ShopSells
  PROVE  BuyingTyped'
  <1>1. /\ charge # None /\ CallExecuted(charge)
        /\ UNCHANGED <<method, late, coinTry, qrTry, autoSig, shown, keys, pressed>>
    BY DEF ShopSells, history
  <1>2. charge \in Charge
    BY <1>1 DEF BuyingTyped
  <1>3. orders' \in Seq(Order)
    BY <1>1, <1>2, OrdersExecuted
  <1>4. \E j \in DOMAIN orders' : orders'[j].key = charge.key
    <2>1. charge \in Tried
      BY <1>1 DEF Tried
    <2> QED BY <1>1, <2>1, ExecutedKnown
  <1>5. PICK i \in DOMAIN orders' : charge' = [charge EXCEPT !.answer = i]
    BY <1>4 DEF ShopSells
  <1>6. i \in 1 .. limit.keys
    BY <1>1, OrdersFitAfter
  <1>7. charge' \in Charge
    BY <1>2, <1>5, <1>6 DEF Charge
  <1> QED BY <1>1, <1>3, <1>7, BuyingKept

LEMMA ShopSellsLateTyped ==
  ASSUME BuyingTyped, PanelTyped, limit' = limit, NEW c \in late, ShopSellsLate(c)
  PROVE  BuyingTyped'
  <1>1. /\ CallExecuted(c) /\ late' \subseteq late
        /\ UNCHANGED <<method, charge, coinTry, qrTry, autoSig, shown, keys, pressed>>
    BY DEF ShopSellsLate, buying, history
  <1>2. c \in Charge
    BY DEF BuyingTyped
  <1>3. orders' \in Seq(Order)
    BY <1>1, <1>2, OrdersExecuted
  <1> QED BY <1>1, <1>3, BuyingKept

(* The order shown is one the shop has. *)
LEMMA OrderShown ==
  ASSUME KInv, PInv, BuyingTyped, limit' = limit, CoinPaid \/ QrCreated \/ StatusChanged
  PROVE  BuyingTyped'
  <1>1. DOMAIN orders \subseteq 0 .. limit.keys
    BY OrdersFit, LimitTyped DEF OrdersBounded, BuyingTyped, PInv
  <1>2. CASE CoinPaid
    <2>1. /\ charge.answer \in DOMAIN orders /\ shown' = charge.answer /\ charge' = None
          /\ UNCHANGED <<orders, keys, method, late, coinTry, qrTry, autoSig, pressed>>
      BY <1>2 DEF CoinPaid, PInv, AnswerKnown, shop, history
    <2> QED BY <1>1, <2>1, BuyingSame
  <1>3. CASE QrCreated
    <2>1. /\ charge.answer \in DOMAIN orders /\ shown' = charge.answer /\ charge' = None
          /\ UNCHANGED <<orders, keys, method, late, coinTry, qrTry, autoSig, pressed>>
      BY <1>3 DEF QrCreated, PInv, AnswerKnown, shop, history
    <2> QED BY <1>1, <2>1, BuyingSame
  <1>4. CASE StatusChanged
    <2>1. poll.pay \in DOMAIN pays
      BY <1>4 DEF StatusChanged, PInv, PollKnown
    <2>2. pays[poll.pay].order \in DOMAIN orders
      BY <2>1 DEF PInv, BillsKnown
    <2>3. /\ shown' \in {shown, pays[poll.pay].order}
          /\ UNCHANGED <<orders, keys, method, charge, late, coinTry, qrTry, autoSig, pressed>>
      BY <1>4 DEF StatusChanged, shop, history
    <2> QED BY <1>1, <2>2, <2>3, BuyingSame
  <1> QED BY <1>2, <1>3, <1>4

LEMMA PurchaseFailsTyped ==
  ASSUME BuyingTyped, limit' = limit, PurchaseFails
  PROVE  BuyingTyped'
  <1>1. /\ charge' = None /\ late' \subseteq late \cup {charge} /\ charge # None
        /\ UNCHANGED <<orders, keys, method, coinTry, qrTry, autoSig, shown, pressed>>
    BY DEF PurchaseFails, shop, history
  <1>2. charge \in Charge
    BY <1>1 DEF BuyingTyped
  <1> QED BY <1>1, <1>2, BuyingSame

LEMMA ForgetTyped ==
  ASSUME BuyingTyped, limit' = limit, Forget,
         autoSig' \in {None, autoSig}, shown' \in {0, shown},
         UNCHANGED <<orders, keys, method, charge, late>>, PInv
  PROVE  BuyingTyped'
  <1>1. qrTry' = None /\ coinTry' = None /\ pressed' = [k \in Kinds |-> None]
    BY DEF Forget
  <1>2. pressed' \in [Kinds -> Form \cup {None}]
    BY <1>1
  <1>3. 0 \in 0 .. limit.keys
    BY LimitTyped DEF PInv
  <1> QED BY <1>1, <1>2, <1>3, BuyingSame

LEMMA GoOnBuying ==
  ASSUME BuyingTyped, NEW other, NEW previous, GoOn(other, previous)
  PROVE  method' \in Kinds
  BY DEF GoOn, BuyingTyped, Kinds

LEMMA BuyingByCustomer ==
  ASSUME KInv, PInv, SelectionTyped, BuyingTyped, limit' = limit, CustomerActs
  PROVE  BuyingTyped'
  <1> USE DEF selection, buying, shop, history
  <1>1. ASSUME NEW p \in Plans, OpenPlanDetails(p) \/ HandleSelectPlan(p)
        PROVE  BuyingTyped'
    BY <1>1, ForgetTyped, BuyingSame DEF OpenPlanDetails, HandleSelectPlan
  <1>2. ASSUME NEW pf \in {"ios", "android"}, HandleSelectPlatform(pf)
        PROVE  BuyingTyped'
    BY <1>2, ForgetTyped DEF HandleSelectPlatform
  <1>3. CASE HandleReset
    BY <1>3, ForgetTyped DEF HandleReset
  <1>4. CASE CloseModal \/ GoBack \/ CloseGoldPopup \/ HandleVerifyUsername
             \/ ContinueToPayment \/ TypeContact \/ HandleContinueContact
    BY <1>4, BuyingSame DEF CloseModal, GoBack, CloseGoldPopup, HandleVerifyUsername,
          ContinueToPayment, TypeContact, HandleContinueContact
  <1>5. ASSUME NEW n \in Names \cup {None}, TypeName(n)
        PROVE  BuyingTyped'
    BY <1>5, BuyingSame DEF TypeName
  <1>6. ASSUME NEW c \in limit.coupons, HandleApplyCoupon(c)
        PROVE  BuyingTyped'
    BY <1>6, BuyingSame DEF HandleApplyCoupon
  <1>7. ASSUME NEW other, CloseActiveQrOrder(other)
        PROVE  BuyingTyped'
    <2>1. method' \in Kinds \cup {method}
      BY <1>7, GoOnBuying DEF CloseActiveQrOrder
    <2> QED BY <1>7, <2>1, BuyingSame DEF CloseActiveQrOrder
  <1>8. CASE ChooseQr \/ HandleRenewQrOrder
    BY <1>8, BuyingSame DEF ChooseQr, HandleRenewQrOrder, Kinds
  <1>9. CASE HandlePayWithCoin \/ RetryCreateQr
    BY <1>9, PayWithCoinTyped, CreateQrTyped DEF RetryCreateQr
  <1> QED BY <1>1, <1>2, <1>3, <1>4, <1>5, <1>6, <1>7, <1>8, <1>9
          DEF CustomerActs, HandleRemoveCoupon, ChooseCoin, LeavePayment

LEMMA BuyingTypedNext ==
  KInv /\ PInv /\ KInv' /\ PInv' /\ CheckoutTyped /\ [Next]_vars => BuyingTyped'
  <1> SUFFICES ASSUME KInv, PInv, KInv', PInv', CheckoutTyped, [Next]_vars
               PROVE  BuyingTyped'
    OBVIOUS
  <1> USE DEF selection, buying, shop, history
  <1>1. limit' = limit /\ SelectionTyped /\ BuyingTyped /\ PanelTyped
    BY LimitStays DEF vars, CheckoutTyped
  <1>2. CASE UNCHANGED vars
    BY <1>1, <1>2, BuyingSame DEF vars
  <1>3. CASE AutoCreateQr
    <2>1. CASE HandleCreateQrPayment
      BY <1>1, <1>3, <2>1, CreateQrTyped DEF AutoCreateQr
    <2>2. CASE UNCHANGED <<selection, method, charge, coinTry, qrTry, task, shown, panel, shop,
                           late, history>>
      <3>1. autoSig' \in Form
        BY <1>1, <1>3 DEF AutoCreateQr, SelectionTyped
      <3> QED BY <1>1, <2>2, <3>1, BuyingKept
    <2> QED BY <1>3, <2>1, <2>2 DEF AutoCreateQr
  <1>4. CASE CheckStatus
    BY <1>1, <1>4, BuyingSame DEF CheckStatus
  <1>5. CASE CustomerActs
    BY <1>1, <1>5, BuyingByCustomer
  <1>6. CASE AnswerArrives
    <2>1. ASSUME NEW l \in lookups,
                 LunakeyFound(l) \/ LookupFails(l) \/ ProfileFound(l) \/ GoldChecked(l)
          PROVE  BuyingTyped'
      BY <1>1, <2>1, BuyingSame
      DEF LunakeyFound, LookupFails, ProfileFound, GoldChecked, Concluded
    <2>2. CASE CouponValidated
      <3>1. method' \in Kinds \cup {method}
        BY <1>1, <2>2, GoOnBuying DEF CouponValidated
      <3> QED BY <1>1, <2>2, <3>1, BuyingSame DEF CouponValidated
    <2>3. CASE QrOrderClosed
      <3>1. method' \in Kinds
        BY <1>1, <2>3, GoOnBuying DEF QrOrderClosed
      <3>2. pressed' \in [Kinds -> Form \cup {None}]
        BY <1>1, <2>3 DEF QrOrderClosed, BuyingTyped
      <3> QED BY <1>1, <2>3, <3>1, <3>2, BuyingSame DEF QrOrderClosed
    <2>4. CASE QrOrderNotClosed \/ QrRenewed \/ RenewFails \/ PollFails
      BY <1>1, <2>4, BuyingSame DEF QrOrderNotClosed, QrRenewed, RenewFails, PollFails
    <2> QED BY <1>1, <1>6, <2>1, <2>2, <2>3, <2>4, OrderShown, PurchaseFailsTyped
            DEF AnswerArrives
  <1>7. CASE ShopActs
    <2>1. CASE \/ CancelPayment \/ RenewPayment \/ FetchPaymentStatus
               \/ \E p \in 1 .. limit.pays : TimePasses(p) \/ Transfer(p)
      BY <1>1, <2>1, BuyingSame DEF CancelPayment, RenewPayment, FetchPaymentStatus,
         TimePasses, Transfer
    <2> QED BY <1>1, <1>7, <2>1, ShopSellsTyped, ShopSellsLateTyped DEF ShopActs
  <1> QED BY <1>2, <1>3, <1>4, <1>5, <1>6, <1>7 DEF Next

LEMMA PayMarked ==
  ASSUME NEW s \in Seq(Payment), NEW p \in DOMAIN s
  PROVE  /\ \A bill \in Payment : /\ [s EXCEPT ![p] = bill] \in Seq(Payment)
                                  /\ Len([s EXCEPT ![p] = bill]) = Len(s)
         /\ \A status \in PaymentStatus : /\ [s EXCEPT ![p].status = status] \in Seq(Payment)
                                          /\ Len([s EXCEPT ![p].status = status]) = Len(s)
         /\ /\ [s EXCEPT ![p].over = TRUE] \in Seq(Payment)
            /\ Len([s EXCEPT ![p].over = TRUE]) = Len(s)
  <1>1. p \in 1 .. Len(s) /\ s[p] \in Payment
    BY LenProperties, ElementOfSeq
  <1>2. ASSUME NEW bill \in Payment
        PROVE  /\ [s EXCEPT ![p] = bill] \in Seq(Payment)
               /\ Len([s EXCEPT ![p] = bill]) = Len(s)
    BY <1>1, ExceptSeq
  <1>3. ASSUME NEW status \in PaymentStatus
        PROVE  /\ [s EXCEPT ![p].status = status] \in Seq(Payment)
               /\ Len([s EXCEPT ![p].status = status]) = Len(s)
    <2>1. PICK bill : bill = [s[p] EXCEPT !.status = status]
      OBVIOUS
    <2>2. bill \in Payment
      BY <1>1, <2>1 DEF Payment
    <2>3. [s EXCEPT ![p].status = status] = [s EXCEPT ![p] = bill]
      BY <2>1
    <2> QED BY <1>2, <2>2, <2>3
  <1>4. /\ [s EXCEPT ![p].over = TRUE] \in Seq(Payment)
        /\ Len([s EXCEPT ![p].over = TRUE]) = Len(s)
    <2>1. PICK bill : bill = [s[p] EXCEPT !.over = TRUE]
      OBVIOUS
    <2>2. bill \in Payment
      BY <1>1, <2>1 DEF Payment
    <2>3. [s EXCEPT ![p].over = TRUE] = [s EXCEPT ![p] = bill]
      BY <2>1
    <2> QED BY <1>2, <2>2, <2>3
  <1> QED BY <1>2, <1>3, <1>4

LEMMA PayAdded ==
  ASSUME limit \in Limits, NEW s \in Seq(Payment), NEW bill \in Payment, Len(s) < limit.pays
  PROVE  Append(s, bill) \in Seq(Payment) /\ Len(Append(s, bill)) \leq limit.pays
  <1>1. Append(s, bill) \in Seq(Payment) /\ Len(Append(s, bill)) = Len(s) + 1
    BY AppendProperties
  <1>2. Len(s) \in Nat /\ limit.pays \in Nat
    BY LenProperties, LimitTyped
  <1> QED BY <1>1, <1>2

LEMMA PaysDomain ==
  ASSUME PInv, PanelTyped
  PROVE  /\ DOMAIN pays \subseteq 1 .. limit.pays /\ DOMAIN pays \subseteq 0 .. limit.pays
         /\ 0 \in 0 .. limit.pays
  <1>1. DOMAIN pays = 1 .. Len(pays) /\ Len(pays) \in Nat /\ Len(pays) \leq limit.pays
    BY LenProperties DEF PanelTyped
  <1>2. limit.pays \in Nat
    BY LimitTyped DEF PInv
  <1> QED BY <1>1, <1>2

LEMMA PanelKept ==
  ASSUME PanelTyped, limit' = limit, watch' \in PaymentStatus \cup {watch},
         task' # None => task' = task \/ task'.pay \in 0 .. limit.pays,
         pays' = pays \/ (pays' \in Seq(Payment) /\ Len(pays') \leq limit.pays)
  PROVE  PanelTyped'
  <1>1. Payment' = Payment
    BY SameBounds
  <1> QED BY <1>1 DEF PanelTyped

LEMMA Watched ==
  ASSUME NEW q, ShowQr(q)
  PROVE  watch' \in PaymentStatus \cup {watch}
  BY DEF ShowQr, PaymentStatus

LEMMA CloseActivePanel ==
  ASSUME PInv, PanelTyped, limit' = limit, NEW other, CloseActiveQrOrder(other)
  PROVE  PanelTyped'
  <1>1. UNCHANGED <<watch, pays>>
    BY DEF CloseActiveQrOrder, panel, shop
  <1>2. CASE qr = None
    <2>1. task' = None
      BY <1>2 DEF CloseActiveQrOrder, GoOn
    <2> QED BY <1>1, <2>1, PanelKept
  <1>3. CASE qr # None
    <2>1. qr.pay \in 0 .. limit.pays
      BY <1>3, PaysDomain DEF PInv, QrKnown
    <2>2. task'.pay = qr.pay
      BY <1>3 DEF CloseActiveQrOrder
    <2> QED BY <1>1, <2>1, <2>2, PanelKept
  <1> QED BY <1>2, <1>3

LEMMA ApplyCouponPanel ==
  ASSUME PInv, PanelTyped, limit' = limit, NEW c, HandleApplyCoupon(c)
  PROVE  PanelTyped'
  <1>1. UNCHANGED <<watch, pays>> /\ task'.pay = Code(qr)
    BY DEF HandleApplyCoupon, panel, shop
  <1>2. Code(qr) \in 0 .. limit.pays
    BY PaysDomain DEF Code, PInv, QrKnown
  <1> QED BY <1>1, <1>2, PanelKept

LEMMA PanelByCustomer ==
  ASSUME PInv, PanelTyped, limit' = limit, CustomerActs
  PROVE  PanelTyped'
  <1> USE DEF selection, buying, panel, shop, history
  <1>1. ASSUME NEW p \in Plans, OpenPlanDetails(p) \/ HandleSelectPlan(p)
        PROVE  PanelTyped'
    <2>1. watch' \in PaymentStatus \cup {watch}
      BY <1>1, Watched DEF OpenPlanDetails, HandleSelectPlan, Forget
    <2> QED BY <1>1, <2>1, PanelKept DEF OpenPlanDetails, HandleSelectPlan
  <1>2. ASSUME NEW pf \in {"ios", "android"}, HandleSelectPlatform(pf)
        PROVE  PanelTyped'
    <2>1. watch' \in PaymentStatus \cup {watch}
      BY <1>2, Watched DEF HandleSelectPlatform, Forget
    <2> QED BY <1>2, <2>1, PanelKept DEF HandleSelectPlatform
  <1>3. CASE HandleReset
    <2>1. watch' \in PaymentStatus \cup {watch}
      BY <1>3, Watched DEF HandleReset, Forget
    <2> QED BY <1>3, <2>1, PanelKept DEF HandleReset
  <1>4. CASE CloseModal \/ GoBack \/ CloseGoldPopup \/ HandleVerifyUsername
             \/ ContinueToPayment \/ TypeContact \/ HandleContinueContact \/ ChooseQr
             \/ HandleRenewQrOrder
    BY <1>4, PanelKept DEF CloseModal, GoBack, CloseGoldPopup, HandleVerifyUsername,
          ContinueToPayment, TypeContact, HandleContinueContact, ChooseQr, HandleRenewQrOrder
  <1>5. ASSUME NEW n \in Names \cup {None}, TypeName(n)
        PROVE  PanelTyped'
    BY <1>5, PanelKept DEF TypeName
  <1>6. CASE HandlePayWithCoin \/ RetryCreateQr
    BY <1>6, PanelKept DEF HandlePayWithCoin, RetryCreateQr, HandleCreateQrPayment
  <1> QED BY <1>1, <1>2, <1>3, <1>4, <1>5, <1>6, CloseActivePanel, ApplyCouponPanel
          DEF CustomerActs, HandleRemoveCoupon, ChooseCoin, LeavePayment

LEMMA ExecutedPanel ==
  ASSUME KInv', PInv', PInv, BuyingTyped, PanelTyped, limit' = limit, keys' = keys,
         NEW c \in Charge, CallExecuted(c), UNCHANGED <<watch, task>>
  PROVE  PanelTyped'
  <1>1. CASE pays' = pays
    BY <1>1, PanelKept
  <1>2. CASE pays' # pays
    <2>1. PICK bill : bill = [order |-> Len(orders'), status |-> "pending",
                              over |-> FALSE, from |-> 0]
      OBVIOUS
    <2>2. pays' = Append(pays, bill) /\ Len(pays) < limit.pays
      BY <1>2, <2>1 DEF CallExecuted
    <2>3. PICK n : n = Len(orders')
      OBVIOUS
    <2>4. n \in 1 .. limit.keys
      <3>1. n \in Nat /\ n \leq limit.keys
        BY <2>3, OrdersFitAfter DEF OrdersBounded
      <3>2. n > 0
        <4>1. orders' # orders
          BY <1>2 DEF CallExecuted
        <4>2. orders \in Seq(Order)
          BY DEF BuyingTyped
        <4>3. PICK new : new = [kind |-> c.kind, key |-> c.key, form |-> c.form,
                                turn |-> c.turn]
          OBVIOUS
        <4>4. orders' = Append(orders, new) /\ new \in Order
          BY <4>1, <4>3 DEF CallExecuted, Charge, Order
        <4>5. n = Len(orders) + 1 /\ Len(orders) \in Nat
          BY <2>3, <4>2, <4>4, AppendProperties, LenProperties
        <4> QED BY <4>5
      <3>3. limit.keys \in Nat
        BY LimitTyped DEF PInv
      <3> QED BY <3>1, <3>2, <3>3
    <2>5. PICK zero \in 0 .. limit.pays : zero = 0
      BY PaysDomain
    <2>6. bill \in Payment
      BY <2>1, <2>3, <2>4, <2>5 DEF Payment, PaymentStatus
    <2>7. pays' \in Seq(Payment) /\ Len(pays') \leq limit.pays
      BY <2>2, <2>6, PayAdded DEF PanelTyped, PInv
    <2> QED BY <2>7, PanelKept
  <1> QED BY <1>1, <1>2

LEMMA RenewPaymentPanel ==
  ASSUME PInv, PanelTyped, limit' = limit, RenewPayment
  PROVE  PanelTyped'
  <1>1. UNCHANGED <<watch, task>>
    BY DEF RenewPayment, buying
  <1>2. CASE pays' = pays
    BY <1>1, <1>2, PanelKept
  <1>3. CASE pays' # pays
    <2>1. PICK p : p = renewing.pay
      OBVIOUS
    <2>2. p \in DOMAIN pays /\ p \in 1 .. limit.pays
      BY <2>1, PaysDomain DEF RenewPayment, PInv, RenewalKnown
    <2>3. PICK s : s = IF pays[p].status = "pending"
                       THEN [pays EXCEPT ![p].status = "expired"] ELSE pays
      OBVIOUS
    <2>4. PICK bill : bill = [order |-> pays[p].order, status |-> "pending",
                              over |-> FALSE, from |-> p]
      OBVIOUS
    <2>5. pays' = Append(s, bill) /\ Len(pays) < limit.pays
      BY <1>3, <2>1, <2>3, <2>4 DEF RenewPayment
    <2>6. s \in Seq(Payment) /\ Len(s) = Len(pays)
      <3>1. PICK status \in PaymentStatus : status = "expired"
        BY DEF PaymentStatus
      <3>2. /\ [pays EXCEPT ![p].status = status] \in Seq(Payment)
            /\ Len([pays EXCEPT ![p].status = status]) = Len(pays)
        BY <2>2, PayMarked DEF PanelTyped
      <3> QED BY <2>3, <3>1, <3>2 DEF PanelTyped
    <2>7. bill \in Payment
      <3>1. pays[p] \in Payment
        BY <2>2, LenProperties, ElementOfSeq DEF PanelTyped
      <3>2. PICK q \in 0 .. limit.pays : q = p
        BY <2>2, PaysDomain
      <3> QED BY <2>4, <3>1, <3>2 DEF Payment, PaymentStatus
    <2>8. pays' \in Seq(Payment) /\ Len(pays') \leq limit.pays
      BY <2>5, <2>6, <2>7, PayAdded DEF PInv
    <2> QED BY <1>1, <2>8, PanelKept
  <1> QED BY <1>2, <1>3

(* One payment changes its status, or its time is over. *)
LEMMA PayChanged ==
  ASSUME PInv, PanelTyped, limit' = limit, NEW p \in DOMAIN pays, UNCHANGED watch,
         task' # None => task' = task \/ task'.pay \in 0 .. limit.pays,
         \/ \E s \in PaymentStatus : pays' = [pays EXCEPT ![p].status = s]
         \/ pays' = [pays EXCEPT ![p].over = TRUE]
         \/ pays' = pays
  PROVE  PanelTyped'
  <1>1. pays \in Seq(Payment) /\ Len(pays) \leq limit.pays
    BY DEF PanelTyped
  <1>2. /\ \A s \in PaymentStatus : /\ [pays EXCEPT ![p].status = s] \in Seq(Payment)
                                    /\ Len([pays EXCEPT ![p].status = s]) = Len(pays)
        /\ [pays EXCEPT ![p].over = TRUE] \in Seq(Payment)
        /\ Len([pays EXCEPT ![p].over = TRUE]) = Len(pays)
    BY <1>1, PayMarked
  <1>3. CASE \E s \in PaymentStatus : pays' = [pays EXCEPT ![p].status = s]
    <2>1. PICK s \in PaymentStatus : pays' = [pays EXCEPT ![p].status = s]
      BY <1>3
    <2>2. pays' \in Seq(Payment) /\ Len(pays') = Len(pays)
      BY <1>2, <2>1
    <2> QED BY <1>1, <2>2, PanelKept
  <1>4. CASE pays' = [pays EXCEPT ![p].over = TRUE]
    <2>1. pays' \in Seq(Payment) /\ Len(pays') = Len(pays)
      BY <1>2, <1>4
    <2> QED BY <1>1, <2>1, PanelKept
  <1>5. CASE pays' = pays
    BY <1>5, PanelKept
  <1> QED BY <1>3, <1>4, <1>5

LEMMA CancelPaymentPanel ==
  ASSUME PInv, PanelTyped, limit' = limit, CancelPayment
  PROVE  PanelTyped'
  <1>1. /\ task # None /\ task.answer = None /\ watch' = watch
        /\ \E a : task' = [task EXCEPT !.answer = a]
        /\ pays' = pays \/ pays' = [pays EXCEPT ![task.pay].status = "cancelled"]
    BY DEF CancelPayment, panel
  <1>2. task'.pay = task.pay /\ task.pay \in 0 .. limit.pays
    BY <1>1 DEF PInv, ReturnsEarly, PanelTyped
  <1>3. CASE pays' = pays
    BY <1>1, <1>2, <1>3, PanelKept
  <1>4. CASE pays' # pays
    <2>1. task.pay \in DOMAIN pays
      <3>1. pays \in Seq(Payment)
        BY DEF PanelTyped
      <3>2. PICK p : p = task.pay
        OBVIOUS
      <3>3. pays' = [pays EXCEPT ![p].status = "cancelled"] /\ pays' # pays
        BY <1>1, <1>4, <3>2
      <3>4. p \in DOMAIN pays
        BY <3>1, <3>3
      <3> QED BY <3>2, <3>4
    <2>2. "cancelled" \in PaymentStatus
      BY DEF PaymentStatus
    <2> QED BY <1>1, <1>2, <1>4, <2>1, <2>2, PayChanged
  <1> QED BY <1>3, <1>4

LEMMA PanelTypedNext ==
  KInv /\ PInv /\ KInv' /\ PInv' /\ CheckoutTyped /\ [Next]_vars => PanelTyped'
  <1> SUFFICES ASSUME KInv, PInv, KInv', PInv', CheckoutTyped, [Next]_vars
               PROVE  PanelTyped'
    OBVIOUS
  <1> USE DEF selection, buying, panel, shop, history
  <1>1. limit' = limit /\ BuyingTyped /\ PanelTyped
    BY LimitStays DEF vars, CheckoutTyped
  <1>2. CASE UNCHANGED vars
    BY <1>1, <1>2, PanelKept DEF vars
  <1>3. CASE AutoCreateQr \/ CheckStatus
    BY <1>1, <1>3, PanelKept DEF AutoCreateQr, HandleCreateQrPayment, CheckStatus
  <1>4. CASE CustomerActs
    BY <1>1, <1>4, PanelByCustomer
  <1>5. CASE AnswerArrives
    <2>1. ASSUME NEW l \in lookups,
                 LunakeyFound(l) \/ LookupFails(l) \/ ProfileFound(l) \/ GoldChecked(l)
          PROVE  PanelTyped'
      BY <1>1, <2>1, PanelKept
      DEF LunakeyFound, LookupFails, ProfileFound, GoldChecked, Concluded
    <2>2. CASE CouponValidated
      <3>1. task' # None => task'.pay = task.pay /\ task # None
        BY <2>2 DEF CouponValidated, GoOn, PInv, ReturnsEarly
      <3>2. task' # None => task'.pay \in 0 .. limit.pays
        BY <1>1, <3>1 DEF PanelTyped
      <3> QED BY <1>1, <2>2, <3>2, PanelKept DEF CouponValidated
    <2>3. CASE QrOrderClosed
      <3>1. watch' \in PaymentStatus \cup {watch} /\ task' = None
        BY <2>3, Watched DEF QrOrderClosed, GoOn
      <3> QED BY <1>1, <2>3, <3>1, PanelKept DEF QrOrderClosed
    <2>4. CASE QrCreated \/ QrRenewed
      <3>1. watch' \in PaymentStatus \cup {watch}
        BY <2>4, Watched DEF QrCreated, QrRenewed
      <3> QED BY <1>1, <2>4, <3>1, PanelKept DEF QrCreated, QrRenewed
    <2>5. CASE StatusChanged
      <3>1. watch' \in PaymentStatus
        BY <2>5 DEF StatusChanged, PInv, PollKnown
      <3> QED BY <1>1, <2>5, <3>1, PanelKept DEF StatusChanged
    <2>6. CASE QrOrderNotClosed \/ PurchaseFails \/ CoinPaid \/ RenewFails \/ PollFails
      BY <1>1, <2>6, PanelKept
      DEF QrOrderNotClosed, PurchaseFails, CoinPaid, RenewFails, PollFails
    <2> QED BY <1>5, <2>1, <2>2, <2>3, <2>4, <2>5, <2>6 DEF AnswerArrives
  <1>6. CASE ShopActs
    <2>1. CASE ShopSells
      <3>1. charge \in Charge /\ CallExecuted(charge) /\ UNCHANGED <<watch, task, keys>>
        BY <1>1, <2>1 DEF ShopSells, BuyingTyped
      <3> QED BY <1>1, <3>1, ExecutedPanel
    <2>2. ASSUME NEW c \in late, ShopSellsLate(c)
          PROVE  PanelTyped'
      <3>1. c \in Charge /\ CallExecuted(c) /\ UNCHANGED <<watch, task, keys>>
        BY <1>1, <2>2 DEF ShopSellsLate, BuyingTyped
      <3> QED BY <1>1, <3>1, ExecutedPanel
    <2>3. CASE FetchPaymentStatus
      <3>1. poll.pay \in DOMAIN pays /\ "expired" \in PaymentStatus
        BY <2>3 DEF FetchPaymentStatus, PInv, PollKnown, PaymentStatus
      <3>2. UNCHANGED <<watch, task>>
        BY <2>3 DEF FetchPaymentStatus
      <3>3. \/ pays' = [pays EXCEPT ![poll.pay].status = "expired"]
            \/ pays' = pays
        BY <2>3 DEF FetchPaymentStatus
      <3> QED BY <1>1, <3>1, <3>2, <3>3, PayChanged
    <2>4. ASSUME NEW p \in 1 .. limit.pays, TimePasses(p) \/ Transfer(p)
          PROVE  PanelTyped'
      <3>1. /\ p \in DOMAIN pays /\ UNCHANGED <<watch, task>>
            /\ \/ \E s \in PaymentStatus : pays' = [pays EXCEPT ![p].status = s]
               \/ pays' = [pays EXCEPT ![p].over = TRUE]
        BY <2>4, CheckoutAssumption DEF TimePasses, Transfer, PaymentStatus
      <3> QED BY <1>1, <3>1, PayChanged
    <2> QED BY <1>1, <1>6, <2>1, <2>2, <2>3, <2>4, CancelPaymentPanel, RenewPaymentPanel
            DEF ShopActs
  <1> QED BY <1>2, <1>3, <1>4, <1>5, <1>6 DEF Next

-----------------------------------------------------------------------------
LEMMA InitCheckoutTyped == Init => CheckoutTyped
  <1> SUFFICES ASSUME Init
               PROVE  CheckoutTyped
    OBVIOUS
  <1>1. limit.keys \in Nat /\ limit.tokens \in Nat /\ limit.pays \in Nat /\ limit \in Limits
    BY LimitTyped DEF Init
  <1>2. Blank \in Form
    BY <1>1 DEF Blank, Form
  <1>3. SelectionTyped
    <2>1. minted = <<>> /\ minted \in Seq(Issued) /\ Len(minted) = 0
      BY DEF Init
    <2>2. lookups \subseteq Asked
      BY DEF Init
    <2>3. Len(minted) \leq limit.tokens
      BY <1>1, <2>1
    <2>4. /\ step \in Steps /\ form \in Form /\ info \in Names \cup {None}
          /\ looking \in Plans \cup {None} /\ popup \in BOOLEAN
      BY <1>2 DEF Init, Steps
    <2> QED BY <2>1, <2>2, <2>3, <2>4 DEF SelectionTyped
  <1>4. BuyingTyped
    <2>1. orders \in Seq(Order)
      BY DEF Init
    <2>2. 0 \in 0 .. limit.keys
      BY <1>1
    <2>3. pressed \in [Kinds -> Form \cup {None}]
      BY DEF Init
    <2> QED BY <2>1, <2>2, <2>3 DEF Init, BuyingTyped, Kinds
  <1>5. PanelTyped
    <2>1. pays = <<>> /\ pays \in Seq(Payment) /\ Len(pays) = 0
      BY DEF Init
    <2> QED BY <1>1, <2>1 DEF Init, PanelTyped, PaymentStatus
  <1> QED BY <1>3, <1>4, <1>5 DEF CheckoutTyped

LEMMA TypesFollow == KInv /\ PInv /\ CheckoutTyped => TypeOK
  <1> SUFFICES ASSUME KInv, PInv, CheckoutTyped
               PROVE  TypeOK
    OBVIOUS
  <1>1. SelectionTyped /\ BuyingTyped /\ PanelTyped
    BY DEF CheckoutTyped
  <1>2. Len(orders) \leq limit.keys
    BY <1>1, OrdersFit DEF OrdersBounded, BuyingTyped
  <1>3. DOMAIN pays \subseteq 1 .. limit.pays /\ DOMAIN pays \subseteq 0 .. limit.pays
        /\ 0 \in 0 .. limit.pays
    BY <1>1, PaysDomain
  <1>4. task \in [then : Coupons \cup {None, "coin", "back"}, pay : 0 .. limit.pays,
                  previous : Steps, answer : {"validate", "ok", "failed", None}] \cup {None}
    BY <1>1, StepsEarly DEF PInv, ReturnsEarly, PanelTyped
  <1>5. qr \in [pay : 1 .. limit.pays, status : PaymentStatus] \cup {None}
    BY <1>3 DEF PInv, QrKnown
  <1>6. poll \in [pay : 1 .. limit.pays, answer : PaymentStatus \cup {None}] \cup {None}
    BY <1>3 DEF PInv, PollKnown
  <1>7. renewing \in [pay : 1 .. limit.pays, answer : 0 .. limit.pays] \cup {None}
    BY <1>3 DEF PInv, RenewalKnown
  <1>8. turn \in [Kinds -> Nat]
    BY DEF KInv, Counters
  <1> QED BY <1>1, <1>2, <1>4, <1>5, <1>6, <1>7, <1>8
          DEF TypeOK, SelectionTyped, BuyingTyped, PanelTyped, Asked, Issued

LEMMA CheckoutTypedNext ==
  LInv /\ KInv /\ PInv /\ CheckoutTyped /\ [Next]_vars => CheckoutTyped'
  <1> SUFFICES ASSUME LInv, KInv, PInv, CheckoutTyped, [Next]_vars
               PROVE  CheckoutTyped'
    OBVIOUS
  <1>1. KInv' /\ PInv'
    BY NextKInv, NextPInv
  <1>2. SelectionTyped'
    BY SelectionTypedNext DEF CheckoutTyped
  <1>3. BuyingTyped' /\ PanelTyped'
    BY <1>1, BuyingTypedNext, PanelTypedNext
  <1> QED BY <1>2, <1>3 DEF CheckoutTyped

(* Every variable of the checkout keeps its type and its bound (TypeOK of      *)
(* Checkout).  In particular a token is one that was issued for a plan and a   *)
(* name, a lookup under way asks for a plan and a name, a purchase carries the *)
(* number of an order the shop has, and there are no more orders than          *)
(* idempotency keys, however many answers are lost or late.                    *)
THEOREM CheckoutTypesHold == Spec => []TypeOK
  <1>1. Init => LInv /\ KInv /\ PInv /\ CheckoutTyped
    BY InitLInv, InitKInv, InitPInv, InitCheckoutTyped
  <1> QED BY <1>1, NextLInv, NextKInv, NextPInv, CheckoutTypedNext, TypesFollow, PTL DEF Spec
=============================================================================
