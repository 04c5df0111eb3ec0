------------------------------ MODULE Checkout ------------------------------
(***************************************************************************)
(* The purchase of a plan in the customer's browser: the steps of          *)
(* ActivationWizard.tsx up to the order, the plan catalogue it shows, the  *)
(* QR panel with its countdown, and the poll of the payment's status.      *)
(*                                                                         *)
(* A handler that awaits the shop is split at every await: it is sent, the *)
(* shop executes it, its answer arrives.  In between the page goes on; an  *)
(* answer finds the state as it is then, and what the handler had read     *)
(* before as it was.  A request the page gave up on (20 s) may still be    *)
(* executed.  Effects run before the next event of the page.               *)
(*                                                                         *)
(* The shop's side is what Payments models in detail; here it is an order, *)
(* the payments made for it, and their status.                             *)
(***************************************************************************)
EXTENDS Naturals, FiniteSets, Sequences

CONSTANTS
  Plans,      \* the plans on sale
  Catalog,    \* what a plan says of itself, see CatalogType
  Names,      \* Locket user names the customer may type
  Coupons,    \* codes the customer may type
  Limits,     \* the bounds of a behaviour, one of several, see LimitsType
  Outcomes,   \* what the bank and the administrator make of a pending payment
  None

PlanMode == {"auto_activation", "manual_contact", "apk_download", "disabled"}

CatalogType == [provider : {"lunakey", "legacy"},
                platforms : {"ios", "android", "all"},
                ios : PlanMode, android : PlanMode,
                renews : BOOLEAN]

(* What is in stock, which coupons are tried, and how many there may be of:
   idempotency keys made by the page, tokens of the provider lookup, payments
   of the shop (renewals included), and requests under way when the customer
   starts another. *)
LimitsType == [stock : SUBSET Plans, coupons : SUBSET Coupons,
               keys : Nat, tokens : Nat, pays : Nat, flight : Nat]

ASSUME CheckoutAssumption ==
  /\ Catalog \in [Plans -> CatalogType]
  /\ Limits \subseteq LimitsType
  /\ Outcomes \subseteq {"paid", "underpaid", "review_needed", "cancelled"}

(* What the customer enters, however many tokens there may be. *)
Entered == [plan : Plans \cup {None}, platform : {"ios", "android", None},
            name : Names \cup {None}, contact : BOOLEAN,
            coupon : Coupons \cup {None}, token : Nat]

(* NULL is neither a form nor an attempt to buy. *)
ASSUME NoneAssumption ==
  None \notin Entered \cup [key : Nat, form : Entered]

VARIABLES
  step,      \* currentStep
  form,      \* what the customer chose: the fields of the signature
  info,      \* userInfo: the name whose profile is shown, or None
  looking,   \* the plan whose details are open in the catalogue
  popup,     \* goldBlockMessage is shown
  lookups,   \* name lookups under way; a current one is the last started
  method,    \* paymentMethod
  charge,    \* the purchase under way (isProcessingPayment), or None
  coinTry,   \* coinAttemptRef
  qrTry,     \* qrAttemptRef
  autoSig,   \* lastAutoQrSignatureRef
  task,      \* the handler under way that closes the QR code, or None
  shown,     \* activationOrderId
  qr,        \* qrOrder: payment and status shown, or None
  watch,     \* the status the polling hook keeps for itself
  poll,      \* the status read under way (isFetchingRef), or None
  renewing,  \* the renewal under way (isRenewingQr), or None
  orders,    \* shop: orders, in the order of their creation
  pays,      \* shop: payments by transfer, renewals after what they renew
  late,      \* purchases the page gave up on that may still be executed
  minted,    \* shop: lookup tokens, each for a plan and a name
  keys,      \* idempotency keys made so far
  pressed,   \* history: the form of the last purchase of each kind
  turn,      \* history: how often that form changed
  limit      \* the bounds of this behaviour

selection == <<step, form, info, looking, popup, lookups>>
buying == <<method, charge, coinTry, qrTry, autoSig, task, shown>>
panel == <<qr, watch, poll, renewing>>
shop == <<orders, pays, minted>>
history == <<keys, pressed, turn, limit>>
vars == <<selection, buying, panel, shop, late, history>>

Steps == {"plan", "platform", "username", "contact", "payment", "completed"}
PaymentStatus == {"pending", "paid", "expired", "cancelled", "underpaid", "review_needed"}
Kinds == {"coin", "qr"}

Blank == [plan |-> None, platform |-> None, name |-> None, contact |-> FALSE,
          coupon |-> None, token |-> 0]
Form == [plan : Plans \cup {None}, platform : {"ios", "android", None},
         name : Names \cup {None}, contact : BOOLEAN,
         coupon : Coupons \cup {None}, token : 0 .. limit.tokens]
Try == [key : 1 .. limit.keys, form : Form]

(* The fields every type of the page's own calls needs: a purchase with its
   key, and the token binding of the lookup. *)
Charge == [kind : Kinds, key : 1 .. limit.keys, form : Form, turn : Nat,
           answer : (1 .. limit.keys) \cup {0, None}]
Order == [kind : Kinds, key : 1 .. limit.keys, form : Form, turn : Nat]
Payment == [order : 1 .. limit.keys, status : PaymentStatus,
            over : BOOLEAN, from : 0 .. limit.pays]

-----------------------------------------------------------------------------
(* Which step follows which *)

IsLunakeyPlan == form.plan # None /\ Catalog[form.plan].provider = "lunakey"

GetFulfillmentMode(plan, platform) ==
  IF Catalog[plan][platform] # "disabled" THEN Catalog[plan][platform]
  ELSE IF platform = "android" THEN "apk_download" ELSE "auto_activation"

StepAfterPlatform(plan, platform) ==
  LET mode == GetFulfillmentMode(plan, platform)
  IN  IF mode = "auto_activation" THEN "username"
      ELSE IF mode = "manual_contact" THEN "contact" ELSE "payment"

GetActiveSteps ==
  LET detail == IF form.plan = None THEN "username"
                ELSE IF form.platform = None THEN "payment"
                ELSE StepAfterPlatform(form.plan, form.platform)
  IN  <<"plan">>
      \o (IF form.plan = None \/ Catalog[form.plan].platforms = "all"
          THEN <<"platform">> ELSE <<>>)
      \o (IF detail = "payment" THEN <<>> ELSE <<detail>>)
      \o <<"payment", "completed">>

GetPreviousStep ==
  LET before == {i \in 2 .. Len(GetActiveSteps) : GetActiveSteps[i] = step}
  IN  IF before = {} THEN "plan"
      ELSE GetActiveSteps[(CHOOSE i \in before : TRUE) - 1]

-----------------------------------------------------------------------------
(* What each panel offers.  After a reset a late answer may still put the page
   on a step without a plan; then no panel is shown, only the header. *)

Verifying == \E l \in lookups : l.current

Chosen == form.plan # None /\ form.platform # None

CanProceedWithGold == IsLunakeyPlan => form.token # 0

StepperHeader == IF step \in {"plan", "completed"} THEN {} ELSE {"reset"}

GoldPopup == IF popup THEN {"close popup", "reset"} ELSE {}

PlanCatalogCards == IF looking = None THEN {"details"} ELSE {}

PlanDetailsModal ==
  IF looking = None THEN {}
  ELSE {"close details"} \cup IF looking \in limit.stock THEN {"select"} ELSE {}

PlatformPanel ==
  IF form.plan = None THEN {}
  ELSE {"back"} \cup {pf \in {"ios", "android"} : Catalog[form.plan].platforms \in {"all", pf}}

LookupForm ==
  IF Verifying THEN {} ELSE {"name"} \cup IF form.name = None THEN {} ELSE {"look up"}

(* The renewal button of the profile card leads where the button below does. *)
ProfileCard ==
  IF info # None /\ ~Verifying /\ CanProceedWithGold THEN {"continue"} ELSE {}

UsernamePanel == IF Chosen THEN {"back"} \cup LookupForm \cup ProfileCard ELSE {}

ContactPanel ==
  IF ~Chosen THEN {}
  ELSE {"back", "contact"} \cup IF form.contact THEN {"continue"} ELSE {}

CouponBox ==
  IF form.coupon # None THEN {"remove coupon"}
  ELSE IF task # None /\ task.then \in Coupons THEN {} ELSE {"apply coupon"}

MethodSelector == {"coin", "qr"}

(* With a balance that is too low the button leads to the top-up instead. *)
CoinPaymentView == IF method = "coin" /\ charge = None THEN {"pay"} ELSE {}

(* PaymentQrPanel: by its status, or by the countdown while it is pending *)
IsActuallyExpired ==
  /\ qr # None
  /\ \/ qr.status = "expired"
     \/ qr.status = "pending" /\ pays[qr.pay].over

(* Between a QR code being made and the code itself there is a retry. *)
QrPaymentView ==
  IF method # "qr" \/ (charge # None /\ qr = None) THEN {}
  ELSE IF qr = None THEN {"create"}
  ELSE IF renewing = None /\ (IsActuallyExpired \/ qr.status = "cancelled") THEN {"renew"}
  ELSE {}

PaymentPanel ==
  IF Chosen THEN {"back"} \cup CouponBox \cup MethodSelector \cup CoinPaymentView
                 \cup QrPaymentView
  ELSE {}

Offered ==
  IF popup THEN GoldPopup
  ELSE StepperHeader \cup
       CASE step = "plan"     -> PlanCatalogCards \cup PlanDetailsModal
         [] step = "platform" -> PlatformPanel
         [] step = "username" -> UsernamePanel
         [] step = "contact"  -> ContactPanel
         [] step = "payment"  -> PaymentPanel
         [] OTHER             -> {"reset"}

-----------------------------------------------------------------------------
Init ==
  /\ step = "plan" /\ form = Blank /\ info = None /\ looking = None
  /\ popup = FALSE /\ lookups = {}
  /\ method = "coin" /\ charge = None /\ coinTry = None /\ qrTry = None
  /\ autoSig = None /\ task = None /\ shown = 0
  /\ qr = None /\ watch = "pending" /\ poll = None /\ renewing = None
  /\ orders = <<>> /\ pays = <<>> /\ minted = <<>> /\ late = {}
  /\ limit \in Limits
  /\ keys = 0 /\ pressed = [k \in Kinds |-> None] /\ turn = [k \in Kinds |-> 0]

(* Mutant: a change of the selection leaves lookupSeqRef as it is. *)
OutrunNobody == lookups' = lookups

(* Every change of the selection outruns the lookups under way: their number
   is no longer lookupSeqRef. *)
Outrun == lookups' = {[l EXCEPT !.current = FALSE] : l \in lookups}

Quiet ==
  Cardinality(lookups) + Cardinality(late)
    + Cardinality({n \in 1 .. 4 : <<charge, task, poll, renewing>>[n] # None}) < limit.flight

(* The polling hook starts afresh when the code it is given changes. *)
Code(q) == IF q = None THEN 0 ELSE q.pay
ShowQr(q) ==
  /\ qr' = q
  /\ watch' = IF Code(q) # Code(qr) THEN "pending" ELSE watch

(* What handleSelectPlan, handleSelectPlatform and handleReset all forget *)
Forget ==
  /\ Outrun
  /\ info' = None
  /\ ShowQr(None)
  /\ qrTry' = None /\ coinTry' = None
  /\ pressed' = [k \in Kinds |-> None]

(* Only the details of a plan open from the catalogue offer to select it. *)
OpenPlanDetails(p) ==
  /\ "details" \in Offered
  /\ looking' = p
  /\ UNCHANGED <<step, form, info, popup, lookups, buying, panel, shop, late, history>>

CloseModal ==
  /\ "close details" \in Offered
  /\ looking' = None
  /\ UNCHANGED <<step, form, info, popup, lookups, buying, panel, shop, late, history>>

HandleSelectPlan(p) ==
  /\ looking = p /\ "select" \in Offered
  /\ Forget
  /\ LET only == IF Catalog[p].platforms = "all" THEN None ELSE Catalog[p].platforms
     IN  /\ form' = [Blank EXCEPT !.plan = p, !.platform = only]
         /\ step' = IF only = None THEN "platform" ELSE StepAfterPlatform(p, only)
  /\ looking' = None
  /\ autoSig' = None
  /\ UNCHANGED <<popup, method, charge, task, shown, poll, renewing, shop, late, keys, turn,
                 limit>>

HandleSelectPlatform(pf) ==
  /\ pf \in Offered
  /\ Forget
  /\ form' = [Blank EXCEPT !.plan = form.plan, !.platform = pf, !.coupon = form.coupon]
  /\ step' = StepAfterPlatform(form.plan, pf)
  /\ UNCHANGED <<looking, popup, method, charge, autoSig, task, shown, poll, renewing,
                 shop, late, keys, turn, limit>>

HandleReset ==
  /\ "reset" \in Offered
  /\ Forget
  /\ step' = "plan" /\ form' = Blank /\ popup' = FALSE /\ shown' = 0
  /\ UNCHANGED <<looking, method, charge, autoSig, task, poll, renewing, shop, late,
                 keys, turn, limit>>

GoBack ==
  /\ "back" \in Offered /\ step # "payment"
  /\ step' = GetPreviousStep
  /\ UNCHANGED <<form, info, looking, popup, lookups, buying, panel, shop, late, history>>

-----------------------------------------------------------------------------
(* Step 3: the account *)

TypeName(n) ==
  /\ "name" \in Offered /\ n # form.name
  /\ Outrun
  /\ form' = [form EXCEPT !.name = n, !.token = 0]
  /\ info' = None
  /\ UNCHANGED <<step, looking, popup, buying, panel, shop, late, history>>

HandleVerifyUsername ==
  /\ "look up" \in Offered /\ Quiet
  /\ lookups' = {[l EXCEPT !.current = FALSE] : l \in lookups}
                  \cup {[plan |-> form.plan, name |-> form.name,
                         stage |-> "profile", current |-> TRUE]}
  /\ UNCHANGED <<step, form, info, looking, popup, buying, panel, shop, late, history>>

(* What the handler does with the result of a lookup, unless it was outrun *)
Concluded(l, i, tok, blocked) ==
  /\ lookups' = lookups \ {l}
  /\ IF l.current
     THEN /\ info' = i
          /\ form' = [form EXCEPT !.token = tok]
          /\ popup' = (popup \/ blocked)
     ELSE UNCHANGED <<info, form, popup>>
  /\ UNCHANGED <<step, looking, buying, panel, late, history>>

(* A LunaKey plan: the shop issues a token for the plan and the name.  The
   page drops the token of an account with Gold if the plan cannot renew. *)
LunakeyFound(l) ==
  /\ l \in lookups /\ Catalog[l.plan].provider = "lunakey"
  /\ Len(minted) < limit.tokens
  /\ minted' = Append(minted, [plan |-> l.plan, name |-> l.name])
  /\ \E hasGold \in BOOLEAN :
       Concluded(l, l.name,
                 IF hasGold /\ ~Catalog[l.plan].renews THEN 0 ELSE Len(minted'), FALSE)
  /\ UNCHANGED <<orders, pays>>

LookupFails(l) ==
  /\ l \in lookups
  /\ Concluded(l, None, IF Catalog[l.plan].provider = "lunakey" THEN 0 ELSE form.token,
               FALSE)
  /\ UNCHANGED shop

(* Any other plan: the profile first, then the check for Gold, which is not
   asked for when the lookup was outrun; without an answer it allows. *)
ProfileFound(l) ==
  /\ l \in lookups /\ Catalog[l.plan].provider # "lunakey" /\ l.stage = "profile"
  /\ lookups' = (lookups \ {l})
                  \cup (IF l.current THEN {[l EXCEPT !.stage = "gold"]} ELSE {})
  /\ UNCHANGED <<step, form, info, looking, popup, buying, panel, shop, late, history>>

GoldChecked(l) ==
  /\ l \in lookups /\ l.stage = "gold"
  /\ \E blocked \in BOOLEAN :
       Concluded(l, IF blocked THEN None ELSE l.name, form.token, blocked)
  /\ UNCHANGED shop

CloseGoldPopup ==
  /\ "close popup" \in Offered
  /\ popup' = FALSE
  /\ UNCHANGED <<step, form, info, looking, lookups, buying, panel, shop, late, history>>

ContinueToPayment ==
  /\ step = "username" /\ "continue" \in Offered
  /\ step' = "payment"
  /\ UNCHANGED <<form, info, looking, popup, lookups, buying, panel, shop, late, history>>

TypeContact ==
  /\ "contact" \in Offered /\ ~form.contact
  /\ form' = [form EXCEPT !.contact = TRUE]
  /\ UNCHANGED <<step, info, looking, popup, lookups, buying, panel, shop, late, history>>

HandleContinueContact ==
  /\ step = "contact" /\ "continue" \in Offered
  /\ step' = "payment"
  /\ UNCHANGED <<form, info, looking, popup, lookups, buying, panel, shop, late, history>>

-----------------------------------------------------------------------------
(* Step 4: the coupon, the method, and the QR code that has to be closed
   before either changes *)

(* What the handler goes on to do: another coupon, or none, the coin, back *)
GoOn(then, previous) ==
  /\ method' = IF then = "coin" THEN "coin" ELSE method
  /\ step' = IF then = "back" THEN previous ELSE step
  /\ form' = IF then \in Coupons \cup {None} THEN [form EXCEPT !.coupon = then] ELSE form
  /\ task' = None

(* closeActiveQrOrder looks at the QR code of the moment the handler began;
   without one there is nothing to wait for. *)
CloseActiveQrOrder(then) ==
  /\ task = None /\ Quiet
  /\ IF qr = None
     THEN GoOn(then, GetPreviousStep)
     ELSE /\ task' = [then |-> then, pay |-> qr.pay, previous |-> GetPreviousStep,
                      answer |-> None]
          /\ UNCHANGED <<method, step, form>>
  /\ UNCHANGED <<info, looking, popup, lookups, charge, coinTry, qrTry, autoSig, shown,
                 panel, shop, late, history>>

HandleApplyCoupon(c) ==
  /\ "apply coupon" \in Offered /\ task = None /\ Quiet
  /\ task' = [then |-> c, pay |-> Code(qr), previous |-> step, answer |-> "validate"]
  /\ UNCHANGED <<selection, method, charge, coinTry, qrTry, autoSig, shown, panel, shop,
                 late, history>>

CouponValidated ==
  /\ task # None /\ task.answer = "validate"
  /\ \/ IF task.pay = 0 THEN GoOn(task.then, task.previous)
        ELSE task' = [task EXCEPT !.answer = None] /\ UNCHANGED <<method, step, form>>
     \/ /\ task' = None /\ form' = [form EXCEPT !.coupon = None]    \* not valid, or no answer
        /\ UNCHANGED <<method, step>>
  /\ UNCHANGED <<info, looking, popup, lookups, charge, coinTry, qrTry, autoSig, shown,
                 panel, shop, late, history>>

HandleRemoveCoupon == "remove coupon" \in Offered /\ CloseActiveQrOrder(None)

ChooseCoin == "coin" \in Offered /\ method = "qr" /\ CloseActiveQrOrder("coin")

ChooseQr ==
  /\ "qr" \in Offered /\ method = "coin"
  /\ method' = "qr"
  /\ UNCHANGED <<selection, charge, coinTry, qrTry, autoSig, task, shown, panel, shop,
                 late, history>>

LeavePayment == "back" \in Offered /\ step = "payment" /\ CloseActiveQrOrder("back")

(* The shop cancels what is pending; a payment it has closed before is fine. *)
CancelPayment ==
  /\ task # None /\ task.answer = None
  /\ LET p == task.pay
     IN  /\ task' = [task EXCEPT !.answer =
                       IF pays[p].status \in {"pending", "expired", "cancelled"}
                       THEN "ok" ELSE "failed"]
         /\ pays' = IF pays[p].status = "pending"
                    THEN [pays EXCEPT ![p].status = "cancelled"] ELSE pays
  /\ UNCHANGED <<selection, method, charge, coinTry, qrTry, autoSig, shown, panel,
                 orders, minted, late, history>>

(* After the await: the QR code is gone, and so is what identified its
   purchase; then the handler does what it was about to do. *)
QrOrderClosed ==
  /\ task # None /\ task.answer = "ok"
  /\ ShowQr(None) /\ qrTry' = None /\ autoSig' = None
  /\ pressed' = [pressed EXCEPT !["qr"] = None]
  /\ GoOn(task.then, task.previous)
  /\ UNCHANGED <<info, looking, popup, lookups, charge, coinTry, shown, poll, renewing,
                 shop, late, keys, turn, limit>>

QrOrderNotClosed ==
  /\ task # None /\ task.answer \in {"failed", None}   \* refused, or no answer
  /\ task' = None
  /\ UNCHANGED <<selection, method, charge, coinTry, qrTry, autoSig, shown, panel, shop,
                 late, history>>

-----------------------------------------------------------------------------
(* Step 4: the purchase *)

(* Mutant: every attempt mints a key. *)
KeyForEveryTry(try) == keys + 1

(* The key of an attempt is the one of the last attempt with the same form. *)
KeyFor(try) ==
  IF try # None /\ try.form = form THEN try.key ELSE keys + 1

Purchase(kind, try) ==
  /\ KeyFor(try) \leq limit.keys
  /\ keys' = IF KeyFor(try) > keys THEN keys + 1 ELSE keys
  /\ pressed' = [pressed EXCEPT ![kind] = form]
  /\ turn' = IF pressed[kind] = form THEN turn ELSE [turn EXCEPT ![kind] = @ + 1]
  /\ charge' = [kind |-> kind, key |-> KeyFor(try), form |-> form,
                turn |-> turn'[kind], answer |-> None]
  /\ UNCHANGED limit

HandlePayWithCoin ==
  /\ "pay" \in Offered /\ Quiet
  /\ Purchase("coin", coinTry)
  /\ coinTry' = [key |-> KeyFor(coinTry), form |-> form]
  /\ UNCHANGED <<selection, method, qrTry, autoSig, task, shown, panel, shop, late>>

HandleCreateQrPayment ==
  /\ Purchase("qr", qrTry)
  /\ qrTry' = [key |-> KeyFor(qrTry), form |-> form]
  /\ UNCHANGED <<selection, method, coinTry, task, shown, panel, shop, late>>

(* The page asks for a QR code by itself, once for each form. *)
AutoCreateDue ==
  /\ step = "payment" /\ method = "qr" /\ qr = None /\ charge = None
  /\ autoSig # form

AutoCreateQr ==
  /\ AutoCreateDue
  /\ autoSig' = form
  /\ IF Chosen THEN HandleCreateQrPayment
     ELSE UNCHANGED <<selection, method, charge, coinTry, qrTry, task, shown, panel, shop,
                      late, history>>

RetryCreateQr ==
  /\ "create" \in Offered /\ Quiet
  /\ HandleCreateQrPayment
  /\ UNCHANGED autoSig

(* The shop's side of a purchase: a key it knows is answered with the order
   it made for it, a new one with a new order; or it refuses. *)
CallExecuted(c) ==
  LET known == {i \in DOMAIN orders : orders[i].key = c.key}
  IN  \/ \E i \in known : orders' = orders /\ pays' = pays
      \/ /\ known = {}
         /\ orders' = Append(orders, [kind |-> c.kind, key |-> c.key, form |-> c.form,
                                      turn |-> c.turn])
         /\ IF c.kind = "coin" THEN pays' = pays
            ELSE /\ Len(pays) < limit.pays
                 /\ pays' = Append(pays, [order |-> Len(orders'), status |-> "pending",
                                          over |-> FALSE, from |-> 0])

ShopSells ==
  /\ charge # None /\ charge.answer = None
  /\ CallExecuted(charge)
  /\ charge' = [charge EXCEPT !.answer =
                  CHOOSE i \in DOMAIN orders' : orders'[i].key = charge.key]
  /\ UNCHANGED <<selection, method, coinTry, qrTry, autoSig, task, shown, panel, minted,
                 late, history>>

ShopSellsLate(c) ==
  /\ c \in late
  /\ late' = late \ {c}
  /\ CallExecuted(c)
  /\ UNCHANGED <<selection, buying, panel, minted, history>>

(* Refused, or no answer: then the purchase may have been made, or still be. *)
PurchaseFails ==
  /\ charge # None
  /\ charge' = None
  /\ late' \in {late} \cup (IF charge.answer = None /\ late = {} THEN {{charge}} ELSE {})
  /\ UNCHANGED <<selection, method, coinTry, qrTry, autoSig, task, shown, panel, shop,
                 history>>

CoinPaid ==
  /\ charge # None /\ charge.kind = "coin" /\ charge.answer # None
  /\ charge' = None
  /\ shown' = charge.answer
  /\ step' = "completed"
  /\ UNCHANGED <<form, info, looking, popup, lookups, method, coinTry, qrTry, autoSig,
                 task, panel, shop, late, history>>

(* The QR code of an order is its first payment; an answer to a repeated key
   carries the payment's status of that moment. *)
QrCreated ==
  /\ charge # None /\ charge.kind = "qr" /\ charge.answer # None
  /\ charge' = None
  /\ shown' = charge.answer
  /\ \E p \in DOMAIN pays :
       /\ pays[p].order = charge.answer /\ pays[p].from = 0
       /\ ShowQr([pay |-> p, status |-> pays[p].status])
  /\ UNCHANGED <<selection, method, coinTry, qrTry, autoSig, task, poll, renewing, shop,
                 late, history>>

-----------------------------------------------------------------------------
(* The QR panel, its countdown, and the poll *)

(* The panel offers a renewal; the shop returns the renewal it has, or the
   payment itself while that is open. *)
HandleRenewQrOrder ==
  /\ "renew" \in Offered /\ Quiet
  /\ renewing' = [pay |-> qr.pay, answer |-> 0]
  /\ UNCHANGED <<selection, buying, qr, watch, poll, shop, late, history>>

RenewPayment ==
  /\ renewing # None /\ renewing.answer = 0
  /\ LET p == renewing.pay
         renewal == {r \in DOMAIN pays : pays[r].from = p}
     IN  \/ /\ renewal # {}
            /\ renewing' = [renewing EXCEPT !.answer = CHOOSE r \in renewal : TRUE]
            /\ UNCHANGED pays
         \/ /\ renewal = {} /\ pays[p].status = "pending" /\ ~pays[p].over
            /\ renewing' = [renewing EXCEPT !.answer = p]
            /\ UNCHANGED pays
         \/ /\ renewal = {} /\ Len(pays) < limit.pays
            /\ \/ pays[p].status \in {"expired", "cancelled"}
               \/ pays[p].status = "pending" /\ pays[p].over
            /\ pays' = Append(IF pays[p].status = "pending"
                              THEN [pays EXCEPT ![p].status = "expired"] ELSE pays,
                              [order |-> pays[p].order, status |-> "pending",
                               over |-> FALSE, from |-> p])
            /\ renewing' = [renewing EXCEPT !.answer = Len(pays')]
  /\ UNCHANGED <<selection, buying, qr, watch, poll, orders, minted, late, history>>

QrRenewed ==
  /\ renewing # None /\ renewing.answer # 0
  /\ ShowQr([pay |-> renewing.answer, status |-> pays[renewing.answer].status])
  /\ renewing' = None
  /\ UNCHANGED <<selection, buying, poll, shop, late, history>>

RenewFails ==
  /\ renewing # None
  /\ renewing' = None
  /\ UNCHANGED <<selection, buying, qr, watch, poll, shop, late, history>>

(* One read at a time, while the page shows a code it takes for pending *)
CheckStatus ==
  /\ step = "payment" /\ qr # None /\ watch = "pending" /\ poll = None /\ Quiet
  /\ poll' = [pay |-> qr.pay, answer |-> None]
  /\ UNCHANGED <<selection, buying, qr, watch, renewing, shop, late, history>>

(* The read itself closes a payment that is over. *)
FetchPaymentStatus ==
  /\ poll # None /\ poll.answer = None
  /\ pays' = IF pays[poll.pay].status = "pending" /\ pays[poll.pay].over
             THEN [pays EXCEPT ![poll.pay].status = "expired"] ELSE pays
  /\ poll' = [poll EXCEPT !.answer = pays'[poll.pay].status]
  /\ UNCHANGED <<selection, buying, qr, watch, renewing, orders, minted, late, history>>

(* Mutant: whatever ended the polling takes the page to its last step. *)
StatusChangedOnceClosed ==
  /\ poll # None /\ poll.answer # None
  /\ poll' = None
  /\ watch' = poll.answer
  /\ qr' = IF qr = None THEN None ELSE [qr EXCEPT !.status = poll.answer]
  /\ IF poll.answer # "pending"
     THEN step' = "completed" /\ shown' = pays[poll.pay].order
     ELSE UNCHANGED <<step, shown>>
  /\ UNCHANGED <<form, info, looking, popup, lookups, method, charge, coinTry, qrTry,
                 autoSig, task, renewing, shop, late, history>>

(* onStatusChange writes the status on whatever code is shown by now. *)
StatusChanged ==
  /\ poll # None /\ poll.answer # None
  /\ poll' = None
  /\ watch' = poll.answer
  /\ qr' = IF qr = None THEN None ELSE [qr EXCEPT !.status = poll.answer]
  /\ IF poll.answer = "paid"
     THEN step' = "completed" /\ shown' = pays[poll.pay].order
     ELSE UNCHANGED <<step, shown>>
  /\ UNCHANGED <<form, info, looking, popup, lookups, method, charge, coinTry, qrTry,
                 autoSig, task, renewing, shop, late, history>>

PollFails ==
  /\ poll # None
  /\ poll' = None
  /\ UNCHANGED <<selection, buying, qr, watch, renewing, shop, late, history>>

-----------------------------------------------------------------------------
(* Time, the bank and the administrator *)

TimePasses(p) ==
  /\ p \in DOMAIN pays /\ ~pays[p].over /\ pays[p].status = "pending"
  /\ pays' = [pays EXCEPT ![p].over = TRUE]
  /\ UNCHANGED <<selection, buying, panel, orders, minted, late, history>>

Transfer(p) ==
  /\ p \in DOMAIN pays
  /\ \E s \in Outcomes :
       /\ pays[p].status = "pending" \/ (pays[p].status = "expired" /\ s = "paid")
       /\ pays' = [pays EXCEPT ![p].status = s]
  /\ UNCHANGED <<selection, buying, panel, orders, minted, late, history>>

CustomerActs ==
  \/ \E p \in Plans : OpenPlanDetails(p) \/ HandleSelectPlan(p)
  \/ CloseModal
  \/ \E pf \in {"ios", "android"} : HandleSelectPlatform(pf)
  \/ HandleReset \/ GoBack \/ CloseGoldPopup
  \/ \E n \in Names \cup {None} : TypeName(n)
  \/ HandleVerifyUsername \/ ContinueToPayment \/ TypeContact \/ HandleContinueContact
  \/ \E c \in limit.coupons : HandleApplyCoupon(c)
  \/ HandleRemoveCoupon \/ ChooseCoin \/ ChooseQr \/ LeavePayment
  \/ HandlePayWithCoin \/ RetryCreateQr \/ HandleRenewQrOrder

AnswerArrives ==
  \/ \E l \in lookups : LunakeyFound(l) \/ LookupFails(l) \/ ProfileFound(l) \/ GoldChecked(l)
  \/ CouponValidated \/ QrOrderClosed \/ QrOrderNotClosed
  \/ PurchaseFails \/ CoinPaid \/ QrCreated
  \/ QrRenewed \/ RenewFails \/ StatusChanged \/ PollFails

ShopActs ==
  \/ CancelPayment \/ ShopSells \/ (\E c \in late : ShopSellsLate(c))
  \/ RenewPayment \/ FetchPaymentStatus
  \/ \E p \in 1 .. limit.pays : TimePasses(p) \/ Transfer(p)

Next ==
  \/ AutoCreateQr
  \/ ~AutoCreateDue /\ (CustomerActs \/ AnswerArrives \/ ShopActs \/ CheckStatus)

Spec == Init /\ [][Next]_vars

-----------------------------------------------------------------------------
(* Types of every variable; the records name what a call carries. *)
TypeOK ==
  /\ step \in Steps /\ form \in Form /\ info \in Names \cup {None}
  /\ looking \in Plans \cup {None} /\ popup \in BOOLEAN
  /\ lookups \subseteq [plan : Plans, name : Names, stage : {"profile", "gold"},
                        current : BOOLEAN]
  /\ method \in Kinds /\ charge \in Charge \cup {None} /\ late \subseteq Charge
  /\ coinTry \in Try \cup {None} /\ qrTry \in Try \cup {None}
  /\ autoSig \in Form \cup {None} /\ shown \in 0 .. limit.keys
  /\ task \in [then : Coupons \cup {None, "coin", "back"}, pay : 0 .. limit.pays,
               previous : Steps, answer : {"validate", "ok", "failed", None}] \cup {None}
  /\ qr \in [pay : 1 .. limit.pays, status : PaymentStatus] \cup {None}
  /\ watch \in PaymentStatus
  /\ poll \in [pay : 1 .. limit.pays, answer : PaymentStatus \cup {None}] \cup {None}
  /\ renewing \in [pay : 1 .. limit.pays, answer : 0 .. limit.pays] \cup {None}
  /\ orders \in Seq(Order) /\ Len(orders) \leq limit.keys
  /\ pays \in Seq(Payment) /\ Len(pays) \leq limit.pays
  /\ minted \in Seq([plan : Plans, name : Names]) /\ Len(minted) \leq limit.tokens
  /\ keys \in 0 .. limit.keys /\ pressed \in [Kinds -> Form \cup {None}]
  /\ turn \in [Kinds -> Nat]

(* What was confirmed is what will be bought: the token in the form was issued
   for its plan and its name, and the profile shown is that of the name in the
   form, however late the answers to earlier lookups arrive (lookupSeqRef). *)
LookupIsCurrent ==
  /\ form.token # 0 => minted[form.token] = [plan |-> form.plan, name |-> form.name]
  /\ info # None => info = form.name

(* Pressing again without changing anything, after a lost answer, does not
   buy again: the orders of one kind differ in the form, or the customer had
   changed it in between.  And a key stands for one form, so that the shop
   never answers a purchase with the order of another one. *)
KeyPerPurchase ==
  LET tries == late \cup (IF charge = None THEN {} ELSE {charge})
  IN  /\ \A i, j \in DOMAIN orders :
           i # j => <<orders[i].kind, orders[i].turn>> # <<orders[j].kind, orders[j].turn>>
      /\ \A i \in DOMAIN orders : \A t \in tries :
           orders[i].key = t.key => orders[i].form = t.form
      /\ \A t, u \in tries : t.key = u.key => t.form = u.form

(* The page gets to its last step only with an order the shop has, and one
   that is paid, whatever the poll and the handlers were doing. *)
CompletesWhenPaid ==
  [][step # "completed" /\ step' = "completed" =>
       /\ shown' \in DOMAIN orders'
       /\ orders'[shown'].kind = "qr" =>
            \E p \in DOMAIN pays' : pays'[p].order = shown' /\ pays'[p].status = "paid"]_vars

(* A QR code on the payment step carries the coupon whose discount is shown
   next to it (docs/coupon_popup_implementation_report.md:175: changing or
   removing the coupon closes the old QR). *)
QrFollowsCoupon ==
  (step = "payment" /\ qr # None) =>
    orders[pays[qr.pay].order].form.coupon = form.coupon

(* While the panel says that it checks the status every three seconds, the
   hook is polling (PaymentQrPanel.tsx:361-366). *)
PollsWhileOpen ==
  (step = "payment" /\ qr # None /\ qr.status = "pending") => watch = "pending"
=============================================================================
