---------------------------- MODULE FrontendProofs ----------------------------
(***************************************************************************)
(* The front end as a whole, for every value of the constants.  What was   *)
(* proved of the checkout holds in it; each of the other pages has an      *)
(* invariant of its own, which speaks of ui, calls and db while that page  *)
(* is shown.  A page is left for the blank page only, so the invariant of  *)
(* one page has nothing to fear from the steps of another.                 *)
(***************************************************************************)
EXTENDS Frontend, CheckoutProofs, FiniteSetTheorems

LEMMA CheckoutInside == FrontendSpec => Spec
  <1>1. FrontendInit => Init
    BY DEF FrontendInit
  <1>2. [FrontendNext]_<<vars, browser>> => [Next]_vars
    BY DEF FrontendNext
  <1> QED BY <1>1, <1>2, PTL DEF FrontendSpec, Spec

-----------------------------------------------------------------------------
(* Which page is shown *)

LEMMA ProgressStays == ProgressNext => page' = page
  BY DEF ProgressNext, OrderBought, ProgressReset, HandleRequestDownloadTicket, TimerFires,
         ReadStatus, PollQueue, PollProvider, TicketAnswered, OrderMoves

LEMMA OrdersViewStays == OrdersViewNext => page' = page
  BY DEF OrdersViewNext, RefreshOrders, OrdersPagination, LiveRefresh, CloseOrder, Dismiss,
         HandleDownloadTicket, SelectOrder, ReadRows, LoadUserOrders, PlatformConfig,
         TicketCreated, OrderGoesOn, OthersChange

LEMMA WalletStays == WalletNext => page' \in {page, "blank"}
  BY DEF WalletNext, TopupForm, HandleRenewTopup, HandleCreateTopup, CloseTopupPanel,
         CheckTopupStatus, BalanceCard, RefreshLedger, LedgerPages, TopupCreated,
         CreateAnswered, CreateFailed, ReadTopup, TopupStatusChange, PollFailed, TopupRenewed,
         RenewAnswered, RenewFailed, ReadBalance, BalanceAnswered, ReadRows, LoadTransactions,
         ShowRows, TopupMoves

LEMMA ReviewsStay == ReviewsNext => page' = page
  BY DEF ReviewsNext, OpenForm, CloseForm, SetRating, HandleFileChange, RemoveSelectedFile,
         RemoveExistingImage, HandleReviewSubmit, AskDelete, CancelDelete, HandleReviewDelete,
         ElsewhereEdit, SubmitReceived, UpdateReceived, Store, Refused, SubmitCommitted,
         UpdateCommitted, DeleteCommitted, DeleteFiles, HandlerDies, GetMyReview,
         ActionAnswered, RefreshMyReview

LEMMA DashboardStays == DashboardNext => page' = page
  BY DEF DashboardNext, Reloaded, PromptOpens, CloseReviewExperience, ShowReviewForm,
         SendReview, OverlayChanges, DashboardRefresh, ReviewRefresh, ReviewedElsewhere,
         ReviewStored, ReviewAnswered, ShopReads, ReadFails, OrdersSummary, MyReviewRead,
         OrderCompleted

(* What the lists have in common *)
LEMMA ListStays ==
  /\ SearchSubmit \/ LiveRefresh => page' = page
  /\ \A f : FilterBy(f) \/ SearchFor(f) \/ PageChanged(f) \/ TurnTo(f) => page' = page
  /\ \A c : ReadRows(c) \/ Loaded(c) => page' = page
  /\ \A i, to : OthersChange(i, to) => page' = page
  BY DEF SearchSubmit, LiveRefresh, FilterBy, SearchFor, PageChanged, TurnTo, ReadRows, Loaded,
         ShowRows, OthersChange

LEMMA DialogStays ==
  /\ Dismiss => page' = page
  /\ \A kind, id, entered, value : Open(kind, id, entered, value) => page' = page
  /\ \A x : Enter(x) \/ Submit(x) \/ Failed(x) => page' = page
  /\ \A c, x : Executed(c, x) \/ ThenLoad(c, x) \/ AwaitLoad(c, x) => page' = page
  BY DEF Dismiss, Open, Enter, Submit, Failed, Executed, ThenLoad, AwaitLoad

LEMMA AdminOrdersStay == AdminOrdersNext => page' = page
  BY ListStays
  DEF AdminOrdersNext, HandleSearchSubmit, SelectFilter, TypeSearch, ReloadOrders, TurnPage,
      LoadOrders, LoadProviderStatus, ProviderStatusUnknown, ProviderResumed, ProviderActed,
      ActionExecuted, ActionDone, ActionRefused, ShowDetail, OpenActionModal,
      HandleResumeProvider, CloseDetail, TypeNote, HandleProviderRetry,
      HandleProviderReconcile, CloseActionModal, TypeReason, ConfirmTransfer,
      HandleSubmitAction

LEMMA AdminPaymentsStay == AdminPaymentsNext => page' = page
  BY ListStays, DialogStays
  DEF AdminPaymentsNext, PaymentSearch, PaymentFilters, RefreshPayments, PaymentPagination,
      ConfirmModal, HandleConfirmAction, HandleRejectAction, AskConfirm, AskReject,
      LoadPayments, PaymentConfirmed, PaymentRejected, ConfirmDone, RejectDone

LEMMA AdminUsersStay == AdminUsersNext => page' = page
  BY ListStays, DialogStays
  DEF AdminUsersNext, UserSearch, UserFilters, RefreshUsers, UserPagination, UserDetailModal,
      StatusDialog, HandleConfirmStatusChange, RoleDialog, WalletModal,
      HandleConfirmWalletAdjust, HandleOpenUser, AskStatus, AskRole, AskWallet, LoadUsers,
      UserDetailAnswered, UserStatusChanged, StatusDone, RoleChanged, RoleDone,
      WalletAdjusted, WalletDone

LEMMA AdminCouponsStay == AdminCouponsNext => page' = page
  BY ListStays, DialogStays
  DEF AdminCouponsNext, RefreshCoupons, CouponPagination, CouponFilters, HandleOpenCreate,
      CouponFields, CouponPlans, ActiveBox, HandleSaveCoupon, HandleOpenEdit,
      HandleToggleActive, AskDeleteCoupon, HandleOpenStats, CouponDeleteDialog, PlansForForm,
      LoadCoupons, CouponSaved, SaveDone, CouponToggled, ToggleDone, CouponDeleted, DeleteDone,
      StatsAnswered

LEMMA AdminPlansStay == AdminPlansNext => page' = page
  BY ListStays, DialogStays
  DEF AdminPlansNext, RefreshPlans, PlanPagination, CreatePlan, HandleSavePlan, PlanPlatforms,
      PlanModes, PlanProvider, PlanCategory, PlanDays, PlanOnSale, EnterPlan, EditPlan,
      HandleToggleStatus, AskDeletePlan, PlanDeleteDialog, ReadPlans, LoadPlans, PlanSaved,
      PlanSaveDone, PlanToggled, PlanToggleDone, PlanDeleted, PlanDeleteDone

LEMMA AdminSystemStays == AdminSystemNext => page' = page
  BY DialogStays
  DEF AdminSystemNext, SelectSubtab, SettingsForm, AccountForm, HandleAddAccount,
      HandleConfirmDeleteAccount, ProxyForm, HandleAddProxy, HandleConfirmDeleteProxy,
      PopupForm, PopupPreview, HandleSavePopup, ChooseProfile, HandleUploadMobileconfig,
      AskDeleteProfile, HandleConfirmDeleteMobileconfig, HandleSaveSettings, AskDeleteAccount,
      AskDeleteProxy, ReadTab, LoadData, ItemAdded, AccountAdded, AccountChecked,
      AccountRemoved, AccountDeleted, ProxyAdded, ProxyRemoved, ProxyDeleted, PopupSaved,
      ProfileChanged, ProfileDone, SettingsSaved, FormSaved, ThenLoadTab

LEMMA AdminListsStay == AdminListsNext => page' = page
  BY ListStays, DialogStays
  DEF AdminListsNext, RefreshList, CreatorSearch, AuditFilters, OverviewRange, ReviewPages,
      AuditPages, CreatorPages, ZoomImage, LogDetail, QuietRefresh, CloseDialog,
      HandleDeleteConfirm, SaveCreator, CreatorFields, AskDeleteReview, AskDeleteCreator,
      ResetForm, RowDeleted, CreatorSaved, ReviewDeleted, CreatorDeleted, CreatorAnswered

(* Only a page that was lost is left. *)
LEMMA PageStays ==
  ASSUME [FrontendNext]_<<vars, browser>>
  PROVE  page' \in {page, "blank"}
  BY ProgressStays, OrdersViewStays, WalletStays, ReviewsStay, DashboardStays,
     AdminOrdersStay, AdminPaymentsStay, AdminUsersStay, AdminCouponsStay, AdminPlansStay,
     AdminSystemStays, AdminListsStay
  DEF FrontendNext, PageNext, browser

-----------------------------------------------------------------------------
(* Calls of the lists *)

CallFields == {"id", "op", "silent", "then", "filter", "at", "kind", "target", "value",
               "form", "entered", "reply", "rows", "of"}

Began(c, op) ==
  /\ CallFields \subseteq DOMAIN c
  /\ c.op = op /\ c.reply = "none" /\ c.then = "" /\ c.silent = FALSE /\ c.kind = ""
  /\ c.target = 0 /\ c.value = "" /\ c.entered = {} /\ c.rows = {} /\ c.form = {}

LEMMA CallBegan ==
  ASSUME NEW n, NEW op, NEW u
  PROVE  Began(CallNo(n, op, u), op) /\ Began(Call(op, u), op)
  BY DEF CallNo, Call, Began, CallFields

(* A load, whatever its number, its spinner, what follows it and its page. *)
LoadBegan(c) == CallFields \subseteq DOMAIN c /\ c.op = "load" /\ c.rows = {} /\ c.entered = {}

LEMMA LoadMade ==
  ASSUME NEW u, NEW silent, NEW then, NEW c, c = Load(u, silent, then)
  PROVE  LoadBegan(c) /\ c.silent = silent /\ c.then = then
  <1>1. PICK b : b = Call("load", u)
    OBVIOUS
  <1>2. Began(b, "load")
    BY <1>1, CallBegan
  <1>3. c = [b EXCEPT !.silent = silent, !.then = then]
    BY <1>1 DEF Load
  <1> QED BY <1>2, <1>3 DEF LoadBegan, Began, CallFields

-----------------------------------------------------------------------------
(* The wallet.  A key is made for one wish and keeps its amount; the wish is
   that of the attempt that would be repeated. *)

Wish == [amount : Nat, wish : Nat]
Topup == [key : Nat, amount : Nat, status : TopupStatus, from : Nat]

KeyFits(key, amount) == key \in DOMAIN db.keys /\ db.keys[key].amount = amount
Credited(p) == p \in Items /\ db.is[p] # "absent"

WalletFields ==
  /\ {"filter", "at", "of", "rows", "loading", "amount", "topup", "attempt", "creating",
      "renewing", "thanked", "balance", "counting"} \subseteq DOMAIN ui
  /\ {"pay", "amount", "status"} \subseteq DOMAIN ui.topup
  /\ ui.amount \in Nat

WalletPage ==
  /\ WalletFields
  /\ ui.attempt.amount = db.wish
  /\ ui.attempt.amount # 0 => KeyFits(ui.attempt.key, ui.attempt.amount)
  /\ ui.topup.pay # 0 => ui.topup.pay \in DOMAIN db.pays
  /\ \A p \in ui.thanked : Credited(p)

WalletCall(c) ==
  /\ CallFields \subseteq DOMAIN c
  /\ c.op = "create" => KeyFits(c.target, c.of)
  /\ c.op \in {"poll", "renew"} => c.target \in DOMAIN db.pays
  /\ c.op = "renew" /\ c.reply = "ok" => c.of \in DOMAIN db.pays
  /\ c.op = "poll" /\ c.reply = "ok" /\ c.value = "paid" => Credited(c.target)

WalletDb ==
  /\ {"is", "pays", "keys", "wish", "wishes", "errand"} \subseteq DOMAIN db
  /\ db.keys \in Seq(Wish) /\ db.pays \in Seq(Topup) /\ DOMAIN db.is = Items
  /\ db.wish \in Nat /\ db.wishes \in Nat
  /\ \A j \in DOMAIN db.keys : db.keys[j].wish \leq db.wishes
  /\ \A j, k \in DOMAIN db.keys : db.keys[j].wish = db.keys[k].wish => j = k
  /\ \A p \in DOMAIN db.pays :
       /\ db.pays[p].key # 0 => KeyFits(db.pays[p].key, db.pays[p].amount)
       /\ db.pays[p].status = "paid" => Credited(p)

WalletInv == WalletPage /\ WalletDb /\ \A c \in calls : WalletCall(c)

(* The shop forgets no key and no payment, and takes no coins back. *)
WalletGrows ==
  /\ \A k \in DOMAIN db.keys : k \in DOMAIN db'.keys /\ db'.keys[k] = db.keys[k]
  /\ DOMAIN db.pays \subseteq DOMAIN db'.pays
  /\ \A p \in Items : db.is[p] # "absent" => db'.is[p] # "absent"

LEMMA OtherWalletCall ==
  ASSUME NEW c, CallFields \subseteq DOMAIN c, c.op \notin {"create", "poll", "renew"}
  PROVE  WalletCall(c)
  BY DEF WalletCall

LEMMA WalletInit_Inv == WalletInit => WalletInv
  <1> SUFFICES ASSUME WalletInit
               PROVE  WalletInv
    OBVIOUS
  <1>1. PICK errand : db = [is |-> [i \in Items |-> "absent"], pays |-> <<>>, keys |-> <<>>,
                            wish |-> 0, wishes |-> 0, errand |-> errand]
    BY DEF WalletInit
  <1>2. WalletDb
    BY <1>1 DEF WalletDb
  <1>3. WalletPage
    <2>1. (CHOOSE a \in Amounts : TRUE) \in Nat
      BY WalletAssumption
    <2> QED BY <1>1, <2>1 DEF WalletInit, WalletPage, WalletFields, NoTopup, NoAttempt
  <1>4. \A c \in calls : WalletCall(c)
    <2>1. Began(CallNo(1, "load", NoList), "load")
      BY CallBegan
    <2>2. WalletCall(CallNo(1, "load", NoList))
      BY <2>1, OtherWalletCall DEF Began
    <2> QED BY <2>2 DEF WalletInit
  <1> QED BY <1>2, <1>3, <1>4 DEF WalletInv

LEMMA WalletCallKept ==
  ASSUME WalletGrows, NEW c, WalletCall(c)
  PROVE  WalletCall(c)'
  BY DEF WalletGrows, WalletCall, KeyFits, Credited

LEMMA WalletQuiet ==
  ASSUME WalletInv, UNCHANGED db, WalletFields', ui'.attempt = ui.attempt,
         ui'.topup.pay # 0 => ui'.topup.pay \in DOMAIN db.pays,
         \A p \in ui'.thanked : Credited(p),
         \A c \in calls' : c \in calls \/ WalletCall(c)
  PROVE  WalletInv'
  <1>1. WalletPage'
    BY DEF WalletInv, WalletPage, KeyFits, Credited
  <1>2. WalletDb'
    BY DEF WalletInv, WalletDb, KeyFits, Credited
  <1>3. \A c \in calls' : WalletCall(c)'
    BY WalletCallKept DEF WalletInv, WalletGrows
  <1> QED BY <1>1, <1>2, <1>3 DEF WalletInv

(* Mostly neither the shop nor the panel is touched. *)
LEMMA WalletLooks ==
  ASSUME WalletInv, UNCHANGED db, WalletFields',
         ui'.attempt = ui.attempt, ui'.topup = ui.topup, ui'.thanked = ui.thanked,
         \A c \in calls' : c \in calls \/ WalletCall(c)
  PROVE  WalletInv'
  BY WalletQuiet DEF WalletInv, WalletPage

(* A wish that is not yet another attempt's has a key made for it. *)
LEMMA HandleCreateTopupKeeps ==
  ASSUME WalletInv, HandleCreateTopup
  PROVE  WalletInv'
  <1> DEFINE again == ui.attempt.amount = ui.amount
  <1>1. PICK key : key = IF again THEN ui.attempt.key ELSE Len(db.keys) + 1
    OBVIOUS
  <1>2. PICK wish : wish = IF db.wish = ui.amount THEN db.wishes ELSE db.wishes + 1
    OBVIOUS
  <1>3. PICK made : made = IF again THEN db.keys
                           ELSE Append(db.keys, [amount |-> ui.amount, wish |-> wish])
    OBVIOUS
  <1>4. PICK c : c = [Call("create", ui) EXCEPT !.target = key, !.of = ui.amount]
    OBVIOUS
  <1>5. /\ calls' = calls \cup {c}
        /\ ui' = [ui EXCEPT !.creating = TRUE, !.attempt = [key |-> key, amount |-> ui.amount]]
        /\ db' = [db EXCEPT !.wish = ui.amount, !.wishes = wish, !.keys = made]
        /\ ui.amount > 0
    BY <1>1, <1>2, <1>3, <1>4 DEF HandleCreateTopup, Begin
  <1>6. /\ WalletPage /\ WalletDb /\ ui.amount \in Nat /\ db.wish \in Nat /\ db.wishes \in Nat
        /\ db.keys \in Seq(Wish)
        /\ {"is", "pays", "keys", "wish", "wishes", "errand"} \subseteq DOMAIN db
    BY DEF WalletInv, WalletPage, WalletFields, WalletDb
  <1>7. db'.keys = made /\ db'.wish = ui.amount /\ db'.wishes = wish /\ db'.pays = db.pays
        /\ db'.is = db.is /\ DOMAIN db' = DOMAIN db
    BY <1>5, <1>6
  <1>8. wish \in Nat /\ db.wishes \leq wish
    BY <1>2, <1>6
  <1>9. /\ made \in Seq(Wish)
        /\ \A k \in DOMAIN db.keys : k \in DOMAIN made /\ made[k] = db.keys[k]
        /\ key \in DOMAIN made /\ made[key].amount = ui.amount
        /\ \A k \in DOMAIN made : k \notin DOMAIN db.keys =>
             k = key /\ made[k].wish = wish /\ wish = db.wishes + 1
    <2>1. CASE again
      BY <1>1, <1>3, <1>5, <1>6, <2>1 DEF WalletPage, KeyFits
    <2>2. CASE ~again
      <3>1. PICK w : w = [amount |-> ui.amount, wish |-> wish]
        OBVIOUS
      <3>2. w \in Wish /\ w.amount = ui.amount /\ w.wish = wish
        BY <1>6, <1>8, <3>1 DEF Wish
      <3>3. /\ Append(db.keys, w) \in Seq(Wish)
            /\ Len(Append(db.keys, w)) = Len(db.keys) + 1
            /\ \A k \in 1 .. Len(db.keys) : Append(db.keys, w)[k] = db.keys[k]
            /\ Append(db.keys, w)[Len(db.keys) + 1] = w
        BY <1>6, <3>2, AppendProperties
      <3>4. /\ Len(db.keys) \in Nat /\ DOMAIN db.keys = 1 .. Len(db.keys)
            /\ DOMAIN Append(db.keys, w) = 1 .. Len(db.keys) + 1
        BY <1>6, <3>3, LenProperties
      <3>5. made = Append(db.keys, w) /\ key = Len(db.keys) + 1
        BY <1>1, <1>3, <2>2, <3>1
      <3>6. wish = db.wishes + 1
        BY <1>2, <1>6, <2>2 DEF WalletPage
      <3> QED BY <3>2, <3>3, <3>4, <3>5, <3>6
    <2> QED BY <2>1, <2>2
  <1>10. WalletGrows
    BY <1>7, <1>9 DEF WalletGrows
  <1>11. /\ CallFields \subseteq DOMAIN c /\ c.op = "create" /\ c.target = key /\ c.of = ui.amount
    <2>1. PICK b : b = Call("create", ui)
      OBVIOUS
    <2>2. Began(b, "create")
      BY <2>1, CallBegan
    <2>3. c = [b EXCEPT !.target = key, !.of = ui.amount]
      BY <1>4, <2>1
    <2> QED BY <2>2, <2>3 DEF Began, CallFields
  <1>12. \A d \in calls' : WalletCall(d)'
    <2>1. WalletCall(c)'
      BY <1>7, <1>9, <1>11 DEF WalletCall, KeyFits
    <2> QED BY <1>5, <1>10, <2>1, WalletCallKept DEF WalletInv
  <1>13. WalletPage'
    <2>1. /\ ui'.attempt.amount = ui.amount /\ ui'.attempt.key = key
          /\ ui'.topup = ui.topup /\ ui'.thanked = ui.thanked
          /\ ui'.amount = ui.amount /\ DOMAIN ui' = DOMAIN ui
      BY <1>5, <1>6 DEF WalletPage, WalletFields
    <2> QED BY <1>6, <1>7, <1>9, <2>1 DEF WalletPage, WalletFields, KeyFits, Credited
  <1>14. WalletDb'
    <2>1. \A k \in DOMAIN made : made[k].wish \leq wish
      <3>1. ASSUME NEW k \in DOMAIN db.keys
            PROVE  made[k].wish \leq wish
        <4>1. db.keys[k] \in Wish
          BY <1>6, LenProperties, ElementOfSeq
        <4>2. db.keys[k].wish \in Nat
          BY <4>1 DEF Wish
        <4>3. db.keys[k].wish \leq db.wishes
          BY <1>6 DEF WalletDb
        <4> QED BY <1>6, <1>8, <1>9, <4>2, <4>3
      <3>2. ASSUME NEW k \in DOMAIN made, k \notin DOMAIN db.keys
            PROVE  made[k].wish \leq wish
        <4>1. made[k].wish = wish
          BY <1>9, <3>2
        <4> QED BY <1>8, <4>1
      <3> QED BY <3>1, <3>2
    <2>2. \A j, k \in DOMAIN made : made[j].wish = made[k].wish => j = k
      <3>1. ASSUME NEW k \in DOMAIN db.keys
            PROVE  db.keys[k].wish # db.wishes + 1
        <4>1. db.keys[k] \in Wish
          BY <1>6, LenProperties, ElementOfSeq
        <4>2. db.keys[k].wish \in Nat
          BY <4>1 DEF Wish
        <4>3. db.keys[k].wish \leq db.wishes
          BY <1>6 DEF WalletDb
        <4> QED BY <1>6, <4>2, <4>3
      <3>2. \A j, k \in DOMAIN db.keys : db.keys[j].wish = db.keys[k].wish => j = k
        BY <1>6 DEF WalletDb
      <3> QED BY <1>9, <3>1, <3>2
    <2> QED BY <1>6, <1>7, <1>8, <1>9, <2>1, <2>2 DEF WalletDb, KeyFits, Credited
  <1> QED BY <1>12, <1>13, <1>14 DEF WalletInv

LEMMA CloseTopupPanelKeeps ==
  ASSUME WalletInv, CloseTopupPanel
  PROVE  WalletInv'
  <1>1. /\ ui' = [ui EXCEPT !.topup = NoTopup, !.attempt = NoAttempt]
        /\ db' = [db EXCEPT !.wish = 0] /\ UNCHANGED calls
    BY DEF CloseTopupPanel
  <1>2. /\ db'.keys = db.keys /\ db'.wish = 0 /\ db'.wishes = db.wishes /\ db'.pays = db.pays
        /\ db'.is = db.is /\ DOMAIN db' = DOMAIN db
    BY <1>1 DEF WalletInv, WalletDb
  <1>3. WalletDb' /\ WalletGrows
    BY <1>2 DEF WalletInv, WalletDb, WalletGrows, KeyFits, Credited
  <1>4. WalletPage'
    <2>1. /\ ui'.attempt = NoAttempt /\ ui'.topup = NoTopup /\ ui'.thanked = ui.thanked
          /\ ui'.amount = ui.amount /\ DOMAIN ui' = DOMAIN ui
      BY <1>1 DEF WalletInv, WalletPage, WalletFields
    <2> QED BY <1>2, <2>1 DEF WalletInv, WalletPage, WalletFields, KeyFits, Credited, NoTopup,
               NoAttempt
  <1> QED BY <1>1, <1>3, <1>4, WalletCallKept DEF WalletInv

(* Quiet steps of the wallet *)
LEMMA TopupFormKeeps ==
  ASSUME WalletInv, NEW amount \in Amounts, TopupForm(amount)
  PROVE  WalletInv'
  <1>1. amount \in Nat
    BY WalletAssumption
  <1>2. WalletFields' /\ UNCHANGED db /\ UNCHANGED calls /\ ui'.attempt = ui.attempt
        /\ ui'.topup = ui.topup /\ ui'.thanked = ui.thanked
    BY <1>1 DEF TopupForm, WalletInv, WalletPage, WalletFields
  <1> QED BY <1>2, WalletLooks

LEMMA WalletBegins ==
  ASSUME WalletInv, NEW op, op \in {"poll", "renew", "balance"},
         NEW target, target \in DOMAIN db.pays, NEW silent, NEW c,
         \/ c = [Call(op, ui) EXCEPT !.target = target]
         \/ op = "balance" /\ c = [Call(op, ui) EXCEPT !.silent = silent]
  PROVE  WalletCall(c)
  <1>1. PICK b : b = Call(op, ui)
    OBVIOUS
  <1>2. Began(b, op)
    BY <1>1, CallBegan
  <1>3. \/ c = [b EXCEPT !.target = target]
        \/ op = "balance" /\ c = [b EXCEPT !.silent = silent]
    BY <1>1
  <1> QED BY <1>2, <1>3 DEF Began, CallFields, WalletCall

LEMMA CheckTopupStatusKeeps ==
  ASSUME WalletInv, CheckTopupStatus
  PROVE  WalletInv'
  <1>1. PICK c : c = [Call("poll", ui) EXCEPT !.target = ui.topup.pay]
    OBVIOUS
  <1>2. calls' = calls \cup {c} /\ UNCHANGED <<ui, db>> /\ ui.topup.pay # 0
    BY <1>1 DEF CheckTopupStatus, Begin, TopupShown
  <1>3. WalletCall(c)
    BY <1>1, <1>2, WalletBegins DEF WalletInv, WalletPage
  <1> QED BY <1>2, <1>3, WalletLooks DEF WalletInv, WalletPage, WalletFields

LEMMA HandleRenewTopupKeeps ==
  ASSUME WalletInv, HandleRenewTopup
  PROVE  WalletInv'
  <1>1. PICK c : c = [Call("renew", ui) EXCEPT !.target = ui.topup.pay]
    OBVIOUS
  <1>2. calls' = calls \cup {c} /\ UNCHANGED db /\ ui.topup.pay # 0
        /\ ui' = [ui EXCEPT !.renewing = TRUE]
    BY <1>1 DEF HandleRenewTopup, Begin, TopupShown
  <1>3. WalletCall(c)
    BY <1>1, <1>2, WalletBegins DEF WalletInv, WalletPage
  <1> QED BY <1>2, <1>3, WalletLooks DEF WalletInv, WalletPage, WalletFields

LEMMA BalanceCardKeeps ==
  ASSUME WalletInv, BalanceCard
  PROVE  WalletInv'
  <1>1. PICK b : b = Call("balance", ui)
    OBVIOUS
  <1>2. PICK c : c = [b EXCEPT !.silent = TRUE]
    OBVIOUS
  <1>3. calls' = calls \cup {c} /\ UNCHANGED <<ui, db>>
    BY <1>1, <1>2 DEF BalanceCard, Begin
  <1>4. Began(b, "balance")
    BY <1>1, CallBegan
  <1>5. CallFields \subseteq DOMAIN c /\ c.op = "balance"
    BY <1>2, <1>4 DEF Began, CallFields
  <1>6. WalletCall(c)
    BY <1>5, OtherWalletCall
  <1> QED BY <1>3, <1>6, WalletLooks DEF WalletInv, WalletPage, WalletFields

(* Answers: the call that is answered, and what takes its place. *)
LEMMA CreateAnsweredKeeps ==
  ASSUME WalletInv, NEW c \in calls, CreateAnswered(c)
  PROVE  WalletInv'
  <1>1. PICK p \in MadeWith(c.target) :
          ui' = [ui EXCEPT !.creating = FALSE,
                           !.topup = [pay |-> p, amount |-> c.of, status |-> "pending"]]
    BY DEF CreateAnswered
  <1>2. p \in DOMAIN db.pays /\ UNCHANGED db /\ calls' = calls \ {c}
    BY DEF CreateAnswered, MadeWith, End
  <1>3. WalletFields' /\ ui'.attempt = ui.attempt /\ ui'.topup.pay = p
        /\ ui'.thanked = ui.thanked
    BY <1>1 DEF WalletInv, WalletPage, WalletFields
  <1> QED BY <1>2, <1>3, WalletQuiet DEF WalletInv, WalletPage

(* A call that changes in what the invariant does not look at. *)
LEMMA CallChanged ==
  ASSUME NEW c, WalletCall(c), NEW d, DOMAIN d = DOMAIN c, d.op = c.op, d.target = c.target,
         d.of = c.of \/ c.op \notin {"create", "renew"}, c.op = "renew" => d.reply = c.reply,
         c.op = "poll" /\ d.reply = "ok" /\ d.value = "paid" => Credited(c.target)
  PROVE  WalletCall(d)
  BY DEF WalletCall

LEMMA CreateFailedKeeps ==
  ASSUME WalletInv, NEW c \in calls, CreateFailed(c)
  PROVE  WalletInv'
  <1>1. PICK d : d = [c EXCEPT !.silent = TRUE]
    OBVIOUS
  <1>2. calls' = calls \ {c} \/ calls' = (calls \ {c}) \cup {d}
    BY <1>1 DEF CreateFailed, End, Change
  <1>3. WalletCall(d)
    <2>1. WalletCall(c) /\ CallFields \subseteq DOMAIN c /\ c.op = "create"
      BY DEF WalletInv, WalletCall, CreateFailed
    <2> QED BY <1>1, <2>1, CallChanged DEF CallFields
  <1>4. ui' = [ui EXCEPT !.creating = FALSE] /\ UNCHANGED db
    BY DEF CreateFailed
  <1> QED BY <1>2, <1>3, <1>4, WalletLooks DEF WalletInv, WalletPage, WalletFields

(* An answer that the payment is paid is given after the coins. *)
LEMMA ReadTopupKeeps ==
  ASSUME WalletInv, NEW c \in calls, ReadTopup(c)
  PROVE  WalletInv'
  <1>1. PICK d : d = [c EXCEPT !.reply = "ok", !.value = db.pays[c.target].status]
    OBVIOUS
  <1>2. calls' = (calls \ {c}) \cup {d} /\ UNCHANGED <<ui, db>> /\ c.op = "poll"
    BY <1>1 DEF ReadTopup, Change
  <1>3. WalletCall(d)
    <2>1. WalletCall(c) /\ CallFields \subseteq DOMAIN c /\ c.target \in DOMAIN db.pays
      BY <1>2 DEF WalletInv, WalletCall
    <2>2. db.pays[c.target].status = "paid" => Credited(c.target)
      BY <2>1 DEF WalletInv, WalletDb
    <2> QED BY <1>1, <1>2, <2>1, <2>2, CallChanged DEF CallFields
  <1> QED BY <1>2, <1>3, WalletLooks DEF WalletInv, WalletPage, WalletFields

(* What the answer of a poll leads to when the code was paid: the panel is told,
   the balance is counted up and the ledger is read. *)
Told(c) ==
  IF ~TopupShown THEN ui ELSE [ui EXCEPT !.topup.pay = c.target, !.topup.status = c.value]
BalanceRead(u, rest) == [CallNo(IdBeside(rest), "balance", u) EXCEPT !.silent = FALSE]
LedgerRead(u, others) == [Load(u, FALSE, "") EXCEPT !.id = IdBeside(others), !.at = 1]
Thanking(u, c) ==
  [u EXCEPT !.thanked = @ \cup {c.target}, !.counting = TRUE, !.loading = TRUE]

LEMMA TopupPaid ==
  ASSUME NEW c, TopupStatusChange(c), c.value = "paid",
         NEW u, u = Told(c), NEW rest, rest = calls \ {c},
         NEW reads, reads = BalanceRead(u, rest),
         NEW ledger, ledger = LedgerRead(u, rest \cup {reads})
  PROVE  calls' = rest \cup {reads, ledger} /\ ui' = Thanking(u, c)
  <1> DEFINE R == calls \ {c}
             Reads == BalanceRead(Told(c), R)
             Ledger == LedgerRead(Told(c), R \cup {Reads})
  <1>1. calls' = R \cup {Reads, Ledger} /\ ui' = Thanking(Told(c), c)
    BY Zenon DEF TopupStatusChange, Told, BalanceRead, LedgerRead, Thanking
  <1>2. reads = Reads
    OBVIOUS
  <1>3. ledger = Ledger
    BY <1>2
  <1> QED BY <1>1, <1>2, <1>3

LEMMA TopupStatusChangeKeeps ==
  ASSUME WalletInv, NEW c \in calls, TopupStatusChange(c)
  PROVE  WalletInv'
  <1>1. PICK u : u = IF ~TopupShown THEN ui
                     ELSE [ui EXCEPT !.topup.pay = c.target, !.topup.status = c.value]
    OBVIOUS
  <1>2. WalletCall(c) /\ c.op = "poll" /\ c.reply = "ok" /\ UNCHANGED db
    BY DEF WalletInv, TopupStatusChange
  <1>3. /\ DOMAIN u = DOMAIN ui /\ DOMAIN u.topup = DOMAIN ui.topup
        /\ u.topup.pay # 0 => u.topup.pay \in DOMAIN db.pays
        /\ u.amount = ui.amount /\ u.attempt = ui.attempt /\ u.thanked = ui.thanked
    BY <1>1, <1>2 DEF WalletInv, WalletPage, WalletFields, WalletCall, TopupShown
  <1>4. CASE c.value # "paid"
    <2>1. calls' = calls \ {c} /\ ui' = u
      BY <1>1, <1>4 DEF TopupStatusChange
    <2> QED BY <1>2, <1>3, <2>1, WalletQuiet DEF WalletInv, WalletPage, WalletFields
  <1>5. CASE c.value = "paid"
    <2>1. PICK rest : rest = calls \ {c}
      OBVIOUS
    <2>2. PICK b : b = CallNo(IdBeside(rest), "balance", u)
      OBVIOUS
    <2>3. PICK reads : reads = [b EXCEPT !.silent = FALSE]
      OBVIOUS
    <2>4. PICK l : l = Load(u, FALSE, "")
      OBVIOUS
    <2>5. PICK ledger : ledger = [l EXCEPT !.id = IdBeside(rest \cup {reads}), !.at = 1]
      OBVIOUS
    <2>6. /\ calls' = rest \cup {reads, ledger}
          /\ ui' = [u EXCEPT !.thanked = @ \cup {c.target}, !.counting = TRUE, !.loading = TRUE]
      <3>1. u = Told(c)
        BY <1>1 DEF Told
      <3>2. reads = BalanceRead(u, rest)
        BY <2>2, <2>3 DEF BalanceRead
      <3>3. ledger = LedgerRead(u, rest \cup {reads})
        BY <2>4, <2>5 DEF LedgerRead
      <3>4. calls' = rest \cup {reads, ledger} /\ ui' = Thanking(u, c)
        BY <1>5, <2>1, <3>1, <3>2, <3>3, TopupPaid
      <3> QED BY <3>4 DEF Thanking
    <2>7. WalletCall(reads)
      <3>1. Began(b, "balance")
        BY <2>2, CallBegan
      <3> QED BY <2>3, <3>1, OtherWalletCall DEF Began, CallFields
    <2>8. WalletCall(ledger)
      <3>1. LoadBegan(l)
        BY <2>4, LoadMade
      <3> QED BY <2>5, <3>1, OtherWalletCall DEF LoadBegan, CallFields
    <2>9. Credited(c.target)
      BY <1>2, <1>5 DEF WalletCall
    <2>10. /\ WalletFields' /\ ui'.attempt = ui.attempt /\ ui'.topup = u.topup
           /\ ui'.thanked = ui.thanked \cup {c.target}
      BY <1>3, <2>6 DEF WalletInv, WalletPage, WalletFields
    <2> QED BY <1>2, <1>3, <2>1, <2>6, <2>7, <2>8, <2>9, <2>10, WalletQuiet
            DEF WalletInv, WalletPage
  <1> QED BY <1>4, <1>5

LEMMA RenewAnsweredKeeps ==
  ASSUME WalletInv, NEW c \in calls, RenewAnswered(c)
  PROVE  WalletInv'
  <1>1. ui' = [ui EXCEPT !.renewing = FALSE, !.topup.pay = c.of, !.topup.status = c.value]
        /\ UNCHANGED db /\ calls' = calls \ {c} /\ c.op = "renew" /\ c.reply = "ok"
    BY DEF RenewAnswered, End
  <1>2. WalletFields' /\ ui'.attempt = ui.attempt /\ ui'.topup.pay = c.of
        /\ ui'.thanked = ui.thanked
    BY <1>1 DEF WalletInv, WalletPage, WalletFields
  <1> QED BY <1>1, <1>2, WalletQuiet DEF WalletInv, WalletPage, WalletCall

LEMMA WalletCallsEnd ==
  ASSUME WalletInv, NEW c \in calls, PollFailed(c) \/ RenewFailed(c) \/ BalanceAnswered(c)
  PROVE  WalletInv'
  <1>1. UNCHANGED db /\ calls' = calls \ {c}
    BY DEF PollFailed, RenewFailed, BalanceAnswered, End
  <1>2. WalletFields' /\ ui'.attempt = ui.attempt /\ ui'.topup = ui.topup
        /\ ui'.thanked = ui.thanked
    BY DEF PollFailed, RenewFailed, BalanceAnswered, WalletInv, WalletPage, WalletFields
  <1> QED BY <1>1, <1>2, WalletLooks

LEMMA WalletReads ==
  ASSUME WalletInv, NEW c \in calls, ReadBalance(c) \/ ReadRows(c)
  PROVE  WalletInv'
  <1>1. PICK d : calls' = (calls \ {c}) \cup {d} /\ d.op = c.op /\ DOMAIN d = DOMAIN c
    <2>1. CallFields \subseteq DOMAIN c
      BY DEF WalletInv, WalletCall
    <2>2. CASE ReadBalance(c)
      <3>1. PICK d : d = [c EXCEPT !.reply = "ok", !.of = Cardinality(Matching(""))]
        OBVIOUS
      <3>2. d.op = c.op /\ DOMAIN d = DOMAIN c
        BY <2>1, <3>1 DEF CallFields
      <3>3. calls' = (calls \ {c}) \cup {d}
        BY <2>2, <3>1 DEF ReadBalance, Change
      <3> QED BY <3>2, <3>3
    <2>3. CASE ReadRows(c)
      <3>1. PICK d : d = [c EXCEPT !.reply = "ok", !.rows = RowsAt(c.filter, c.at),
                                   !.of = PagesOf(c.filter)]
        OBVIOUS
      <3> QED BY <2>1, <2>3, <3>1 DEF ReadRows, Change, CallFields
    <2> QED BY <2>2, <2>3
  <1>2. UNCHANGED <<ui, db>> /\ c.op \in {"balance", "load"}
    BY DEF ReadBalance, ReadRows
  <1>3. WalletCall(d)
    BY <1>1, <1>2, OtherWalletCall DEF WalletInv, WalletCall
  <1> QED BY <1>1, <1>2, <1>3, WalletLooks DEF WalletInv, WalletPage, WalletFields

-----------------------------------------------------------------------------
(* Lists *)

(* The page differs from u in some of the fields only. *)
SameBut(u, fields) == DOMAIN ui' = DOMAIN u /\ \A f \in DOMAIN u \ fields : ui'[f] = u[f]

LEMMA RefilterShows ==
  ASSUME NEW u, Refilter(u)
  PROVE  SameBut(u, {"loading"}) /\ \A c \in calls' : c \in calls \/ LoadBegan(c)
  <1>1. PICK l : l = Load(u, FALSE, "")
    OBVIOUS
  <1>2. LoadBegan(l)
    BY <1>1, LoadMade
  <1>3. CASE ui' = u /\ UNCHANGED calls
    BY <1>3 DEF SameBut
  <1>4. CASE Loading(u, "")
    <2>1. ui' = [u EXCEPT !.loading = TRUE] /\ calls' = calls \cup {l}
      BY <1>1, <1>4 DEF Loading, Begin
    <2> QED BY <1>2, <2>1 DEF SameBut
  <1> QED BY <1>3, <1>4 DEF Refilter

LEMMA LoadingShows ==
  ASSUME NEW u, NEW then, Loading(u, then)
  PROVE  SameBut(u, {"loading"}) /\ \A c \in calls' : c \in calls \/ LoadBegan(c)
  <1>1. PICK l : l = Load(u, FALSE, then)
    OBVIOUS
  <1>2. LoadBegan(l)
    BY <1>1, LoadMade
  <1>3. ui' = [u EXCEPT !.loading = TRUE] /\ calls' = calls \cup {l}
    BY <1>1 DEF Loading, Begin
  <1> QED BY <1>2, <1>3 DEF SameBut

(* An answered load shows its own rows, a failed one shows nothing. *)
LEMMA RowsShown ==
  ASSUME NEW c, NEW done, ShowRows(c, done), {"rows", "of", "at", "loading"} \subseteq DOMAIN done
  PROVE  /\ SameBut(done, {"rows", "of", "at", "loading"})
         /\ ui'.rows \in {c.rows, done.rows}
         /\ \A d \in calls' : d \in calls \/ LoadBegan(d)
  <1>1. CASE c.reply = "none"
    BY <1>1 DEF ShowRows, End, SameBut
  <1>2. CASE c.reply # "none"
    <2>1. PICK at : at = IF done.at > c.of THEN c.of ELSE done.at
      OBVIOUS
    <2>2. PICK after : after = [done EXCEPT !.rows = c.rows, !.of = c.of,
                                            !.at = IF c.at > c.of THEN c.of ELSE @]
      OBVIOUS
    <2>3. /\ DOMAIN after = DOMAIN done /\ after.rows = c.rows
          /\ \A f \in DOMAIN done \ {"rows", "of", "at", "loading"} : after[f] = done[f]
      BY <2>2
    <2>4. CASE ui' = after /\ End(c)
      BY <2>3, <2>4 DEF SameBut, End
    <2>5. CASE Change(c, [Load(after, FALSE, "") EXCEPT !.id = c.id])
               /\ ui' = [after EXCEPT !.loading = TRUE]
      <3>1. PICK l : l = Load(after, FALSE, "")
        OBVIOUS
      <3>2. PICK d : d = [l EXCEPT !.id = c.id]
        OBVIOUS
      <3>3. LoadBegan(l)
        BY <3>1, LoadMade
      <3>4. LoadBegan(d)
        BY <3>2, <3>3 DEF LoadBegan, CallFields
      <3>5. calls' = (calls \ {c}) \cup {d}
        BY <2>5, <3>1, <3>2 DEF Change
      <3>6. ui' = [after EXCEPT !.loading = TRUE]
        BY <2>5
      <3> QED BY <2>3, <3>4, <3>5, <3>6 DEF SameBut
    <2> QED BY <1>2, <2>2, <2>4, <2>5 DEF ShowRows
  <1> QED BY <1>1, <1>2

LEMMA WalletLists ==
  ASSUME WalletInv, UNCHANGED db,
         NEW u, DOMAIN u = DOMAIN ui, u.attempt = ui.attempt, u.topup = ui.topup,
         u.thanked = ui.thanked, u.amount = ui.amount,
         SameBut(u, {"rows", "of", "at", "loading"}) \/ SameBut(u, {"loading"}),
         \A c \in calls' : c \in calls \/ LoadBegan(c)
  PROVE  WalletInv'
  <1>1. /\ ui'["attempt"] = ui["attempt"] /\ ui'["topup"] = ui["topup"]
        /\ ui'["thanked"] = ui["thanked"] /\ ui'["amount"] = ui["amount"]
        /\ DOMAIN ui' = DOMAIN ui
    BY DEF SameBut, WalletInv, WalletPage, WalletFields
  <1>2. WalletFields'
    BY <1>1 DEF WalletInv, WalletPage, WalletFields
  <1>3. \A c \in calls' : c \in calls \/ WalletCall(c)
    BY OtherWalletCall DEF LoadBegan
  <1> QED BY <1>1, <1>2, <1>3, WalletLooks

LEMMA WalletListsKeep ==
  ASSUME WalletInv,
         \/ RefreshLedger \/ \E to \in 1 .. ui.of : LedgerPages(to)
         \/ \E c \in calls : LoadTransactions(c)
  PROVE  WalletInv'
  <1>1. WalletFields
    BY DEF WalletInv, WalletPage
  <1>2. CASE RefreshLedger
    <2>1. Loading(ui, "") /\ UNCHANGED db
      BY <1>2 DEF RefreshLedger
    <2> QED BY <2>1, LoadingShows, WalletLists
  <1>3. ASSUME NEW to, LedgerPages(to)
        PROVE  WalletInv'
    <2>1. PICK u : u = [ui EXCEPT !.at = to]
      OBVIOUS
    <2>2. Refilter(u) /\ UNCHANGED db
      BY <1>3, <2>1 DEF LedgerPages
    <2>3. /\ DOMAIN u = DOMAIN ui /\ u.attempt = ui.attempt /\ u.topup = ui.topup
          /\ u.thanked = ui.thanked /\ u.amount = ui.amount
      BY <1>1, <2>1 DEF WalletFields
    <2> QED BY <2>2, <2>3, RefilterShows, WalletLists
  <1>4. ASSUME NEW c \in calls, LoadTransactions(c)
        PROVE  WalletInv'
    <2>1. PICK u : u = [ui EXCEPT !.loading = FALSE]
      OBVIOUS
    <2>2. ShowRows(c, u)
      BY <1>4, <2>1 DEF LoadTransactions
    <2>4. UNCHANGED db
      BY <2>2 DEF ShowRows
    <2>3. /\ DOMAIN u = DOMAIN ui /\ u.attempt = ui.attempt /\ u.topup = ui.topup
          /\ u.thanked = ui.thanked /\ u.amount = ui.amount
          /\ {"rows", "of", "at", "loading"} \subseteq DOMAIN u
      BY <1>1, <2>1 DEF WalletFields
    <2> QED BY <2>2, <2>3, <2>4, RowsShown, WalletLists
  <1> QED BY <1>2, <1>3, <1>4

(* The shop: payments made and moved *)
LEMMA WalletShops ==
  ASSUME WalletInv, WalletDb', WalletGrows, db'.keys = db.keys, db'.wish = db.wish,
         UNCHANGED ui, \A c \in calls' : c \in calls \/ WalletCall(c)'
  PROVE  WalletInv'
  <1>1. WalletPage'
    BY DEF WalletInv, WalletPage, WalletFields, WalletGrows, KeyFits, Credited
  <1> QED BY <1>1, WalletCallKept DEF WalletInv

LEMMA PaymentMade ==
  ASSUME WalletInv, NEW p \in Topup, db' = [db EXCEPT !.pays = Append(@, p)],
         p.key # 0 => KeyFits(p.key, p.amount), p.status = "pending"
  PROVE  /\ WalletDb' /\ WalletGrows /\ db'.keys = db.keys /\ db'.wish = db.wish
         /\ Len(db'.pays) \in DOMAIN db'.pays
  <1>1. /\ db'.pays = Append(db.pays, p) /\ db'.keys = db.keys /\ db'.wish = db.wish
        /\ db'.wishes = db.wishes /\ db'.is = db.is /\ DOMAIN db' = DOMAIN db
        /\ db.pays \in Seq(Topup) /\ WalletDb
    BY DEF WalletInv, WalletDb
  <1>2. /\ db'.pays \in Seq(Topup) /\ Len(db'.pays) = Len(db.pays) + 1
        /\ \A k \in 1 .. Len(db.pays) : db'.pays[k] = db.pays[k]
        /\ db'.pays[Len(db.pays) + 1] = p
    BY <1>1, AppendProperties
  <1>3. /\ Len(db.pays) \in Nat /\ DOMAIN db.pays = 1 .. Len(db.pays)
        /\ DOMAIN db'.pays = 1 .. Len(db.pays) + 1
    BY <1>1, <1>2, LenProperties
  <1>4. \A k \in DOMAIN db'.pays : k \in DOMAIN db.pays \/ k = Len(db.pays) + 1
    BY <1>3
  <1>5. DOMAIN db.pays \subseteq DOMAIN db'.pays /\ Len(db'.pays) \in DOMAIN db'.pays
    BY <1>2, <1>3
  <1>6. WalletDb'
    BY <1>1, <1>2, <1>3, <1>4 DEF WalletDb, KeyFits, Credited
  <1> QED BY <1>1, <1>5, <1>6 DEF WalletGrows

LEMMA TopupCreatedKeeps ==
  ASSUME WalletInv, NEW c \in calls, TopupCreated(c)
  PROVE  WalletInv'
  <1>1. PICK d : d = [c EXCEPT !.reply = "ok"]
    OBVIOUS
  <1>2. /\ calls' = calls \ {c} \/ calls' = (calls \ {c}) \cup {d}
        /\ UNCHANGED ui /\ c.op = "create"
    BY <1>1 DEF TopupCreated, End, Change
  <1>3. WalletCall(c) /\ CallFields \subseteq DOMAIN c /\ KeyFits(c.target, c.of)
    BY <1>2 DEF WalletInv, WalletCall
  <1>4. WalletCall(d)
    BY <1>1, <1>2, <1>3, CallChanged DEF CallFields
  <1>5. CASE UNCHANGED db
    BY <1>2, <1>4, <1>5, WalletLooks DEF WalletInv, WalletPage, WalletFields
  <1>6. CASE db' = [db EXCEPT !.pays = Append(@, [key |-> c.target, amount |-> c.of,
                                                 status |-> "pending", from |-> 0])]
    <2>1. PICK p : p = [key |-> c.target, amount |-> c.of, status |-> "pending", from |-> 0]
      OBVIOUS
    <2>2. c.target \in Nat /\ c.of \in Nat
      <3>1. db.keys \in Seq(Wish)
        BY DEF WalletInv, WalletDb
      <3>2. db.keys[c.target] \in Wish /\ c.target \in Nat
        BY <1>3, <3>1, LenProperties, ElementOfSeq DEF KeyFits
      <3> QED BY <1>3, <3>2 DEF KeyFits, Wish
    <2>3. p \in Topup
      BY <2>1, <2>2 DEF Topup, TopupStatus
    <2>4. WalletDb' /\ WalletGrows /\ db'.keys = db.keys /\ db'.wish = db.wish
      BY <1>3, <1>6, <2>1, <2>3, PaymentMade
    <2> QED BY <1>2, <1>4, <2>4, WalletCallKept, WalletShops
  <1> QED BY <1>5, <1>6 DEF TopupCreated

LEMMA TopupRenewedKeeps ==
  ASSUME WalletInv, NEW c \in calls, TopupRenewed(c)
  PROVE  WalletInv'
  <1>1. c.op = "renew" /\ UNCHANGED ui
    BY DEF TopupRenewed
  <1>2. CallFields \subseteq DOMAIN c /\ c.target \in DOMAIN db.pays
    BY <1>1 DEF WalletInv, WalletCall
  <1>3. ASSUME NEW p \in DOMAIN db.pays, UNCHANGED db,
               Change(c, [c EXCEPT !.reply = "ok", !.of = p, !.value = db.pays[p].status])
        PROVE  WalletInv'
    <2>1. PICK d : d = [c EXCEPT !.reply = "ok", !.of = p, !.value = db.pays[p].status]
      OBVIOUS
    <2>2. calls' = (calls \ {c}) \cup {d}
      BY <1>3, <2>1 DEF Change
    <2>3. WalletCall(d)
      BY <1>1, <1>2, <2>1 DEF WalletCall, CallFields
    <2> QED BY <1>1, <1>3, <2>2, <2>3, WalletLooks DEF WalletInv, WalletPage, WalletFields
  <1>4. ASSUME db' = [db EXCEPT !.pays = Append(@, [@[c.target] EXCEPT
                                   !.key = 0, !.status = "pending", !.from = c.target])],
               Change(c, [c EXCEPT !.reply = "ok", !.of = Len(db'.pays), !.value = "pending"])
        PROVE  WalletInv'
    <2>1. PICK o : o = db.pays[c.target]
      OBVIOUS
    <2>2. PICK p : p = [o EXCEPT !.key = 0, !.status = "pending", !.from = c.target]
      OBVIOUS
    <2>3. db.pays \in Seq(Topup) /\ {"pays"} \subseteq DOMAIN db
      BY DEF WalletInv, WalletDb
    <2>4. db' = [db EXCEPT !.pays = Append(@, p)]
      BY <1>4, <2>1, <2>2
    <2>5. o \in Topup /\ c.target \in Nat
      BY <1>2, <2>1, <2>3, LenProperties, ElementOfSeq
    <2>6. p \in Topup /\ p.key = 0 /\ p.status = "pending"
      BY <2>2, <2>5 DEF Topup, TopupStatus
    <2>7. /\ WalletDb' /\ WalletGrows /\ db'.keys = db.keys /\ db'.wish = db.wish
          /\ Len(db'.pays) \in DOMAIN db'.pays
      BY <2>4, <2>6, PaymentMade
    <2>8. PICK n : n = Len(db'.pays)
      OBVIOUS
    <2>9. PICK d : d = [c EXCEPT !.reply = "ok", !.of = n, !.value = "pending"]
      OBVIOUS
    <2>10. calls' = (calls \ {c}) \cup {d}
      BY <1>4, <2>8, <2>9 DEF Change
    <2>11. WalletCall(d)'
      <3>1. d.op = "renew" /\ d.of = n /\ d.target = c.target /\ CallFields \subseteq DOMAIN d
        BY <1>1, <1>2, <2>9 DEF CallFields
      <3> QED BY <1>2, <2>7, <2>8, <3>1 DEF WalletCall, WalletGrows
    <2> QED BY <1>1, <2>7, <2>10, <2>11, WalletShops
  <1> QED BY <1>3, <1>4 DEF TopupRenewed

LEMMA TopupMovesKeeps ==
  ASSUME WalletInv, NEW q \in Items, NEW to \in TopupStatus, TopupMoves(q, to)
  PROVE  WalletInv'
  <1>1. PICK o : o = db.pays[q]
    OBVIOUS
  <1>2. PICK p : p = [o EXCEPT !.status = to]
    OBVIOUS
  <1>3. PICK is : is = [db.is EXCEPT ![q] = IF to = "paid" THEN "topup" ELSE @]
    OBVIOUS
  <1>4. /\ {"is", "pays", "keys", "wish", "wishes", "errand"} \subseteq DOMAIN db
        /\ db.pays \in Seq(Topup) /\ DOMAIN db.is = Items /\ q \in DOMAIN db.pays
    BY DEF WalletInv, WalletDb, TopupMoves
  <1>5. /\ db'.pays = [db.pays EXCEPT ![q] = p] /\ db'.is = is /\ DOMAIN db' = DOMAIN db
        /\ db'.keys = db.keys /\ db'.wish = db.wish /\ db'.wishes = db.wishes
        /\ UNCHANGED <<ui, calls>> /\ o.status # "paid"
    BY <1>1, <1>2, <1>3, <1>4 DEF TopupMoves
  <1>6. o \in Topup
    BY <1>1, <1>4, LenProperties, ElementOfSeq
  <1>7. p \in Topup /\ p.key = o.key /\ p.amount = o.amount /\ p.status = to
    BY <1>2, <1>6 DEF Topup
  <1>8. /\ db'.pays \in Seq(Topup) /\ DOMAIN db'.pays = DOMAIN db.pays /\ db'.pays[q] = p
        /\ \A k \in DOMAIN db.pays : k # q => db'.pays[k] = db.pays[k]
    BY <1>4, <1>5, <1>7, ExceptSeq, LenProperties
  <1>9. /\ DOMAIN is = Items /\ \A i \in Items : i # q => is[i] = db.is[i]
        /\ is[q] = IF to = "paid" THEN "topup" ELSE db.is[q]
    BY <1>3, <1>4
  <1>10. \A i \in Items : db.is[i] # "absent" => is[i] # "absent"
    BY <1>9
  <1>11. WalletDb'
    <2>1. \A k \in DOMAIN db'.pays :
            /\ db'.pays[k].key = db.pays[k].key /\ db'.pays[k].amount = db.pays[k].amount
            /\ db'.pays[k].status = "paid" =>
                 db.pays[k].status = "paid" \/ (k = q /\ to = "paid")
      BY <1>1, <1>7, <1>8
    <2> QED BY <1>4, <1>5, <1>8, <1>9, <1>10, <2>1 DEF WalletInv, WalletDb, KeyFits, Credited
  <1>12. WalletGrows
    BY <1>5, <1>8, <1>10 DEF WalletGrows
  <1> QED BY <1>5, <1>11, <1>12, WalletCallKept, WalletShops DEF WalletInv

LEMMA WalletNextKeeps == WalletInv /\ WalletNext => WalletInv'
  <1> SUFFICES ASSUME WalletInv, WalletNext
               PROVE  WalletInv'
    OBVIOUS
  <1>1. CASE \E amount \in Amounts : TopupForm(amount)
    BY <1>1, TopupFormKeeps
  <1>2. CASE HandleRenewTopup \/ HandleCreateTopup \/ CloseTopupPanel \/ CheckTopupStatus
             \/ BalanceCard
    BY <1>2, HandleRenewTopupKeeps, HandleCreateTopupKeeps, CloseTopupPanelKeeps,
       CheckTopupStatusKeeps, BalanceCardKeeps
  <1>3. CASE RefreshLedger \/ \E to \in 1 .. ui.of : LedgerPages(to)
    BY <1>3, WalletListsKeep
  <1>4. CASE \E c \in calls : \/ TopupCreated(c) \/ CreateAnswered(c) \/ CreateFailed(c)
                             \/ ReadTopup(c) \/ TopupStatusChange(c) \/ PollFailed(c)
                             \/ TopupRenewed(c) \/ RenewAnswered(c) \/ RenewFailed(c)
    BY <1>4, TopupCreatedKeeps, CreateAnsweredKeeps, CreateFailedKeeps, ReadTopupKeeps,
       TopupStatusChangeKeeps, WalletCallsEnd, TopupRenewedKeeps, RenewAnsweredKeeps
  <1>5. CASE \E c \in calls : \/ ReadBalance(c) \/ BalanceAnswered(c)
                             \/ ReadRows(c) \/ LoadTransactions(c)
    BY <1>5, WalletReads, WalletCallsEnd, WalletListsKeep
  <1>6. CASE \E p \in Items : \E to \in TopupStatus : TopupMoves(p, to)
    BY <1>6, TopupMovesKeeps
  <1> QED BY <1>1, <1>2, <1>3, <1>4, <1>5, <1>6 DEF WalletNext

LEMMA WalletTellsTruth == WalletInv => ThankedWhenCredited
  BY DEF WalletInv, WalletPage, Credited, ThankedWhenCredited

LEMMA WalletKeyPerWish == WalletInv => OneTopupPerWish
  BY DEF WalletInv, WalletDb, KeyFits, OneTopupPerWish

-----------------------------------------------------------------------------
(* The dashboard.  What was told is at most what the browser remembers, be it
   in its storage or, for as long as the page lives, in the page; the latest
   of the completed orders is one of them. *)

HasLatest(S) == S = {} \/ \E o \in S : \A p \in S : p \leq o

NewsDb ==
  /\ {"done", "review", "works", "kept", "reloads", "told"} \subseteq DOMAIN db
  /\ db.told \in [Items -> Nat] /\ db.kept \in Nat /\ db.reloads \in Nat
  /\ db.done \subseteq Items /\ HasLatest(db.done)
  /\ \A o \in Items : db.told[o] > 0 => o \in db.done

NewsTold ==
  \A o \in Items :
    IF db.works THEN db.told[o] \leq (IF o \leq db.kept THEN 1 ELSE 0)
    ELSE db.told[o] \leq db.reloads + (IF o \leq ui.seen THEN 1 ELSE 0)

NewsFields ==
  /\ {"orders", "refreshing", "seen", "prompt", "open", "form", "sending", "has", "eligible",
      "reading", "overlay"} \subseteq DOMAIN ui
  /\ ui.seen \in Nat

NewsPage ==
  /\ NewsFields
  /\ ui.open => ui.prompt # 0
  /\ ui.prompt # 0 => ui.prompt \in Items /\ db.told[ui.prompt] > 0

ReadFields == {"id", "op", "then", "reply", "orders", "has"}
ReadOK(c) == ReadFields \subseteq DOMAIN c /\ c.orders \subseteq db.done /\ HasLatest(c.orders)

DashboardInv == NewsDb /\ NewsTold /\ NewsPage /\ \A c \in calls : ReadOK(c)

LEMMA ReadMade ==
  ASSUME NEW n, NEW op, NEW then
  PROVE  ReadOK(Read(n, op, then))
  <1>1. PICK c : c = Read(n, op, then)
    OBVIOUS
  <1>2. ReadFields \subseteq DOMAIN c /\ c.orders = {}
    BY <1>1 DEF Read, ReadFields
  <1> QED BY <1>1, <1>2 DEF ReadOK, HasLatest

(* A page loaded anew: nothing shown, everything read. *)
LEMMA FreshReads ==
  /\ \A c \in FirstReads : ReadOK(c)
  /\ {"orders", "refreshing", "seen", "prompt", "open", "form", "sending", "has", "eligible",
      "reading", "overlay"} \subseteq DOMAIN FreshPage
  /\ FreshPage.seen = 0 /\ FreshPage.prompt = 0 /\ FreshPage.open = FALSE
  BY ReadMade DEF FirstReads, FreshPage

LEMMA DashboardInit_Inv == DashboardInit => DashboardInv
  <1> SUFFICES ASSUME DashboardInit
               PROVE  DashboardInv
    OBVIOUS
  <1>1. PICK works \in BOOLEAN :
          db = [done |-> {}, review |-> FALSE, works |-> works, kept |-> 0, reloads |-> 0,
                told |-> [o \in Items |-> 0]]
    BY DEF DashboardInit
  <1>2. NewsDb
    BY <1>1 DEF NewsDb, HasLatest
  <1>3. ui = FreshPage /\ calls = FirstReads
    BY DEF DashboardInit
  <1>4. NewsPage
    BY <1>3, FreshReads DEF NewsPage, NewsFields
  <1>5. NewsTold
    <2>1. db.told = [o \in Items |-> 0] /\ db.reloads = 0 /\ db.kept = 0
      BY <1>1
    <2>2. ui.seen = 0
      BY <1>3, FreshReads
    <2> QED BY <2>1, <2>2, ListAssumption DEF NewsTold
  <1> QED BY <1>2, <1>3, <1>4, <1>5, FreshReads DEF DashboardInv

(* Mostly nothing is told, and the prompt stays or goes. *)
LEMMA NewsQuiet ==
  ASSUME DashboardInv, UNCHANGED db, NewsFields', ui'.seen = ui.seen,
         ui'.prompt \in {0, ui.prompt}, ui'.open => ui'.prompt # 0,
         \A c \in calls' : c \in calls \/ ReadOK(c)
  PROVE  DashboardInv'
  <1>1. NewsDb' /\ NewsTold' /\ NewsPage'
    BY DEF DashboardInv, NewsDb, NewsTold, NewsPage
  <1>2. \A c \in calls' : ReadOK(c)'
    BY DEF DashboardInv, ReadOK
  <1> QED BY <1>1, <1>2 DEF DashboardInv

LEMMA PromptSteps ==
  ASSUME DashboardInv,
         \/ PromptOpens \/ CloseReviewExperience \/ ShowReviewForm \/ OverlayChanges
  PROVE  DashboardInv'
  <1>1. NewsPage /\ NewsFields
    BY DEF DashboardInv, NewsPage
  <1>2. UNCHANGED <<db, calls>> /\ NewsFields' /\ ui'.seen = ui.seen
        /\ ui'.prompt \in {0, ui.prompt} /\ (ui'.open => ui'.prompt # 0)
    BY <1>1 DEF PromptOpens, PromptDue, CloseReviewExperience, ShowReviewForm, OverlayChanges,
                NewsPage, NewsFields
  <1> QED BY <1>2, NewsQuiet

LEMMA ReadsBegin ==
  ASSUME DashboardInv, SendReview \/ DashboardRefresh \/ ReviewRefresh
  PROVE  DashboardInv'
  <1>1. NewsPage /\ NewsFields
    BY DEF DashboardInv, NewsPage
  <1>2. PICK op, then : calls' = calls \cup {Read(FreeId, op, then)}
    BY DEF SendReview, DashboardRefresh, ReviewRefresh, Begin
  <1>3. UNCHANGED db /\ NewsFields' /\ ui'.seen = ui.seen
        /\ ui'.prompt = ui.prompt /\ ui'.open = ui.open
    BY <1>1 DEF SendReview, DashboardRefresh, ReviewRefresh, NewsPage, NewsFields
  <1> QED BY <1>1, <1>2, <1>3, ReadMade, NewsQuiet DEF NewsPage

LEMMA ReadsAnswered ==
  ASSUME DashboardInv, NEW c \in calls, ReviewAnswered(c) \/ ShopReads(c) \/ ReadFails(c)
  PROVE  DashboardInv'
  <1>1. NewsPage /\ NewsFields /\ ReadOK(c) /\ NewsDb
    BY DEF DashboardInv, NewsPage
  <1>2. UNCHANGED db /\ NewsFields' /\ ui'.seen = ui.seen
        /\ ui'.prompt = ui.prompt /\ ui'.open = ui.open
    BY <1>1 DEF ReviewAnswered, ShopReads, ReadFails, NewsPage, NewsFields
  <1>3. \A d \in calls' : d \in calls \/ ReadOK(d)
    <2>1. CASE ReviewAnswered(c)
      BY <2>1, ReadMade DEF ReviewAnswered, Change, End
    <2>2. CASE ShopReads(c)
      <3>1. PICK d : d = [c EXCEPT !.reply = "ok", !.orders = db.done, !.has = db.review]
        OBVIOUS
      <3>2. ReadFields \subseteq DOMAIN d /\ d.orders = db.done
        BY <1>1, <3>1 DEF ReadOK, ReadFields
      <3>3. calls' = (calls \ {c}) \cup {d}
        BY <2>2, <3>1 DEF ShopReads, Change
      <3> QED BY <1>1, <3>2, <3>3 DEF ReadOK, NewsDb
    <2>3. CASE ReadFails(c)
      BY <2>3 DEF ReadFails, End
    <2> QED BY <2>1, <2>2, <2>3
  <1> QED BY <1>1, <1>2, <1>3, NewsQuiet DEF NewsPage

LEMMA MyReviewReadKeeps ==
  ASSUME DashboardInv, NEW c \in calls, MyReviewRead(c)
  PROVE  DashboardInv'
  <1>1. NewsPage /\ NewsFields
    BY DEF DashboardInv, NewsPage
  <1>2. PICK u : u = [ui EXCEPT !.reading = FALSE,
                         !.has = IF c.reply = "ok" THEN c.has ELSE @,
                         !.eligible = IF c.reply = "ok" THEN c.orders # {} ELSE @,
                         !.refreshing = @ /\ c.then # "told"]
    OBVIOUS
  <1>3. PICK v : v = IF c.then # "close" THEN u
                     ELSE [u EXCEPT !.sending = FALSE, !.open = FALSE, !.form = FALSE,
                                    !.prompt = 0]
    OBVIOUS
  <1>4. ui' = Settled(v) /\ UNCHANGED db /\ calls' = calls \ {c}
    BY <1>2, <1>3 DEF MyReviewRead, End
  <1>5. DOMAIN u = DOMAIN ui /\ u.seen = ui.seen /\ u.prompt = ui.prompt /\ u.open = ui.open
    BY <1>1, <1>2 DEF NewsFields
  <1>6. DOMAIN v = DOMAIN ui /\ v.seen = ui.seen /\ v.prompt \in {0, ui.prompt}
        /\ (v.open => v.prompt # 0)
    BY <1>1, <1>3, <1>5 DEF NewsPage, NewsFields
  <1>7. NewsFields' /\ ui'.seen = ui.seen /\ ui'.prompt \in {0, ui.prompt}
        /\ (ui'.open => ui'.prompt # 0)
    BY <1>1, <1>4, <1>6 DEF Settled, NewsFields
  <1> QED BY <1>4, <1>7, NewsQuiet

(* The shop *)
LEMMA NewsElsewhere ==
  ASSUME DashboardInv,
         \/ ReviewedElsewhere
         \/ \E c \in calls : ReviewStored(c)
         \/ \E o \in Items : OrderCompleted(o)
  PROVE  DashboardInv'
  <1>1. NewsDb /\ NewsTold /\ NewsPage
    BY DEF DashboardInv
  <1>2. /\ UNCHANGED ui /\ DOMAIN db' = DOMAIN db /\ db'.works = db.works
        /\ db'.kept = db.kept /\ db'.reloads = db.reloads /\ db'.told = db.told
        /\ db'.done = db.done \/ \E o \in Items : db'.done = db.done \cup {o}
    BY <1>1 DEF NewsDb, ReviewedElsewhere, ReviewStored, OrderCompleted
  <1>3. HasLatest(db'.done)
    <2>1. CASE db'.done = db.done
      BY <1>1, <2>1 DEF NewsDb
    <2>2. ASSUME NEW o \in Items, db'.done = db.done \cup {o}
          PROVE  HasLatest(db'.done)
      <3>1. CASE db.done = {}
        BY <2>2, <3>1, ListAssumption DEF HasLatest
      <3>2. ASSUME NEW l \in db.done, \A p \in db.done : p \leq l
            PROVE  HasLatest(db'.done)
        <4>1. l \in Nat /\ o \in Nat /\ \A p \in db.done : p \in Nat
          BY <1>1, ListAssumption DEF NewsDb
        <4>2. CASE o \leq l
          BY <2>2, <3>2, <4>2 DEF HasLatest
        <4>3. CASE l \leq o
          <5>1. \A p \in db'.done : p \leq o
            BY <2>2, <3>2, <4>1, <4>3
          <5> QED BY <2>2, <5>1 DEF HasLatest
        <4> QED BY <4>1, <4>2, <4>3
      <3> QED BY <1>1, <3>1, <3>2 DEF NewsDb, HasLatest
    <2> QED BY <1>2, <2>1, <2>2
  <1>4. NewsDb' /\ db.done \subseteq db'.done
    BY <1>1, <1>2, <1>3 DEF NewsDb
  <1>5. NewsTold' /\ NewsPage'
    BY <1>1, <1>2 DEF NewsTold, NewsPage, NewsFields
  <1>6. \A c \in calls' : ReadOK(c)'
    <2>1. ASSUME NEW c, ReadOK(c)
          PROVE  ReadOK(c)'
      BY <1>4, <2>1 DEF ReadOK
    <2>2. CASE UNCHANGED calls
      BY <2>1, <2>2 DEF DashboardInv
    <2>3. ASSUME NEW c \in calls, ReviewStored(c)
          PROVE  \A d \in calls' : ReadOK(d)'
      <3>1. PICK d : d = [c EXCEPT !.reply = "ok"]
        OBVIOUS
      <3>2. ReadOK(d)
        BY <3>1 DEF DashboardInv, ReadOK, ReadFields
      <3>3. calls' = (calls \ {c}) \cup {d}
        BY <2>3, <3>1 DEF ReviewStored, Change
      <3> QED BY <2>1, <3>2, <3>3 DEF DashboardInv
    <2> QED BY <2>2, <2>3 DEF ReviewedElsewhere, OrderCompleted
  <1> QED BY <1>4, <1>5, <1>6 DEF DashboardInv

(* A browser that keeps nothing forgets what the page has seen. *)
LEMMA ReloadedKeeps ==
  ASSUME DashboardInv, Reloaded
  PROVE  DashboardInv'
  <1>1. NewsDb /\ NewsTold /\ NewsPage
    BY DEF DashboardInv
  <1>2. /\ ui' = FreshPage /\ calls' = FirstReads
        /\ DOMAIN db' = DOMAIN db /\ db'.works = db.works /\ db'.done = db.done
        /\ db'.kept = db.kept /\ db'.reloads = db.reloads + 1 /\ db'.told = db.told
    BY <1>1 DEF NewsDb, Reloaded
  <1>3. NewsDb'
    BY <1>1, <1>2 DEF NewsDb
  <1>4. NewsTold'
    <2> SUFFICES ASSUME NEW o \in Items
                 PROVE  IF db'.works THEN db'.told[o] \leq (IF o \leq db'.kept THEN 1 ELSE 0)
                        ELSE db'.told[o] \leq db'.reloads + (IF o \leq ui'.seen THEN 1 ELSE 0)
      BY DEF NewsTold
    <2>1. db.told[o] \in Nat /\ db.reloads \in Nat /\ o \in Nat \ {0} /\ ui'.seen = 0
      BY <1>1, <1>2, FreshReads, ListAssumption DEF NewsDb
    <2>2. IF db.works THEN db.told[o] \leq (IF o \leq db.kept THEN 1 ELSE 0)
          ELSE db.told[o] \leq db.reloads + (IF o \leq ui.seen THEN 1 ELSE 0)
      BY <1>1 DEF NewsTold
    <2> QED BY <1>2, <2>1, <2>2
  <1>5. NewsPage'
    BY <1>2, FreshReads DEF NewsPage, NewsFields
  <1>6. \A c \in calls' : ReadOK(c)'
    BY <1>2, FreshReads DEF ReadOK
  <1> QED BY <1>3, <1>4, <1>5, <1>6 DEF DashboardInv

(* News is told of an order later than any that was told. *)
LEMMA OrdersSummaryKeeps ==
  ASSUME DashboardInv, NEW c \in calls, OrdersSummary(c)
  PROVE  DashboardInv'
  <1>1. NewsDb /\ NewsTold /\ NewsPage /\ NewsFields /\ ReadOK(c)
    BY DEF DashboardInv, NewsPage
  <1>2. PICK u : u = [ui EXCEPT !.orders = c.orders]
    OBVIOUS
  <1>3. DOMAIN u = DOMAIN ui /\ u.seen = ui.seen /\ u.prompt = ui.prompt /\ u.open = ui.open
    BY <1>1, <1>2 DEF NewsFields
  <1>4. PICK news : news = Latest(c.orders)
    OBVIOUS
  <1>5. CASE ui' = u /\ End(c) /\ UNCHANGED db
    BY <1>1, <1>3, <1>5, NewsQuiet DEF NewsPage, NewsFields, End
  <1>6. CASE ~(c.orders = {} \/ ui.refreshing \/ news \leq LastSeen)
    <2>1. /\ ui' = [u EXCEPT !.refreshing = TRUE, !.seen = news, !.prompt = news,
                                 !.reading = TRUE, !.form = @ /\ ui.prompt = news]
          /\ calls' = (calls \ {c}) \cup {Read(c.id, "mine", "told")}
          /\ db' = [db EXCEPT !.told[news] = @ + 1, !.kept = IF db.works THEN news ELSE @]
      BY <1>2, <1>4, <1>6 DEF OrdersSummary, Change
    <2>2. news \in c.orders
      BY <1>1, <1>4, <1>6 DEF ReadOK, HasLatest, Latest
    <2>3. news \in Items /\ news \in db.done /\ news \in Nat \ {0}
      BY <1>1, <2>2, ListAssumption DEF ReadOK, NewsDb
    <2>4. ui.seen < news /\ (db.works => db.kept < news)
      BY <1>1, <1>6, <2>3 DEF LastSeen, NewsDb, NewsFields
    <2>5. PICK told : told = [db.told EXCEPT ![news] = @ + 1]
      OBVIOUS
    <2>6. /\ DOMAIN db' = DOMAIN db /\ db'.told = told /\ db'.works = db.works
          /\ db'.kept = (IF db.works THEN news ELSE db.kept) /\ db'.done = db.done
          /\ db'.reloads = db.reloads
      BY <1>1, <2>1, <2>5 DEF NewsDb
    <2>7. /\ DOMAIN ui' = DOMAIN ui /\ ui'.seen = news /\ ui'.prompt = news
      BY <1>1, <1>3, <2>1 DEF NewsFields
    <2>8. /\ told \in [Items -> Nat] /\ told[news] = db.told[news] + 1
          /\ \A o \in Items : o # news => told[o] = db.told[o]
          /\ db.told[news] \in Nat
      BY <1>1, <2>3, <2>5 DEF NewsDb
    <2>9. NewsDb'
      BY <1>1, <2>3, <2>6, <2>8 DEF NewsDb
    <2>10. NewsTold'
      <3> SUFFICES ASSUME NEW o \in Items
                   PROVE  IF db'.works THEN db'.told[o] \leq (IF o \leq db'.kept THEN 1 ELSE 0)
                          ELSE db'.told[o] \leq db'.reloads + (IF o \leq ui'.seen THEN 1 ELSE 0)
        BY DEF NewsTold
      <3>1. IF db.works THEN db.told[o] \leq (IF o \leq db.kept THEN 1 ELSE 0)
            ELSE db.told[o] \leq db.reloads + (IF o \leq ui.seen THEN 1 ELSE 0)
        BY <1>1 DEF NewsTold
      <3>2. /\ db.told[o] \in Nat /\ o \in Nat /\ db.kept \in Nat /\ db.reloads \in Nat
            /\ ui.seen \in Nat
        BY <1>1, ListAssumption DEF NewsDb, NewsFields
      <3>3. CASE o = news
        BY <2>3, <2>4, <2>6, <2>7, <2>8, <3>1, <3>2, <3>3
      <3>4. CASE o # news
        BY <2>3, <2>4, <2>6, <2>7, <2>8, <3>1, <3>2, <3>4
      <3> QED BY <3>3, <3>4
    <2>11. NewsPage'
      <3>1. db'.told[news] > 0
        BY <2>6, <2>8
      <3> QED BY <1>1, <2>3, <2>7, <3>1 DEF NewsPage, NewsFields
    <2>12. \A d \in calls' : ReadOK(d)'
      <3>1. ReadOK(Read(c.id, "mine", "told"))
        BY ReadMade
      <3> QED BY <2>1, <2>6, <3>1 DEF DashboardInv, ReadOK
    <2> QED BY <2>9, <2>10, <2>11, <2>12 DEF DashboardInv
  <1> QED BY <1>2, <1>4, <1>5, <1>6 DEF OrdersSummary

LEMMA DashboardNextKeeps == DashboardInv /\ DashboardNext => DashboardInv'
  <1> SUFFICES ASSUME DashboardInv, DashboardNext
               PROVE  DashboardInv'
    OBVIOUS
  <1>1. CASE \E c \in calls : \/ ReviewAnswered(c) \/ ShopReads(c) \/ ReadFails(c)
                             \/ OrdersSummary(c) \/ MyReviewRead(c)
    BY <1>1, ReadsAnswered, OrdersSummaryKeeps, MyReviewReadKeeps
  <1> QED BY <1>1, ReloadedKeeps, PromptSteps, ReadsBegin, NewsElsewhere DEF DashboardNext

LEMMA DashboardTellsTruth == DashboardInv => AnnouncedOnce
  <1> SUFFICES ASSUME DashboardInv
               PROVE  AnnouncedOnce
    OBVIOUS
  <1>1. ASSUME NEW o \in Items
        PROVE  db.told[o] \leq 1 + (IF db.works THEN 0 ELSE db.reloads)
    <2>1. db.told[o] \in Nat /\ db.reloads \in Nat
      BY DEF DashboardInv, NewsDb
    <2>2. IF db.works THEN db.told[o] \leq (IF o \leq db.kept THEN 1 ELSE 0)
          ELSE db.told[o] \leq db.reloads + (IF o \leq ui.seen THEN 1 ELSE 0)
      BY DEF DashboardInv, NewsTold
    <2> QED BY <2>1, <2>2
  <1> QED BY <1>1 DEF DashboardInv, NewsDb, NewsPage, AnnouncedOnce

-----------------------------------------------------------------------------
(* The progress of an order.  A provider's loop that still writes is of the
   order that is shown; what it brings is a state that order had. *)

ProgressFields ==
  {"step", "order", "kind", "client", "queue", "provider", "error", "stopped", "ticket"}
LoopFields == {"id", "op", "order", "seen", "live", "stage", "reply"}

ProgressPage ==
  /\ ProgressFields \subseteq DOMAIN ui
  /\ ui.step = "completed" => ui.order \in ProgressOrders
  /\ ui.step # "completed" => ui.provider = "none"
  /\ ProviderHeadlineTrue

ProgressDb ==
  /\ {"bought", "kind", "provider", "was", "queue"} \subseteq DOMAIN db
  /\ DOMAIN db.provider = ProgressOrders /\ DOMAIN db.was = ProgressOrders
  /\ \A o \in ProgressOrders : db.provider[o] \in db.was[o]

(* What was read of a provider's order, and if c is that of the effect of u. *)
ReadTrue(c) ==
  c.op = "provider" =>
    /\ c.order \in ProgressOrders
    /\ c.stage = "answered" => c.reply \in db.was[c.order]

OfPage(c, u) ==
  c.op = "provider" /\ c.live => u.step = "completed" /\ u.kind = "provider" /\ c.order = u.order

LoopOK(c) == LoopFields \subseteq DOMAIN c /\ ReadTrue(c)

ProgressInv ==
  ProgressPage /\ ProgressDb /\ \A c \in calls : LoopOK(c) /\ OfPage(c, ui)

LEMMA LoopMade ==
  ASSUME NEW op, NEW order, NEW seen, NEW stage, stage # "answered",
         op = "provider" => order \in ProgressOrders, NEW c, c = Loop(op, order, seen, stage)
  PROVE  LoopOK(c) /\ c.op = op /\ c.order = order
  BY DEF Loop, LoopOK, LoopFields, ReadTrue

LEMMA ProgressInit_Inv == ProgressInit => ProgressInv
  <1> SUFFICES ASSUME ProgressInit
               PROVE  ProgressInv
    OBVIOUS
  <1>1. ui = NotShown /\ calls = {}
    BY DEF ProgressInit
  <1>2. ProgressFields \subseteq DOMAIN NotShown /\ NotShown.step = "elsewhere"
        /\ NotShown.provider = "none"
    BY DEF NotShown, ProgressFields
  <1>3. ProgressDb
    BY DEF ProgressInit, ProgressDb
  <1> QED BY <1>1, <1>2, <1>3 DEF ProgressInv, ProgressPage, ProviderHeadlineTrue

(* The effects leave no live loop that is not of the new page. *)
LEMMA CleanupStops ==
  ASSUME NEW cs, \A c \in cs : LoopOK(c), NEW op
  PROVE  /\ \A c \in Cleanup(cs, op) : LoopOK(c) /\ (c.op = op => ~c.live)
         /\ \A c \in Cleanup(cs, op) : c.op # op => c \in cs
  <1> SUFFICES ASSUME NEW c \in Cleanup(cs, op)
               PROVE  LoopOK(c) /\ (c.op = op => ~c.live) /\ (c.op # op => c \in cs)
    OBVIOUS
  <1>1. PICK d \in cs : c = IF d.op = op THEN [d EXCEPT !.live = FALSE] ELSE d
    BY DEF Cleanup
  <1> QED BY <1>1 DEF LoopOK, LoopFields, ReadTrue

LEMMA RenderKeeps ==
  ASSUME ProgressInv, ProgressDb', db'.was = db.was, NEW u, NEW cs, Render(u, cs),
         \A c \in cs : LoopOK(c) /\ OfPage(c, ui),
         ProgressFields \subseteq DOMAIN u,
         u.step = "completed" => u.order \in ProgressOrders,
         u.step # "completed" => u.provider = "none",
         u.step = "completed" /\ u.provider # "none" =>
           u.kind = "provider" /\ u.provider \in db.was[u.order]
  PROVE  ProgressInv'
  <1>1. PICK q : q = IF QueueDeps(u) # QueueDeps(ui) THEN Cleanup(cs, "queue") ELSE cs
    OBVIOUS
  <1>2. PICK kept : kept = IF ProviderDeps(u) # ProviderDeps(ui) THEN Cleanup(q, "provider")
                           ELSE q
    OBVIOUS
  <1>3. PICK s : s = IF QueueDeps(u) # QueueDeps(ui) /\ QueuePolling(u)
                     THEN {Loop("queue", u.client, u.queue, "timer")} ELSE {}
    OBVIOUS
  <1>4. PICK t : t = IF ProviderDeps(u) # ProviderDeps(ui) /\ ProviderPolling(u)
                     THEN {Loop("provider", u.order, "none", "sent")} ELSE {}
    OBVIOUS
  <1>5. /\ calls' = kept \cup (s \cup t)
        /\ ui' = IF ProviderDeps(u) # ProviderDeps(ui) /\ ProviderPolling(u)
                 THEN [u EXCEPT !.stopped = FALSE] ELSE u
    BY <1>1, <1>2, <1>3, <1>4 DEF Render
  <1>6. /\ ui'.step = u.step /\ ui'.kind = u.kind /\ ui'.order = u.order
        /\ ui'.provider = u.provider /\ DOMAIN ui' = DOMAIN u
    BY <1>5 DEF ProgressFields
  <1>7. \A c \in q : LoopOK(c) /\ OfPage(c, ui)
    BY <1>1, CleanupStops DEF OfPage
  <1>8. \A c \in kept : LoopOK(c) /\ OfPage(c, u)
    <2>1. CASE ProviderDeps(u) # ProviderDeps(ui)
      <3>1. kept = Cleanup(q, "provider")
        BY <1>2, <2>1
      <3> QED BY <1>7, <3>1, CleanupStops DEF OfPage
    <2>2. CASE ProviderDeps(u) = ProviderDeps(ui)
      <3>1. u.step = ui.step /\ u.kind = ui.kind /\ u.order = ui.order
        BY <2>2 DEF ProviderDeps
      <3> QED BY <1>2, <1>7, <2>2, <3>1 DEF OfPage
    <2> QED BY <2>1, <2>2
  <1>9. \A c \in s : LoopOK(c) /\ c.op = "queue"
    BY <1>3, LoopMade
  <1>10. \A c \in t : LoopOK(c) /\ OfPage(c, u)
    <2> SUFFICES ASSUME NEW c \in t
                 PROVE  LoopOK(c) /\ OfPage(c, u)
      OBVIOUS
    <2>1. ProviderPolling(u) /\ c = Loop("provider", u.order, "none", "sent")
      BY <1>4
    <2>2. LoopOK(c) /\ c.order = u.order
      BY <2>1, LoopMade DEF ProviderPolling
    <2> QED BY <2>1, <2>2 DEF ProviderPolling, OfPage
  <1>11. \A c \in calls' : LoopOK(c)' /\ OfPage(c, ui')
    <2>1. \A c \in calls' : LoopOK(c) /\ OfPage(c, u)
      BY <1>5, <1>8, <1>9, <1>10 DEF OfPage
    <2> QED BY <1>6, <2>1 DEF LoopOK, ReadTrue, OfPage
  <1>12. ProgressPage'
    BY <1>6 DEF ProgressInv, ProgressPage, ProviderHeadlineTrue
  <1> QED BY <1>11, <1>12 DEF ProgressInv

(* Nothing but a call is touched. *)
LEMMA LoopsQuiet ==
  ASSUME ProgressInv, UNCHANGED db, ProgressFields \subseteq DOMAIN ui', ui'.step = ui.step,
         ui'.order = ui.order, ui'.kind = ui.kind, ui'.provider = ui.provider,
         \A c \in calls' : c \in calls \/ (LoopOK(c) /\ OfPage(c, ui))
  PROVE  ProgressInv'
  <1>1. ProgressPage' /\ ProgressDb'
    BY DEF ProgressInv, ProgressPage, ProgressDb, ProviderHeadlineTrue
  <1>2. \A c \in calls' : LoopOK(c)' /\ OfPage(c, ui')
    BY DEF ProgressInv, LoopOK, ReadTrue, OfPage
  <1> QED BY <1>1, <1>2 DEF ProgressInv

LEMMA OrderBoughtKeeps ==
  ASSUME ProgressInv, OrderBought
  PROVE  ProgressInv'
  <1>1. PICK o : o = db.bought + 1
    OBVIOUS
  <1>2. PICK u : u = [ui EXCEPT !.step = "completed", !.order = o, !.kind = db.kind[o],
                               !.client = IF db.kind[o] = "queue" THEN o ELSE 0,
                               !.queue = "waiting"]
    OBVIOUS
  <1>3. /\ db' = [db EXCEPT !.bought = o] /\ Render(u, calls)
        /\ o \in ProgressOrders /\ ui.step = "elsewhere"
    BY <1>1, <1>2 DEF OrderBought
  <1>4. ProgressPage /\ ProgressDb
    BY DEF ProgressInv
  <1>5. ProgressDb' /\ db'.was = db.was
    BY <1>3, <1>4 DEF ProgressDb
  <1>6. /\ ProgressFields \subseteq DOMAIN u /\ u.step = "completed" /\ u.order = o
        /\ u.provider = ui.provider
    BY <1>2, <1>4 DEF ProgressPage, ProgressFields
  <1>7. u.provider = "none"
    BY <1>3, <1>4, <1>6 DEF ProgressPage
  <1> QED BY <1>3, <1>5, <1>6, <1>7, RenderKeeps DEF ProgressInv

LEMMA ProgressResetKeeps ==
  ASSUME ProgressInv, ProgressReset
  PROVE  ProgressInv'
  <1>1. PICK u : u = [NotShown EXCEPT !.error = ui.error, !.stopped = ui.stopped,
                                      !.ticket = ui.ticket]
    OBVIOUS
  <1>2. Render(u, calls) /\ UNCHANGED db
    BY <1>1 DEF ProgressReset
  <1>3. ProgressFields \subseteq DOMAIN u /\ u.step = "elsewhere" /\ u.provider = "none"
    BY <1>1 DEF NotShown, ProgressFields
  <1>4. ProgressDb' /\ db'.was = db.was
    BY <1>2 DEF ProgressInv, ProgressDb
  <1> QED BY <1>2, <1>3, <1>4, RenderKeeps DEF ProgressInv

LEMMA LoopsMove ==
  ASSUME ProgressInv, NEW c \in calls, TimerFires(c) \/ ReadStatus(c) \/ TicketAnswered(c)
  PROVE  ProgressInv'
  <1>1. ProgressPage /\ ProgressDb /\ LoopOK(c) /\ OfPage(c, ui)
    BY DEF ProgressInv
  <1>2. /\ UNCHANGED db /\ ProgressFields \subseteq DOMAIN ui' /\ ui'.step = ui.step
        /\ ui'.order = ui.order /\ ui'.kind = ui.kind /\ ui'.provider = ui.provider
    BY <1>1 DEF ProgressPage, ProgressFields, TimerFires, ReadStatus, TicketAnswered
  <1>3. CASE TimerFires(c)
    <2>1. PICK d : d = [c EXCEPT !.stage = "sent"]
      OBVIOUS
    <2>2. LoopOK(d) /\ OfPage(d, ui)
      BY <1>1, <2>1 DEF LoopOK, LoopFields, ReadTrue, OfPage
    <2>3. calls' = (calls \ {c}) \cup {d}
      BY <1>3, <2>1 DEF TimerFires, Change
    <2> QED BY <1>2, <2>2, <2>3, LoopsQuiet
  <1>4. CASE ReadStatus(c)
    <2>1. PICK d : d = [c EXCEPT !.stage = "answered",
                                 !.reply = IF c.op = "queue" THEN db.queue[c.order]
                                           ELSE db.provider[c.order]]
      OBVIOUS
    <2>2. /\ LoopFields \subseteq DOMAIN d /\ d.op = c.op /\ d.live = c.live
          /\ d.order = c.order
      BY <1>1, <2>1 DEF LoopOK, LoopFields
    <2>3. c.op = "provider" => d.reply = db.provider[c.order] /\ c.order \in ProgressOrders
      BY <1>1, <2>1 DEF LoopOK, LoopFields, ReadTrue
    <2>4. c.op = "provider" => d.reply \in db.was[d.order]
      BY <1>1, <2>2, <2>3 DEF ProgressDb
    <2>5. LoopOK(d) /\ OfPage(d, ui)
      BY <1>1, <2>2, <2>3, <2>4 DEF LoopOK, ReadTrue, OfPage
    <2>6. calls' = (calls \ {c}) \cup {d}
      BY <1>4, <2>1 DEF ReadStatus, Change
    <2> QED BY <1>2, <2>5, <2>6, LoopsQuiet
  <1>5. CASE TicketAnswered(c)
    BY <1>2, <1>5, LoopsQuiet DEF TicketAnswered, End
  <1> QED BY <1>3, <1>4, <1>5

LEMMA TicketAsked ==
  ASSUME ProgressInv, HandleRequestDownloadTicket
  PROVE  ProgressInv'
  <1>1. PICK c : c = Loop("ticket", ui.order, "none", "sent")
    OBVIOUS
  <1>2. calls' = calls \cup {c} /\ ui' = [ui EXCEPT !.ticket = TRUE] /\ UNCHANGED db
    BY <1>1 DEF HandleRequestDownloadTicket, Begin
  <1>3. LoopOK(c) /\ c.op = "ticket"
    BY <1>1, LoopMade
  <1>4. /\ ProgressFields \subseteq DOMAIN ui' /\ ui'.step = ui.step
        /\ ui'.order = ui.order /\ ui'.kind = ui.kind /\ ui'.provider = ui.provider
    BY <1>2 DEF ProgressInv, ProgressPage, ProgressFields
  <1> QED BY <1>2, <1>3, <1>4, LoopsQuiet DEF OfPage

(* The next pause of a loop, where there is one. *)
LEMMA LoopAgain ==
  ASSUME NEW c, LoopOK(c) /\ OfPage(c, ui), NEW again,
         again = [c EXCEPT !.stage = "timer", !.reply = "none"]
  PROVE  LoopOK(again) /\ OfPage(again, ui)
  BY DEF LoopOK, LoopFields, ReadTrue, OfPage

LEMMA PollQueueKeeps ==
  ASSUME ProgressInv, NEW c \in calls, PollQueue(c)
  PROVE  ProgressInv'
  <1>1. ProgressPage /\ ProgressDb /\ \A d \in calls : LoopOK(d) /\ OfPage(d, ui)
    BY DEF ProgressInv
  <1>2. PICK u : u = IF c.stage = "sent" THEN ui
                     ELSE [ui EXCEPT !.queue = c.reply,
                                     !.error = IF c.reply = "error" THEN "queue" ELSE @]
    OBVIOUS
  <1>3. PICK again : again = [c EXCEPT !.stage = "timer", !.reply = "none"]
    OBVIOUS
  <1>4. PICK cs : cs = (calls \ {c}) \cup (IF c.seen = "error" THEN {} ELSE {again})
    OBVIOUS
  <1>5. Render(u, cs) /\ UNCHANGED db
    BY <1>2, <1>3, <1>4 DEF PollQueue
  <1>6. \A d \in cs : LoopOK(d) /\ OfPage(d, ui)
    BY <1>1, <1>3, <1>4, LoopAgain
  <1>7. /\ ProgressFields \subseteq DOMAIN u /\ u.step = ui.step /\ u.order = ui.order
        /\ u.kind = ui.kind /\ u.provider = ui.provider
    BY <1>1, <1>2 DEF ProgressPage, ProgressFields
  <1>8. ProgressDb' /\ db'.was = db.was
    BY <1>1, <1>5 DEF ProgressDb
  <1> QED BY <1>1, <1>5, <1>6, <1>7, <1>8, RenderKeeps
          DEF ProgressPage, ProviderHeadlineTrue

(* A loop that was not cancelled is of the page's own order. *)
LEMMA PollProviderKeeps ==
  ASSUME ProgressInv, NEW c \in calls, PollProvider(c)
  PROVE  ProgressInv'
  <1>1. ProgressPage /\ ProgressDb /\ \A d \in calls : LoopOK(d) /\ OfPage(d, ui)
    BY DEF ProgressInv
  <1>2. PICK told : told = (c.live /\ c.stage = "answered")
    OBVIOUS
  <1>3. PICK u : u = IF ~told THEN ui
                     ELSE [ui EXCEPT
                             !.provider = c.reply,
                             !.queue = IF c.reply = "completed" THEN "completed"
                                       ELSE IF c.reply \in ProviderTerminal THEN "error"
                                       ELSE "processing",
                             !.error = IF c.reply \in ProviderTerminal \ {"completed"}
                                       THEN c.reply ELSE @]
    OBVIOUS
  <1>4. PICK again : again = [c EXCEPT !.stage = "timer", !.reply = "none"]
    OBVIOUS
  <1>5. PICK over : over = (~c.live \/ (told /\ c.reply \in ProviderTerminal))
    OBVIOUS
  <1>6. PICK cs : cs = (calls \ {c}) \cup (IF over THEN {} ELSE {again})
    OBVIOUS
  <1>7. PICK v : v = [u EXCEPT !.stopped = TRUE]
    OBVIOUS
  <1>8. /\ Render(u, cs) \/ Render(v, calls \ {c})
        /\ UNCHANGED db /\ c.op = "provider"
    BY <1>2, <1>3, <1>4, <1>5, <1>6, <1>7 DEF PollProvider
  <1>9. \A d \in cs : LoopOK(d) /\ OfPage(d, ui)
    BY <1>1, <1>4, <1>6, LoopAgain
  <1>10. /\ ProgressFields \subseteq DOMAIN u /\ u.step = ui.step /\ u.order = ui.order
         /\ u.kind = ui.kind /\ u.provider = (IF told THEN c.reply ELSE ui.provider)
    BY <1>1, <1>3 DEF ProgressPage, ProgressFields
  <1>11. told => /\ ui.step = "completed" /\ ui.kind = "provider" /\ c.order = ui.order
                 /\ c.reply \in db.was[ui.order]
    BY <1>1, <1>2, <1>8 DEF LoopOK, ReadTrue, OfPage
  <1>12. /\ u.step = "completed" => u.order \in ProgressOrders
         /\ u.step # "completed" => u.provider = "none"
         /\ u.step = "completed" /\ u.provider # "none" =>
              u.kind = "provider" /\ u.provider \in db.was[u.order]
    BY <1>1, <1>10, <1>11 DEF ProgressPage, ProviderHeadlineTrue
  <1>13. /\ ProgressFields \subseteq DOMAIN v /\ v.step = u.step /\ v.order = u.order
         /\ v.kind = u.kind /\ v.provider = u.provider
    BY <1>7, <1>10 DEF ProgressFields
  <1>14. ProgressDb' /\ db'.was = db.was
    BY <1>1, <1>8 DEF ProgressDb
  <1>15. CASE Render(u, cs)
    BY <1>9, <1>10, <1>12, <1>14, <1>15, RenderKeeps
  <1>16. CASE Render(v, calls \ {c})
    BY <1>1, <1>12, <1>13, <1>14, <1>16, RenderKeeps
  <1> QED BY <1>8, <1>15, <1>16

(* What an order was, it was. *)
LEMMA OrderMovesKeeps ==
  ASSUME ProgressInv, NEW o \in ProgressOrders, OrderMoves(o)
  PROVE  ProgressInv'
  <1>1. ProgressPage /\ ProgressDb /\ \A d \in calls : LoopOK(d) /\ OfPage(d, ui)
    BY DEF ProgressInv
  <1>2. UNCHANGED <<ui, calls>>
    BY DEF OrderMoves
  <1>3. ProgressDb' /\ \A p \in ProgressOrders : db.was[p] \subseteq db'.was[p]
    <2>1. ASSUME NEW s, db' = [db EXCEPT !.provider[o] = s, !.was[o] = @ \cup {s}]
          PROVE  ProgressDb' /\ \A p \in ProgressOrders : db.was[p] \subseteq db'.was[p]
      <3>1. PICK d : d = [db EXCEPT !.provider[o] = s]
        OBVIOUS
      <3>2. /\ DOMAIN d = DOMAIN db /\ d.was = db.was
            /\ d.provider = [db.provider EXCEPT ![o] = s]
        BY <1>1, <3>1 DEF ProgressDb
      <3>3. db' = [d EXCEPT !.was[o] = @ \cup {s}]
        BY <2>1, <3>1, <3>2
      <3>4. /\ DOMAIN db' = DOMAIN db /\ db'.provider = [db.provider EXCEPT ![o] = s]
            /\ db'.was = [db.was EXCEPT ![o] = @ \cup {s}]
        BY <1>1, <3>2, <3>3 DEF ProgressDb
      <3> QED BY <1>1, <3>4 DEF ProgressDb
    <2>2. ASSUME NEW s, db' = [db EXCEPT !.queue[o] = s]
          PROVE  ProgressDb' /\ db'.was = db.was
      BY <1>1, <2>2 DEF ProgressDb
    <2> QED BY <2>1, <2>2 DEF OrderMoves
  <1>4. ProgressPage'
    BY <1>1, <1>2, <1>3 DEF ProgressPage, ProviderHeadlineTrue
  <1>5. \A d \in calls' : LoopOK(d)' /\ OfPage(d, ui')
    BY <1>1, <1>2, <1>3 DEF LoopOK, ReadTrue
  <1> QED BY <1>3, <1>4, <1>5 DEF ProgressInv

LEMMA ProgressNextKeeps == ProgressInv /\ ProgressNext => ProgressInv'
  BY OrderBoughtKeeps, ProgressResetKeeps, TicketAsked, LoopsMove, PollQueueKeeps,
     PollProviderKeeps, OrderMovesKeeps
  DEF ProgressNext

LEMMA ProgressTellsTruth == ProgressInv => ProviderHeadlineTrue
  BY DEF ProgressInv, ProgressPage

-----------------------------------------------------------------------------
(* The customer's orders.  A row that says "completed" is right about it,
   wherever it is: a completed order stays completed. *)

RowTrue(row) ==
  /\ {"id", "is"} \subseteq DOMAIN row /\ row.id \in Items
  /\ row.is = "completed" => db.is[row.id] = "completed"

OrdersFields ==
  {"filter", "at", "of", "rows", "loading", "dialog", "entered", "value", "busy", "selected",
   "dns", "failed"}

OrdersPage ==
  /\ OrdersFields \subseteq DOMAIN ui
  /\ \A row \in ui.rows : RowTrue(row)
  /\ ui.dialog.kind = "order" => RowTrue(ui.selected)

OrdersDb ==
  /\ {"is", "others", "errand", "view"} \subseteq DOMAIN db
  /\ DOMAIN db.is = Items /\ db.view \in [Items -> OrderView]

OrdersCall(c) ==
  /\ CallFields \subseteq DOMAIN c
  /\ c.op = "load" => \A row \in c.rows : RowTrue(row)
  /\ c.op = "ticket" => c.target \in Items /\ db.is[c.target] = "completed"

OrdersInv == OrdersPage /\ OrdersDb /\ \A c \in calls : OrdersCall(c)

LEMMA OrdersInit_Inv == OrdersViewInit => OrdersInv
  <1> SUFFICES ASSUME OrdersViewInit
               PROVE  OrdersInv
    OBVIOUS
  <1>1. OrdersDb
    <2>1. PICK view \in OrderViews :
            db = [is |-> [i \in Items |-> IF i = 1 THEN "paid" ELSE "failed"], others |-> 0,
                  errand |-> "orders", view |-> view]
      BY DEF OrdersViewInit
    <2>2. view \in [Items -> OrderView]
      BY OrdersViewAssumption
    <2>3. /\ {"is", "others", "errand", "view"} \subseteq DOMAIN db /\ db.view = view
          /\ DOMAIN db.is = Items
      BY <2>1
    <2> QED BY <2>2, <2>3 DEF OrdersDb
  <1>2. OrdersPage
    <2>1. OrdersFields \subseteq DOMAIN ui /\ ui.rows = {} /\ ui.dialog = NoDialog
      BY DEF OrdersViewInit, OrdersFields
    <2>2. ui.dialog.kind = "none"
      BY <2>1 DEF NoDialog
    <2> QED BY <2>1, <2>2 DEF OrdersPage
  <1>3. \A c \in calls : OrdersCall(c)
    <2>1. Began(CallNo(1, "load", NoList), "load") /\ Began(CallNo(2, "config", NoList), "config")
      BY CallBegan
    <2>2. OrdersCall(CallNo(1, "load", NoList)) /\ OrdersCall(CallNo(2, "config", NoList))
      BY <2>1 DEF Began, OrdersCall
    <2> QED BY <2>2 DEF OrdersViewInit
  <1> QED BY <1>1, <1>2, <1>3 DEF OrdersInv

LEMMA RowsAtTrue ==
  ASSUME NEW filter, NEW at
  PROVE  \A row \in RowsAt(filter, at) : RowTrue(row)
  <1> SUFFICES ASSUME NEW row \in RowsAt(filter, at)
               PROVE  RowTrue(row)
    OBVIOUS
  <1>1. PICK j \in Matching(filter) : row = [id |-> j, is |-> db.is[j]]
    BY DEF RowsAt
  <1>2. j \in Items
    BY DEF Matching
  <1>3. {"id", "is"} \subseteq DOMAIN row /\ row.id = j /\ row.is = db.is[j]
    BY <1>1
  <1> QED BY <1>2, <1>3 DEF RowTrue

LEMMA LoadsOrders ==
  ASSUME NEW c, LoadBegan(c)
  PROVE  OrdersCall(c)
  BY DEF LoadBegan, OrdersCall

(* The shop is not touched, and what the page got it got from a call. *)
LEMMA OrdersQuiet ==
  ASSUME OrdersInv, UNCHANGED db, OrdersFields \subseteq DOMAIN ui',
         \A row \in ui'.rows : RowTrue(row),
         ui'.dialog.kind = "order" => RowTrue(ui'.selected),
         \A c \in calls' : c \in calls \/ OrdersCall(c)
  PROVE  OrdersInv'
  <1>1. OrdersPage' /\ OrdersDb'
    BY DEF OrdersInv, OrdersPage, OrdersDb, RowTrue
  <1>2. \A c \in calls' : OrdersCall(c)'
    BY DEF OrdersInv, OrdersCall, RowTrue
  <1> QED BY <1>1, <1>2 DEF OrdersInv

LEMMA OrdersLists ==
  ASSUME OrdersInv, RefreshOrders \/ OrdersPagination \/ LiveRefresh
  PROVE  OrdersInv'
  <1>1. OrdersPage /\ UNCHANGED db
    BY DEF OrdersInv, RefreshOrders, OrdersPagination, LiveRefresh
  <1>2. CASE LiveRefresh
    <2>1. PICK l : l = Load(ui, TRUE, "live")
      OBVIOUS
    <2>2. calls' = calls \cup {l} /\ UNCHANGED ui
      BY <1>2, <2>1 DEF LiveRefresh, Begin
    <2>3. OrdersCall(l)
      BY <2>1, LoadMade, LoadsOrders
    <2>4. \A c \in calls' : c \in calls \/ OrdersCall(c)
      BY <2>2, <2>3
    <2>5. /\ OrdersFields \subseteq DOMAIN ui' /\ \A row \in ui'.rows : RowTrue(row)
          /\ ui'.dialog.kind = "order" => RowTrue(ui'.selected)
      BY <1>1, <2>2 DEF OrdersPage
    <2> QED BY <1>1, <2>4, <2>5, OrdersQuiet
  <1>3. ASSUME NEW u, DOMAIN u = DOMAIN ui, u.rows = ui.rows, u.dialog = ui.dialog,
               u.selected = ui.selected, SameBut(u, {"loading"}),
               \A c \in calls' : c \in calls \/ LoadBegan(c)
        PROVE  OrdersInv'
    <2>1. /\ ui'["rows"] = ui["rows"] /\ ui'["dialog"] = ui["dialog"]
          /\ ui'["selected"] = ui["selected"] /\ DOMAIN ui' = DOMAIN ui
      BY <1>1, <1>3 DEF SameBut, OrdersPage, OrdersFields
    <2> QED BY <1>1, <1>3, <2>1, LoadsOrders, OrdersQuiet DEF OrdersPage
  <1>4. CASE RefreshOrders
    <2>1. Loading(ui, "")
      BY <1>4 DEF RefreshOrders
    <2> QED BY <1>3, <2>1, LoadingShows
  <1>5. CASE OrdersPagination
    <2>1. PICK to : Refilter([ui EXCEPT !.at = to])
      BY <1>5 DEF OrdersPagination
    <2>2. PICK u : u = [ui EXCEPT !.at = to]
      OBVIOUS
    <2>3. /\ DOMAIN u = DOMAIN ui /\ u.rows = ui.rows /\ u.dialog = ui.dialog
          /\ u.selected = ui.selected
      BY <1>1, <2>2 DEF OrdersPage, OrdersFields
    <2>4. Refilter(u)
      BY <2>1, <2>2
    <2> QED BY <1>3, <2>3, <2>4, RefilterShows
  <1> QED BY <1>2, <1>4, <1>5

LEMMA OrdersDetails ==
  ASSUME OrdersInv,
         \/ CloseOrder \/ \E row \in ui.rows : SelectOrder(row)
         \/ \E c \in calls : PlatformConfig(c) \/ TicketCreated(c)
  PROVE  OrdersInv'
  <1>1. OrdersPage
    BY DEF OrdersInv
  <1>2. CASE CloseOrder
    <2>1. ui' = [ui EXCEPT !.dialog = NoDialog] /\ UNCHANGED <<calls, db>>
      BY <1>2 DEF CloseOrder, Dismiss
    <2>2. ui'.dialog.kind = "none" /\ ui'.rows = ui.rows /\ DOMAIN ui' = DOMAIN ui
      BY <1>1, <2>1 DEF OrdersPage, OrdersFields, NoDialog
    <2> QED BY <1>1, <2>1, <2>2, OrdersQuiet DEF OrdersPage
  <1>3. ASSUME NEW row \in ui.rows, SelectOrder(row)
        PROVE  OrdersInv'
    <2>1. ui' = [ui EXCEPT !.dialog = [kind |-> "order", id |-> row.id], !.selected = row]
          /\ UNCHANGED <<calls, db>>
      BY <1>3 DEF SelectOrder
    <2>2. ui'.selected = row /\ ui'.rows = ui.rows /\ DOMAIN ui' = DOMAIN ui
      BY <1>1, <2>1 DEF OrdersPage, OrdersFields
    <2> QED BY <1>1, <2>1, <2>2, OrdersQuiet DEF OrdersPage
  <1>4. ASSUME NEW c \in calls, PlatformConfig(c) \/ TicketCreated(c)
        PROVE  OrdersInv'
    <2>1. calls' = calls \ {c} /\ UNCHANGED db
      BY <1>4 DEF PlatformConfig, TicketCreated, End
    <2>2. /\ ui'.dialog = ui.dialog /\ ui'.selected = ui.selected /\ ui'.rows = ui.rows
          /\ DOMAIN ui' = DOMAIN ui
      BY <1>1, <1>4 DEF PlatformConfig, TicketCreated, Free, OrdersPage, OrdersFields
    <2> QED BY <1>1, <2>1, <2>2, OrdersQuiet DEF OrdersPage
  <1> QED BY <1>2, <1>3, <1>4

(* The answer shows the rows it brings. *)
LEMMA OrdersAnswered ==
  ASSUME OrdersInv, NEW c \in calls, ReadRows(c) \/ LoadUserOrders(c)
  PROVE  OrdersInv'
  <1>1. OrdersPage /\ OrdersCall(c) /\ c.op = "load" /\ UNCHANGED db
    BY DEF OrdersInv, ReadRows, LoadUserOrders
  <1>2. CASE ReadRows(c)
    <2>1. PICK r : r = RowsAt(c.filter, c.at)
      OBVIOUS
    <2>2. PICK d : d = [c EXCEPT !.reply = "ok", !.rows = r, !.of = PagesOf(c.filter)]
      OBVIOUS
    <2>3. calls' = (calls \ {c}) \cup {d} /\ UNCHANGED ui
      BY <1>2, <2>1, <2>2 DEF ReadRows, Change
    <2>4. CallFields \subseteq DOMAIN d /\ d.op = "load" /\ d.rows = r
      BY <1>1, <2>2 DEF OrdersCall, CallFields
    <2>5. OrdersCall(d)
      BY <2>1, <2>4, RowsAtTrue DEF OrdersCall
    <2> QED BY <1>1, <2>3, <2>5, OrdersQuiet DEF OrdersPage
  <1>3. CASE LoadUserOrders(c)
    <2>1. PICK u : u = [ui EXCEPT !.loading = @ /\ c.silent]
      OBVIOUS
    <2>2. /\ calls' = calls \ {c}
          /\ ui' = IF c.reply = "none" THEN u ELSE [u EXCEPT !.rows = c.rows, !.of = c.of]
      BY <1>3, <2>1 DEF LoadUserOrders, End
    <2>3. /\ DOMAIN u = DOMAIN ui /\ u.rows = ui.rows /\ u.dialog = ui.dialog
          /\ u.selected = ui.selected
      BY <1>1, <2>1 DEF OrdersPage, OrdersFields
    <2>4. /\ DOMAIN ui' = DOMAIN ui /\ ui'.rows \in {ui.rows, c.rows} /\ ui'.dialog = ui.dialog
          /\ ui'.selected = ui.selected
      BY <1>1, <2>2, <2>3 DEF OrdersPage, OrdersFields
    <2> QED BY <1>1, <2>2, <2>4, OrdersQuiet DEF OrdersPage, OrdersCall
  <1> QED BY <1>2, <1>3

(* What the details offer is of a completed order. *)
LEMMA OfferedWhenCompleted ==
  ASSUME OrdersInv, {"ticket", "profile"} \cap DetailModal # {}
  PROVE  ui.selected.id \in Items /\ db.is[ui.selected.id] = "completed"
  <1>1. RowTrue(ui.selected) /\ db.view[ui.selected.id] \in OrderView
    <2>1. ui.dialog.kind = "order"
      BY DEF DetailModal, In
    <2> QED BY <2>1 DEF OrdersInv, OrdersPage, OrdersDb, RowTrue
  <1>2. ui.selected.is = "completed"
    <2> SUFFICES ASSUME ui.selected.is # "completed"
                 PROVE  {"ticket", "profile"} \cap DetailModal = {}
      OBVIOUS
    <2>1. DetailModal \subseteq {"close", "copy"}
      BY <1>1 DEF DetailModal, In, OrderView, OrderLunaKeyView, OrderManualView, OrderApkView,
                  OrderIosView, OrderAndroidView, Hostname
    <2> QED BY <2>1
  <1> QED BY <1>1, <1>2 DEF RowTrue

LEMMA HandleDownloadTicketKeeps ==
  ASSUME OrdersInv, HandleDownloadTicket
  PROVE  OrdersInv'
  <1>1. PICK b : b = Call("ticket", ui)
    OBVIOUS
  <1>2. PICK c : c = [b EXCEPT !.target = ui.selected.id]
    OBVIOUS
  <1>3. /\ calls' = calls \cup {c} /\ UNCHANGED db /\ "ticket" \in DetailModal
        /\ ui' = [ui EXCEPT !.busy = @ \cup {"ticket"}, !.failed = FALSE]
    BY <1>1, <1>2 DEF HandleDownloadTicket, Begin
  <1>4. Began(b, "ticket")
    BY <1>1, CallBegan
  <1>5. CallFields \subseteq DOMAIN c /\ c.op = "ticket" /\ c.target = ui.selected.id
    BY <1>2, <1>4 DEF Began, CallFields
  <1>6. OrdersCall(c)
    BY <1>3, <1>5, OfferedWhenCompleted DEF OrdersCall
  <1>7. /\ DOMAIN ui' = DOMAIN ui /\ ui'.rows = ui.rows /\ ui'.dialog = ui.dialog
        /\ ui'.selected = ui.selected
    BY <1>3 DEF OrdersInv, OrdersPage, OrdersFields
  <1> QED BY <1>3, <1>6, <1>7, OrdersQuiet DEF OrdersInv, OrdersPage

LEMMA OrderGoesOnKeeps ==
  ASSUME OrdersInv, NEW i \in Items, OrderGoesOn(i)
  PROVE  OrdersInv'
  <1>1. PICK to : OthersChange(i, to)
    BY DEF OrderGoesOn
  <1>2. db.is[i] # "completed"
    BY DEF OrderGoesOn
  <1>3. UNCHANGED <<ui, calls>> /\ db' = [db EXCEPT !.is[i] = to, !.others = @ + 1]
    BY <1>1 DEF OthersChange
  <1>4. /\ OrdersDb'
        /\ \A j \in Items : db.is[j] = "completed" => db'.is[j] = "completed"
    BY <1>2, <1>3 DEF OrdersInv, OrdersDb
  <1>5. \A row : RowTrue(row) => RowTrue(row)'
    BY <1>4 DEF RowTrue
  <1>6. OrdersPage' /\ \A c \in calls' : OrdersCall(c)'
    BY <1>3, <1>4, <1>5 DEF OrdersInv, OrdersPage, OrdersCall
  <1> QED BY <1>4, <1>6 DEF OrdersInv

LEMMA OrdersNextKeeps == OrdersInv /\ OrdersViewNext => OrdersInv'
  BY OrdersLists, OrdersDetails, OrdersAnswered, HandleDownloadTicketKeeps, OrderGoesOnKeeps
  DEF OrdersViewNext

LEMMA OrdersTellTruth == OrdersInv => DetailsTrue
  BY OfferedWhenCompleted DEF OrdersInv, OrdersCall, DetailsTrue

-----------------------------------------------------------------------------
(* Reviews.  Files stored by a handler still at work are nobody else's; what a
   committed handler will delete is no row's. *)

ReviewFields == {"id", "op", "here", "close", "stage", "review", "keep", "files", "old", "saved"}

ImagesKept ==
  /\ {"review", "last", "rows", "files", "stored", "requests", "died"} \subseteq DOMAIN db
  /\ db.rows \subseteq db.files /\ db.files \subseteq db.stored
  /\ db.last \in Nat /\ (db.review = 0 => db.rows = {})

ReviewCallOK(c) ==
  /\ ReviewFields \subseteq DOMAIN c
  /\ c.saved \subseteq db.files /\ c.old \subseteq db.stored
  /\ c.saved # {} => c.stage = "stored"
  /\ c.stage = "sent" => c.old = {}
  /\ c.stage = "stored" => c.saved \cap db.rows = {}
  /\ c.stage = "committed" => c.old \cap db.rows = {}
  /\ c.op = "update" /\ c.stage = "stored" =>
       c.review # 0 /\ (c.review # db.review => c.old \cap db.rows = {})

Apart(c, d) == c.saved \cap d.old = {} /\ (c # d => c.saved \cap d.saved = {})

FilesApart == \A c, d \in calls : Apart(c, d)

(* c answers for the file i. *)
AnswersFor(c, i) == i \in c.saved \/ (c.stage = "committed" /\ i \in c.old)

FilesNeeded ==
  ~db.died => \A i \in db.files : i \in db.rows \/ \E c \in calls : AnswersFor(c, i)

ReviewsInv == ImagesKept /\ FilesApart /\ FilesNeeded /\ \A c \in calls : ReviewCallOK(c)

(* A call that has stored nothing and will delete nothing. *)
Idle(c) ==
  /\ ReviewFields \subseteq DOMAIN c /\ c.saved = {} /\ c.stage \notin {"stored", "committed"}
  /\ c.old \subseteq db.rows /\ (c.stage = "sent" => c.old = {})

LEMMA AskedIdle ==
  ASSUME NEW op, NEW here, NEW b, b = ReviewCall(op, here)
  PROVE  Idle(b) /\ b.op = op
  BY DEF ReviewCall, Idle, ReviewFields

LEMMA ReviewsInit_Inv == ReviewsInit => ReviewsInv
  <1> SUFFICES ASSUME ReviewsInit
               PROVE  ReviewsInv
    OBVIOUS
  <1>1. PICK rows \in {{}, {1}} :
          db = [review |-> Cardinality(rows), last |-> Cardinality(rows), rows |-> rows,
                files |-> rows, stored |-> rows, requests |-> 0, died |-> FALSE]
    BY DEF ReviewsInit
  <1>2. Cardinality(rows) \in Nat /\ (Cardinality(rows) = 0 => rows = {})
    BY FS_EmptySet, FS_Singleton
  <1>3. ImagesKept
    BY <1>1, <1>2 DEF ImagesKept
  <1>4. PICK c : c = [id |-> 1, op |-> "mine", here |-> TRUE, close |-> FALSE, stage |-> "sent",
                      review |-> 0, keep |-> {}, files |-> 0, old |-> {}, saved |-> {}]
    OBVIOUS
  <1>5. /\ ReviewFields \subseteq DOMAIN c /\ c.saved = {} /\ c.old = {} /\ c.stage = "sent"
        /\ c.op = "mine"
    BY <1>4 DEF ReviewFields
  <1>6. calls = {c}
    BY <1>4 DEF ReviewsInit
  <1>7. FilesApart /\ ReviewCallOK(c)
    BY <1>5, <1>6 DEF FilesApart, Apart, ReviewCallOK
  <1>8. FilesNeeded
    BY <1>1 DEF FilesNeeded
  <1> QED BY <1>3, <1>6, <1>7, <1>8 DEF ReviewsInv

(* Rows and files stay; calls come and go that have to do with none. *)
LEMMA ReviewsQuiet ==
  ASSUME ReviewsInv, DOMAIN db' = DOMAIN db, db'.review = db.review, db'.last = db.last,
         db'.rows = db.rows, db'.files = db.files, db'.stored = db.stored, db'.died = db.died,
         \A c \in calls' : c \in calls \/ Idle(c),
         \A c \in calls : c \in calls' \/ (c.saved = {} /\ c.stage # "committed")
  PROVE  ReviewsInv'
  <1>1. ImagesKept'
    BY DEF ReviewsInv, ImagesKept
  <1>2. \A c : Idle(c) => ReviewCallOK(c)
    BY DEF ReviewsInv, ImagesKept, Idle, ReviewCallOK
  <1>3. \A c \in calls' : ReviewCallOK(c)'
    BY <1>2 DEF ReviewsInv, ReviewCallOK
  <1>4. FilesApart'
    <2> SUFFICES ASSUME NEW c \in calls', NEW d \in calls'
                 PROVE  Apart(c, d)
      BY DEF FilesApart, Apart
    <2>1. CASE c \in calls /\ d \in calls
      BY <2>1 DEF ReviewsInv, FilesApart
    <2>2. CASE Idle(c)
      BY <2>2 DEF Idle, Apart
    <2>3. CASE c \in calls /\ Idle(d)
      BY <2>3 DEF ReviewsInv, ReviewCallOK, Idle, Apart
    <2> QED BY <2>1, <2>2, <2>3
  <1>5. FilesNeeded'
    BY DEF ReviewsInv, FilesNeeded, AnswersFor
  <1> QED BY <1>1, <1>3, <1>4, <1>5 DEF ReviewsInv

LEMMA ReviewForm ==
  ASSUME ReviewsInv,
         \/ OpenForm \/ CloseForm \/ SetRating \/ HandleFileChange \/ RemoveSelectedFile
         \/ \E i \in Images : RemoveExistingImage(i)
         \/ AskDelete \/ CancelDelete
  PROVE  ReviewsInv'
  <1>1. UNCHANGED <<calls, db>>
    BY DEF OpenForm, CloseForm, SetRating, HandleFileChange, RemoveSelectedFile,
           RemoveExistingImage, AskDelete, CancelDelete
  <1> QED BY <1>1, ReviewsQuiet

LEMMA ReviewAsked ==
  ASSUME ReviewsInv, HandleReviewSubmit \/ HandleReviewDelete \/ ElsewhereEdit
  PROVE  ReviewsInv'
  <1>1. PICK op, here, keep, files :
          \/ Ask([ReviewCall(op, here) EXCEPT !.keep = keep, !.files = files])
          \/ Ask(ReviewCall(op, here))
    BY DEF HandleReviewSubmit, HandleReviewDelete, ElsewhereEdit
  <1>2. PICK b : b = ReviewCall(op, here)
    OBVIOUS
  <1>3. PICK c : c = [b EXCEPT !.keep = keep, !.files = files]
    OBVIOUS
  <1>4. Ask(c) \/ Ask(b)
    BY <1>1, <1>2, <1>3
  <1>5. Idle(b)
    BY <1>2, AskedIdle
  <1>6. Idle(c)
    BY <1>3, <1>5 DEF Idle, ReviewFields
  <1>7. /\ db' = [db EXCEPT !.requests = @ + 1]
        /\ calls' = calls \cup {c} \/ calls' = calls \cup {b}
    BY <1>4 DEF Ask, Begin
  <1>8. /\ DOMAIN db' = DOMAIN db /\ db'.review = db.review /\ db'.last = db.last
        /\ db'.rows = db.rows /\ db'.files = db.files /\ db'.stored = db.stored
        /\ db'.died = db.died
    BY <1>7 DEF ReviewsInv, ImagesKept
  <1> QED BY <1>5, <1>6, <1>7, <1>8, ReviewsQuiet

LEMMA ReviewsAnswered ==
  ASSUME ReviewsInv, NEW c \in calls,
         Refused(c) \/ GetMyReview(c) \/ ActionAnswered(c) \/ RefreshMyReview(c)
  PROVE  ReviewsInv'
  <1>1. ReviewCallOK(c) /\ UNCHANGED db
    BY DEF ReviewsInv, Refused, GetMyReview, ActionAnswered, RefreshMyReview
  <1>2. c.stage \notin {"stored", "committed"} /\ c.saved = {}
    BY <1>1 DEF ReviewCallOK, Refused, GetMyReview, ActionAnswered, RefreshMyReview
  <1>3. \A d \in calls' : d \in calls \/ Idle(d)
    <2>1. CASE Refused(c)
      <3>1. PICK d : d = [c EXCEPT !.stage = "refused"]
        OBVIOUS
      <3>2. Idle(d)
        BY <1>1, <1>2, <2>1, <3>1 DEF Refused, ReviewCallOK, Idle, ReviewFields
      <3>3. calls' = (calls \ {c}) \cup {d}
        BY <2>1, <3>1 DEF Refused, Change
      <3> QED BY <3>2, <3>3
    <2>2. CASE GetMyReview(c)
      <3>1. PICK d : d = [c EXCEPT !.stage = "done", !.review = db.review, !.old = db.rows]
        OBVIOUS
      <3>2. Idle(d)
        BY <1>1, <1>2, <3>1 DEF ReviewCallOK, Idle, ReviewFields
      <3>3. calls' = (calls \ {c}) \cup {d}
        BY <2>2, <3>1 DEF GetMyReview, Change
      <3> QED BY <3>2, <3>3
    <2>3. CASE ActionAnswered(c)
      <3>1. PICK b : b = ReviewCall("mine", TRUE)
        OBVIOUS
      <3>2. PICK d : d = [b EXCEPT !.id = c.id, !.close = TRUE]
        OBVIOUS
      <3>3. Idle(d)
        <4>1. Idle(b)
          BY <3>1, AskedIdle
        <4> QED BY <3>2, <4>1 DEF Idle, ReviewFields
      <3>4. calls' = calls \ {c} \/ calls' = (calls \ {c}) \cup {d}
        BY <2>3, <3>1, <3>2 DEF ActionAnswered, Change, End
      <3> QED BY <3>3, <3>4
    <2>4. CASE RefreshMyReview(c)
      BY <2>4 DEF RefreshMyReview, End
    <2> QED BY <2>1, <2>2, <2>3, <2>4
  <1>4. calls \ {c} \subseteq calls'
    BY DEF Refused, GetMyReview, ActionAnswered, RefreshMyReview, Change, End
  <1> QED BY <1>1, <1>2, <1>3, <1>4, ReviewsQuiet

(* A handler that goes on: c becomes d, the others are as they were. *)
LEMMA HandlerGoesOn ==
  ASSUME ReviewsInv, NEW c \in calls, NEW d, calls' = (calls \ {c}) \cup {d},
         ImagesKept', ReviewCallOK(d)', d.saved \cap d.old = {},
         \A e \in calls \ {c} :
           ReviewCallOK(e)' /\ Apart(d, e) /\ e.saved \cap d.old = {},
         ~db'.died => \A i \in db'.files :
                        \/ i \in db'.rows \/ AnswersFor(d, i)
                        \/ \E e \in calls \ {c} : AnswersFor(e, i)
  PROVE  ReviewsInv'
  <1>1. FilesApart'
    <2> SUFFICES ASSUME NEW e \in calls', NEW f \in calls'
                 PROVE  Apart(e, f)
      BY DEF FilesApart, Apart
    <2>1. CASE e \in calls \ {c} /\ f \in calls \ {c}
      BY <2>1 DEF ReviewsInv, FilesApart
    <2>2. CASE e = d
      BY <2>2 DEF Apart
    <2>3. CASE e \in calls \ {c} /\ f = d
      BY <2>3 DEF Apart
    <2> QED BY <2>1, <2>2, <2>3
  <1>2. FilesNeeded'
    BY DEF FilesNeeded, AnswersFor
  <1> QED BY <1>1, <1>2 DEF ReviewsInv

(* What a handler stores nobody has. *)
LEMMA StoreKeeps ==
  ASSUME ReviewsInv, NEW c \in calls, SubmitReceived(c) \/ UpdateReceived(c)
  PROVE  ReviewsInv'
  <1>1. PICK fresh : fresh = {i \in Images \ db.stored :
                                Cardinality({j \in Images \ db.stored : j < i}) < c.files}
    OBVIOUS
  <1>2. PICK d : d = [c EXCEPT !.stage = "stored", !.saved = fresh, !.review = db.review,
                               !.old = db.rows]
    OBVIOUS
  <1>3. Store(c) /\ c.stage = "sent" /\ (c.op = "update" => db.review # 0)
    BY DEF SubmitReceived, UpdateReceived
  <1>4. /\ db' = [db EXCEPT !.files = @ \cup fresh, !.stored = @ \cup fresh]
        /\ calls' = (calls \ {c}) \cup {d}
    BY <1>1, <1>2, <1>3 DEF Store, Change
  <1>5. fresh \cap db.stored = {}
    BY <1>1
  <1>6. ImagesKept /\ FilesApart /\ FilesNeeded /\ \A e \in calls : ReviewCallOK(e)
    BY DEF ReviewsInv
  <1>7. /\ db'.files = db.files \cup fresh /\ db'.stored = db.stored \cup fresh
        /\ db'.rows = db.rows /\ db'.review = db.review /\ db'.last = db.last
        /\ db'.died = db.died /\ DOMAIN db' = DOMAIN db
    BY <1>4, <1>6 DEF ImagesKept
  <1>8. /\ ReviewFields \subseteq DOMAIN d /\ d.op = c.op /\ d.stage = "stored"
        /\ d.saved = fresh /\ d.review = db.review /\ d.old = db.rows
    BY <1>2, <1>6 DEF ReviewCallOK, ReviewFields
  <1>9. ImagesKept'
    BY <1>6, <1>7 DEF ImagesKept
  <1>10. ReviewCallOK(d)'
    BY <1>3, <1>5, <1>6, <1>7, <1>8 DEF ReviewCallOK, ImagesKept
  <1>11. ASSUME NEW e \in calls \ {c}
         PROVE  ReviewCallOK(e)' /\ Apart(d, e) /\ e.saved \cap d.old = {}
    <2>1. ReviewCallOK(e)'
      BY <1>6, <1>7 DEF ReviewCallOK
    <2>2. Apart(d, e) /\ e.saved \cap d.old = {}
      BY <1>5, <1>6, <1>8 DEF ReviewCallOK, Apart, ImagesKept
    <2> QED BY <2>1, <2>2
  <1>12. d.saved \cap d.old = {}
    BY <1>5, <1>6, <1>8 DEF ImagesKept
  <1>13. ~db'.died => \A i \in db'.files :
                        \/ i \in db'.rows \/ AnswersFor(d, i)
                        \/ \E e \in calls \ {c} : AnswersFor(e, i)
    BY <1>3, <1>6, <1>7, <1>8 DEF FilesNeeded, AnswersFor, ReviewCallOK
  <1> QED BY <1>4, <1>9, <1>10, <1>11, <1>12, <1>13, HandlerGoesOn

LEMMA RolledBackKeeps ==
  ASSUME ReviewsInv, NEW c \in calls, c.stage = "stored", RolledBack(c)
  PROVE  ReviewsInv'
  <1>1. PICK d : d = [c EXCEPT !.stage = "refused", !.saved = {}]
    OBVIOUS
  <1>2. db' = [db EXCEPT !.files = @ \ c.saved] /\ calls' = (calls \ {c}) \cup {d}
    BY <1>1 DEF RolledBack, Change
  <1>3. ImagesKept /\ FilesApart /\ FilesNeeded /\ \A e \in calls : ReviewCallOK(e)
    BY DEF ReviewsInv
  <1>4. /\ db'.files = db.files \ c.saved /\ db'.stored = db.stored
        /\ db'.rows = db.rows /\ db'.review = db.review /\ db'.last = db.last
        /\ db'.died = db.died /\ DOMAIN db' = DOMAIN db
    BY <1>2, <1>3 DEF ImagesKept
  <1>5. /\ ReviewFields \subseteq DOMAIN d /\ d.op = c.op /\ d.stage = "refused"
        /\ d.saved = {} /\ d.old = c.old
    BY <1>1, <1>3 DEF ReviewCallOK, ReviewFields
  <1>6. ImagesKept'
    BY <1>3, <1>4 DEF ImagesKept, ReviewCallOK
  <1>7. ReviewCallOK(d)'
    BY <1>3, <1>4, <1>5 DEF ReviewCallOK
  <1>8. ASSUME NEW e \in calls \ {c}
        PROVE  ReviewCallOK(e)' /\ Apart(d, e) /\ e.saved \cap d.old = {}
    <2>1. Apart(e, c)
      BY <1>3 DEF FilesApart
    <2>2. ReviewCallOK(e)'
      BY <1>3, <1>4, <2>1 DEF ReviewCallOK, Apart
    <2>3. Apart(d, e) /\ e.saved \cap d.old = {}
      BY <1>5, <2>1 DEF Apart
    <2> QED BY <2>2, <2>3
  <1>9. ~db'.died => \A i \in db'.files :
                       \/ i \in db'.rows \/ AnswersFor(d, i)
                       \/ \E e \in calls \ {c} : AnswersFor(e, i)
    BY <1>3, <1>4 DEF FilesNeeded, AnswersFor
  <1> QED BY <1>2, <1>5, <1>6, <1>7, <1>8, <1>9, HandlerGoesOn

(* The row gets the images the handler stored. *)
LEMMA SubmitCommittedKeeps ==
  ASSUME ReviewsInv, NEW c \in calls, SubmitCommitted(c)
  PROVE  ReviewsInv'
  <1>1. CASE RolledBack(c)
    BY <1>1, RolledBackKeeps DEF SubmitCommitted
  <1>2. CASE ~RolledBack(c)
    <2>1. PICK d : d = [c EXCEPT !.stage = "done", !.saved = {}]
      OBVIOUS
    <2>2. /\ db' = [db EXCEPT !.review = db.last + 1, !.last = @ + 1, !.rows = c.saved]
          /\ calls' = (calls \ {c}) \cup {d} /\ c.stage = "stored" /\ db.review = 0
      BY <1>2, <2>1 DEF SubmitCommitted, Change
    <2>3. ImagesKept /\ FilesApart /\ FilesNeeded /\ \A e \in calls : ReviewCallOK(e)
      BY DEF ReviewsInv
    <2>4. /\ db'.files = db.files /\ db'.stored = db.stored /\ db'.rows = c.saved
          /\ db'.review = db.last + 1 /\ db'.last = db.last + 1
          /\ db'.died = db.died /\ DOMAIN db' = DOMAIN db
      BY <2>2, <2>3 DEF ImagesKept
    <2>5. /\ ReviewFields \subseteq DOMAIN d /\ d.op = c.op /\ d.stage = "done"
          /\ d.saved = {} /\ d.old = c.old
      BY <2>1, <2>3 DEF ReviewCallOK, ReviewFields
    <2>6. ImagesKept'
      BY <2>3, <2>4 DEF ImagesKept, ReviewCallOK
    <2>7. ReviewCallOK(d)'
      BY <2>3, <2>4, <2>5 DEF ReviewCallOK
    <2>8. ASSUME NEW e \in calls \ {c}
          PROVE  ReviewCallOK(e)' /\ Apart(d, e) /\ e.saved \cap d.old = {}
      <3>1. Apart(e, c) /\ Apart(c, e)
        BY <2>3 DEF FilesApart
      <3>2. ReviewCallOK(e)'
        BY <2>3, <2>4, <3>1 DEF ReviewCallOK, Apart
      <3>3. Apart(d, e) /\ e.saved \cap d.old = {}
        BY <2>5, <3>1 DEF Apart
      <3> QED BY <3>2, <3>3
    <2>9. ~db'.died => \A i \in db'.files :
                         \/ i \in db'.rows \/ AnswersFor(d, i)
                         \/ \E e \in calls \ {c} : AnswersFor(e, i)
      BY <2>2, <2>3, <2>4 DEF FilesNeeded, AnswersFor, ImagesKept
    <2> QED BY <2>2, <2>5, <2>6, <2>7, <2>8, <2>9, HandlerGoesOn
  <1> QED BY <1>1, <1>2

(* What the row keeps, and what the handler stored; the rest is deleted. *)
LEMMA UpdateCommittedKeeps ==
  ASSUME ReviewsInv, NEW c \in calls, UpdateCommitted(c)
  PROVE  ReviewsInv'
  <1>1. CASE RolledBack(c)
    BY <1>1, RolledBackKeeps DEF UpdateCommitted
  <1>2. CASE ~RolledBack(c)
    <2>1. PICK gone : gone = c.old \ c.keep
      OBVIOUS
    <2>2. PICK d : d = [c EXCEPT !.stage = "committed", !.saved = {}, !.old = gone]
      OBVIOUS
    <2>3. PICK held : held = IF db.review # c.review THEN db.rows
                             ELSE (db.rows \ gone) \cup c.saved
      OBVIOUS
    <2>4. ImagesKept /\ FilesApart /\ FilesNeeded /\ \A e \in calls : ReviewCallOK(e)
      BY DEF ReviewsInv
    <2>5. ReviewFields \subseteq DOMAIN c
      BY <2>4 DEF ReviewCallOK
    <2>6. /\ calls' = (calls \ {c}) \cup {d} /\ c.stage = "stored" /\ c.op = "update"
          /\ db.review # c.review => c.saved = {}
          /\ db' = IF db.review # c.review THEN db
                   ELSE [db EXCEPT !.rows = (@ \ (c.old \ c.keep)) \cup c.saved]
      BY <1>2, <2>1, <2>2, <2>5 DEF UpdateCommitted, Change, ReviewFields
    <2>7. /\ db'.files = db.files /\ db'.stored = db.stored /\ db'.rows = held
          /\ db'.review = db.review /\ db'.last = db.last
          /\ db'.died = db.died /\ DOMAIN db' = DOMAIN db
      BY <2>1, <2>3, <2>4, <2>6 DEF ImagesKept
    <2>8. /\ ReviewFields \subseteq DOMAIN d /\ d.op = c.op /\ d.stage = "committed"
          /\ d.saved = {} /\ d.old = gone
      BY <2>2, <2>5 DEF ReviewFields
    <2>9. held \subseteq db.rows \cup c.saved /\ c.saved \subseteq db.files
      BY <2>3, <2>4 DEF ReviewCallOK
    <2>10. ImagesKept'
      BY <2>3, <2>4, <2>6, <2>7, <2>9 DEF ImagesKept, ReviewCallOK
    <2>11. gone \cap held = {} /\ gone \subseteq c.old
      BY <2>1, <2>3, <2>4, <2>6 DEF ReviewCallOK, FilesApart, Apart
    <2>12. ReviewCallOK(d)'
      BY <2>4, <2>7, <2>8, <2>11 DEF ReviewCallOK
    <2>13. ASSUME NEW e \in calls \ {c}
           PROVE  ReviewCallOK(e)' /\ Apart(d, e) /\ e.saved \cap d.old = {}
      <3>1. Apart(e, c) /\ Apart(c, e)
        BY <2>4 DEF FilesApart
      <3>2. ReviewCallOK(e)'
        BY <2>4, <2>7, <2>9, <3>1 DEF ReviewCallOK, Apart
      <3>3. Apart(d, e) /\ e.saved \cap d.old = {}
        BY <2>8, <2>11, <3>1 DEF Apart
      <3> QED BY <3>2, <3>3
    <2>14. ~db'.died => \A i \in db'.files :
                          \/ i \in db'.rows \/ AnswersFor(d, i)
                          \/ \E e \in calls \ {c} : AnswersFor(e, i)
      BY <2>3, <2>4, <2>6, <2>7, <2>8 DEF FilesNeeded, AnswersFor
    <2> QED BY <2>6, <2>8, <2>10, <2>12, <2>13, <2>14, HandlerGoesOn
  <1> QED BY <1>1, <1>2

LEMMA DeleteCommittedKeeps ==
  ASSUME ReviewsInv, NEW c \in calls, DeleteCommitted(c)
  PROVE  ReviewsInv'
  <1>1. PICK d : d = [c EXCEPT !.stage = "committed", !.old = db.rows]
    OBVIOUS
  <1>2. /\ db' = [db EXCEPT !.review = 0, !.rows = {}] /\ calls' = (calls \ {c}) \cup {d}
        /\ c.stage = "sent" /\ c.op = "delete"
    BY <1>1 DEF DeleteCommitted, Change
  <1>3. ImagesKept /\ FilesApart /\ FilesNeeded /\ \A e \in calls : ReviewCallOK(e)
    BY DEF ReviewsInv
  <1>4. /\ db'.files = db.files /\ db'.stored = db.stored /\ db'.rows = {}
        /\ db'.review = 0 /\ db'.last = db.last
        /\ db'.died = db.died /\ DOMAIN db' = DOMAIN db
    BY <1>2, <1>3 DEF ImagesKept
  <1>5. /\ ReviewFields \subseteq DOMAIN d /\ d.op = c.op /\ d.stage = "committed"
        /\ d.saved = {} /\ d.old = db.rows
    BY <1>1, <1>2, <1>3 DEF ReviewCallOK, ReviewFields
  <1>6. ImagesKept'
    BY <1>3, <1>4 DEF ImagesKept
  <1>7. ReviewCallOK(d)'
    BY <1>2, <1>3, <1>4, <1>5 DEF ReviewCallOK, ImagesKept
  <1>8. ASSUME NEW e \in calls \ {c}
        PROVE  ReviewCallOK(e)' /\ Apart(d, e) /\ e.saved \cap d.old = {}
    BY <1>3, <1>4, <1>5 DEF ReviewCallOK, Apart
  <1>9. ~db'.died => \A i \in db'.files :
                       \/ i \in db'.rows \/ AnswersFor(d, i)
                       \/ \E e \in calls \ {c} : AnswersFor(e, i)
    BY <1>2, <1>3, <1>4, <1>5 DEF FilesNeeded, AnswersFor, ReviewCallOK
  <1> QED BY <1>2, <1>5, <1>6, <1>7, <1>8, <1>9, HandlerGoesOn

LEMMA DeleteFilesKeeps ==
  ASSUME ReviewsInv, NEW c \in calls, DeleteFiles(c)
  PROVE  ReviewsInv'
  <1>1. PICK d : d = [c EXCEPT !.stage = "done", !.old = {}]
    OBVIOUS
  <1>2. /\ db' = [db EXCEPT !.files = @ \ c.old] /\ calls' = (calls \ {c}) \cup {d}
        /\ c.stage = "committed"
    BY <1>1 DEF DeleteFiles, Change
  <1>3. ImagesKept /\ FilesApart /\ FilesNeeded /\ \A e \in calls : ReviewCallOK(e)
    BY DEF ReviewsInv
  <1>4. /\ db'.files = db.files \ c.old /\ db'.stored = db.stored /\ db'.rows = db.rows
        /\ db'.review = db.review /\ db'.last = db.last
        /\ db'.died = db.died /\ DOMAIN db' = DOMAIN db
    BY <1>2, <1>3 DEF ImagesKept
  <1>5. /\ ReviewFields \subseteq DOMAIN d /\ d.op = c.op /\ d.stage = "done"
        /\ d.saved = {} /\ d.old = {} /\ c.saved = {}
    BY <1>1, <1>2, <1>3 DEF ReviewCallOK, ReviewFields
  <1>6. ImagesKept'
    BY <1>2, <1>3, <1>4 DEF ImagesKept, ReviewCallOK
  <1>7. ReviewCallOK(d)'
    BY <1>5 DEF ReviewCallOK
  <1>8. ASSUME NEW e \in calls \ {c}
        PROVE  ReviewCallOK(e)' /\ Apart(d, e) /\ e.saved \cap d.old = {}
    <2>1. Apart(e, c)
      BY <1>3 DEF FilesApart
    <2> QED BY <1>3, <1>4, <1>5, <2>1 DEF ReviewCallOK, Apart
  <1>9. ~db'.died => \A i \in db'.files :
                       \/ i \in db'.rows \/ AnswersFor(d, i)
                       \/ \E e \in calls \ {c} : AnswersFor(e, i)
    BY <1>3, <1>4, <1>5 DEF FilesNeeded, AnswersFor
  <1> QED BY <1>2, <1>5, <1>6, <1>7, <1>8, <1>9, HandlerGoesOn

LEMMA HandlerDiesKeeps ==
  ASSUME ReviewsInv, NEW c \in calls, HandlerDies(c)
  PROVE  ReviewsInv'
  <1>1. PICK d : d = [c EXCEPT !.stage = "refused", !.saved = {}, !.old = {}]
    OBVIOUS
  <1>2. db' = [db EXCEPT !.died = TRUE] /\ calls' = (calls \ {c}) \cup {d}
    BY <1>1 DEF HandlerDies, Change
  <1>3. ImagesKept /\ \A e \in calls : ReviewCallOK(e)
    BY DEF ReviewsInv
  <1>4. /\ db'.files = db.files /\ db'.stored = db.stored /\ db'.rows = db.rows
        /\ db'.review = db.review /\ db'.last = db.last
        /\ db'.died = TRUE /\ DOMAIN db' = DOMAIN db
    BY <1>2, <1>3 DEF ImagesKept
  <1>5. /\ ReviewFields \subseteq DOMAIN d /\ d.stage = "refused" /\ d.saved = {} /\ d.old = {}
    BY <1>1, <1>3 DEF ReviewCallOK, ReviewFields
  <1>6. ImagesKept' /\ ReviewCallOK(d)'
    BY <1>3, <1>4, <1>5 DEF ImagesKept, ReviewCallOK
  <1>7. ASSUME NEW e \in calls \ {c}
        PROVE  ReviewCallOK(e)' /\ Apart(d, e) /\ e.saved \cap d.old = {}
    BY <1>3, <1>4, <1>5 DEF ReviewCallOK, Apart
  <1> QED BY <1>2, <1>4, <1>5, <1>6, <1>7, HandlerGoesOn

LEMMA ReviewsNextKeeps == ReviewsInv /\ ReviewsNext => ReviewsInv'
  BY ReviewForm, ReviewAsked, ReviewsAnswered, StoreKeeps, SubmitCommittedKeeps,
     UpdateCommittedKeeps, DeleteCommittedKeeps, DeleteFilesKeeps, HandlerDiesKeeps
  DEF ReviewsNext

LEMMA ReviewsKeepImages == ReviewsInv => ImagesHaveFiles
  BY DEF ReviewsInv, ImagesKept, FilesNeeded, AnswersFor, ImagesHaveFiles

-----------------------------------------------------------------------------
(* The pages together *)

PagesInv ==
  /\ page = "progress" => ProgressInv
  /\ page = "orders" => OrdersInv
  /\ page = "wallet" => WalletInv
  /\ page = "feedback" => ReviewsInv
  /\ page = "dashboard" => DashboardInv

LEMMA PagesInit == FrontendInit => PagesInv
  <1> SUFFICES ASSUME FrontendInit
               PROVE  PagesInv
    OBVIOUS
  <1>1. OpenCheckout \/ OpenPage
    BY DEF FrontendInit
  <1>2. /\ page = "progress" => ProgressInit
        /\ page = "orders" => OrdersViewInit
        /\ page = "wallet" => WalletInit
        /\ page = "feedback" => ReviewsInit
        /\ page = "dashboard" => DashboardInit
    BY <1>1 DEF OpenCheckout, OpenPage, ProgressInit, OrdersViewInit, WalletInit, ReviewsInit,
                DashboardInit, AdminOrdersInit, AdminPaymentsInit, AdminUsersInit,
                AdminCouponsInit, AdminPlansInit, AdminSystemInit, AdminListsInit, AdminListPage
  <1> QED BY <1>2, ProgressInit_Inv, OrdersInit_Inv, WalletInit_Inv, ReviewsInit_Inv,
             DashboardInit_Inv
          DEF PagesInv

(* A page takes its own steps only, or none. *)
LEMMA OwnSteps ==
  ASSUME [FrontendNext]_<<vars, browser>>
  PROVE  /\ page = "progress" => ProgressNext \/ UNCHANGED <<ui, calls, db>>
         /\ page = "orders" => OrdersViewNext \/ UNCHANGED <<ui, calls, db>>
         /\ page = "wallet" => WalletNext \/ UNCHANGED <<ui, calls, db>>
         /\ page = "feedback" => ReviewsNext \/ UNCHANGED <<ui, calls, db>>
         /\ page = "dashboard" => DashboardNext \/ UNCHANGED <<ui, calls, db>>
  BY DEF FrontendNext, PageNext, browser, AdminListPage

LEMMA PagesNext == PagesInv /\ [FrontendNext]_<<vars, browser>> => PagesInv'
  <1> SUFFICES ASSUME PagesInv, [FrontendNext]_<<vars, browser>>
               PROVE  PagesInv'
    OBVIOUS
  <1>1. page' \in {page, "blank"}
    BY PageStays
  <1>2. CASE UNCHANGED <<ui, calls, db>>
    <2>1. ProgressInv => ProgressInv'
      BY <1>2, LoopsQuiet DEF ProgressInv, ProgressPage
    <2>2. OrdersInv => OrdersInv'
      BY <1>2, OrdersQuiet DEF OrdersInv, OrdersPage
    <2>3. WalletInv => WalletInv'
      BY <1>2, WalletLooks DEF WalletInv, WalletPage, WalletFields
    <2>4. ReviewsInv => ReviewsInv'
      BY <1>2, ReviewsQuiet
    <2>5. DashboardInv => DashboardInv'
      BY <1>2, NewsQuiet DEF DashboardInv, NewsPage, NewsFields
    <2> QED BY <1>1, <2>1, <2>2, <2>3, <2>4, <2>5 DEF PagesInv
  <1>3. CASE ~UNCHANGED <<ui, calls, db>>
    BY <1>1, <1>3, OwnSteps, ProgressNextKeeps, OrdersNextKeeps, WalletNextKeeps,
       ReviewsNextKeeps, DashboardNextKeeps
    DEF PagesInv
  <1> QED BY <1>2, <1>3

THEOREM PagesHold == FrontendSpec => []PagesInv
  BY PagesInit, PagesNext, PTL DEF FrontendSpec

(* What a page says is or was true of the order it is said of, whatever answers
   come late, whichever panel they find, and however often the page is loaded
   anew: the headline of a provider's order in ActivationWizard.tsx, the files
   offered in the details of OrdersView.tsx, the announcements of
   DashboardPage.tsx and the thanks of WalletView.tsx.  The headline of an
   order of the legacy queue is not among them (QueueHeadlineTrue). *)
THEOREM PagesTruthful == FrontendSpec => []PagesTellTruth
  <1>1. PagesInv => PagesTellTruth
    BY ProgressTellsTruth, OrdersTellTruth, DashboardTellsTruth, WalletTellsTruth
    DEF PagesInv, PagesTellTruth
  <1> QED BY <1>1, PagesHold, PTL

(* The images a review shows are there, and no file is left over unless a
   handler of reviews.py died. *)
THEOREM ReviewImagesThere == FrontendSpec => []ReviewHasItsImages
  <1>1. PagesInv => ReviewHasItsImages
    BY ReviewsKeepImages DEF PagesInv, ReviewHasItsImages
  <1> QED BY <1>1, PagesHold, PTL

(* One wish to buy, or to top up, is one key: the keys of ActivationWizard.tsx
   and of WalletView.tsx outlive lost answers and end with the wish. *)
THEOREM OneWishOnePurchase == FrontendSpec => []OnePurchasePerWish
  <1>1. PagesInv /\ KeyPerPurchase => OnePurchasePerWish
    BY WalletKeyPerWish DEF PagesInv, OnePurchasePerWish
  <1> QED BY <1>1, PagesHold, OneOrderPerPurchase, CheckoutInside, PTL

(* The checkout is the same inside the front end: what it shows as paid was
   paid, and what it knows of a coupon is of the code it shows. *)
THEOREM CheckoutHolds == FrontendSpec => []LookupIsCurrent /\ CompletesWhenPaid
  BY CheckoutInside, LookupStaysCurrent, CompletionIsPaid

-----------------------------------------------------------------------------
(* Lists with dialogs.  A dialog whose content is submitted shows what was
   entered for its item; what is submitted was captured then. *)

DialogFields == {"filter", "at", "of", "rows", "loading", "dialog", "entered", "value", "busy"}

OwnEntry(u) == u.dialog.kind \notin {"none", "order", "stats"} => u.entered \subseteq {u.dialog.id}

(* Calls that set no flag, or whose flag has another name. *)
Unflagged ==
  {"", "load", "live", "config", "plans", "paused", "detail", "toggle", "stats", "retry",
   "reconcile"}

OwnCall(c) ==
  /\ CallFields \subseteq DOMAIN c
  /\ c.op # "reconcile" => c.entered \subseteq {c.target}
  /\ c.op \notin {"load", "paused", "retry", "reconcile"} => c.then = ""
  /\ c.op \in {"retry", "reconcile"} => c.then = "provider"

DialogInv ==
  /\ DialogFields \subseteq DOMAIN ui /\ OwnEntry(ui)
  /\ ui.busy \cap Unflagged = {}
  /\ DialogWaits
  /\ \A c \in calls : OwnCall(c)

(* The handlers of a dialog end in one step; these calls have a handler that
   waits for more. *)
Handlers == {"load", "paused", "retry", "reconcile"}

(* Loads that free no flag, and no provider. *)
LoadsAlone ==
  \A c \in calls : c.op \in Handlers => c.op = "load" /\ c.then \in {"", "live"}

(* The dialog of an order has its reason in a field of its own. *)
ReasonsOwn ==
  /\ {"reason", "external", "detail", "paused", "note"} \subseteq DOMAIN ui /\ ui.entered = {}
  /\ ui.dialog # NoDialog => {ui.reason, ui.external} \subseteq {0, ui.dialog.id}

(* The tabs of the settings load without a spinner and have no field to fill. *)
TabsQuiet ==
  /\ {"tab", "popup", "texts", "settings", "typed"} \subseteq DOMAIN ui
  /\ ui.entered = {} /\ ui.loading = FALSE

StatsWait ==
  /\ "stats" \in DOMAIN ui /\ {"shown", "wait"} \subseteq DOMAIN ui.stats
  /\ ui.stats.wait => \E c \in calls : c.op = "stats"

(* A form, and a plan the shop took. *)
PlanFits(f) ==
  /\ f \in PlanForm
  /\ f.platforms = "ios" => f.android = "disabled"
  /\ f.platforms = "android" => f.ios = "disabled"
PlanSold(f) ==
  /\ f \in PlanForm /\ ValidatePlanFulfillment(f)
  /\ f.provider = "lunakey" => f.days = DurationOf(f.category)

PlansSold ==
  /\ {"form", "edits"} \subseteq DOMAIN ui /\ PlanFits(ui.form)
  /\ {"is", "plan", "others", "errand"} \subseteq DOMAIN db /\ DOMAIN db.plan = Items
  /\ \A i \in Items : PlanSold(db.plan[i])
  /\ \A row \in ui.rows : PlanSold(row.plan)
  /\ \A c \in calls :
       /\ c.op = "load" => \A row \in c.rows : PlanSold(row.plan)
       /\ c.op = "save" => c.form \subseteq PlanForm

DialogsInv ==
  /\ page \in DialogPages => DialogInv
  /\ page \in {"orders", "admin plans", "admin system"} => LoadsAlone
  /\ page = "admin orders" => ReasonsOwn
  /\ page = "admin coupons" => StatsWait
  /\ page = "admin plans" => PlansSold
  /\ page = "admin system" => TabsQuiet

(* A step keeps the invariant when the page stays one, every new call is one,
   and what still waits waits for a call that is still there. *)
LEMMA DialogStep ==
  ASSUME DialogInv, DialogFields \subseteq DOMAIN ui', OwnEntry(ui'), ui'.busy \cap Unflagged = {},
         \A c \in calls' : c \in calls \/ OwnCall(c),
         ui'.loading => \/ ui.loading /\ \A c \in calls \ calls' : c.op # "load" \/ c.silent
                        \/ \E c \in calls' : c.op = "load" /\ ~c.silent,
         \A flag \in ui'.busy :
            \/ flag \in ui.busy /\ \A c \in calls \ calls' : flag \notin {c.op, c.then}
            \/ \E c \in calls' : flag \in {c.op, c.then}
  PROVE  DialogInv'
  <1>1. \A c \in calls' : OwnCall(c)
    BY DEF DialogInv
  <1>2. ui'.loading => \E c \in calls' : c.op = "load" /\ ~c.silent
    BY DEF DialogInv, DialogWaits
  <1>3. \A flag \in ui'.busy : \E c \in calls' : flag \in {c.op, c.then}
    BY DEF DialogInv, DialogWaits
  <1> QED BY <1>1, <1>2, <1>3 DEF DialogInv, DialogWaits, OwnCall, OwnEntry

(* Nothing ended. *)
LEMMA DialogLooks ==
  ASSUME DialogInv, DialogFields \subseteq DOMAIN ui', OwnEntry(ui'),
         ui'.busy \subseteq ui.busy, ui'.loading = ui.loading,
         calls \subseteq calls', \A c \in calls' : c \in calls \/ OwnCall(c)
  PROVE  DialogInv'
  <1>1. ui'.busy \cap Unflagged = {}
    BY DEF DialogInv
  <1> QED BY <1>1, DialogStep

(* The shop executes or answers a call. *)
LEMMA CallGoesOn ==
  ASSUME DialogInv, NEW c \in calls, NEW d, CallFields \subseteq DOMAIN d, d.op = c.op,
         d.then = c.then, d.silent = c.silent, d.target = c.target, d.entered = c.entered,
         calls' = (calls \ {c}) \cup {d}, UNCHANGED ui
  PROVE  DialogInv'
  <1>1. OwnCall(d)
    BY DEF DialogInv, OwnCall
  <1>2. \A b \in calls : \E e \in calls' :
          e.op = b.op /\ e.then = b.then /\ e.silent = b.silent
    <2> SUFFICES ASSUME NEW b \in calls
                 PROVE  \E e \in calls' : e.op = b.op /\ e.then = b.then /\ e.silent = b.silent
      OBVIOUS
    <2>1. CASE b = c
      BY <2>1
    <2>2. CASE b # c
      BY <2>2
    <2> QED BY <2>1, <2>2
  <1>3. ui.loading => \E e \in calls' : e.op = "load" /\ ~e.silent
    BY <1>2 DEF DialogInv, DialogWaits
  <1>4. \A flag \in ui.busy : \E e \in calls' : flag \in {e.op, e.then}
    <2> SUFFICES ASSUME NEW flag \in ui.busy
                 PROVE  \E e \in calls' : flag \in {e.op, e.then}
      OBVIOUS
    <2>1. PICK b \in calls : flag \in {b.op, b.then}
      BY DEF DialogInv, DialogWaits
    <2>2. PICK e \in calls' : e.op = b.op /\ e.then = b.then
      BY <1>2
    <2> QED BY <2>1, <2>2
  <1>5. \A e \in calls' : e \in calls \/ OwnCall(e)
    BY <1>1
  <1> QED BY <1>3, <1>4, <1>5, DialogStep DEF DialogInv

(* A handler ends, and takes its flag back. *)
LEMMA HandlerEnds ==
  ASSUME DialogInv, NEW c \in calls, c.op # "load", calls' = calls \ {c},
         DialogFields \subseteq DOMAIN ui', OwnEntry(ui'), ui'.loading = ui.loading,
         ui'.busy \subseteq ui.busy, c.op \notin ui'.busy, c.then \notin ui'.busy
  PROVE  DialogInv'
  <1>1. ui'.busy \cap Unflagged = {}
    BY DEF DialogInv
  <1>2. calls \ calls' = {c}
    OBVIOUS
  <1> QED BY <1>1, <1>2, DialogStep

(* A handler goes on with a load, and waits for it or not. *)
LEMMA HandlerLoads ==
  ASSUME DialogInv, NEW c \in calls, NEW l, OwnCall(l), l.op = "load", l.silent = FALSE,
         calls' = (calls \ {c}) \cup {l},
         DialogFields \subseteq DOMAIN ui', OwnEntry(ui'),
         ui'.busy \subseteq ui.busy, \A flag \in ui'.busy \cap {c.op, c.then} : flag = l.then
  PROVE  DialogInv'
  <1>1. ui'.busy \cap Unflagged = {}
    BY DEF DialogInv
  <1>2. l \in calls' /\ calls \ calls' \subseteq {c}
    OBVIOUS
  <1>3. \A flag \in ui'.busy :
            \/ flag \in ui.busy /\ \A e \in calls \ calls' : flag \notin {e.op, e.then}
            \/ \E e \in calls' : flag \in {e.op, e.then}
    BY <1>2
  <1>4. \E e \in calls' : e.op = "load" /\ ~e.silent
    BY <1>2
  <1>5. \A e \in calls' : e \in calls \/ OwnCall(e)
    OBVIOUS
  <1> QED BY <1>1, <1>3, <1>4, <1>5, DialogStep

(* A load with its spinner and what follows it. *)
LoadIs(c, silent, then) == OwnCall(c) /\ c.op = "load" /\ c.silent = silent /\ c.then = then

LEMMA LoadIsOwn ==
  ASSUME NEW u, NEW silent, NEW then
  PROVE  /\ LoadIs(Load(u, silent, then), silent, then)
         /\ \A id : LoadIs([Load(u, silent, then) EXCEPT !.id = id], silent, then)
         /\ \A id, f, at :
              LoadIs([Load(u, silent, then) EXCEPT !.id = id, !.filter = f, !.at = at],
                     silent, then)
  <1>1. PICK b : b = Call("load", u)
    OBVIOUS
  <1>2. Began(b, "load")
    BY <1>1, CallBegan
  <1>3. PICK l : l = Load(u, silent, then)
    OBVIOUS
  <1>4. l = [b EXCEPT !.silent = silent, !.then = then]
    BY <1>1, <1>3 DEF Load
  <1>5. /\ CallFields \subseteq DOMAIN l /\ l.op = "load" /\ l.silent = silent /\ l.then = then
        /\ l.entered = {}
    BY <1>2, <1>4 DEF Began, CallFields
  <1>6. LoadIs(l, silent, then)
    BY <1>5 DEF LoadIs, OwnCall
  <1>7. ASSUME NEW id
        PROVE  LoadIs([l EXCEPT !.id = id], silent, then)
    <2>1. PICK c : c = [l EXCEPT !.id = id]
      OBVIOUS
    <2>2. /\ CallFields \subseteq DOMAIN c /\ c.op = "load" /\ c.silent = silent /\ c.then = then
          /\ c.entered = {}
      BY <1>5, <2>1 DEF CallFields
    <2> QED BY <2>1, <2>2 DEF LoadIs, OwnCall
  <1>8. ASSUME NEW id, NEW f, NEW at
        PROVE  LoadIs([l EXCEPT !.id = id, !.filter = f, !.at = at], silent, then)
    <2>1. PICK c : c = [l EXCEPT !.id = id, !.filter = f, !.at = at]
      OBVIOUS
    <2>2. /\ CallFields \subseteq DOMAIN c /\ c.op = "load" /\ c.silent = silent /\ c.then = then
          /\ c.entered = {}
      BY <1>5, <2>1 DEF CallFields
    <2> QED BY <2>1, <2>2 DEF LoadIs, OwnCall
  <1> QED BY <1>3, <1>6, <1>7, <1>8

(* The page as u, but a load may have begun. *)
LoadsOrNot(u, then) ==
  /\ SameBut(u, {"loading"}) /\ calls \subseteq calls'
  /\ \A c \in calls' : c \in calls \/ LoadIs(c, FALSE, then)
  /\ ui'.loading => u.loading \/ \E c \in calls' : c.op = "load" /\ ~c.silent

LEMMA LoadingLoads ==
  ASSUME NEW u, NEW then, Loading(u, then)
  PROVE  LoadsOrNot(u, then)
  <1>1. PICK l : l = Load(u, FALSE, then)
    OBVIOUS
  <1>2. LoadIs(l, FALSE, then)
    BY <1>1, LoadIsOwn
  <1>3. ui' = [u EXCEPT !.loading = TRUE] /\ calls' = calls \cup {l}
    BY <1>1 DEF Loading, Begin
  <1>4. l.op = "load" /\ ~l.silent
    BY <1>2 DEF LoadIs
  <1> QED BY <1>2, <1>3, <1>4 DEF SameBut, LoadsOrNot

LEMMA RefilterLoads ==
  ASSUME NEW u, Refilter(u)
  PROVE  LoadsOrNot(u, "")
  <1>1. CASE ui' = u /\ UNCHANGED calls
    BY <1>1 DEF SameBut, LoadsOrNot
  <1> QED BY <1>1, LoadingLoads DEF Refilter

(* The list looks elsewhere: filter and page number are all that changes. *)
LEMMA LooksElsewhere ==
  ASSUME DialogInv, NEW u, DOMAIN u = DOMAIN ui, u.dialog = ui.dialog, u.entered = ui.entered,
         u.busy = ui.busy, u.loading = ui.loading, LoadsOrNot(u, "")
  PROVE  DialogInv'
  <1>1. DialogFields \subseteq DOMAIN ui
    BY DEF DialogInv
  <1>2. /\ ui'["dialog"] = ui["dialog"] /\ ui'["entered"] = ui["entered"]
        /\ ui'["busy"] = ui["busy"] /\ DOMAIN ui' = DOMAIN ui
    BY <1>1 DEF LoadsOrNot, SameBut, DialogFields
  <1>3. OwnEntry(ui')
    BY <1>2 DEF DialogInv, OwnEntry
  <1>4. \A c \in calls' : c \in calls \/ OwnCall(c)
    BY DEF LoadsOrNot, LoadIs
  <1> QED BY <1>1, <1>2, <1>3, <1>4, DialogStep DEF LoadsOrNot, DialogInv

LEMMA TwoLoads ==
  ASSUME DialogInv, SearchSubmit
  PROVE  DialogInv'
  <1>1. DialogFields \subseteq DOMAIN ui
    BY DEF DialogInv
  <1>2. CASE Loading(ui, "")
    BY <1>2, LoadingLoads, LooksElsewhere
  <1>3. CASE ~Loading(ui, "")
    <2>1. PICK first : first = [ui EXCEPT !.at = 1, !.loading = TRUE]
      OBVIOUS
    <2>2. PICK old : old = Load(ui, FALSE, "")
      OBVIOUS
    <2>3. PICK new : new = [Load(first, FALSE, "") EXCEPT !.id = IdBeside(calls \cup {old})]
      OBVIOUS
    <2>4. calls' = calls \cup {old, new} /\ ui' = first
      BY <1>3, <2>1, <2>2, <2>3 DEF SearchSubmit
    <2>5. LoadIs(old, FALSE, "") /\ LoadIs(new, FALSE, "")
      BY <2>2, <2>3, LoadIsOwn
    <2>6. /\ DOMAIN first = DOMAIN ui /\ first.dialog = ui.dialog /\ first.busy = ui.busy
          /\ first.entered = ui.entered
      BY <1>1, <2>1 DEF DialogFields
    <2>7. OwnEntry(ui')
      BY <2>4, <2>6 DEF DialogInv, OwnEntry
    <2>8. /\ \A c \in calls' : c \in calls \/ OwnCall(c)
          /\ \E c \in calls' : c.op = "load" /\ ~c.silent
      BY <2>4, <2>5 DEF LoadIs
    <2> QED BY <1>1, <2>4, <2>6, <2>7, <2>8, DialogStep DEF DialogInv
  <1> QED BY <1>2, <1>3

(* Looking at a list: filter, search, page, refresh. *)
LEMMA ListLooks ==
  ASSUME DialogInv,
         \/ SearchSubmit \/ (\E f : FilterBy(f) \/ SearchFor(f)) \/ Loading(ui, "")
         \/ (\E to : TurnTo(to) \/ PageChanged(to) \/ Refilter([ui EXCEPT !.at = to]))
         \/ (\E f : Refilter([ui EXCEPT !.filter = f, !.at = 1]))
         \/ LiveRefresh
  PROVE  DialogInv'
  <1>1. DialogFields \subseteq DOMAIN ui
    BY DEF DialogInv
  <1>2. CASE SearchSubmit
    BY <1>2, TwoLoads
  <1>3. CASE Loading(ui, "")
    BY <1>3, LoadingLoads, LooksElsewhere
  <1>4. CASE LiveRefresh
    <2>1. PICK l : l = Load(ui, TRUE, "live")
      OBVIOUS
    <2>2. calls' = calls \cup {l} /\ UNCHANGED ui
      BY <1>4, <2>1 DEF LiveRefresh, Begin
    <2>3. OwnCall(l)
      BY <2>1, LoadIsOwn DEF LoadIs
    <2> QED BY <2>2, <2>3, DialogLooks DEF DialogInv
  <1>5. ASSUME NEW f, NEW to,
               \/ Refilter([ui EXCEPT !.filter = f, !.at = 1]) \/ Refilter([ui EXCEPT !.filter = f])
               \/ Refilter([ui EXCEPT !.at = to])
        PROVE  DialogInv'
    <2>1. PICK u : /\ Refilter(u)
                   /\ u \in {[ui EXCEPT !.filter = f, !.at = 1], [ui EXCEPT !.filter = f],
                             [ui EXCEPT !.at = to]}
      BY <1>5
    <2>2. /\ DOMAIN u = DOMAIN ui /\ u.dialog = ui.dialog /\ u.entered = ui.entered
          /\ u.busy = ui.busy /\ u.loading = ui.loading
      BY <1>1, <2>1 DEF DialogFields
    <2> QED BY <2>1, <2>2, RefilterLoads, LooksElsewhere
  <1> QED BY <1>2, <1>3, <1>4, <1>5 DEF FilterBy, SearchFor, TurnTo, PageChanged

(* A load is answered, and what it brought is shown. *)
LEMMA ReadRowsKeeps ==
  ASSUME DialogInv, NEW c \in calls, ReadRows(c)
  PROVE  DialogInv'
  <1>1. PICK d : d = [c EXCEPT !.reply = "ok", !.rows = RowsAt(c.filter, c.at),
                               !.of = PagesOf(c.filter)]
    OBVIOUS
  <1>2. calls' = (calls \ {c}) \cup {d} /\ UNCHANGED ui
    BY <1>1 DEF ReadRows, Change
  <1>3. CallFields \subseteq DOMAIN c
    BY DEF DialogInv, OwnCall
  <1>4. /\ CallFields \subseteq DOMAIN d /\ d.op = c.op /\ d.then = c.then
        /\ d.silent = c.silent /\ d.target = c.target /\ d.entered = c.entered
    BY <1>1, <1>3 DEF CallFields
  <1> QED BY <1>2, <1>4, CallGoesOn

(* A load ends; the flag of the handler that waited for it is taken back. *)
LEMMA LoadEnds ==
  ASSUME DialogInv, NEW c \in calls, c.op = "load", calls' = calls \ {c},
         DialogFields \subseteq DOMAIN ui', OwnEntry(ui'), ui'.loading => ui.loading /\ c.silent,
         ui'.busy \subseteq ui.busy, c.then \notin ui'.busy
  PROVE  DialogInv'
  <1>1. ui'.busy \cap Unflagged = {}
    BY DEF DialogInv
  <1>2. calls \ calls' = {c} /\ "load" \notin ui'.busy
    BY <1>1 DEF Unflagged
  <1> QED BY <1>1, <1>2, DialogStep

LEMMA LoadedKeeps ==
  ASSUME DialogInv, NEW c \in calls, Loaded(c)
  PROVE  DialogInv'
  <1>1. DialogFields \subseteq DOMAIN ui
    BY DEF DialogInv
  <1>2. PICK done : done = [ui EXCEPT !.loading = @ /\ c.silent, !.busy = @ \ {c.then}]
    OBVIOUS
  <1>3. /\ DOMAIN done = DOMAIN ui /\ done.dialog = ui.dialog /\ done.entered = ui.entered
        /\ done.busy = ui.busy \ {c.then} /\ done.loading = (ui.loading /\ c.silent)
    BY <1>1, <1>2 DEF DialogFields
  <1>4. ShowRows(c, done) /\ c.op = "load"
    <2>1. ShowRows(c, done)
      BY <1>2 DEF Loaded
    <2> QED BY <2>1 DEF ShowRows
  <1>5. OwnEntry(done)
    BY <1>3 DEF DialogInv, OwnEntry
  <1>6. CASE ui' = done /\ End(c)
    BY <1>1, <1>3, <1>4, <1>5, <1>6, LoadEnds DEF End
  <1>7. CASE ~(ui' = done /\ End(c))
    <2>1. PICK after : after = [done EXCEPT !.rows = c.rows, !.of = c.of,
                                            !.at = IF c.at > c.of THEN c.of ELSE @]
      OBVIOUS
    <2>2. /\ DOMAIN after = DOMAIN ui /\ after.dialog = ui.dialog /\ after.entered = ui.entered
          /\ after.busy = ui.busy \ {c.then} /\ after.loading = (ui.loading /\ c.silent)
      BY <1>1, <1>3, <2>1 DEF DialogFields
    <2>3. OwnEntry(after)
      BY <2>2 DEF DialogInv, OwnEntry
    <2>4. CASE ui' = after /\ End(c)
      BY <1>1, <1>4, <2>2, <2>3, <2>4, LoadEnds DEF End
    <2>5. CASE ui' = [after EXCEPT !.loading = TRUE]
               /\ Change(c, [Load(after, FALSE, "") EXCEPT !.id = c.id])
      <3>1. PICK l : l = [Load(after, FALSE, "") EXCEPT !.id = c.id]
        OBVIOUS
      <3>2. LoadIs(l, FALSE, "") /\ calls' = (calls \ {c}) \cup {l}
        BY <2>5, <3>1, LoadIsOwn DEF Change
      <3>3. /\ DOMAIN ui' = DOMAIN ui /\ ui'.dialog = ui.dialog /\ ui'.entered = ui.entered
            /\ ui'.busy = ui.busy \ {c.then}
        BY <1>1, <2>2, <2>5 DEF DialogFields
      <3>4. OwnEntry(ui')
        BY <3>3 DEF DialogInv, OwnEntry
      <3>5. "load" \notin ui.busy
        BY DEF DialogInv, Unflagged
      <3>6. ui'.busy \cap {c.op, c.then} = {}
        BY <1>4, <3>3, <3>5
      <3> QED BY <1>1, <3>2, <3>3, <3>4, <3>6, HandlerLoads DEF LoadIs
    <2> QED BY <1>4, <1>7, <2>1, <2>4, <2>5 DEF ShowRows
  <1> QED BY <1>6, <1>7

-----------------------------------------------------------------------------
(* Dialogs *)

(* What a page keeps beside its list and its dialog is as it was. *)
Rest(u) == DOMAIN u = DOMAIN ui /\ \A f \in DOMAIN ui \ DialogFields : u[f] = ui[f]

(* The page as a handler leaves it: flags are gone, a dialog perhaps too. *)
Left(u, flags) ==
  /\ DialogFields \subseteq DOMAIN u /\ OwnEntry(u)
  /\ u.busy = ui.busy \ flags /\ u.loading = ui.loading
From(u, flags) == Left(u, flags) /\ Rest(u)

LEMMA Frees ==
  ASSUME DialogInv
  PROVE  /\ From(ui, {}) /\ From(Gone(ui), {})
         /\ \A op : From(Free(op), {op}) /\ From([Free(op) EXCEPT !.entered = {}], {op})
  <1>1. DialogFields \subseteq DOMAIN ui /\ OwnEntry(ui)
    BY DEF DialogInv
  <1>2. From(ui, {})
    BY <1>1 DEF From, Left, Rest
  <1>3. From(Gone(ui), {})
    <2>1. PICK u : u = Gone(ui)
      OBVIOUS
    <2>2. /\ DOMAIN u = DOMAIN ui /\ u.entered = {} /\ u.busy = ui.busy
          /\ u.loading = ui.loading /\ Rest(u)
      BY <1>1, <2>1 DEF Gone, DialogFields, Rest
    <2> QED BY <1>1, <2>1, <2>2 DEF From, Left, OwnEntry
  <1>4. ASSUME NEW op
        PROVE  From(Free(op), {op}) /\ From([Free(op) EXCEPT !.entered = {}], {op})
    <2>1. PICK u : u = Free(op)
      OBVIOUS
    <2>2. /\ DOMAIN u = DOMAIN ui /\ u.entered = ui.entered /\ u.busy = ui.busy \ {op}
          /\ u.loading = ui.loading /\ u.dialog = ui.dialog /\ Rest(u)
      BY <1>1, <2>1 DEF Free, DialogFields, Rest
    <2>3. From(u, {op})
      BY <1>1, <2>2 DEF From, Left, OwnEntry
    <2>4. PICK v : v = [u EXCEPT !.entered = {}]
      OBVIOUS
    <2>5. /\ DOMAIN v = DOMAIN ui /\ v.entered = {} /\ v.busy = ui.busy \ {op}
          /\ v.loading = ui.loading /\ Rest(v)
      BY <1>1, <2>2, <2>4 DEF DialogFields, Rest
    <2>6. From(v, {op})
      BY <1>1, <2>5 DEF From, Left, OwnEntry
    <2> QED BY <2>1, <2>3, <2>4, <2>6
  <1> QED BY <1>2, <1>3, <1>4

LEMMA Closes ==
  ASSUME NEW u, NEW flags, From(u, flags)
  PROVE  /\ From([u EXCEPT !.dialog = NoDialog], flags) /\ From(Gone(u), flags)
         /\ \A kinds : From(Closing(kinds, u), flags) /\ From(Closed(kinds, u), flags)
  <1>1. From([u EXCEPT !.dialog = NoDialog], flags)
    <2>1. PICK v : v = [u EXCEPT !.dialog = NoDialog]
      OBVIOUS
    <2>2. /\ DOMAIN v = DOMAIN u /\ v.dialog = NoDialog /\ v.busy = u.busy
          /\ v.loading = u.loading /\ Rest(v)
      BY <2>1 DEF From, Left, DialogFields, Rest
    <2>3. v.dialog.kind = "none"
      BY <2>2 DEF NoDialog
    <2> QED BY <2>1, <2>2, <2>3 DEF From, Left, OwnEntry
  <1>2. From(Gone(u), flags)
    <2>1. PICK v : v = Gone(u)
      OBVIOUS
    <2>2. /\ DOMAIN v = DOMAIN u /\ v.entered = {} /\ v.busy = u.busy
          /\ v.loading = u.loading /\ Rest(v)
      BY <2>1 DEF Gone, From, Left, DialogFields, Rest
    <2> QED BY <2>1, <2>2 DEF From, Left, OwnEntry
  <1> QED BY <1>1, <1>2 DEF Closing, Closed

LEMMA OpenKeeps ==
  ASSUME DialogInv, NEW kind, NEW id, NEW entered, NEW value, Open(kind, id, entered, value),
         entered \subseteq {id}
  PROVE  DialogInv'
  <1>1. DialogFields \subseteq DOMAIN ui
    BY DEF DialogInv
  <1>2. ui' = [ui EXCEPT !.dialog = [kind |-> kind, id |-> id], !.entered = entered,
                         !.value = value]
        /\ UNCHANGED calls
    BY DEF Open
  <1>3. /\ DOMAIN ui' = DOMAIN ui /\ ui'.dialog = [kind |-> kind, id |-> id]
        /\ ui'.entered = entered /\ ui'.busy = ui.busy /\ ui'.loading = ui.loading
    BY <1>1, <1>2 DEF DialogFields
  <1>4. OwnEntry(ui')
    BY <1>3 DEF OwnEntry
  <1> QED BY <1>1, <1>2, <1>3, <1>4, DialogLooks

LEMMA EnterKeeps ==
  ASSUME DialogInv, NEW value, Enter(value)
  PROVE  DialogInv'
  <1>1. DialogFields \subseteq DOMAIN ui
    BY DEF DialogInv
  <1>2. ui' = [ui EXCEPT !.entered = @ \cup {ui.dialog.id}, !.value = value] /\ UNCHANGED calls
    BY DEF Enter
  <1>3. /\ DOMAIN ui' = DOMAIN ui /\ ui'.dialog = ui.dialog
        /\ ui'.entered = ui.entered \cup {ui.dialog.id}
        /\ ui'.busy = ui.busy /\ ui'.loading = ui.loading
    BY <1>1, <1>2 DEF DialogFields
  <1>4. OwnEntry(ui')
    BY <1>3 DEF OwnEntry, DialogInv
  <1> QED BY <1>1, <1>2, <1>3, <1>4, DialogLooks

LEMMA DismissKeeps ==
  ASSUME DialogInv, Dismiss
  PROVE  DialogInv'
  <1>1. ui' = [ui EXCEPT !.dialog = NoDialog] /\ UNCHANGED calls
    BY DEF Dismiss
  <1>2. From(ui', {})
    BY <1>1, Frees, Closes
  <1> QED BY <1>1, <1>2, DialogLooks DEF From, Left

(* A handler sets its flag and calls the shop. *)
LEMMA HandlerBegins ==
  ASSUME DialogInv, NEW c, OwnCall(c), calls' = calls \cup {c},
         DialogFields \subseteq DOMAIN ui', OwnEntry(ui'), ui'.loading = ui.loading,
         ui'.busy \subseteq ui.busy \cup ({c.op, c.then} \ Unflagged)
  PROVE  DialogInv'
  <1>1. ui'.busy \cap Unflagged = {}
    BY DEF DialogInv
  <1>2. \A flag \in ui'.busy : flag \in ui.busy \/ \E e \in calls' : flag \in {e.op, e.then}
    OBVIOUS
  <1>3. calls \ calls' = {} /\ \A e \in calls' : e \in calls \/ OwnCall(e)
    OBVIOUS
  <1> QED BY <1>1, <1>2, <1>3, DialogStep

LEMMA SubmitKeeps ==
  ASSUME DialogInv, NEW op, Submit(op), op \notin Unflagged, ui.entered \subseteq {ui.dialog.id}
  PROVE  DialogInv'
  <1>1. DialogFields \subseteq DOMAIN ui
    BY DEF DialogInv
  <1>2. PICK b : b = Call(op, ui)
    OBVIOUS
  <1>3. PICK c : c = [b EXCEPT !.kind = ui.dialog.kind, !.target = ui.dialog.id,
                               !.value = ui.value, !.entered = ui.entered]
    OBVIOUS
  <1>4. calls' = calls \cup {c} /\ ui' = [ui EXCEPT !.busy = @ \cup {op}]
    BY <1>2, <1>3 DEF Submit, Begin
  <1>5. Began(b, op)
    BY <1>2, CallBegan
  <1>6. /\ CallFields \subseteq DOMAIN c /\ c.op = op /\ c.then = "" /\ c.target = ui.dialog.id
        /\ c.entered = ui.entered
    BY <1>3, <1>5 DEF Began, CallFields
  <1>7. OwnCall(c)
    BY <1>6 DEF OwnCall, Unflagged
  <1>8. /\ DOMAIN ui' = DOMAIN ui /\ ui'.dialog = ui.dialog /\ ui'.entered = ui.entered
        /\ ui'.busy = ui.busy \cup {op} /\ ui'.loading = ui.loading
    BY <1>1, <1>4 DEF DialogFields
  <1>9. OwnEntry(ui')
    BY <1>8 DEF OwnEntry, DialogInv
  <1> QED BY <1>1, <1>4, <1>6, <1>7, <1>8, <1>9, HandlerBegins

(* A button in a row calls the shop without a flag. *)
LEMMA CalledKeeps ==
  ASSUME DialogInv, NEW b, NEW op \in {"detail", "toggle"}, Began(b, op),
         NEW c, CallFields \subseteq DOMAIN c, c.op = op, c.then = b.then,
         c.entered = b.entered, calls' = calls \cup {c}, UNCHANGED ui
  PROVE  DialogInv'
  <1>1. OwnCall(c)
    BY DEF Began, OwnCall
  <1> QED BY <1>1, DialogLooks DEF DialogInv

(* The shop does what was asked for, or refuses. *)
LEMMA RepliedKeeps ==
  ASSUME DialogInv, NEW c \in calls, NEW reply, Change(c, [c EXCEPT !.reply = reply]),
         UNCHANGED ui
  PROVE  DialogInv'
  <1>1. PICK d : d = [c EXCEPT !.reply = reply]
    OBVIOUS
  <1>2. calls' = (calls \ {c}) \cup {d}
    BY <1>1 DEF Change
  <1>3. CallFields \subseteq DOMAIN c
    BY DEF DialogInv, OwnCall
  <1>4. /\ CallFields \subseteq DOMAIN d /\ d.op = c.op /\ d.then = c.then
        /\ d.silent = c.silent /\ d.target = c.target /\ d.entered = c.entered
    BY <1>1, <1>3 DEF CallFields
  <1> QED BY <1>2, <1>4, CallGoesOn

LEMMA ShopExecutes ==
  ASSUME DialogInv, NEW c \in calls, NEW to, Executed(c, to)
  PROVE  DialogInv'
  <1>1. Change(c, [c EXCEPT !.reply = "ok"]) /\ UNCHANGED ui
    BY DEF Executed
  <1> QED BY <1>1, RepliedKeeps

(* A handler that ends in one step waits for nobody. *)
LEMMA AloneFlag ==
  ASSUME DialogInv, NEW c \in calls, c.op \notin Handlers
  PROVE  c.then \notin ui.busy
  BY DEF DialogInv, OwnCall, Unflagged, Handlers

LEMMA EndsKeeps ==
  ASSUME DialogInv, NEW c \in calls, c.op \notin Handlers, End(c), NEW flags, Left(ui', flags),
         c.op \in flags \cup Unflagged
  PROVE  DialogInv'
  <1>1. c.then \notin ui.busy
    BY AloneFlag
  <1>2. calls' = calls \ {c} /\ c.op # "load"
    BY DEF End, Handlers
  <1>3. ui'.busy = ui.busy \ flags /\ ui.busy \cap Unflagged = {}
    BY DEF Left, DialogInv
  <1>4. c.op \notin ui'.busy /\ c.then \notin ui'.busy /\ ui'.busy \subseteq ui.busy
    BY <1>1, <1>3
  <1> QED BY <1>2, <1>4, HandlerEnds DEF Left

LEMMA FailedKeeps ==
  ASSUME DialogInv, NEW c \in calls, c.op \notin Handlers, Failed(c)
  PROVE  DialogInv'
  <1>1. End(c) /\ ui' = Free(c.op)
    BY DEF Failed
  <1>2. From(ui', {c.op})
    BY <1>1, Frees
  <1> QED BY <1>1, <1>2, EndsKeeps DEF From

LEMMA ThenLoadKeeps ==
  ASSUME DialogInv, NEW c \in calls, c.op \notin Handlers, NEW u, NEW flags, From(u, flags),
         c.op \in flags \cup Unflagged, ThenLoad(c, u)
  PROVE  DialogInv'
  <1>1. PICK l : l = [Load(ui, FALSE, "") EXCEPT !.id = c.id, !.filter = c.filter, !.at = c.at]
    OBVIOUS
  <1>2. LoadIs(l, FALSE, "")
    BY <1>1, LoadIsOwn
  <1>3. calls' = (calls \ {c}) \cup {l} /\ ui' = [u EXCEPT !.loading = TRUE]
    BY <1>1 DEF ThenLoad, Change
  <1>4. DialogFields \subseteq DOMAIN u
    BY DEF From, Left
  <1>5. /\ DOMAIN ui' = DOMAIN u /\ ui'.dialog = u.dialog /\ ui'.entered = u.entered
        /\ ui'.busy = u.busy
    BY <1>3, <1>4 DEF DialogFields
  <1>6. OwnEntry(ui') /\ ui'.busy = ui.busy \ flags
    BY <1>5 DEF From, Left, OwnEntry
  <1>7. c.then \notin ui.busy
    BY AloneFlag
  <1>8. ui'.busy \cap {c.op, c.then} = {} /\ ui'.busy \subseteq ui.busy
    BY <1>6, <1>7 DEF DialogInv
  <1> QED BY <1>2, <1>3, <1>4, <1>5, <1>6, <1>8, HandlerLoads DEF LoadIs

LEMMA AwaitLoadKeeps ==
  ASSUME DialogInv, NEW c \in calls, c.op \notin Handlers, NEW u, NEW flags, From(u, flags),
         AwaitLoad(c, u)
  PROVE  DialogInv'
  <1>1. PICK l : l = [Load(ui, FALSE, c.op) EXCEPT !.id = c.id, !.filter = c.filter, !.at = c.at]
    OBVIOUS
  <1>2. LoadIs(l, FALSE, c.op)
    BY <1>1, LoadIsOwn
  <1>3. calls' = (calls \ {c}) \cup {l} /\ ui' = [u EXCEPT !.loading = TRUE]
    BY <1>1 DEF AwaitLoad, Change
  <1>4. DialogFields \subseteq DOMAIN u
    BY DEF From, Left
  <1>5. /\ DOMAIN ui' = DOMAIN u /\ ui'.dialog = u.dialog /\ ui'.entered = u.entered
        /\ ui'.busy = u.busy
    BY <1>3, <1>4 DEF DialogFields
  <1>6. OwnEntry(ui') /\ ui'.busy \subseteq ui.busy
    BY <1>5 DEF From, Left, OwnEntry
  <1>7. c.then \notin ui.busy
    BY AloneFlag
  <1>8. \A flag \in ui'.busy \cap {c.op, c.then} : flag = l.then
    BY <1>2, <1>6, <1>7 DEF LoadIs
  <1> QED BY <1>2, <1>3, <1>4, <1>5, <1>6, <1>8, HandlerLoads DEF LoadIs

(* Looking at the list, opening, filling and closing leave the rest alone. *)
SameDialog(u) == u.dialog = ui.dialog /\ u.entered = ui.entered

LEMMA ListRest ==
  ASSUME DialogInv,
         \/ SearchSubmit \/ (\E f : FilterBy(f) \/ SearchFor(f)) \/ Loading(ui, "")
         \/ (\E to : TurnTo(to) \/ PageChanged(to) \/ Refilter([ui EXCEPT !.at = to]))
         \/ (\E f : Refilter([ui EXCEPT !.filter = f, !.at = 1]))
         \/ LiveRefresh
  PROVE  Rest(ui') /\ SameDialog(ui') /\ calls \subseteq calls'
  <1>1. DialogFields \subseteq DOMAIN ui
    BY DEF DialogInv
  <1>2. ASSUME NEW u, Rest(u), SameDialog(u), LoadsOrNot(u, "")
        PROVE  Rest(ui') /\ SameDialog(ui') /\ calls \subseteq calls'
    <2>1. Rest(ui') /\ calls \subseteq calls'
      BY <1>2 DEF Rest, LoadsOrNot, SameBut, DialogFields
    <2>2. ui'["dialog"] = u["dialog"] /\ ui'["entered"] = u["entered"]
      BY <1>1, <1>2 DEF Rest, LoadsOrNot, SameBut, DialogFields
    <2> QED BY <1>2, <2>1, <2>2 DEF SameDialog
  <1>3. CASE Loading(ui, "")
    BY <1>2, <1>3, LoadingLoads DEF Rest, SameDialog
  <1>4. CASE SearchSubmit /\ ~Loading(ui, "")
    <2>1. PICK old : old = Load(ui, FALSE, "")
      OBVIOUS
    <2>2. PICK first : first = [ui EXCEPT !.at = 1, !.loading = TRUE]
      OBVIOUS
    <2>3. ui' = first /\ calls \subseteq calls'
      BY <1>4, <2>1, <2>2 DEF SearchSubmit
    <2> QED BY <1>1, <2>2, <2>3 DEF Rest, SameDialog, DialogFields
  <1>5. CASE LiveRefresh
    BY <1>5 DEF LiveRefresh, Begin, Rest, SameDialog
  <1>6. ASSUME NEW f, NEW to,
               \/ Refilter([ui EXCEPT !.filter = f, !.at = 1]) \/ Refilter([ui EXCEPT !.filter = f])
               \/ Refilter([ui EXCEPT !.at = to])
        PROVE  Rest(ui') /\ SameDialog(ui') /\ calls \subseteq calls'
    <2>1. PICK u : /\ Refilter(u)
                   /\ u \in {[ui EXCEPT !.filter = f, !.at = 1], [ui EXCEPT !.filter = f],
                             [ui EXCEPT !.at = to]}
      BY <1>6
    <2>2. Rest(u) /\ SameDialog(u)
      BY <1>1, <2>1 DEF DialogFields, Rest, SameDialog
    <2> QED BY <1>2, <2>1, <2>2, RefilterLoads
  <1> QED BY <1>3, <1>4, <1>5, <1>6 DEF FilterBy, SearchFor, TurnTo, PageChanged

LEMMA LoadedRest ==
  ASSUME DialogInv, NEW c \in calls, Loaded(c)
  PROVE  Rest(ui') /\ SameDialog(ui') /\ calls \ {c} \subseteq calls' /\ c.op = "load"
  <1>1. DialogFields \subseteq DOMAIN ui
    BY DEF DialogInv
  <1>2. PICK done : done = [ui EXCEPT !.loading = @ /\ c.silent, !.busy = @ \ {c.then}]
    OBVIOUS
  <1>3. ShowRows(c, done)
    BY <1>2 DEF Loaded
  <1>4. /\ Rest(done) /\ SameDialog(done)
        /\ {"rows", "of", "at", "loading"} \subseteq DOMAIN done
    BY <1>1, <1>2 DEF Rest, SameDialog, DialogFields
  <1>5. SameBut(done, {"rows", "of", "at", "loading"})
    BY <1>3, <1>4, RowsShown
  <1>6. Rest(ui')
    BY <1>4, <1>5 DEF SameBut, Rest, DialogFields
  <1>7. c.op = "load" /\ calls \ {c} \subseteq calls'
    <2>1. PICK after : after = [done EXCEPT !.rows = c.rows, !.of = c.of,
                                            !.at = IF c.at > c.of THEN c.of ELSE @]
      OBVIOUS
    <2> QED BY <1>3, <2>1 DEF ShowRows, End, Change
  <1>8. ui'["dialog"] = done["dialog"] /\ ui'["entered"] = done["entered"]
    BY <1>1, <1>4, <1>5 DEF Rest, SameBut, DialogFields
  <1> QED BY <1>4, <1>6, <1>7, <1>8 DEF SameDialog

LEMMA DialogRest ==
  ASSUME DialogInv,
         \/ \E kind, id, entered, value : Open(kind, id, entered, value)
         \/ (\E value : Enter(value)) \/ Dismiss \/ (\E op : Submit(op))
  PROVE  Rest(ui') /\ calls \subseteq calls'
  <1>1. DialogFields \subseteq DOMAIN ui
    BY DEF DialogInv
  <1>2. CASE \E kind, id, entered, value : Open(kind, id, entered, value)
    BY <1>1, <1>2 DEF Open, Rest, DialogFields
  <1>3. CASE \E value : Enter(value)
    BY <1>1, <1>3 DEF Enter, Rest, DialogFields
  <1>4. CASE Dismiss
    BY <1>1, <1>4 DEF Dismiss, Rest, DialogFields
  <1>5. CASE \E op : Submit(op)
    BY <1>1, <1>5 DEF Submit, Begin, Rest, DialogFields
  <1> QED BY <1>2, <1>3, <1>4, <1>5

LEMMA HandlerRest ==
  ASSUME DialogInv, NEW c \in calls,
         Failed(c) \/ \E u, flags : From(u, flags) /\ (ThenLoad(c, u) \/ AwaitLoad(c, u))
  PROVE  Rest(ui') /\ calls \ {c} \subseteq calls'
  <1>1. CASE Failed(c)
    <2>1. ui' = Free(c.op) /\ calls' = calls \ {c}
      BY <1>1 DEF Failed, End
    <2> QED BY <2>1, Frees DEF From
  <1>2. ASSUME NEW u, NEW flags, From(u, flags), ThenLoad(c, u) \/ AwaitLoad(c, u)
        PROVE  Rest(ui') /\ calls \ {c} \subseteq calls'
    <2>1. ui' = [u EXCEPT !.loading = TRUE] /\ Rest(u) /\ DialogFields \subseteq DOMAIN u
      BY <1>2 DEF ThenLoad, AwaitLoad, From, Left
    <2>2. Rest(ui')
      BY <2>1 DEF Rest, DialogFields
    <2>3. calls \ {c} \subseteq calls'
      BY <1>2 DEF ThenLoad, AwaitLoad, Change
    <2> QED BY <2>2, <2>3
  <1> QED BY <1>1, <1>2

LEMMA OpensKeep ==
  ASSUME DialogInv, NEW kind, NEW id, NEW value,
         Open(kind, id, {}, value) \/ Open(kind, id, {id}, value)
  PROVE  DialogInv'
  <1>1. {} \subseteq {id} /\ {id} \subseteq {id}
    OBVIOUS
  <1> QED BY <1>1, OpenKeeps

LEMMA SubmittedKeeps ==
  ASSUME DialogInv, NEW op, Submit(op), op \notin Unflagged,
         NEW kinds, In(kinds), kinds \cap {"none", "order", "stats"} = {}
  PROVE  DialogInv'
  <1>1. ui.entered \subseteq {ui.dialog.id}
    BY DEF DialogInv, OwnEntry, In
  <1> QED BY <1>1, SubmitKeeps

LEMMA OthersKeep ==
  ASSUME DialogInv, NEW i, NEW to, OthersChange(i, to)
  PROVE  DialogInv'
  BY DialogLooks DEF DialogInv, OthersChange

LEMMA PaymentsDialogs == DialogInv /\ AdminPaymentsNext => DialogInv'
  <1> SUFFICES ASSUME DialogInv, AdminPaymentsNext
               PROVE  DialogInv'
    OBVIOUS
  <1>1. ASSUME \/ \E f \in {"", "pending"} : PaymentSearch(f) \/ PaymentFilters(f)
               \/ RefreshPayments \/ PaymentPagination \/ LiveRefresh
        PROVE  DialogInv'
    BY <1>1, ListLooks DEF PaymentSearch, PaymentFilters, RefreshPayments, PaymentPagination
  <1>2. CASE Dismiss \/ ConfirmModal
    BY <1>2, DismissKeeps, EnterKeeps DEF ConfirmModal
  <1>3. CASE HandleConfirmAction \/ HandleRejectAction
    <2>1. \/ In({"confirm"}) /\ Submit("confirm")
          \/ In({"reject"}) /\ Submit("reject")
      BY <1>3 DEF HandleConfirmAction, HandleRejectAction
    <2> QED BY <2>1, SubmittedKeeps DEF Unflagged
  <1>4. CASE \E row \in ui.rows : AskConfirm(row) \/ AskReject(row)
    <2>1. PICK row, kind : Open(kind, row.id, {}, "")
      BY <1>4 DEF AskConfirm, AskReject
    <2>2. PICK id : Open(kind, id, {}, "")
      BY <2>1
    <2> QED BY <2>2, OpensKeep
  <1>5. ASSUME NEW c \in calls, ReadRows(c) \/ LoadPayments(c)
        PROVE  DialogInv'
    BY <1>5, ReadRowsKeeps, LoadedKeeps DEF LoadPayments
  <1>6. ASSUME NEW c \in calls,
               \/ PaymentConfirmed(c) \/ PaymentRejected(c)
               \/ c.op \in {"confirm", "reject"} /\ Failed(c)
        PROVE  DialogInv'
    BY <1>6, ShopExecutes, FailedKeeps DEF PaymentConfirmed, PaymentRejected, Handlers
  <1>7. ASSUME NEW c \in calls, ConfirmDone(c) \/ RejectDone(c)
        PROVE  DialogInv'
    <2>1. PICK u : From(u, {c.op}) /\ ThenLoad(c, u)
      BY <1>7, Frees, Closes DEF ConfirmDone, RejectDone
    <2>2. c.op \in {"confirm", "reject"}
      BY <1>7 DEF ConfirmDone, RejectDone
    <2> QED BY <2>1, <2>2, ThenLoadKeeps DEF Handlers
  <1>8. CASE \E i \in Items : \E to \in {"expired", "paid"} : OthersChange(i, to)
    BY <1>8, OthersKeep
  <1> QED BY <1>1, <1>2, <1>3, <1>4, <1>5, <1>6, <1>7, <1>8 DEF AdminPaymentsNext

LEMMA UsersDialogs == DialogInv /\ AdminUsersNext => DialogInv'
  <1> SUFFICES ASSUME DialogInv, AdminUsersNext
               PROVE  DialogInv'
    OBVIOUS
  <1>1. ASSUME \/ \E f \in {"", "active"} : UserSearch(f) \/ UserFilters(f)
               \/ RefreshUsers \/ UserPagination
        PROVE  DialogInv'
    BY <1>1, ListLooks DEF UserSearch, UserFilters, RefreshUsers, UserPagination
  <1>2. CASE UserDetailModal
    <2>1. ui' = [ui EXCEPT !.detail = 0] /\ UNCHANGED calls /\ DialogFields \subseteq DOMAIN ui
      BY <1>2 DEF UserDetailModal, DialogInv
    <2>2. /\ DOMAIN ui' = DOMAIN ui /\ ui'.dialog = ui.dialog /\ ui'.entered = ui.entered
          /\ ui'.busy = ui.busy /\ ui'.loading = ui.loading
      BY <2>1 DEF DialogFields
    <2> QED BY <2>1, <2>2, DialogLooks DEF DialogInv, OwnEntry
  <1>3. CASE StatusDialog \/ WalletModal \/ Dismiss
    BY <1>3, DismissKeeps, EnterKeeps DEF StatusDialog, WalletModal
  <1>4. CASE HandleConfirmStatusChange \/ RoleDialog \/ HandleConfirmWalletAdjust
    <2>1. \/ In({"status"}) /\ Submit("status")
          \/ In({"role"}) /\ Submit("role")
          \/ In({"wallet"}) /\ Submit("wallet")
      BY <1>4 DEF HandleConfirmStatusChange, RoleDialog, HandleConfirmWalletAdjust, InFront
    <2> QED BY <2>1, SubmittedKeeps DEF Unflagged
  <1>5. ASSUME NEW row \in ui.rows, HandleOpenUser(row)
        PROVE  DialogInv'
    <2>1. PICK b : b = Call("detail", ui)
      OBVIOUS
    <2>2. PICK c : c = [b EXCEPT !.target = row.id]
      OBVIOUS
    <2>3. calls' = calls \cup {c} /\ UNCHANGED ui
      BY <1>5, <2>1, <2>2 DEF HandleOpenUser, Begin
    <2>4. Began(b, "detail")
      BY <2>1, CallBegan
    <2>5. CallFields \subseteq DOMAIN c /\ c.op = "detail" /\ c.then = b.then
          /\ c.entered = b.entered
      BY <2>2, <2>4 DEF Began, CallFields
    <2> QED BY <2>3, <2>4, <2>5, CalledKeeps
  <1>6. ASSUME NEW row \in ui.rows, AskStatus(row) \/ AskRole(row) \/ AskWallet(row)
        PROVE  DialogInv'
    <2>1. PICK kind, id, value : Open(kind, id, {}, value) \/ Open(kind, id, {id}, value)
      BY <1>6 DEF AskStatus, AskRole, AskWallet
    <2> QED BY <2>1, OpensKeep
  <1>7. ASSUME NEW c \in calls, UserDetailAnswered(c)
        PROVE  DialogInv'
    <2>1. End(c) /\ c.op = "detail" /\ ui' \in {ui, [ui EXCEPT !.detail = c.target]}
      BY <1>7 DEF UserDetailAnswered
    <2>2. DialogFields \subseteq DOMAIN ui /\ OwnEntry(ui)
      BY DEF DialogInv
    <2>3. /\ DOMAIN ui' = DOMAIN ui /\ ui'.dialog = ui.dialog /\ ui'.entered = ui.entered
          /\ ui'.busy = ui.busy /\ ui'.loading = ui.loading
      BY <2>1, <2>2 DEF DialogFields
    <2>4. Left(ui', {})
      BY <2>2, <2>3 DEF Left, OwnEntry
    <2> QED BY <2>1, <2>4, EndsKeeps DEF Handlers, Unflagged
  <1>8. ASSUME NEW c \in calls, ReadRows(c) \/ LoadUsers(c)
        PROVE  DialogInv'
    BY <1>8, ReadRowsKeeps, LoadedKeeps DEF LoadUsers
  <1>9. ASSUME NEW c \in calls,
               \/ UserStatusChanged(c) \/ RoleChanged(c) \/ WalletAdjusted(c)
               \/ (c.op \in {"status", "role", "wallet"} /\ Failed(c))
        PROVE  DialogInv'
    BY <1>9, ShopExecutes, RepliedKeeps, FailedKeeps
    DEF UserStatusChanged, RoleChanged, WalletAdjusted, Handlers
  <1>10. ASSUME NEW c \in calls, StatusDone(c) \/ RoleDone(c) \/ WalletDone(c)
         PROVE  DialogInv'
    <2>1. PICK u : From(u, {c.op}) /\ ThenLoad(c, u)
      BY <1>10, Frees, Closes DEF StatusDone, RoleDone, WalletDone
    <2>2. c.op \in {"status", "role", "wallet"}
      BY <1>10 DEF StatusDone, RoleDone, WalletDone
    <2> QED BY <2>1, <2>2, ThenLoadKeeps DEF Handlers
  <1>11. ASSUME NEW i, NEW to, OthersChange(i, to)
         PROVE  DialogInv'
    BY <1>11, OthersKeep
  <1> QED BY <1>1, <1>2, <1>3, <1>4, <1>5, <1>6, <1>7, <1>8, <1>9, <1>10, <1>11
          DEF AdminUsersNext

(* The statistics of a coupon are waited for as long as they are under way. *)
LEMMA StatsElsewhere ==
  ASSUME DialogInv, StatsWait, Rest(ui'), \A c \in calls : c.op = "stats" => c \in calls'
  PROVE  StatsWait'
  <1>1. ui'["stats"] = ui["stats"] /\ "stats" \in DOMAIN ui'
    BY DEF StatsWait, Rest, DialogFields
  <1> QED BY <1>1 DEF StatsWait

LEMMA CouponsDialogs == DialogInv /\ StatsWait /\ AdminCouponsNext => DialogInv' /\ StatsWait'
  <1> SUFFICES ASSUME DialogInv, StatsWait, AdminCouponsNext
               PROVE  DialogInv' /\ StatsWait'
    OBVIOUS
  <1>0. DialogFields \subseteq DOMAIN ui /\ OwnEntry(ui)
    BY DEF DialogInv
  <1>1. CASE RefreshCoupons \/ CouponPagination
             \/ \E f \in {"", "active", "inactive"} : CouponFilters(f)
    <2>1. \/ Loading(ui, "") \/ (\E to : TurnTo(to))
          \/ (\E f : Refilter([ui EXCEPT !.filter = f, !.at = 1]))
      BY <1>1 DEF RefreshCoupons, CouponPagination, CouponFilters
    <2> QED BY <2>1, ListLooks, ListRest, StatsElsewhere
  <1>2. CASE HandleOpenCreate \/ \E row \in ui.rows : HandleOpenEdit(row) \/ AskDeleteCoupon(row)
    <2>1. PICK kind, id, value : Open(kind, id, {}, value) \/ Open(kind, id, {id}, value)
      BY <1>2 DEF HandleOpenCreate, HandleOpenEdit, AskDeleteCoupon
    <2> QED BY <2>1, OpensKeep, DialogRest, StatsElsewhere
  <1>3. CASE CouponFields \/ CouponPlans \/ ActiveBox \/ Dismiss
    <2>1. Dismiss \/ \E value : Enter(value)
      BY <1>3 DEF CouponPlans, CouponFields, ActiveBox
    <2> QED BY <2>1, DismissKeeps, EnterKeeps, DialogRest, StatsElsewhere
  <1>4. CASE HandleSaveCoupon \/ CouponDeleteDialog
    <2>1. \/ In({"create", "edit"}) /\ Submit("save")
          \/ In({"delete"}) /\ Submit("delete")
      BY <1>4 DEF HandleSaveCoupon, CouponDeleteDialog
    <2>2. DialogInv'
      BY <2>1, SubmittedKeeps DEF Unflagged
    <2> QED BY <2>1, <2>2, DialogRest, StatsElsewhere
  <1>5. ASSUME NEW row \in ui.rows, HandleToggleActive(row)
        PROVE  DialogInv' /\ StatsWait'
    <2>1. PICK b : b = Call("toggle", ui)
      OBVIOUS
    <2>2. PICK c : c = [b EXCEPT !.target = row.id, !.value = Opposite(row.is)]
      OBVIOUS
    <2>3. calls' = calls \cup {c} /\ UNCHANGED ui
      BY <1>5, <2>1, <2>2 DEF HandleToggleActive, Begin
    <2>4. Began(b, "toggle")
      BY <2>1, CallBegan
    <2>5. CallFields \subseteq DOMAIN c /\ c.op = "toggle" /\ c.then = b.then
          /\ c.entered = b.entered
      BY <2>2, <2>4 DEF Began, CallFields
    <2>6. StatsWait'
      BY <2>3 DEF StatsWait
    <2> QED BY <2>3, <2>4, <2>5, <2>6, CalledKeeps
  <1>6. ASSUME NEW row \in ui.rows, HandleOpenStats(row)
        PROVE  DialogInv' /\ StatsWait'
    <2>1. PICK b : b = Call("stats", ui)
      OBVIOUS
    <2>2. PICK c : c = [b EXCEPT !.target = row.id]
      OBVIOUS
    <2>3. /\ calls' = calls \cup {c}
          /\ ui' = [ui EXCEPT !.dialog = [kind |-> "stats", id |-> row.id],
                              !.stats = [shown |-> 0, wait |-> TRUE]]
      BY <1>6, <2>1, <2>2 DEF HandleOpenStats, Begin
    <2>4. Began(b, "stats")
      BY <2>1, CallBegan
    <2>5. CallFields \subseteq DOMAIN c /\ c.op = "stats" /\ c.then = "" /\ c.entered = {}
      BY <2>2, <2>4 DEF Began, CallFields
    <2>6. /\ DOMAIN ui' = DOMAIN ui /\ ui'.dialog.kind = "stats"
          /\ ui'.busy = ui.busy /\ ui'.loading = ui.loading
          /\ ui'.stats = [shown |-> 0, wait |-> TRUE]
      BY <1>0, <2>3 DEF DialogFields, StatsWait
    <2>7. OwnCall(c) /\ OwnEntry(ui')
      BY <2>5, <2>6 DEF OwnCall, OwnEntry
    <2>8. DialogInv'
      BY <1>0, <2>3, <2>6, <2>7, DialogLooks
    <2>9. c \in calls' /\ {"shown", "wait"} \subseteq DOMAIN ui'.stats
      BY <2>3, <2>6
    <2> QED BY <2>5, <2>6, <2>8, <2>9 DEF StatsWait
  <1>7. ASSUME NEW c \in calls, StatsAnswered(c)
        PROVE  DialogInv' /\ StatsWait'
    <2>1. /\ End(c) /\ c.op = "stats"
          /\ ui' \in {[ui EXCEPT !.stats.wait = FALSE],
                      [ui EXCEPT !.stats = [shown |-> c.target, wait |-> FALSE]]}
      BY <1>7 DEF StatsAnswered
    <2>2. /\ DOMAIN ui' = DOMAIN ui /\ ui'.dialog = ui.dialog /\ ui'.entered = ui.entered
          /\ ui'.busy = ui.busy /\ ui'.loading = ui.loading
      BY <1>0, <2>1 DEF DialogFields
    <2>3. Left(ui', {})
      BY <1>0, <2>2 DEF Left, OwnEntry
    <2>4. {"shown", "wait"} \subseteq DOMAIN ui'.stats /\ ui'.stats.wait = FALSE
      BY <2>1 DEF StatsWait
    <2> QED BY <2>1, <2>2, <2>3, <2>4, EndsKeeps DEF Handlers, Unflagged, StatsWait
  <1>8. ASSUME NEW c \in calls, PlansForForm(c) \/ ToggleDone(c)
        PROVE  DialogInv' /\ StatsWait'
    <2>1. End(c) /\ c.op \in {"plans", "toggle"}
      BY <1>8 DEF PlansForForm, ToggleDone
    <2>2. /\ DOMAIN ui' = DOMAIN ui /\ ui'.dialog = ui.dialog /\ ui'.entered = ui.entered
          /\ ui'.busy = ui.busy /\ ui'.loading = ui.loading /\ ui'.stats = ui.stats
      BY <1>0, <1>8 DEF PlansForForm, ToggleDone, DialogFields, StatsWait
    <2>3. Left(ui', {})
      BY <1>0, <2>2 DEF Left, OwnEntry
    <2>4. DialogInv'
      BY <2>1, <2>3, EndsKeeps DEF Handlers, Unflagged
    <2> QED BY <2>1, <2>2, <2>4 DEF StatsWait, End
  <1>9. ASSUME NEW c \in calls, ReadRows(c) \/ LoadCoupons(c)
        PROVE  DialogInv' /\ StatsWait'
    <2>1. CASE ReadRows(c)
      <3>1. \A d \in calls : d.op = "stats" => d \in calls'
        BY <2>1 DEF ReadRows, Change
      <3>2. Rest(ui')
        BY <2>1 DEF ReadRows, Rest
      <3> QED BY <2>1, <3>1, <3>2, ReadRowsKeeps, StatsElsewhere
    <2>2. CASE LoadCoupons(c)
      <3>1. Loaded(c)
        BY <2>2 DEF LoadCoupons
      <3>2. Rest(ui') /\ calls \ {c} \subseteq calls' /\ c.op = "load"
        BY <3>1, LoadedRest
      <3>3. \A d \in calls : d.op = "stats" => d \in calls'
        BY <3>2
      <3> QED BY <3>1, <3>2, <3>3, LoadedKeeps, StatsElsewhere
    <2> QED BY <1>9, <2>1, <2>2
  <1>10. ASSUME NEW c \in calls,
                \/ CouponSaved(c) \/ CouponToggled(c) \/ CouponDeleted(c)
                \/ (c.op \in {"save", "delete"} /\ Failed(c))
         PROVE  DialogInv' /\ StatsWait'
    <2>1. c.op \in {"save", "delete", "toggle"}
      BY <1>10 DEF CouponSaved, CouponToggled, CouponDeleted
    <2>2. CASE Failed(c)
      <3>1. Rest(ui') /\ calls \ {c} \subseteq calls'
        BY <2>2, HandlerRest
      <3> QED BY <2>1, <2>2, <3>1, FailedKeeps, StatsElsewhere DEF Handlers
    <2>3. CASE CouponSaved(c) \/ CouponToggled(c) \/ CouponDeleted(c)
      <3>1. Change(c, [c EXCEPT !.reply = "ok"]) /\ UNCHANGED ui
        BY <2>3 DEF CouponSaved, CouponToggled, CouponDeleted, Executed
      <3>2. calls \ {c} \subseteq calls' /\ Rest(ui')
        BY <3>1 DEF Change, Rest
      <3> QED BY <2>1, <3>1, <3>2, RepliedKeeps, StatsElsewhere
    <2> QED BY <1>10, <2>2, <2>3
  <1>11. ASSUME NEW c \in calls, SaveDone(c) \/ DeleteDone(c)
         PROVE  DialogInv' /\ StatsWait'
    <2>1. PICK u : From(u, {c.op}) /\ ThenLoad(c, u)
      BY <1>11, Frees, Closes DEF SaveDone, DeleteDone
    <2>2. c.op \in {"save", "delete"}
      BY <1>11 DEF SaveDone, DeleteDone
    <2>3. DialogInv'
      BY <2>1, <2>2, ThenLoadKeeps DEF Handlers
    <2>4. Rest(ui') /\ calls \ {c} \subseteq calls'
      BY <2>1, HandlerRest
    <2> QED BY <2>2, <2>3, <2>4, StatsElsewhere
  <1>12. ASSUME NEW i, NEW to, OthersChange(i, to)
         PROVE  DialogInv' /\ StatsWait'
    BY <1>12, OthersKeep DEF OthersChange, StatsWait
  <1> QED BY <1>1, <1>2, <1>3, <1>4, <1>5, <1>6, <1>7, <1>8, <1>9, <1>10, <1>11, <1>12
          DEF AdminCouponsNext

(* A creator's form ends with the first page, which is loaded beside its own. *)
LEMMA CreatorAnsweredKeeps ==
  ASSUME DialogInv, NEW c \in calls, CreatorAnswered(c)
  PROVE  DialogInv'
  <1>1. PICK v : v = Closed({"form"}, ui)
    OBVIOUS
  <1>2. From(v, {})
    BY <1>1, Frees, Closes
  <1>3. PICK u : u = [v EXCEPT !.at = 1, !.loading = TRUE]
    OBVIOUS
  <1>4. /\ DOMAIN u = DOMAIN v /\ u.dialog = v.dialog /\ u.entered = v.entered
        /\ u.busy = v.busy
    BY <1>2, <1>3 DEF From, Left, DialogFields
  <1>5. DialogFields \subseteq DOMAIN u /\ OwnEntry(u) /\ u.busy = ui.busy
    BY <1>2, <1>4 DEF From, Left, OwnEntry
  <1>6. PICK own : own = [Load(u, FALSE, "save") EXCEPT !.id = c.id, !.filter = c.filter,
                                                        !.at = c.at]
    OBVIOUS
  <1>7. PICK first : first = Load(u, FALSE, "")
    OBVIOUS
  <1>8. LoadIs(own, FALSE, "save") /\ LoadIs(first, FALSE, "")
    BY <1>6, <1>7, LoadIsOwn
  <1>9. /\ c.op = "save" /\ ui' = u
        /\ calls' = (calls \ {c}) \cup {own} \/ calls' = (calls \ {c}) \cup {own, first}
    BY <1>1, <1>3, <1>6, <1>7 DEF CreatorAnswered, Change
  <1>10. c.then \notin ui.busy
    BY <1>9, AloneFlag DEF Handlers
  <1>11. \A d \in calls' : d \in calls \/ OwnCall(d)
    BY <1>8, <1>9 DEF LoadIs
  <1>12. own \in calls' /\ calls \ calls' \subseteq {c}
    BY <1>9
  <1>13. \A flag \in ui'.busy :
            \/ flag \in ui.busy /\ \A d \in calls \ calls' : flag \notin {d.op, d.then}
            \/ \E d \in calls' : flag \in {d.op, d.then}
    BY <1>5, <1>8, <1>9, <1>10, <1>12 DEF LoadIs
  <1>14. \E d \in calls' : d.op = "load" /\ ~d.silent
    BY <1>8, <1>12 DEF LoadIs
  <1>15. ui'.busy \cap Unflagged = {}
    BY <1>5, <1>9 DEF DialogInv
  <1> QED BY <1>5, <1>9, <1>11, <1>13, <1>14, <1>15, DialogStep

LEMMA ListsDialogs == DialogInv /\ AdminListsNext => DialogInv'
  <1> SUFFICES ASSUME DialogInv, AdminListsNext
               PROVE  DialogInv'
    OBVIOUS
  <1>1. ASSUME \/ RefreshList \/ QuietRefresh
               \/ \E f \in {"", "shown"} : CreatorSearch(f) \/ AuditFilters(f) \/ OverviewRange(f)
               \/ \E to : ReviewPages(to) \/ AuditPages(to) \/ CreatorPages(to)
        PROVE  DialogInv'
    BY <1>1, ListLooks DEF RefreshList, QuietRefresh, CreatorSearch, AuditFilters, OverviewRange,
                           ReviewPages, AuditPages, CreatorPages
  <1>2. ASSUME NEW row,
               \/ ZoomImage(row) \/ LogDetail(row) \/ AskDeleteReview(row)
               \/ AskDeleteCreator(row) \/ ResetForm(row)
        PROVE  DialogInv'
    <2>1. PICK kind, id, value : Open(kind, id, {}, value) \/ Open(kind, id, {id}, value)
      BY <1>2 DEF ZoomImage, LogDetail, AskDeleteReview, AskDeleteCreator, ResetForm
    <2> QED BY <2>1, OpensKeep
  <1>3. CASE CloseDialog
    <2>1. ui' = Gone(ui) /\ UNCHANGED calls
      BY <1>3 DEF CloseDialog
    <2> QED BY <2>1, Frees, DialogLooks DEF From, Left
  <1>4. CASE HandleDeleteConfirm \/ SaveCreator
    <2>1. \/ In({"delete"}) /\ Submit("delete")
          \/ In({"form"}) /\ Submit("save")
      BY <1>4 DEF HandleDeleteConfirm, SaveCreator
    <2> QED BY <2>1, SubmittedKeeps DEF Unflagged
  <1>5. CASE \E value \in {"shown", "hidden"} : CreatorFields(value)
    BY <1>5, EnterKeeps DEF CreatorFields
  <1>6. ASSUME NEW c \in calls, ReadRows(c) \/ Loaded(c)
        PROVE  DialogInv'
    BY <1>6, ReadRowsKeeps, LoadedKeeps
  <1>7. ASSUME NEW c \in calls,
               RowDeleted(c) \/ CreatorSaved(c) \/ (c.op \in {"delete", "save"} /\ Failed(c))
        PROVE  DialogInv'
    BY <1>7, ShopExecutes, RepliedKeeps, FailedKeeps DEF RowDeleted, CreatorSaved, Handlers
  <1>8. ASSUME NEW c \in calls, ReviewDeleted(c)
        PROVE  DialogInv'
    <2>1. PICK u : From(u, {c.op}) /\ ThenLoad(c, u)
      BY <1>8, Frees, Closes DEF ReviewDeleted
    <2>2. c.op = "delete"
      BY <1>8 DEF ReviewDeleted
    <2> QED BY <2>1, <2>2, ThenLoadKeeps DEF Handlers
  <1>9. ASSUME NEW c \in calls, CreatorDeleted(c)
        PROVE  DialogInv'
    <2>1. PICK u : From(u, {}) /\ AwaitLoad(c, u)
      BY <1>9, Frees, Closes DEF CreatorDeleted
    <2>2. c.op = "delete"
      BY <1>9 DEF CreatorDeleted
    <2> QED BY <2>1, <2>2, AwaitLoadKeeps DEF Handlers
  <1>10. ASSUME NEW i, NEW to, OthersChange(i, to)
         PROVE  DialogInv'
    BY <1>10, OthersKeep
  <1> QED BY <1>1, <1>2, <1>3, <1>4, <1>5, <1>6, <1>7, <1>8, <1>9, <1>10, CreatorAnsweredKeeps
          DEF AdminListsNext

(* The customer's orders: the details are looked at, the tickets are asked for. *)
LEMMA AloneStays ==
  ASSUME LoadsAlone,
         \A c \in calls' :
            \/ c \in calls \/ c.op \notin Handlers
            \/ c.op = "load" /\ c.then \in {"", "live"}
  PROVE  LoadsAlone'
  BY DEF LoadsAlone

LEMMA ListAlone ==
  ASSUME LoadsAlone,
         LiveRefresh \/ Loading(ui, "") \/ \E to : Refilter([ui EXCEPT !.at = to])
  PROVE  LoadsAlone'
  <1>1. CASE LiveRefresh
    <2>1. PICK l : l = Load(ui, TRUE, "live")
      OBVIOUS
    <2>2. LoadIs(l, TRUE, "live") /\ calls' = calls \cup {l}
      BY <1>1, <2>1, LoadIsOwn DEF LiveRefresh, Begin
    <2> QED BY <2>2, AloneStays DEF LoadIs
  <1>2. ASSUME NEW u, LoadsOrNot(u, "")
        PROVE  LoadsAlone'
    BY <1>2, AloneStays DEF LoadsOrNot, LoadIs
  <1> QED BY <1>1, <1>2, LoadingLoads, RefilterLoads

LEMMA ReadAlone ==
  ASSUME DialogInv, LoadsAlone, NEW c \in calls, ReadRows(c)
  PROVE  LoadsAlone'
  <1>1. PICK d : d = [c EXCEPT !.reply = "ok", !.rows = RowsAt(c.filter, c.at),
                               !.of = PagesOf(c.filter)]
    OBVIOUS
  <1>2. calls' = (calls \ {c}) \cup {d} /\ CallFields \subseteq DOMAIN c
    BY <1>1 DEF ReadRows, Change, DialogInv, OwnCall
  <1>3. d.op = c.op /\ d.then = c.then
    BY <1>1, <1>2 DEF CallFields
  <1> QED BY <1>2, <1>3 DEF LoadsAlone

LEMMA OrdersDialogs == DialogInv /\ LoadsAlone /\ OrdersViewNext => DialogInv' /\ LoadsAlone'
  <1> SUFFICES ASSUME DialogInv, LoadsAlone, OrdersViewNext
               PROVE  DialogInv' /\ LoadsAlone'
    OBVIOUS
  <1>0. DialogFields \subseteq DOMAIN ui /\ OwnEntry(ui)
    BY DEF DialogInv
  <1>1. CASE RefreshOrders \/ OrdersPagination \/ LiveRefresh
    <2>1. LiveRefresh \/ Loading(ui, "") \/ \E to : Refilter([ui EXCEPT !.at = to])
      BY <1>1 DEF RefreshOrders, OrdersPagination
    <2> QED BY <2>1, ListLooks, ListAlone
  <1>2. CASE CloseOrder
    BY <1>2, DismissKeeps DEF CloseOrder, Dismiss, LoadsAlone
  <1>3. CASE HandleDownloadTicket
    <2>1. PICK b : b = Call("ticket", ui)
      OBVIOUS
    <2>2. PICK c : c = [b EXCEPT !.target = ui.selected.id]
      OBVIOUS
    <2>3. calls' = calls \cup {c} /\ ui' = [ui EXCEPT !.busy = @ \cup {"ticket"}, !.failed = FALSE]
      BY <1>3, <2>1, <2>2 DEF HandleDownloadTicket, Begin
    <2>4. Began(b, "ticket")
      BY <2>1, CallBegan
    <2>5. CallFields \subseteq DOMAIN c /\ c.op = "ticket" /\ c.then = "" /\ c.entered = {}
      BY <2>2, <2>4 DEF Began, CallFields
    <2>6. /\ DOMAIN ui' = DOMAIN ui /\ ui'.dialog = ui.dialog /\ ui'.entered = ui.entered
          /\ ui'.busy = ui.busy \cup {"ticket"} /\ ui'.loading = ui.loading
      BY <1>0, <2>3 DEF DialogFields
    <2>7. OwnCall(c) /\ OwnEntry(ui')
      BY <1>0, <2>5, <2>6 DEF OwnCall, OwnEntry
    <2>8. DialogInv'
      BY <1>0, <2>3, <2>5, <2>6, <2>7, HandlerBegins DEF Unflagged
    <2> QED BY <2>3, <2>5, <2>8, AloneStays DEF Handlers
  <1>4. ASSUME NEW row \in ui.rows, SelectOrder(row)
        PROVE  DialogInv' /\ LoadsAlone'
    <2>1. /\ ui' = [ui EXCEPT !.dialog = [kind |-> "order", id |-> row.id], !.selected = row]
          /\ UNCHANGED calls
      BY <1>4 DEF SelectOrder
    <2>2. /\ DOMAIN ui' = DOMAIN ui /\ ui'.dialog.kind = "order"
          /\ ui'.busy = ui.busy /\ ui'.loading = ui.loading
      BY <1>0, <2>1 DEF DialogFields
    <2>3. OwnEntry(ui')
      BY <2>2 DEF OwnEntry
    <2>4. LoadsAlone'
      BY <2>1 DEF LoadsAlone
    <2> QED BY <1>0, <2>1, <2>2, <2>3, <2>4, DialogLooks
  <1>5. ASSUME NEW c \in calls, ReadRows(c)
        PROVE  DialogInv' /\ LoadsAlone'
    BY <1>5, ReadRowsKeeps, ReadAlone
  <1>6. ASSUME NEW c \in calls, LoadUserOrders(c)
        PROVE  DialogInv' /\ LoadsAlone'
    <2>1. PICK u : u = [ui EXCEPT !.loading = @ /\ c.silent]
      OBVIOUS
    <2>2. /\ calls' = calls \ {c} /\ c.op = "load"
          /\ ui' = IF c.reply = "none" THEN u ELSE [u EXCEPT !.rows = c.rows, !.of = c.of]
      BY <1>6, <2>1 DEF LoadUserOrders, End
    <2>3. /\ DOMAIN u = DOMAIN ui /\ u.dialog = ui.dialog /\ u.entered = ui.entered
          /\ u.busy = ui.busy /\ u.loading = (ui.loading /\ c.silent)
      BY <1>0, <2>1 DEF DialogFields
    <2>4. /\ DOMAIN ui' = DOMAIN ui /\ ui'.dialog = ui.dialog /\ ui'.entered = ui.entered
          /\ ui'.busy = ui.busy /\ ui'.loading = (ui.loading /\ c.silent)
      BY <1>0, <2>2, <2>3 DEF DialogFields
    <2>5. OwnEntry(ui')
      BY <1>0, <2>4 DEF OwnEntry
    <2>6. c.then \notin ui.busy
      BY <2>2 DEF LoadsAlone, Handlers, DialogInv, Unflagged
    <2>7. LoadsAlone'
      BY <2>2 DEF LoadsAlone
    <2> QED BY <1>0, <2>2, <2>4, <2>5, <2>6, <2>7, LoadEnds
  <1>7. ASSUME NEW c \in calls, PlatformConfig(c) \/ TicketCreated(c)
        PROVE  DialogInv' /\ LoadsAlone'
    <2>1. End(c) /\ c.op \in {"config", "ticket"}
      BY <1>7 DEF PlatformConfig, TicketCreated
    <2>2. PICK flags : Left(ui', flags) /\ c.op \in flags \cup Unflagged
      <3>1. CASE PlatformConfig(c)
        <4>1. /\ DOMAIN ui' = DOMAIN ui /\ ui'.dialog = ui.dialog /\ ui'.entered = ui.entered
              /\ ui'.busy = ui.busy /\ ui'.loading = ui.loading
          BY <1>0, <3>1 DEF PlatformConfig, DialogFields
        <4>2. Left(ui', {}) /\ c.op = "config"
          BY <1>0, <3>1, <4>1 DEF Left, OwnEntry, PlatformConfig
        <4> QED BY <4>2 DEF Unflagged
      <3>2. CASE TicketCreated(c)
        <4>1. PICK u : u = Free("ticket")
          OBVIOUS
        <4>2. Left(u, {"ticket"}) /\ ui' \in {u, [u EXCEPT !.failed = TRUE]} /\ c.op = "ticket"
          BY <3>2, <4>1, Frees DEF TicketCreated, From
        <4>3. /\ DOMAIN ui' = DOMAIN u /\ ui'.dialog = u.dialog /\ ui'.entered = u.entered
              /\ ui'.busy = u.busy /\ ui'.loading = u.loading
          BY <4>2 DEF Left, DialogFields
        <4>4. Left(ui', {"ticket"})
          BY <4>2, <4>3 DEF Left, OwnEntry
        <4> QED BY <4>2, <4>4
      <3> QED BY <1>7, <3>1, <3>2
    <2>3. DialogInv'
      BY <2>1, <2>2, EndsKeeps DEF Handlers
    <2> QED BY <2>1, <2>3 DEF End, LoadsAlone
  <1>8. ASSUME NEW i \in Items, OrderGoesOn(i)
        PROVE  DialogInv' /\ LoadsAlone'
    <2>1. PICK to : OthersChange(i, to)
      BY <1>8 DEF OrderGoesOn
    <2> QED BY <2>1, OthersKeep DEF OthersChange, LoadsAlone
  <1> QED BY <1>1, <1>2, <1>3, <1>4, <1>5, <1>6, <1>7, <1>8 DEF OrdersViewNext

-----------------------------------------------------------------------------
(* The administrator's orders.  The dialog is a reason and a tick beside the
   fields all dialogs have. *)
LEMMA ReasonsStay ==
  ASSUME ReasonsOwn, DOMAIN ui' = DOMAIN ui, ui'.entered = ui.entered,
         ui'.dialog \in {ui.dialog, NoDialog}, ui'.reason = ui.reason, ui'.external = ui.external
  PROVE  ReasonsOwn'
  BY DEF ReasonsOwn

LEMMA ReasonsElsewhere ==
  ASSUME ReasonsOwn, Rest(ui'), SameDialog(ui')
  PROVE  ReasonsOwn'
  <1>1. ui'["reason"] = ui["reason"] /\ ui'["external"] = ui["external"] /\ DOMAIN ui' = DOMAIN ui
    BY DEF ReasonsOwn, Rest, DialogFields
  <1> QED BY <1>1, ReasonsStay DEF SameDialog

(* The fields of the page beside the list. *)
OrdersRest == ReasonsOwn /\ DialogFields \subseteq DOMAIN ui

LEMMA OrdersActionDialog ==
  ASSUME DialogInv, ReasonsOwn,
         \/ (\E row, kind : OpenActionModal(row, kind)) \/ CloseActionModal
         \/ TypeReason \/ ConfirmTransfer
  PROVE  DialogInv' /\ ReasonsOwn'
  <1>0. OrdersRest
    BY DEF DialogInv, OrdersRest
  <1>1. UNCHANGED calls
    BY DEF OpenActionModal, CloseActionModal, TypeReason, ConfirmTransfer
  <1>2. /\ DOMAIN ui' = DOMAIN ui /\ ui'.entered = {} /\ ui'.loading = ui.loading
        /\ ui'.busy \subseteq ui.busy
    BY <1>0 DEF OpenActionModal, CloseActionModal, TypeReason, ConfirmTransfer, Free, OrdersRest,
                ReasonsOwn, DialogFields
  <1>3. DialogInv'
    BY <1>0, <1>1, <1>2, DialogLooks DEF OwnEntry, OrdersRest
  <1>4. ui'.dialog # NoDialog => {ui'.reason, ui'.external} \subseteq {0, ui'.dialog.id}
    <2>1. ASSUME NEW row, NEW kind, OpenActionModal(row, kind)
          PROVE  ui'.reason = 0 /\ ui'.external = 0
      BY <1>0, <2>1 DEF OpenActionModal, OrdersRest, ReasonsOwn, DialogFields
    <2>2. CASE CloseActionModal
      BY <1>0, <2>2 DEF CloseActionModal, Free, OrdersRest, DialogFields
    <2>3. CASE TypeReason \/ ConfirmTransfer
      BY <1>0, <2>3 DEF TypeReason, ConfirmTransfer, OrdersRest, ReasonsOwn, DialogFields
    <2> QED BY <2>1, <2>2, <2>3
  <1> QED BY <1>2, <1>3, <1>4 DEF ReasonsOwn

LEMMA HandleSubmitActionKeeps ==
  ASSUME DialogInv, ReasonsOwn, HandleSubmitAction
  PROVE  DialogInv' /\ ReasonsOwn'
  <1>0. OrdersRest
    BY DEF DialogInv, OrdersRest
  <1>1. ui.dialog # NoDialog /\ ActionComplete
    BY DEF HandleSubmitAction, ActionDialog
  <1>2. PICK entered : entered = (IF ReasonNeeded THEN {ui.reason} ELSE {})
                                 \cup (IF TransferNeeded THEN {ui.external} ELSE {})
    OBVIOUS
  <1>3. entered \subseteq {ui.dialog.id}
    BY <1>1, <1>2 DEF ActionComplete, ReasonsOwn
  <1>4. PICK b : b = Call("act", ui)
    OBVIOUS
  <1>5. PICK c : c = [b EXCEPT !.kind = ui.dialog.kind, !.target = ui.dialog.id,
                               !.entered = entered]
    OBVIOUS
  <1>6. calls' = calls \cup {c} /\ ui' = [ui EXCEPT !.busy = @ \cup {"act"}]
    BY <1>2, <1>4, <1>5 DEF HandleSubmitAction, Begin
  <1>7. Began(b, "act")
    BY <1>4, CallBegan
  <1>8. /\ CallFields \subseteq DOMAIN c /\ c.op = "act" /\ c.then = "" /\ c.target = ui.dialog.id
        /\ c.entered = entered
    BY <1>5, <1>7 DEF Began, CallFields
  <1>9. OwnCall(c)
    BY <1>3, <1>8 DEF OwnCall
  <1>10. /\ DOMAIN ui' = DOMAIN ui /\ ui'.dialog = ui.dialog /\ ui'.entered = ui.entered
         /\ ui'.busy = ui.busy \cup {"act"} /\ ui'.loading = ui.loading
         /\ ui'.reason = ui.reason /\ ui'.external = ui.external
    BY <1>0, <1>6 DEF OrdersRest, ReasonsOwn, DialogFields
  <1>11. OwnEntry(ui')
    BY <1>0, <1>10 DEF OwnEntry, OrdersRest, ReasonsOwn
  <1>12. DialogInv'
    BY <1>0, <1>6, <1>8, <1>9, <1>10, <1>11, HandlerBegins DEF OrdersRest, Unflagged
  <1> QED BY <1>10, <1>12, ReasonsStay

(* The buttons of the banner and of the provider's job. *)
LEMMA ProviderButtons ==
  ASSUME DialogInv, ReasonsOwn,
         HandleResumeProvider \/ HandleProviderRetry \/ HandleProviderReconcile
  PROVE  DialogInv' /\ ReasonsOwn'
  <1>0. OrdersRest
    BY DEF DialogInv, OrdersRest
  <1>1. ASSUME NEW c, NEW flag, OwnCall(c), calls' = calls \cup {c},
               ui' = [ui EXCEPT !.busy = @ \cup {flag}], flag \in {c.op, c.then} \ Unflagged
        PROVE  DialogInv' /\ ReasonsOwn'
    <2>1. /\ DOMAIN ui' = DOMAIN ui /\ ui'.dialog = ui.dialog /\ ui'.entered = ui.entered
          /\ ui'.busy = ui.busy \cup {flag} /\ ui'.loading = ui.loading
          /\ ui'.reason = ui.reason /\ ui'.external = ui.external
      BY <1>0, <1>1 DEF OrdersRest, ReasonsOwn, DialogFields
    <2>2. OwnEntry(ui')
      BY <1>0, <2>1 DEF OwnEntry, OrdersRest, ReasonsOwn
    <2>3. DialogInv'
      BY <1>0, <1>1, <2>1, <2>2, HandlerBegins DEF OrdersRest
    <2> QED BY <2>1, <2>3, ReasonsStay
  <1>2. CASE HandleResumeProvider
    <2>1. PICK c : c = Call("resume", ui)
      OBVIOUS
    <2>2. calls' = calls \cup {c} /\ ui' = [ui EXCEPT !.busy = @ \cup {"resume"}]
      BY <1>2, <2>1 DEF HandleResumeProvider, Begin
    <2>3. Began(c, "resume")
      BY <2>1, CallBegan
    <2>4. OwnCall(c) /\ "resume" \in {c.op, c.then} \ Unflagged
      BY <2>3 DEF Began, OwnCall, Unflagged
    <2> QED BY <1>1, <2>2, <2>4
  <1>3. CASE HandleProviderRetry
    <2>1. PICK b : b = Call("retry", ui)
      OBVIOUS
    <2>2. PICK c : c = [b EXCEPT !.target = ui.detail, !.then = "provider"]
      OBVIOUS
    <2>3. calls' = calls \cup {c} /\ ui' = [ui EXCEPT !.busy = @ \cup {"provider"}]
      BY <1>3, <2>1, <2>2 DEF HandleProviderRetry, Begin
    <2>4. Began(b, "retry")
      BY <2>1, CallBegan
    <2>5. CallFields \subseteq DOMAIN c /\ c.op = "retry" /\ c.then = "provider" /\ c.entered = {}
      BY <2>2, <2>4 DEF Began, CallFields
    <2>6. OwnCall(c) /\ "provider" \in {c.op, c.then} \ Unflagged
      BY <2>5 DEF OwnCall, Unflagged
    <2> QED BY <1>1, <2>3, <2>6
  <1>4. CASE HandleProviderReconcile
    <2>1. PICK b : b = Call("reconcile", ui)
      OBVIOUS
    <2>2. PICK c : c = [b EXCEPT !.target = ui.detail, !.then = "provider",
                                 !.entered = {ui.note}]
      OBVIOUS
    <2>3. calls' = calls \cup {c} /\ ui' = [ui EXCEPT !.busy = @ \cup {"provider"}]
      BY <1>4, <2>1, <2>2 DEF HandleProviderReconcile, Begin
    <2>4. Began(b, "reconcile")
      BY <2>1, CallBegan
    <2>5. CallFields \subseteq DOMAIN c /\ c.op = "reconcile" /\ c.then = "provider"
      BY <2>2, <2>4 DEF Began, CallFields
    <2>6. OwnCall(c) /\ "provider" \in {c.op, c.then} \ Unflagged
      BY <2>5 DEF OwnCall, Unflagged
    <2> QED BY <1>1, <2>3, <2>6
  <1> QED BY <1>2, <1>3, <1>4

(* A call ends, and the flag that waits for it with it. *)
LEMMA ProviderEnds ==
  ASSUME DialogInv, ReasonsOwn, NEW c \in calls, c.op # "load", calls' = calls \ {c},
         DOMAIN ui' = DOMAIN ui, ui'.dialog = ui.dialog, ui'.entered = ui.entered,
         ui'.loading = ui.loading, ui'.reason = ui.reason, ui'.external = ui.external,
         ui'.busy \subseteq ui.busy, c.op \notin ui'.busy, c.then \notin ui'.busy
  PROVE  DialogInv' /\ ReasonsOwn'
  <1>1. DialogFields \subseteq DOMAIN ui' /\ OwnEntry(ui')
    BY DEF DialogInv, OwnEntry
  <1> QED BY <1>1, HandlerEnds, ReasonsStay

(* Answers about the provider: of the status, of the button in the banner, of
   the job. *)
LEMMA ProviderAnswers ==
  ASSUME DialogInv, ReasonsOwn, NEW c \in calls,
         \/ LoadProviderStatus(c) \/ ProviderStatusUnknown(c)
         \/ ProviderResumed(c) \/ ProviderActed(c)
  PROVE  DialogInv' /\ ReasonsOwn'
  <1>0. OrdersRest /\ OwnCall(c)
    BY DEF DialogInv, OrdersRest
  <1>1. ASSUME NEW op, End(c), c.op \in {"resume", "retry", "reconcile"}, ui' = Free(op),
               op = IF c.op = "resume" THEN "resume" ELSE "provider", c.then \in {"", op}
        PROVE  DialogInv' /\ ReasonsOwn'
    <2>1. /\ DOMAIN ui' = DOMAIN ui /\ ui'.dialog = ui.dialog /\ ui'.entered = ui.entered
          /\ ui'.busy = ui.busy \ {op} /\ ui'.loading = ui.loading
          /\ ui'.reason = ui.reason /\ ui'.external = ui.external
      BY <1>0, <1>1 DEF Free, OrdersRest, ReasonsOwn, DialogFields
    <2>2. c.op \notin ui'.busy /\ c.then \notin ui'.busy
      BY <1>1, <2>1 DEF DialogInv, Unflagged
    <2>3. calls' = calls \ {c} /\ c.op # "load" /\ ui'.busy \subseteq ui.busy
      BY <1>1, <2>1 DEF End
    <2> QED BY <2>1, <2>2, <2>3, ProviderEnds
  <1>2. CASE LoadProviderStatus(c) \/ ProviderStatusUnknown(c)
    <2>1. /\ DOMAIN ui' = DOMAIN ui /\ ui'.dialog = ui.dialog /\ ui'.entered = ui.entered
          /\ ui'.busy = ui.busy \ {c.then} /\ ui'.loading = ui.loading
          /\ ui'.reason = ui.reason /\ ui'.external = ui.external
      BY <1>0, <1>2 DEF LoadProviderStatus, ProviderStatusUnknown, OrdersRest, ReasonsOwn,
                        DialogFields
    <2>2. c.op = "paused" /\ calls' = calls \ {c}
      BY <1>2 DEF LoadProviderStatus, ProviderStatusUnknown, End
    <2>3. c.op \notin ui'.busy /\ c.then \notin ui'.busy
      BY <2>1, <2>2 DEF DialogInv, Unflagged
    <2> QED BY <2>1, <2>2, <2>3, ProviderEnds
  <1>3. CASE ProviderResumed(c)
    <2>1. c.op = "resume" /\ c.then = ""
      BY <1>0, <1>3 DEF ProviderResumed, OwnCall
    <2>2. CASE Change(c, [Call("paused", ui) EXCEPT !.id = c.id, !.then = "resume"])
               /\ UNCHANGED ui
      <3>1. PICK b : b = Call("paused", ui)
        OBVIOUS
      <3>2. PICK d : d = [b EXCEPT !.id = c.id, !.then = "resume"]
        OBVIOUS
      <3>3. calls' = (calls \ {c}) \cup {d}
        BY <2>2, <3>1, <3>2 DEF Change
      <3>4. Began(b, "paused")
        BY <3>1, CallBegan
      <3>5. /\ CallFields \subseteq DOMAIN d /\ d.op = "paused" /\ d.then = "resume"
            /\ d.entered = {}
        BY <3>2, <3>4 DEF Began, CallFields
      <3>6. OwnCall(d) /\ d \in calls' /\ calls \ calls' \subseteq {c}
        BY <3>3, <3>5 DEF OwnCall
      <3>7. \A flag \in ui'.busy :
              \/ flag \in ui.busy /\ \A e \in calls \ calls' : flag \notin {e.op, e.then}
              \/ \E e \in calls' : flag \in {e.op, e.then}
        <4> SUFFICES ASSUME NEW flag \in ui.busy, ~\E e \in calls' : flag \in {e.op, e.then}
                     PROVE  \A e \in calls \ calls' : flag \notin {e.op, e.then}
          BY <2>2
        <4>1. flag # "resume" /\ flag # ""
          BY <3>5, <3>6 DEF DialogInv, Unflagged
        <4> QED BY <2>1, <3>6, <4>1
      <3>8. \A e \in calls' : e \in calls \/ OwnCall(e)
        BY <3>3, <3>6
      <3>9. ui.loading => \A e \in calls \ calls' : e.op # "load" \/ e.silent
        BY <2>1, <3>6
      <3>10. DialogInv'
        BY <2>2, <3>7, <3>8, <3>9, DialogStep DEF DialogInv
      <3> QED BY <2>2, <3>10 DEF ReasonsOwn
    <2>3. CASE End(c) /\ ui' = Free("resume")
      BY <1>1, <2>1, <2>3
    <2> QED BY <1>3, <2>2, <2>3 DEF ProviderResumed
  <1>4. CASE ProviderActed(c)
    <2>1. c.op \in {"retry", "reconcile"}
      BY <1>4 DEF ProviderActed
    <2>2. ASSUME NEW l, l = [Load(ui, TRUE, "provider") EXCEPT !.id = c.id, !.filter = c.filter,
                                                              !.at = c.at],
                 Change(c, l), ui' \in {ui, [ui EXCEPT !.note = 0]}, c.then \in {"", "provider"}
          PROVE  DialogInv' /\ ReasonsOwn'
      <3>1. LoadIs(l, TRUE, "provider")
        BY <2>2, LoadIsOwn
      <3>2. /\ DOMAIN ui' = DOMAIN ui /\ ui'.dialog = ui.dialog /\ ui'.entered = ui.entered
            /\ ui'.busy = ui.busy /\ ui'.loading = ui.loading
            /\ ui'.reason = ui.reason /\ ui'.external = ui.external
        BY <1>0, <2>2 DEF OrdersRest, ReasonsOwn, DialogFields
      <3>3. OwnEntry(ui')
        BY <1>0, <3>2 DEF OwnEntry, OrdersRest, ReasonsOwn
      <3>4. l \in calls' /\ calls \ calls' \subseteq {c} /\ calls' \subseteq calls \cup {l}
        BY <2>2 DEF Change
      <3>5. \A flag \in ui'.busy :
              \/ flag \in ui.busy /\ \A e \in calls \ calls' : flag \notin {e.op, e.then}
              \/ \E e \in calls' : flag \in {e.op, e.then}
        <4> SUFFICES ASSUME NEW flag \in ui.busy, ~\E e \in calls' : flag \in {e.op, e.then}
                     PROVE  \A e \in calls \ calls' : flag \notin {e.op, e.then}
          BY <3>2
        <4>1. flag \notin {"provider", "", "retry", "reconcile"}
          BY <3>1, <3>4 DEF LoadIs, DialogInv, Unflagged
        <4> QED BY <2>1, <2>2, <3>4, <4>1
      <3>6. \A e \in calls' : e \in calls \/ OwnCall(e)
        BY <3>1, <3>4 DEF LoadIs
      <3>7. ui.loading => \A e \in calls \ calls' : e.op # "load" \/ e.silent
        BY <2>1, <3>4
      <3>8. DialogInv'
        BY <1>0, <3>2, <3>3, <3>5, <3>6, <3>7, DialogStep DEF DialogInv
      <3> QED BY <3>2, <3>8, ReasonsStay
    <2>3. c.then = "provider"
      BY <1>0, <2>1 DEF OwnCall
    <2>4. CASE End(c) /\ ui' = Free("provider")
      BY <1>1, <2>1, <2>3, <2>4
    <2>5. PICK l : l = [Load(ui, TRUE, "provider") EXCEPT !.id = c.id, !.filter = c.filter,
                                                         !.at = c.at]
      OBVIOUS
    <2>6. CASE Change(c, l) /\ ui' \in {ui, [ui EXCEPT !.note = 0]}
      BY <2>2, <2>3, <2>5, <2>6
    <2>7. \/ End(c) /\ ui' = Free("provider")
          \/ Change(c, l) /\ ui' \in {ui, [ui EXCEPT !.note = 0]}
      BY <1>4, <2>5 DEF ProviderActed
    <2> QED BY <2>4, <2>6, <2>7
  <1> QED BY <1>2, <1>3, <1>4

(* The shop answers the dialog's submission. *)
LEMMA ActionEnds ==
  ASSUME DialogInv, ReasonsOwn, NEW c \in calls,
         ActionExecuted(c) \/ ActionDone(c) \/ ActionRefused(c)
  PROVE  DialogInv' /\ ReasonsOwn'
  <1>0. OrdersRest
    BY DEF DialogInv, OrdersRest
  <1>1. c.op = "act"
    BY DEF ActionExecuted, ActionDone, ActionRefused
  <1>2. CASE ActionExecuted(c)
    <2>1. UNCHANGED ui /\ \E reply : Change(c, [c EXCEPT !.reply = reply])
      BY <1>2 DEF ActionExecuted
    <2> QED BY <2>1, RepliedKeeps DEF ReasonsOwn
  <1>3. CASE ActionDone(c)
    <2>1. PICK l : l = [Load(ui, FALSE, "act") EXCEPT !.id = c.id, !.filter = c.filter,
                                                      !.at = c.at]
      OBVIOUS
    <2>2. LoadIs(l, FALSE, "act") /\ calls' = (calls \ {c}) \cup {l}
      BY <1>3, <2>1, LoadIsOwn DEF ActionDone, Change
    <2>3. /\ DOMAIN ui' = DOMAIN ui /\ ui'.dialog = NoDialog /\ ui'.entered = ui.entered
          /\ ui'.busy = ui.busy \ {"act"} /\ ui'.reason = ui.reason
          /\ ui'.external = ui.external
      BY <1>0, <1>3 DEF ActionDone, Free, OrdersRest, ReasonsOwn, DialogFields
    <2>4. OwnEntry(ui')
      BY <1>0, <2>3 DEF OwnEntry, OrdersRest, ReasonsOwn
    <2>5. c.then \notin ui.busy
      BY <1>1, AloneFlag DEF Handlers
    <2>6. ui'.busy \cap {c.op, c.then} = {} /\ ui'.busy \subseteq ui.busy
      BY <1>1, <2>3, <2>5
    <2>7. DialogInv'
      BY <1>0, <2>2, <2>3, <2>4, <2>6, HandlerLoads DEF LoadIs, OrdersRest
    <2> QED BY <2>3, <2>7, ReasonsStay
  <1>4. CASE ActionRefused(c)
    <2>1. Failed(c)
      BY <1>1, <1>4 DEF ActionRefused, Failed
    <2>2. DialogInv'
      BY <1>1, <2>1, FailedKeeps DEF Handlers
    <2>3. /\ DOMAIN ui' = DOMAIN ui /\ ui'.dialog = ui.dialog /\ ui'.entered = ui.entered
          /\ ui'.reason = ui.reason /\ ui'.external = ui.external
      BY <1>0, <2>1 DEF Failed, Free, OrdersRest, ReasonsOwn, DialogFields
    <2> QED BY <2>2, <2>3, ReasonsStay
  <1> QED BY <1>2, <1>3, <1>4

LEMMA AdminOrdersDialogs == DialogInv /\ ReasonsOwn /\ AdminOrdersNext => DialogInv' /\ ReasonsOwn'
  <1> SUFFICES ASSUME DialogInv, ReasonsOwn, AdminOrdersNext
               PROVE  DialogInv' /\ ReasonsOwn'
    OBVIOUS
  <1>0. OrdersRest
    BY DEF DialogInv, OrdersRest
  <1>1. ASSUME \/ HandleSearchSubmit \/ ReloadOrders \/ TurnPage \/ LiveRefresh
               \/ \E f \in {"", "paid"} : SelectFilter(f) \/ TypeSearch(f)
        PROVE  DialogInv' /\ ReasonsOwn'
    <2>1. \/ SearchSubmit \/ (\E f : FilterBy(f) \/ SearchFor(f)) \/ Loading(ui, "")
          \/ (\E to : TurnTo(to) \/ PageChanged(to) \/ Refilter([ui EXCEPT !.at = to]))
          \/ (\E f : Refilter([ui EXCEPT !.filter = f, !.at = 1]))
          \/ LiveRefresh
      BY <1>1 DEF HandleSearchSubmit, ReloadOrders, TurnPage, SelectFilter, TypeSearch
    <2>2. Rest(ui') /\ SameDialog(ui')
      BY <2>1, ListRest
    <2> QED BY <2>1, <2>2, ListLooks, ReasonsElsewhere
  <1>2. ASSUME \/ \E row : ShowDetail(row)
               \/ CloseDetail \/ TypeNote
        PROVE  DialogInv' /\ ReasonsOwn'
    <2>1. /\ UNCHANGED calls
          /\ \E i : ui' \in {[ui EXCEPT !.detail = i], [ui EXCEPT !.note = i]}
      BY <1>2 DEF ShowDetail, CloseDetail, TypeNote
    <2>2. /\ DOMAIN ui' = DOMAIN ui /\ ui'.dialog = ui.dialog /\ ui'.entered = ui.entered
          /\ ui'.busy = ui.busy /\ ui'.loading = ui.loading
          /\ ui'.reason = ui.reason /\ ui'.external = ui.external
      BY <1>0, <2>1 DEF OrdersRest, ReasonsOwn, DialogFields
    <2>3. OwnEntry(ui')
      BY <1>0, <2>2 DEF OwnEntry, OrdersRest, ReasonsOwn
    <2>4. DialogInv'
      BY <1>0, <2>1, <2>2, <2>3, DialogLooks DEF OrdersRest
    <2> QED BY <2>2, <2>4, ReasonsStay
  <1>3. ASSUME NEW c \in calls, ReadRows(c)
        PROVE  DialogInv' /\ ReasonsOwn'
    BY <1>3, ReadRowsKeeps DEF ReadRows, ReasonsOwn
  <1>4. ASSUME NEW c \in calls, LoadOrders(c)
        PROVE  DialogInv' /\ ReasonsOwn'
    BY <1>4, LoadedKeeps, LoadedRest, ReasonsElsewhere DEF LoadOrders
  <1>5. ASSUME NEW i, NEW to, OthersChange(i, to)
        PROVE  DialogInv' /\ ReasonsOwn'
    BY <1>5, OthersKeep DEF OthersChange, ReasonsOwn
  <1> QED BY <1>1, <1>2, <1>3, <1>4, <1>5, OrdersActionDialog, HandleSubmitActionKeeps,
             ProviderButtons, ProviderAnswers, ActionEnds DEF AdminOrdersNext

-----------------------------------------------------------------------------
(* The plans *)
LEMMA SoldStays ==
  ASSUME PlansSold, DOMAIN ui' = DOMAIN ui, PlanFits(ui'.form), ui'.rows = ui.rows,
         UNCHANGED db,
         \A c \in calls' :
            \/ c \in calls
            \/ c.op = "load" /\ c.rows = {}
            \/ c.op = "save" /\ c.form \subseteq PlanForm
            \/ c.op \notin {"load", "save"}
  PROVE  PlansSold'
  BY DEF PlansSold, PlanFits, PlanSold, ValidatePlanFulfillment

(* The dialog of a plan is a form. *)
PlanRest == PlansSold /\ DialogInv /\ LoadsAlone

LEMMA PlanLooks ==
  ASSUME PlanRest, UNCHANGED <<calls, db>>, DOMAIN ui' = DOMAIN ui, OwnEntry(ui'),
         PlanFits(ui'.form), ui'.rows = ui.rows, ui'.busy = ui.busy, ui'.loading = ui.loading
  PROVE  PlanRest'
  <1>1. DialogInv'
    BY DialogLooks DEF PlanRest, DialogInv
  <1>2. PlansSold'
    BY SoldStays DEF PlanRest
  <1> QED BY <1>1, <1>2 DEF PlanRest, LoadsAlone

LEMMA EnterPlanKeeps ==
  ASSUME PlanRest, NEW filled, PlanFits(filled), EnterPlan(filled)
  PROVE  PlanRest'
  <1>1. DialogFields \cup {"form", "edits"} \subseteq DOMAIN ui
    BY DEF PlanRest, DialogInv, PlansSold
  <1>2. ui' = [ui EXCEPT !.form = filled, !.edits = @ + 1] /\ UNCHANGED <<calls, db>>
    BY DEF EnterPlan
  <1>3. /\ DOMAIN ui' = DOMAIN ui /\ ui'.dialog = ui.dialog /\ ui'.entered = ui.entered
        /\ ui'.busy = ui.busy /\ ui'.loading = ui.loading /\ ui'.rows = ui.rows
        /\ ui'.form = filled
    BY <1>1, <1>2 DEF DialogFields
  <1>4. OwnEntry(ui')
    BY <1>3 DEF OwnEntry, PlanRest, DialogInv
  <1> QED BY <1>2, <1>3, <1>4, PlanLooks

(* The fields of the form stay coupled, whichever is changed. *)
LEMMA PlanFieldsKeep ==
  ASSUME PlanRest, PlanPlatforms \/ PlanModes \/ PlanProvider \/ PlanCategory \/ PlanDays
  PROVE  PlanRest'
  <1>1. PlanFits(ui.form)
    BY DEF PlanRest, PlansSold
  <1>2. CASE PlanPlatforms
    <2>1. PICK to \in {"all", "ios", "android"} :
            EnterPlan([ui.form EXCEPT !.platforms = to,
                                      !.ios = IF to = "android" THEN "disabled" ELSE "served",
                                      !.android = IF to = "ios" THEN "disabled" ELSE "served"])
      BY <1>2 DEF PlanPlatforms
    <2>2. PICK filled : filled = [ui.form EXCEPT
                                !.platforms = to,
                                !.ios = IF to = "android" THEN "disabled" ELSE "served",
                                !.android = IF to = "ios" THEN "disabled" ELSE "served"]
      OBVIOUS
    <2>3. ui.form \in PlanForm /\ {"served", "disabled"} \subseteq Served
      BY <1>1 DEF PlanFits, Served
    <2>4. PICK ios \in Served : ios = IF to = "android" THEN "disabled" ELSE "served"
      BY <2>3
    <2>5. PICK android \in Served : android = IF to = "ios" THEN "disabled" ELSE "served"
      BY <2>3
    <2>6. filled = [ui.form EXCEPT !.platforms = to, !.ios = ios, !.android = android]
      BY <2>2, <2>4, <2>5
    <2>7. /\ filled \in PlanForm /\ filled.platforms = to /\ filled.ios = ios
          /\ filled.android = android
      <3>1. PICK one : one = [ui.form EXCEPT !.platforms = to]
        OBVIOUS
      <3>2. PICK two : two = [one EXCEPT !.ios = ios]
        OBVIOUS
      <3>3. one \in PlanForm /\ one.platforms = to
        BY <2>3, <3>1 DEF PlanForm
      <3>4. two \in PlanForm /\ two.platforms = to /\ two.ios = ios
        BY <3>2, <3>3 DEF PlanForm
      <3>5. filled = [two EXCEPT !.android = android]
        BY <2>6, <3>1, <3>2
      <3> QED BY <3>4, <3>5 DEF PlanForm
    <2>8. PlanFits(filled)
      BY <2>4, <2>5, <2>7 DEF PlanFits
    <2> QED BY <2>1, <2>2, <2>8, EnterPlanKeeps
  <1>3. CASE PlanModes
    <2>1. PICK filled : PlanFits(filled) /\ EnterPlan(filled)
      <3>1. PICK how \in Served :
              \/ ui.form.platforms # "android" /\ EnterPlan([ui.form EXCEPT !.ios = how])
              \/ ui.form.platforms # "ios" /\ EnterPlan([ui.form EXCEPT !.android = how])
        BY <1>3 DEF PlanModes
      <3>2. PICK ios : ios = [ui.form EXCEPT !.ios = how]
        OBVIOUS
      <3>3. PICK android : android = [ui.form EXCEPT !.android = how]
        OBVIOUS
      <3>4. ui.form.platforms # "android" => PlanFits(ios)
        BY <1>1, <3>2 DEF PlanFits, PlanForm, Served
      <3>5. ui.form.platforms # "ios" => PlanFits(android)
        BY <1>1, <3>3 DEF PlanFits, PlanForm, Served
      <3> QED BY <3>1, <3>2, <3>3, <3>4, <3>5
    <2> QED BY <2>1, EnterPlanKeeps
  <1>4. ASSUME NEW f, PlanFits(f), NEW category \in Category
        PROVE  PlanFits(HandleLunaKeyCategoryChange(f, category))
    <2>1. PICK filled : filled = HandleLunaKeyCategoryChange(f, category)
      OBVIOUS
    <2>2. filled = [f EXCEPT !.category = category, !.days = DurationOf(category)]
      BY <2>1 DEF HandleLunaKeyCategoryChange
    <2>3. DurationOf(category) \in {30, 365}
      BY DEF DurationOf
    <2>4. /\ filled \in PlanForm /\ filled.platforms = f.platforms
          /\ filled.ios = f.ios /\ filled.android = f.android
      <3>1. PICK one : one = [f EXCEPT !.category = category]
        OBVIOUS
      <3>2. /\ one \in PlanForm /\ one.platforms = f.platforms
            /\ one.ios = f.ios /\ one.android = f.android
        BY <1>4, <3>1 DEF PlanFits, PlanForm
      <3>3. filled = [one EXCEPT !.days = DurationOf(category)]
        BY <2>2, <3>1
      <3> QED BY <2>3, <3>2, <3>3 DEF PlanForm
    <2>5. PlanFits(filled)
      BY <1>4, <2>4 DEF PlanFits
    <2> QED BY <2>1, <2>5
  <1>5. CASE PlanProvider
    <2>1. PICK to, filled :
            /\ to \in {"legacy_locket", "lunakey"} /\ filled = [ui.form EXCEPT !.provider = to]
            /\ EnterPlan(IF to = "lunakey" THEN HandleLunaKeyCategoryChange(filled, filled.category)
                         ELSE filled)
      BY <1>5 DEF PlanProvider
    <2>2. PlanFits(filled) /\ filled.category \in Category
      BY <1>1, <2>1 DEF PlanFits, PlanForm
    <2>3. PlanFits(HandleLunaKeyCategoryChange(filled, filled.category))
      BY <1>4, <2>2
    <2> QED BY <2>1, <2>2, <2>3, EnterPlanKeeps
  <1>6. CASE PlanCategory
    <2>1. PICK category \in Category : EnterPlan(HandleLunaKeyCategoryChange(ui.form, category))
      BY <1>6 DEF PlanCategory
    <2>2. PlanFits(HandleLunaKeyCategoryChange(ui.form, category))
      BY <1>1, <1>4
    <2> QED BY <2>1, <2>2, EnterPlanKeeps
  <1>7. CASE PlanDays
    <2>1. PICK days \in {30, 365} : EnterPlan([ui.form EXCEPT !.days = days])
      BY <1>7 DEF PlanDays
    <2>2. PICK filled : filled = [ui.form EXCEPT !.days = days]
      OBVIOUS
    <2>3. PlanFits(filled)
      BY <1>1, <2>2 DEF PlanFits, PlanForm
    <2> QED BY <2>1, <2>2, <2>3, EnterPlanKeeps
  <1> QED BY <1>2, <1>3, <1>5, <1>6, <1>7

(* Opening a plan's form, and its other fields. *)
LEMMA PlanOpens ==
  ASSUME PlanRest,
         CreatePlan \/ PlanOnSale \/ PlanPagination \/ Dismiss \/ \E row : EditPlan(row)
  PROVE  PlanRest'
  <1>0. /\ DialogFields \cup {"form", "edits"} \subseteq DOMAIN ui /\ PlanFits(ui.form)
        /\ OwnEntry(ui)
    BY DEF PlanRest, DialogInv, PlansSold
  <1>1. UNCHANGED <<calls, db>>
    BY DEF CreatePlan, PlanOnSale, PlanPagination, Dismiss, EditPlan
  <1>2. ASSUME NEW d, NEW filled, NEW value, PlanFits(filled),
               ui' = [ui EXCEPT !.dialog = d, !.entered = {d.id}, !.form = filled,
                                !.value = value]
        PROVE  PlanRest'
    <2>1. /\ DOMAIN ui' = DOMAIN ui /\ ui'.dialog = d
          /\ ui'.entered = {d.id} /\ ui'.busy = ui.busy /\ ui'.loading = ui.loading
          /\ ui'.rows = ui.rows /\ ui'.form = filled
      BY <1>0, <1>2 DEF DialogFields
    <2>2. OwnEntry(ui')
      BY <2>1 DEF OwnEntry
    <2> QED BY <1>1, <1>2, <2>1, <2>2, PlanLooks
  <1>3. CASE CreatePlan
    <2>1. PlanFits(EmptyPlanForm)
      BY DEF PlanFits, EmptyPlanForm, PlanForm, Served, Category
    <2>2. PICK d, filled : d = [kind |-> "create", id |-> 0] /\ filled = EmptyPlanForm
      OBVIOUS
    <2>3. d.id = 0
      BY <2>2
    <2>4. ui' = [ui EXCEPT !.dialog = d, !.entered = {d.id}, !.form = filled, !.value = "active"]
      BY <1>3, <2>2, <2>3 DEF CreatePlan
    <2>5. PlanFits(filled)
      BY <2>1, <2>2
    <2> QED BY <1>2, <2>4, <2>5
  <1>4. ASSUME NEW row, EditPlan(row)
        PROVE  PlanRest'
    <2>1. PICK filled : filled = IF row.plan.provider = "lunakey" THEN row.plan
                             ELSE [row.plan EXCEPT !.category = "1month"]
      OBVIOUS
    <2>2. PICK d, is : d = [kind |-> "edit", id |-> row.id] /\ is = row.is
      OBVIOUS
    <2>3. d.id = row.id
      BY <2>2
    <2>4. ui' = [ui EXCEPT !.dialog = d, !.entered = {d.id}, !.form = filled, !.value = is]
      BY <1>4, <2>1, <2>2, <2>3 DEF EditPlan
    <2>5. row \in ui.rows
      BY <1>4 DEF EditPlan, VisiblePlans
    <2>6. PlanSold(row.plan)
      BY <2>5 DEF PlanRest, PlansSold
    <2>7. PICK plan : plan = row.plan
      OBVIOUS
    <2>8. PlanFits(plan)
      BY <2>6, <2>7 DEF PlanSold, PlanFits, PlanForm, ValidatePlanFulfillment
    <2>9. PICK other : other = [plan EXCEPT !.category = "1month"]
      OBVIOUS
    <2>10. PlanFits(other)
      BY <2>8, <2>9 DEF PlanFits, PlanForm, Category
    <2>11. PlanFits(filled)
      BY <2>1, <2>7, <2>8, <2>9, <2>10
    <2> QED BY <1>2, <2>11, <2>4
  <1>5. CASE PlanOnSale
    <2>1. PICK value, n : ui' = [ui EXCEPT !.value = value, !.edits = n]
      BY <1>5 DEF PlanOnSale
    <2>2. /\ DOMAIN ui' = DOMAIN ui /\ ui'.dialog = ui.dialog /\ ui'.entered = ui.entered
          /\ ui'.busy = ui.busy /\ ui'.loading = ui.loading /\ ui'.rows = ui.rows
          /\ ui'.form = ui.form
      BY <1>0, <2>1 DEF DialogFields
    <2>3. OwnEntry(ui')
      BY <1>0, <2>2 DEF OwnEntry
    <2> QED BY <1>0, <1>1, <2>2, <2>3, PlanLooks
  <1>6. CASE PlanPagination
    <2>1. PICK to : ui' = [ui EXCEPT !.at = to]
      BY <1>6 DEF PlanPagination
    <2>2. /\ DOMAIN ui' = DOMAIN ui /\ ui'.dialog = ui.dialog /\ ui'.entered = ui.entered
          /\ ui'.busy = ui.busy /\ ui'.loading = ui.loading /\ ui'.rows = ui.rows
          /\ ui'.form = ui.form
      BY <1>0, <2>1 DEF DialogFields
    <2>3. OwnEntry(ui')
      BY <1>0, <2>2 DEF OwnEntry
    <2> QED BY <1>0, <1>1, <2>2, <2>3, PlanLooks
  <1>7. CASE Dismiss
    <2>1. ui' = [ui EXCEPT !.dialog = NoDialog]
      BY <1>7 DEF Dismiss
    <2>2. /\ DOMAIN ui' = DOMAIN ui /\ ui'.dialog = NoDialog
          /\ ui'.busy = ui.busy /\ ui'.loading = ui.loading /\ ui'.rows = ui.rows
          /\ ui'.form = ui.form
      BY <1>0, <2>1 DEF DialogFields
    <2>3. OwnEntry(ui')
      BY <2>2 DEF OwnEntry, NoDialog
    <2> QED BY <1>0, <1>1, <2>2, <2>3, PlanLooks
  <1> QED BY <1>3, <1>4, <1>5, <1>6, <1>7

(* Handlers and answers leave form, rows and plans alone, but for the two of
   the list. *)
LEMMA PlanSteps ==
  ASSUME PlanRest, DialogInv', DOMAIN ui' = DOMAIN ui, ui'.form = ui.form, ui'.rows = ui.rows,
         UNCHANGED db,
         \A c \in calls' :
            \/ c \in calls
            \/ c.op = "load" /\ c.rows = {} /\ c.then = ""
            \/ c.op = "save" /\ c.form \subseteq PlanForm
            \/ c.op \notin Handlers \cup {"save"}
  PROVE  PlanRest'
  <1>1. PlanFits(ui.form)
    BY DEF PlanRest, PlansSold
  <1>2. PlansSold'
    BY <1>1, SoldStays DEF PlanRest, Handlers
  <1>3. LoadsAlone'
    BY AloneStays DEF PlanRest, Handlers
  <1> QED BY <1>2, <1>3 DEF PlanRest

LEMMA PlanFormStays ==
  ASSUME PlanRest, Rest(ui')
  PROVE  DOMAIN ui' = DOMAIN ui /\ ui'.form = ui.form
  <1>1. "form" \in DOMAIN ui \ DialogFields
    BY DEF PlanRest, PlansSold, DialogFields
  <1>2. DOMAIN ui' = DOMAIN ui /\ ui'["form"] = ui["form"]
    BY <1>1 DEF Rest
  <1> QED BY <1>2

LEMMA PlanButtons ==
  ASSUME PlanRest,
         \/ RefreshPlans \/ PlanDeleteDialog
         \/ \E row : AskDeletePlan(row)
  PROVE  PlanRest'
  <1>0. DialogInv /\ DialogFields \cup {"form", "edits"} \subseteq DOMAIN ui
    BY DEF PlanRest, DialogInv, PlansSold
  <1>1. CASE RefreshPlans
    <2>1. Loading(ui, "") /\ UNCHANGED db
      BY <1>1 DEF RefreshPlans
    <2>2. DialogInv'
      BY <1>0, <2>1, ListLooks
    <2>3. PICK b : b = Call("load", ui)
      OBVIOUS
    <2>4. PICK l : l = [b EXCEPT !.silent = FALSE, !.then = ""]
      OBVIOUS
    <2>5. ui' = [ui EXCEPT !.loading = TRUE] /\ calls' = calls \cup {l}
      BY <2>1, <2>3, <2>4 DEF Loading, Begin, Load
    <2>6. Began(b, "load")
      BY <2>3, CallBegan
    <2>7. l.op = "load" /\ l.rows = {} /\ l.then = ""
      BY <2>4, <2>6 DEF Began, CallFields
    <2>8. DOMAIN ui' = DOMAIN ui /\ ui'.form = ui.form /\ ui'.rows = ui.rows
      BY <1>0, <2>5 DEF DialogFields
    <2> QED BY <2>1, <2>2, <2>5, <2>7, <2>8, PlanSteps DEF Handlers
  <1>2. CASE PlanDeleteDialog
    <2>1. In({"delete"}) /\ Submit("delete")
      BY <1>2 DEF PlanDeleteDialog
    <2>2. DialogInv'
      BY <1>0, <2>1, SubmittedKeeps DEF Unflagged
    <2>3. PICK b : b = Call("delete", ui)
      OBVIOUS
    <2>4. PICK c : c = [b EXCEPT !.kind = ui.dialog.kind, !.target = ui.dialog.id,
                                 !.value = ui.value, !.entered = ui.entered]
      OBVIOUS
    <2>5. ui' = [ui EXCEPT !.busy = @ \cup {"delete"}] /\ calls' = calls \cup {c}
          /\ UNCHANGED db
      BY <2>1, <2>3, <2>4 DEF Submit, Begin
    <2>6. Began(b, "delete")
      BY <2>3, CallBegan
    <2>7. c.op = "delete"
      BY <2>4, <2>6 DEF Began, CallFields
    <2>8. DOMAIN ui' = DOMAIN ui /\ ui'.form = ui.form /\ ui'.rows = ui.rows
      BY <1>0, <2>5 DEF DialogFields
    <2> QED BY <2>2, <2>5, <2>7, <2>8, PlanSteps DEF Handlers
  <1>3. ASSUME NEW row, AskDeletePlan(row)
        PROVE  PlanRest'
    <2>1. Open("delete", row.id, {}, "")
      BY <1>3 DEF AskDeletePlan
    <2>2. DialogInv'
      BY <1>0, <2>1, OpensKeep
    <2>3. PICK d : d = [kind |-> "delete", id |-> row.id]
      OBVIOUS
    <2>4. /\ ui' = [ui EXCEPT !.dialog = d, !.entered = {}, !.value = ""]
          /\ UNCHANGED <<calls, db>>
      BY <2>1, <2>3 DEF Open
    <2>5. DOMAIN ui' = DOMAIN ui /\ ui'.form = ui.form /\ ui'.rows = ui.rows
      BY <1>0, <2>4 DEF DialogFields
    <2> QED BY <2>2, <2>4, <2>5, PlanSteps DEF Handlers
  <1> QED BY <1>1, <1>2, <1>3

LEMMA PlanSubmits ==
  ASSUME PlanRest, HandleSavePlan \/ \E row : HandleToggleStatus(row)
  PROVE  PlanRest'
  <1>0. /\ DialogInv /\ DialogFields \cup {"form", "edits"} \subseteq DOMAIN ui /\ OwnEntry(ui)
        /\ PlanFits(ui.form)
    BY DEF PlanRest, DialogInv, PlansSold
  <1>1. CASE HandleSavePlan
    <2>1. PICK b : b = Call("save", ui)
      OBVIOUS
    <2>2. PICK c : c = [b EXCEPT !.kind = ui.dialog.kind, !.target = ui.dialog.id,
                                 !.entered = ui.entered, !.form = {ui.form},
                                 !.value = ui.value]
      OBVIOUS
    <2>3. calls' = calls \cup {c} /\ ui' = [ui EXCEPT !.busy = @ \cup {"save"}] /\ UNCHANGED db
      BY <1>1, <2>1, <2>2 DEF HandleSavePlan, Begin
    <2>4. Began(b, "save")
      BY <2>1, CallBegan
    <2>5. /\ CallFields \subseteq DOMAIN c /\ c.op = "save" /\ c.then = ""
          /\ c.target = ui.dialog.id /\ c.entered = ui.entered /\ c.form = {ui.form}
      BY <2>2, <2>4 DEF Began, CallFields
    <2>6. ui.entered \subseteq {ui.dialog.id}
      BY <1>0, <1>1 DEF HandleSavePlan, In, OwnEntry
    <2>7. OwnCall(c)
      BY <2>5, <2>6 DEF OwnCall
    <2>8. /\ DOMAIN ui' = DOMAIN ui /\ ui'.dialog = ui.dialog /\ ui'.entered = ui.entered
          /\ ui'.busy = ui.busy \cup {"save"} /\ ui'.loading = ui.loading
          /\ ui'.form = ui.form /\ ui'.rows = ui.rows
      BY <1>0, <2>3 DEF DialogFields
    <2>9. OwnEntry(ui')
      BY <1>0, <2>8 DEF OwnEntry
    <2>10. DialogInv'
      BY <1>0, <2>3, <2>5, <2>7, <2>8, <2>9, HandlerBegins DEF Unflagged
    <2>11. c.form \subseteq PlanForm
      BY <1>0, <2>5 DEF PlanFits
    <2> QED BY <2>3, <2>5, <2>8, <2>10, <2>11, PlanSteps DEF Handlers
  <1>2. ASSUME NEW row, HandleToggleStatus(row)
        PROVE  PlanRest'
    <2>1. PICK b : b = Call("toggle", ui)
      OBVIOUS
    <2>2. PICK c : c = [b EXCEPT !.target = row.id,
                                 !.value = IF row.is = "active" THEN "inactive" ELSE "active"]
      OBVIOUS
    <2>3. calls' = calls \cup {c} /\ UNCHANGED <<ui, db>>
      BY <1>2, <2>1, <2>2 DEF HandleToggleStatus, Begin
    <2>4. Began(b, "toggle")
      BY <2>1, CallBegan
    <2>5. /\ CallFields \subseteq DOMAIN c /\ c.op = "toggle" /\ c.then = b.then
          /\ c.entered = b.entered
      BY <2>2, <2>4 DEF Began, CallFields
    <2>6. DialogInv'
      BY <1>0, <2>3, <2>4, <2>5, CalledKeeps
    <2> QED BY <2>3, <2>5, <2>6, PlanSteps DEF Handlers
  <1> QED BY <1>1, <1>2

LEMMA PlanAnswers ==
  ASSUME PlanRest, NEW c \in calls,
         \/ PlanSaveDone(c) \/ PlanToggleDone(c) \/ PlanDeleteDone(c)
         \/ (c.op # "load" /\ Failed(c))
  PROVE  PlanRest'
  <1>0. DialogInv /\ DialogFields \cup {"form", "edits"} \subseteq DOMAIN ui /\ LoadsAlone
    BY DEF PlanRest, DialogInv, PlansSold
  <1>1. c.op \notin Handlers
    BY <1>0 DEF PlanSaveDone, PlanToggleDone, PlanDeleteDone, LoadsAlone, Handlers
  <1>2. CASE Failed(c)
    <2>1. ui' = Free(c.op) /\ calls' = calls \ {c} /\ UNCHANGED db
      BY <1>2 DEF Failed, End
    <2>2. DOMAIN ui' = DOMAIN ui /\ ui'.form = ui.form /\ ui'.rows = ui.rows
      BY <1>0, <2>1 DEF Free, DialogFields
    <2>3. DialogInv'
      BY <1>0, <1>1, <1>2, FailedKeeps
    <2> QED BY <2>1, <2>2, <2>3, PlanSteps
  <1>3. ASSUME NEW u, NEW flags, From(u, flags), u.rows = ui.rows, c.op \in flags \cup Unflagged,
               ThenLoad(c, u)
        PROVE  PlanRest'
    <2>1. DialogInv'
      BY <1>0, <1>1, <1>3, ThenLoadKeeps
    <2>2. Rest(ui')
      BY <1>0, <1>3, HandlerRest
    <2>3. PICK b : b = Call("load", ui)
      OBVIOUS
    <2>4. PICK l : l = [b EXCEPT !.silent = FALSE, !.then = ""]
      OBVIOUS
    <2>5. PICK again : again = [l EXCEPT !.id = c.id, !.filter = c.filter, !.at = c.at]
      OBVIOUS
    <2>6. /\ ui' = [u EXCEPT !.loading = TRUE] /\ calls' = (calls \ {c}) \cup {again}
          /\ UNCHANGED db
      BY <1>3, <2>3, <2>4, <2>5 DEF ThenLoad, Change, Load
    <2>7. Began(b, "load")
      BY <2>3, CallBegan
    <2>8. again.op = "load" /\ again.rows = {} /\ again.then = ""
      BY <2>4, <2>5, <2>7 DEF Began, CallFields
    <2>9. ui'.rows = ui.rows
      BY <1>3, <2>6 DEF From, Left, DialogFields
    <2>10. DOMAIN ui' = DOMAIN ui /\ ui'.form = ui.form
      BY <2>2, PlanFormStays
    <2> QED BY <2>1, <2>6, <2>8, <2>9, <2>10, PlanSteps
  <1>4. ASSUME NEW kinds, NEW op
        PROVE  \E u : u = Closing(kinds, Free(op)) /\ From(u, {op}) /\ u.rows = ui.rows
    <2>1. PICK freed : freed = Free(op)
      OBVIOUS
    <2>2. From(freed, {op}) /\ freed.rows = ui.rows
      BY <1>0, <2>1, Frees DEF Free, DialogFields
    <2>3. PICK u : u = Closing(kinds, freed)
      OBVIOUS
    <2>4. From(u, {op})
      BY <2>2, <2>3, Closes
    <2>5. u.rows = ui.rows
      BY <2>2, <2>3 DEF Closing, From, Left, DialogFields
    <2> QED BY <2>1, <2>3, <2>4, <2>5
  <1>5. CASE PlanSaveDone(c)
    <2>1. PICK u : From(u, {"save"}) /\ u.rows = ui.rows /\ ThenLoad(c, u)
      BY <1>4, <1>5 DEF PlanSaveDone
    <2>2. c.op = "save"
      BY <1>5 DEF PlanSaveDone
    <2> QED BY <1>3, <2>1, <2>2
  <1>6. CASE PlanDeleteDone(c)
    <2>1. PICK u : From(u, {"delete"}) /\ u.rows = ui.rows /\ ThenLoad(c, u)
      BY <1>4, <1>6 DEF PlanDeleteDone
    <2>2. c.op = "delete"
      BY <1>6 DEF PlanDeleteDone
    <2> QED BY <1>3, <2>1, <2>2
  <1>7. CASE PlanToggleDone(c)
    <2>1. From(ui, {}) /\ ThenLoad(c, ui) /\ c.op \in Unflagged
      BY <1>0, <1>7, Frees DEF PlanToggleDone, Unflagged
    <2> QED BY <1>3, <2>1
  <1> QED BY <1>2, <1>5, <1>6, <1>7

(* Whether the shop takes a plan depends on what is served where. *)
LEMMA SameFulfillment ==
  ASSUME NEW f \in PlanForm, NEW g, ValidatePlanFulfillment(f),
         g.platforms = f.platforms, g.ios = f.ios, g.android = f.android
  PROVE  ValidatePlanFulfillment(g)
  <1>1. CASE f.platforms = "ios"
    BY <1>1 DEF ValidatePlanFulfillment
  <1>2. CASE f.platforms = "android"
    BY <1>2 DEF ValidatePlanFulfillment
  <1>3. CASE f.platforms = "all"
    BY <1>3 DEF ValidatePlanFulfillment
  <1> QED BY <1>1, <1>2, <1>3 DEF PlanForm

(* The shop changes a plan, or its state. *)
LEMMA PlanExecuted ==
  ASSUME PlanRest, NEW c \in calls, PlanSaved(c) \/ PlanToggled(c) \/ PlanDeleted(c)
  PROVE  PlanRest'
  <1>0. DialogInv /\ LoadsAlone /\ PlansSold
    BY DEF PlanRest
  <1>1. /\ UNCHANGED ui /\ Change(c, [c EXCEPT !.reply = "ok"])
        /\ c.op \in {"save", "toggle", "delete"}
    BY DEF PlanSaved, PlanToggled, PlanDeleted, Executed
  <1>2. DialogInv'
    BY <1>0, <1>1, RepliedKeeps
  <1>3. PICK d : d = [c EXCEPT !.reply = "ok"]
    OBVIOUS
  <1>4. calls' = (calls \ {c}) \cup {d} /\ CallFields \subseteq DOMAIN c
    BY <1>0, <1>1, <1>3 DEF Change, DialogInv, OwnCall
  <1>5. d.op = c.op /\ d.form = c.form
    BY <1>3, <1>4 DEF CallFields
  <1>6. LoadsAlone'
    BY <1>0, <1>1, <1>4, <1>5, AloneStays DEF Handlers
  <1>7. \A e \in calls' : /\ e.op = "load" => \A row \in e.rows : PlanSold(row.plan)
                          /\ e.op = "save" => e.form \subseteq PlanForm
    BY <1>0, <1>1, <1>4, <1>5 DEF PlansSold
  <1>8. /\ DOMAIN db' = DOMAIN db /\ DOMAIN db'.plan = Items
        /\ \A i \in Items : PlanSold(db'.plan[i])
    <2>1. {"is", "plan"} \subseteq DOMAIN db /\ DOMAIN db.plan = Items
      BY <1>0 DEF PlansSold
    <2>2. CASE PlanToggled(c) \/ PlanDeleted(c)
      <3>1. PICK to : db' = [db EXCEPT !.is[c.target] = to]
        BY <2>2 DEF PlanToggled, PlanDeleted, Executed
      <3>2. db'.plan = db.plan /\ DOMAIN db' = DOMAIN db
        BY <2>1, <3>1
      <3> QED BY <1>0, <2>1, <3>2 DEF PlansSold
    <2>3. CASE PlanSaved(c)
      <3>1. PICK f \in c.form, i \in Items :
              /\ ValidatePlanFulfillment(f)
              /\ db' = [db EXCEPT !.plan[i] = StoredPlan(f), !.is[i] = c.value]
        BY <2>3 DEF PlanSaved
      <3>2. f \in PlanForm
        BY <1>0, <2>3, <3>1 DEF PlanSaved, PlansSold
      <3>3. PICK g : g = StoredPlan(f)
        OBVIOUS
      <3>4. PlanSold(g)
        <4>1. CASE f.provider = "lunakey"
          <5>1. PICK days \in {30, 365} : days = DurationOf(f.category)
            BY DEF DurationOf
          <5>2. g = [f EXCEPT !.days = days]
            BY <3>3, <4>1, <5>1 DEF StoredPlan
          <5>3. /\ g \in PlanForm /\ g.days = days /\ g.category = f.category
                /\ g.platforms = f.platforms /\ g.ios = f.ios /\ g.android = f.android
            BY <3>2, <5>2 DEF PlanForm
          <5>4. ValidatePlanFulfillment(g)
            BY <3>1, <3>2, <5>3, SameFulfillment
          <5> QED BY <5>1, <5>3, <5>4 DEF PlanSold
        <4>2. CASE f.provider # "lunakey"
          BY <3>1, <3>2, <3>3, <4>2 DEF StoredPlan, PlanSold
        <4> QED BY <4>1, <4>2
      <3>5. db'.plan = [db.plan EXCEPT ![i] = g] /\ DOMAIN db' = DOMAIN db
        BY <2>1, <3>1, <3>3
      <3>6. \A j \in Items : db'.plan[j] = IF j = i THEN g ELSE db.plan[j]
        BY <2>1, <3>5
      <3> QED BY <1>0, <2>1, <3>4, <3>5, <3>6 DEF PlansSold
    <2> QED BY <2>2, <2>3
  <1>9. PlansSold'
    BY <1>0, <1>1, <1>7, <1>8 DEF PlansSold
  <1> QED BY <1>2, <1>6, <1>9 DEF PlanRest

(* The list of the plans is read, and shown. *)
LEMMA PlanLoads ==
  ASSUME PlanRest, NEW c \in calls, ReadPlans(c) \/ LoadPlans(c)
  PROVE  PlanRest'
  <1>0. /\ DialogInv /\ LoadsAlone /\ PlansSold /\ OwnEntry(ui)
        /\ DialogFields \cup {"form", "edits"} \subseteq DOMAIN ui
    BY DEF PlanRest, DialogInv, PlansSold
  <1>1. CASE ReadPlans(c)
    <2>1. PICK d : d = [c EXCEPT !.reply = "ok",
                                 !.rows = {[id |-> i, is |-> db.is[i], plan |-> db.plan[i]] :
                                             i \in Matching("")}]
      OBVIOUS
    <2>2. calls' = (calls \ {c}) \cup {d} /\ UNCHANGED <<ui, db>> /\ c.op = "load"
      BY <1>1, <2>1 DEF ReadPlans, Change
    <2>3. CallFields \subseteq DOMAIN c
      BY <1>0 DEF DialogInv, OwnCall
    <2>4. /\ CallFields \subseteq DOMAIN d /\ d.op = c.op /\ d.then = c.then
          /\ d.silent = c.silent /\ d.target = c.target /\ d.entered = c.entered
          /\ d.rows = {[id |-> i, is |-> db.is[i], plan |-> db.plan[i]] : i \in Matching("")}
      BY <2>1, <2>3 DEF CallFields
    <2>5. DialogInv'
      BY <1>0, <2>2, <2>4, CallGoesOn
    <2>6. LoadsAlone'
      BY <1>0, <2>2, <2>4, AloneStays DEF LoadsAlone, Handlers
    <2>7. \A row \in d.rows : PlanSold(row.plan)
      <3>1. \A row \in d.rows : \E i \in Items : row.plan = db.plan[i]
        BY <2>4 DEF Matching
      <3> QED BY <1>0, <3>1 DEF PlansSold
    <2>8. PlansSold'
      BY <1>0, <2>2, <2>4, <2>7 DEF PlansSold
    <2> QED BY <2>5, <2>6, <2>8 DEF PlanRest
  <1>2. CASE LoadPlans(c)
    <2>1. PICK u : u = [ui EXCEPT !.loading = FALSE]
      OBVIOUS
    <2>2. PICK of : of = PlanPages(c.rows)
      OBVIOUS
    <2>3. /\ calls' = calls \ {c} /\ c.op = "load" /\ UNCHANGED db
          /\ ui' = IF c.reply = "none" THEN u
                   ELSE [u EXCEPT !.rows = c.rows, !.of = of, !.at = IF @ > of THEN of ELSE @]
      BY <1>2, <2>1, <2>2 DEF LoadPlans, End
    <2>4. /\ DOMAIN u = DOMAIN ui /\ u.dialog = ui.dialog /\ u.entered = ui.entered
          /\ u.busy = ui.busy /\ u.loading = FALSE /\ u.rows = ui.rows /\ u.form = ui.form
      BY <1>0, <2>1 DEF DialogFields
    <2>5. /\ DOMAIN ui' = DOMAIN ui /\ ui'.dialog = ui.dialog /\ ui'.entered = ui.entered
          /\ ui'.busy = ui.busy /\ ui'.loading = FALSE /\ ui'.rows \in {ui.rows, c.rows}
          /\ ui'.form = ui.form
      BY <1>0, <2>3, <2>4 DEF DialogFields
    <2>6. OwnEntry(ui')
      BY <1>0, <2>5 DEF OwnEntry
    <2>7. c.then \notin ui.busy
      BY <1>0, <2>3 DEF LoadsAlone, DialogInv, Unflagged, Handlers
    <2>8. DialogInv'
      BY <1>0, <2>3, <2>5, <2>6, <2>7, LoadEnds
    <2>9. LoadsAlone'
      BY <1>0, <2>3 DEF LoadsAlone
    <2>10. \A row \in ui'.rows : PlanSold(row.plan)
      BY <1>0, <2>3, <2>5 DEF PlansSold
    <2>11. PlansSold'
      BY <1>0, <2>3, <2>5, <2>10 DEF PlansSold
    <2> QED BY <2>8, <2>9, <2>11 DEF PlanRest
  <1> QED BY <1>1, <1>2

LEMMA PlansDialogs == PlanRest /\ AdminPlansNext => PlanRest'
  <1> SUFFICES ASSUME PlanRest, AdminPlansNext
               PROVE  PlanRest'
    OBVIOUS
  <1>1. ASSUME NEW i, NEW to, OthersChange(i, to)
        PROVE  PlanRest'
    <2>1. DialogInv' /\ UNCHANGED <<ui, calls>>
      BY <1>1, OthersKeep DEF OthersChange, PlanRest
    <2>2. db' = [db EXCEPT !.is[i] = to, !.others = @ + 1] /\ {"is", "plan"} \subseteq DOMAIN db
      BY <1>1 DEF OthersChange, PlanRest, PlansSold
    <2>3. DOMAIN db' = DOMAIN db /\ db'.plan = db.plan
      BY <2>2
    <2>4. PlansSold'
      BY <2>1, <2>3 DEF PlanRest, PlansSold
    <2> QED BY <2>1, <2>4 DEF PlanRest, LoadsAlone
  <1> QED BY <1>1, PlanFieldsKeep, PlanOpens, PlanButtons, PlanSubmits, PlanAnswers,
             PlanExecuted, PlanLoads DEF AdminPlansNext

-----------------------------------------------------------------------------
(* The tabs of the settings *)
SystemRest == DialogInv /\ LoadsAlone /\ TabsQuiet

LEMMA SystemStep ==
  ASSUME SystemRest, DialogInv', DOMAIN ui' = DOMAIN ui, ui'.entered = {}, ui'.loading = FALSE,
         \A c \in calls' :
            \/ c \in calls \/ c.op \notin Handlers
            \/ c.op = "load" /\ c.then \in {"", "live"}
  PROVE  SystemRest'
  <1>1. LoadsAlone'
    BY AloneStays DEF SystemRest
  <1> QED BY <1>1 DEF SystemRest, TabsQuiet

LEMMA SystemFields ==
  ASSUME SystemRest
  PROVE  /\ DialogInv /\ LoadsAlone /\ OwnEntry(ui)
         /\ DialogFields \cup {"tab", "popup", "texts", "settings", "typed"} \subseteq DOMAIN ui
         /\ ui.entered = {} /\ ui.loading = FALSE
  BY DEF SystemRest, TabsQuiet, DialogInv

(* The forms and the dialogs *)
LEMMA TabsLooks ==
  ASSUME SystemRest,
         \/ AccountForm \/ ProxyForm \/ PopupForm \/ ChooseProfile
         \/ \E on : SettingsForm(on)
  PROVE  SystemRest'
  <1>1. PICK a, b, s, t :
          /\ UNCHANGED calls
          /\ ui' \in {[ui EXCEPT !.typed = a], [ui EXCEPT !.popup = b, !.texts = t],
                      [ui EXCEPT !.texts = t, !.settings = s]}
    BY DEF AccountForm, ProxyForm, PopupForm, ChooseProfile, SettingsForm
  <1>2. /\ DOMAIN ui' = DOMAIN ui /\ ui'.dialog = ui.dialog /\ ui'.entered = ui.entered
        /\ ui'.busy = ui.busy /\ ui'.loading = ui.loading
    BY <1>1, SystemFields DEF DialogFields
  <1>3. OwnEntry(ui')
    BY <1>2, SystemFields DEF OwnEntry
  <1>4. DialogInv'
    BY <1>1, <1>2, <1>3, SystemFields, DialogLooks
  <1> QED BY <1>1, <1>2, <1>4, SystemFields, SystemStep

LEMMA TabsDialogs ==
  ASSUME SystemRest,
         \/ PopupPreview \/ AskDeleteProfile \/ Dismiss
         \/ \E row : AskDeleteAccount(row) \/ AskDeleteProxy(row)
  PROVE  SystemRest'
  <1>1. CASE Dismiss
    <2>1. ui' = [ui EXCEPT !.dialog = NoDialog] /\ UNCHANGED calls
      BY <1>1 DEF Dismiss
    <2>2. DOMAIN ui' = DOMAIN ui /\ ui'.entered = ui.entered /\ ui'.loading = ui.loading
      BY <2>1, SystemFields DEF DialogFields
    <2>3. DialogInv'
      BY <1>1, SystemFields, DismissKeeps
    <2> QED BY <2>1, <2>2, <2>3, SystemFields, SystemStep
  <1>2. ASSUME NEW kind, NEW id, Open(kind, id, {}, "")
        PROVE  SystemRest'
    <2>1. PICK d : d = [kind |-> kind, id |-> id]
      OBVIOUS
    <2>2. ui' = [ui EXCEPT !.dialog = d, !.entered = {}, !.value = ""] /\ UNCHANGED calls
      BY <1>2, <2>1 DEF Open
    <2>3. DOMAIN ui' = DOMAIN ui /\ ui'.entered = {} /\ ui'.loading = ui.loading
      BY <2>2, SystemFields DEF DialogFields
    <2>4. DialogInv'
      BY <1>2, SystemFields, OpensKeep
    <2> QED BY <2>2, <2>3, <2>4, SystemFields, SystemStep
  <1>3. ASSUME NEW row, AskDeleteAccount(row) \/ AskDeleteProxy(row)
        PROVE  SystemRest'
    <2>1. PICK id : id = row.id
      OBVIOUS
    <2>2. Open("account", id, {}, "") \/ Open("proxy", id, {}, "")
      BY <1>3, <2>1 DEF AskDeleteAccount, AskDeleteProxy
    <2> QED BY <1>2, <2>2
  <1> QED BY <1>1, <1>2, <1>3 DEF PopupPreview, AskDeleteProfile

(* The handlers *)
LEMMA TabsSubmit ==
  ASSUME SystemRest, NEW op, op \notin Unflagged, Submit(op)
  PROVE  SystemRest'
  <1>1. DialogInv'
    BY SystemFields, SubmitKeeps
  <1>2. PICK b : b = Call(op, ui)
    OBVIOUS
  <1>3. PICK c : c = [b EXCEPT !.kind = ui.dialog.kind, !.target = ui.dialog.id,
                               !.value = ui.value, !.entered = ui.entered]
    OBVIOUS
  <1>4. ui' = [ui EXCEPT !.busy = @ \cup {op}] /\ calls' = calls \cup {c}
    BY <1>2, <1>3 DEF Submit, Begin
  <1>5. Began(b, op)
    BY <1>2, CallBegan
  <1>6. c.op \notin Handlers
    BY <1>3, <1>5 DEF Began, CallFields, Handlers, Unflagged
  <1>7. DOMAIN ui' = DOMAIN ui /\ ui'.entered = ui.entered /\ ui'.loading = ui.loading
    BY <1>4, SystemFields DEF DialogFields
  <1> QED BY <1>1, <1>4, <1>6, <1>7, SystemFields, SystemStep

LEMMA TabsSave ==
  ASSUME SystemRest, HandleSavePopup \/ HandleSaveSettings
  PROVE  SystemRest'
  <1>1. PICK op \in {"save popup", "save settings"} :
          /\ ui' = [ui EXCEPT !.busy = @ \cup {op}]
          /\ \E f : calls' = calls \cup {[Call(op, ui) EXCEPT !.form = f]}
    BY DEF HandleSavePopup, HandleSaveSettings, Begin
  <1>2. PICK b : b = Call(op, ui)
    OBVIOUS
  <1>3. PICK f, c : c = [b EXCEPT !.form = f] /\ calls' = calls \cup {c}
    BY <1>1, <1>2
  <1>4. Began(b, op)
    BY <1>2, CallBegan
  <1>5. CallFields \subseteq DOMAIN c /\ c.op = op /\ c.then = "" /\ c.entered = {}
    BY <1>3, <1>4 DEF Began, CallFields
  <1>6. OwnCall(c)
    BY <1>5 DEF OwnCall
  <1>7. /\ DOMAIN ui' = DOMAIN ui /\ ui'.dialog = ui.dialog /\ ui'.entered = ui.entered
        /\ ui'.busy = ui.busy \cup {op} /\ ui'.loading = ui.loading
    BY <1>1, SystemFields DEF DialogFields
  <1>8. OwnEntry(ui')
    BY <1>7, SystemFields DEF OwnEntry
  <1>9. DialogInv'
    BY <1>3, <1>5, <1>6, <1>7, <1>8, SystemFields, HandlerBegins DEF Unflagged
  <1> QED BY <1>3, <1>5, <1>7, <1>9, SystemFields, SystemStep DEF Handlers

(* The load of a tab *)
LEMMA TabLoad ==
  ASSUME NEW tab, NEW id
  PROVE  /\ LoadIs(LoadTab(tab), TRUE, "")
         /\ LoadIs([LoadTab(tab) EXCEPT !.id = id], TRUE, "")
  <1>1. PICK b : b = Call("load", ui)
    OBVIOUS
  <1>2. PICK l : l = [b EXCEPT !.silent = TRUE, !.value = tab]
    OBVIOUS
  <1>3. PICK other : other = [l EXCEPT !.id = id]
    OBVIOUS
  <1>4. Began(b, "load")
    BY <1>1, CallBegan
  <1>5. /\ CallFields \subseteq DOMAIN l /\ l.op = "load" /\ l.silent = TRUE /\ l.then = ""
        /\ l.entered = {}
    BY <1>2, <1>4 DEF Began, CallFields
  <1>6. /\ CallFields \subseteq DOMAIN other /\ other.op = "load" /\ other.silent = TRUE
        /\ other.then = "" /\ other.entered = {}
    BY <1>3, <1>5 DEF CallFields
  <1>7. LoadIs(l, TRUE, "") /\ LoadIs(other, TRUE, "")
    BY <1>5, <1>6 DEF LoadIs, OwnCall
  <1> QED BY <1>1, <1>2, <1>3, <1>7 DEF LoadTab

LEMMA TabsLoad ==
  ASSUME SystemRest,
         \/ \E tab : SelectSubtab(tab)
         \/ \E c \in calls : ReadTab(c) \/ LoadData(c)
  PROVE  SystemRest'
  <1>1. ASSUME NEW tab, SelectSubtab(tab)
        PROVE  SystemRest'
    <2>1. PICK l : l = LoadTab(tab)
      OBVIOUS
    <2>2. LoadIs(l, TRUE, "") /\ calls' \in {calls, calls \cup {l}}
      BY <1>1, <2>1, TabLoad DEF SelectSubtab, Begin
    <2>3. ui' = [ui EXCEPT !.tab = tab]
      BY <1>1 DEF SelectSubtab
    <2>4. /\ DOMAIN ui' = DOMAIN ui /\ ui'.dialog = ui.dialog /\ ui'.entered = ui.entered
          /\ ui'.busy = ui.busy /\ ui'.loading = ui.loading
      BY <2>3, SystemFields DEF DialogFields
    <2>5. OwnEntry(ui')
      BY <2>4, SystemFields DEF OwnEntry
    <2>6. DialogInv'
      BY <2>2, <2>4, <2>5, SystemFields, DialogLooks DEF LoadIs
    <2> QED BY <2>2, <2>4, <2>6, SystemFields, SystemStep DEF LoadIs
  <1>2. ASSUME NEW c \in calls, ReadTab(c)
        PROVE  SystemRest'
    <2>1. PICK rows, f : Change(c, [c EXCEPT !.reply = "ok", !.rows = rows, !.form = f])
      BY <1>2 DEF ReadTab
    <2>2. PICK d : d = [c EXCEPT !.reply = "ok", !.rows = rows, !.form = f]
      OBVIOUS
    <2>3. calls' = (calls \ {c}) \cup {d} /\ UNCHANGED ui /\ c.op = "load"
      BY <1>2, <2>1, <2>2 DEF ReadTab, Change
    <2>4. CallFields \subseteq DOMAIN c
      BY SystemFields DEF DialogInv, OwnCall
    <2>5. /\ CallFields \subseteq DOMAIN d /\ d.op = c.op /\ d.then = c.then
          /\ d.silent = c.silent /\ d.target = c.target /\ d.entered = c.entered
      BY <2>2, <2>4 DEF CallFields
    <2>6. DialogInv'
      BY <2>3, <2>5, SystemFields, CallGoesOn
    <2>7. d.then \in {"", "live"}
      BY <2>3, <2>5, SystemFields DEF LoadsAlone, Handlers
    <2> QED BY <2>3, <2>5, <2>6, <2>7, SystemFields, SystemStep
  <1>3. ASSUME NEW c \in calls, LoadData(c)
        PROVE  SystemRest'
    <2>1. PICK p, s : /\ calls' = calls \ {c} /\ c.op = "load"
                      /\ ui' \in {ui, [ui EXCEPT !.popup = p], [ui EXCEPT !.settings = s],
                                  [ui EXCEPT !.rows = c.rows]}
      BY <1>3 DEF LoadData, End
    <2>2. /\ DOMAIN ui' = DOMAIN ui /\ ui'.dialog = ui.dialog /\ ui'.entered = ui.entered
          /\ ui'.busy = ui.busy /\ ui'.loading = ui.loading
      BY <2>1, SystemFields DEF DialogFields
    <2>3. OwnEntry(ui')
      BY <2>2, SystemFields DEF OwnEntry
    <2>4. c.then \notin ui.busy
      BY <2>1, SystemFields DEF LoadsAlone, Handlers, DialogInv, Unflagged
    <2>5. DialogInv'
      BY <2>1, <2>2, <2>3, <2>4, SystemFields, LoadEnds
    <2> QED BY <2>1, <2>2, <2>5, SystemFields, SystemStep
  <1> QED BY <1>1, <1>2, <1>3

(* The shop's part *)
LEMMA TabsExecuted ==
  ASSUME SystemRest, NEW c \in calls,
         \/ ItemAdded(c) \/ AccountChecked(c) \/ AccountRemoved(c) \/ ProxyRemoved(c)
         \/ PopupSaved(c) \/ ProfileChanged(c) \/ SettingsSaved(c)
  PROVE  SystemRest'
  <1>1. PICK reply : Change(c, [c EXCEPT !.reply = reply]) /\ UNCHANGED ui /\ c.op \notin Handlers
    BY DEF ItemAdded, AccountChecked, AccountRemoved, ProxyRemoved, PopupSaved, ProfileChanged,
           SettingsSaved, Executed, Handlers
  <1>2. DialogInv'
    BY <1>1, SystemFields, RepliedKeeps
  <1>3. PICK d : d = [c EXCEPT !.reply = reply]
    OBVIOUS
  <1>4. calls' = (calls \ {c}) \cup {d} /\ CallFields \subseteq DOMAIN c
    BY <1>1, <1>3, SystemFields DEF Change, DialogInv, OwnCall
  <1>5. d.op = c.op
    BY <1>3, <1>4 DEF CallFields
  <1> QED BY <1>1, <1>2, <1>4, <1>5, SystemFields, SystemStep

(* The answers *)
LEMMA TabsAnswered ==
  ASSUME SystemRest, NEW c \in calls, c.op \notin Handlers,
         NEW u, Left(u, {c.op}), DOMAIN u = DOMAIN ui, u.entered = {}, u.loading = FALSE,
         \/ End(c) /\ ui' = u
         \/ \E tab : ThenLoadTab(c, tab, u)
  PROVE  SystemRest'
  <1>1. DialogFields \subseteq DOMAIN u /\ OwnEntry(u) /\ u.busy = ui.busy \ {c.op}
    BY DEF Left
  <1>2. CASE End(c) /\ ui' = u
    <2>1. DialogInv'
      BY <1>2, SystemFields, EndsKeeps
    <2> QED BY <1>2, <2>1, SystemStep DEF End
  <1>3. ASSUME NEW tab, ThenLoadTab(c, tab, u)
        PROVE  SystemRest'
    <2>1. PICK l : l = [LoadTab(tab) EXCEPT !.id = c.id]
      OBVIOUS
    <2>2. LoadIs(l, TRUE, "") /\ calls' = (calls \ {c}) \cup {l} /\ ui' = u
      BY <1>3, <2>1, TabLoad DEF ThenLoadTab, Change
    <2>3. c.then \notin ui.busy
      BY SystemFields, AloneFlag
    <2>4. calls \ calls' \subseteq {c} /\ c.op \notin ui'.busy /\ c.then \notin ui'.busy
      BY <1>1, <2>2, <2>3
    <2>5. ui'.busy \cap Unflagged = {} /\ ui'.busy \subseteq ui.busy
      BY <1>1, <2>2, SystemFields DEF DialogInv
    <2>6. \A flag \in ui'.busy :
            flag \in ui.busy /\ \A e \in calls \ calls' : flag \notin {e.op, e.then}
      BY <2>4, <2>5
    <2>7. \A e \in calls' : e \in calls \/ OwnCall(e)
      BY <2>2 DEF LoadIs
    <2>8. DialogInv'
      BY <1>1, <2>2, <2>5, <2>6, <2>7, SystemFields, DialogStep
    <2> QED BY <1>1, <2>2, <2>8, SystemStep DEF LoadIs
  <1> QED BY <1>2, <1>3

LEMMA TabsFree ==
  ASSUME SystemRest, NEW op, NEW kinds, NEW u,
         \/ u = Free(op) \/ u = Closing(kinds, Free(op))
         \/ u = [Free(op) EXCEPT !.typed = FALSE]
  PROVE  Left(u, {op}) /\ DOMAIN u = DOMAIN ui /\ u.entered = {} /\ u.loading = FALSE
  <1>1. PICK freed : freed = Free(op)
    OBVIOUS
  <1>2. From(freed, {op}) /\ freed = [ui EXCEPT !.busy = @ \ {op}]
    BY <1>1, SystemFields, Frees DEF Free
  <1>3. freed.entered = {} /\ freed.loading = FALSE
    BY <1>2, SystemFields DEF DialogFields
  <1>4. CASE u = Closing(kinds, freed)
    <2>1. From(u, {op})
      BY <1>2, <1>4, Closes
    <2>2. u \in {freed, [freed EXCEPT !.dialog = NoDialog]}
      BY <1>4 DEF Closing
    <2> QED BY <1>2, <1>3, <2>1, <2>2 DEF From, Left, Rest, DialogFields
  <1>5. CASE u = [freed EXCEPT !.typed = FALSE]
    <2>1. /\ DOMAIN u = DOMAIN freed /\ u.dialog = freed.dialog /\ u.entered = freed.entered
          /\ u.busy = freed.busy /\ u.loading = freed.loading
      BY <1>2, <1>5 DEF From, Left, DialogFields
    <2> QED BY <1>2, <1>3, <2>1 DEF From, Left, Rest, OwnEntry
  <1> QED BY <1>1, <1>2, <1>3, <1>4, <1>5 DEF From, Rest

LEMMA SystemDialogs == SystemRest /\ AdminSystemNext => SystemRest'
  <1> SUFFICES ASSUME SystemRest, AdminSystemNext
               PROVE  SystemRest'
    OBVIOUS
  <1>1. CASE \/ HandleAddAccount \/ HandleConfirmDeleteAccount \/ HandleAddProxy
             \/ HandleConfirmDeleteProxy \/ HandleUploadMobileconfig
             \/ HandleConfirmDeleteMobileconfig
    <2>1. PICK op : op \notin Unflagged /\ Submit(op)
      BY <1>1 DEF HandleAddAccount, HandleConfirmDeleteAccount, HandleAddProxy,
                  HandleConfirmDeleteProxy, HandleUploadMobileconfig,
                  HandleConfirmDeleteMobileconfig, Unflagged
    <2> QED BY <2>1, TabsSubmit
  <1>2. ASSUME NEW c \in calls,
               \/ AccountAdded(c) \/ AccountDeleted(c) \/ ProxyAdded(c) \/ ProxyDeleted(c)
               \/ ProfileDone(c) \/ (c.op # "load" /\ Failed(c))
        PROVE  SystemRest'
    <2>1. c.op \notin Handlers
      BY <1>2, SystemFields DEF AccountAdded, AccountDeleted, ProxyAdded, ProxyDeleted,
                                ProfileDone, LoadsAlone, Handlers
    <2>2. PICK kinds, u :
            /\ u \in {Free(c.op), Closing(kinds, Free(c.op)), [Free(c.op) EXCEPT !.typed = FALSE]}
            /\ \/ End(c) /\ ui' = u
               \/ \E tab : ThenLoadTab(c, tab, u)
      BY <1>2 DEF AccountAdded, AccountDeleted, ProxyAdded, ProxyDeleted, ProfileDone, Failed
    <2>3. PICK op : op = c.op
      OBVIOUS
    <2>4. \/ u = Free(op) \/ u = Closing(kinds, Free(op))
          \/ u = [Free(op) EXCEPT !.typed = FALSE]
      BY <2>2, <2>3
    <2>5. Left(u, {op}) /\ DOMAIN u = DOMAIN ui /\ u.entered = {} /\ u.loading = FALSE
      BY <2>4, TabsFree
    <2>6. Left(u, {c.op}) /\ DOMAIN u = DOMAIN ui /\ u.entered = {} /\ u.loading = FALSE
      BY <2>3, <2>5
    <2>7. CASE End(c) /\ ui' = u
      BY <2>1, <2>6, <2>7, TabsAnswered
    <2>8. CASE \E tab : ThenLoadTab(c, tab, u)
      BY <2>1, <2>6, <2>8, TabsAnswered
    <2> QED BY <2>2, <2>7, <2>8
  <1>3. ASSUME NEW c \in calls, FormSaved(c)
        PROVE  SystemRest'
    BY <1>2, <1>3 DEF FormSaved
  <1> QED BY <1>1, <1>2, <1>3, TabsLooks, TabsDialogs, TabsSave, TabsLoad, TabsExecuted
          DEF AdminSystemNext

-----------------------------------------------------------------------------

(* The pages with dialogs together *)

LEMMA ListOpens ==
  ASSUME NEW u, DialogFields \subseteq DOMAIN u, u.dialog = NoDialog, u.entered = {},
         u.busy = {}, u = ui,
         NEW c, Began(c, "load"), c \in calls,
         \A d \in calls : d = c \/ \E op : Began(d, op) /\ op \notin {"retry", "reconcile"}
  PROVE  DialogInv
  <1>1. \A d \in calls : OwnCall(d)
    BY DEF Began, OwnCall
  <1>2. OwnEntry(ui)
    BY DEF OwnEntry
  <1>3. DialogWaits
    BY DEF DialogWaits, Began
  <1> QED BY <1>1, <1>2, <1>3 DEF DialogInv

LEMMA DialogsInit == FrontendInit => DialogsInv
  <1> SUFFICES ASSUME FrontendInit
               PROVE  DialogsInv
    OBVIOUS
  <1>0. OpenCheckout \/ OpenPage
    BY DEF FrontendInit
  <1>1. Began(CallNo(1, "load", NoList), "load")
    BY CallBegan
  <1>2. ASSUME DialogFields \subseteq DOMAIN ui, ui.dialog = NoDialog, ui.entered = {},
               ui.busy = {}, NEW op, op \notin Handlers \/ op = "paused",
               \/ calls = {CallNo(1, "load", NoList)}
               \/ calls = {CallNo(1, "load", NoList), CallNo(2, op, NoList)}
        PROVE  DialogInv /\ (op # "paused" => LoadsAlone)
    <2>1. PICK c : c = CallNo(1, "load", NoList)
      OBVIOUS
    <2>2. PICK d : d = CallNo(2, op, NoList)
      OBVIOUS
    <2>3. Began(d, op) /\ Began(c, "load") /\ c \in calls /\ calls \subseteq {c, d}
      BY <1>1, <1>2, <2>1, <2>2, CallBegan
    <2>4. op \notin {"retry", "reconcile"}
      BY <1>2 DEF Handlers
    <2>5. PICK u : u = ui
      OBVIOUS
    <2>6. DialogInv
      BY <1>2, <2>3, <2>4, <2>5, ListOpens
    <2>7. op # "paused" => LoadsAlone
      BY <1>2, <2>3 DEF Began, LoadsAlone, Handlers
    <2> QED BY <2>6, <2>7
  <1>3. DialogFields \subseteq DOMAIN DialogList /\ DialogList.dialog = NoDialog
        /\ DialogList.entered = {} /\ DialogList.busy = {}
    BY DEF DialogFields, DialogList
  <1>4. CASE AdminPaymentsInit \/ AdminListsInit
    <2>1. DialogInv
      BY <1>2, <1>3, <1>4 DEF AdminPaymentsInit, AdminListsInit, Handlers
    <2>2. page \in {"admin payments"} \cup AdminListPage
      BY <1>4 DEF AdminPaymentsInit, AdminListsInit
    <2> QED BY <2>1, <2>2 DEF DialogsInv, AdminListPage
  <1>5. CASE AdminUsersInit
    <2>1. page = "admin users" /\ calls = {CallNo(1, "load", NoList)}
      BY <1>5 DEF AdminUsersInit
    <2>2. /\ DialogFields \subseteq DOMAIN ui /\ ui.dialog = NoDialog /\ ui.entered = {}
          /\ ui.busy = {}
      BY <1>5 DEF AdminUsersInit, DialogFields
    <2>3. DialogInv
      BY <1>2, <2>1, <2>2 DEF Handlers
    <2> QED BY <2>1, <2>3 DEF DialogsInv
  <1>6. CASE AdminCouponsInit
    <2>1. /\ page = "admin coupons"
          /\ calls = {CallNo(1, "load", NoList), CallNo(2, "plans", NoList)}
      BY <1>6 DEF AdminCouponsInit
    <2>2. /\ DialogFields \subseteq DOMAIN ui /\ ui.dialog = NoDialog /\ ui.entered = {}
          /\ ui.busy = {} /\ ui.stats = NoStats /\ "stats" \in DOMAIN ui
      BY <1>6 DEF AdminCouponsInit, DialogFields
    <2>3. PICK op : op = "plans"
      OBVIOUS
    <2>4. op \notin Handlers
      BY <2>3 DEF Handlers
    <2>5. calls = {CallNo(1, "load", NoList), CallNo(2, op, NoList)}
      BY <2>1, <2>3
    <2>6. DialogInv
      BY <1>2, <2>2, <2>4, <2>5
    <2>7. StatsWait
      BY <2>2 DEF StatsWait, NoStats
    <2> QED BY <2>1, <2>6, <2>7 DEF DialogsInv
  <1>7. CASE OrdersViewInit
    <2>1. /\ page = "orders"
          /\ calls = {CallNo(1, "load", NoList), CallNo(2, "config", NoList)}
      BY <1>7 DEF OrdersViewInit
    <2>2. /\ DialogFields \subseteq DOMAIN ui /\ ui.dialog = NoDialog /\ ui.entered = {}
          /\ ui.busy = {}
      BY <1>7 DEF OrdersViewInit, DialogFields
    <2>3. DialogInv /\ LoadsAlone
      BY <1>2, <2>1, <2>2 DEF Handlers
    <2> QED BY <2>1, <2>3 DEF DialogsInv
  <1>8. CASE AdminOrdersInit
    <2>1. /\ page = "admin orders"
          /\ calls = {CallNo(1, "load", NoList), CallNo(2, "paused", NoList)}
      BY <1>8 DEF AdminOrdersInit
    <2>2. /\ DialogFields \subseteq DOMAIN ui /\ ui.dialog = NoDialog /\ ui.entered = {}
          /\ ui.busy = {}
          /\ {"reason", "external", "detail", "paused", "note"} \subseteq DOMAIN ui
      BY <1>8 DEF AdminOrdersInit, DialogFields
    <2>3. DialogInv /\ ReasonsOwn
      BY <1>2, <2>1, <2>2 DEF ReasonsOwn
    <2> QED BY <2>1, <2>3 DEF DialogsInv
  <1>9. CASE AdminPlansInit
    <2>1. page = "admin plans" /\ calls = {CallNo(1, "load", NoList)}
      BY <1>9 DEF AdminPlansInit
    <2>2. /\ DialogFields \subseteq DOMAIN ui /\ ui.dialog = NoDialog /\ ui.entered = {}
          /\ ui.busy = {} /\ {"form", "edits"} \subseteq DOMAIN ui /\ ui.form = EmptyPlanForm
          /\ ui.rows = {}
      BY <1>9 DEF AdminPlansInit, DialogFields
    <2>3. PICK op : op = "plans"
      OBVIOUS
    <2>4. op \notin Handlers /\ op # "paused"
      BY <2>3 DEF Handlers
    <2>5. DialogInv /\ LoadsAlone
      BY <1>2, <2>1, <2>2, <2>4
    <2>6. PlanFits(EmptyPlanForm) /\ PlanSold(EmptyPlanForm)
      <3>1. PICK f : f = EmptyPlanForm
        OBVIOUS
      <3>2. /\ f.platforms = "all" /\ f.ios = "served" /\ f.android = "served"
            /\ f.provider = "legacy_locket" /\ f \in PlanForm
        BY <3>1 DEF EmptyPlanForm, PlanForm, Served, Category
      <3>3. PlanFits(f)
        BY <3>2 DEF PlanFits
      <3>4. PlanSold(f)
        BY <3>2 DEF PlanSold, ValidatePlanFulfillment
      <3> QED BY <3>1, <3>3, <3>4
    <2>7. /\ {"is", "plan", "others", "errand"} \subseteq DOMAIN db
          /\ db.plan = [i \in Items |-> EmptyPlanForm]
      <3>1. PICK errand, is :
              db = [is |-> is, plan |-> [i \in Items |-> EmptyPlanForm], others |-> 0,
                    errand |-> errand]
        BY <1>9 DEF AdminPlansInit
      <3> QED BY <3>1
    <2>8. \A c \in calls : c.op = "load" /\ c.rows = {}
      BY <1>1, <2>1 DEF Began
    <2>9. DOMAIN db.plan = Items /\ \A i \in Items : PlanSold(db.plan[i])
      BY <2>6, <2>7
    <2>10. PlansSold
      BY <2>2, <2>6, <2>7, <2>8, <2>9 DEF PlansSold
    <2> QED BY <2>1, <2>5, <2>10 DEF DialogsInv
  <1>10. CASE AdminSystemInit
    <2>1. PICK b : b = CallNo(1, "load", NoList)
      OBVIOUS
    <2>2. PICK tab : tab = ui.tab
      OBVIOUS
    <2>3. PICK l : l = [b EXCEPT !.silent = TRUE, !.value = tab]
      OBVIOUS
    <2>4. page = "admin system" /\ calls = {l}
      BY <1>10, <2>1, <2>2, <2>3 DEF AdminSystemInit
    <2>5. /\ DialogFields \subseteq DOMAIN ui /\ ui.dialog = NoDialog /\ ui.entered = {}
          /\ ui.busy = {} /\ ui.loading = FALSE
          /\ {"tab", "popup", "texts", "settings", "typed"} \subseteq DOMAIN ui
      BY <1>10 DEF AdminSystemInit, DialogFields
    <2>6. CallFields \subseteq DOMAIN l /\ l.op = "load" /\ l.then = "" /\ l.entered = {}
      BY <1>1, <2>1, <2>3 DEF Began, CallFields
    <2>7. DialogInv
      BY <2>4, <2>5, <2>6 DEF DialogInv, OwnEntry, OwnCall, DialogWaits
    <2>8. LoadsAlone /\ TabsQuiet
      BY <2>4, <2>5, <2>6 DEF LoadsAlone, TabsQuiet
    <2> QED BY <2>4, <2>7, <2>8 DEF DialogsInv
  <1>11. CASE OpenCheckout \/ ProgressInit \/ WalletInit \/ ReviewsInit \/ DashboardInit
    <2>1. page \in {"checkout", "progress", "wallet", "feedback", "dashboard"}
      BY <1>11 DEF OpenCheckout, ProgressInit, WalletInit, ReviewsInit, DashboardInit
    <2> QED BY <2>1 DEF DialogsInv, DialogPages, AdminListPage
  <1> QED BY <1>0, <1>4, <1>5, <1>6, <1>7, <1>8, <1>9, <1>10, <1>11 DEF OpenPage

LEMMA DialogsNext == DialogsInv /\ [FrontendNext]_<<vars, browser>> => DialogsInv'
  <1> SUFFICES ASSUME DialogsInv, [FrontendNext]_<<vars, browser>>
               PROVE  DialogsInv'
    OBVIOUS
  <1>1. page' \in {page, "blank"}
    BY PageStays
  <1>2. CASE UNCHANGED <<ui, calls, db>>
    <2>1. DialogInv => DialogInv'
      BY <1>2, DialogLooks DEF DialogInv
    <2>2. /\ LoadsAlone => LoadsAlone'
          /\ ReasonsOwn => ReasonsOwn'
          /\ StatsWait => StatsWait'
          /\ TabsQuiet => TabsQuiet'
      BY <1>2 DEF LoadsAlone, ReasonsOwn, StatsWait, TabsQuiet
    <2>3. PlansSold => PlansSold'
      BY <1>2 DEF PlansSold
    <2> QED BY <1>1, <2>1, <2>2, <2>3 DEF DialogsInv, DialogPages, AdminListPage
  <1>3. CASE ~UNCHANGED <<ui, calls, db>>
    <2>1. /\ page = "orders" => OrdersViewNext
          /\ page = "admin orders" => AdminOrdersNext
          /\ page = "admin payments" => AdminPaymentsNext
          /\ page = "admin users" => AdminUsersNext
          /\ page = "admin coupons" => AdminCouponsNext
          /\ page = "admin plans" => AdminPlansNext
          /\ page = "admin system" => AdminSystemNext
          /\ page \in AdminListPage => AdminListsNext
      BY <1>3 DEF FrontendNext, PageNext, browser, AdminListPage
    <2>2. page \notin DialogPages => DialogsInv'
      BY <1>1 DEF DialogsInv, DialogPages, AdminListPage
    <2>3. CASE page = "orders"
      BY <1>1, <2>1, <2>3, OrdersDialogs DEF DialogsInv, DialogPages, AdminListPage
    <2>4. CASE page = "admin orders"
      BY <1>1, <2>1, <2>4, AdminOrdersDialogs DEF DialogsInv, DialogPages, AdminListPage
    <2>5. CASE page = "admin payments"
      BY <1>1, <2>1, <2>5, PaymentsDialogs DEF DialogsInv, DialogPages, AdminListPage
    <2>6. CASE page = "admin users"
      BY <1>1, <2>1, <2>6, UsersDialogs DEF DialogsInv, DialogPages, AdminListPage
    <2>7. CASE page = "admin coupons"
      BY <1>1, <2>1, <2>7, CouponsDialogs DEF DialogsInv, DialogPages, AdminListPage
    <2>8. CASE page = "admin plans"
      BY <1>1, <2>1, <2>8, PlansDialogs DEF DialogsInv, DialogPages, AdminListPage, PlanRest
    <2>9. CASE page = "admin system"
      BY <1>1, <2>1, <2>9, SystemDialogs DEF DialogsInv, DialogPages, AdminListPage, SystemRest
    <2>10. CASE page \in AdminListPage
      BY <1>1, <2>1, <2>10, ListsDialogs DEF DialogsInv, DialogPages, AdminListPage
    <2> QED BY <2>2, <2>3, <2>4, <2>5, <2>6, <2>7, <2>8, <2>9, <2>10 DEF DialogPages
  <1> QED BY <1>2, <1>3

THEOREM DialogsHold == FrontendSpec => []DialogsInv
  BY DialogsInit, DialogsNext, PTL DEF FrontendSpec

(* What is submitted for an order, a payment, a user, a coupon or a plan was
   entered for it, however the dialogs of the administrator's pages and late
   answers follow each other; and no order of changes to the form of
   AdminPlans.tsx, and no answer to it, makes a plan that serves a platform it
   leaves out.  The note of a reconciliation is excepted: it may have been typed
   for another order (ReconciliationNoted). *)
THEOREM SubmissionsOwn == FrontendSpec => []SubmitsOwnInput
  <1>1. DialogsInv => SubmitsOwnInput
    BY DEF DialogsInv, SubmitsOwnInput, DialogInv, OwnCall, DialogOwnInput, PlansSold,
           PlanFits, PlanSold, PlanFormConsistent
  <1> QED BY <1>1, DialogsHold, PTL

-----------------------------------------------------------------------------
(* What waits.  A flag of a page is set together with the call that will take
   it back, and a call that ends takes its own flag with it. *)

ReviewsAwaited ==
  {"my", "loading", "open", "draft", "busy", "asking"} \subseteq DOMAIN ui /\ ReviewsWaits

(* Only a read of the review goes on for news told, or closes the prompt. *)
NewsAwaited ==
  DashboardWaits /\ \A c \in calls : c.op # "mine" => c.then \notin {"told", "close"}

WaitsInv ==
  /\ page = "wallet" => WalletWaits
  /\ page = "feedback" => ReviewsAwaited
  /\ page = "dashboard" => NewsAwaited

(* The wallet: a flag that stays keeps its calls, or finds another. *)
LEMMA WalletWaitsOn ==
  ASSUME WalletWaits,
         ui'.loading => \/ ui.loading /\ \A c \in calls \ calls' : c.op # "load"
                        \/ \E c \in calls' : c.op = "load",
         ui'.creating => \/ ui.creating /\ \A c \in calls \ calls' : c.op # "create" \/ c.silent
                         \/ \E c \in calls' : c.op = "create" /\ ~c.silent,
         ui'.renewing => \/ ui.renewing /\ \A c \in calls \ calls' : c.op # "renew"
                         \/ \E c \in calls' : c.op = "renew",
         ui'.counting => \/ ui.counting /\ \A c \in calls \ calls' : c.op # "balance" \/ c.silent
                         \/ \E c \in calls' : c.op = "balance" /\ ~c.silent
  PROVE  WalletWaits'
  BY DEF WalletWaits

(* Nothing is taken back, and calls begin or go on. *)
LEMMA WalletGoesOn ==
  ASSUME WalletWaits, WalletFields, NEW c, NEW d, d.op = c.op, d.silent = c.silent,
         ui'.loading = ui.loading, ui'.creating = ui.creating, ui'.renewing = ui.renewing,
         ui'.counting = ui.counting,
         calls \subseteq calls' \/ calls' = (calls \ {c}) \cup {d}
  PROVE  WalletWaits'
  <1>1. CASE calls \subseteq calls'
    BY <1>1 DEF WalletWaits
  <1>2. CASE calls' = (calls \ {c}) \cup {d}
    <2>1. d \in calls' /\ calls \ calls' \subseteq {c}
      BY <1>2
    <2>2. \A e \in calls : \E f \in calls' : f.op = e.op /\ f.silent = e.silent
      BY <1>2, <2>1
    <2> QED BY <2>2 DEF WalletWaits
  <1> QED BY <1>1, <1>2

LEMMA WalletAsks ==
  ASSUME WalletInv, WalletWaits,
         \/ \E amount \in Amounts : TopupForm(amount)
         \/ HandleRenewTopup \/ HandleCreateTopup \/ CloseTopupPanel \/ CheckTopupStatus
         \/ BalanceCard \/ RefreshLedger
         \/ \E p \in Items : \E to \in TopupStatus : TopupMoves(p, to)
  PROVE  WalletWaits'
  <1>1. WalletFields
    BY DEF WalletInv, WalletPage
  <1>2. CASE HandleRenewTopup
    <2>1. PICK b : b = Call("renew", ui)
      OBVIOUS
    <2>2. PICK c : c = [b EXCEPT !.target = ui.topup.pay]
      OBVIOUS
    <2>3. calls' = calls \cup {c} /\ ui' = [ui EXCEPT !.renewing = TRUE]
      BY <1>2, <2>1, <2>2 DEF HandleRenewTopup, Begin
    <2>4. c.op = "renew"
      BY <2>1, <2>2, CallBegan DEF Began, CallFields
    <2>5. /\ ui'.loading = ui.loading /\ ui'.creating = ui.creating
          /\ ui'.counting = ui.counting
      BY <1>1, <2>3 DEF WalletFields
    <2> QED BY <2>3, <2>4, <2>5 DEF WalletWaits
  <1>3. CASE HandleCreateTopup
    <2>1. PICK b : b = Call("create", ui)
      OBVIOUS
    <2>2. PICK key : calls' = calls \cup {[b EXCEPT !.target = key, !.of = ui.amount]}
      BY <1>3, <2>1 DEF HandleCreateTopup, Begin
    <2>3. PICK c : c = [b EXCEPT !.target = key, !.of = ui.amount]
      OBVIOUS
    <2>4. c.op = "create" /\ c.silent = FALSE
      <3>1. Began(b, "create")
        BY <2>1, CallBegan
      <3> QED BY <2>3, <3>1 DEF Began, CallFields
    <2>5. /\ ui'.loading = ui.loading /\ ui'.renewing = ui.renewing
          /\ ui'.counting = ui.counting
      BY <1>1, <1>3 DEF HandleCreateTopup, WalletFields
    <2> QED BY <2>2, <2>3, <2>4, <2>5 DEF WalletWaits
  <1>4. CASE RefreshLedger
    <2>1. PICK l : l = Load(ui, FALSE, "")
      OBVIOUS
    <2>2. calls' = calls \cup {l} /\ ui' = [ui EXCEPT !.loading = TRUE]
      BY <1>4, <2>1 DEF RefreshLedger, Loading, Begin
    <2>3. l.op = "load"
      <3>1. LoadBegan(l)
        BY <2>1, LoadMade
      <3> QED BY <3>1 DEF LoadBegan
    <2>4. /\ ui'.creating = ui.creating /\ ui'.renewing = ui.renewing
          /\ ui'.counting = ui.counting
      BY <1>1, <2>2 DEF WalletFields
    <2> QED BY <2>2, <2>3, <2>4 DEF WalletWaits
  <1>5. CASE \/ \E amount \in Amounts : TopupForm(amount)
             \/ CloseTopupPanel \/ CheckTopupStatus \/ BalanceCard
             \/ \E p \in Items : \E to \in TopupStatus : TopupMoves(p, to)
    <2>1. calls \subseteq calls'
      BY <1>5 DEF TopupForm, CloseTopupPanel, CheckTopupStatus, BalanceCard, TopupMoves, Begin
    <2>2. /\ ui'.loading = ui.loading /\ ui'.creating = ui.creating
          /\ ui'.renewing = ui.renewing /\ ui'.counting = ui.counting
      BY <1>1, <1>5 DEF TopupForm, CloseTopupPanel, CheckTopupStatus, BalanceCard, TopupMoves,
                        WalletFields
    <2> QED BY <2>1, <2>2 DEF WalletWaits
  <1> QED BY <1>2, <1>3, <1>4, <1>5

LEMMA WalletInitWaits == WalletInit => WalletWaits
  <1> SUFFICES ASSUME WalletInit
               PROVE  WalletWaits
    OBVIOUS
  <1>1. ui.creating = FALSE /\ ui.renewing = FALSE /\ ui.counting = FALSE
        /\ ui.loading = For("look")
    BY DEF WalletInit
  <1>2. PICK l : l = CallNo(1, "load", NoList)
    OBVIOUS
  <1>3. Began(l, "load")
    BY <1>2, CallBegan
  <1>4. calls = IF For("look") THEN {l} ELSE {}
    BY <1>2 DEF WalletInit
  <1> QED BY <1>1, <1>3, <1>4 DEF Began, WalletWaits

(* The shop answers, and the page does not know yet. *)
LEMMA WalletShopAnswers ==
  ASSUME WalletInv, WalletWaits, NEW c \in calls,
         \/ TopupCreated(c) \/ ReadTopup(c) \/ TopupRenewed(c) \/ ReadBalance(c) \/ ReadRows(c)
  PROVE  WalletWaits'
  <1>1. WalletFields /\ UNCHANGED ui /\ CallFields \subseteq DOMAIN c
    BY DEF WalletInv, WalletPage, WalletCall, TopupCreated, ReadTopup, TopupRenewed,
           ReadBalance, ReadRows
  <1>2. CASE c.op = "create" /\ c.silent /\ End(c)
    <2>1. calls' = calls \ {c}
      BY <1>2 DEF End
    <2> QED BY <1>1, <1>2, <2>1 DEF WalletWaits
  <1>3. ASSUME NEW d, Change(c, d), d.op = c.op, d.silent = c.silent
        PROVE  WalletWaits'
    BY <1>1, <1>3, WalletGoesOn DEF Change
  <1>4. CASE TopupCreated(c)
    <2>1. PICK d : d = [c EXCEPT !.reply = "ok"]
      OBVIOUS
    <2>2. d.op = c.op /\ d.silent = c.silent
      BY <1>1, <2>1 DEF CallFields
    <2> QED BY <1>2, <1>3, <1>4, <2>1, <2>2 DEF TopupCreated
  <1>5. CASE ReadTopup(c)
    <2>1. PICK d : d = [c EXCEPT !.reply = "ok", !.value = db.pays[c.target].status]
      OBVIOUS
    <2>2. d.op = c.op /\ d.silent = c.silent
      BY <1>1, <2>1 DEF CallFields
    <2> QED BY <1>3, <1>5, <2>1, <2>2 DEF ReadTopup
  <1>6. CASE TopupRenewed(c)
    <2>1. PICK of, value : Change(c, [c EXCEPT !.reply = "ok", !.of = of, !.value = value])
      BY <1>6 DEF TopupRenewed
    <2>2. PICK d : d = [c EXCEPT !.reply = "ok", !.of = of, !.value = value]
      OBVIOUS
    <2>3. d.op = c.op /\ d.silent = c.silent
      BY <1>1, <2>2 DEF CallFields
    <2> QED BY <1>3, <2>1, <2>2, <2>3
  <1>7. CASE ReadBalance(c)
    <2>1. PICK d : d = [c EXCEPT !.reply = "ok", !.of = Cardinality(Matching(""))]
      OBVIOUS
    <2>2. d.op = c.op /\ d.silent = c.silent
      BY <1>1, <2>1 DEF CallFields
    <2> QED BY <1>3, <1>7, <2>1, <2>2 DEF ReadBalance
  <1>8. CASE ReadRows(c)
    <2>1. PICK d : d = [c EXCEPT !.reply = "ok", !.rows = RowsAt(c.filter, c.at),
                                 !.of = PagesOf(c.filter)]
      OBVIOUS
    <2>2. d.op = c.op /\ d.silent = c.silent
      BY <1>1, <2>1 DEF CallFields
    <2> QED BY <1>3, <1>8, <2>1, <2>2 DEF ReadRows
  <1> QED BY <1>4, <1>5, <1>6, <1>7, <1>8

(* The page is answered. *)
LEMMA WalletAnswered ==
  ASSUME WalletInv, WalletWaits, NEW c \in calls,
         \/ CreateAnswered(c) \/ CreateFailed(c) \/ PollFailed(c)
         \/ RenewAnswered(c) \/ RenewFailed(c) \/ BalanceAnswered(c)
  PROVE  WalletWaits'
  <1>1. WalletFields /\ CallFields \subseteq DOMAIN c
    BY DEF WalletInv, WalletPage, WalletCall
  <1>2. CASE CreateAnswered(c) \/ PollFailed(c) \/ RenewAnswered(c) \/ RenewFailed(c)
             \/ BalanceAnswered(c)
    <2>1. calls \ calls' \subseteq {c}
      BY <1>2 DEF CreateAnswered, PollFailed, RenewAnswered, RenewFailed, BalanceAnswered, End
    <2>2. ui'.loading = ui.loading /\ c.op # "load"
      BY <1>1, <1>2 DEF WalletFields, CreateAnswered, PollFailed, RenewAnswered, RenewFailed,
                        BalanceAnswered
    <2>3. ui'.creating => ui.creating /\ c.op # "create"
      BY <1>1, <1>2 DEF WalletFields, CreateAnswered, PollFailed, RenewAnswered, RenewFailed,
                        BalanceAnswered
    <2>4. ui'.renewing => ui.renewing /\ c.op # "renew"
      BY <1>1, <1>2 DEF WalletFields, CreateAnswered, PollFailed, RenewAnswered, RenewFailed,
                        BalanceAnswered
    <2>5. ui'.counting => ui.counting /\ (c.op # "balance" \/ c.silent)
      BY <1>1, <1>2 DEF WalletFields, CreateAnswered, PollFailed, RenewAnswered, RenewFailed,
                        BalanceAnswered
    <2> QED BY <2>1, <2>2, <2>3, <2>4, <2>5, WalletWaitsOn
  <1>3. CASE CreateFailed(c)
    <2>1. calls \ calls' \subseteq {c} /\ c.op = "create"
      BY <1>3 DEF CreateFailed, Change, End
    <2>2. /\ ui'.loading = ui.loading /\ ~ui'.creating /\ ui'.renewing = ui.renewing
          /\ ui'.counting = ui.counting
      BY <1>1, <1>3 DEF CreateFailed, WalletFields
    <2> QED BY <2>1, <2>2, WalletWaitsOn
  <1> QED BY <1>2, <1>3

(* Balance and ledger are read again once the payment is paid. *)
LEMMA TopupStatusWaits ==
  ASSUME WalletInv, WalletWaits, NEW c \in calls, TopupStatusChange(c)
  PROVE  WalletWaits'
  <1>1. WalletFields /\ c.op = "poll"
    BY DEF WalletInv, WalletPage, TopupStatusChange
  <1>2. PICK u : u = IF ~TopupShown THEN ui
                     ELSE [ui EXCEPT !.topup.pay = c.target, !.topup.status = c.value]
    OBVIOUS
  <1>3. /\ DOMAIN u = DOMAIN ui /\ u.loading = ui.loading /\ u.creating = ui.creating
        /\ u.renewing = ui.renewing /\ u.counting = ui.counting
    BY <1>1, <1>2 DEF WalletFields
  <1>4. CASE c.value # "paid"
    <2>1. calls' = calls \ {c} /\ ui' = u
      BY <1>2, <1>4 DEF TopupStatusChange
    <2>2. calls \ calls' = {c}
      BY <2>1
    <2> QED BY <1>1, <1>3, <2>1, <2>2, WalletWaitsOn
  <1>5. CASE c.value = "paid"
    <2>1. PICK rest : rest = calls \ {c}
      OBVIOUS
    <2>2. PICK b : b = CallNo(IdBeside(rest), "balance", u)
      OBVIOUS
    <2>3. PICK reads : reads = [b EXCEPT !.silent = FALSE]
      OBVIOUS
    <2>4. PICK l : l = Load(u, FALSE, "")
      OBVIOUS
    <2>5. PICK ledger : ledger = [l EXCEPT !.id = IdBeside(rest \cup {reads}), !.at = 1]
      OBVIOUS
    <2>6. /\ calls' = rest \cup {reads, ledger}
          /\ ui' = [u EXCEPT !.thanked = @ \cup {c.target}, !.counting = TRUE, !.loading = TRUE]
      <3>1. u = Told(c)
        BY <1>2 DEF Told
      <3>2. reads = BalanceRead(u, rest)
        BY <2>2, <2>3 DEF BalanceRead
      <3>3. ledger = LedgerRead(u, rest \cup {reads})
        BY <2>4, <2>5 DEF LedgerRead
      <3>4. calls' = rest \cup {reads, ledger} /\ ui' = Thanking(u, c)
        BY <1>5, <2>1, <3>1, <3>2, <3>3, TopupPaid
      <3> QED BY <3>4 DEF Thanking
    <2>7. reads.op = "balance" /\ ~reads.silent
      <3>1. Began(b, "balance")
        BY <2>2, CallBegan
      <3> QED BY <2>3, <3>1 DEF Began, CallFields
    <2>8. ledger.op = "load"
      <3>1. LoadBegan(l)
        BY <2>4, LoadMade
      <3> QED BY <2>5, <3>1 DEF LoadBegan, CallFields
    <2>9. ui'.creating = ui.creating /\ ui'.renewing = ui.renewing
      BY <1>1, <1>3, <2>6 DEF WalletFields
    <2>10. /\ \A e \in calls \ calls' : e.op = "poll"
           /\ reads \in calls' /\ ledger \in calls'
      BY <1>1, <2>1, <2>6
    <2> QED BY <2>7, <2>8, <2>9, <2>10, WalletWaitsOn
  <1> QED BY <1>4, <1>5

(* A load that shows its rows leaves the spinner only where it loads again. *)
LEMMA ShownLoads ==
  ASSUME NEW c, NEW done, ShowRows(c, done), {"rows", "of", "at", "loading"} \subseteq DOMAIN done,
         done.loading = FALSE
  PROVE  ui'.loading => \E d \in calls' : d.op = "load"
  <1>1. CASE c.reply = "none"
    BY <1>1 DEF ShowRows
  <1>2. CASE c.reply # "none"
    <2>1. PICK after : after = [done EXCEPT !.rows = c.rows, !.of = c.of,
                                            !.at = IF c.at > c.of THEN c.of ELSE @]
      OBVIOUS
    <2>2. after.loading = FALSE
      BY <2>1
    <2>3. PICK l : l = Load(after, FALSE, "")
      OBVIOUS
    <2>4. PICK d : d = [l EXCEPT !.id = c.id]
      OBVIOUS
    <2>5. d.op = "load"
      <3>1. LoadBegan(l)
        BY <2>3, LoadMade
      <3> QED BY <2>4, <3>1 DEF LoadBegan, CallFields
    <2>6. ui' = after \/ Change(c, d)
      BY <1>2, <2>1, <2>3, <2>4 DEF ShowRows
    <2> QED BY <2>2, <2>5, <2>6 DEF Change
  <1> QED BY <1>1, <1>2

LEMMA LedgerWaits ==
  ASSUME WalletInv, WalletWaits,
         \/ \E to \in 1 .. ui.of : LedgerPages(to)
         \/ \E c \in calls : LoadTransactions(c)
  PROVE  WalletWaits'
  <1>1. WalletFields
    BY DEF WalletInv, WalletPage
  <1>2. ASSUME NEW to, LedgerPages(to)
        PROVE  WalletWaits'
    <2>1. PICK u : u = [ui EXCEPT !.at = to]
      OBVIOUS
    <2>2. LoadsOrNot(u, "")
      BY <1>2, <2>1, RefilterLoads DEF LedgerPages
    <2>3. /\ DOMAIN u = DOMAIN ui /\ u.loading = ui.loading /\ u.creating = ui.creating
          /\ u.renewing = ui.renewing /\ u.counting = ui.counting
      BY <1>1, <2>1 DEF WalletFields
    <2>4. /\ ui'["creating"] = u["creating"] /\ ui'["renewing"] = u["renewing"]
          /\ ui'["counting"] = u["counting"] /\ calls \ calls' = {}
      BY <1>1, <2>2, <2>3 DEF WalletFields, LoadsOrNot, SameBut
    <2>5. ui'.loading => u.loading \/ \E c \in calls' : c.op = "load"
      BY <2>2 DEF LoadsOrNot
    <2> QED BY <2>3, <2>4, <2>5, WalletWaitsOn
  <1>3. ASSUME NEW c \in calls, LoadTransactions(c)
        PROVE  WalletWaits'
    <2>1. PICK done : done = [ui EXCEPT !.loading = FALSE]
      OBVIOUS
    <2>2. ShowRows(c, done)
      BY <1>3, <2>1 DEF LoadTransactions
    <2>3. /\ DOMAIN done = DOMAIN ui /\ done.loading = FALSE /\ done.creating = ui.creating
          /\ done.renewing = ui.renewing /\ done.counting = ui.counting
          /\ {"rows", "of", "at", "loading"} \subseteq DOMAIN done
      BY <1>1, <2>1 DEF WalletFields
    <2>4. SameBut(done, {"rows", "of", "at", "loading"})
      BY <2>2, <2>3, RowsShown
    <2>5. /\ ui'["creating"] = done["creating"] /\ ui'["renewing"] = done["renewing"]
          /\ ui'["counting"] = done["counting"]
      BY <1>1, <2>3, <2>4 DEF WalletFields, SameBut
    <2>6. calls \ calls' \subseteq {c} /\ c.op = "load"
      BY <2>2 DEF ShowRows, Change, End
    <2>7. ui'.loading => \E d \in calls' : d.op = "load"
      BY <2>2, <2>3, ShownLoads
    <2> QED BY <2>3, <2>5, <2>6, <2>7, WalletWaitsOn
  <1> QED BY <1>2, <1>3

LEMMA WalletNextWaits == WalletInv /\ WalletWaits /\ WalletNext => WalletWaits'
  <1> SUFFICES ASSUME WalletInv, WalletWaits, WalletNext
               PROVE  WalletWaits'
    OBVIOUS
  <1>1. CASE \E c \in calls : \/ TopupCreated(c) \/ ReadTopup(c) \/ TopupRenewed(c)
                             \/ ReadBalance(c) \/ ReadRows(c)
    BY <1>1, WalletShopAnswers
  <1>2. CASE \E c \in calls : \/ CreateAnswered(c) \/ CreateFailed(c) \/ PollFailed(c)
                             \/ RenewAnswered(c) \/ RenewFailed(c) \/ BalanceAnswered(c)
    BY <1>2, WalletAnswered
  <1>3. CASE \E c \in calls : TopupStatusChange(c) \/ LoadTransactions(c)
    BY <1>3, TopupStatusWaits, LedgerWaits
  <1> QED BY <1>1, <1>2, <1>3, WalletAsks, LedgerWaits DEF WalletNext

(* Reviews *)
LEMMA ReviewsInitWait == ReviewsInit => ReviewsAwaited
  BY DEF ReviewsInit, ReviewsAwaited, ReviewsWaits

LEMMA ReviewsWaitOn ==
  ASSUME ReviewsAwaited,
         {"my", "loading", "open", "draft", "busy", "asking"} \subseteq DOMAIN ui',
         ui'.loading => \/ ui.loading /\ \A c \in calls \ calls' : c.op # "mine"
                        \/ \E c \in calls' : c.op = "mine",
         ui'.busy # "none" =>
           \/ ui.busy # "none"
              /\ \A c \in calls \ calls' : ~c.here \/ (c.op = "mine" /\ ~c.close)
           \/ \E c \in calls' : c.here /\ (c.op # "mine" \/ c.close)
  PROVE  ReviewsAwaited'
  BY DEF ReviewsAwaited, ReviewsWaits

(* A handler of the shop goes on, and the page does not know. *)
LEMMA ReviewsGoOn ==
  ASSUME ReviewsAwaited, UNCHANGED ui, NEW c, NEW d, d.op = c.op, d.here = c.here,
         d.close = c.close, Change(c, d)
  PROVE  ReviewsAwaited'
  <1>1. \A e \in calls : \E f \in calls' : f.op = e.op /\ f.here = e.here /\ f.close = e.close
    BY DEF Change
  <1> QED BY <1>1 DEF ReviewsAwaited, ReviewsWaits

LEMMA ReviewFormWaits ==
  ASSUME ReviewsAwaited,
         \/ OpenForm \/ CloseForm \/ SetRating \/ HandleFileChange \/ RemoveSelectedFile
         \/ \E i \in Images : RemoveExistingImage(i)
         \/ AskDelete \/ CancelDelete
  PROVE  ReviewsAwaited'
  <1>1. UNCHANGED calls
    BY DEF OpenForm, CloseForm, SetRating, HandleFileChange, RemoveSelectedFile,
           RemoveExistingImage, AskDelete, CancelDelete
  <1>2. DOMAIN ui' = DOMAIN ui /\ ui'.loading = ui.loading /\ ui'.busy = ui.busy
    BY DEF OpenForm, CloseForm, SetRating, HandleFileChange, RemoveSelectedFile, Reset,
           RemoveExistingImage, AskDelete, CancelDelete, ReviewsAwaited
  <1> QED BY <1>1, <1>2 DEF ReviewsAwaited, ReviewsWaits

LEMMA ReviewAskedWaits ==
  ASSUME ReviewsAwaited, HandleReviewSubmit \/ HandleReviewDelete \/ ElsewhereEdit
  PROVE  ReviewsAwaited'
  <1>1. calls \subseteq calls'
    BY DEF HandleReviewSubmit, HandleReviewDelete, ElsewhereEdit, Ask, Begin
  <1>2. CASE ElsewhereEdit
    BY <1>1, <1>2 DEF ElsewhereEdit, ReviewsAwaited, ReviewsWaits
  <1>3. ASSUME DOMAIN ui' = DOMAIN ui, ui'.loading = ui.loading,
               NEW c, Ask(c), c.op # "mine", c.here
        PROVE  ReviewsAwaited'
    <2>1. c \in calls'
      BY <1>3 DEF Ask, Begin
    <2> QED BY <1>1, <1>3, <2>1 DEF ReviewsAwaited, ReviewsWaits
  <1>4. CASE HandleReviewSubmit
    <2>1. PICK b : b = ReviewCall(IF ui.my.review = 0 THEN "submit" ELSE "update", TRUE)
      OBVIOUS
    <2>2. PICK c : c = [b EXCEPT !.keep = ui.draft.kept, !.files = ui.draft.files]
      OBVIOUS
    <2>3. c.op # "mine" /\ c.here
      BY <2>1, <2>2 DEF ReviewCall
    <2>4. Ask(c) /\ ui' = [ui EXCEPT !.busy = "submit"]
      BY <1>4, <2>1, <2>2 DEF HandleReviewSubmit
    <2>5. DOMAIN ui' = DOMAIN ui /\ ui'.loading = ui.loading
      BY <2>4 DEF ReviewsAwaited
    <2> QED BY <1>3, <2>3, <2>4, <2>5
  <1>5. CASE HandleReviewDelete
    <2>1. PICK c : c = ReviewCall("delete", TRUE)
      OBVIOUS
    <2>2. c.op # "mine" /\ c.here
      BY <2>1 DEF ReviewCall
    <2>3. Ask(c) /\ ui' = [ui EXCEPT !.busy = "delete"]
      BY <1>5, <2>1 DEF HandleReviewDelete
    <2>4. DOMAIN ui' = DOMAIN ui /\ ui'.loading = ui.loading
      BY <2>3 DEF ReviewsAwaited
    <2> QED BY <1>3, <2>2, <2>3, <2>4
  <1> QED BY <1>2, <1>4, <1>5

LEMMA ReviewShopWaits ==
  ASSUME ReviewsInv, ReviewsAwaited, NEW c \in calls,
         \/ SubmitReceived(c) \/ UpdateReceived(c) \/ Refused(c)
         \/ SubmitCommitted(c) \/ UpdateCommitted(c) \/ DeleteCommitted(c)
         \/ DeleteFiles(c) \/ HandlerDies(c) \/ GetMyReview(c)
  PROVE  ReviewsAwaited'
  <1>1. UNCHANGED ui
    BY DEF SubmitReceived, UpdateReceived, Refused, SubmitCommitted, UpdateCommitted, Store,
           DeleteCommitted, DeleteFiles, HandlerDies, GetMyReview
  <1>2. PICK stage, saved, review, old :
          \/ Change(c, [c EXCEPT !.stage = stage, !.saved = saved, !.review = review,
                                 !.old = old])
          \/ Change(c, [c EXCEPT !.stage = stage])
          \/ Change(c, [c EXCEPT !.stage = stage, !.saved = saved])
          \/ Change(c, [c EXCEPT !.stage = stage, !.saved = saved, !.old = old])
          \/ Change(c, [c EXCEPT !.stage = stage, !.old = old])
          \/ Change(c, [c EXCEPT !.stage = stage, !.review = review, !.old = old])
    BY DEF SubmitReceived, UpdateReceived, Refused, SubmitCommitted, UpdateCommitted, Store,
           DeleteCommitted, DeleteFiles, HandlerDies, GetMyReview, RolledBack
  <1>3. PICK d : /\ Change(c, d)
                 /\ \/ d = [c EXCEPT !.stage = stage, !.saved = saved, !.review = review,
                                     !.old = old]
                    \/ d = [c EXCEPT !.stage = stage]
                    \/ d = [c EXCEPT !.stage = stage, !.saved = saved]
                    \/ d = [c EXCEPT !.stage = stage, !.saved = saved, !.old = old]
                    \/ d = [c EXCEPT !.stage = stage, !.old = old]
                    \/ d = [c EXCEPT !.stage = stage, !.review = review, !.old = old]
    BY <1>2
  <1>4. ReviewFields \subseteq DOMAIN c
    BY DEF ReviewsInv, ReviewCallOK
  <1>5. d.op = c.op /\ d.here = c.here /\ d.close = c.close
    BY <1>3, <1>4 DEF ReviewFields
  <1> QED BY <1>1, <1>3, <1>5, ReviewsGoOn

(* The answer of a change frees the form, or a read of the review begins that
   will. *)
LEMMA ActionAnsweredWaits ==
  ASSUME ReviewsInv, ReviewsAwaited, NEW c \in calls, ActionAnswered(c)
  PROVE  ReviewsAwaited'
  <1>1. calls \ calls' \subseteq {c} /\ c.op # "mine"
    BY DEF ActionAnswered, Change, End
  <1>2. CASE ~c.here
    BY <1>1, <1>2, ReviewsWaitOn DEF ActionAnswered, ReviewsAwaited
  <1>3. CASE c.here /\ c.stage = "refused"
    <2>1. ui' = [ui EXCEPT !.busy = "none", !.asking = FALSE]
      BY <1>3 DEF ActionAnswered
    <2>2. DOMAIN ui' = DOMAIN ui /\ ui'.loading = ui.loading /\ ui'.busy = "none"
      BY <2>1 DEF ReviewsAwaited
    <2> QED BY <1>1, <2>2, ReviewsWaitOn DEF ReviewsAwaited
  <1>4. CASE c.here /\ c.stage # "refused"
    <2>1. PICK b : b = ReviewCall("mine", TRUE)
      OBVIOUS
    <2>2. PICK d : d = [b EXCEPT !.id = c.id, !.close = TRUE]
      OBVIOUS
    <2>3. calls' = (calls \ {c}) \cup {d} /\ ui' = [ui EXCEPT !.loading = TRUE]
      BY <1>4, <2>1, <2>2 DEF ActionAnswered, Change
    <2>4. d.op = "mine" /\ d.here /\ d.close
      BY <2>1, <2>2 DEF ReviewCall
    <2>5. DOMAIN ui' = DOMAIN ui
      BY <2>3
    <2> QED BY <2>3, <2>4, <2>5, ReviewsWaitOn DEF ReviewsAwaited
  <1> QED BY <1>2, <1>3, <1>4

LEMMA RefreshMyReviewWaits ==
  ASSUME ReviewsInv, ReviewsAwaited, NEW c \in calls, RefreshMyReview(c)
  PROVE  ReviewsAwaited'
  <1>1. calls' = calls \ {c} /\ c.op = "mine"
    BY DEF RefreshMyReview, End
  <1>2. PICK known : known = [review |-> c.review, images |-> c.old]
    OBVIOUS
  <1>3. PICK read : read = IF c.stage = "sent" \/ (known = NoReview /\ ui.my = NoReview) THEN ui
                           ELSE Reset([ui EXCEPT !.my = known])
    OBVIOUS
  <1>4. PICK seen : seen = [read EXCEPT !.loading = FALSE]
    OBVIOUS
  <1>5. DOMAIN read = DOMAIN ui /\ read.busy = ui.busy
    BY <1>3 DEF Reset, ReviewsAwaited
  <1>6. DOMAIN seen = DOMAIN ui /\ seen.loading = FALSE /\ seen.busy = ui.busy
    BY <1>4, <1>5 DEF ReviewsAwaited
  <1>7. ui' = IF ~c.close THEN seen
              ELSE [seen EXCEPT !.open = FALSE, !.draft.files = 0, !.busy = "none",
                                !.asking = FALSE]
    BY <1>2, <1>3, <1>4 DEF RefreshMyReview
  <1>8. /\ DOMAIN ui' = DOMAIN ui /\ ui'.loading = FALSE
        /\ ui'.busy # "none" => ui.busy # "none" /\ ~c.close
    BY <1>6, <1>7 DEF ReviewsAwaited
  <1>9. \A d \in calls \ calls' : d = c
    BY <1>1
  <1> QED BY <1>1, <1>8, <1>9, ReviewsWaitOn DEF ReviewsAwaited

LEMMA ReviewsNextWaits == ReviewsInv /\ ReviewsAwaited /\ ReviewsNext => ReviewsAwaited'
  BY ReviewFormWaits, ReviewAskedWaits, ReviewShopWaits, ActionAnsweredWaits,
     RefreshMyReviewWaits
  DEF ReviewsNext

(* A page loaded anew waits for its first reads only. *)
LEMMA FreshReadsWait ==
  /\ \E c \in FirstReads : c.op = "mine"
  /\ \A c \in FirstReads : c.then = ""
  /\ FreshPage.refreshing = FALSE /\ FreshPage.sending = FALSE
  <1>1. PICK c : c = Read(2, "mine", "")
    OBVIOUS
  <1>2. PICK d : d = Read(1, "orders", "")
    OBVIOUS
  <1>3. c.op = "mine" /\ c.then = "" /\ d.then = ""
    BY <1>1, <1>2 DEF Read
  <1>4. FirstReads = {d, c}
    BY <1>1, <1>2 DEF FirstReads
  <1>5. FreshPage.refreshing = FALSE /\ FreshPage.sending = FALSE
    BY DEF FreshPage
  <1> QED BY <1>3, <1>4, <1>5

(* The dashboard *)
LEMMA DashboardInitWaits == DashboardInit => NewsAwaited
  <1> SUFFICES ASSUME DashboardInit
               PROVE  NewsAwaited
    OBVIOUS
  <1>1. ui = FreshPage /\ calls = FirstReads
    BY DEF DashboardInit
  <1> QED BY <1>1, FreshReadsWait DEF NewsAwaited, DashboardWaits

LEMMA NewsWaitOn ==
  ASSUME NewsAwaited,
         ui'.reading => \/ ui.reading /\ \A c \in calls \ calls' : c.op # "mine"
                        \/ \E c \in calls' : c.op = "mine",
         ui'.refreshing => \/ ui.refreshing /\ \A c \in calls \ calls' : c.then # "told"
                           \/ \E c \in calls' : c.then = "told",
         ui'.sending =>
           \/ ui.sending /\ \A c \in calls \ calls' : c.op # "review" /\ c.then # "close"
           \/ \E c \in calls' : c.op = "review" \/ c.then = "close",
         \A c \in calls' : \/ c \in calls \/ c.op = "mine"
                           \/ c.then \notin {"told", "close"}
  PROVE  NewsAwaited'
  BY DEF NewsAwaited, DashboardWaits

LEMMA PromptWaits ==
  ASSUME DashboardInv, NewsAwaited,
         \/ PromptOpens \/ CloseReviewExperience \/ ShowReviewForm \/ OverlayChanges
         \/ ReviewedElsewhere \/ \E o \in Items : OrderCompleted(o)
         \/ \E c \in calls : ReviewStored(c) \/ ShopReads(c)
  PROVE  NewsAwaited'
  <1>1. NewsFields
    BY DEF DashboardInv, NewsPage
  <1>2. ui'.reading = ui.reading /\ ui'.refreshing = ui.refreshing /\ ui'.sending = ui.sending
    BY <1>1 DEF NewsFields, PromptOpens, CloseReviewExperience, ShowReviewForm, OverlayChanges,
                ReviewedElsewhere, OrderCompleted, ReviewStored, ShopReads
  <1>3. CASE UNCHANGED calls
    BY <1>2, <1>3 DEF NewsAwaited, DashboardWaits
  <1>4. ASSUME NEW c \in calls, NEW d, Change(c, d), d.op = c.op, d.then = c.then
        PROVE  NewsAwaited'
    <2>1. \A e \in calls : \E f \in calls' : f.op = e.op /\ f.then = e.then
      BY <1>4 DEF Change
    <2>2. \A e \in calls' : e.op # "mine" => e.then \notin {"told", "close"}
      BY <1>4 DEF Change, NewsAwaited
    <2> QED BY <1>2, <2>1, <2>2 DEF NewsAwaited, DashboardWaits
  <1>5. ASSUME NEW c \in calls, ReviewStored(c) \/ ShopReads(c)
        PROVE  NewsAwaited'
    <2>1. ReadFields \subseteq DOMAIN c
      BY DEF DashboardInv, ReadOK
    <2>2. PICK d : /\ Change(c, d)
                   /\ \/ d = [c EXCEPT !.reply = "ok"]
                      \/ d = [c EXCEPT !.reply = "ok", !.orders = db.done, !.has = db.review]
      BY <1>5 DEF ReviewStored, ShopReads
    <2>3. d.op = c.op /\ d.then = c.then
      BY <2>1, <2>2 DEF ReadFields
    <2> QED BY <1>4, <2>2, <2>3
  <1> QED BY <1>3, <1>5 DEF PromptOpens, CloseReviewExperience, ShowReviewForm, OverlayChanges,
                            ReviewedElsewhere, OrderCompleted

LEMMA ReadsBeginWaits ==
  ASSUME DashboardInv, NewsAwaited, SendReview \/ DashboardRefresh \/ ReviewRefresh
  PROVE  NewsAwaited'
  <1>1. NewsFields
    BY DEF DashboardInv, NewsPage
  <1>2. ASSUME NEW op, NEW then, then \notin {"told", "close"}, Begin(Read(FreeId, op, then)),
               ui'.refreshing = ui.refreshing, ui'.reading => ui.reading \/ op = "mine",
               ui'.sending => ui.sending \/ op = "review"
        PROVE  NewsAwaited'
    <2>1. PICK c : c = Read(FreeId, op, then)
      OBVIOUS
    <2>2. c.op = op /\ c.then = then
      BY <2>1 DEF Read
    <2>3. calls' = calls \cup {c}
      BY <1>2, <2>1 DEF Begin
    <2> QED BY <1>2, <2>2, <2>3, NewsWaitOn
  <1>3. CASE SendReview
    <2>1. PICK op, then : op = "review" /\ then = ""
      OBVIOUS
    <2>2. Begin(Read(FreeId, op, then)) /\ ui' = [ui EXCEPT !.sending = TRUE]
      BY <1>3, <2>1 DEF SendReview
    <2>3. ui'.refreshing = ui.refreshing /\ ui'.reading = ui.reading
      BY <1>1, <2>2 DEF NewsFields
    <2> QED BY <1>2, <2>1, <2>2, <2>3
  <1>4. CASE DashboardRefresh
    <2>1. PICK op, then : op = "orders" /\ then = "live summary"
      OBVIOUS
    <2>2. Begin(Read(FreeId, op, then)) /\ UNCHANGED ui
      BY <1>4, <2>1 DEF DashboardRefresh
    <2> QED BY <1>2, <2>1, <2>2
  <1>5. CASE ReviewRefresh
    <2>1. PICK op, then : op = "mine" /\ then = "live review"
      OBVIOUS
    <2>2. Begin(Read(FreeId, op, then)) /\ ui' = [ui EXCEPT !.reading = TRUE]
      BY <1>5, <2>1 DEF ReviewRefresh
    <2>3. ui'.refreshing = ui.refreshing /\ ui'.sending = ui.sending
      BY <1>1, <2>2 DEF NewsFields
    <2> QED BY <1>2, <2>1, <2>2, <2>3
  <1> QED BY <1>3, <1>4, <1>5

LEMMA ReviewAnsweredWaits ==
  ASSUME DashboardInv, NewsAwaited, NEW c \in calls, ReviewAnswered(c)
  PROVE  NewsAwaited'
  <1>1. NewsFields /\ c.op = "review" /\ c.then \notin {"told", "close"}
    BY DEF DashboardInv, NewsPage, NewsAwaited, ReviewAnswered
  <1>2. CASE c.reply = "ok"
    <2>1. PICK d : d = Read(c.id, "mine", "close")
      OBVIOUS
    <2>2. d.op = "mine" /\ d.then = "close"
      BY <2>1 DEF Read
    <2>3. calls' = (calls \ {c}) \cup {d} /\ ui' = [ui EXCEPT !.reading = TRUE]
      BY <1>2, <2>1 DEF ReviewAnswered, Change
    <2>4. ui'.refreshing = ui.refreshing /\ ui'.sending = ui.sending
      BY <1>1, <2>3 DEF NewsFields
    <2>5. \A e \in calls \ calls' : e = c
      BY <2>3
    <2> QED BY <1>1, <2>2, <2>3, <2>4, <2>5, NewsWaitOn
  <1>3. CASE c.reply # "ok"
    <2>1. calls' = calls \ {c} /\ ui' = [ui EXCEPT !.sending = FALSE]
      BY <1>3 DEF ReviewAnswered, End
    <2>2. /\ ui'.refreshing = ui.refreshing /\ ui'.sending = FALSE
          /\ ui'.reading = ui.reading
      BY <1>1, <2>1 DEF NewsFields
    <2> QED BY <1>1, <2>1, <2>2, NewsWaitOn
  <1> QED BY <1>2, <1>3

LEMMA ReadFailsWaits ==
  ASSUME NewsAwaited, NEW c \in calls, ReadFails(c)
  PROVE  NewsAwaited'
  <1>1. calls' = calls \ {c} /\ UNCHANGED ui /\ c.op = "orders"
        /\ c.then \notin {"told", "close"}
    BY DEF ReadFails, End, NewsAwaited
  <1>2. \A e \in calls \ calls' : e = c
    BY <1>1
  <1> QED BY <1>1, <1>2, NewsWaitOn

LEMMA OrdersSummaryWaits ==
  ASSUME DashboardInv, NewsAwaited, NEW c \in calls, OrdersSummary(c)
  PROVE  NewsAwaited'
  <1>1. NewsFields /\ c.op = "orders" /\ c.then \notin {"told", "close"}
    BY DEF DashboardInv, NewsPage, NewsAwaited, OrdersSummary
  <1>2. PICK u : u = [ui EXCEPT !.orders = c.orders]
    OBVIOUS
  <1>3. /\ DOMAIN u = DOMAIN ui /\ u.refreshing = ui.refreshing /\ u.sending = ui.sending
        /\ u.reading = ui.reading
    BY <1>1, <1>2 DEF NewsFields
  <1>4. PICK news : news = Latest(c.orders)
    OBVIOUS
  <1>5. CASE ui' = u /\ End(c)
    <2>1. calls' = calls \ {c}
      BY <1>5 DEF End
    <2>2. \A e \in calls \ calls' : e = c
      BY <2>1
    <2> QED BY <1>1, <1>3, <1>5, <2>1, <2>2, NewsWaitOn
  <1>6. CASE ~(c.orders = {} \/ ui.refreshing \/ news \leq LastSeen)
    <2>1. PICK d : d = Read(c.id, "mine", "told")
      OBVIOUS
    <2>2. d.op = "mine" /\ d.then = "told"
      BY <2>1 DEF Read
    <2>3. /\ ui' = [u EXCEPT !.refreshing = TRUE, !.seen = news, !.prompt = news,
                             !.reading = TRUE, !.form = @ /\ ui.prompt = news]
          /\ calls' = (calls \ {c}) \cup {d}
      BY <1>2, <1>4, <1>6, <2>1 DEF OrdersSummary, Change
    <2>4. ui'.sending = ui.sending
      BY <1>1, <1>3, <2>3 DEF NewsFields
    <2>5. \A e \in calls \ calls' : e = c
      BY <2>3
    <2> QED BY <1>1, <2>2, <2>3, <2>4, <2>5, NewsWaitOn
  <1> QED BY <1>2, <1>4, <1>5, <1>6 DEF OrdersSummary

LEMMA MyReviewReadWaits ==
  ASSUME DashboardInv, NewsAwaited, NEW c \in calls, MyReviewRead(c)
  PROVE  NewsAwaited'
  <1>1. NewsFields /\ c.op = "mine"
    BY DEF DashboardInv, NewsPage, MyReviewRead
  <1>2. PICK u : u = [ui EXCEPT !.reading = FALSE,
                         !.has = IF c.reply = "ok" THEN c.has ELSE @,
                         !.eligible = IF c.reply = "ok" THEN c.orders # {} ELSE @,
                         !.refreshing = @ /\ c.then # "told"]
    OBVIOUS
  <1>3. PICK v : v = IF c.then # "close" THEN u
                     ELSE [u EXCEPT !.sending = FALSE, !.open = FALSE, !.form = FALSE,
                                    !.prompt = 0]
    OBVIOUS
  <1>4. ui' = Settled(v) /\ calls' = calls \ {c}
    BY <1>2, <1>3 DEF MyReviewRead, End
  <1>5. /\ DOMAIN u = DOMAIN ui /\ u.reading = FALSE /\ u.sending = ui.sending
        /\ u.refreshing = (ui.refreshing /\ c.then # "told")
    BY <1>1, <1>2 DEF NewsFields
  <1>6. /\ DOMAIN v = DOMAIN ui /\ v.reading = FALSE /\ v.refreshing = u.refreshing
        /\ v.sending = IF c.then # "close" THEN u.sending ELSE FALSE
    BY <1>1, <1>3, <1>5 DEF NewsFields
  <1>7. /\ ui'.reading = FALSE /\ ui'.refreshing = v.refreshing /\ ui'.sending = v.sending
    BY <1>1, <1>4, <1>6 DEF Settled, NewsFields
  <1>8. /\ ui'.refreshing => ui.refreshing /\ c.then # "told"
        /\ ui'.sending => ui.sending /\ c.then # "close"
    BY <1>5, <1>6, <1>7
  <1>9. \A e \in calls \ calls' : e = c
    BY <1>4
  <1> QED BY <1>1, <1>4, <1>7, <1>8, <1>9, NewsWaitOn

LEMMA DashboardNextWaits == DashboardInv /\ NewsAwaited /\ DashboardNext => NewsAwaited'
  <1> SUFFICES ASSUME DashboardInv, NewsAwaited, DashboardNext
               PROVE  NewsAwaited'
    OBVIOUS
  <1>1. CASE Reloaded
    <2>1. ui' = FreshPage /\ calls' = FirstReads
      BY <1>1 DEF Reloaded
    <2> QED BY <2>1, FreshReadsWait DEF NewsAwaited, DashboardWaits
  <1>2. CASE \E c \in calls : \/ ReviewAnswered(c) \/ ReadFails(c)
                             \/ OrdersSummary(c) \/ MyReviewRead(c)
    BY <1>2, ReviewAnsweredWaits, ReadFailsWaits, OrdersSummaryWaits, MyReviewReadWaits
  <1> QED BY <1>1, <1>2, PromptWaits, ReadsBeginWaits DEF DashboardNext

LEMMA WaitsInit == FrontendInit => WaitsInv
  <1> SUFFICES ASSUME FrontendInit
               PROVE  WaitsInv
    OBVIOUS
  <1>1. OpenCheckout \/ OpenPage
    BY DEF FrontendInit
  <1>2. /\ page = "wallet" => WalletInit
        /\ page = "feedback" => ReviewsInit
        /\ page = "dashboard" => DashboardInit
    BY <1>1 DEF OpenCheckout, OpenPage, ProgressInit, OrdersViewInit, WalletInit, ReviewsInit,
                DashboardInit, AdminOrdersInit, AdminPaymentsInit, AdminUsersInit,
                AdminCouponsInit, AdminPlansInit, AdminSystemInit, AdminListsInit, AdminListPage
  <1> QED BY <1>2, WalletInitWaits, ReviewsInitWait, DashboardInitWaits DEF WaitsInv

LEMMA WaitsNext ==
  PagesInv /\ WaitsInv /\ [FrontendNext]_<<vars, browser>> => WaitsInv'
  <1> SUFFICES ASSUME PagesInv, WaitsInv, [FrontendNext]_<<vars, browser>>
               PROVE  WaitsInv'
    OBVIOUS
  <1>1. page' \in {page, "blank"}
    BY PageStays
  <1>2. CASE UNCHANGED <<ui, calls, db>>
    <2>1. WalletWaits => WalletWaits'
      BY <1>2 DEF WalletWaits
    <2>2. ReviewsAwaited => ReviewsAwaited'
      BY <1>2 DEF ReviewsAwaited, ReviewsWaits
    <2>3. NewsAwaited => NewsAwaited'
      BY <1>2 DEF NewsAwaited, DashboardWaits
    <2> QED BY <1>1, <2>1, <2>2, <2>3 DEF WaitsInv
  <1>3. CASE ~UNCHANGED <<ui, calls, db>>
    BY <1>1, <1>3, OwnSteps, WalletNextWaits, ReviewsNextWaits, DashboardNextWaits
    DEF PagesInv, WaitsInv
  <1> QED BY <1>2, <1>3

THEOREM WaitsHold == FrontendSpec => []WaitsInv
  BY WaitsInit, WaitsNext, PagesHold, PTL DEF FrontendSpec

(* No page is left with a spinner, a disabled button or a held-back poll that
   nothing will end, whichever way the handlers that set them return and however
   many of them are under way: each flag of DialogPage's lists, of the
   wallet, of the reviews and of the dashboard has a call that takes it back. *)
THEOREM WaitsForCalls == FrontendSpec => []WaitsForSomething
  <1>1. DialogsInv /\ WaitsInv => WaitsForSomething
    <2>1. StatsWait /\ "spinner" \in StatsModal => \E c \in calls : c.op = "stats"
      BY DEF StatsWait, StatsModal
    <2> QED BY <2>1 DEF DialogsInv, DialogInv, WaitsInv, WaitsForSomething, DialogPages,
                        ReviewsAwaited, NewsAwaited
  <1> QED BY <1>1, DialogsHold, WaitsHold, PTL
=============================================================================
