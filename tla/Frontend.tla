------------------------------ MODULE Frontend ------------------------------
(***************************************************************************)
(* The web front end: the page that is shown, and the shop behind it.      *)
(* Every page is a component that is mounted with its own state and its    *)
(* own first reads; leaving it unmounts it and its answers go nowhere, so  *)
(* a behaviour is about one page.  The purchase ("checkout") has its own   *)
(* variables, the other pages share those of Browser.                      *)
(***************************************************************************)
EXTENDS Checkout, OrderProgress, OrdersView, Wallet, Reviews, Dashboard,
        AdminOrders, AdminPayments, AdminUsers, AdminCoupons, AdminPlans, AdminSystem, AdminLists

OpenPage ==
  \/ ProgressInit \/ OrdersViewInit \/ WalletInit \/ ReviewsInit \/ DashboardInit
  \/ AdminOrdersInit \/ AdminPaymentsInit \/ AdminUsersInit
  \/ AdminCouponsInit \/ AdminPlansInit \/ AdminSystemInit \/ AdminListsInit

OpenCheckout ==
  /\ page = "checkout"
  /\ ui = NotShown /\ calls = {} /\ db = [errand |-> "buy"]

FrontendInit ==
  /\ Init
  /\ OpenCheckout \/ (OpenPage /\ limit = CHOOSE l \in Limits : TRUE)

PageNext ==
  \/ page = "progress" /\ ProgressNext
  \/ page = "orders" /\ OrdersViewNext
  \/ page = "wallet" /\ WalletNext
  \/ page = "feedback" /\ ReviewsNext
  \/ page = "dashboard" /\ DashboardNext
  \/ page = "admin orders" /\ AdminOrdersNext
  \/ page = "admin payments" /\ AdminPaymentsNext
  \/ page = "admin users" /\ AdminUsersNext
  \/ page = "admin coupons" /\ AdminCouponsNext
  \/ page = "admin plans" /\ AdminPlansNext
  \/ page = "admin system" /\ AdminSystemNext
  \/ page \in AdminListPage /\ AdminListsNext

FrontendNext ==
  \/ page = "checkout" /\ Next /\ UNCHANGED browser
  \/ PageNext /\ UNCHANGED vars

FrontendSpec == FrontendInit /\ [][FrontendNext]_<<vars, browser>>

-----------------------------------------------------------------------------
(* The pages that are a list with dialogs. *)
DialogPages ==
  {"orders", "admin orders", "admin payments", "admin users", "admin coupons", "admin plans",
   "admin system"} \cup AdminListPage

(* Types of every page's state. *)
FrontendTypeOK ==
  /\ page = "checkout" => TypeOK
  /\ page = "progress" => ProgressTypeOK
  /\ page = "orders" => OrdersViewTypeOK
  /\ page = "wallet" => WalletTypeOK
  /\ page = "feedback" => ReviewsTypeOK
  /\ page = "dashboard" => DashboardTypeOK
  /\ page = "admin orders" => AdminOrdersTypeOK
  /\ page = "admin payments" => AdminPaymentsTypeOK
  /\ page = "admin users" => AdminUsersTypeOK
  /\ page = "admin coupons" => AdminCouponsTypeOK
  /\ page = "admin plans" => AdminPlansTypeOK
  /\ page = "admin system" => AdminSystemTypeOK
  /\ page \in AdminListPage => AdminListsTypeOK

(* No page is left with a spinner, a disabled button or a held-back poll that
   nothing will end: each waits for a call of its own. *)
WaitsForSomething ==
  /\ page \in DialogPages => DialogWaits
  /\ page = "admin coupons" /\ "spinner" \in StatsModal => \E c \in calls : c.op = "stats"
  /\ page = "wallet" => WalletWaits
  /\ page = "feedback" => ReviewsWaits
  /\ page = "dashboard" => DashboardWaits

(* What is submitted in a dialog was entered for its item, however dialogs and
   late answers follow each other; and the form of a plan stays one the shop
   accepts.  The one exception is the note of a reconciliation, which is typed
   in the details of an order: ReconciliationNoted. *)
SubmitsOwnInput ==
  /\ page \in DialogPages => DialogOwnInput
  /\ page = "admin plans" => PlanFormConsistent

(* What the customer is told is of the right order, and happened: the headline
   of a provider's order is a state of that order, the details of an order
   offer its file only when it is completed; a completed order is announced
   once, and thanks are said for money that was credited.  The headline of an
   order of the legacy queue is the exception: QueueHeadlineTrue. *)
PagesTellTruth ==
  /\ page = "progress" => ProviderHeadlineTrue
  /\ page = "orders" => DetailsTrue
  /\ page = "dashboard" => AnnouncedOnce
  /\ page = "wallet" => ThankedWhenCredited

(* A wish to buy or to top up is one purchase, though it is sent again. *)
OnePurchasePerWish ==
  /\ page = "checkout" => KeyPerPurchase
  /\ page = "wallet" => OneTopupPerWish

(* The images a review names are there, whichever handler died where. *)
ReviewHasItsImages == page = "feedback" => ImagesHaveFiles
=============================================================================
