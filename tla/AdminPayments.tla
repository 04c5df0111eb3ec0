---------------------------- MODULE AdminPayments ----------------------------
(***************************************************************************)
(* The transfers of the administrator's panel, AdminPayments.tsx: the list *)
(* and the two dialogs that confirm or reject a transfer that is not paid. *)
(* A row may be old when its dialog is opened; the shop decides by what    *)
(* the payment is when the request arrives (Payments says how).            *)
(***************************************************************************)
EXTENDS DialogPage

PaymentState == {"pending", "expired", "paid", "cancelled"}
Undecided == {"pending", "expired"}   \* underpaid and review_needed are as pending

AdminPaymentsInit ==
  /\ page = "admin payments"
  /\ \E errand \in {"list", "decide"} :
       db = [is |-> [i \in Items |-> "pending"], others |-> 0, errand |-> errand]
  /\ ui = DialogList
  /\ calls = {CallNo(1, "load", NoList)}

-----------------------------------------------------------------------------
(* The list *)

PaymentSearch(f) == ~Covered /\ (SearchFor(f) \/ SearchSubmit)
PaymentFilters(f) == ~Covered /\ FilterBy(f)
RefreshPayments == ~Covered /\ ~ui.loading /\ Loading(ui, "") /\ UNCHANGED <<page, db>>
PaymentPagination == ~Covered /\ \E to \in {ui.at - 1, ui.at + 1} : PageChanged(to)
LoadPayments(c) == Loaded(c)

PaymentsTable == IF ui.loading THEN {} ELSE Table
Decidable == {row \in PaymentsTable : row.is \in Undecided}

-----------------------------------------------------------------------------
(* Confirming: the reason is typed, at least five letters, and perhaps the
   bank's number; rejecting: nothing is typed, the dialog has no field. *)

AskConfirm(row) == row \in Decidable /\ Open("confirm", row.id, {}, "")
AskReject(row) == row \in Decidable /\ Open("reject", row.id, {}, "")

ConfirmModal == In({"confirm"}) /\ Enter("")

HandleConfirmAction == In({"confirm"}) /\ ui.entered # {} /\ Submit("confirm")
HandleRejectAction == In({"reject"}) /\ Submit("reject")

(* Only a paid transfer is neither confirmed again nor rejected. *)
PaymentConfirmed(c) == c.op = "confirm" /\ db.is[c.target] \in Undecided /\ Executed(c, "paid")
PaymentRejected(c) == c.op = "reject" /\ db.is[c.target] # "paid" /\ Executed(c, "cancelled")

(* Success also clears what is typed by then. *)
ConfirmDone(c) ==
  /\ c.op = "confirm"
  /\ ThenLoad(c, Closing({"confirm"}, [Free("confirm") EXCEPT !.entered = {}]))

RejectDone(c) == c.op = "reject" /\ ThenLoad(c, Closing({"reject"}, Free("reject")))

AdminPaymentsNext ==
  \/ For("list") /\ \E f \in {"", "pending"} : PaymentSearch(f) \/ PaymentFilters(f)
  \/ For("list") /\ (RefreshPayments \/ PaymentPagination)
  \/ LiveRefresh \/ Dismiss \/ ConfirmModal \/ HandleConfirmAction \/ HandleRejectAction
  \/ \E row \in ui.rows : For("decide") /\ (AskConfirm(row) \/ AskReject(row))
  \/ \E c \in calls :
       \/ ReadRows(c) \/ LoadPayments(c)
       \/ PaymentConfirmed(c) \/ PaymentRejected(c) \/ ConfirmDone(c) \/ RejectDone(c)
       \/ c.op \in {"confirm", "reject"} /\ Failed(c)
  \/ \E i \in Items : \E to \in {"expired", "paid"} :
       db.is[i] \in Undecided \ {to} /\ OthersChange(i, to)

-----------------------------------------------------------------------------
(* Types of the page's state. *)
AdminPaymentsTypeOK ==
  /\ DialogTypeOK
  /\ db.is \in [Items -> PaymentState]
  /\ \A row \in ui.rows : row.is \in PaymentState
=============================================================================
