------------------------------ MODULE AdminOrders ------------------------------
(***************************************************************************)
(* The administrator's order page, AdminOrders.tsx: the list, the details  *)
(* of one order with the provider's job, and the dialog that starts,       *)
(* completes, cancels or refunds an order.  The dialog stays open until    *)
(* the shop has answered; what is entered in it is entered for its order.  *)
(*                                                                         *)
(* The page means to reload the list after a conflict with another         *)
(* administrator, but looks for the error code in the message, where the   *)
(* shop puts a sentence: a conflict is shown like any other refusal.       *)
(***************************************************************************)
EXTENDS DialogPage

CONSTANTS
  ManualOrders,    \* orders an administrator fulfils
  TransferOrders,  \* orders paid by bank transfer
  ProviderOrders   \* orders of the provider

AdminOrderStatus == {"paid", "processing", "failed", "completed", "cancelled", "refunded"}
ActionType == {"start", "complete", "cancel", "refund"}

AdminOrdersInit ==
  /\ page = "admin orders"
  /\ \E errand \in {"list", "action", "job", "banner"} :
       db = [is |-> [i \in Items |-> IF i \in ManualOrders THEN "paid" ELSE "failed"],
             others |-> 0, paused |-> errand = "banner", errand |-> errand]
  /\ ui = [filter |-> "", at |-> 1, of |-> 1, rows |-> {}, loading |-> TRUE,
           dialog |-> NoDialog, entered |-> {}, value |-> "", busy |-> {},
           detail |-> 0, paused |-> FALSE, reason |-> 0, external |-> 0, note |-> 0]
  /\ calls = {CallNo(1, "load", NoList), CallNo(2, "paused", NoList)}

-----------------------------------------------------------------------------
(* What is offered *)

Fits(kind, row) ==
  CASE kind = "start"    -> row.id \in ManualOrders /\ row.is = "paid"
    [] kind = "complete" -> row.id \in ManualOrders /\ row.is = "processing"
    [] kind = "cancel"   -> row.id \in ManualOrders /\ row.is \in {"paid", "processing"}
    [] kind = "refund"   -> row.is \in {"paid", "processing", "failed", "cancelled"}

OrdersTable == IF ui.loading THEN {} ELSE ui.rows

(* A dialog or the details in front cover the rest of the page. *)
Uncovered == ui.dialog = NoDialog /\ ui.detail = 0

ReasonNeeded == ui.dialog.kind \in {"cancel", "refund"}
TransferNeeded == ui.dialog.kind = "refund" /\ ui.dialog.id \in TransferOrders

ActionComplete ==
  /\ "act" \notin ui.busy
  /\ ReasonNeeded => ui.reason # 0
  /\ TransferNeeded => ui.external # 0

ActionDialog ==
  IF ui.dialog = NoDialog THEN {}
  ELSE (IF "act" \in ui.busy THEN {} ELSE {"close"})
       \cup (IF ReasonNeeded THEN {"reason"} ELSE {})
       \cup (IF TransferNeeded THEN {"external"} ELSE {})
       \cup (IF ActionComplete THEN {"submit"} ELSE {})

ProviderPane ==
  IF ui.detail \notin ProviderOrders THEN {}
  ELSE {"note"} \cup IF "provider" \in ui.busy THEN {} ELSE {"retry", "reconcile"}

DetailDialog == IF ui.detail = 0 THEN {} ELSE {"close"} \cup ProviderPane

-----------------------------------------------------------------------------
(* The list *)

SelectFilter(f) == Uncovered /\ FilterBy(f)
TypeSearch(f) == Uncovered /\ SearchFor(f)
HandleSearchSubmit == Uncovered /\ SearchSubmit

ReloadOrders ==
  /\ Uncovered /\ ~ui.loading
  /\ Loading(ui, "")
  /\ UNCHANGED <<page, db>>

TurnPage == Uncovered /\ \E to \in {ui.at - 1, ui.at + 1} : PageChanged(to)

LoadOrders(c) == Loaded(c)

-----------------------------------------------------------------------------
(* The banner of the paused provider *)

LoadProviderStatus(c) ==
  /\ c.op = "paused"
  /\ End(c)
  /\ ui' = [ui EXCEPT !.paused = db.paused,
                      !.busy = @ \ {c.then}]
  /\ UNCHANGED <<page, db>>

ProviderStatusUnknown(c) ==
  /\ c.op = "paused"
  /\ End(c)
  /\ ui' = [ui EXCEPT !.busy = @ \ {c.then}]
  /\ UNCHANGED <<page, db>>

HandleResumeProvider ==
  /\ Uncovered /\ ui.paused /\ "resume" \notin ui.busy
  /\ Begin(Call("resume", ui))
  /\ ui' = [ui EXCEPT !.busy = @ \cup {"resume"}]
  /\ UNCHANGED <<page, db>>

ProviderResumed(c) ==
  /\ c.op = "resume"
  /\ \/ /\ db' = [db EXCEPT !.paused = FALSE]
        /\ Change(c, [Call("paused", ui) EXCEPT !.id = c.id, !.then = "resume"])
        /\ UNCHANGED ui
     \/ /\ db' \in {db, [db EXCEPT !.paused = FALSE]}    \* no answer
        /\ End(c)
        /\ ui' = Free("resume")
  /\ UNCHANGED page

-----------------------------------------------------------------------------
(* The details, and the provider's job *)

ShowDetail(row) ==
  /\ Uncovered /\ row \in OrdersTable
  /\ ui' = [ui EXCEPT !.detail = row.id]
  /\ UNCHANGED <<page, calls, db>>

(* The note stays in its field. *)
CloseDetail ==
  /\ "close" \in DetailDialog
  /\ ui' = [ui EXCEPT !.detail = 0]
  /\ UNCHANGED <<page, calls, db>>

TypeNote ==
  /\ "note" \in DetailDialog
  /\ ui' = [ui EXCEPT !.note = ui.detail]
  /\ UNCHANGED <<page, calls, db>>

HandleProviderRetry ==
  /\ "retry" \in DetailDialog
  /\ Begin([Call("retry", ui) EXCEPT !.target = ui.detail, !.then = "provider"])
  /\ ui' = [ui EXCEPT !.busy = @ \cup {"provider"}]
  /\ UNCHANGED <<page, db>>

HandleProviderReconcile ==
  /\ "reconcile" \in DetailDialog /\ ui.note # 0
  /\ Begin([Call("reconcile", ui) EXCEPT !.target = ui.detail, !.then = "provider",
                                          !.entered = {ui.note}])
  /\ ui' = [ui EXCEPT !.busy = @ \cup {"provider"}]
  /\ UNCHANGED <<page, db>>

ProviderActed(c) ==
  /\ c.op \in {"retry", "reconcile"}
  /\ \/ /\ Change(c, [Load(ui, TRUE, "provider") EXCEPT !.id = c.id,
                                                   !.filter = c.filter, !.at = c.at])
        /\ ui' = IF c.op = "reconcile" THEN [ui EXCEPT !.note = 0] ELSE ui
     \/ /\ End(c)
        /\ ui' = Free("provider")
  /\ UNCHANGED <<page, db>>

-----------------------------------------------------------------------------
(* The dialog.  What was typed and ticked is kept with the order it was
   entered for; the code keeps only the text. *)

OpenActionModal(row, kind) ==
  /\ Uncovered /\ row \in OrdersTable /\ Fits(kind, row)
  /\ ui' = [ui EXCEPT !.dialog = [kind |-> kind, id |-> row.id],
                      !.reason = 0, !.external = 0]
  /\ UNCHANGED <<page, calls, db>>

CloseActionModal ==
  /\ "close" \in ActionDialog
  /\ ui' = [Free("act") EXCEPT !.dialog = NoDialog]
  /\ UNCHANGED <<page, calls, db>>

TypeReason ==
  /\ "reason" \in ActionDialog
  /\ ui' = [ui EXCEPT !.reason = ui.dialog.id]
  /\ UNCHANGED <<page, calls, db>>

ConfirmTransfer ==
  /\ "external" \in ActionDialog
  /\ ui' = [ui EXCEPT !.external = ui.dialog.id]
  /\ UNCHANGED <<page, calls, db>>

HandleSubmitAction ==
  /\ "submit" \in ActionDialog
  /\ Begin([Call("act", ui) EXCEPT
              !.kind = ui.dialog.kind, !.target = ui.dialog.id,
              !.entered = (IF ReasonNeeded THEN {ui.reason} ELSE {})
                          \cup (IF TransferNeeded THEN {ui.external} ELSE {})])
  /\ ui' = [ui EXCEPT !.busy = @ \cup {"act"}]
  /\ UNCHANGED <<page, db>>

(* The shop's rules: the transitions of the two dialogs that move an order
   on, and what may still be cancelled or refunded. *)
After(kind) ==
  CASE kind = "start" -> "processing" [] kind = "complete" -> "completed"
    [] kind = "cancel" -> "cancelled" [] kind = "refund" -> "refunded"

Accepted(c) ==
  CASE c.kind = "start"    -> db.is[c.target] = "paid"
    [] c.kind = "complete" -> db.is[c.target] = "processing"
    [] c.kind = "cancel"   -> db.is[c.target] \notin {"completed", "refunded", "cancelled"}
    [] c.kind = "refund"   -> db.is[c.target] \in {"paid", "processing", "failed", "cancelled"}

ActionExecuted(c) ==
  /\ c.op = "act" /\ c.reply = "none"
  /\ IF Accepted(c)
     THEN /\ db' = [db EXCEPT !.is[c.target] = After(c.kind)]
          /\ Change(c, [c EXCEPT !.reply = "ok"])
     ELSE Change(c, [c EXCEPT !.reply = "conflict"]) /\ UNCHANGED db
  /\ UNCHANGED <<page, ui>>

(* Then the dialog closes and the list of that moment is loaded, with the
   filter the handler was called with; only after that does the handler end. *)
ActionDone(c) ==
  /\ c.op = "act" /\ c.reply = "ok"
  /\ Change(c, [Load(ui, FALSE, "act") EXCEPT !.id = c.id, !.filter = c.filter,
                                                 !.at = c.at])
  /\ ui' = [Free("act") EXCEPT !.dialog = NoDialog, !.loading = TRUE]
  /\ UNCHANGED <<page, db>>

(* A refusal, or no answer: the dialog stays with the reason. *)
ActionRefused(c) ==
  /\ c.op = "act" /\ c.reply \in {"conflict", "none"}
  /\ End(c)
  /\ ui' = Free("act")
  /\ UNCHANGED <<page, db>>

AdminOrdersNext ==
  \/ For("list") /\ (HandleSearchSubmit \/ \E f \in {"", "paid"} : SelectFilter(f) \/ TypeSearch(f))
  \/ ReloadOrders \/ TurnPage \/ LiveRefresh
  \/ \E c \in calls :
       \/ ReadRows(c) \/ LoadOrders(c) \/ LoadProviderStatus(c) \/ ProviderStatusUnknown(c)
       \/ ProviderResumed(c) \/ ProviderActed(c)
       \/ ActionExecuted(c) \/ ActionDone(c) \/ ActionRefused(c)
  \/ \E row \in ui.rows :
       \/ For("job") /\ ShowDetail(row)
       \/ For("action") /\ \E kind \in ActionType : OpenActionModal(row, kind)
  \/ HandleResumeProvider \/ CloseDetail \/ TypeNote
  \/ HandleProviderRetry \/ HandleProviderReconcile
  \/ CloseActionModal \/ TypeReason \/ ConfirmTransfer \/ HandleSubmitAction
  \/ \E i \in ManualOrders : \E kind \in ActionType :
       Fits(kind, [id |-> i, is |-> db.is[i]]) /\ OthersChange(i, After(kind))

-----------------------------------------------------------------------------
(* Types of the page's state. *)
AdminOrdersTypeOK ==
  /\ DialogTypeOK
  /\ \A row \in ui.rows : row.is \in AdminOrderStatus
  /\ ui.detail \in Items \cup {0}
  /\ {ui.reason, ui.external, ui.note} \subseteq Items \cup {0}
  /\ db.is \in [Items -> AdminOrderStatus]

(* A conclusion is recorded with a note typed for its order.  The form asks for
   one, AdminOrders.tsx:174: "Vui lòng nhập ghi chú đối soát (tối thiểu 5 ký
   tự)." (please enter a note), and the docstring at admin_api.py:2145 says:
   "Record a manual reconciliation conclusion for an unclear job."  But the note
   typed for an order stays in the field when its details are closed, and is
   submitted for the next one. *)
ReconciliationNoted ==
  page = "admin orders" =>
    \A c \in calls : c.op = "reconcile" => c.entered \subseteq {c.target}
=============================================================================
