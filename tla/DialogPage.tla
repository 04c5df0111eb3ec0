------------------------------ MODULE DialogPage ------------------------------
(***************************************************************************)
(* What the lists with dialogs share.  A dialog names an item (0 is a new  *)
(* one) and holds what was entered; a handler that submits it sets a flag  *)
(* and awaits the shop.  Most dialogs can be closed while the handler is   *)
(* under way, and the answer then finds another dialog, or none.           *)
(*                                                                         *)
(* Beside what is entered goes the item it was entered for, or whose row   *)
(* filled the form; the code keeps the text alone.                         *)
(***************************************************************************)
EXTENDS ListPage

NoDialog == [kind |-> "none", id |-> 0]

(* The state of such a page; busy holds the flags of handlers under way. *)
DialogList ==
  [filter |-> "", at |-> 1, of |-> 1, rows |-> {}, loading |-> TRUE, dialog |-> NoDialog,
   entered |-> {}, value |-> "", busy |-> {}]

Covered == ui.dialog # NoDialog
In(kinds) == ui.dialog.kind \in kinds

Table == IF Covered THEN {} ELSE ui.rows

(* Mutant: what was entered in the last dialog stays in the next. *)
OpenAsLeft(kind, id, entered, value) ==
  /\ ~Covered
  /\ ui' = [ui EXCEPT !.dialog = [kind |-> kind, id |-> id],
                      !.entered = @ \cup entered, !.value = value]
  /\ UNCHANGED <<page, calls, db>>

(* A dialog opens with what its handler puts into it. *)
Open(kind, id, entered, value) ==
  /\ ~Covered
  /\ ui' = [ui EXCEPT !.dialog = [kind |-> kind, id |-> id], !.entered = entered,
                      !.value = value]
  /\ UNCHANGED <<page, calls, db>>

Enter(value) ==
  /\ ui' = [ui EXCEPT !.entered = @ \cup {ui.dialog.id}, !.value = value]
  /\ UNCHANGED <<page, calls, db>>

(* What was entered stays behind. *)
Dismiss ==
  /\ Covered
  /\ ui' = [ui EXCEPT !.dialog = NoDialog]
  /\ UNCHANGED <<page, calls, db>>

Submit(op) ==
  /\ op \notin ui.busy
  /\ Begin([Call(op, ui) EXCEPT !.kind = ui.dialog.kind, !.target = ui.dialog.id,
                                !.value = ui.value, !.entered = ui.entered])
  /\ ui' = [ui EXCEPT !.busy = @ \cup {op}]
  /\ UNCHANGED <<page, db>>

(* The shop does what was asked for, or not; the answer may be lost. *)
Executed(c, to) ==
  /\ c.reply = "none"
  /\ db' = [db EXCEPT !.is[c.target] = to]
  /\ Change(c, [c EXCEPT !.reply = "ok"])
  /\ UNCHANGED <<page, ui>>

Free(op) == [ui EXCEPT !.busy = @ \ {op}]
Closing(kinds, u) == IF In(kinds) THEN [u EXCEPT !.dialog = NoDialog] ELSE u

(* Mutant: the flag is taken back only after success. *)
FailedStillBusy(c) == End(c) /\ UNCHANGED <<page, ui, db>>

(* A refusal, or no answer, is shown in the dialog or above the list. *)
Failed(c) ==
  /\ End(c)
  /\ ui' = Free(c.op)
  /\ UNCHANGED <<page, db>>

(* After success the handler loads the list again, with the filter and the
   page number it was called with. *)
ThenLoad(c, u) ==
  /\ c.reply = "ok"
  /\ Change(c, [Load(ui, FALSE, "") EXCEPT !.id = c.id, !.filter = c.filter, !.at = c.at])
  /\ ui' = [u EXCEPT !.loading = TRUE]
  /\ UNCHANGED <<page, db>>

(* The same, and the handler ends only after the load. *)
AwaitLoad(c, u) ==
  /\ c.reply = "ok"
  /\ Change(c, [Load(ui, FALSE, c.op) EXCEPT !.id = c.id, !.filter = c.filter, !.at = c.at])
  /\ ui' = [u EXCEPT !.loading = TRUE]
  /\ UNCHANGED <<page, db>>

Loaded(c) == ShowRows(c, [ui EXCEPT !.loading = @ /\ c.silent, !.busy = @ \ {c.then}])

-----------------------------------------------------------------------------
(* Types common to these pages.  An old answer may leave the page number past
   the end, but never past the most pages there can be. *)
DialogTypeOK ==
  /\ {ui.at, ui.of} \subseteq {1} \cup (1 .. Cardinality(Items))
  /\ \A row \in ui.rows : row.id \in Items
  /\ ui.dialog.id \in Items \cup {0} /\ ui.entered \subseteq Items \cup {0}

(* What waits, waits for a call: no spinner and no disabled button is left
   behind when the handler that set it has returned, whichever way. *)
DialogWaits ==
  /\ ui.loading => \E c \in calls : c.op = "load" /\ ~c.silent
  /\ \A flag \in ui.busy : \E c \in calls : flag \in {c.op, c.then}

(* What is submitted for an item was entered for that item, or read from its
   own row: of everything but the note of a reconciliation, which is not in a
   dialog of its own (AdminOrders, ReconciliationNoted). *)
DialogOwnInput == \A c \in calls : c.op # "reconcile" => c.entered \subseteq {c.target}
=============================================================================
