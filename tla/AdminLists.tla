----------------------------- MODULE AdminLists -----------------------------
(***************************************************************************)
(* Four smaller pages of the administrator's panel, one of which is shown: *)
(* the reviews (AdminReviews.tsx), the verified creators                   *)
(* (AdminCreators.tsx), the log of what administrators did                 *)
(* (AdminAuditLogs.tsx) and the figures (AdminOverview.tsx), whose range   *)
(* is the filter.                                                          *)
(*                                                                         *)
(* A creator's handlers, unlike the others, end only after the list was    *)
(* loaded again; until then their buttons stay disabled, in whatever form  *)
(* is open by then.                                                        *)
(***************************************************************************)
EXTENDS DialogPage

AdminListPage == {"admin reviews", "admin creators", "admin log", "admin overview"}
On(pages) == page \in pages

AdminListsInit ==
  /\ page \in AdminListPage
  /\ \E errand \in {"list", "delete", "save"} :
       db = [is |-> [i \in Items |-> IF i = 1 THEN "shown" ELSE "absent"],
             others |-> 0, errand |-> errand]
  /\ ui = DialogList
  /\ calls = {CallNo(1, "load", NoList)}

-----------------------------------------------------------------------------
(* Looking *)

RowsOn(there) == IF page = there /\ ~ui.loading THEN Table ELSE {}
ReviewCards == RowsOn("admin reviews")
CreatorCards == RowsOn("admin creators")
AuditTable == RowsOn("admin log")

AdminReviewsHeader == On({"admin reviews"}) /\ ~ui.loading
AuditHeader == On({"admin log"}) /\ ~ui.loading
OverviewHeader == On({"admin overview"}) /\ ~ui.loading
CreatorsHeader == On({"admin creators"})    \* the button, and the event "admin-refresh"

RefreshList ==
  /\ ~Covered \/ On({"admin creators"})
  /\ AdminReviewsHeader \/ AuditHeader \/ OverviewHeader \/ (CreatorsHeader /\ For("list"))
  /\ Loading(ui, "")
  /\ UNCHANGED <<page, db>>

(* The creators' search, the log's filters and the range of the figures. *)
CreatorSearch(f) == On({"admin creators"}) /\ FilterBy(f)
AuditFilters(f) == On({"admin log"}) /\ FilterBy(f)
OverviewRange(f) == On({"admin overview"}) /\ FilterBy(f)

QuietRefresh == On({"admin reviews", "admin overview"}) /\ LiveRefresh

ReviewPages(to) == On({"admin reviews"}) /\ PageChanged(to)
AuditPages(to) == On({"admin log"}) /\ PageChanged(to)
CreatorPages(to) ==
  /\ On({"admin creators"}) /\ to \in 1 .. ui.of
  /\ Refilter([ui EXCEPT !.at = to])
  /\ UNCHANGED <<page, db>>

ZoomImage(row) == row \in ReviewCards /\ Open("zoom", row.id, {}, "")
LogDetail(row) == row \in AuditTable /\ Open("detail", row.id, {}, "")

-----------------------------------------------------------------------------
(* Changing *)

(* Every form is filled anew when it opens: a closed one is as good as empty. *)
Gone(u) == [u EXCEPT !.dialog = NoDialog, !.entered = {}, !.value = ""]
Closed(kinds, u) == IF In(kinds) THEN Gone(u) ELSE u

AskDeleteReview(row) == row \in ReviewCards /\ Open("delete", row.id, {}, "")
AskDeleteCreator(row) == row \in CreatorCards /\ Open("delete", row.id, {}, "")

(* resetForm: empty for a new creator, from the row for a known one. *)
ResetForm(row) ==
  /\ On({"admin creators"})
  /\ \/ row \in CreatorCards /\ Open("form", row.id, {row.id}, row.is)
     \/ row.id = 0 /\ Open("form", 0, {}, "shown")

CreatorFields(value) == In({"form"}) /\ ui.entered = {} /\ Enter(value)

HandleDeleteConfirm == In({"delete"}) /\ Submit("delete")
SaveCreator == In({"form"}) /\ ui.entered # {} /\ Submit("save")

(* The form cannot be closed while it is saved, or another one is. *)
CloseDialog ==
  /\ Covered /\ ~(In({"form"}) /\ "save" \in ui.busy)
  /\ ui' = Gone(ui)
  /\ UNCHANGED <<page, calls, db>>

RowDeleted(c) ==
  /\ c.op = "delete" /\ db.is[c.target] # "absent"
  /\ Executed(c, "absent")

CreatorSaved(c) ==
  /\ c.op = "save" /\ c.reply = "none"
  /\ \E i \in IF c.target = 0 THEN {j \in Items : db.is[j] = "absent"}
              ELSE {c.target} \ {j \in Items : db.is[j] = "absent"} :
       db' = [db EXCEPT !.is[i] = c.value]
  /\ Change(c, [c EXCEPT !.reply = "ok"])
  /\ UNCHANGED <<page, ui>>

ReviewDeleted(c) ==
  /\ On({"admin reviews"}) /\ c.op = "delete"
  /\ ThenLoad(c, Closed({"delete"}, Free("delete")))

CreatorDeleted(c) ==
  /\ On({"admin creators"}) /\ c.op = "delete"
  /\ AwaitLoad(c, Closed({"delete"}, ui))

(* The page goes back to the first, which the effect loads; the handler itself
   loads the page it was called on. *)
CreatorAnswered(c) ==
  /\ c.op = "save" /\ c.reply = "ok"
  /\ LET u == [Closed({"form"}, ui) EXCEPT !.at = 1, !.loading = TRUE]
         own == [Load(u, FALSE, "save") EXCEPT !.id = c.id, !.filter = c.filter, !.at = c.at]
     IN  /\ ui' = u
         /\ IF ui.at = 1 THEN Change(c, own)
            ELSE /\ Room
                 /\ calls' = (calls \ {c}) \cup {own, Load(u, FALSE, "")}
  /\ UNCHANGED <<page, db>>

AdminListsNext ==
  \/ For("list") /\ \/ RefreshList
                    \/ \E f \in {"", "shown"} :
                         CreatorSearch(f) \/ AuditFilters(f) \/ OverviewRange(f)
                    \/ \E to \in {ui.at - 1, ui.at + 1} :
                         ReviewPages(to) \/ AuditPages(to) \/ CreatorPages(to)
                    \/ \E row \in ui.rows : ZoomImage(row) \/ LogDetail(row)
  \/ QuietRefresh \/ CloseDialog \/ HandleDeleteConfirm \/ SaveCreator
  \/ \E value \in {"shown", "hidden"} : CreatorFields(value)
  \/ For("delete") /\ \E row \in ui.rows : AskDeleteReview(row) \/ AskDeleteCreator(row)
  \/ For("save") /\ \/ \E row \in ui.rows \cup {[id |-> 0, is |-> "new"]} : ResetForm(row)
                    \/ ~Covered /\ \E to \in 1 .. ui.of : CreatorPages(to)
  \/ \E c \in calls :
       \/ ReadRows(c) \/ Loaded(c)
       \/ RowDeleted(c) \/ CreatorSaved(c)
       \/ ReviewDeleted(c) \/ CreatorDeleted(c) \/ CreatorAnswered(c)
       \/ c.op \in {"delete", "save"} /\ Failed(c)
  \/ \E i \in Items : \E to \in {"shown", "absent"} :
       /\ db.is[i] # to /\ (On({"admin log"}) => db.is[i] = "absent")
       /\ OthersChange(i, to)

-----------------------------------------------------------------------------
(* Types of the pages' state. *)
AdminListsTypeOK ==
  /\ DialogTypeOK
  /\ db.is \in [Items -> {"shown", "hidden", "absent"}]
  /\ \A row \in ui.rows : row.is \in {"shown", "hidden"}
=============================================================================
