------------------------------ MODULE AdminPlans ------------------------------
(***************************************************************************)
(* The plans of the administrator's panel, AdminPlans.tsx.  All plans are  *)
(* loaded and cut into pages in the browser.  The form couples fields: the *)
(* platforms with how each is served, the provider's package with the days *)
(* and months it is sold with; the shop checks the first and computes the  *)
(* second itself.                                                          *)
(***************************************************************************)
EXTENDS DialogPage

CONSTANT MaxEdits   \* bound: fields changed in the form of a plan

ASSUME AdminPlansAssumption == MaxEdits \in Nat

(* The modes that serve a platform ("auto_activation", "manual_contact",
   "apk_download") are one, the packages two, and the days theirs. *)
Served == {"served", "disabled"}
Category == {"1month", "yearly"}
DurationOf(category) == IF category = "1month" THEN 30 ELSE 365

PlanForm == [platforms : {"all", "ios", "android"}, ios : Served, android : Served,
             provider : {"legacy_locket", "lunakey"}, category : Category, days : {30, 365}]

EmptyPlanForm ==
  [platforms |-> "all", ios |-> "served", android |-> "served",
   provider |-> "legacy_locket", category |-> "1month", days |-> 30]

AdminPlansInit ==
  /\ page = "admin plans"
  /\ \E errand \in {"list", "form", "row"} :
       db = [is |-> [i \in Items |-> IF errand = "form" /\ i > 1 THEN "absent" ELSE "active"],
             plan |-> [i \in Items |-> EmptyPlanForm], others |-> 0, errand |-> errand]
  /\ ui = [filter |-> "", at |-> 1, of |-> 1, rows |-> {}, loading |-> TRUE,
           dialog |-> NoDialog, entered |-> {}, value |-> "", busy |-> {},
           form |-> EmptyPlanForm, edits |-> 0]
  /\ calls = {CallNo(1, "load", NoList)}

-----------------------------------------------------------------------------
(* The list.  A row carries its plan; the pages are cut from what was loaded,
   and the effect leaves a page past the end. *)

ReadPlans(c) ==
  /\ c.op = "load" /\ c.reply = "none"
  /\ Change(c, [c EXCEPT !.reply = "ok",
                         !.rows = {[id |-> i, is |-> db.is[i], plan |-> db.plan[i]] :
                                     i \in Matching("")}])
  /\ UNCHANGED <<page, ui, db>>

PlanPages(rows) == IF rows = {} THEN 1 ELSE Cardinality(rows)

LoadPlans(c) ==
  /\ c.op = "load"
  /\ End(c)
  /\ LET u == [ui EXCEPT !.loading = FALSE]
         of == PlanPages(c.rows)
     IN  ui' = IF c.reply = "none" THEN u
               ELSE [u EXCEPT !.rows = c.rows, !.of = of, !.at = IF @ > of THEN of ELSE @]
  /\ UNCHANGED <<page, db>>

VisiblePlans ==
  IF ui.loading \/ Covered THEN {}
  ELSE {row \in ui.rows : Cardinality({r \in ui.rows : r.id \leq row.id}) = ui.at}

PlanHeader == IF Covered THEN {} ELSE {"create"} \cup IF ui.loading THEN {} ELSE {"refresh"}

RefreshPlans == "refresh" \in PlanHeader /\ Loading(ui, "") /\ UNCHANGED <<page, db>>

PlanPagination ==
  /\ ~Covered
  /\ \E to \in {ui.at - 1, ui.at + 1} :
       to \in 1 .. ui.of /\ ui' = [ui EXCEPT !.at = to]
  /\ UNCHANGED <<page, calls, db>>

-----------------------------------------------------------------------------
(* The form *)

CreatePlan ==
  /\ "create" \in PlanHeader
  /\ ui' = [ui EXCEPT !.dialog = [kind |-> "create", id |-> 0], !.entered = {0},
                      !.form = EmptyPlanForm, !.value = "active"]
  /\ UNCHANGED <<page, calls, db>>

(* Without a package the row's form has the first. *)
EditPlan(row) ==
  /\ row \in VisiblePlans
  /\ ui' = [ui EXCEPT !.dialog = [kind |-> "edit", id |-> row.id], !.entered = {row.id},
                      !.value = row.is,
                      !.form = IF row.plan.provider = "lunakey" THEN row.plan
                               ELSE [row.plan EXCEPT !.category = "1month"]]
  /\ UNCHANGED <<page, calls, db>>

EnterPlan(form) ==
  /\ In({"create", "edit"})
  /\ form # ui.form /\ ui.edits < MaxEdits
  /\ ui' = [ui EXCEPT !.form = form, !.edits = @ + 1]
  /\ UNCHANGED <<page, calls, db>>

(* Choosing the platforms turns the other one off, and a supported one on. *)
PlanPlatforms ==
  \E to \in {"all", "ios", "android"} :
    EnterPlan([ui.form EXCEPT
                 !.platforms = to,
                 !.ios = IF to = "android" THEN "disabled" ELSE "served",
                 !.android = IF to = "ios" THEN "disabled" ELSE "served"])

(* How a platform is served can be chosen unless the plan leaves it out. *)
PlanModes ==
  \E how \in Served :
    \/ ui.form.platforms # "android" /\ EnterPlan([ui.form EXCEPT !.ios = how])
    \/ ui.form.platforms # "ios" /\ EnterPlan([ui.form EXCEPT !.android = how])

HandleLunaKeyCategoryChange(form, category) ==
  [form EXCEPT !.category = category, !.days = DurationOf(category)]

PlanProvider ==
  \E to \in {"legacy_locket", "lunakey"} :
    LET form == [ui.form EXCEPT !.provider = to]
    IN  EnterPlan(IF to = "lunakey" THEN HandleLunaKeyCategoryChange(form, form.category)
                  ELSE form)

PlanCategory ==
  /\ ui.form.provider = "lunakey"
  /\ \E category \in Category :
       EnterPlan(HandleLunaKeyCategoryChange(ui.form, category))

PlanDays ==
  /\ ui.form.provider # "lunakey"
  /\ \E days \in {30, 365} : EnterPlan([ui.form EXCEPT !.days = days])

PlanOnSale ==
  /\ In({"create", "edit"}) /\ ui.edits < MaxEdits
  /\ ui' = [ui EXCEPT !.value = IF @ = "active" THEN "inactive" ELSE "active", !.edits = @ + 1]
  /\ UNCHANGED <<page, calls, db>>

HandleSavePlan ==
  /\ In({"create", "edit"}) /\ "save" \notin ui.busy
  /\ Begin([Call("save", ui) EXCEPT !.kind = ui.dialog.kind, !.target = ui.dialog.id,
                                    !.entered = ui.entered, !.form = {ui.form},
                                    !.value = ui.value])
  /\ ui' = [ui EXCEPT !.busy = @ \cup {"save"}]
  /\ UNCHANGED <<page, db>>

(* The shop: plans it takes, and what it makes of the provider's fields. *)
ValidatePlanFulfillment(f) ==
  CASE f.platforms = "ios"     -> f.ios = "served" /\ f.android = "disabled"
    [] f.platforms = "android" -> f.android = "served" /\ f.ios = "disabled"
    [] f.platforms = "all"     -> f.ios = "served" /\ f.android = "served"

StoredPlan(f) == IF f.provider = "lunakey" THEN [f EXCEPT !.days = DurationOf(f.category)] ELSE f

PlanSaved(c) ==
  /\ c.op = "save" /\ c.reply = "none"
  /\ \E f \in c.form :
       /\ ValidatePlanFulfillment(f)
       /\ \E i \in Items :
            /\ IF c.kind = "edit" THEN i = c.target /\ db.is[i] # "absent"
               ELSE db.is[i] = "absent"
            /\ db' = [db EXCEPT !.plan[i] = StoredPlan(f), !.is[i] = c.value]
  /\ Change(c, [c EXCEPT !.reply = "ok"])
  /\ UNCHANGED <<page, ui>>

PlanSaveDone(c) == c.op = "save" /\ ThenLoad(c, Closing({"create", "edit"}, Free("save")))

-----------------------------------------------------------------------------
(* The switch of a plan and its deletion *)

HandleToggleStatus(row) ==
  /\ row \in VisiblePlans
  /\ Begin([Call("toggle", ui) EXCEPT
              !.target = row.id, !.value = IF row.is = "active" THEN "inactive" ELSE "active"])
  /\ UNCHANGED <<page, ui, db>>

PlanToggled(c) == c.op = "toggle" /\ db.is[c.target] # "absent" /\ Executed(c, c.value)
PlanToggleDone(c) == c.op = "toggle" /\ ThenLoad(c, ui)

AskDeletePlan(row) == row \in VisiblePlans /\ Open("delete", row.id, {}, "")
PlanDeleteDialog == In({"delete"}) /\ Submit("delete")
PlanDeleted(c) == c.op = "delete" /\ db.is[c.target] # "absent" /\ Executed(c, "absent")
PlanDeleteDone(c) == c.op = "delete" /\ ThenLoad(c, Closing({"delete"}, Free("delete")))

AdminPlansNext ==
  \/ For("list") /\ (RefreshPlans \/ PlanPagination)
  \/ For("form") /\ (CreatePlan \/ HandleSavePlan)
  \/ PlanPlatforms \/ PlanModes \/ PlanProvider \/ PlanCategory \/ PlanDays \/ PlanOnSale
  \/ \E row \in ui.rows :
       \/ For("form") /\ EditPlan(row)
       \/ For("row") /\ (HandleToggleStatus(row) \/ AskDeletePlan(row))
  \/ For("row") /\ PlanDeleteDialog
  \/ Dismiss
  \/ \E c \in calls :
       \/ ReadPlans(c) \/ LoadPlans(c) \/ PlanSaved(c) \/ PlanSaveDone(c)
       \/ PlanToggled(c) \/ PlanToggleDone(c) \/ PlanDeleted(c) \/ PlanDeleteDone(c)
       \/ c.op # "load" /\ Failed(c)
  \/ For("row") /\ \E i \in Items : db.is[i] # "absent" /\ OthersChange(i, "absent")

-----------------------------------------------------------------------------
(* Types of the page's state. *)
AdminPlansTypeOK ==
  /\ DialogTypeOK
  /\ ui.form \in PlanForm /\ db.plan \in [Items -> PlanForm]
  /\ \A row \in ui.rows : row.plan \in PlanForm

(* The plan form never turns a platform on that its plan leaves out, whatever
   the fields were and in whatever order they are changed; and a plan on sale
   serves exactly its platforms, and a provider's plan the days of its package. *)
PlanFormConsistent ==
  /\ ui.form.platforms = "ios" => ui.form.android = "disabled"
  /\ ui.form.platforms = "android" => ui.form.ios = "disabled"
  /\ \A i \in Items :
       LET plan == db.plan[i]
       IN  /\ ValidatePlanFulfillment(plan)
           /\ plan.provider = "lunakey" => plan.days = DurationOf(plan.category)
=============================================================================
