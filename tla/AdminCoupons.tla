----------------------------- MODULE AdminCoupons -----------------------------
(***************************************************************************)
(* The coupons of the administrator's panel, AdminCoupons.tsx.  A coupon's *)
(* form is filled from its row and saved whole, whether it is active       *)
(* included; the switch in the row sends the opposite of the row, and      *)
(* its answer changes the row shown without a load.                        *)
(***************************************************************************)
EXTENDS DialogPage

CouponState == {"active", "inactive"}
Opposite(state) == IF state = "active" THEN "inactive" ELSE "active"

(* The statistics shown: of the coupon named in the title, once answered. *)
NoStats == [shown |-> 0, wait |-> FALSE]

AdminCouponsInit ==
  /\ page = "admin coupons"
  /\ \E errand \in {"list", "form", "row", "stats"} :
       db = [is |-> [i \in Items |-> IF errand = "form" /\ i = 2 THEN "absent" ELSE "active"],
             others |-> 0, errand |-> errand]
  /\ ui = [filter |-> "", at |-> 1, of |-> 1, rows |-> {}, loading |-> TRUE,
           dialog |-> NoDialog, entered |-> {}, value |-> "", busy |-> {},
           plans |-> FALSE, stats |-> NoStats]
  /\ calls = {CallNo(1, "load", NoList), CallNo(2, "plans", NoList)}

PlansForForm(c) ==
  /\ c.op = "plans"
  /\ End(c)
  /\ ui' \in {ui, [ui EXCEPT !.plans = TRUE]}
  /\ UNCHANGED <<page, db>>

-----------------------------------------------------------------------------
(* The list *)

CouponFilters(f) ==
  /\ ~Covered
  /\ Refilter([ui EXCEPT !.filter = f, !.at = 1])
  /\ UNCHANGED <<page, db>>

CouponHeader == IF Covered THEN {} ELSE {"create"} \cup IF ui.loading THEN {} ELSE {"refresh"}

RefreshCoupons ==
  /\ "refresh" \in CouponHeader
  /\ Loading(ui, "")
  /\ UNCHANGED <<page, db>>

CouponsTable == IF ui.loading THEN {} ELSE Table

(* These buttons do not wait. *)
CouponPagination == ~Covered /\ \E to \in {ui.at - 1, ui.at + 1} : TurnTo(to)

LoadCoupons(c) == Loaded(c)

-----------------------------------------------------------------------------
(* The form *)

HandleOpenCreate == "create" \in CouponHeader /\ Open("create", 0, {}, "active")

HandleOpenEdit(row) == row \in CouponsTable /\ Open("edit", row.id, {row.id}, row.is)

(* The fields; the plans it is for, once they are known; and the box that says
   whether the coupon is active. *)
CouponFields == In({"create", "edit"}) /\ Enter(ui.value)

CouponPlans == ui.plans /\ CouponFields

ActiveBox == In({"create", "edit"}) /\ Enter(Opposite(ui.value))

(* What is wrong with the discount or the limits is said without a call. *)
HandleSaveCoupon == In({"create", "edit"}) /\ ui.entered # {} /\ Submit("save")

(* A new coupon gets the first free number; a second one of the same code is
   refused, like the change of a coupon deleted meanwhile. *)
CouponSaved(c) ==
  /\ c.op = "save"
  /\ IF c.kind = "edit"
     THEN db.is[c.target] # "absent" /\ Executed(c, c.value)
     ELSE \E i \in Items :
            /\ db.is[i] = "absent" /\ c.reply = "none"
            /\ db' = [db EXCEPT !.is[i] = c.value]
            /\ Change(c, [c EXCEPT !.reply = "ok"])
            /\ UNCHANGED <<page, ui>>

SaveDone(c) == c.op = "save" /\ ThenLoad(c, Closing({"create", "edit"}, Free("save")))

-----------------------------------------------------------------------------
(* The row: the switch, which is never disabled, and the deletion *)

HandleToggleActive(row) ==
  /\ row \in CouponsTable
  /\ Begin([Call("toggle", ui) EXCEPT !.target = row.id, !.value = Opposite(row.is)])
  /\ UNCHANGED <<page, ui, db>>

CouponToggled(c) == c.op = "toggle" /\ db.is[c.target] # "absent" /\ Executed(c, c.value)

ToggleDone(c) ==
  /\ c.op = "toggle"
  /\ End(c)
  /\ ui' = IF c.reply # "ok" THEN ui
           ELSE [ui EXCEPT !.rows = {IF row.id = c.target THEN [row EXCEPT !.is = c.value]
                                     ELSE row : row \in ui.rows}]
  /\ UNCHANGED <<page, db>>

AskDeleteCoupon(row) == row \in CouponsTable /\ Open("delete", row.id, {}, "")

CouponDeleteDialog == In({"delete"}) /\ Submit("delete")

CouponDeleted(c) == c.op = "delete" /\ db.is[c.target] # "absent" /\ Executed(c, "absent")

DeleteDone(c) == c.op = "delete" /\ ThenLoad(c, Closing({"delete"}, Free("delete")))

-----------------------------------------------------------------------------
(* The statistics: shown as they are answered, whichever coupon's they are. *)

HandleOpenStats(row) ==
  /\ row \in CouponsTable
  /\ Begin([Call("stats", ui) EXCEPT !.target = row.id])
  /\ ui' = [ui EXCEPT !.dialog = [kind |-> "stats", id |-> row.id],
                      !.stats = [shown |-> 0, wait |-> TRUE]]
  /\ UNCHANGED <<page, db>>

StatsAnswered(c) ==
  /\ c.op = "stats"
  /\ End(c)
  /\ ui' \in {[ui EXCEPT !.stats.wait = FALSE],
              [ui EXCEPT !.stats = [shown |-> c.target, wait |-> FALSE]]}
  /\ UNCHANGED <<page, db>>

(* The dialog: the numbers once there, whatever else is awaited. *)
StatsModal ==
  IF ~In({"stats"}) THEN {}
  ELSE IF ui.stats.wait THEN {"spinner"}
  ELSE IF ui.stats.shown = 0 THEN {"nothing"} ELSE {"numbers"}

AdminCouponsNext ==
  \/ For("list") /\ (RefreshCoupons \/ CouponPagination
                     \/ \E f \in {"", "active", "inactive"} : CouponFilters(f))
  \/ For("form") /\ (HandleOpenCreate \/ CouponFields \/ CouponPlans \/ ActiveBox
                     \/ HandleSaveCoupon)
  \/ \E row \in ui.rows :
       \/ For("form") /\ HandleOpenEdit(row)
       \/ For("row") /\ (HandleToggleActive(row) \/ AskDeleteCoupon(row))
       \/ For("stats") /\ HandleOpenStats(row)
  \/ For("row") /\ CouponDeleteDialog
  \/ Dismiss
  \/ \E c \in calls :
       \/ PlansForForm(c) \/ ReadRows(c) \/ LoadCoupons(c)
       \/ CouponSaved(c) \/ SaveDone(c) \/ CouponToggled(c) \/ ToggleDone(c)
       \/ CouponDeleted(c) \/ DeleteDone(c) \/ StatsAnswered(c)
       \/ c.op \in {"save", "delete"} /\ Failed(c)
  \/ \E i \in Items : db.is[i] # "absent" /\ OthersChange(i, Opposite(db.is[i]))

-----------------------------------------------------------------------------
(* Types of the page's state. *)
AdminCouponsTypeOK ==
  /\ DialogTypeOK
  /\ db.is \in [Items -> CouponState \cup {"absent"}]
  /\ ui.stats.shown \in Items \cup {0}
  /\ ui.busy \subseteq {"save", "delete"}
=============================================================================
