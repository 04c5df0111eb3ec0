------------------------------ MODULE OrdersView ------------------------------
(***************************************************************************)
(* The customer's orders, OrdersView.tsx: the list, kept fresh, and the    *)
(* details of one order.  The details are those of the row as it was when  *)
(* they were opened, while the list behind them goes on; the file that an  *)
(* order brings is asked for with a ticket.  The list is never pulled back *)
(* from a page past its end.                                               *)
(***************************************************************************)
EXTENDS DialogPage

CONSTANT OrderViews   \* how the orders may be fulfilled, by their numbers

OrderView == {"lunakey", "manual", "apk", "ios", "android"}

ASSUME OrdersViewAssumption == OrderViews \subseteq [Items -> OrderView]

CustomerOrderStatus ==
  {"awaiting_payment", "paid", "queued", "processing", "completed", "failed", "refunded",
   "cancelled"}
DoneStatus == {"completed", "failed", "refunded", "cancelled"}

NoOrder == [id |-> 0, is |-> "paid"]

OrdersViewInit ==
  /\ page = "orders"
  /\ \E view \in OrderViews :
       db = [is |-> [i \in Items |-> IF i = 1 THEN "paid" ELSE "failed"], others |-> 0,
             errand |-> "orders", view |-> view]
  /\ ui = [filter |-> "", at |-> 1, of |-> 1, rows |-> {}, loading |-> TRUE,
           dialog |-> NoDialog, entered |-> {}, value |-> "", busy |-> {},
           selected |-> NoOrder, dns |-> FALSE, failed |-> FALSE]
  /\ calls = {CallNo(1, "load", NoList), CallNo(2, "config", NoList)}

-----------------------------------------------------------------------------
(* What is said of an order, and what its details offer *)

OrderStatusLabel(order) ==
  CASE db.view[order.id] = "manual" /\ order.is = "paid" -> "waits for the administrator"
    [] db.view[order.id] = "apk" /\ order.is = "completed" -> "ready"
    [] OTHER -> order.is

OrderCards == IF ui.loading THEN {} ELSE Table
OrdersTableRows == IF ui.loading THEN {} ELSE Table

Ticket == IF "ticket" \in ui.busy THEN {} ELSE {"ticket"}
Hostname == IF ui.dns THEN {"copy"} ELSE {}

(* A provider's order brings a profile to download at once, without a ticket. *)
OrderLunaKeyView == IF ui.selected.is = "completed" THEN {"profile"} ELSE {}
OrderManualView == {}
OrderApkView == IF ui.selected.is = "completed" THEN Ticket ELSE {}
OrderIosView == Hostname \cup IF ui.selected.is = "completed" THEN Ticket ELSE {}
OrderAndroidView == Hostname

DetailModal ==
  IF ~In({"order"}) THEN {}
  ELSE {"close"} \cup
       CASE db.view[ui.selected.id] = "lunakey" -> OrderLunaKeyView
         [] db.view[ui.selected.id] = "manual"  -> OrderManualView
         [] db.view[ui.selected.id] = "apk"     -> OrderApkView
         [] db.view[ui.selected.id] = "ios"     -> OrderIosView
         [] db.view[ui.selected.id] = "android" -> OrderAndroidView

-----------------------------------------------------------------------------
LoadUserOrders(c) ==
  /\ c.op = "load"
  /\ End(c)
  /\ LET u == [ui EXCEPT !.loading = @ /\ c.silent]
     IN  ui' = IF c.reply = "none" THEN u ELSE [u EXCEPT !.rows = c.rows, !.of = c.of]
  /\ UNCHANGED <<page, db>>

RefreshOrders == ~Covered /\ Loading(ui, "") /\ UNCHANGED <<page, db>>

(* While rows are shown: back, and on while the total says there is more. *)
OrdersPagination ==
  /\ OrderCards # {}
  /\ \E to \in {ui.at - 1, ui.at + 1} :
       /\ to \geq 1 /\ (to > ui.at => ui.at < ui.of)
       /\ Refilter([ui EXCEPT !.at = to])
  /\ UNCHANGED <<page, db>>

PlatformConfig(c) ==
  /\ c.op = "config"
  /\ End(c)
  /\ ui' \in {ui, [ui EXCEPT !.dns = TRUE]}
  /\ UNCHANGED <<page, db>>

SelectOrder(row) ==
  /\ row \in OrderCards \cup OrdersTableRows
  /\ ui' = [ui EXCEPT !.dialog = [kind |-> "order", id |-> row.id], !.selected = row]
  /\ UNCHANGED <<page, calls, db>>

CloseOrder == "close" \in DetailModal /\ Dismiss

(* One ticket at a time, whichever order the details are of by then. *)
HandleDownloadTicket ==
  /\ "ticket" \in DetailModal
  /\ Begin([Call("ticket", ui) EXCEPT !.target = ui.selected.id])
  /\ ui' = [ui EXCEPT !.busy = @ \cup {"ticket"}, !.failed = FALSE]
  /\ UNCHANGED <<page, db>>

(* The file, or a word of what went wrong in the details open then. *)
TicketCreated(c) ==
  /\ c.op = "ticket"
  /\ End(c)
  /\ ui' \in {Free("ticket"), [Free("ticket") EXCEPT !.failed = TRUE]}
  /\ UNCHANGED <<page, db>>

(* The shop goes on.  A completed or refunded order stays as it is; one that
   failed may be tried again, and one cancelled may still be paid for. *)
OrderGoesOn(i) ==
  /\ db.is[i] \notin {"completed", "refunded"}
  /\ \E s \in CustomerOrderStatus \ {"awaiting_payment", db.is[i]} : OthersChange(i, s)

OrdersViewNext ==
  \/ RefreshOrders \/ OrdersPagination \/ LiveRefresh \/ CloseOrder \/ HandleDownloadTicket
  \/ \E row \in ui.rows : SelectOrder(row)
  \/ \E c \in calls :
       ReadRows(c) \/ LoadUserOrders(c) \/ PlatformConfig(c) \/ TicketCreated(c)
  \/ \E i \in Items : OrderGoesOn(i)

-----------------------------------------------------------------------------
(* Types of the page's state. *)
OrdersViewTypeOK ==
  /\ DialogTypeOK
  /\ ui.selected.id \in Items \cup {0} /\ ui.selected.is \in CustomerOrderStatus
  /\ \A row \in ui.rows : OrderStatusLabel(row) # ""

(* The details may be old, but never promise too much: the file or profile
   they offer, and the ticket asked for, is of an order which is completed. *)
DetailsTrue ==
  /\ {"ticket", "profile"} \cap DetailModal # {} => db.is[ui.selected.id] = "completed"
  /\ \A c \in calls : c.op = "ticket" => db.is[c.target] = "completed"
=============================================================================
