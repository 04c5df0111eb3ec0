----------------------------- MODULE Dashboard -----------------------------
(***************************************************************************)
(* The frame of the customer's pages, DashboardPage.tsx: the summary of    *)
(* the orders it keeps reading, the news that one was completed, told once *)
(* by what the browser's storage remembers, and the request for a review,  *)
(* PostServiceReviewPrompt.tsx, which waits until nothing else covers the  *)
(* page.  The balance, read beside the summary, is in Wallet.              *)
(***************************************************************************)
EXTENDS ListPage

CONSTANT MaxReloads   \* bound: how often the page is loaded anew

ASSUME DashboardAssumption == MaxReloads \in Nat

Latest(orders) == CHOOSE o \in orders : \A p \in orders : p \leq o

(* refreshing and seen are refs of the page; has, eligible and reading are the
   state of useReviews; overlay is any dialog or announcement of another part. *)
FreshPage ==
  [orders |-> {}, refreshing |-> FALSE, seen |-> 0, prompt |-> 0, open |-> FALSE,
   form |-> FALSE, sending |-> FALSE, has |-> FALSE, eligible |-> FALSE, reading |-> TRUE,
   overlay |-> FALSE]

Read(n, op, then) ==
  [id |-> n, op |-> op, then |-> then, reply |-> "none", orders |-> {}, has |-> FALSE]

FirstReads == {Read(1, "orders", ""), Read(2, "mine", "")}

DashboardInit ==
  /\ page = "dashboard"
  /\ ui = FreshPage /\ calls = FirstReads
  /\ \E works \in BOOLEAN :
       db = [done |-> {}, review |-> FALSE, works |-> works, kept |-> 0, reloads |-> 0,
             told |-> [o \in Items |-> 0]]

Reloaded ==
  /\ db.reloads < MaxReloads
  /\ ui' = FreshPage /\ calls' = FirstReads
  /\ db' = [db EXCEPT !.reloads = @ + 1]
  /\ UNCHANGED page

-----------------------------------------------------------------------------
(* The request for a review *)

(* Somebody who has a review by now is not asked. *)
Settled(u) ==
  IF u.prompt # 0 /\ ~u.open /\ ~u.reading /\ u.has THEN [u EXCEPT !.prompt = 0] ELSE u

(* The effect sets a timer under these conditions, and clears it with them. *)
PromptDue ==
  /\ ui.prompt # 0 /\ ~ui.open /\ ~ui.reading /\ ~ui.has
  /\ ui.eligible /\ ~ui.overlay

PromptOpens ==
  /\ PromptDue
  /\ ui' = [ui EXCEPT !.open = TRUE]
  /\ UNCHANGED <<page, calls, db>>

CloseReviewExperience ==
  /\ ui.open /\ ~ui.sending
  /\ ui' = [ui EXCEPT !.open = FALSE, !.form = FALSE, !.prompt = 0]
  /\ UNCHANGED <<page, calls, db>>

ShowReviewForm ==
  /\ ui.open /\ ~ui.form
  /\ ui' = [ui EXCEPT !.form = TRUE]
  /\ UNCHANGED <<page, calls, db>>

SendReview ==
  /\ ui.open /\ ui.form /\ ~ui.sending
  /\ Begin(Read(FreeId, "review", ""))
  /\ ui' = [ui EXCEPT !.sending = TRUE]
  /\ UNCHANGED <<page, db>>

ReviewStored(c) ==
  /\ c.op = "review" /\ c.reply = "none" /\ ~db.review
  /\ db' = [db EXCEPT !.review = TRUE]
  /\ Change(c, [c EXCEPT !.reply = "ok"])
  /\ UNCHANGED <<page, ui>>

(* The review is read again before the prompt closes. *)
ReviewAnswered(c) ==
  /\ c.op = "review"
  /\ IF c.reply = "ok"
     THEN /\ Change(c, Read(c.id, "mine", "close"))
          /\ ui' = [ui EXCEPT !.reading = TRUE]
     ELSE End(c) /\ ui' = [ui EXCEPT !.sending = FALSE]
  /\ UNCHANGED <<page, db>>

(* Other dialogs and announcements come and go, but not under the prompt. *)
OverlayChanges ==
  /\ ~ui.open
  /\ ui' = [ui EXCEPT !.overlay = ~@]
  /\ UNCHANGED <<page, calls, db>>

-----------------------------------------------------------------------------
(* The reads *)

DashboardRefresh ==
  /\ \A c \in calls : c.then # "live summary"
  /\ Begin(Read(FreeId, "orders", "live summary"))
  /\ UNCHANGED <<page, ui, db>>

ReviewRefresh ==
  /\ ui.prompt # 0 /\ ~ui.open /\ ~ui.has
  /\ \A c \in calls : c.then # "live review"
  /\ Begin(Read(FreeId, "mine", "live review"))
  /\ ui' = [ui EXCEPT !.reading = TRUE]
  /\ UNCHANGED <<page, db>>

ShopReads(c) ==
  /\ c.op \in {"orders", "mine"} /\ c.reply = "none"
  /\ Change(c, [c EXCEPT !.reply = "ok", !.orders = db.done, !.has = db.review])
  /\ UNCHANGED <<page, ui, db>>

(* Mutant: what the storage remembers is not looked at. *)
LastSeenByPage == ui.seen

ReadFails(c) ==
  /\ c.op = "orders" /\ End(c)
  /\ UNCHANGED <<page, ui, db>>

LastSeen == IF db.works /\ db.kept > ui.seen THEN db.kept ELSE ui.seen

(* News is a completed order later than any told; while the review is being
   read for the last news there is none. *)
OrdersSummary(c) ==
  /\ c.op = "orders" /\ c.reply = "ok"
  /\ LET u == [ui EXCEPT !.orders = c.orders]
         news == Latest(c.orders)
     IN  IF c.orders = {} \/ ui.refreshing \/ news \leq LastSeen
         THEN ui' = u /\ End(c) /\ UNCHANGED db
         ELSE /\ ui' = [u EXCEPT !.refreshing = TRUE, !.seen = news, !.prompt = news,
                                 !.reading = TRUE,
                                 !.form = @ /\ ui.prompt = news]
              /\ Change(c, Read(c.id, "mine", "told"))
              /\ db' = [db EXCEPT !.told[news] = @ + 1,
                                  !.kept = IF db.works THEN news ELSE @]
  /\ UNCHANGED page

MyReviewRead(c) ==
  /\ c.op = "mine"
  /\ End(c)
  /\ LET u == [ui EXCEPT !.reading = FALSE,
                         !.has = IF c.reply = "ok" THEN c.has ELSE @,
                         !.eligible = IF c.reply = "ok" THEN c.orders # {} ELSE @,
                         !.refreshing = @ /\ c.then # "told"]
     IN  ui' = Settled(IF c.then # "close" THEN u
                       ELSE [u EXCEPT !.sending = FALSE, !.open = FALSE, !.form = FALSE,
                                         !.prompt = 0])
  /\ UNCHANGED <<page, db>>

OrderCompleted(o) ==
  /\ o \notin db.done
  /\ db' = [db EXCEPT !.done = @ \cup {o}]
  /\ UNCHANGED <<page, ui, calls>>

ReviewedElsewhere ==
  /\ ~db.review /\ db.done # {}
  /\ db' = [db EXCEPT !.review = TRUE]
  /\ UNCHANGED <<page, ui, calls>>

DashboardNext ==
  \/ Reloaded \/ PromptOpens \/ CloseReviewExperience \/ ShowReviewForm \/ SendReview
  \/ OverlayChanges \/ DashboardRefresh \/ ReviewRefresh \/ ReviewedElsewhere
  \/ \E c \in calls :
       \/ ReviewStored(c) \/ ReviewAnswered(c) \/ ShopReads(c) \/ ReadFails(c)
       \/ OrdersSummary(c) \/ MyReviewRead(c)
  \/ \E o \in Items : OrderCompleted(o)

-----------------------------------------------------------------------------
(* Types of the page's state. *)
DashboardTypeOK ==
  /\ ui.orders \subseteq Items /\ {ui.seen, ui.prompt, db.kept} \subseteq Items \cup {0}
  /\ db.told \in [Items -> 0 .. MaxReloads + 1]

(* A guard that keeps news back is held by a read under way. *)
DashboardWaits ==
  /\ ui.reading => \E c \in calls : c.op = "mine"
  /\ ui.refreshing => \E c \in calls : c.then = "told"
  /\ ui.sending => \E c \in calls : c.op = "review" \/ c.then = "close"

(* An order is announced once, however often the page is loaded anew and in
   whatever order the summaries arrive; only a browser that keeps nothing
   announces it again after a reload.  The prompt asks about an order that was
   announced, and none is left open without one. *)
AnnouncedOnce ==
  /\ \A o \in Items :
       /\ db.told[o] \leq 1 + (IF db.works THEN 0 ELSE db.reloads)
       /\ db.told[o] > 0 => o \in db.done
  /\ ui.open => ui.prompt # 0
  /\ ui.prompt # 0 => db.told[ui.prompt] > 0
=============================================================================
