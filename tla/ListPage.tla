------------------------------- MODULE ListPage -------------------------------
(***************************************************************************)
(* What the lists of the front end share: rows asked for with a filter and *)
(* a page number, answered from the shop's rows of that moment and shown   *)
(* whatever the filter is by then; a spinner for loads that are not silent *)
(* and the quiet refresh of useLiveRefresh, one at a time.  A page module  *)
(* says which handler loads what; a load is one call.                      *)
(***************************************************************************)
EXTENDS Browser

CONSTANTS
  Items,      \* what a list can show, by number
  MaxOthers   \* bound: changes other administrators or customers make

ASSUME ListAssumption == Items \subseteq Nat \ {0} /\ IsFiniteSet(Items) /\ MaxOthers \in Nat

(* Bound: besides looking at the list, a behaviour is about one errand. *)
For(errand) == db.errand = errand

(* ui.filter is "" for all rows, else the state of the rows wanted. *)
NoList == [filter |-> "", at |-> 1, of |-> 1, rows |-> {}, loading |-> FALSE]

Matching(filter) ==
  {i \in Items : db.is[i] # "absent" /\ (filter = "" \/ db.is[i] = filter)}

(* The shop's answer: pages of one row, in order of the numbers. *)
RowsAt(filter, at) ==
  {[id |-> i, is |-> db.is[i]] :
     i \in {j \in Matching(filter) : Cardinality({k \in Matching(filter) : k \leq j}) = at}}
PagesOf(filter) == IF Matching(filter) = {} THEN 1 ELSE Cardinality(Matching(filter))

(* Every call of a list page has these fields: what it is for, the state of
   the list it was made in, what it acts on and what was entered for whom. *)
CallNo(n, op, u) ==
  [id |-> n, op |-> op, silent |-> FALSE, then |-> "", filter |-> u.filter,
   at |-> u.at, kind |-> "", target |-> 0, value |-> "", form |-> {}, entered |-> {},
   reply |-> "none", rows |-> {}, of |-> 1]

Call(op, u) == CallNo(FreeId, op, u)

Load(u, silent, then) == [Call("load", u) EXCEPT !.silent = silent, !.then = then]

(* The page in state u with a load begun: the spinner is for the loud ones. *)
Loading(u, then) ==
  /\ Begin(Load(u, FALSE, then))
  /\ ui' = [u EXCEPT !.loading = TRUE]

(* The effect that loads whenever the filter or the page number changed. *)
Refilter(u) ==
  IF <<u.filter, u.at>> = <<ui.filter, ui.at>>
  THEN ui' = u /\ UNCHANGED calls
  ELSE Loading(u, "")

(* Submitting the search: the load of the handler still asks for the old page,
   the effect asks for the first. *)
SearchSubmit ==
  /\ IF ui.at = 1 THEN Loading(ui, "")
     ELSE LET first == [ui EXCEPT !.at = 1, !.loading = TRUE]
              old == Load(ui, FALSE, "")
          IN  /\ Cardinality(calls) + 2 \leq MaxCalls
              /\ calls' = calls \cup {old, [Load(first, FALSE, "") EXCEPT
                                          !.id = IdBeside(calls \cup {old})]}
              /\ ui' = first
  /\ UNCHANGED <<page, db>>

(* Filters go back to the first page; a letter typed into the search does not. *)
FilterBy(f) == Refilter([ui EXCEPT !.filter = f, !.at = 1]) /\ UNCHANGED <<page, db>>
SearchFor(f) == f # ui.filter /\ Refilter([ui EXCEPT !.filter = f]) /\ UNCHANGED <<page, db>>

(* useLiveRefresh: the next one only after the last one ended. *)
LiveRefresh ==
  /\ \A c \in calls : c.then # "live"
  /\ Begin(Load(ui, TRUE, "live"))
  /\ UNCHANGED <<page, ui, db>>

(* The shop reads the rows. *)
ReadRows(c) ==
  /\ c \in calls /\ c.op = "load" /\ c.reply = "none"
  /\ Change(c, [c EXCEPT !.reply = "ok", !.rows = RowsAt(c.filter, c.at),
                         !.of = PagesOf(c.filter)])
  /\ UNCHANGED <<page, ui, db>>

(* Rows as they were answered; a page past the end is left, and that loads
   again, by the effect.  done is the page with the flags of c taken back. *)
ShowRows(c, done) ==
  /\ c \in calls /\ c.op = "load"
  /\ IF c.reply = "none"      \* no answer, or a refusal
     THEN ui' = done /\ End(c)
     ELSE LET shown == [done EXCEPT !.rows = c.rows, !.of = c.of,
                                    !.at = IF c.at > c.of THEN c.of ELSE @]
          IN  IF shown.at = ui.at
              THEN ui' = shown /\ End(c)
              ELSE /\ Change(c, [Load(shown, FALSE, "") EXCEPT !.id = c.id])
                   /\ ui' = [shown EXCEPT !.loading = TRUE]
  /\ UNCHANGED <<page, db>>

(* Somebody else changes a row. *)
OthersChange(i, to) ==
  /\ db.others < MaxOthers
  /\ db' = [db EXCEPT !.is[i] = to, !.others = @ + 1]
  /\ UNCHANGED <<page, ui, calls>>

TurnTo(to) ==
  /\ to \in 1 .. ui.of
  /\ Refilter([ui EXCEPT !.at = to])
  /\ UNCHANGED <<page, db>>

(* The buttons of most lists wait for the load. *)
PageChanged(to) == ~ui.loading /\ TurnTo(to)
=============================================================================
