------------------------------- MODULE Browser -------------------------------
(***************************************************************************)
(* What the pages of the web front end have in common.  One page is shown  *)
(* at a time; it has the React state ui, calls of the API under way, and   *)
(* in front of it the shop, of which db is what the page reads and writes. *)
(* A handler that awaits the shop is sent, executed and answered in three  *)
(* steps; other handlers, timers and answers run in between, and an answer *)
(* finds what the handler captured in the call.                            *)
(***************************************************************************)
EXTENDS Naturals, FiniteSets, Sequences

CONSTANT MaxCalls   \* bound: calls, and timers of polls, at the same time

ASSUME BrowserAssumption == MaxCalls \in Nat \ {0}

VARIABLES
  page,    \* the page shown
  ui,      \* its state
  calls,   \* its calls, told apart by their id
  db       \* the shop's side

browser == <<page, ui, calls, db>>

(* A call is numbered with a number no other call has. *)
IdBeside(others) == CHOOSE i \in 1 .. MaxCalls + 1 : \A c \in others : c.id # i
FreeId == IdBeside(calls)

Room == Cardinality(calls) < MaxCalls

Begin(c) == Room /\ calls' = calls \cup {c}

Change(c, d) == calls' = (calls \ {c}) \cup {d}

End(c) == calls' = calls \ {c}
=============================================================================
