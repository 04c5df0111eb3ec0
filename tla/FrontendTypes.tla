----------------------------- MODULE FrontendTypes -----------------------------
(***************************************************************************)
(* The types of the front end, for every value of the constants.  A call   *)
(* brings the answer that a page shows next, and the answer is read from   *)
(* the shop's records: so the types of what is shown rest on those of the  *)
(* calls under way and of the records.  Each page has an invariant that    *)
(* types all three.                                                        *)
(***************************************************************************)
EXTENDS FrontendProofs

(* The types of a list's state, for the states S its items may be in: the page
   and the number of pages are those of the items; a row is an item in a
   state other than absent; a dialog and what is entered in it name an item or none. *)

PageNumbers == {1} \cup (1 .. Cardinality(Items))

Shown(S) == S \ {"absent"}
RowsTyped(rows, S) ==
  \A row \in rows : {"id", "is"} \subseteq DOMAIN row /\ row.id \in Items /\ row.is \in Shown(S)

UiTyped(u, S, kinds) ==
  /\ u.at \in PageNumbers /\ u.of \in PageNumbers /\ RowsTyped(u.rows, S)
  /\ u.dialog.id \in Items \cup {0} /\ u.entered \subseteq Items \cup {0}
  /\ u.dialog.kind \in kinds => u.value \in Shown(S)

CallTyped(c, S, ops) ==
  /\ c.at \in PageNumbers /\ c.of \in PageNumbers /\ RowsTyped(c.rows, S)
  /\ c.target \in Items \cup {0}
  /\ c.op \in ops => c.value \in Shown(S)

(* The items are in one of the states S; the handlers ops, and the dialogs that
   lead to them, carry the state an item is to have. *)
ListTyped(S, ops, kinds) ==
  /\ {"is", "others", "errand"} \subseteq DOMAIN db /\ db.is \in [Items -> S]
  /\ UiTyped(ui, S, kinds)
  /\ \A c \in calls : CallTyped(c, S, ops)

LEMMA UpTo ==
  ASSUME NEW n \in Nat, NEW m \in {1} \cup (1 .. n), NEW to \in 1 .. m
  PROVE  to \in {1} \cup (1 .. n)
  OBVIOUS

LEMMA PagesCounted ==
  ASSUME NEW filter
  PROVE  PagesOf(filter) \in PageNumbers
  <1>1. Matching(filter) \subseteq Items
    BY DEF Matching
  <1>2. /\ IsFiniteSet(Matching(filter)) /\ Cardinality(Matching(filter)) \in Nat
        /\ Cardinality(Items) \in Nat /\ Cardinality(Matching(filter)) \leq Cardinality(Items)
    BY <1>1, ListAssumption, FS_Subset, FS_CardinalityType
  <1>3. Matching(filter) # {} => Cardinality(Matching(filter)) # 0
    BY <1>2, FS_EmptySet
  <1> QED BY <1>2, <1>3 DEF PagesOf, PageNumbers

LEMMA RowsReadTyped ==
  ASSUME NEW S, db.is \in [Items -> S], NEW filter, NEW at
  PROVE  RowsTyped(RowsAt(filter, at), S)
  <1>1. ASSUME NEW i \in Matching(filter)
        PROVE  i \in Items /\ db.is[i] \in Shown(S)
    BY <1>1 DEF Matching, Shown
  <1>2. \A row \in RowsAt(filter, at) :
          \E i \in Matching(filter) : row = [id |-> i, is |-> db.is[i]]
    BY DEF RowsAt
  <1> QED BY <1>1, <1>2 DEF RowsTyped

(* The fields the types are about. *)
TypedFields == {"at", "of", "rows", "dialog", "entered", "value"}

LEMMA TypedAlike ==
  ASSUME NEW S, NEW kinds, NEW u, NEW v, UiTyped(u, S, kinds),
         \A f \in TypedFields : v[f] = u[f]
  PROVE  UiTyped(v, S, kinds)
  <1>1. /\ v.at = u.at /\ v.of = u.of /\ v.rows = u.rows /\ v.dialog = u.dialog
        /\ v.entered = u.entered /\ v.value = u.value
    BY DEF TypedFields
  <1> QED BY <1>1 DEF UiTyped

LEMMA CallMadeTyped ==
  ASSUME NEW S, NEW ops, NEW u, u.at \in PageNumbers, NEW op, op \notin ops
  PROVE  CallTyped(Call(op, u), S, ops) /\ Call(op, u).at = u.at
  <1>1. PICK n : n = FreeId
    OBVIOUS
  <1>2. PICK c : c = CallNo(n, op, u)
    OBVIOUS
  <1>3. c.at = u.at /\ c.of = 1 /\ c.rows = {} /\ c.target = 0 /\ c.op = op
    BY <1>2 DEF CallNo
  <1>4. CallTyped(c, S, ops)
    BY <1>3 DEF CallTyped, RowsTyped, PageNumbers
  <1> QED BY <1>1, <1>2, <1>3, <1>4 DEF Call

LEMMA LoadTyped ==
  ASSUME NEW S, NEW ops, NEW u, u.at \in PageNumbers, "load" \notin ops, NEW silent, NEW then
  PROVE  /\ CallTyped(Load(u, silent, then), S, ops)
         /\ \A id : CallTyped([Load(u, silent, then) EXCEPT !.id = id], S, ops)
         /\ \A id, f : \A at \in PageNumbers :
              CallTyped([Load(u, silent, then) EXCEPT !.id = id, !.filter = f, !.at = at], S, ops)
  <1>1. PICK b : b = Call("load", u)
    OBVIOUS
  <1>2. Began(b, "load") /\ CallTyped(b, S, ops)
    BY <1>1, CallBegan, CallMadeTyped
  <1>3. PICK l : l = Load(u, silent, then)
    OBVIOUS
  <1>4. l = [b EXCEPT !.silent = silent, !.then = then]
    BY <1>1, <1>3 DEF Load
  <1>5. /\ CallFields \subseteq DOMAIN l /\ l.at = b.at /\ l.of = b.of /\ l.rows = b.rows
        /\ l.target = b.target /\ l.op = b.op
    BY <1>2, <1>4 DEF Began, CallFields
  <1>6. CallTyped(l, S, ops)
    BY <1>2, <1>5 DEF CallTyped, Began
  <1>7. ASSUME NEW id
        PROVE  CallTyped([l EXCEPT !.id = id], S, ops)
    <2>1. PICK c : c = [l EXCEPT !.id = id]
      OBVIOUS
    <2>2. c.at = l.at /\ c.of = l.of /\ c.rows = l.rows /\ c.target = l.target /\ c.op = l.op
      BY <1>5, <2>1 DEF CallFields
    <2> QED BY <1>2, <1>5, <1>6, <2>1, <2>2 DEF CallTyped, Began
  <1>8. ASSUME NEW id, NEW f, NEW at \in PageNumbers
        PROVE  CallTyped([l EXCEPT !.id = id, !.filter = f, !.at = at], S, ops)
    <2>1. PICK c : c = [l EXCEPT !.id = id, !.filter = f, !.at = at]
      OBVIOUS
    <2>2. c.at = at /\ c.of = l.of /\ c.rows = l.rows /\ c.target = l.target /\ c.op = l.op
      BY <1>5, <2>1 DEF CallFields
    <2> QED BY <1>2, <1>5, <1>6, <2>1, <2>2 DEF CallTyped, Began
  <1> QED BY <1>3, <1>6, <1>7, <1>8

LEMMA LoadingTyped ==
  ASSUME NEW S, NEW ops, NEW kinds, ListTyped(S, ops, kinds), "load" \notin ops,
         NEW u, DialogFields \subseteq DOMAIN u, UiTyped(u, S, kinds), UNCHANGED db,
         Refilter(u) \/ (\E then : Loading(u, then))
  PROVE  ListTyped(S, ops, kinds)'
  <1>1. CASE ui' = u /\ UNCHANGED calls
    BY <1>1 DEF ListTyped
  <1>2. ASSUME NEW then, Loading(u, then)
        PROVE  ListTyped(S, ops, kinds)'
    <2>1. PICK l : l = Load(u, FALSE, then)
      OBVIOUS
    <2>2. ui' = [u EXCEPT !.loading = TRUE] /\ calls' = calls \cup {l}
      BY <1>2, <2>1 DEF Loading, Begin
    <2>3. CallTyped(l, S, ops)
      BY <2>1, LoadTyped DEF UiTyped
    <2>4. \A f \in TypedFields : ui'[f] = u[f]
      BY <2>2 DEF TypedFields, DialogFields
    <2>5. UiTyped(ui', S, kinds)
      BY <2>4, TypedAlike
    <2> QED BY <2>2, <2>3, <2>5 DEF ListTyped
  <1> QED BY <1>1, <1>2 DEF Refilter

LEMMA ListLooksTyped ==
  ASSUME NEW S, NEW ops, NEW kinds, ListTyped(S, ops, kinds), "load" \notin ops, DialogInv,
         UNCHANGED db,
         \/ SearchSubmit \/ (\E f : FilterBy(f) \/ SearchFor(f)) \/ Loading(ui, "")
         \/ (\E to : TurnTo(to) \/ PageChanged(to))
         \/ (\E to \in PageNumbers : Refilter([ui EXCEPT !.at = to]))
         \/ (\E f : Refilter([ui EXCEPT !.filter = f, !.at = 1]))
         \/ LiveRefresh
  PROVE  ListTyped(S, ops, kinds)'
  <1>1. DialogFields \subseteq DOMAIN ui /\ UiTyped(ui, S, kinds)
    BY DEF DialogInv, ListTyped
  <1>2. ASSUME NEW u, DOMAIN u = DOMAIN ui, u.at \in PageNumbers, u.of = ui.of,
               u.rows = ui.rows, u.dialog = ui.dialog, u.entered = ui.entered,
               u.value = ui.value
        PROVE  DialogFields \subseteq DOMAIN u /\ UiTyped(u, S, kinds)
    BY <1>1, <1>2 DEF UiTyped
  <1>3. CASE Loading(ui, "")
    BY <1>1, <1>3, LoadingTyped
  <1>4. CASE LiveRefresh
    <2>1. PICK l : l = Load(ui, TRUE, "live")
      OBVIOUS
    <2>2. calls' = calls \cup {l} /\ UNCHANGED ui
      BY <1>4, <2>1 DEF LiveRefresh, Begin
    <2>3. CallTyped(l, S, ops)
      BY <1>1, <2>1, LoadTyped DEF UiTyped
    <2> QED BY <2>2, <2>3 DEF ListTyped
  <1>5. CASE SearchSubmit /\ ~Loading(ui, "")
    <2>1. PICK first : first = [ui EXCEPT !.at = 1, !.loading = TRUE]
      OBVIOUS
    <2>2. PICK old : old = Load(ui, FALSE, "")
      OBVIOUS
    <2>3. PICK new : new = [Load(first, FALSE, "") EXCEPT !.id = IdBeside(calls \cup {old})]
      OBVIOUS
    <2>4. calls' = calls \cup {old, new} /\ ui' = first
      BY <1>5, <2>1, <2>2, <2>3 DEF SearchSubmit
    <2>5. /\ DOMAIN first = DOMAIN ui /\ first.at = 1 /\ first.of = ui.of
          /\ first.rows = ui.rows /\ first.dialog = ui.dialog /\ first.entered = ui.entered
          /\ first.value = ui.value
      BY <1>1, <2>1 DEF DialogFields
    <2>6. first.at \in PageNumbers
      BY <2>5 DEF PageNumbers
    <2>7. UiTyped(first, S, kinds)
      BY <1>2, <2>5, <2>6
    <2>8. CallTyped(old, S, ops) /\ CallTyped(new, S, ops)
      BY <1>1, <2>2, <2>3, <2>6, LoadTyped DEF UiTyped
    <2> QED BY <2>4, <2>7, <2>8 DEF ListTyped
  <1>6. ASSUME NEW f, NEW to \in PageNumbers,
               \/ Refilter([ui EXCEPT !.filter = f, !.at = 1]) \/ Refilter([ui EXCEPT !.filter = f])
               \/ Refilter([ui EXCEPT !.at = to])
        PROVE  ListTyped(S, ops, kinds)'
    <2>1. PICK u : /\ Refilter(u)
                   /\ u \in {[ui EXCEPT !.filter = f, !.at = 1], [ui EXCEPT !.filter = f],
                             [ui EXCEPT !.at = to]}
      BY <1>6
    <2>2. /\ DOMAIN u = DOMAIN ui /\ u.at \in {1, ui.at, to} /\ u.of = ui.of
          /\ u.rows = ui.rows /\ u.dialog = ui.dialog /\ u.entered = ui.entered
          /\ u.value = ui.value
      BY <1>1, <2>1 DEF DialogFields
    <2>3. u.at \in PageNumbers
      BY <1>1, <2>2 DEF UiTyped, PageNumbers
    <2> QED BY <1>2, <2>1, <2>2, <2>3, LoadingTyped
  <1>7. \A to \in 1 .. ui.of : to \in PageNumbers
    <2>1. Cardinality(Items) \in Nat
      BY ListAssumption, FS_CardinalityType
    <2>2. PICK of \in PageNumbers : of = ui.of
      BY <1>1 DEF UiTyped
    <2> QED BY <2>1, <2>2, UpTo DEF PageNumbers
  <1>8. 1 \in PageNumbers
    BY DEF PageNumbers
  <1> QED BY <1>3, <1>4, <1>5, <1>6, <1>7, <1>8 DEF FilterBy, SearchFor, TurnTo, PageChanged

LEMMA CallStepTyped ==
  ASSUME NEW S, NEW ops, NEW kinds, ListTyped(S, ops, kinds), UiTyped(ui', S, kinds),
         db'.is \in [Items -> S], DOMAIN db' = DOMAIN db,
         \A c \in calls' : c \in calls \/ CallTyped(c, S, ops)
  PROVE  ListTyped(S, ops, kinds)'
  BY DEF ListTyped

(* The page as a handler leaves it. *)
Fit(u, S, kinds) == DialogFields \subseteq DOMAIN u /\ UiTyped(u, S, kinds)

(* The fields that are typed are as they were. *)
LEMMA ListAsItWas ==
  ASSUME NEW S, NEW ops, NEW kinds, ListTyped(S, ops, kinds), DialogInv,
         DOMAIN ui' = DOMAIN ui, \A f \in TypedFields : ui'[f] = ui[f]
  PROVE  Fit(ui', S, kinds)
  <1>1. UiTyped(ui, S, kinds)
    BY DEF ListTyped
  <1>2. UiTyped(ui', S, kinds)
    BY <1>1, TypedAlike
  <1> QED BY <1>2 DEF Fit, DialogInv

(* The shop reads the rows, and they are shown. *)
LEMMA ReadRowsTyped ==
  ASSUME NEW S, NEW ops, NEW kinds, ListTyped(S, ops, kinds), DialogInv,
         NEW c \in calls, ReadRows(c)
  PROVE  ListTyped(S, ops, kinds)'
  <1>1. CallFields \subseteq DOMAIN c /\ CallTyped(c, S, ops)
    BY DEF DialogInv, OwnCall, ListTyped
  <1>2. PICK rows : rows = RowsAt(c.filter, c.at)
    OBVIOUS
  <1>3. PICK of : of = PagesOf(c.filter)
    OBVIOUS
  <1>4. PICK d : d = [c EXCEPT !.reply = "ok", !.rows = rows, !.of = of]
    OBVIOUS
  <1>5. calls' = (calls \ {c}) \cup {d} /\ UNCHANGED <<ui, db>>
    BY <1>2, <1>3, <1>4 DEF ReadRows, Change
  <1>6. /\ d.at = c.at /\ d.of = of /\ d.rows = rows /\ d.target = c.target /\ d.op = c.op
        /\ d.value = c.value
    BY <1>1, <1>4 DEF CallFields
  <1>7. RowsTyped(rows, S) /\ of \in PageNumbers
    BY <1>2, <1>3, RowsReadTyped, PagesCounted DEF ListTyped
  <1>8. CallTyped(d, S, ops)
    BY <1>1, <1>6, <1>7 DEF CallTyped
  <1> QED BY <1>5, <1>8 DEF ListTyped

LEMMA LoadedTyped ==
  ASSUME NEW S, NEW ops, NEW kinds, ListTyped(S, ops, kinds), "load" \notin ops, DialogInv,
         NEW c \in calls, Loaded(c)
  PROVE  ListTyped(S, ops, kinds)'
  <1>1. /\ DialogFields \subseteq DOMAIN ui /\ UiTyped(ui, S, kinds)
        /\ CallFields \subseteq DOMAIN c /\ CallTyped(c, S, ops)
    BY DEF DialogInv, OwnCall, ListTyped
  <1>2. PICK done : done = [ui EXCEPT !.loading = @ /\ c.silent, !.busy = @ \ {c.then}]
    OBVIOUS
  <1>3. DOMAIN done = DOMAIN ui /\ \A f \in TypedFields : done[f] = ui[f]
    BY <1>1, <1>2 DEF DialogFields, TypedFields
  <1>4. UiTyped(done, S, kinds)
    BY <1>1, <1>3, TypedAlike
  <1>5. PICK after : after = [done EXCEPT !.rows = c.rows, !.of = c.of,
                                          !.at = IF c.at > c.of THEN c.of ELSE @]
    OBVIOUS
  <1>6. /\ DOMAIN after = DOMAIN ui /\ after.rows = c.rows /\ after.of = c.of
        /\ after.at \in {c.of, done.at} /\ after.dialog = done.dialog
        /\ after.entered = done.entered /\ after.value = done.value
    BY <1>1, <1>3, <1>5 DEF DialogFields
  <1>7. UiTyped(after, S, kinds)
    BY <1>1, <1>4, <1>6 DEF UiTyped, CallTyped
  <1>8. ShowRows(c, done) /\ UNCHANGED db
    <2>1. ShowRows(c, done)
      BY <1>2 DEF Loaded
    <2> QED BY <2>1 DEF ShowRows
  <1>9. CASE End(c) /\ ui' \in {done, after}
    BY <1>4, <1>7, <1>8, <1>9 DEF End, ListTyped
  <1>10. CASE /\ ui' = [after EXCEPT !.loading = TRUE]
              /\ Change(c, [Load(after, FALSE, "") EXCEPT !.id = c.id])
    <2>1. PICK l : l = [Load(after, FALSE, "") EXCEPT !.id = c.id]
      OBVIOUS
    <2>2. calls' = (calls \ {c}) \cup {l}
      BY <1>10, <2>1 DEF Change
    <2>3. CallTyped(l, S, ops)
      BY <1>7, <2>1, LoadTyped DEF UiTyped
    <2>4. \A f \in TypedFields : ui'[f] = after[f]
      BY <1>1, <1>6, <1>10 DEF TypedFields, DialogFields
    <2>5. UiTyped(ui', S, kinds)
      BY <1>7, <2>4, TypedAlike
    <2> QED BY <1>8, <2>2, <2>3, <2>5 DEF ListTyped
  <1> QED BY <1>5, <1>8, <1>9, <1>10 DEF ShowRows

(* Dialogs *)
LEMMA OpenTyped ==
  ASSUME NEW S, NEW ops, NEW kinds, ListTyped(S, ops, kinds), DialogInv,
         NEW kind, NEW id \in Items \cup {0}, NEW entered, NEW value,
         entered \subseteq Items \cup {0}, kind \in kinds => value \in Shown(S),
         Open(kind, id, entered, value)
  PROVE  ListTyped(S, ops, kinds)'
  <1>1. DialogFields \subseteq DOMAIN ui /\ UiTyped(ui, S, kinds)
    BY DEF DialogInv, ListTyped
  <1>2. PICK dialog : dialog = [kind |-> kind, id |-> id]
    OBVIOUS
  <1>3. /\ ui' = [ui EXCEPT !.dialog = dialog, !.entered = entered, !.value = value]
        /\ UNCHANGED <<calls, db>>
    BY <1>2 DEF Open
  <1>4. /\ ui'.at = ui.at /\ ui'.of = ui.of /\ ui'.rows = ui.rows /\ ui'.dialog = dialog
        /\ ui'.entered = entered /\ ui'.value = value
    BY <1>1, <1>3 DEF DialogFields
  <1>5. UiTyped(ui', S, kinds)
    BY <1>1, <1>2, <1>4 DEF UiTyped
  <1> QED BY <1>3, <1>5 DEF ListTyped

LEMMA EnterTyped ==
  ASSUME NEW S, NEW ops, NEW kinds, ListTyped(S, ops, kinds), DialogInv, NEW value,
         ui.dialog.kind \in kinds => value \in Shown(S), Enter(value)
  PROVE  ListTyped(S, ops, kinds)'
  <1>1. DialogFields \subseteq DOMAIN ui /\ UiTyped(ui, S, kinds)
    BY DEF DialogInv, ListTyped
  <1>2. ui' = [ui EXCEPT !.entered = @ \cup {ui.dialog.id}, !.value = value]
        /\ UNCHANGED <<calls, db>>
    BY DEF Enter
  <1>3. /\ ui'.at = ui.at /\ ui'.of = ui.of /\ ui'.rows = ui.rows /\ ui'.dialog = ui.dialog
        /\ ui'.entered = ui.entered \cup {ui.dialog.id} /\ ui'.value = value
    BY <1>1, <1>2 DEF DialogFields
  <1>4. UiTyped(ui', S, kinds)
    BY <1>1, <1>3 DEF UiTyped
  <1> QED BY <1>2, <1>4 DEF ListTyped

LEMMA ClosesTyped ==
  ASSUME NEW S, NEW kinds, "none" \notin kinds, NEW u, Fit(u, S, kinds)
  PROVE  /\ Fit([u EXCEPT !.dialog = NoDialog], S, kinds) /\ Fit(Gone(u), S, kinds)
         /\ \A k : Fit(Closing(k, u), S, kinds) /\ Fit(Closed(k, u), S, kinds)
  <1>1. NoDialog.kind = "none" /\ NoDialog.id = 0
    BY DEF NoDialog
  <1>2. Fit([u EXCEPT !.dialog = NoDialog], S, kinds)
    <2>1. PICK v : v = [u EXCEPT !.dialog = NoDialog]
      OBVIOUS
    <2>2. /\ DOMAIN v = DOMAIN u /\ v.at = u.at /\ v.of = u.of /\ v.rows = u.rows
          /\ v.dialog = NoDialog /\ v.entered = u.entered
      BY <2>1 DEF Fit, DialogFields
    <2> QED BY <1>1, <2>1, <2>2 DEF Fit, UiTyped
  <1>3. Fit(Gone(u), S, kinds)
    <2>1. PICK v : v = Gone(u)
      OBVIOUS
    <2>2. /\ DOMAIN v = DOMAIN u /\ v.at = u.at /\ v.of = u.of /\ v.rows = u.rows
          /\ v.dialog = NoDialog /\ v.entered = {}
      BY <2>1 DEF Gone, Fit, DialogFields
    <2> QED BY <1>1, <2>1, <2>2 DEF Fit, UiTyped
  <1> QED BY <1>2, <1>3 DEF Closing, Closed

LEMMA FreesTyped ==
  ASSUME NEW S, NEW ops, NEW kinds, ListTyped(S, ops, kinds), DialogInv
  PROVE  /\ Fit(ui, S, kinds)
         /\ \A op : Fit(Free(op), S, kinds) /\ Fit([Free(op) EXCEPT !.entered = {}], S, kinds)
  <1>1. Fit(ui, S, kinds)
    BY DEF Fit, DialogInv, ListTyped
  <1>2. ASSUME NEW op
        PROVE  Fit(Free(op), S, kinds) /\ Fit([Free(op) EXCEPT !.entered = {}], S, kinds)
    <2>1. PICK u : u = Free(op)
      OBVIOUS
    <2>2. DOMAIN u = DOMAIN ui /\ \A f \in TypedFields : u[f] = ui[f]
      BY <1>1, <2>1 DEF Free, Fit, TypedFields, DialogFields
    <2>3. Fit(u, S, kinds)
      BY <1>1, <2>2, TypedAlike DEF Fit
    <2>4. PICK v : v = [u EXCEPT !.entered = {}]
      OBVIOUS
    <2>5. /\ DOMAIN v = DOMAIN u /\ v.at = u.at /\ v.of = u.of /\ v.rows = u.rows
          /\ v.dialog = u.dialog /\ v.entered = {} /\ v.value = u.value
      BY <2>3, <2>4 DEF Fit, DialogFields
    <2>6. Fit(v, S, kinds)
      BY <2>3, <2>5 DEF Fit, UiTyped
    <2> QED BY <2>1, <2>3, <2>4, <2>6
  <1> QED BY <1>1, <1>2

LEMMA DismissTyped ==
  ASSUME NEW S, NEW ops, NEW kinds, ListTyped(S, ops, kinds), DialogInv, "none" \notin kinds,
         Dismiss
  PROVE  ListTyped(S, ops, kinds)'
  <1>1. ui' = [ui EXCEPT !.dialog = NoDialog] /\ UNCHANGED <<calls, db>>
    BY DEF Dismiss
  <1>2. Fit(ui', S, kinds)
    BY <1>1, FreesTyped, ClosesTyped
  <1> QED BY <1>1, <1>2 DEF ListTyped, Fit

LEMMA SubmitTyped ==
  ASSUME NEW S, NEW ops, NEW kinds, ListTyped(S, ops, kinds), DialogInv, NEW op, Submit(op),
         op \in ops => ui.dialog.kind \in kinds
  PROVE  ListTyped(S, ops, kinds)'
  <1>1. DialogFields \subseteq DOMAIN ui /\ UiTyped(ui, S, kinds)
    BY DEF DialogInv, ListTyped
  <1>2. PICK b : b = Call(op, ui)
    OBVIOUS
  <1>3. PICK c : c = [b EXCEPT !.kind = ui.dialog.kind, !.target = ui.dialog.id,
                               !.value = ui.value, !.entered = ui.entered]
    OBVIOUS
  <1>4. calls' = calls \cup {c} /\ ui' = [ui EXCEPT !.busy = @ \cup {op}] /\ UNCHANGED db
    BY <1>2, <1>3 DEF Submit, Begin
  <1>5. Began(b, op) /\ b.at = ui.at /\ CallTyped(b, S, {})
    <2>1. ui.at \in PageNumbers
      BY <1>1 DEF UiTyped
    <2>2. Began(b, op)
      BY <1>2, CallBegan
    <2> QED BY <1>2, <2>1, <2>2, CallMadeTyped
  <1>6. /\ c.at = b.at /\ c.of = b.of /\ c.rows = b.rows /\ c.target = ui.dialog.id
        /\ c.op = op /\ c.value = ui.value
    BY <1>3, <1>5 DEF Began, CallFields
  <1>7. CallTyped(c, S, ops)
    BY <1>1, <1>5, <1>6 DEF CallTyped, UiTyped, RowsTyped
  <1>8. \A f \in TypedFields : ui'[f] = ui[f]
    BY <1>1, <1>4 DEF TypedFields, DialogFields
  <1>9. UiTyped(ui', S, kinds)
    BY <1>1, <1>8, TypedAlike
  <1> QED BY <1>4, <1>7, <1>9 DEF ListTyped

(* A button calls the shop; its flag is not among the types. *)
LEMMA CalledTyped ==
  ASSUME NEW S, NEW ops, NEW kinds, ListTyped(S, ops, kinds), NEW c, CallTyped(c, S, ops),
         calls' = calls \cup {c}, UNCHANGED db, Fit(ui', S, kinds)
  PROVE  ListTyped(S, ops, kinds)'
  BY DEF ListTyped, Fit

(* The shop does what was asked for, or refuses. *)
LEMMA RepliedTyped ==
  ASSUME NEW S, NEW ops, NEW kinds, ListTyped(S, ops, kinds), DialogInv, NEW c \in calls,
         NEW reply, Change(c, [c EXCEPT !.reply = reply]), UNCHANGED ui,
         db'.is \in [Items -> S], DOMAIN db' = DOMAIN db
  PROVE  ListTyped(S, ops, kinds)'
  <1>1. PICK d : d = [c EXCEPT !.reply = reply]
    OBVIOUS
  <1>2. calls' = (calls \ {c}) \cup {d}
    BY <1>1 DEF Change
  <1>3. CallFields \subseteq DOMAIN c /\ CallTyped(c, S, ops)
    BY DEF DialogInv, OwnCall, ListTyped
  <1>4. /\ d.at = c.at /\ d.of = c.of /\ d.rows = c.rows /\ d.target = c.target /\ d.op = c.op
        /\ d.value = c.value
    BY <1>1, <1>3 DEF CallFields
  <1>5. CallTyped(d, S, ops)
    BY <1>3, <1>4 DEF CallTyped
  <1>6. UiTyped(ui', S, kinds)
    BY DEF ListTyped
  <1> QED BY <1>2, <1>5, <1>6, CallStepTyped

LEMMA StateSet ==
  ASSUME NEW S, db.is \in [Items -> S], "is" \in DOMAIN db, NEW i, NEW to \in S,
         db' = [db EXCEPT !.is[i] = to]
  PROVE  db'.is \in [Items -> S] /\ DOMAIN db' = DOMAIN db
  <1>1. db'.is = [db.is EXCEPT ![i] = to] /\ DOMAIN db' = DOMAIN db
    OBVIOUS
  <1>2. PICK is \in [Items -> S] : is = db.is
    OBVIOUS
  <1>3. [is EXCEPT ![i] = to] \in [Items -> S]
    OBVIOUS
  <1> QED BY <1>1, <1>2, <1>3

LEMMA ExecutedTyped ==
  ASSUME NEW S, NEW ops, NEW kinds, ListTyped(S, ops, kinds), DialogInv, NEW c \in calls,
         NEW to \in S, Executed(c, to)
  PROVE  ListTyped(S, ops, kinds)'
  <1>1. /\ Change(c, [c EXCEPT !.reply = "ok"]) /\ UNCHANGED ui
        /\ db' = [db EXCEPT !.is[c.target] = to]
    BY DEF Executed
  <1>2. db'.is \in [Items -> S] /\ DOMAIN db' = DOMAIN db
    BY <1>1, StateSet DEF ListTyped
  <1> QED BY <1>1, <1>2, RepliedTyped

LEMMA EndsTyped ==
  ASSUME NEW S, NEW ops, NEW kinds, ListTyped(S, ops, kinds), NEW c, End(c), Fit(ui', S, kinds),
         db'.is \in [Items -> S], DOMAIN db' = DOMAIN db
  PROVE  ListTyped(S, ops, kinds)'
  <1>1. calls' \subseteq calls
    BY DEF End
  <1> QED BY <1>1, CallStepTyped DEF Fit

LEMMA FailedTyped ==
  ASSUME NEW S, NEW ops, NEW kinds, ListTyped(S, ops, kinds), DialogInv, NEW c, Failed(c)
  PROVE  ListTyped(S, ops, kinds)'
  <1>1. End(c) /\ ui' = Free(c.op) /\ UNCHANGED db
    BY DEF Failed
  <1>2. Fit(ui', S, kinds)
    BY <1>1, FreesTyped
  <1> QED BY <1>1, <1>2, EndsTyped DEF ListTyped

LEMMA LoadsThenTyped ==
  ASSUME NEW S, NEW ops, NEW kinds, ListTyped(S, ops, kinds), "load" \notin ops, DialogInv,
         NEW c \in calls, NEW u, Fit(u, S, kinds), ThenLoad(c, u) \/ AwaitLoad(c, u)
  PROVE  ListTyped(S, ops, kinds)'
  <1>1. CallTyped(c, S, ops) /\ UiTyped(ui, S, kinds)
    BY DEF ListTyped
  <1>2. PICK then : /\ Change(c, [Load(ui, FALSE, then) EXCEPT !.id = c.id,
                                                   !.filter = c.filter, !.at = c.at])
                    /\ ui' = [u EXCEPT !.loading = TRUE] /\ UNCHANGED db
    BY DEF ThenLoad, AwaitLoad
  <1>3. PICK l : l = [Load(ui, FALSE, then) EXCEPT !.id = c.id, !.filter = c.filter, !.at = c.at]
    OBVIOUS
  <1>4. calls' = (calls \ {c}) \cup {l}
    BY <1>2, <1>3 DEF Change
  <1>5. CallTyped(l, S, ops)
    <2>1. c.at \in PageNumbers /\ ui.at \in PageNumbers
      BY <1>1 DEF UiTyped, CallTyped
    <2> QED BY <1>3, <2>1, LoadTyped
  <1>6. \A f \in TypedFields : ui'[f] = u[f]
    BY <1>2 DEF TypedFields, DialogFields, Fit
  <1>7. UiTyped(ui', S, kinds)
    BY <1>6, TypedAlike DEF Fit
  <1> QED BY <1>2, <1>4, <1>5, <1>7 DEF ListTyped

LEMMA OthersTyped ==
  ASSUME NEW S, NEW ops, NEW kinds, ListTyped(S, ops, kinds), NEW i, NEW to \in S,
         OthersChange(i, to)
  PROVE  ListTyped(S, ops, kinds)'
  <1>1. db' = [db EXCEPT !.is[i] = to, !.others = @ + 1] /\ UNCHANGED <<ui, calls>>
    BY DEF OthersChange
  <1>2. PICK d : d = [db EXCEPT !.is[i] = to]
    OBVIOUS
  <1>3. d.is = [db.is EXCEPT ![i] = to] /\ DOMAIN d = DOMAIN db
    BY <1>2 DEF ListTyped
  <1>4. db' = [d EXCEPT !.others = d.others + 1]
    BY <1>1, <1>2
  <1>5. db'.is = d.is /\ DOMAIN db' = DOMAIN db
    BY <1>3, <1>4 DEF ListTyped
  <1>6. db'.is \in [Items -> S]
    <2>1. PICK is \in [Items -> S] : is = db.is
      BY DEF ListTyped
    <2>2. [is EXCEPT ![i] = to] \in [Items -> S]
      OBVIOUS
    <2> QED BY <1>3, <1>5, <2>1, <2>2
  <1> QED BY <1>1, <1>5, <1>6, CallStepTyped DEF ListTyped

-----------------------------------------------------------------------------
(* Payments *)
PaymentsTyped == ListTyped(PaymentState, {}, {})

LEMMA PaymentsTypedNext == DialogInv /\ PaymentsTyped /\ AdminPaymentsNext => PaymentsTyped'
  <1> DEFINE T == ListTyped(PaymentState, {}, {})
  <1> SUFFICES ASSUME DialogInv, T, AdminPaymentsNext
               PROVE  T'
    BY DEF PaymentsTyped
  <1> HIDE DEF T
  <1>1. ASSUME \/ \E f \in {"", "pending"} : PaymentSearch(f) \/ PaymentFilters(f)
               \/ RefreshPayments \/ PaymentPagination \/ LiveRefresh
        PROVE  T'
    <2>1. /\ \/ SearchSubmit \/ (\E f : FilterBy(f) \/ SearchFor(f)) \/ Loading(ui, "")
             \/ (\E to : TurnTo(to) \/ PageChanged(to)) \/ LiveRefresh
          /\ UNCHANGED db
      BY <1>1 DEF PaymentSearch, PaymentFilters, RefreshPayments, PaymentPagination,
                  SearchSubmit, FilterBy, SearchFor, PageChanged, TurnTo, LiveRefresh
    <2> QED BY <2>1, ListLooksTyped DEF T
  <1>2. CASE Dismiss \/ ConfirmModal
    BY <1>2, DismissTyped, EnterTyped DEF ConfirmModal, T
  <1>3. CASE HandleConfirmAction \/ HandleRejectAction
    BY <1>3, SubmitTyped DEF HandleConfirmAction, HandleRejectAction, T
  <1>4. CASE \E row \in ui.rows : AskConfirm(row) \/ AskReject(row)
    <2>1. PICK row \in ui.rows, kind \in {"confirm", "reject"} : Open(kind, row.id, {}, "")
      BY <1>4 DEF AskConfirm, AskReject
    <2>2. PICK id \in Items \cup {0} : id = row.id
      BY DEF T, ListTyped, UiTyped, RowsTyped
    <2> QED BY <2>1, <2>2, OpenTyped DEF T
  <1>5. ASSUME NEW c \in calls, ReadRows(c) \/ LoadPayments(c)
        PROVE  T'
    BY <1>5, ReadRowsTyped, LoadedTyped DEF LoadPayments, T
  <1>6. ASSUME NEW c \in calls, PaymentConfirmed(c) \/ PaymentRejected(c) \/ Failed(c)
        PROVE  T'
    <2>1. Failed(c) \/ \E to \in PaymentState : Executed(c, to)
      BY <1>6 DEF PaymentConfirmed, PaymentRejected, PaymentState
    <2> QED BY <2>1, ExecutedTyped, FailedTyped DEF T
  <1>7. ASSUME NEW c \in calls, ConfirmDone(c) \/ RejectDone(c)
        PROVE  T'
    <2>1. PICK u : Fit(u, PaymentState, {}) /\ ThenLoad(c, u)
      BY <1>7, FreesTyped, ClosesTyped DEF ConfirmDone, RejectDone, T
    <2> QED BY <2>1, LoadsThenTyped DEF T
  <1>8. ASSUME NEW i, NEW to \in {"expired", "paid"}, OthersChange(i, to)
        PROVE  T'
    BY <1>8, OthersTyped DEF PaymentState, T
  <1> QED BY <1>1, <1>2, <1>3, <1>4, <1>5, <1>6, <1>7, <1>8 DEF AdminPaymentsNext

-----------------------------------------------------------------------------
(* Users: the balances, and whose details are open. *)
UserHandlers == {"status", "role"}
UsersTyped ==
  /\ ListTyped(UserState, UserHandlers, UserHandlers)
  /\ "detail" \in DOMAIN ui /\ ui.detail \in Items \cup {0}
  /\ "adjusted" \in DOMAIN db /\ db.adjusted \in [Items -> 0 .. MaxAdjusted]

LEMMA UsersRest ==
  ASSUME UsersTyped, ListTyped(UserState, UserHandlers, UserHandlers)', Rest(ui'),
         UNCHANGED db \/ (DOMAIN db' = DOMAIN db /\ db'.adjusted = db.adjusted)
  PROVE  UsersTyped'
  <1>1. ui'["detail"] = ui["detail"] /\ "detail" \in DOMAIN ui'
    BY DEF UsersTyped, Rest, DialogFields
  <1> QED BY <1>1 DEF UsersTyped

LEMMA UsersTypedNext == DialogInv /\ UsersTyped /\ AdminUsersNext => UsersTyped'
  <1> DEFINE T == ListTyped(UserState, UserHandlers, UserHandlers)
  <1> SUFFICES ASSUME DialogInv, UsersTyped, AdminUsersNext
               PROVE  UsersTyped'
    OBVIOUS
  <1>a. T /\ "load" \notin UserHandlers /\ "none" \notin UserHandlers
    BY DEF UsersTyped, UserHandlers
  <1>b. DialogFields \subseteq DOMAIN ui
    BY DEF DialogInv
  <1> HIDE DEF T
  <1>1. ASSUME \/ \E f \in {"", "active"} : UserSearch(f) \/ UserFilters(f)
               \/ RefreshUsers \/ UserPagination
        PROVE  UsersTyped'
    <2>1. /\ \/ SearchSubmit \/ (\E f : FilterBy(f) \/ SearchFor(f)) \/ Loading(ui, "")
             \/ (\E to : TurnTo(to) \/ PageChanged(to)) \/ LiveRefresh
          /\ UNCHANGED db
      BY <1>1 DEF UserSearch, UserFilters, RefreshUsers, UserPagination,
                  SearchSubmit, FilterBy, SearchFor, PageChanged, TurnTo
    <2> QED BY <1>a, <2>1, ListLooksTyped, ListRest, UsersRest DEF T
  <1>2. CASE UserDetailModal
    <2>1. ui' = [ui EXCEPT !.detail = 0] /\ UNCHANGED <<calls, db>>
      BY <1>2 DEF UserDetailModal
    <2>2. \A f \in TypedFields : ui'[f] = ui[f]
      BY <1>b, <2>1 DEF TypedFields, DialogFields
    <2>3. ui'.detail = 0 /\ DOMAIN ui' = DOMAIN ui
      BY <2>1 DEF UsersTyped
    <2>4. Fit(ui', UserState, UserHandlers)
      BY <1>a, <2>2, <2>3, ListAsItWas DEF T
    <2> QED BY <2>1, <2>3, <2>4 DEF UsersTyped, ListTyped, Fit
  <1>3. CASE StatusDialog \/ WalletModal \/ Dismiss
    <2>1. ASSUME NEW value, Enter(value), ui.dialog.kind \in UserHandlers => value \in Shown(UserState)
          PROVE  T'
      BY <1>a, <2>1, EnterTyped DEF T
    <2>2. StatusDialog => \E value : Enter(value) /\ value = ui.value
      BY DEF StatusDialog
    <2>3. WalletModal => Enter("") /\ ui.dialog.kind \notin UserHandlers
      BY DEF WalletModal, InFront, In, UserHandlers
    <2>4. ui.dialog.kind \in UserHandlers => ui.value \in Shown(UserState)
      BY <1>a DEF T, ListTyped, UiTyped
    <2>5. T' /\ Rest(ui') /\ UNCHANGED db
      <3>1. CASE Dismiss
        BY <1>a, <3>1, DismissTyped, DialogRest DEF T, Dismiss
      <3>2. CASE \E value : Enter(value) /\ (ui.dialog.kind \in UserHandlers => value \in Shown(UserState))
        BY <2>1, <3>2, DialogRest DEF Enter
      <3> QED BY <1>3, <2>2, <2>3, <2>4, <3>1, <3>2
    <2> QED BY <2>5, UsersRest DEF T
  <1>4. CASE HandleConfirmStatusChange \/ RoleDialog \/ HandleConfirmWalletAdjust
    <2>1. PICK op : Submit(op) /\ (op \in UserHandlers => ui.dialog.kind \in UserHandlers)
      BY <1>4 DEF HandleConfirmStatusChange, RoleDialog, HandleConfirmWalletAdjust, InFront, In,
                  UserHandlers
    <2>2. T' /\ Rest(ui') /\ UNCHANGED db
      BY <1>a, <2>1, SubmitTyped, DialogRest DEF T, Submit
    <2> QED BY <2>2, UsersRest DEF T
  <1>5. ASSUME NEW row \in ui.rows, HandleOpenUser(row)
        PROVE  UsersTyped'
    <2>1. PICK b : b = Call("detail", ui)
      OBVIOUS
    <2>2. PICK c : c = [b EXCEPT !.target = row.id]
      OBVIOUS
    <2>3. calls' = calls \cup {c} /\ UNCHANGED <<ui, db>>
      BY <1>5, <2>1, <2>2 DEF HandleOpenUser, Begin
    <2>4. Began(b, "detail")
      BY <2>1, CallBegan
    <2>5. ui.at \in PageNumbers /\ row.id \in Items
      BY <1>a DEF T, ListTyped, UiTyped, RowsTyped
    <2>6. CallTyped(b, UserState, UserHandlers)
      BY <2>1, <2>5, CallMadeTyped DEF UserHandlers
    <2>7. /\ c.at = b.at /\ c.of = b.of /\ c.rows = b.rows /\ c.target = row.id
          /\ c.op = b.op /\ c.value = b.value
      BY <2>2, <2>4 DEF Began, CallFields
    <2>8. CallTyped(c, UserState, UserHandlers)
      BY <2>5, <2>6, <2>7 DEF CallTyped
    <2> QED BY <2>3, <2>8 DEF UsersTyped, ListTyped
  <1>6. ASSUME NEW row \in ui.rows, AskStatus(row) \/ AskRole(row) \/ AskWallet(row)
        PROVE  UsersTyped'
    <2>1. row.id \in Items
      BY <1>a DEF T, ListTyped, UiTyped, RowsTyped
    <2>2. ASSUME NEW kind, NEW entered, NEW value, Open(kind, row.id, entered, value),
                 entered \subseteq {row.id}, kind \in UserHandlers => value \in Shown(UserState)
          PROVE  UsersTyped'
      <3>1. PICK id \in Items \cup {0} : id = row.id
        BY <2>1
      <3>2. Open(kind, id, entered, value)
        BY <2>2, <3>1
      <3>3. ListTyped(UserState, UserHandlers, UserHandlers)'
        BY <1>a, <2>2, <3>1, <3>2, OpenTyped DEF T
      <3>4. Rest(ui')
        BY <3>2, DialogRest
      <3>5. UNCHANGED db
        BY <3>2 DEF Open
      <3> QED BY <3>3, <3>4, <3>5, UsersRest
    <2>3. {"active", "locked", "admin"} \subseteq Shown(UserState)
      BY DEF Shown, UserState
    <2>4. CASE AskStatus(row)
      <3>1. PICK value : Open("status", row.id, {}, value) /\ value \in Shown(UserState)
        BY <2>3, <2>4 DEF AskStatus
      <3> QED BY <2>2, <3>1
    <2>5. CASE AskRole(row)
      <3>1. PICK value : Open("role", row.id, {row.id}, value) /\ value \in Shown(UserState)
        BY <2>3, <2>5 DEF AskRole
      <3> QED BY <2>2, <3>1
    <2>6. CASE AskWallet(row)
      <3>0. PICK kind, value : kind = "wallet" /\ value = ""
        OBVIOUS
      <3>1. Open(kind, row.id, {}, value) /\ kind \notin UserHandlers
        BY <2>6, <3>0 DEF AskWallet, UserHandlers
      <3> QED BY <2>2, <3>1
    <2> QED BY <1>6, <2>4, <2>5, <2>6
  <1>7. ASSUME NEW c \in calls, UserDetailAnswered(c)
        PROVE  UsersTyped'
    <2>1. End(c) /\ ui' \in {ui, [ui EXCEPT !.detail = c.target]} /\ UNCHANGED db
      BY <1>7 DEF UserDetailAnswered
    <2>2. \A f \in TypedFields : ui'[f] = ui[f]
      BY <1>b, <2>1 DEF TypedFields, DialogFields
    <2>3. ui'.detail \in {ui.detail, c.target} /\ DOMAIN ui' = DOMAIN ui
      BY <2>1 DEF UsersTyped
    <2>4. Fit(ui', UserState, UserHandlers)
      BY <1>a, <2>2, <2>3, ListAsItWas DEF T
    <2>5. T'
      BY <1>a, <2>1, <2>4, EndsTyped DEF T, ListTyped
    <2>6. c.target \in Items \cup {0}
      BY <1>a DEF T, ListTyped, CallTyped
    <2> QED BY <2>1, <2>3, <2>5, <2>6 DEF UsersTyped, T
  <1>8. ASSUME NEW c \in calls, ReadRows(c) \/ LoadUsers(c)
        PROVE  UsersTyped'
    <2>1. T' /\ Rest(ui')
      BY <1>a, <1>8, ReadRowsTyped, LoadedTyped, LoadedRest DEF T, LoadUsers, ReadRows, Rest
    <2>2. UNCHANGED db
      BY <1>8 DEF ReadRows, LoadUsers, Loaded, ShowRows
    <2> QED BY <2>1, <2>2, UsersRest DEF T
  <1>9. ASSUME NEW c \in calls, UserStatusChanged(c) \/ RoleChanged(c)
        PROVE  UsersTyped'
    <2>1. PICK to \in Shown(UserState) : Executed(c, to)
      BY <1>9, <1>a DEF UserStatusChanged, RoleChanged, T, ListTyped, CallTyped, UserHandlers
    <2>2. T'
      BY <1>a, <2>1, ExecutedTyped DEF T, Shown
    <2>3. UNCHANGED ui /\ DOMAIN db' = DOMAIN db /\ db'.adjusted = db.adjusted
      BY <2>1 DEF Executed, UsersTyped
    <2> QED BY <2>2, <2>3 DEF UsersTyped, T
  <1>10. ASSUME NEW c \in calls, WalletAdjusted(c)
         PROVE  UsersTyped'
    <2>1. /\ db' = [db EXCEPT !.adjusted[c.target] = @ + 1] /\ UNCHANGED ui
          /\ Change(c, [c EXCEPT !.reply = "ok"]) /\ db.adjusted[c.target] < MaxAdjusted
      BY <1>10 DEF WalletAdjusted
    <2>2. PICK adjusted \in [Items -> 0 .. MaxAdjusted] : adjusted = db.adjusted
      BY DEF UsersTyped
    <2>3. [adjusted EXCEPT ![c.target] = @ + 1] \in [Items -> 0 .. MaxAdjusted]
      <3>1. c.target \in Items => adjusted[c.target] + 1 \in 0 .. MaxAdjusted
        BY <2>1, <2>2, AdminUsersAssumption
      <3> QED BY <2>2, <3>1
    <2>4. /\ DOMAIN db' = DOMAIN db /\ db'.is = db.is
          /\ db'.adjusted = [adjusted EXCEPT ![c.target] = @ + 1]
      BY <2>1, <2>2 DEF UsersTyped, ListTyped
    <2>5. T'
      BY <1>a, <2>1, <2>4, RepliedTyped DEF T, ListTyped
    <2> QED BY <2>1, <2>3, <2>4, <2>5 DEF UsersTyped, T
  <1>11. ASSUME NEW c \in calls, StatusDone(c) \/ RoleDone(c) \/ WalletDone(c) \/ Failed(c)
         PROVE  UsersTyped'
    <2>1. CASE Failed(c)
      BY <1>a, <2>1, FailedTyped, HandlerRest, UsersRest DEF T, Failed
    <2>2. CASE StatusDone(c) \/ RoleDone(c) \/ WalletDone(c)
      <3>1. PICK u : From(u, {c.op}) /\ Fit(u, UserState, UserHandlers) /\ ThenLoad(c, u)
        BY <1>a, <2>2, Frees, Closes, FreesTyped, ClosesTyped DEF StatusDone, RoleDone, WalletDone, T
      <3>2. T' /\ Rest(ui') /\ UNCHANGED db
        BY <1>a, <3>1, LoadsThenTyped, HandlerRest DEF T, ThenLoad
      <3> QED BY <3>2, UsersRest DEF T
    <2> QED BY <1>11, <2>1, <2>2
  <1>12. ASSUME NEW i, NEW to \in {"active", "locked"}, OthersChange(i, to)
         PROVE  UsersTyped'
    <2>1. T'
      BY <1>a, <1>12, OthersTyped DEF T, UserState
    <2>2. UNCHANGED ui /\ DOMAIN db' = DOMAIN db /\ db'.adjusted = db.adjusted
      BY <1>12 DEF OthersChange, UsersTyped
    <2> QED BY <2>1, <2>2 DEF UsersTyped, T
  <1>13. CASE LiveRefresh
    BY <1>a, <1>13, ListLooksTyped, ListRest, UsersRest DEF T, LiveRefresh
  <1> QED BY <1>1, <1>2, <1>3, <1>4, <1>5, <1>6, <1>7, <1>8, <1>9, <1>10, <1>11, <1>12
          DEF AdminUsersNext

-----------------------------------------------------------------------------
(* The coupons: a switch shows what it sent, and the figures are of a coupon. *)
CouponStates == CouponState \cup {"absent"}
CouponHandlers == {"save", "toggle"}
CouponForms == {"create", "edit"}
CouponsTyped ==
  /\ ListTyped(CouponStates, CouponHandlers, CouponForms)
  /\ ui.stats.shown \in Items \cup {0} /\ ui.busy \subseteq {"save", "delete"}

(* Flags are raised by the handlers of dialogs alone. *)
LEMMA BusyKept ==
  ASSUME DialogInv,
         \/ Loading(ui, "") \/ (\E to : TurnTo(to))
         \/ (\E f : Refilter([ui EXCEPT !.filter = f, !.at = 1]))
         \/ (\E kind, id, entered, value : Open(kind, id, entered, value))
         \/ (\E value : Enter(value)) \/ Dismiss
         \/ (\E c \in calls : ReadRows(c) \/ Loaded(c) \/ Failed(c))
         \/ (\E c, u, flags : From(u, flags) /\ ThenLoad(c, u))
  PROVE  ui'.busy \subseteq ui.busy
  <1>1. DialogFields \subseteq DOMAIN ui
    BY DEF DialogInv
  <1>2. ASSUME NEW u, DOMAIN u = DOMAIN ui, u.busy = ui.busy, LoadsOrNot(u, "")
        PROVE  ui'.busy \subseteq ui.busy
    <2>1. ui'["busy"] = u["busy"]
      BY <1>1, <1>2 DEF LoadsOrNot, SameBut, DialogFields
    <2> QED BY <1>2, <2>1
  <1>3. ASSUME NEW f, NEW to,
               Refilter([ui EXCEPT !.filter = f, !.at = 1]) \/ Refilter([ui EXCEPT !.at = to])
        PROVE  ui'.busy \subseteq ui.busy
    <2>1. PICK u : /\ Refilter(u)
                   /\ u \in {[ui EXCEPT !.filter = f, !.at = 1], [ui EXCEPT !.at = to]}
      BY <1>3
    <2>2. DOMAIN u = DOMAIN ui /\ u.busy = ui.busy
      BY <1>1, <2>1 DEF DialogFields
    <2> QED BY <1>2, <2>1, <2>2, RefilterLoads
  <1>4. CASE Loading(ui, "")
    BY <1>2, <1>4, LoadingLoads
  <1>5. ASSUME NEW c \in calls, Loaded(c)
        PROVE  ui'.busy \subseteq ui.busy
    <2>1. PICK done : done = [ui EXCEPT !.loading = @ /\ c.silent, !.busy = @ \ {c.then}]
      OBVIOUS
    <2>2. ShowRows(c, done) /\ DOMAIN done = DOMAIN ui /\ done.busy = ui.busy \ {c.then}
      BY <1>1, <1>5, <2>1 DEF Loaded, DialogFields
    <2>3. SameBut(done, {"rows", "of", "at", "loading"})
      BY <1>1, <2>2, RowsShown DEF DialogFields
    <2>4. ui'["busy"] = done["busy"]
      BY <1>1, <2>2, <2>3 DEF SameBut, DialogFields
    <2> QED BY <2>2, <2>4
  <1>6. ASSUME NEW c \in calls, Failed(c)
        PROVE  ui'.busy \subseteq ui.busy
    <2>1. ui' = Free(c.op)
      BY <1>6 DEF Failed
    <2> QED BY <2>1, Frees DEF From, Left
  <1>7. ASSUME NEW c, NEW u, NEW flags, From(u, flags), ThenLoad(c, u)
        PROVE  ui'.busy \subseteq ui.busy
    <2>1. /\ ui' = [u EXCEPT !.loading = TRUE] /\ DialogFields \subseteq DOMAIN u
          /\ u.busy = ui.busy \ flags
      BY <1>7 DEF From, Left, ThenLoad
    <2>2. ui'.busy = u.busy
      BY <2>1 DEF DialogFields
    <2> QED BY <2>1, <2>2
  <1>8. CASE \/ (\E kind, id, entered, value : Open(kind, id, entered, value))
             \/ (\E value : Enter(value)) \/ Dismiss \/ (\E c \in calls : ReadRows(c))
    BY <1>1, <1>8 DEF Open, Enter, Dismiss, ReadRows, DialogFields
  <1> QED BY <1>3, <1>4, <1>5, <1>6, <1>7, <1>8 DEF TurnTo

LEMMA CouponsRest ==
  ASSUME CouponsTyped, StatsWait, ListTyped(CouponStates, CouponHandlers, CouponForms)',
         Rest(ui'), ui'.busy \subseteq ui.busy \cup {"save", "delete"}
  PROVE  CouponsTyped'
  <1>1. ui'["stats"] = ui["stats"]
    BY DEF StatsWait, Rest, DialogFields
  <1> QED BY <1>1 DEF CouponsTyped

LEMMA CouponsTypedNext ==
  DialogInv /\ StatsWait /\ CouponsTyped /\ AdminCouponsNext => CouponsTyped'
  <1> DEFINE T == ListTyped(CouponStates, CouponHandlers, CouponForms)
  <1> SUFFICES ASSUME DialogInv, StatsWait, CouponsTyped, AdminCouponsNext
               PROVE  CouponsTyped'
    OBVIOUS
  <1>a. /\ T /\ "load" \notin CouponHandlers /\ "none" \notin CouponForms
        /\ Shown(CouponStates) = CouponState
    BY DEF CouponsTyped, CouponHandlers, CouponForms, Shown, CouponStates, CouponState
  <1>b. DialogFields \subseteq DOMAIN ui
    BY DEF DialogInv
  <1>c. \A state : Opposite(state) \in CouponState
    BY DEF Opposite, CouponState
  <1>d. ASSUME NEW row \in ui.rows
        PROVE  {"id", "is"} \subseteq DOMAIN row /\ row.id \in Items /\ row.is \in CouponState
    BY <1>a DEF T, ListTyped, UiTyped, RowsTyped
  <1>e. ASSUME NEW c \in calls
        PROVE  CallTyped(c, CouponStates, CouponHandlers) /\ CallFields \subseteq DOMAIN c
    BY <1>a DEF T, ListTyped, DialogInv, OwnCall
  <1> HIDE DEF T
  <1>f. ASSUME T', Rest(ui'), ui'.busy \subseteq ui.busy
        PROVE  CouponsTyped'
    BY <1>f, CouponsRest DEF T
  <1>1. CASE RefreshCoupons \/ CouponPagination
             \/ \E f \in {"", "active", "inactive"} : CouponFilters(f)
    <2>1. /\ \/ Loading(ui, "") \/ (\E to : TurnTo(to))
             \/ (\E f : Refilter([ui EXCEPT !.filter = f, !.at = 1]))
          /\ UNCHANGED db
      BY <1>1 DEF RefreshCoupons, CouponPagination, CouponFilters, TurnTo
    <2>2. T'
      BY <1>a, <2>1, ListLooksTyped DEF T
    <2> QED BY <1>f, <2>1, <2>2, ListRest, BusyKept
  <1>2. CASE HandleOpenCreate \/ \E row \in ui.rows : HandleOpenEdit(row) \/ AskDeleteCoupon(row)
    <2>1. ASSUME NEW kind, NEW id \in Items \cup {0}, NEW entered, NEW value,
                 Open(kind, id, entered, value), entered \subseteq {id},
                 kind \in CouponForms => value \in CouponState
          PROVE  CouponsTyped'
      <3>1. T'
        BY <1>a, <2>1, OpenTyped DEF T
      <3> QED BY <1>f, <2>1, <3>1, DialogRest, BusyKept
    <2>2. CASE HandleOpenCreate
      <3>1. PICK id \in Items \cup {0} : id = 0
        OBVIOUS
      <3>2. PICK kind, value : kind = "create" /\ value = "active"
        OBVIOUS
      <3>3. Open(kind, id, {}, value) /\ value \in CouponState
        BY <2>2, <3>1, <3>2 DEF HandleOpenCreate, CouponState
      <3> QED BY <2>1, <3>3
    <2>3. ASSUME NEW row \in ui.rows, HandleOpenEdit(row)
          PROVE  CouponsTyped'
      <3>1. PICK id \in Items : id = row.id
        BY <1>d
      <3>2. PICK kind, value : Open(kind, id, {id}, value) /\ value \in CouponState
        BY <1>d, <2>3, <3>1 DEF HandleOpenEdit
      <3> QED BY <2>1, <3>2
    <2>4. ASSUME NEW row \in ui.rows, AskDeleteCoupon(row)
          PROVE  CouponsTyped'
      <3>1. PICK id \in Items : id = row.id
        BY <1>d
      <3>2. PICK kind, value : Open(kind, id, {}, value) /\ kind = "delete"
        BY <2>4, <3>1 DEF AskDeleteCoupon
      <3>3. kind \notin CouponForms
        BY <3>2 DEF CouponForms
      <3> QED BY <2>1, <3>2, <3>3
    <2> QED BY <1>2, <2>2, <2>3, <2>4
  <1>3. CASE CouponFields \/ CouponPlans \/ ActiveBox \/ Dismiss
    <2>1. CASE Dismiss
      BY <1>a, <1>f, <2>1, DismissTyped, DialogRest, BusyKept DEF T
    <2>2. ASSUME NEW value, Enter(value), ui.dialog.kind \in CouponForms => value \in CouponState
          PROVE  CouponsTyped'
      <3>1. T'
        BY <1>a, <2>2, EnterTyped DEF T
      <3> QED BY <1>f, <2>2, <3>1, DialogRest, BusyKept
    <2>3. ui.dialog.kind \in CouponForms => ui.value \in CouponState
      BY <1>a DEF T, ListTyped, UiTyped
    <2>4. CouponFields => \E value : Enter(value) /\ value = ui.value
      BY DEF CouponFields
    <2>5. ActiveBox => \E value : Enter(value) /\ value \in CouponState
      BY <1>c DEF ActiveBox
    <2> QED BY <1>3, <2>1, <2>2, <2>3, <2>4, <2>5 DEF CouponPlans
  <1>4. CASE HandleSaveCoupon \/ CouponDeleteDialog
    <2>1. PICK op \in {"save", "delete"} :
            Submit(op) /\ (op \in CouponHandlers => ui.dialog.kind \in CouponForms)
      BY <1>4 DEF HandleSaveCoupon, CouponDeleteDialog, CouponForms, CouponHandlers, In
    <2>2. T'
      BY <1>a, <2>1, SubmitTyped DEF T
    <2>3. ui'.busy = ui.busy \cup {op}
      BY <1>b, <2>1 DEF Submit, DialogFields
    <2> QED BY <2>1, <2>2, <2>3, DialogRest, CouponsRest DEF T
  <1>5. ASSUME NEW row \in ui.rows, NEW op \in {"toggle", "stats"}, NEW value \in CouponState,
               NEW c, \/ c = [Call(op, ui) EXCEPT !.target = row.id, !.value = value]
                      \/ op = "stats" /\ c = [Call(op, ui) EXCEPT !.target = row.id]
        PROVE  CallTyped(c, CouponStates, CouponHandlers)
    <2>1. PICK b : b = Call(op, ui)
      OBVIOUS
    <2>2. Began(b, op)
      BY <2>1, CallBegan
    <2>3. CallTyped(b, CouponStates, {}) /\ ui.at \in PageNumbers
      BY <1>a, <2>1, CallMadeTyped DEF T, ListTyped, UiTyped
    <2>4. /\ c.at = b.at /\ c.of = b.of /\ c.rows = b.rows /\ c.target = row.id /\ c.op = op
          /\ op = "toggle" => c.value = value
      BY <1>5, <2>1, <2>2 DEF Began, CallFields
    <2> QED BY <1>a, <1>d, <2>3, <2>4 DEF CallTyped, CouponHandlers
  <1>6. ASSUME NEW row \in ui.rows, HandleToggleActive(row)
        PROVE  CouponsTyped'
    <2>1. PICK c : c = [Call("toggle", ui) EXCEPT !.target = row.id, !.value = Opposite(row.is)]
      OBVIOUS
    <2>2. calls' = calls \cup {c} /\ UNCHANGED <<ui, db>>
      BY <1>6, <2>1 DEF HandleToggleActive, Begin
    <2>3. CallTyped(c, CouponStates, CouponHandlers)
      BY <1>c, <1>5, <2>1
    <2>4. Fit(ui', CouponStates, CouponForms)
      BY <1>a, <2>2, FreesTyped DEF T
    <2>5. T'
      BY <1>a, <2>2, <2>3, <2>4, CalledTyped DEF T
    <2> QED BY <1>f, <2>2, <2>5 DEF Rest
  <1>7. ASSUME NEW row \in ui.rows, HandleOpenStats(row)
        PROVE  CouponsTyped'
    <2>1. PICK c : c = [Call("stats", ui) EXCEPT !.target = row.id]
      OBVIOUS
    <2>2. /\ calls' = calls \cup {c} /\ UNCHANGED db
          /\ ui' = [ui EXCEPT !.dialog = [kind |-> "stats", id |-> row.id],
                              !.stats = [shown |-> 0, wait |-> TRUE]]
      BY <1>7, <2>1 DEF HandleOpenStats, Begin
    <2>3. "active" \in CouponState
      BY DEF CouponState
    <2>4. CallTyped(c, CouponStates, CouponHandlers)
      BY <1>5, <2>1, <2>3
    <2>5. /\ DOMAIN ui' = DOMAIN ui /\ ui'.at = ui.at /\ ui'.of = ui.of /\ ui'.rows = ui.rows
          /\ ui'.dialog = [kind |-> "stats", id |-> row.id] /\ ui'.entered = ui.entered
          /\ ui'.stats = [shown |-> 0, wait |-> TRUE] /\ ui'.busy = ui.busy
      BY <1>b, <2>2 DEF DialogFields, StatsWait
    <2>6. ui'.dialog.kind \notin CouponForms /\ ui'.dialog.id = row.id
      BY <2>5 DEF CouponForms
    <2>7. Fit(ui', CouponStates, CouponForms)
      BY <1>a, <1>b, <1>d, <2>5, <2>6 DEF T, ListTyped, Fit, UiTyped
    <2>8. T'
      BY <1>a, <2>2, <2>4, <2>7, CalledTyped DEF T
    <2> QED BY <2>5, <2>8 DEF CouponsTyped, T
  <1>8. ASSUME NEW c \in calls, StatsAnswered(c) \/ PlansForForm(c)
        PROVE  CouponsTyped'
    <2>1. /\ End(c) /\ UNCHANGED db
          /\ ui' \in {ui, [ui EXCEPT !.plans = TRUE], [ui EXCEPT !.stats.wait = FALSE],
                      [ui EXCEPT !.stats = [shown |-> c.target, wait |-> FALSE]]}
      BY <1>8 DEF StatsAnswered, PlansForForm
    <2>2. /\ DOMAIN ui' = DOMAIN ui /\ \A f \in TypedFields : ui'[f] = ui[f]
          /\ ui'.busy = ui.busy
      BY <1>b, <2>1 DEF TypedFields, DialogFields
    <2>3. Fit(ui', CouponStates, CouponForms)
      BY <1>a, <2>2, ListAsItWas DEF T
    <2>4. T'
      BY <1>a, <2>1, <2>3, EndsTyped DEF T, ListTyped
    <2>5. ui'.stats.shown \in {ui.stats.shown, c.target}
      BY <2>1 DEF StatsWait
    <2>6. c.target \in Items \cup {0}
      BY <1>e DEF CallTyped
    <2> QED BY <2>2, <2>4, <2>5, <2>6 DEF CouponsTyped, T
  <1>9. ASSUME NEW c \in calls, ToggleDone(c)
        PROVE  CouponsTyped'
    <2>1. PICK rows : rows = {IF row.id = c.target THEN [row EXCEPT !.is = c.value]
                              ELSE row : row \in ui.rows}
      OBVIOUS
    <2>2. /\ End(c) /\ UNCHANGED db /\ c.op = "toggle" /\ ui' \in {ui, [ui EXCEPT !.rows = rows]}
      BY <1>9, <2>1 DEF ToggleDone
    <2>3. c.value \in CouponState
      BY <1>a, <1>e, <2>2 DEF CallTyped, CouponHandlers
    <2>4. RowsTyped(rows, CouponStates)
      <3> SUFFICES ASSUME NEW r \in rows
                   PROVE  {"id", "is"} \subseteq DOMAIN r /\ r.id \in Items /\ r.is \in CouponState
        BY <1>a DEF RowsTyped
      <3>1. PICK row \in ui.rows : r \in {row, [row EXCEPT !.is = c.value]}
        BY <2>1
      <3>2. DOMAIN r = DOMAIN row /\ r.id = row.id /\ r.is \in {row.is, c.value}
        BY <1>d, <3>1
      <3> QED BY <1>d, <2>3, <3>2
    <2>5. /\ DOMAIN ui' = DOMAIN ui /\ ui'.at = ui.at /\ ui'.of = ui.of
          /\ ui'.rows \in {ui.rows, rows} /\ ui'.dialog = ui.dialog /\ ui'.entered = ui.entered
          /\ ui'.value = ui.value /\ ui'.busy = ui.busy /\ Rest(ui')
      BY <1>b, <2>2 DEF DialogFields, Rest
    <2>6. Fit(ui', CouponStates, CouponForms)
      BY <1>a, <1>b, <2>4, <2>5 DEF T, ListTyped, Fit, UiTyped
    <2>7. T'
      BY <1>a, <2>2, <2>6, EndsTyped DEF T, ListTyped
    <2> QED BY <1>f, <2>5, <2>7
  <1>10. ASSUME NEW c \in calls, ReadRows(c) \/ LoadCoupons(c)
         PROVE  CouponsTyped'
    <2>1. ReadRows(c) \/ Loaded(c)
      BY <1>10 DEF LoadCoupons
    <2>2. T' /\ Rest(ui')
      BY <1>a, <2>1, ReadRowsTyped, LoadedTyped, LoadedRest DEF T, ReadRows, Rest
    <2> QED BY <1>f, <2>1, <2>2, BusyKept
  <1>11. ASSUME NEW c \in calls, CouponSaved(c) \/ CouponToggled(c) \/ CouponDeleted(c)
         PROVE  CouponsTyped'
    <2>1. c.op \in CouponHandlers => c.value \in CouponState
      BY <1>a, <1>e DEF CallTyped
    <2>2. ASSUME NEW i, NEW to \in CouponStates, db' = [db EXCEPT !.is[i] = to], UNCHANGED ui,
                 Change(c, [c EXCEPT !.reply = "ok"])
          PROVE  CouponsTyped'
      <3>1. db'.is \in [Items -> CouponStates] /\ DOMAIN db' = DOMAIN db
        BY <1>a, <2>2, StateSet DEF T, ListTyped
      <3>2. T'
        BY <1>a, <2>2, <3>1, RepliedTyped DEF T
      <3> QED BY <1>f, <2>2, <3>2 DEF Rest
    <2>3. ASSUME NEW to \in CouponStates, Executed(c, to)
          PROVE  CouponsTyped'
      BY <2>2, <2>3 DEF Executed
    <2>4. c.op \in {"save", "toggle"} => c.value \in CouponStates
      BY <2>1 DEF CouponHandlers, CouponStates
    <2>5. CASE CouponSaved(c)
      <3>1. PICK value \in CouponStates : value = c.value
        BY <2>4, <2>5 DEF CouponSaved
      <3>2. \/ Executed(c, value)
            \/ \E i : /\ db' = [db EXCEPT !.is[i] = value] /\ UNCHANGED ui
                      /\ Change(c, [c EXCEPT !.reply = "ok"])
        BY <2>5, <3>1 DEF CouponSaved
      <3> QED BY <2>2, <2>3, <3>2
    <2>6. CASE CouponToggled(c) \/ CouponDeleted(c)
      <3>1. PICK value \in CouponStates : Executed(c, value)
        BY <2>4, <2>6 DEF CouponToggled, CouponDeleted, CouponStates
      <3> QED BY <2>3, <3>1
    <2> QED BY <1>11, <2>5, <2>6
  <1>12. ASSUME NEW c \in calls, SaveDone(c) \/ DeleteDone(c) \/ Failed(c)
         PROVE  CouponsTyped'
    <2>1. CASE Failed(c)
      BY <1>a, <1>f, <2>1, FailedTyped, HandlerRest, BusyKept DEF T
    <2>2. CASE SaveDone(c) \/ DeleteDone(c)
      <3>1. PICK u : From(u, {c.op}) /\ Fit(u, CouponStates, CouponForms) /\ ThenLoad(c, u)
        BY <1>a, <2>2, Frees, Closes, FreesTyped, ClosesTyped DEF SaveDone, DeleteDone, T
      <3>2. T' /\ Rest(ui')
        BY <1>a, <3>1, LoadsThenTyped, HandlerRest DEF T
      <3> QED BY <1>f, <3>1, <3>2, BusyKept
    <2> QED BY <1>12, <2>1, <2>2
  <1>13. ASSUME NEW i, OthersChange(i, Opposite(db.is[i]))
         PROVE  CouponsTyped'
    <2>1. Opposite(db.is[i]) \in CouponStates
      BY <1>c DEF CouponStates
    <2>2. T'
      BY <1>a, <1>13, <2>1, OthersTyped DEF T
    <2>3. UNCHANGED ui
      BY <1>13 DEF OthersChange
    <2> QED BY <1>f, <2>2, <2>3 DEF Rest
  <1> QED BY <1>1, <1>2, <1>3, <1>4, <1>6, <1>7, <1>8, <1>9, <1>10, <1>11, <1>12, <1>13
          DEF AdminCouponsNext

-----------------------------------------------------------------------------
(* The four smaller pages: reviews and creators are shown or hidden. *)
ListStates == {"shown", "hidden", "absent"}
ListsTyped == ListTyped(ListStates, {"save"}, {"form"})

LEMMA CreatorAnsweredTyped ==
  ASSUME DialogInv, ListsTyped, NEW c \in calls, CreatorAnswered(c)
  PROVE  ListsTyped'
  <1>1. PICK u : u = [Closed({"form"}, ui) EXCEPT !.at = 1, !.loading = TRUE]
    OBVIOUS
  <1>2. PICK own : own = [Load(u, FALSE, "save") EXCEPT !.id = c.id, !.filter = c.filter,
                                                        !.at = c.at]
    OBVIOUS
  <1>3. PICK new : new = Load(u, FALSE, "")
    OBVIOUS
  <1>4. ui' = u /\ UNCHANGED db /\ calls' \subseteq calls \cup {own, new}
    BY <1>1, <1>2, <1>3 DEF CreatorAnswered, Change
  <1>5. PICK v : v = Closed({"form"}, ui) /\ Fit(v, ListStates, {"form"})
    BY FreesTyped, ClosesTyped DEF ListsTyped
  <1>6. /\ DOMAIN u = DOMAIN v /\ u.at = 1 /\ u.of = v.of /\ u.rows = v.rows
        /\ u.dialog = v.dialog /\ u.entered = v.entered /\ u.value = v.value
    BY <1>1, <1>5 DEF Fit, DialogFields
  <1>7. u.at \in PageNumbers
    BY <1>6 DEF PageNumbers
  <1>8. Fit(u, ListStates, {"form"})
    BY <1>5, <1>6, <1>7 DEF Fit, UiTyped
  <1>9. c.at \in PageNumbers
    BY DEF ListsTyped, ListTyped, CallTyped
  <1>10. CallTyped(own, ListStates, {"save"}) /\ CallTyped(new, ListStates, {"save"})
    BY <1>2, <1>3, <1>7, <1>9, LoadTyped
  <1> QED BY <1>4, <1>8, <1>10, CallStepTyped DEF Fit, ListsTyped, ListTyped

LEMMA ListsTypedNext == DialogInv /\ ListsTyped /\ AdminListsNext => ListsTyped'
  <1> DEFINE T == ListTyped(ListStates, {"save"}, {"form"})
  <1> SUFFICES ASSUME DialogInv, T, AdminListsNext
               PROVE  T'
    BY DEF ListsTyped
  <1>a. Shown(ListStates) = {"shown", "hidden"} /\ "none" \notin {"form"} /\ "load" \notin {"save"}
    BY DEF Shown, ListStates
  <1>d. ASSUME NEW row \in ui.rows
        PROVE  row.id \in Items /\ row.is \in Shown(ListStates)
    BY DEF ListTyped, UiTyped, RowsTyped
  <1> HIDE DEF T
  <1>1. ASSUME \/ RefreshList \/ QuietRefresh
               \/ \E f \in {"", "shown"} : CreatorSearch(f) \/ AuditFilters(f) \/ OverviewRange(f)
               \/ \E to : ReviewPages(to) \/ AuditPages(to) \/ CreatorPages(to)
        PROVE  T'
    <2>1. /\ \/ Loading(ui, "") \/ LiveRefresh \/ (\E f : FilterBy(f))
             \/ (\E to : TurnTo(to) \/ PageChanged(to))
          /\ UNCHANGED db
      BY <1>1 DEF RefreshList, QuietRefresh, CreatorSearch, AuditFilters, OverviewRange,
                  ReviewPages, AuditPages, CreatorPages, PageChanged, TurnTo, FilterBy, LiveRefresh
    <2> QED BY <1>a, <2>1, ListLooksTyped DEF T
  <1>2. ASSUME NEW kind, NEW id \in Items \cup {0}, NEW entered, NEW value,
               Open(kind, id, entered, value), entered \subseteq {id},
               kind = "form" => value \in Shown(ListStates)
        PROVE  T'
    BY <1>2, OpenTyped DEF T
  <1>3. ASSUME NEW row \in ui.rows,
               \/ ZoomImage(row) \/ LogDetail(row) \/ AskDeleteReview(row)
               \/ AskDeleteCreator(row)
        PROVE  T'
    <2>1. PICK id \in Items : id = row.id
      BY <1>d
    <2>2. PICK kind, value : Open(kind, id, {}, value) /\ kind \in {"zoom", "detail", "delete"}
      BY <1>3, <2>1 DEF ZoomImage, LogDetail, AskDeleteReview, AskDeleteCreator
    <2>3. kind # "form"
      BY <2>2
    <2> QED BY <1>2, <2>2, <2>3
  <1>4. ASSUME NEW row \in ui.rows \cup {[id |-> 0, is |-> "new"]}, ResetForm(row)
        PROVE  T'
    <2>1. CASE row \in CreatorCards /\ Open("form", row.id, {row.id}, row.is)
      <3>1. row \in ui.rows
        BY <2>1 DEF CreatorCards, RowsOn, Table
      <3>2. PICK id \in Items, value \in Shown(ListStates) : id = row.id /\ value = row.is
        BY <1>d, <3>1
      <3> QED BY <1>2, <2>1, <3>2
    <2>2. CASE Open("form", 0, {}, "shown")
      <3>1. PICK id \in Items \cup {0}, value \in Shown(ListStates) : id = 0 /\ value = "shown"
        BY <1>a
      <3> QED BY <1>2, <2>2, <3>1
    <2> QED BY <1>4, <2>1, <2>2 DEF ResetForm
  <1>5. CASE CloseDialog
    <2>1. ui' = Gone(ui) /\ UNCHANGED <<calls, db>>
      BY <1>5 DEF CloseDialog
    <2>2. Fit(ui', ListStates, {"form"})
      BY <2>1, <1>a, FreesTyped, ClosesTyped DEF T
    <2> QED BY <2>1, <2>2 DEF T, ListTyped, Fit
  <1>6. CASE HandleDeleteConfirm \/ SaveCreator
    <2>1. PICK op : Submit(op) /\ (op \in {"save"} => ui.dialog.kind \in {"form"})
      BY <1>6 DEF HandleDeleteConfirm, SaveCreator, In
    <2> QED BY <2>1, SubmitTyped DEF T
  <1>7. ASSUME NEW value \in {"shown", "hidden"}, CreatorFields(value)
        PROVE  T'
    BY <1>a, <1>7, EnterTyped DEF CreatorFields, T
  <1>8. ASSUME NEW c \in calls, ReadRows(c) \/ Loaded(c)
        PROVE  T'
    BY <1>8, <1>a, ReadRowsTyped, LoadedTyped DEF T
  <1>9. ASSUME NEW c \in calls, RowDeleted(c) \/ Failed(c)
        PROVE  T'
    <2>1. Failed(c) \/ \E to \in ListStates : Executed(c, to)
      BY <1>9 DEF RowDeleted, ListStates
    <2> QED BY <2>1, ExecutedTyped, FailedTyped DEF T
  <1>10. ASSUME NEW c \in calls, CreatorSaved(c)
         PROVE  T'
    <2>1. PICK value \in ListStates : value = c.value
      BY <1>10 DEF CreatorSaved, T, ListTyped, CallTyped, Shown
    <2>2. PICK i : db' = [db EXCEPT !.is[i] = value]
      BY <1>10, <2>1 DEF CreatorSaved
    <2>3. Change(c, [c EXCEPT !.reply = "ok"]) /\ UNCHANGED ui
      BY <1>10 DEF CreatorSaved
    <2>4. db'.is \in [Items -> ListStates] /\ DOMAIN db' = DOMAIN db
      BY <2>2, StateSet DEF T, ListTyped
    <2> QED BY <2>3, <2>4, RepliedTyped DEF T
  <1>11. ASSUME NEW c \in calls, ReviewDeleted(c) \/ CreatorDeleted(c)
         PROVE  T'
    <2>1. PICK u : Fit(u, ListStates, {"form"}) /\ (ThenLoad(c, u) \/ AwaitLoad(c, u))
      BY <1>11, <1>a, FreesTyped, ClosesTyped DEF ReviewDeleted, CreatorDeleted, T
    <2> QED BY <1>a, <2>1, LoadsThenTyped DEF T
  <1>12. ASSUME NEW c \in calls, CreatorAnswered(c)
         PROVE  T'
    BY <1>12, CreatorAnsweredTyped DEF T, ListsTyped
  <1>13. ASSUME NEW i, NEW to \in {"shown", "absent"}, OthersChange(i, to)
         PROVE  T'
    BY <1>13, OthersTyped DEF ListStates, T
  <1> QED BY <1>1, <1>3, <1>4, <1>5, <1>6, <1>7, <1>8, <1>9, <1>10, <1>11, <1>12, <1>13
          DEF AdminListsNext

-----------------------------------------------------------------------------
(* The customer's orders: the details are those of a row that was shown. *)
OrdersTyped ==
  /\ ListTyped(CustomerOrderStatus, {}, {})
  /\ "selected" \in DOMAIN ui
  /\ ui.selected.id \in Items \cup {0} /\ ui.selected.is \in CustomerOrderStatus
  /\ "view" \in DOMAIN db /\ db.view \in [Items -> OrderView]

LEMMA OrdersTypedRest ==
  ASSUME OrdersTyped, ListTyped(CustomerOrderStatus, {}, {})', Rest(ui'),
         db' = db \/ (DOMAIN db' = DOMAIN db /\ db'.view = db.view)
  PROVE  OrdersTyped'
  <1>1. ui'["selected"] = ui["selected"] /\ "selected" \in DOMAIN ui'
    BY DEF OrdersTyped, Rest, DialogFields
  <1> QED BY <1>1 DEF OrdersTyped

LEMMA OrdersTypedNext == DialogInv /\ OrdersTyped /\ OrdersViewNext => OrdersTyped'
  <1> DEFINE T == ListTyped(CustomerOrderStatus, {}, {})
  <1> SUFFICES ASSUME DialogInv, OrdersTyped, OrdersViewNext
               PROVE  OrdersTyped'
    OBVIOUS
  <1>a. T /\ Shown(CustomerOrderStatus) = CustomerOrderStatus
    BY DEF OrdersTyped, Shown, CustomerOrderStatus
  <1>b. DialogFields \subseteq DOMAIN ui /\ UiTyped(ui, CustomerOrderStatus, {})
    BY <1>a DEF T, ListTyped, DialogInv
  <1> HIDE DEF T
  <1>1. CASE RefreshOrders \/ LiveRefresh
    <2>1. (Loading(ui, "") \/ LiveRefresh) /\ UNCHANGED db
      BY <1>1 DEF RefreshOrders, LiveRefresh
    <2>2. T'
      BY <1>a, <2>1, ListLooksTyped DEF T
    <2> QED BY <2>1, <2>2, ListRest, OrdersTypedRest DEF T
  <1>2. CASE OrdersPagination
    <2>1. PICK to \in {ui.at - 1, ui.at + 1} :
            /\ to \geq 1 /\ (to > ui.at => ui.at < ui.of)
            /\ Refilter([ui EXCEPT !.at = to]) /\ UNCHANGED db
      BY <1>2 DEF OrdersPagination
    <2>2. to \in PageNumbers
      <3>1. Cardinality(Items) \in Nat
        BY ListAssumption, FS_CardinalityType
      <3>2. PICK at \in PageNumbers, of \in PageNumbers : at = ui.at /\ of = ui.of
        BY <1>b DEF UiTyped
      <3> QED BY <2>1, <3>1, <3>2 DEF PageNumbers
    <2>3. T'
      BY <1>a, <2>1, <2>2, ListLooksTyped DEF T
    <2> QED BY <2>1, <2>3, ListRest, OrdersTypedRest DEF T
  <1>3. CASE CloseOrder
    <2>1. Dismiss /\ UNCHANGED db
      BY <1>3 DEF CloseOrder, Dismiss
    <2>2. T'
      BY <1>a, <2>1, DismissTyped DEF T
    <2> QED BY <2>1, <2>2, DialogRest, OrdersTypedRest DEF T
  <1>4. CASE HandleDownloadTicket
    <2>1. PICK b : b = Call("ticket", ui)
      OBVIOUS
    <2>2. PICK c : c = [b EXCEPT !.target = ui.selected.id]
      OBVIOUS
    <2>3. /\ calls' = calls \cup {c} /\ UNCHANGED db
          /\ ui' = [ui EXCEPT !.busy = @ \cup {"ticket"}, !.failed = FALSE]
      BY <1>4, <2>1, <2>2 DEF HandleDownloadTicket, Begin
    <2>4. Began(b, "ticket") /\ CallTyped(b, CustomerOrderStatus, {})
      BY <1>b, <2>1, CallBegan, CallMadeTyped DEF UiTyped
    <2>5. c.at = b.at /\ c.of = b.of /\ c.rows = b.rows /\ c.target = ui.selected.id
      BY <2>2, <2>4 DEF Began, CallFields
    <2>6. CallTyped(c, CustomerOrderStatus, {})
      BY <2>4, <2>5 DEF CallTyped, OrdersTyped
    <2>7. /\ DOMAIN ui' = DOMAIN ui /\ ui'.selected = ui.selected
          /\ \A f \in TypedFields : ui'[f] = ui[f]
      BY <1>b, <2>3 DEF TypedFields, DialogFields, OrdersTyped
    <2>8. Fit(ui', CustomerOrderStatus, {})
      BY <1>a, <2>7, ListAsItWas DEF T
    <2>9. T'
      BY <1>a, <2>3, <2>6, <2>8, CalledTyped DEF T
    <2> QED BY <2>3, <2>7, <2>9 DEF OrdersTyped, T
  <1>5. ASSUME NEW row \in ui.rows, SelectOrder(row)
        PROVE  OrdersTyped'
    <2>1. /\ ui' = [ui EXCEPT !.dialog = [kind |-> "order", id |-> row.id], !.selected = row]
          /\ UNCHANGED <<calls, db>>
      BY <1>5 DEF SelectOrder
    <2>2. row.id \in Items /\ row.is \in CustomerOrderStatus
      BY <1>a, <1>b DEF UiTyped, RowsTyped
    <2>3. /\ DOMAIN ui' = DOMAIN ui /\ ui'.at = ui.at /\ ui'.of = ui.of /\ ui'.rows = ui.rows
          /\ ui'.dialog.id = row.id /\ ui'.entered = ui.entered /\ ui'.selected = row
      BY <1>b, <2>1 DEF DialogFields, OrdersTyped
    <2>4. Fit(ui', CustomerOrderStatus, {})
      BY <1>b, <2>2, <2>3 DEF Fit, UiTyped
    <2>5. T'
      BY <1>a, <2>1, <2>4 DEF T, ListTyped, Fit
    <2> QED BY <2>1, <2>2, <2>3, <2>5 DEF OrdersTyped, T
  <1>6. ASSUME NEW c \in calls, ReadRows(c)
        PROVE  OrdersTyped'
    <2>1. UNCHANGED <<ui, db>>
      BY <1>6 DEF ReadRows
    <2>2. T'
      BY <1>a, <1>6, ReadRowsTyped DEF T
    <2> QED BY <2>1, <2>2 DEF OrdersTyped, T
  <1>7. ASSUME NEW c \in calls, LoadUserOrders(c)
        PROVE  OrdersTyped'
    <2>1. PICK u : u = [ui EXCEPT !.loading = @ /\ c.silent]
      OBVIOUS
    <2>2. End(c) /\ UNCHANGED db /\ ui' \in {u, [u EXCEPT !.rows = c.rows, !.of = c.of]}
      BY <1>7, <2>1 DEF LoadUserOrders
    <2>3. DOMAIN u = DOMAIN ui /\ Rest(u) /\ \A f \in TypedFields : u[f] = ui[f]
      BY <1>b, <2>1 DEF TypedFields, DialogFields, Rest
    <2>4. Fit(u, CustomerOrderStatus, {})
      BY <1>b, <2>3, TypedAlike DEF Fit
    <2>5. CallTyped(c, CustomerOrderStatus, {})
      BY <1>a DEF T, ListTyped
    <2>6. /\ DOMAIN ui' = DOMAIN u /\ ui'.at = u.at /\ ui'.of \in {u.of, c.of}
          /\ ui'.rows \in {u.rows, c.rows} /\ ui'.dialog = u.dialog /\ ui'.entered = u.entered
          /\ Rest(ui')
      BY <1>b, <2>2, <2>3 DEF DialogFields, Rest
    <2>7. Fit(ui', CustomerOrderStatus, {})
      BY <2>4, <2>5, <2>6 DEF Fit, UiTyped, CallTyped
    <2>8. T'
      BY <1>a, <2>2, <2>7, EndsTyped DEF T, ListTyped
    <2> QED BY <2>2, <2>6, <2>8, OrdersTypedRest DEF T
  <1>8. ASSUME NEW c \in calls, PlatformConfig(c) \/ TicketCreated(c)
        PROVE  OrdersTyped'
    <2>1. /\ End(c) /\ UNCHANGED db
          /\ ui' \in {ui, [ui EXCEPT !.dns = TRUE], Free("ticket"),
                      [Free("ticket") EXCEPT !.failed = TRUE]}
      BY <1>8 DEF PlatformConfig, TicketCreated
    <2>2. PICK u : u = Free("ticket")
      OBVIOUS
    <2>3. DOMAIN u = DOMAIN ui /\ \A f \in DOMAIN ui \ {"busy"} : u[f] = ui[f]
      BY <2>2 DEF Free
    <2>4. DOMAIN ui' = DOMAIN ui /\ \A f \in DOMAIN ui \ {"busy", "dns", "failed"} : ui'[f] = ui[f]
      BY <2>1, <2>2, <2>3
    <2>5. TypedFields \subseteq DOMAIN ui \ {"busy", "dns", "failed"}
      BY <1>b DEF TypedFields, DialogFields
    <2>6. Fit(ui', CustomerOrderStatus, {})
      BY <1>a, <2>4, <2>5, ListAsItWas DEF T
    <2>7. T'
      BY <1>a, <2>1, <2>6, EndsTyped DEF T, ListTyped
    <2>8. ui'["selected"] = ui["selected"]
      BY <2>4 DEF OrdersTyped
    <2> QED BY <2>1, <2>4, <2>7, <2>8 DEF OrdersTyped, T
  <1>9. ASSUME NEW i \in Items, OrderGoesOn(i)
        PROVE  OrdersTyped'
    <2>1. PICK to \in CustomerOrderStatus : OthersChange(i, to)
      BY <1>9 DEF OrderGoesOn, CustomerOrderStatus
    <2>2. T'
      BY <1>a, <2>1, OthersTyped DEF T
    <2>3. UNCHANGED ui /\ DOMAIN db' = DOMAIN db /\ db'.view = db.view
      BY <2>1 DEF OthersChange, OrdersTyped
    <2> QED BY <2>2, <2>3 DEF OrdersTyped, T
  <1> QED BY <1>1, <1>2, <1>3, <1>4, <1>5, <1>6, <1>7, <1>8, <1>9 DEF OrdersViewNext

(* Every status has something to say. *)
LEMMA OrdersTypeOK == OrdersTyped => OrdersViewTypeOK
  <1> SUFFICES ASSUME OrdersTyped
               PROVE  OrdersViewTypeOK
    OBVIOUS
  <1>1. UiTyped(ui, CustomerOrderStatus, {})
    BY DEF OrdersTyped, ListTyped
  <1>2. ASSUME NEW row \in ui.rows
        PROVE  OrderStatusLabel(row) # ""
    <2>1. row.is # ""
      BY <1>1 DEF UiTyped, RowsTyped, Shown, CustomerOrderStatus
    <2>2. CASE db.view[row.id] = "manual" /\ row.is = "paid"
      BY <2>1, <2>2 DEF OrderStatusLabel
    <2>3. CASE db.view[row.id] = "apk" /\ row.is = "completed"
      BY <2>1, <2>3 DEF OrderStatusLabel
    <2>4. CASE ~(db.view[row.id] = "manual" /\ row.is = "paid")
               /\ ~(db.view[row.id] = "apk" /\ row.is = "completed")
      BY <2>1, <2>4 DEF OrderStatusLabel
    <2> QED BY <2>2, <2>3, <2>4
  <1>3. DialogTypeOK
    BY <1>1 DEF DialogTypeOK, UiTyped, RowsTyped, PageNumbers
  <1> QED BY <1>2, <1>3 DEF OrdersViewTypeOK, OrdersTyped

-----------------------------------------------------------------------------
(* The administrator's orders: the dialog is about one of four actions, and so
   is what it submits; its fields and the details are those of an item. *)
AdminOrdersTyped ==
  /\ ListTyped(AdminOrderStatus, {}, {})
  /\ {ui.detail, ui.reason, ui.external, ui.note} \subseteq Items \cup {0}
  /\ ui.dialog # NoDialog => ui.dialog.kind \in ActionType
  /\ \A c \in calls : c.op = "act" => c.kind \in ActionType

(* Looking at a list begins loads, nothing else. *)
LEMMA LooksLoad ==
  ASSUME DialogInv,
         \/ SearchSubmit \/ (\E f : FilterBy(f) \/ SearchFor(f)) \/ Loading(ui, "")
         \/ (\E to : TurnTo(to) \/ PageChanged(to))
         \/ LiveRefresh \/ (\E c \in calls : Loaded(c))
  PROVE  \A d \in calls' : d \in calls \/ d.op = "load"
  <1>1. ASSUME NEW u, Refilter(u) \/ Loading(u, "")
        PROVE  \A d \in calls' : d \in calls \/ d.op = "load"
    BY <1>1, RefilterLoads, LoadingLoads DEF LoadsOrNot, LoadIs
  <1>2. CASE LiveRefresh
    <2>1. PICK l : l = Load(ui, TRUE, "live")
      OBVIOUS
    <2>2. calls' = calls \cup {l} /\ LoadIs(l, TRUE, "live")
      BY <1>2, <2>1, LoadIsOwn DEF LiveRefresh, Begin
    <2> QED BY <2>2 DEF LoadIs
  <1>3. ASSUME NEW c \in calls, Loaded(c)
        PROVE  \A d \in calls' : d \in calls \/ d.op = "load"
    <2>1. PICK done : done = [ui EXCEPT !.loading = @ /\ c.silent, !.busy = @ \ {c.then}]
      OBVIOUS
    <2>2. ShowRows(c, done) /\ {"rows", "of", "at", "loading"} \subseteq DOMAIN done
      BY <1>3, <2>1 DEF Loaded, DialogInv, DialogFields
    <2> QED BY <2>2, RowsShown DEF LoadBegan
  <1>4. CASE SearchSubmit /\ ~Loading(ui, "")
    <2>1. PICK first : first = [ui EXCEPT !.at = 1, !.loading = TRUE]
      OBVIOUS
    <2>2. PICK old : old = Load(ui, FALSE, "")
      OBVIOUS
    <2>3. PICK new : new = [Load(first, FALSE, "") EXCEPT !.id = IdBeside(calls \cup {old})]
      OBVIOUS
    <2>4. calls' = calls \cup {old, new}
      BY <1>4, <2>1, <2>2, <2>3 DEF SearchSubmit
    <2>5. LoadIs(old, FALSE, "") /\ LoadIs(new, FALSE, "")
      BY <2>2, <2>3, LoadIsOwn
    <2> QED BY <2>4, <2>5 DEF LoadIs
  <1> QED BY <1>1, <1>2, <1>3, <1>4 DEF FilterBy, SearchFor, TurnTo, PageChanged

(* A step that leaves the dialog alone. *)
LEMMA AdminOrdersRest ==
  ASSUME AdminOrdersTyped, ReasonsOwn, ListTyped(AdminOrderStatus, {}, {})', Rest(ui'),
         ui'.dialog \in {ui.dialog, NoDialog}, \A d \in calls' : d \in calls \/ d.op # "act"
  PROVE  AdminOrdersTyped'
  <1>1. /\ ui'["detail"] = ui["detail"] /\ ui'["reason"] = ui["reason"]
        /\ ui'["external"] = ui["external"] /\ ui'["note"] = ui["note"]
    BY DEF ReasonsOwn, Rest, DialogFields
  <1> QED BY <1>1 DEF AdminOrdersTyped

(* The fields of the page beside the list and the dialog. *)
LEMMA OrderFieldsTyped ==
  ASSUME DialogInv, ReasonsOwn, AdminOrdersTyped,
         \/ (\E row \in ui.rows : ShowDetail(row)) \/ CloseDetail \/ TypeNote
         \/ TypeReason \/ ConfirmTransfer
  PROVE  AdminOrdersTyped'
  <1>1. UNCHANGED <<calls, db>>
    BY DEF ShowDetail, CloseDetail, TypeNote, TypeReason, ConfirmTransfer
  <1>2. PICK i \in Items \cup {0} :
          \/ ui' = [ui EXCEPT !.detail = i] \/ ui' = [ui EXCEPT !.note = i]
          \/ ui' = [ui EXCEPT !.reason = i] \/ ui' = [ui EXCEPT !.external = i]
    <2>1. \A row \in ui.rows : row.id \in Items
      BY DEF AdminOrdersTyped, ListTyped, UiTyped, RowsTyped
    <2>2. ui.dialog.id \in Items \cup {0} /\ ui.detail \in Items \cup {0}
      BY DEF AdminOrdersTyped, ListTyped, UiTyped
    <2>3. CASE \E row \in ui.rows : ShowDetail(row)
      BY <2>1, <2>3 DEF ShowDetail
    <2>4. CASE CloseDetail
      BY <2>4 DEF CloseDetail
    <2>5. CASE TypeNote
      BY <2>2, <2>5 DEF TypeNote
    <2>6. CASE TypeReason
      BY <2>2, <2>6 DEF TypeReason
    <2>7. CASE ConfirmTransfer
      BY <2>2, <2>7 DEF ConfirmTransfer
    <2> QED BY <2>3, <2>4, <2>5, <2>6, <2>7
  <1>3. DialogFields \subseteq DOMAIN ui
    BY DEF DialogInv
  <1>4. DOMAIN ui' = DOMAIN ui /\ \A f \in TypedFields : ui'[f] = ui[f]
    BY <1>2, <1>3 DEF TypedFields, DialogFields
  <1>5. Fit(ui', AdminOrderStatus, {})
    BY <1>4, ListAsItWas DEF AdminOrdersTyped
  <1>6. ListTyped(AdminOrderStatus, {}, {})'
    BY <1>1, <1>5 DEF AdminOrdersTyped, ListTyped, Fit
  <1>7. /\ ui'.detail \in {ui.detail, i} /\ ui'.note \in {ui.note, i}
        /\ ui'.reason \in {ui.reason, i} /\ ui'.external \in {ui.external, i}
    BY <1>2 DEF ReasonsOwn
  <1>8. ui'["dialog"] = ui["dialog"]
    BY <1>4 DEF TypedFields
  <1> QED BY <1>1, <1>6, <1>7, <1>8 DEF AdminOrdersTyped

LEMMA OrderDialogTyped ==
  ASSUME DialogInv, ReasonsOwn, AdminOrdersTyped,
         \/ CloseActionModal
         \/ \E row \in ui.rows : \E kind \in ActionType : OpenActionModal(row, kind)
  PROVE  AdminOrdersTyped'
  <1>b. DialogFields \subseteq DOMAIN ui /\ UiTyped(ui, AdminOrderStatus, {})
    BY DEF DialogInv, AdminOrdersTyped, ListTyped
  <1>1. UNCHANGED <<calls, db>>
    BY DEF CloseActionModal, OpenActionModal
  <1>2. PICK dialog : /\ dialog.id \in Items \cup {0}
                      /\ dialog # NoDialog => dialog.kind \in ActionType
                      /\ \/ ui' = [Free("act") EXCEPT !.dialog = NoDialog] /\ dialog = NoDialog
                         \/ ui' = [ui EXCEPT !.dialog = dialog, !.reason = 0, !.external = 0]
    <2>1. CASE CloseActionModal
      BY <2>1 DEF CloseActionModal, NoDialog
    <2>2. ASSUME NEW row \in ui.rows, NEW kind \in ActionType, OpenActionModal(row, kind)
          PROVE  \E dialog : /\ dialog.id \in Items \cup {0} /\ dialog.kind \in ActionType
                             /\ ui' = [ui EXCEPT !.dialog = dialog, !.reason = 0, !.external = 0]
      <3>1. PICK dialog : dialog = [kind |-> kind, id |-> row.id]
        OBVIOUS
      <3>2. dialog.id \in Items /\ dialog.kind \in ActionType
        BY <1>b, <3>1 DEF UiTyped, RowsTyped
      <3> QED BY <2>2, <3>1, <3>2 DEF OpenActionModal
    <2> QED BY <2>1, <2>2
  <1>3. PICK u : u = Free("act")
    OBVIOUS
  <1>4. DOMAIN u = DOMAIN ui /\ \A f \in DOMAIN ui \ {"busy"} : u[f] = ui[f]
    BY <1>3 DEF Free
  <1>5. /\ DOMAIN ui' = DOMAIN ui /\ ui'.dialog = dialog
        /\ \A f \in DOMAIN ui \ {"busy", "dialog", "reason", "external"} : ui'[f] = ui[f]
        /\ ui'.reason \in {ui.reason, 0} /\ ui'.external \in {ui.external, 0}
    BY <1>b, <1>2, <1>3, <1>4 DEF ReasonsOwn, DialogFields
  <1>6. /\ ui'.at = ui.at /\ ui'.of = ui.of /\ ui'.rows = ui.rows /\ ui'.entered = ui.entered
        /\ ui'.detail = ui.detail /\ ui'.note = ui.note
    BY <1>b, <1>5 DEF ReasonsOwn, DialogFields
  <1>7. ListTyped(AdminOrderStatus, {}, {})'
    BY <1>b, <1>1, <1>2, <1>5, <1>6 DEF AdminOrdersTyped, ListTyped, UiTyped
  <1> QED BY <1>1, <1>2, <1>5, <1>6, <1>7 DEF AdminOrdersTyped

(* A button with a call; only its flag changes on the page. *)
LEMMA OrderCallTyped ==
  ASSUME DialogInv, ReasonsOwn, AdminOrdersTyped, NEW op, NEW c, Began(Call(op, ui), op),
         \/ c = Call(op, ui)
         \/ op # "act" /\ c = [Call(op, ui) EXCEPT !.target = ui.detail, !.then = "provider"]
         \/ op # "act" /\ c = [Call(op, ui) EXCEPT !.target = ui.detail, !.then = "provider",
                                                  !.entered = {ui.note}]
         \/ \E id, then : op # "act" /\ c = [Call(op, ui) EXCEPT !.id = id, !.then = then]
         \/ \E entered : /\ c = [Call(op, ui) EXCEPT !.kind = ui.dialog.kind,
                                   !.target = ui.dialog.id, !.entered = entered]
                         /\ ui.dialog.kind \in ActionType
  PROVE  CallTyped(c, AdminOrderStatus, {}) /\ (op # "act" \/ c.kind \in ActionType \/ c = Call(op, ui))
         /\ c.op = op
  <1>1. PICK b : b = Call(op, ui)
    OBVIOUS
  <1>2. UiTyped(ui, AdminOrderStatus, {}) /\ ui.detail \in Items \cup {0}
    BY DEF AdminOrdersTyped, ListTyped
  <1>3. CallTyped(b, AdminOrderStatus, {})
    BY <1>1, <1>2, CallMadeTyped DEF UiTyped
  <1>4. /\ c.at = b.at /\ c.of = b.of /\ c.rows = b.rows /\ c.op = op
        /\ c.target \in {b.target, ui.detail, ui.dialog.id}
        /\ c = b \/ op # "act" \/ c.kind = ui.dialog.kind
    BY <1>1 DEF Began, CallFields
  <1> QED BY <1>1, <1>2, <1>3, <1>4 DEF CallTyped, UiTyped

LEMMA OrderButtonsTyped ==
  ASSUME DialogInv, ReasonsOwn, AdminOrdersTyped,
         \/ HandleResumeProvider \/ HandleProviderRetry \/ HandleProviderReconcile
         \/ HandleSubmitAction
  PROVE  AdminOrdersTyped'
  <1>b. DialogFields \subseteq DOMAIN ui
    BY DEF DialogInv
  <1>1. ASSUME NEW c, CallTyped(c, AdminOrderStatus, {}), c.op = "act" => c.kind \in ActionType,
               calls' = calls \cup {c}, UNCHANGED db, NEW flag,
               ui' = [ui EXCEPT !.busy = @ \cup {flag}]
        PROVE  AdminOrdersTyped'
    <2>1. DOMAIN ui' = DOMAIN ui /\ \A f \in DOMAIN ui \ {"busy"} : ui'[f] = ui[f]
      BY <1>1
    <2>2. TypedFields \subseteq DOMAIN ui \ {"busy"}
      BY <1>b DEF TypedFields, DialogFields
    <2>3. Fit(ui', AdminOrderStatus, {})
      BY <2>1, <2>2, ListAsItWas DEF AdminOrdersTyped
    <2>4. ListTyped(AdminOrderStatus, {}, {})'
      BY <1>1, <2>3, CalledTyped DEF AdminOrdersTyped
    <2>5. /\ ui'.detail = ui.detail /\ ui'.reason = ui.reason /\ ui'.external = ui.external
          /\ ui'.note = ui.note /\ ui'.dialog = ui.dialog
      BY <1>b, <2>1 DEF ReasonsOwn, DialogFields
    <2> QED BY <1>1, <2>4, <2>5 DEF AdminOrdersTyped
  <1>2. CASE HandleResumeProvider
    <2>1. PICK c : c = Call("resume", ui)
      OBVIOUS
    <2>2. calls' = calls \cup {c} /\ UNCHANGED db /\ ui' = [ui EXCEPT !.busy = @ \cup {"resume"}]
      BY <1>2, <2>1 DEF HandleResumeProvider, Begin
    <2>3. CallTyped(c, AdminOrderStatus, {}) /\ c.op = "resume"
      BY <2>1, CallBegan, OrderCallTyped
    <2> QED BY <1>1, <2>2, <2>3
  <1>3. ASSUME NEW op \in {"retry", "reconcile"}, NEW c, Began(Call(op, ui), op),
               \/ c = [Call(op, ui) EXCEPT !.target = ui.detail, !.then = "provider"]
               \/ c = [Call(op, ui) EXCEPT !.target = ui.detail, !.then = "provider",
                                           !.entered = {ui.note}],
               Begin(c), ui' = [ui EXCEPT !.busy = @ \cup {"provider"}], UNCHANGED db
        PROVE  AdminOrdersTyped'
    <2>1. calls' = calls \cup {c} /\ op # "act"
      BY <1>3 DEF Begin
    <2>2. CallTyped(c, AdminOrderStatus, {}) /\ c.op = op
      BY <1>3, <2>1, OrderCallTyped
    <2> QED BY <1>1, <1>3, <2>1, <2>2
  <1>4. CASE HandleProviderRetry
    <2>1. PICK c : c = [Call("retry", ui) EXCEPT !.target = ui.detail, !.then = "provider"]
      OBVIOUS
    <2>2. Began(Call("retry", ui), "retry")
      BY CallBegan
    <2>3. Begin(c) /\ ui' = [ui EXCEPT !.busy = @ \cup {"provider"}] /\ UNCHANGED db
      BY <1>4, <2>1 DEF HandleProviderRetry
    <2> QED BY <1>3, <2>1, <2>2, <2>3
  <1>5. CASE HandleProviderReconcile
    <2>1. PICK c : c = [Call("reconcile", ui) EXCEPT !.target = ui.detail, !.then = "provider",
                                                    !.entered = {ui.note}]
      OBVIOUS
    <2>2. Began(Call("reconcile", ui), "reconcile")
      BY CallBegan
    <2>3. Begin(c) /\ ui' = [ui EXCEPT !.busy = @ \cup {"provider"}] /\ UNCHANGED db
      BY <1>5, <2>1 DEF HandleProviderReconcile
    <2> QED BY <1>3, <2>1, <2>2, <2>3
  <1>6. CASE HandleSubmitAction
    <2>1. PICK entered : entered = (IF ReasonNeeded THEN {ui.reason} ELSE {})
                                   \cup (IF TransferNeeded THEN {ui.external} ELSE {})
      OBVIOUS
    <2>2. PICK c : c = [Call("act", ui) EXCEPT !.kind = ui.dialog.kind, !.target = ui.dialog.id,
                                               !.entered = entered]
      OBVIOUS
    <2>3. calls' = calls \cup {c} /\ UNCHANGED db /\ ui' = [ui EXCEPT !.busy = @ \cup {"act"}]
      BY <1>6, <2>1, <2>2 DEF HandleSubmitAction, Begin
    <2>4. ui.dialog.kind \in ActionType
      BY <1>6 DEF HandleSubmitAction, ActionDialog, AdminOrdersTyped
    <2>5. Began(Call("act", ui), "act")
      BY CallBegan
    <2>6. CallTyped(c, AdminOrderStatus, {}) /\ c.op = "act"
      BY <2>2, <2>4, <2>5, OrderCallTyped
    <2>7. c.kind = ui.dialog.kind
      BY <2>2, <2>5 DEF Began, CallFields
    <2> QED BY <1>1, <2>3, <2>4, <2>6, <2>7
  <1> QED BY <1>2, <1>4, <1>5, <1>6

(* The answers. *)
LEMMA OrderAnswersTyped ==
  ASSUME DialogInv, ReasonsOwn, AdminOrdersTyped, NEW c \in calls,
         \/ LoadProviderStatus(c) \/ ProviderStatusUnknown(c) \/ ProviderResumed(c)
         \/ ProviderActed(c) \/ ActionDone(c) \/ ActionRefused(c)
  PROVE  AdminOrdersTyped'
  <1>b. DialogFields \subseteq DOMAIN ui
    BY DEF DialogInv
  <1>t. /\ ListTyped(AdminOrderStatus, {}, {}) /\ CallTyped(c, AdminOrderStatus, {})
        /\ UiTyped(ui, AdminOrderStatus, {})
    BY DEF AdminOrdersTyped, ListTyped
  <1>1. ASSUME DOMAIN ui' = DOMAIN ui,
               \A f \in DOMAIN ui \ {"busy", "paused", "note", "loading", "dialog"} : ui'[f] = ui[f],
               ui'.dialog \in {ui.dialog, NoDialog}, ui'.note \in {ui.note, 0},
               \A d \in calls' : \/ d \in calls
                                 \/ CallTyped(d, AdminOrderStatus, {}) /\ d.op # "act",
               UNCHANGED db \/ db' = [db EXCEPT !.paused = FALSE]
        PROVE  AdminOrdersTyped'
    <2>1. /\ ui'.at = ui.at /\ ui'.of = ui.of /\ ui'.rows = ui.rows /\ ui'.entered = ui.entered
          /\ ui'.detail = ui.detail /\ ui'.reason = ui.reason /\ ui'.external = ui.external
      BY <1>b, <1>1 DEF ReasonsOwn, DialogFields
    <2>2. NoDialog.id = 0
      BY DEF NoDialog
    <2>3. UiTyped(ui', AdminOrderStatus, {})
      BY <1>t, <1>1, <2>1, <2>2 DEF UiTyped
    <2>4. db'.is = db.is /\ DOMAIN db' = DOMAIN db
      BY <1>t, <1>1 DEF ListTyped
    <2>5. ListTyped(AdminOrderStatus, {}, {})'
      BY <1>t, <1>1, <2>3, <2>4, CallStepTyped DEF ListTyped
    <2> QED BY <1>1, <2>1, <2>5 DEF AdminOrdersTyped
  <1>2. ASSUME NEW then, ui' = [ui EXCEPT !.busy = @ \ {then}]
               \/ ui' = [ui EXCEPT !.paused = db.paused, !.busy = @ \ {then}]
               \/ ui' = Free(then) \/ ui' = ui \/ ui' = [ui EXCEPT !.note = 0],
               \A d \in calls' : \/ d \in calls
                                 \/ CallTyped(d, AdminOrderStatus, {}) /\ d.op # "act",
               UNCHANGED db \/ db' = [db EXCEPT !.paused = FALSE]
        PROVE  AdminOrdersTyped'
    <2>1. /\ DOMAIN ui' = DOMAIN ui
          /\ \A f \in DOMAIN ui \ {"busy", "paused", "note"} : ui'[f] = ui[f]
          /\ ui'.note \in {ui.note, 0}
      BY <1>2 DEF Free, ReasonsOwn
    <2>2. ui'["dialog"] = ui["dialog"]
      BY <1>b, <2>1 DEF DialogFields
    <2> QED BY <1>1, <1>2, <2>1, <2>2
  <1>3. CASE LoadProviderStatus(c) \/ ProviderStatusUnknown(c) \/ ActionRefused(c)
    BY <1>2, <1>3 DEF LoadProviderStatus, ProviderStatusUnknown, ActionRefused, End
  <1>4. CASE ProviderResumed(c)
    <2>1. PICK p : p = [Call("paused", ui) EXCEPT !.id = c.id, !.then = "resume"]
      OBVIOUS
    <2>2. \A d \in calls' : d \in calls \/ d = p
      BY <1>4, <2>1 DEF ProviderResumed, Change, End
    <2>3. Began(Call("paused", ui), "paused")
      BY CallBegan
    <2>4. CallTyped(p, AdminOrderStatus, {}) /\ p.op = "paused"
      BY <2>1, <2>3, OrderCallTyped
    <2> QED BY <1>2, <1>4, <2>2, <2>4 DEF ProviderResumed
  <1>5. ASSUME NEW silent, NEW then,
               NEW l, l = [Load(ui, silent, then) EXCEPT !.id = c.id, !.filter = c.filter, !.at = c.at]
        PROVE  CallTyped(l, AdminOrderStatus, {}) /\ l.op = "load"
    <2>1. ui.at \in PageNumbers /\ c.at \in PageNumbers /\ "load" \notin {}
      BY <1>t DEF CallTyped, UiTyped
    <2>2. CallTyped(l, AdminOrderStatus, {})
      BY <1>5, <2>1, LoadTyped
    <2>3. LoadIs(l, silent, then)
      BY <1>5, LoadIsOwn
    <2> QED BY <2>2, <2>3 DEF LoadIs
  <1>6. CASE ProviderActed(c)
    <2>1. PICK l : l = [Load(ui, TRUE, "provider") EXCEPT !.id = c.id, !.filter = c.filter,
                                                         !.at = c.at]
      OBVIOUS
    <2>2. /\ \A d \in calls' : d \in calls \/ d = l
          /\ ui' \in {ui, Free("provider"), [ui EXCEPT !.note = 0]} /\ UNCHANGED db
      BY <1>6, <2>1 DEF ProviderActed, Change, End
    <2> QED BY <1>2, <1>5, <2>1, <2>2
  <1>7. CASE ActionDone(c)
    <2>1. PICK l : l = [Load(ui, FALSE, "act") EXCEPT !.id = c.id, !.filter = c.filter,
                                                      !.at = c.at]
      OBVIOUS
    <2>2. PICK u : u = Free("act")
      OBVIOUS
    <2>3. /\ calls' = (calls \ {c}) \cup {l} /\ UNCHANGED db
          /\ ui' = [u EXCEPT !.dialog = NoDialog, !.loading = TRUE]
      BY <1>7, <2>1, <2>2 DEF ActionDone, Change
    <2>4. DOMAIN u = DOMAIN ui /\ \A f \in DOMAIN ui \ {"busy"} : u[f] = ui[f]
      BY <2>2 DEF Free
    <2>5. /\ DOMAIN ui' = DOMAIN ui /\ ui'.dialog = NoDialog
          /\ \A f \in DOMAIN ui \ {"busy", "dialog", "loading"} : ui'[f] = ui[f]
      BY <1>b, <2>3, <2>4 DEF DialogFields
    <2>6. ui'.note = ui.note
      BY <2>5 DEF ReasonsOwn
    <2>7. CallTyped(l, AdminOrderStatus, {}) /\ l.op # "act"
      BY <1>5, <2>1
    <2>8. \A f \in DOMAIN ui \ {"busy", "paused", "note", "loading", "dialog"} : ui'[f] = ui[f]
      BY <2>5
    <2> QED BY <1>1, <2>3, <2>5, <2>6, <2>7, <2>8
  <1> QED BY <1>3, <1>4, <1>6, <1>7

LEMMA AdminOrdersTypedNext ==
  DialogInv /\ ReasonsOwn /\ AdminOrdersTyped /\ AdminOrdersNext => AdminOrdersTyped'
  <1> SUFFICES ASSUME DialogInv, ReasonsOwn, AdminOrdersTyped, AdminOrdersNext
               PROVE  AdminOrdersTyped'
    OBVIOUS
  <1>t. /\ ListTyped(AdminOrderStatus, {}, {}) /\ Shown(AdminOrderStatus) = AdminOrderStatus
        /\ \A c \in calls : CallFields \subseteq DOMAIN c
    BY DEF AdminOrdersTyped, Shown, AdminOrderStatus, DialogInv, OwnCall
  <1>k. \A kind \in ActionType : After(kind) \in AdminOrderStatus
    BY DEF ActionType, After, AdminOrderStatus
  <1>1. ASSUME \/ HandleSearchSubmit \/ ReloadOrders \/ TurnPage \/ LiveRefresh
               \/ \E f \in {"", "paid"} : SelectFilter(f) \/ TypeSearch(f)
        PROVE  AdminOrdersTyped'
    <2>1. /\ \/ SearchSubmit \/ (\E f : FilterBy(f) \/ SearchFor(f)) \/ Loading(ui, "")
             \/ (\E to : TurnTo(to) \/ PageChanged(to)) \/ LiveRefresh
          /\ UNCHANGED db
      BY <1>1 DEF HandleSearchSubmit, ReloadOrders, TurnPage, SelectFilter, TypeSearch,
                  SearchSubmit, FilterBy, SearchFor, PageChanged, TurnTo, LiveRefresh
    <2>2. ListTyped(AdminOrderStatus, {}, {})'
      BY <1>t, <2>1, ListLooksTyped
    <2>3. Rest(ui') /\ ui'.dialog = ui.dialog
      BY <2>1, ListRest DEF SameDialog
    <2>4. \A d \in calls' : d \in calls \/ d.op # "act"
      BY <2>1, LooksLoad
    <2> QED BY <2>2, <2>3, <2>4, AdminOrdersRest
  <1>2. ASSUME NEW c \in calls, LoadOrders(c)
        PROVE  AdminOrdersTyped'
    <2>1. Loaded(c)
      BY <1>2 DEF LoadOrders
    <2>2. ListTyped(AdminOrderStatus, {}, {})'
      BY <1>t, <2>1, LoadedTyped
    <2>3. Rest(ui') /\ ui'.dialog = ui.dialog
      BY <2>1, LoadedRest DEF SameDialog
    <2>4. \A d \in calls' : d \in calls \/ d.op # "act"
      BY <2>1, LooksLoad
    <2> QED BY <2>2, <2>3, <2>4, AdminOrdersRest
  <1>3. ASSUME NEW c \in calls, ReadRows(c)
        PROVE  AdminOrdersTyped'
    <2>1. PICK rows, of : Change(c, [c EXCEPT !.reply = "ok", !.rows = rows, !.of = of])
      BY <1>3 DEF ReadRows
    <2>2. PICK d : d = [c EXCEPT !.reply = "ok", !.rows = rows, !.of = of]
      OBVIOUS
    <2>3. calls' = (calls \ {c}) \cup {d} /\ d.op = c.op /\ c.op = "load"
      BY <1>t, <1>3, <2>1, <2>2 DEF Change, CallFields, ReadRows
    <2>4. ListTyped(AdminOrderStatus, {}, {})' /\ UNCHANGED ui
      BY <1>t, <1>3, ReadRowsTyped DEF ReadRows
    <2> QED BY <2>3, <2>4 DEF AdminOrdersTyped
  <1>4. ASSUME NEW c \in calls, ActionExecuted(c)
        PROVE  AdminOrdersTyped'
    <2>1. PICK reply : Change(c, [c EXCEPT !.reply = reply])
      BY <1>4 DEF ActionExecuted
    <2>2. PICK d : d = [c EXCEPT !.reply = reply]
      OBVIOUS
    <2>3. calls' = (calls \ {c}) \cup {d} /\ d.op = c.op /\ d.kind = c.kind
      BY <1>t, <2>1, <2>2 DEF Change, CallFields
    <2>4. UNCHANGED ui /\ c.kind \in ActionType
      BY <1>4 DEF ActionExecuted, AdminOrdersTyped
    <2>5. db'.is \in [Items -> AdminOrderStatus] /\ DOMAIN db' = DOMAIN db
      <3>1. PICK to \in AdminOrderStatus : to = After(c.kind)
        BY <1>k, <2>4
      <3>2. UNCHANGED db \/ db' = [db EXCEPT !.is[c.target] = to]
        BY <1>4, <3>1 DEF ActionExecuted
      <3> QED BY <1>t, <3>2, StateSet DEF ListTyped
    <2>6. ListTyped(AdminOrderStatus, {}, {})'
      BY <1>t, <2>1, <2>4, <2>5, RepliedTyped
    <2> QED BY <2>3, <2>4, <2>6 DEF AdminOrdersTyped
  <1>5. ASSUME NEW i, NEW kind \in ActionType, OthersChange(i, After(kind))
        PROVE  AdminOrdersTyped'
    <2>1. PICK to \in AdminOrderStatus : OthersChange(i, to)
      BY <1>k, <1>5
    <2>2. ListTyped(AdminOrderStatus, {}, {})'
      BY <1>t, <2>1, OthersTyped
    <2>3. UNCHANGED <<ui, calls>>
      BY <2>1 DEF OthersChange
    <2> QED BY <2>2, <2>3 DEF AdminOrdersTyped
  <1> QED BY <1>1, <1>2, <1>3, <1>4, <1>5, OrderFieldsTyped, OrderDialogTyped,
             OrderButtonsTyped, OrderAnswersTyped DEF AdminOrdersNext

-----------------------------------------------------------------------------
(* The plans: the form is a plan's, and so is every plan that is sold. *)
PlanStates == {"active", "inactive", "absent"}
PlanHandlers == {"save", "toggle"}
PlanDialogs == {"create", "edit"}
PlansTyped ==
  /\ ListTyped(PlanStates, PlanHandlers, PlanDialogs)
  /\ db.plan \in [Items -> PlanForm]
  /\ \A c \in calls : c.op = "load" => PlanPages(c.rows) \in PageNumbers

LEMMA PlansTypeOK == PlanRest /\ PlansTyped => AdminPlansTypeOK
  <1> SUFFICES ASSUME PlanRest, PlansTyped
               PROVE  AdminPlansTypeOK
    OBVIOUS
  <1>1. UiTyped(ui, PlanStates, PlanDialogs)
    BY DEF PlansTyped, ListTyped
  <1>2. DialogTypeOK
    BY <1>1 DEF UiTyped, RowsTyped, DialogTypeOK, PageNumbers
  <1>3. PlanFits(ui.form) /\ \A row \in ui.rows : PlanSold(row.plan)
    BY DEF PlanRest, PlansSold
  <1> QED BY <1>2, <1>3 DEF AdminPlansTypeOK, PlansTyped, PlanFits, PlanSold

(* All plans are read; each is a page of its own. *)
LEMMA PagesOfPlans ==
  ASSUME NEW rows, IsFiniteSet(rows), Cardinality(rows) \leq Cardinality(Items)
  PROVE  PlanPages(rows) \in PageNumbers
  <1>1. /\ Cardinality(rows) \in Nat /\ Cardinality(Items) \in Nat
        /\ rows # {} => Cardinality(rows) # 0
    BY ListAssumption, FS_CardinalityType, FS_EmptySet
  <1>2. rows # {} => Cardinality(rows) \in 1 .. Cardinality(Items)
    BY <1>1
  <1> QED BY <1>2 DEF PlanPages, PageNumbers

LEMMA ReadPagesOfPlans ==
  ASSUME NEW M \in SUBSET Items, NEW rows, NEW f \in Surjection(M, rows)
  PROVE  PlanPages(rows) \in PageNumbers
  <1>1. /\ IsFiniteSet(M) /\ Cardinality(M) \in Nat /\ Cardinality(Items) \in Nat
        /\ Cardinality(M) \leq Cardinality(Items)
    BY ListAssumption, FS_Subset, FS_CardinalityType
  <1>2. IsFiniteSet(rows) /\ Cardinality(rows) \leq Cardinality(M) /\ Cardinality(rows) \in Nat
    BY <1>1, FS_Surjection, FS_CardinalityType
  <1>3. Cardinality(rows) \leq Cardinality(Items)
    BY <1>1, <1>2
  <1> QED BY <1>2, <1>3, PagesOfPlans

LEMMA PlanPagesCounted ==
  PlanPages({[id |-> i, is |-> db.is[i], plan |-> db.plan[i]] : i \in Matching("")}) \in PageNumbers
  <1>1. PICK rows : rows = {[id |-> i, is |-> db.is[i], plan |-> db.plan[i]] : i \in Matching("")}
    OBVIOUS
  <1>2. PICK M \in SUBSET Items : M = Matching("")
    BY DEF Matching
  <1>3. PICK f : f = [i \in M |-> [id |-> i, is |-> db.is[i], plan |-> db.plan[i]]]
    OBVIOUS
  <1>4. f \in Surjection(M, rows)
    BY <1>1, <1>2, <1>3 DEF Surjection
  <1> QED BY <1>1, <1>4, ReadPagesOfPlans

LEMMA PlansRest ==
  ASSUME PlansTyped, ListTyped(PlanStates, PlanHandlers, PlanDialogs)', db'.plan = db.plan,
         \A d \in calls' : d \in calls \/ d.op # "load" \/ d.rows = {}
  PROVE  PlansTyped'
  <1>1. PlanPages({}) \in PageNumbers
    BY DEF PlanPages, PageNumbers
  <1> QED BY <1>1 DEF PlansTyped

LEMMA PlanLooksTyped ==
  ASSUME PlanRest, PlansTyped, RefreshPlans \/ PlanPagination \/ Dismiss
  PROVE  PlansTyped'
  <1>a. DialogInv /\ DialogFields \subseteq DOMAIN ui
    BY DEF PlanRest, DialogInv
  <1>b. /\ ListTyped(PlanStates, PlanHandlers, PlanDialogs)
        /\ "load" \notin PlanHandlers /\ "none" \notin PlanDialogs
    BY DEF PlansTyped, PlanHandlers, PlanDialogs
  <1>c. UiTyped(ui, PlanStates, PlanDialogs)
    BY <1>b DEF ListTyped
  <1>1. CASE RefreshPlans
    <2>1. Loading(ui, "") /\ UNCHANGED db
      BY <1>1 DEF RefreshPlans
    <2>2. PICK l : l = Load(ui, FALSE, "")
      OBVIOUS
    <2>3. calls' = calls \cup {l} /\ l.rows = {}
      BY <2>1, <2>2, LoadMade DEF Loading, Begin, LoadBegan
    <2>4. ListTyped(PlanStates, PlanHandlers, PlanDialogs)'
      BY <1>a, <1>b, <2>1, ListLooksTyped
    <2> QED BY <2>1, <2>3, <2>4, PlansRest
  <1>2. CASE PlanPagination
    <2>1. PICK to \in 1 .. ui.of : ui' = [ui EXCEPT !.at = to] /\ UNCHANGED <<calls, db>>
      BY <1>2 DEF PlanPagination
    <2>2. to \in PageNumbers
      <3>1. Cardinality(Items) \in Nat
        BY ListAssumption, FS_CardinalityType
      <3>2. PICK of \in PageNumbers : of = ui.of
        BY <1>c DEF UiTyped
      <3> QED BY <2>1, <3>1, <3>2, UpTo DEF PageNumbers
    <2>3. /\ ui'.at = to /\ ui'.of = ui.of /\ ui'.rows = ui.rows /\ ui'.dialog = ui.dialog
          /\ ui'.entered = ui.entered /\ ui'.value = ui.value
      BY <1>a, <2>1 DEF DialogFields
    <2>4. ListTyped(PlanStates, PlanHandlers, PlanDialogs)'
      BY <1>b, <1>c, <2>1, <2>2, <2>3 DEF ListTyped, UiTyped
    <2> QED BY <2>1, <2>4, PlansRest
  <1>3. CASE Dismiss
    <2>1. ListTyped(PlanStates, PlanHandlers, PlanDialogs)' /\ UNCHANGED <<calls, db>>
      BY <1>a, <1>b, <1>3, DismissTyped DEF Dismiss
    <2> QED BY <2>1, PlansRest
  <1> QED BY <1>1, <1>2, <1>3

(* The form of a plan, from opening it to its last field. *)
LEMMA PlanFormTyped ==
  ASSUME PlanRest, PlansTyped,
         \/ CreatePlan \/ PlanOnSale
         \/ PlanPlatforms \/ PlanModes \/ PlanProvider \/ PlanCategory \/ PlanDays
         \/ \E row \in ui.rows : EditPlan(row) \/ AskDeletePlan(row)
  PROVE  PlansTyped'
  <1>a. DialogInv /\ DialogFields \cup {"form", "edits"} \subseteq DOMAIN ui
    BY DEF PlanRest, DialogInv, PlansSold
  <1>b. ListTyped(PlanStates, PlanHandlers, PlanDialogs) /\ UiTyped(ui, PlanStates, PlanDialogs)
    BY DEF PlansTyped, ListTyped
  <1>c. Shown(PlanStates) = {"active", "inactive"}
    BY DEF Shown, PlanStates
  <1>d. ASSUME NEW row \in ui.rows
        PROVE  row.id \in Items /\ row.is \in Shown(PlanStates)
    BY <1>b DEF UiTyped, RowsTyped
  <1>0. ASSUME UNCHANGED <<calls, db>>, ListTyped(PlanStates, PlanHandlers, PlanDialogs)'
        PROVE  PlansTyped'
    BY <1>0, PlansRest
  <1>1. ASSUME UNCHANGED <<calls, db>>, UiTyped(ui', PlanStates, PlanDialogs)
        PROVE  PlansTyped'
    <2>1. ListTyped(PlanStates, PlanHandlers, PlanDialogs)'
      BY <1>b, <1>1 DEF ListTyped
    <2> QED BY <1>1, <2>1, PlansRest
  <1>2. ASSUME UNCHANGED <<calls, db>>, NEW dialog, NEW filled, dialog.id \in Items \cup {0},
               NEW value \in Shown(PlanStates),
               ui' = [ui EXCEPT !.dialog = dialog, !.entered = {dialog.id}, !.form = filled,
                                !.value = value]
        PROVE  PlansTyped'
    <2>1. /\ ui'.at = ui.at /\ ui'.of = ui.of /\ ui'.rows = ui.rows /\ ui'.dialog = dialog
          /\ ui'.entered = {dialog.id} /\ ui'.value = value
      BY <1>a, <1>2 DEF DialogFields
    <2>2. UiTyped(ui', PlanStates, PlanDialogs)
      BY <1>b, <1>2, <2>1 DEF UiTyped
    <2> QED BY <1>1, <1>2, <2>2
  <1>3. CASE CreatePlan
    <2>1. PICK dialog, filled, value :
            /\ dialog = [kind |-> "create", id |-> 0] /\ filled = EmptyPlanForm
            /\ value = "active"
      OBVIOUS
    <2>2. dialog.id = 0 /\ value \in Shown(PlanStates)
      BY <1>c, <2>1
    <2>3. ui' = [ui EXCEPT !.dialog = dialog, !.entered = {dialog.id}, !.form = filled,
                           !.value = value] /\ UNCHANGED <<calls, db>>
      BY <1>3, <2>1, <2>2 DEF CreatePlan
    <2> QED BY <1>2, <2>2, <2>3
  <1>4. ASSUME NEW row \in ui.rows, EditPlan(row)
        PROVE  PlansTyped'
    <2>1. PICK filled : filled = IF row.plan.provider = "lunakey" THEN row.plan
                             ELSE [row.plan EXCEPT !.category = "1month"]
      OBVIOUS
    <2>2. PICK dialog, value : dialog = [kind |-> "edit", id |-> row.id] /\ value = row.is
      OBVIOUS
    <2>3. dialog.id = row.id /\ value \in Shown(PlanStates)
      BY <1>d, <2>2
    <2>4. ui' = [ui EXCEPT !.dialog = dialog, !.entered = {dialog.id}, !.form = filled,
                           !.value = value] /\ UNCHANGED <<calls, db>>
      BY <1>4, <2>1, <2>2, <2>3 DEF EditPlan
    <2> QED BY <1>2, <1>d, <2>3, <2>4
  <1>5. ASSUME NEW row \in ui.rows, AskDeletePlan(row)
        PROVE  PlansTyped'
    <2>1. PICK kind, value : kind = "delete" /\ value = ""
      OBVIOUS
    <2>2. PICK id \in Items : id = row.id
      BY <1>d
    <2>3. Open(kind, id, {}, value)
      BY <1>5, <2>1, <2>2 DEF AskDeletePlan
    <2>4. kind \notin PlanDialogs
      BY <2>1 DEF PlanDialogs
    <2>5. ListTyped(PlanStates, PlanHandlers, PlanDialogs)'
      BY <1>a, <1>b, <2>2, <2>3, <2>4, OpenTyped
    <2>6. UNCHANGED <<calls, db>>
      BY <2>3 DEF Open
    <2> QED BY <1>0, <2>5, <2>6
  <1>6. CASE PlanOnSale
    <2>1. PICK value \in {"active", "inactive"} :
            value = IF ui.value = "active" THEN "inactive" ELSE "active"
      OBVIOUS
    <2>2. PICK n : ui' = [ui EXCEPT !.value = value, !.edits = n]
      BY <1>6, <2>1 DEF PlanOnSale
    <2>3. /\ ui'.at = ui.at /\ ui'.of = ui.of /\ ui'.rows = ui.rows /\ ui'.dialog = ui.dialog
          /\ ui'.entered = ui.entered /\ ui'.value = value
      BY <1>a, <2>2 DEF DialogFields
    <2>4. UiTyped(ui', PlanStates, PlanDialogs)
      BY <1>b, <1>c, <2>1, <2>3 DEF UiTyped
    <2> QED BY <1>1, <1>6, <2>4 DEF PlanOnSale
  <1>7. ASSUME NEW filled, EnterPlan(filled)
        PROVE  PlansTyped'
    <2>1. PICK n : ui' = [ui EXCEPT !.form = filled, !.edits = n]
      BY <1>7 DEF EnterPlan
    <2>2. \A f \in TypedFields : ui'[f] = ui[f]
      BY <1>a, <2>1 DEF TypedFields, DialogFields
    <2>3. UiTyped(ui', PlanStates, PlanDialogs)
      BY <1>b, <2>2, TypedAlike
    <2> QED BY <1>1, <1>7, <2>3 DEF EnterPlan
  <1>8. CASE PlanPlatforms \/ PlanModes \/ PlanProvider \/ PlanCategory \/ PlanDays
    <2>1. PlanPlatforms => \E filled : EnterPlan(filled)
      BY DEF PlanPlatforms
    <2>2. PlanModes => \E filled : EnterPlan(filled)
      BY DEF PlanModes
    <2>3. PlanProvider => \E filled : EnterPlan(filled)
      BY DEF PlanProvider
    <2>4. PlanCategory \/ PlanDays => \E filled : EnterPlan(filled)
      BY DEF PlanCategory, PlanDays
    <2> QED BY <1>7, <1>8, <2>1, <2>2, <2>3, <2>4
  <1> QED BY <1>3, <1>4, <1>5, <1>6, <1>8

(* The handlers send the form, the switch of a row, or what is to be deleted. *)
LEMMA PlanSubmitsTyped ==
  ASSUME PlanRest, PlansTyped,
         \/ HandleSavePlan \/ PlanDeleteDialog \/ \E row \in ui.rows : HandleToggleStatus(row)
  PROVE  PlansTyped'
  <1>a. DialogInv /\ DialogFields \cup {"form", "edits"} \subseteq DOMAIN ui
    BY DEF PlanRest, DialogInv, PlansSold
  <1>b. ListTyped(PlanStates, PlanHandlers, PlanDialogs) /\ UiTyped(ui, PlanStates, PlanDialogs)
    BY DEF PlansTyped, ListTyped
  <1>c. Shown(PlanStates) = {"active", "inactive"}
    BY DEF Shown, PlanStates
  <1>1. CASE HandleSavePlan
    <2>1. PICK b : b = Call("save", ui)
      OBVIOUS
    <2>2. PICK c : c = [b EXCEPT !.kind = ui.dialog.kind, !.target = ui.dialog.id,
                                 !.entered = ui.entered, !.form = {ui.form},
                                 !.value = ui.value]
      OBVIOUS
    <2>3. /\ calls' = calls \cup {c} /\ UNCHANGED db
          /\ ui' = [ui EXCEPT !.busy = @ \cup {"save"}] /\ ui.dialog.kind \in PlanDialogs
      BY <1>1, <2>1, <2>2 DEF HandleSavePlan, Begin, In, PlanDialogs
    <2>4. Began(b, "save") /\ ui.at \in PageNumbers
      BY <1>b, <2>1, CallBegan DEF UiTyped
    <2>5. CallTyped(b, PlanStates, {})
      BY <2>1, <2>4, CallMadeTyped
    <2>6. /\ c.at = b.at /\ c.of = b.of /\ c.rows = {} /\ c.target = ui.dialog.id
          /\ c.value = ui.value
      BY <2>2, <2>4 DEF Began, CallFields
    <2>7. CallTyped(c, PlanStates, PlanHandlers)
      BY <1>b, <2>3, <2>5, <2>6 DEF CallTyped, UiTyped, RowsTyped
    <2>8. DOMAIN ui' = DOMAIN ui /\ \A f \in TypedFields : ui'[f] = ui[f]
      BY <1>a, <2>3 DEF TypedFields, DialogFields
    <2>9. Fit(ui', PlanStates, PlanDialogs)
      BY <1>a, <1>b, <2>8, ListAsItWas
    <2>10. ListTyped(PlanStates, PlanHandlers, PlanDialogs)'
      BY <1>b, <2>3, <2>7, <2>9, CalledTyped
    <2> QED BY <2>3, <2>6, <2>10, PlansRest
  <1>2. CASE PlanDeleteDialog
    <2>1. PICK op : op = "delete"
      OBVIOUS
    <2>2. Submit(op) /\ op \notin PlanHandlers
      BY <1>2, <2>1 DEF PlanDeleteDialog, PlanHandlers
    <2>3. ListTyped(PlanStates, PlanHandlers, PlanDialogs)'
      BY <1>a, <1>b, <2>2, SubmitTyped
    <2>4. PICK b : b = Call(op, ui)
      OBVIOUS
    <2>5. PICK c : c = [b EXCEPT !.kind = ui.dialog.kind, !.target = ui.dialog.id,
                                 !.value = ui.value, !.entered = ui.entered]
      OBVIOUS
    <2>6. calls' = calls \cup {c} /\ UNCHANGED db
      BY <2>2, <2>4, <2>5 DEF Submit, Begin
    <2>7. Began(b, op)
      BY <2>4, CallBegan
    <2>8. c.rows = {}
      BY <2>5, <2>7 DEF Began, CallFields
    <2> QED BY <2>3, <2>6, <2>8, PlansRest
  <1>3. ASSUME NEW row \in ui.rows, HandleToggleStatus(row)
        PROVE  PlansTyped'
    <2>1. PICK b : b = Call("toggle", ui)
      OBVIOUS
    <2>2. PICK value \in {"active", "inactive"} :
            value = IF row.is = "active" THEN "inactive" ELSE "active"
      OBVIOUS
    <2>3. PICK c : c = [b EXCEPT !.target = row.id, !.value = value]
      OBVIOUS
    <2>4. calls' = calls \cup {c} /\ UNCHANGED <<ui, db>>
      BY <1>3, <2>1, <2>2, <2>3 DEF HandleToggleStatus, Begin
    <2>5. Began(b, "toggle") /\ ui.at \in PageNumbers
      BY <1>b, <2>1, CallBegan DEF UiTyped
    <2>6. CallTyped(b, PlanStates, {})
      BY <2>1, <2>5, CallMadeTyped
    <2>7. /\ c.at = b.at /\ c.of = b.of /\ c.rows = {} /\ c.target = row.id
          /\ c.value = value
      BY <2>3, <2>5 DEF Began, CallFields
    <2>8. row.id \in Items
      BY <1>b DEF UiTyped, RowsTyped
    <2>9. CallTyped(c, PlanStates, PlanHandlers)
      BY <1>c, <2>2, <2>6, <2>7, <2>8 DEF CallTyped, RowsTyped
    <2>10. Fit(ui', PlanStates, PlanDialogs)
      BY <1>a, <1>b, <2>4 DEF Fit
    <2>11. ListTyped(PlanStates, PlanHandlers, PlanDialogs)'
      BY <1>b, <2>4, <2>9, <2>10, CalledTyped
    <2> QED BY <2>4, <2>7, <2>11, PlansRest
  <1> QED BY <1>1, <1>2, <1>3

(* The shop reads the plans, and the browser cuts them into pages. *)
LEMMA PlanLoadsTyped ==
  ASSUME PlanRest, PlansTyped, NEW c \in calls, ReadPlans(c) \/ LoadPlans(c)
  PROVE  PlansTyped'
  <1>a. /\ DialogInv /\ DialogFields \subseteq DOMAIN ui /\ CallFields \subseteq DOMAIN c
        /\ "is" \in DOMAIN db
    BY DEF PlanRest, DialogInv, OwnCall, PlansSold
  <1>b. /\ ListTyped(PlanStates, PlanHandlers, PlanDialogs) /\ UiTyped(ui, PlanStates, PlanDialogs)
        /\ CallTyped(c, PlanStates, PlanHandlers)
    BY DEF PlansTyped, ListTyped
  <1>1. CASE ReadPlans(c)
    <2>1. PICK rows : rows = {[id |-> i, is |-> db.is[i], plan |-> db.plan[i]] : i \in Matching("")}
      OBVIOUS
    <2>2. PICK d : d = [c EXCEPT !.reply = "ok", !.rows = rows]
      OBVIOUS
    <2>3. calls' = (calls \ {c}) \cup {d} /\ UNCHANGED <<ui, db>>
      BY <1>1, <2>1, <2>2 DEF ReadPlans, Change
    <2>4. /\ d.at = c.at /\ d.of = c.of /\ d.rows = rows /\ d.target = c.target /\ d.op = c.op
          /\ d.value = c.value
      BY <1>a, <2>2 DEF CallFields
    <2>5. \A i \in Matching("") : i \in Items /\ db.is[i] \in Shown(PlanStates)
      BY <1>b DEF Matching, Shown, ListTyped
    <2>6. ASSUME NEW row \in rows
          PROVE  {"id", "is"} \subseteq DOMAIN row /\ row.id \in Items /\ row.is \in Shown(PlanStates)
      <3>1. PICK i \in Matching("") : row = [id |-> i, is |-> db.is[i], plan |-> db.plan[i]]
        BY <2>1
      <3>2. {"id", "is"} \subseteq DOMAIN row /\ row.id = i /\ row.is = db.is[i]
        BY <3>1
      <3> QED BY <2>5, <3>2
    <2>7. RowsTyped(rows, PlanStates)
      BY <2>6 DEF RowsTyped
    <2>8. CallTyped(d, PlanStates, PlanHandlers)
      BY <1>b, <2>4, <2>7 DEF CallTyped
    <2>9. ListTyped(PlanStates, PlanHandlers, PlanDialogs)'
      BY <1>b, <2>3, <2>8 DEF ListTyped
    <2>10. PlanPages(rows) \in PageNumbers
      BY <2>1, PlanPagesCounted
    <2> QED BY <2>3, <2>4, <2>9, <2>10 DEF PlansTyped
  <1>2. CASE LoadPlans(c)
    <2>1. PICK u : u = [ui EXCEPT !.loading = FALSE]
      OBVIOUS
    <2>2. PICK of \in PageNumbers : of = PlanPages(c.rows)
      BY <1>2 DEF PlansTyped, LoadPlans
    <2>3. PICK at : at = IF u.at > of THEN of ELSE u.at
      OBVIOUS
    <2>4. PICK v : v = [u EXCEPT !.rows = c.rows, !.of = of, !.at = at]
      OBVIOUS
    <2>5. /\ DOMAIN u = DOMAIN ui /\ \A f \in DOMAIN ui \ {"loading"} : u[f] = ui[f]
      BY <2>1
    <2>6. v = [u EXCEPT !.rows = c.rows, !.of = of, !.at = IF @ > of THEN of ELSE @]
      BY <1>a, <2>3, <2>4, <2>5 DEF DialogFields
    <2>7. End(c) /\ UNCHANGED db /\ ui' \in {u, v}
      BY <1>2, <2>1, <2>2, <2>6 DEF LoadPlans
    <2>8. UiTyped(u, PlanStates, PlanDialogs)
      BY <1>a, <1>b, <2>5, TypedAlike DEF TypedFields, DialogFields
    <2>9. at \in PageNumbers
      BY <2>2, <2>3, <2>8 DEF UiTyped
    <2>10. /\ DOMAIN v = DOMAIN u /\ v.at = at /\ v.of = of /\ v.rows = c.rows
           /\ v.dialog = u.dialog /\ v.entered = u.entered /\ v.value = u.value
      BY <1>a, <2>4, <2>5 DEF DialogFields
    <2>11. UiTyped(v, PlanStates, PlanDialogs)
      BY <1>b, <2>2, <2>8, <2>9, <2>10 DEF UiTyped, CallTyped
    <2>12. Fit(ui', PlanStates, PlanDialogs)
      BY <1>a, <2>5, <2>7, <2>8, <2>10, <2>11 DEF Fit
    <2>13. ListTyped(PlanStates, PlanHandlers, PlanDialogs)'
      BY <1>b, <2>7, <2>12, EndsTyped DEF ListTyped
    <2> QED BY <2>7, <2>13, PlansRest DEF End
  <1> QED BY <1>1, <1>2

(* The shop saves, switches or deletes a plan. *)
LEMMA PlanExecutedTyped ==
  ASSUME PlanRest, PlansTyped, NEW c \in calls, PlanSaved(c) \/ PlanToggled(c) \/ PlanDeleted(c)
  PROVE  PlansTyped'
  <1>a. /\ DialogInv /\ CallFields \subseteq DOMAIN c /\ {"is", "plan"} \subseteq DOMAIN db
        /\ DOMAIN db'.plan = Items /\ \A i \in Items : PlanSold(db'.plan[i])
    BY PlanExecuted DEF PlanRest, DialogInv, OwnCall, PlansSold
  <1>b. ListTyped(PlanStates, PlanHandlers, PlanDialogs) /\ CallTyped(c, PlanStates, PlanHandlers)
    BY DEF PlansTyped, ListTyped
  <1>c. PICK plan \in [Items -> PlanForm], is \in [Items -> PlanStates] : plan = db.plan /\ is = db.is
    BY <1>b DEF PlansTyped, ListTyped
  <1>1. /\ UNCHANGED ui /\ Change(c, [c EXCEPT !.reply = "ok"])
        /\ c.op \in {"save", "toggle", "delete"}
    BY DEF PlanSaved, PlanToggled, PlanDeleted, Executed
  <1>2. PICK to \in PlanStates :
          \/ db' = [db EXCEPT !.is[c.target] = to]
          \/ \E i \in Items : \E g : db' = [db EXCEPT !.plan[i] = g, !.is[i] = to]
    <2>1. c.op \in {"save", "toggle"} => c.value \in PlanStates
      BY <1>b DEF CallTyped, PlanHandlers, Shown
    <2>2. CASE PlanSaved(c)
      BY <2>1, <2>2 DEF PlanSaved
    <2>3. CASE PlanToggled(c)
      BY <2>1, <2>3 DEF PlanToggled, Executed
    <2>4. CASE PlanDeleted(c)
      BY <2>4 DEF PlanDeleted, Executed, PlanStates
    <2> QED BY <2>2, <2>3, <2>4
  <1>3. /\ DOMAIN db' = DOMAIN db
        /\ \E i : db'.is = [is EXCEPT ![i] = to]
        /\ db'.plan = plan \/ \E i, g : db'.plan = [plan EXCEPT ![i] = g]
    <2>1. CASE db' = [db EXCEPT !.is[c.target] = to]
      BY <1>a, <1>c, <2>1
    <2>2. ASSUME NEW i \in Items, NEW g, db' = [db EXCEPT !.plan[i] = g, !.is[i] = to]
          PROVE  /\ DOMAIN db' = DOMAIN db
                 /\ \E j : db'.is = [is EXCEPT ![j] = to]
                 /\ \E j, h : db'.plan = [plan EXCEPT ![j] = h]
      <3>1. PICK d : d = [db EXCEPT !.plan[i] = g]
        OBVIOUS
      <3>2. DOMAIN d = DOMAIN db /\ d.is = is /\ d.plan = [plan EXCEPT ![i] = g]
        BY <1>a, <1>c, <3>1
      <3>3. db' = [d EXCEPT !.is[i] = to]
        BY <2>2, <3>1
      <3> QED BY <1>a, <3>2, <3>3
    <2> QED BY <1>2, <2>1, <2>2
  <1>4. db'.is \in [Items -> PlanStates]
    BY <1>c, <1>3
  <1>5. db'.plan = [i \in Items |-> db'.plan[i]]
    BY <1>c, <1>3
  <1>6. db'.plan \in [Items -> PlanForm]
    BY <1>a, <1>5 DEF PlanSold
  <1>7. ListTyped(PlanStates, PlanHandlers, PlanDialogs)'
    BY <1>a, <1>b, <1>1, <1>3, <1>4, RepliedTyped
  <1>8. PICK d : d = [c EXCEPT !.reply = "ok"]
    OBVIOUS
  <1>9. calls' = (calls \ {c}) \cup {d} /\ d.op = c.op
    BY <1>a, <1>1, <1>8 DEF Change, CallFields
  <1> QED BY <1>1, <1>6, <1>7, <1>9 DEF PlansTyped

LEMMA PlanAnswersTyped ==
  ASSUME PlanRest, PlansTyped, NEW c \in calls,
         PlanSaveDone(c) \/ PlanToggleDone(c) \/ PlanDeleteDone(c) \/ Failed(c)
  PROVE  PlansTyped'
  <1>a. DialogInv
    BY DEF PlanRest
  <1>b. /\ ListTyped(PlanStates, PlanHandlers, PlanDialogs)
        /\ "load" \notin PlanHandlers /\ "none" \notin PlanDialogs
    BY DEF PlansTyped, PlanHandlers, PlanDialogs
  <1>1. CASE Failed(c)
    <2>1. ListTyped(PlanStates, PlanHandlers, PlanDialogs)'
      BY <1>a, <1>b, <1>1, FailedTyped
    <2> QED BY <1>1, <2>1, PlansRest DEF Failed, End
  <1>2. ASSUME NEW u, Fit(u, PlanStates, PlanDialogs), ThenLoad(c, u)
        PROVE  PlansTyped'
    <2>1. ListTyped(PlanStates, PlanHandlers, PlanDialogs)'
      BY <1>a, <1>b, <1>2, LoadsThenTyped
    <2>2. PICK l : l = Load(ui, FALSE, "")
      OBVIOUS
    <2>3. PICK again : again = [l EXCEPT !.id = c.id, !.filter = c.filter, !.at = c.at]
      OBVIOUS
    <2>4. calls' = (calls \ {c}) \cup {again} /\ UNCHANGED db
      BY <1>2, <2>2, <2>3 DEF ThenLoad, Change
    <2>5. LoadBegan(l)
      BY <2>2, LoadMade
    <2>6. again.rows = {}
      BY <2>3, <2>5 DEF LoadBegan, CallFields
    <2> QED BY <2>1, <2>4, <2>6, PlansRest
  <1>3. CASE PlanSaveDone(c) \/ PlanToggleDone(c) \/ PlanDeleteDone(c)
    <2>1. PICK u : Fit(u, PlanStates, PlanDialogs) /\ ThenLoad(c, u)
      BY <1>a, <1>b, <1>3, FreesTyped, ClosesTyped DEF PlanSaveDone, PlanToggleDone, PlanDeleteDone
    <2> QED BY <1>2, <2>1
  <1> QED BY <1>1, <1>2, <1>3

LEMMA PlansTypedNext == PlanRest /\ PlansTyped /\ AdminPlansNext => PlansTyped'
  <1> SUFFICES ASSUME PlanRest, PlansTyped, AdminPlansNext
               PROVE  PlansTyped'
    OBVIOUS
  <1>1. ASSUME NEW i, OthersChange(i, "absent")
        PROVE  PlansTyped'
    <2>1. PICK to \in PlanStates : to = "absent"
      BY DEF PlanStates
    <2>2. ListTyped(PlanStates, PlanHandlers, PlanDialogs) /\ OthersChange(i, to)
      BY <1>1, <2>1 DEF PlansTyped
    <2>3. ListTyped(PlanStates, PlanHandlers, PlanDialogs)'
      BY <2>2, OthersTyped
    <2>4. db' = [db EXCEPT !.is[i] = to, !.others = @ + 1] /\ {"is", "plan"} \subseteq DOMAIN db
          /\ UNCHANGED calls
      BY <2>2 DEF OthersChange, PlanRest, PlansSold
    <2>5. db'.plan = db.plan
      BY <2>4
    <2> QED BY <2>3, <2>4, <2>5, PlansRest
  <1> QED BY <1>1, PlanLooksTyped, PlanFormTyped, PlanSubmitsTyped, PlanLoadsTyped,
             PlanExecutedTyped, PlanAnswersTyped DEF AdminPlansNext

-----------------------------------------------------------------------------
(* The settings: the two forms hold texts that were typed or loaded, and the
   answer to the popup's tab holds one. *)
SystemStates == {"active", "absent"}
Setting == [popup : Popup, on : BOOLEAN]

SystemForms(u, d) ==
  /\ {"popup", "maintenance", "profile"} \subseteq DOMAIN d
  /\ u.tab \in d.errand \cup {"accounts"} /\ u.popup \in Popup /\ u.texts \in 0 .. MaxTexts
  /\ u.settings \subseteq Setting
  /\ d.popup \in Popup /\ d.maintenance \in BOOLEAN

SystemCall(c) ==
  /\ c.form \subseteq Setting
  /\ c.op = "load" /\ c.reply # "none" /\ c.value = "popup" => c.form # {}

SystemTyped ==
  /\ ListTyped(SystemStates, {}, {})
  /\ SystemForms(ui, db)
  /\ \A c \in calls : SystemCall(c)

LEMMA SystemTypeOK == SystemTyped => AdminSystemTypeOK
  <1> SUFFICES ASSUME SystemTyped
               PROVE  AdminSystemTypeOK
    OBVIOUS
  <1>1. UiTyped(ui, SystemStates, {})
    BY DEF SystemTyped, ListTyped
  <1>2. DialogTypeOK
    BY <1>1 DEF UiTyped, RowsTyped, DialogTypeOK, PageNumbers
  <1> QED BY <1>2 DEF AdminSystemTypeOK, SystemTyped, SystemForms, Setting

LEMMA SystemKept ==
  ASSUME SystemTyped, ListTyped(SystemStates, {}, {})', SystemForms(ui, db)',
         \A d \in calls' : d \in calls \/ SystemCall(d)
  PROVE  SystemTyped'
  BY DEF SystemTyped

(* A step that leaves the forms alone. *)
LEMMA SystemApart ==
  ASSUME SystemRest, SystemTyped, ListTyped(SystemStates, {}, {})', Rest(ui'), UNCHANGED db,
         \A d \in calls' : d \in calls \/ SystemCall(d)
  PROVE  SystemTyped'
  <1>1. {"tab", "popup", "texts", "settings"} \subseteq DOMAIN ui \ DialogFields
    BY SystemFields DEF DialogFields
  <1>2. /\ ui'["tab"] = ui["tab"] /\ ui'["popup"] = ui["popup"] /\ ui'["texts"] = ui["texts"]
        /\ ui'["settings"] = ui["settings"]
    BY <1>1 DEF Rest
  <1>3. SystemForms(ui, db)'
    BY <1>2 DEF SystemTyped, SystemForms
  <1> QED BY <1>3, SystemKept

LEMMA SystemFieldsTyped ==
  ASSUME SystemRest, SystemTyped,
         \/ AccountForm \/ ProxyForm \/ PopupForm \/ ChooseProfile
         \/ \E on \in BOOLEAN : SettingsForm(on)
  PROVE  SystemTyped'
  <1>a. DialogInv /\ DialogFields \cup {"tab", "popup", "texts", "settings", "typed"} \subseteq DOMAIN ui
    BY SystemFields
  <1>b. ListTyped(SystemStates, {}, {}) /\ SystemForms(ui, db)
    BY DEF SystemTyped
  <1>c. UNCHANGED <<calls, db>>
    BY DEF AccountForm, ProxyForm, PopupForm, ChooseProfile, SettingsForm
  <1>1. ASSUME NEW u, ui' = u, DOMAIN u = DOMAIN ui, \A f \in DialogFields : u[f] = ui[f],
               SystemForms(u, db)
        PROVE  SystemTyped'
    <2>1. \A f \in TypedFields : ui'[f] = ui[f]
      BY <1>1 DEF TypedFields, DialogFields
    <2>2. Fit(ui', SystemStates, {})
      BY <1>a, <1>b, <1>1, <2>1, ListAsItWas
    <2>3. ListTyped(SystemStates, {}, {})'
      BY <1>b, <1>c, <2>2 DEF ListTyped, Fit
    <2>4. SystemForms(ui, db)'
      BY <1>c, <1>1 DEF SystemForms
    <2> QED BY <1>c, <2>3, <2>4, SystemKept
  <1>2. CASE AccountForm \/ ProxyForm \/ ChooseProfile
    <2>1. PICK u : ui' = u /\ u = [ui EXCEPT !.typed = TRUE]
      BY <1>2 DEF AccountForm, ProxyForm, ChooseProfile
    <2>2. DOMAIN u = DOMAIN ui /\ \A f \in DOMAIN ui \ {"typed"} : u[f] = ui[f]
      BY <2>1
    <2>3. \A f \in DialogFields : u[f] = ui[f]
      BY <1>a, <2>2 DEF DialogFields
    <2>4. u.tab = ui.tab /\ u.popup = ui.popup /\ u.texts = ui.texts /\ u.settings = ui.settings
      BY <1>a, <2>2
    <2>5. SystemForms(u, db)
      BY <1>b, <2>4 DEF SystemForms
    <2> QED BY <1>1, <2>1, <2>2, <2>3, <2>5
  <1>3. CASE PopupForm
    <2>1. PICK n \in 0 .. MaxTexts : n = ui.texts
      BY <1>b DEF SystemForms
    <2>2. n < MaxTexts /\ n + 2 \in Popup /\ n + 1 \in 0 .. MaxTexts
      BY <1>3, <2>1, AdminSystemAssumption DEF PopupForm, Popup
    <2>3. PICK u : ui' = u /\ u = [ui EXCEPT !.popup = n + 2, !.texts = n + 1]
      BY <1>3, <2>1 DEF PopupForm
    <2>4. DOMAIN u = DOMAIN ui /\ \A f \in DialogFields : u[f] = ui[f]
      BY <1>a, <2>3 DEF DialogFields
    <2>5. u.tab = ui.tab /\ u.popup = n + 2 /\ u.texts = n + 1 /\ u.settings = ui.settings
      BY <1>a, <2>3
    <2>6. SystemForms(u, db)
      BY <1>b, <2>2, <2>5 DEF SystemForms
    <2> QED BY <1>1, <2>3, <2>4, <2>6
  <1>4. ASSUME NEW on \in BOOLEAN, SettingsForm(on)
        PROVE  SystemTyped'
    <2>1. PICK n \in 0 .. MaxTexts : n = ui.texts
      BY <1>b DEF SystemForms
    <2>2. n + 1 \in 0 .. MaxTexts /\ 0 \in Popup
      <3>1. n < MaxTexts
        BY <1>4, <2>1 DEF SettingsForm
      <3> QED BY <2>1, <3>1, AdminSystemAssumption DEF Popup
    <2>3. PICK new : new = IF ui.settings = {} THEN {[popup |-> 0, on |-> on]}
                           ELSE {[s EXCEPT !.on = on] : s \in ui.settings}
      OBVIOUS
    <2>4. new \subseteq Setting
      <3>1. ui.settings \subseteq [popup : Popup, on : BOOLEAN]
        BY <1>b DEF SystemForms, Setting
      <3>2. [popup |-> 0, on |-> on] \in [popup : Popup, on : BOOLEAN]
        BY <2>2
      <3>3. \A s \in [popup : Popup, on : BOOLEAN] :
              [s EXCEPT !.on = on] \in [popup : Popup, on : BOOLEAN]
        OBVIOUS
      <3> QED BY <2>3, <3>1, <3>2, <3>3 DEF Setting
    <2>5. PICK u : ui' = u /\ u = [ui EXCEPT !.texts = n + 1, !.settings = new]
      BY <1>4, <2>1, <2>3 DEF SettingsForm
    <2>6. DOMAIN u = DOMAIN ui /\ \A f \in DialogFields : u[f] = ui[f]
      BY <1>a, <2>5 DEF DialogFields
    <2>7. u.tab = ui.tab /\ u.popup = ui.popup /\ u.texts = n + 1 /\ u.settings = new
      BY <1>a, <2>5
    <2>8. SystemForms(u, db)
      BY <1>b, <2>2, <2>4, <2>7 DEF SystemForms
    <2> QED BY <1>1, <2>5, <2>6, <2>8
  <1> QED BY <1>2, <1>3, <1>4

LEMMA SystemDialogTyped ==
  ASSUME SystemRest, SystemTyped,
         \/ PopupPreview \/ AskDeleteProfile \/ Dismiss
         \/ \E row \in ui.rows : AskDeleteAccount(row) \/ AskDeleteProxy(row)
  PROVE  SystemTyped'
  <1>a. DialogInv /\ ListTyped(SystemStates, {}, {})
    BY SystemFields DEF SystemTyped
  <1>1. CASE Dismiss
    <2>1. ListTyped(SystemStates, {}, {})'
      BY <1>a, <1>1, DismissTyped
    <2>2. UNCHANGED <<calls, db>>
      BY <1>1 DEF Dismiss
    <2> QED BY <1>1, <1>a, <2>1, <2>2, DialogRest, SystemApart
  <1>2. ASSUME NEW kind, NEW id \in Items \cup {0}, NEW value, Open(kind, id, {}, value)
        PROVE  SystemTyped'
    <2>1. ListTyped(SystemStates, {}, {})'
      BY <1>a, <1>2, OpenTyped
    <2>2. UNCHANGED <<calls, db>>
      BY <1>2 DEF Open
    <2>3. Rest(ui')
      BY <1>2, <1>a, DialogRest
    <2> QED BY <2>1, <2>2, <2>3, SystemApart
  <1>3. CASE PopupPreview \/ AskDeleteProfile
    <2>1. PICK id \in Items \cup {0} : id = 0
      OBVIOUS
    <2>2. PICK kind, value : Open(kind, id, {}, value)
      BY <1>3, <2>1 DEF PopupPreview, AskDeleteProfile
    <2> QED BY <1>2, <2>2
  <1>4. ASSUME NEW row \in ui.rows, AskDeleteAccount(row) \/ AskDeleteProxy(row)
        PROVE  SystemTyped'
    <2>1. PICK id \in Items : id = row.id
      BY <1>a DEF ListTyped, UiTyped, RowsTyped
    <2>2. PICK kind, value : Open(kind, id, {}, value)
      BY <1>4, <2>1 DEF AskDeleteAccount, AskDeleteProxy
    <2> QED BY <1>2, <2>2
  <1> QED BY <1>1, <1>2, <1>3, <1>4

LEMMA SystemSubmitsTyped ==
  ASSUME SystemRest, SystemTyped, NEW op, Submit(op)
  PROVE  SystemTyped'
  <1>a. DialogInv /\ ListTyped(SystemStates, {}, {}) /\ DialogFields \subseteq DOMAIN ui
    BY SystemFields DEF SystemTyped
  <1>1. ListTyped(SystemStates, {}, {})'
    BY <1>a, SubmitTyped
  <1>2. PICK b : b = Call(op, ui)
    OBVIOUS
  <1>3. PICK c : c = [b EXCEPT !.kind = ui.dialog.kind, !.target = ui.dialog.id,
                               !.value = ui.value, !.entered = ui.entered]
    OBVIOUS
  <1>4. calls' = calls \cup {c} /\ UNCHANGED db /\ ui' = [ui EXCEPT !.busy = @ \cup {op}]
    BY <1>2, <1>3 DEF Submit, Begin
  <1>5. Began(b, op)
    BY <1>2, CallBegan
  <1>6. c.form = {} /\ c.reply = "none"
    BY <1>3, <1>5 DEF Began, CallFields
  <1>7. SystemCall(c)
    BY <1>6 DEF SystemCall
  <1>8. Rest(ui')
    BY <1>a, <1>4 DEF Rest, DialogFields
  <1> QED BY <1>1, <1>4, <1>7, <1>8, SystemApart

LEMMA SystemSavesTyped ==
  ASSUME SystemRest, SystemTyped, HandleSavePopup \/ HandleSaveSettings
  PROVE  SystemTyped'
  <1>a. /\ DialogInv /\ ListTyped(SystemStates, {}, {}) /\ DialogFields \subseteq DOMAIN ui
        /\ SystemForms(ui, db)
    BY SystemFields DEF SystemTyped
  <1>1. PICK op \in {"save popup", "save settings"}, f \in SUBSET Setting :
          /\ ui' = [ui EXCEPT !.busy = @ \cup {op}] /\ UNCHANGED db
          /\ calls' = calls \cup {[Call(op, ui) EXCEPT !.form = f]}
    <2>1. {[popup |-> ui.popup, on |-> FALSE]} \in SUBSET Setting
      BY <1>a DEF SystemForms, Setting
    <2>2. ui.settings \in SUBSET Setting
      BY <1>a DEF SystemForms
    <2> QED BY <2>1, <2>2 DEF HandleSavePopup, HandleSaveSettings, Begin
  <1>2. PICK b : b = Call(op, ui)
    OBVIOUS
  <1>3. PICK c : c = [b EXCEPT !.form = f]
    OBVIOUS
  <1>4. Began(b, op) /\ ui.at \in PageNumbers
    BY <1>a, <1>2, CallBegan DEF ListTyped, UiTyped
  <1>5. CallTyped(b, SystemStates, {})
    BY <1>2, <1>4, CallMadeTyped
  <1>6. /\ c.at = b.at /\ c.of = b.of /\ c.rows = b.rows /\ c.target = b.target
        /\ c.form = f /\ c.reply = "none"
    BY <1>3, <1>4 DEF Began, CallFields
  <1>7. CallTyped(c, SystemStates, {}) /\ SystemCall(c)
    BY <1>5, <1>6 DEF CallTyped, SystemCall
  <1>8. DOMAIN ui' = DOMAIN ui /\ \A g \in DOMAIN ui \ {"busy"} : ui'[g] = ui[g]
    BY <1>1
  <1>9. Rest(ui') /\ \A g \in TypedFields : ui'[g] = ui[g]
    BY <1>a, <1>8 DEF Rest, TypedFields, DialogFields
  <1>10. Fit(ui', SystemStates, {})
    BY <1>a, <1>8, <1>9, ListAsItWas
  <1>11. ListTyped(SystemStates, {}, {})'
    BY <1>a, <1>1, <1>2, <1>3, <1>7, <1>10, CalledTyped
  <1> QED BY <1>1, <1>2, <1>3, <1>7, <1>9, <1>11, SystemApart

(* Tabs are loaded. *)
LEMMA TabTyped ==
  ASSUME NEW tab, NEW id, ui.at \in PageNumbers
  PROVE  /\ CallTyped(LoadTab(tab), SystemStates, {}) /\ SystemCall(LoadTab(tab))
         /\ CallTyped([LoadTab(tab) EXCEPT !.id = id], SystemStates, {})
         /\ SystemCall([LoadTab(tab) EXCEPT !.id = id])
  <1>1. PICK b : b = Call("load", ui)
    OBVIOUS
  <1>2. PICK l : l = [b EXCEPT !.silent = TRUE, !.value = tab]
    OBVIOUS
  <1>3. PICK other : other = [l EXCEPT !.id = id]
    OBVIOUS
  <1>4. Began(b, "load") /\ CallTyped(b, SystemStates, {})
    BY <1>1, CallBegan, CallMadeTyped
  <1>5. /\ l.at = b.at /\ l.of = b.of /\ l.rows = b.rows /\ l.target = b.target
        /\ l.form = {} /\ l.reply = "none" /\ CallFields \subseteq DOMAIN l
    BY <1>2, <1>4 DEF Began, CallFields
  <1>6. /\ other.at = b.at /\ other.of = b.of /\ other.rows = b.rows /\ other.target = b.target
        /\ other.form = {} /\ other.reply = "none"
    BY <1>3, <1>5 DEF CallFields
  <1>7. CallTyped(l, SystemStates, {}) /\ SystemCall(l)
    BY <1>4, <1>5 DEF CallTyped, SystemCall
  <1>8. CallTyped(other, SystemStates, {}) /\ SystemCall(other)
    BY <1>4, <1>6 DEF CallTyped, SystemCall
  <1> QED BY <1>1, <1>2, <1>3, <1>7, <1>8 DEF LoadTab

LEMMA SelectSubtabTyped ==
  ASSUME SystemRest, SystemTyped, NEW tab, SelectSubtab(tab)
  PROVE  SystemTyped'
  <1>a. /\ DialogInv /\ ListTyped(SystemStates, {}, {}) /\ SystemForms(ui, db)
        /\ DialogFields \cup {"tab", "popup", "texts", "settings", "typed"} \subseteq DOMAIN ui
    BY SystemFields DEF SystemTyped
  <1>1. PICK l : l = LoadTab(tab)
    OBVIOUS
  <1>2. ui' = [ui EXCEPT !.tab = tab] /\ calls' \in {calls, calls \cup {l}} /\ UNCHANGED db
        /\ tab \in db.errand
    BY <1>1 DEF SelectSubtab, Begin
  <1>3. CallTyped(l, SystemStates, {}) /\ SystemCall(l)
    BY <1>a, <1>1, TabTyped DEF ListTyped, UiTyped
  <1>4. DOMAIN ui' = DOMAIN ui /\ \A f \in DOMAIN ui \ {"tab"} : ui'[f] = ui[f]
    BY <1>2
  <1>5. \A f \in TypedFields : ui'[f] = ui[f]
    BY <1>a, <1>4 DEF TypedFields, DialogFields
  <1>6. Fit(ui', SystemStates, {})
    BY <1>a, <1>4, <1>5, ListAsItWas
  <1>7. ListTyped(SystemStates, {}, {})'
    BY <1>a, <1>2, <1>3, <1>6 DEF ListTyped, Fit
  <1>8. /\ ui'.tab = tab /\ ui'.popup = ui.popup /\ ui'.texts = ui.texts
        /\ ui'.settings = ui.settings
    BY <1>a, <1>2
  <1>9. SystemForms(ui, db)'
    BY <1>a, <1>2, <1>8 DEF SystemForms
  <1> QED BY <1>2, <1>3, <1>7, <1>9, SystemKept

LEMMA ReadTabTyped ==
  ASSUME SystemRest, SystemTyped, NEW c \in calls, ReadTab(c)
  PROVE  SystemTyped'
  <1>a. /\ DialogInv /\ ListTyped(SystemStates, {}, {}) /\ SystemForms(ui, db)
        /\ CallFields \subseteq DOMAIN c /\ CallTyped(c, SystemStates, {})
    BY SystemFields DEF SystemTyped, ListTyped, DialogInv, OwnCall
  <1>1. PICK rows : rows = IF c.value \in Lists THEN RowsAt("", 1) \cup RowsAt("", 2) ELSE {}
    OBVIOUS
  <1>2. PICK f : f = CASE c.value = "popup" -> {[popup |-> db.popup, on |-> FALSE]}
                       [] c.value = "settings" -> {[popup |-> db.popup, on |-> db.maintenance]}
                       [] OTHER -> {}
    OBVIOUS
  <1>3. PICK d : d = [c EXCEPT !.reply = "ok", !.rows = rows, !.form = f]
    OBVIOUS
  <1>4. calls' = (calls \ {c}) \cup {d} /\ UNCHANGED <<ui, db>>
    BY <1>1, <1>2, <1>3 DEF ReadTab, Change
  <1>5. RowsTyped(rows, SystemStates)
    <2>1. db.is \in [Items -> SystemStates]
      BY <1>a DEF ListTyped
    <2>2. RowsTyped(RowsAt("", 1), SystemStates) /\ RowsTyped(RowsAt("", 2), SystemStates)
      BY <2>1, RowsReadTyped
    <2> QED BY <1>1, <2>2 DEF RowsTyped
  <1>6. f \subseteq Setting /\ (c.value = "popup" => f # {})
    <2>1. [popup |-> db.popup, on |-> FALSE] \in Setting
      BY <1>a DEF SystemForms, Setting
    <2>2. [popup |-> db.popup, on |-> db.maintenance] \in Setting
      BY <1>a DEF SystemForms, Setting
    <2>3. c.value = "popup" => f = {[popup |-> db.popup, on |-> FALSE]}
      BY <1>2
    <2>4. c.value = "settings" => f = {[popup |-> db.popup, on |-> db.maintenance]}
      BY <1>2
    <2>5. c.value \notin {"popup", "settings"} => f = {}
      BY <1>2
    <2> QED BY <2>1, <2>2, <2>3, <2>4, <2>5
  <1>7. /\ d.at = c.at /\ d.of = c.of /\ d.rows = rows /\ d.target = c.target
        /\ d.form = f /\ d.value = c.value
    BY <1>a, <1>3 DEF CallFields
  <1>8. CallTyped(d, SystemStates, {}) /\ SystemCall(d)
    BY <1>a, <1>5, <1>6, <1>7 DEF CallTyped, SystemCall
  <1>9. ListTyped(SystemStates, {}, {})'
    BY <1>a, <1>4, <1>8 DEF ListTyped
  <1>10. Rest(ui')
    BY <1>4 DEF Rest
  <1> QED BY <1>4, <1>8, <1>9, <1>10, SystemApart

LEMMA LoadDataTyped ==
  ASSUME SystemRest, SystemTyped, NEW c \in calls, LoadData(c)
  PROVE  SystemTyped'
  <1>a. /\ DialogInv /\ ListTyped(SystemStates, {}, {}) /\ SystemForms(ui, db)
        /\ DialogFields \cup {"tab", "popup", "texts", "settings", "typed"} \subseteq DOMAIN ui
        /\ CallTyped(c, SystemStates, {}) /\ SystemCall(c) /\ UiTyped(ui, SystemStates, {})
    BY SystemFields DEF SystemTyped, ListTyped
  <1>b. End(c) /\ UNCHANGED db /\ c.op = "load"
    BY DEF LoadData
  <1>1. ASSUME Fit(ui', SystemStates, {}), ui'.tab = ui.tab, ui'.texts = ui.texts,
               ui'.popup \in Popup, ui'.settings \subseteq Setting
        PROVE  SystemTyped'
    <2>1. ListTyped(SystemStates, {}, {})'
      BY <1>1, <1>a, <1>b, EndsTyped DEF ListTyped
    <2>2. SystemForms(ui, db)'
      BY <1>1, <1>a, <1>b DEF SystemForms
    <2> QED BY <1>b, <2>1, <2>2, SystemKept DEF End
  <1>2. CASE ui' = ui
    <2>1. Fit(ui', SystemStates, {})
      BY <1>2, <1>a DEF Fit
    <2> QED BY <1>1, <1>2, <1>a, <2>1 DEF SystemForms
  <1>3. CASE ui' = [ui EXCEPT !.rows = c.rows]
    <2>1. /\ DOMAIN ui' = DOMAIN ui /\ ui'.at = ui.at /\ ui'.of = ui.of /\ ui'.rows = c.rows
          /\ ui'.dialog = ui.dialog /\ ui'.entered = ui.entered /\ ui'.value = ui.value
          /\ ui'.tab = ui.tab /\ ui'.texts = ui.texts /\ ui'.popup = ui.popup
          /\ ui'.settings = ui.settings
      BY <1>3, <1>a DEF DialogFields
    <2>2. Fit(ui', SystemStates, {})
      BY <1>a, <2>1 DEF Fit, UiTyped, CallTyped
    <2> QED BY <1>1, <1>a, <2>1, <2>2 DEF SystemForms
  <1>4. ASSUME NEW p \in Popup, ui' = [ui EXCEPT !.popup = p]
        PROVE  SystemTyped'
    <2>1. DOMAIN ui' = DOMAIN ui /\ \A f \in TypedFields : ui'[f] = ui[f]
      BY <1>4, <1>a DEF TypedFields, DialogFields
    <2>2. Fit(ui', SystemStates, {})
      BY <1>a, <2>1, ListAsItWas
    <2>3. /\ ui'.tab = ui.tab /\ ui'.texts = ui.texts /\ ui'.popup = p
          /\ ui'.settings = ui.settings
      BY <1>4, <1>a
    <2> QED BY <1>1, <1>a, <2>2, <2>3 DEF SystemForms
  <1>5. CASE ui' = [ui EXCEPT !.settings = c.form]
    <2>1. DOMAIN ui' = DOMAIN ui /\ \A f \in TypedFields : ui'[f] = ui[f]
      BY <1>5, <1>a DEF TypedFields, DialogFields
    <2>2. Fit(ui', SystemStates, {})
      BY <1>a, <2>1, ListAsItWas
    <2>3. /\ ui'.tab = ui.tab /\ ui'.texts = ui.texts /\ ui'.popup = ui.popup
          /\ ui'.settings = c.form
      BY <1>5, <1>a
    <2> QED BY <1>1, <1>a, <2>2, <2>3 DEF SystemForms, SystemCall
  <1>6. PICK p : p = (CHOOSE f \in c.form : TRUE).popup
    OBVIOUS
  <1>7. c.reply # "none" /\ c.value = "popup" => p \in Popup
    <2>1. c.reply # "none" /\ c.value = "popup" => \E f \in c.form : TRUE
      BY <1>a, <1>b DEF SystemCall
    <2>2. \A f \in c.form : f.popup \in Popup
      BY <1>a DEF SystemCall, Setting
    <2> QED BY <1>6, <2>1, <2>2
  <1>8. \/ c.reply # "none" /\ c.value = "popup" /\ ui' = [ui EXCEPT !.popup = p]
        \/ ui' = ui \/ ui' = [ui EXCEPT !.settings = c.form]
        \/ ui' = [ui EXCEPT !.rows = c.rows]
    BY <1>6 DEF LoadData
  <1> QED BY <1>2, <1>3, <1>4, <1>5, <1>7, <1>8

(* The shop's part *)
LEMMA SystemExecutedTyped ==
  ASSUME SystemRest, SystemTyped, NEW c \in calls,
         \/ ItemAdded(c) \/ AccountChecked(c) \/ AccountRemoved(c) \/ ProxyRemoved(c)
         \/ PopupSaved(c) \/ ProfileChanged(c) \/ SettingsSaved(c)
  PROVE  SystemTyped'
  <1>a. /\ DialogInv /\ ListTyped(SystemStates, {}, {}) /\ SystemForms(ui, db)
        /\ CallFields \subseteq DOMAIN c /\ SystemCall(c) /\ c.op \notin {"load"}
        /\ {"is", "others", "errand", "popup", "maintenance", "profile"} \subseteq DOMAIN db
    BY SystemFields DEF SystemTyped, ListTyped, DialogInv, OwnCall, SystemForms, ItemAdded,
       AccountChecked, AccountRemoved, ProxyRemoved, PopupSaved, ProfileChanged, SettingsSaved
  <1>1. PICK reply : Change(c, [c EXCEPT !.reply = reply]) /\ UNCHANGED ui
    BY DEF ItemAdded, AccountChecked, AccountRemoved, ProxyRemoved, PopupSaved, ProfileChanged,
           SettingsSaved, Executed
  <1>2. PICK d : d = [c EXCEPT !.reply = reply]
    OBVIOUS
  <1>3. calls' = (calls \ {c}) \cup {d}
    BY <1>1, <1>2 DEF Change
  <1>4. d.op = c.op /\ d.form = c.form
    BY <1>a, <1>2 DEF CallFields
  <1>5. SystemCall(d)
    BY <1>a, <1>4 DEF SystemCall
  <1>6. ASSUME DOMAIN db' = DOMAIN db, db'.is \in [Items -> SystemStates],
               db'.errand = db.errand, db'.popup \in Popup, db'.maintenance \in BOOLEAN
        PROVE  SystemTyped'
    <2>1. ListTyped(SystemStates, {}, {})'
      BY <1>1, <1>6, <1>a, RepliedTyped
    <2>2. SystemForms(ui, db)'
      BY <1>1, <1>6, <1>a DEF SystemForms
    <2> QED BY <1>3, <1>5, <2>1, <2>2, SystemKept
  <1>7. ASSUME NEW i, NEW to \in SystemStates, db' = [db EXCEPT !.is[i] = to]
        PROVE  SystemTyped'
    <2>1. DOMAIN db' = DOMAIN db /\ db'.is \in [Items -> SystemStates]
      BY <1>7, <1>a, StateSet DEF ListTyped
    <2>2. db'.errand = db.errand /\ db'.popup = db.popup /\ db'.maintenance = db.maintenance
      BY <1>7, <1>a
    <2> QED BY <1>6, <1>a, <2>1, <2>2 DEF SystemForms
  <1>8. CASE UNCHANGED db
    BY <1>6, <1>8, <1>a DEF ListTyped, SystemForms
  <1>9. CASE ItemAdded(c) \/ AccountRemoved(c) \/ ProxyRemoved(c)
    <2>1. PICK i, to : to \in SystemStates /\ db' = [db EXCEPT !.is[i] = to]
      BY <1>9 DEF ItemAdded, AccountRemoved, ProxyRemoved, Executed, SystemStates
    <2> QED BY <1>7, <2>1
  <1>10. CASE AccountChecked(c)
    BY <1>8, <1>10 DEF AccountChecked
  <1>11. CASE PopupSaved(c)
    <2>1. \E f \in c.form : \E q : q = f.popup /\ db' = [db EXCEPT !.popup = q]
      BY <1>11 DEF PopupSaved
    <2>2. PICK p \in Popup : db' = [db EXCEPT !.popup = p]
      BY <1>a, <2>1 DEF SystemCall, Setting
    <2>3. /\ DOMAIN db' = DOMAIN db /\ db'.is = db.is /\ db'.errand = db.errand
          /\ db'.popup = p /\ db'.maintenance = db.maintenance
      BY <1>a, <2>2
    <2> QED BY <1>6, <1>a, <2>2, <2>3 DEF ListTyped, SystemForms
  <1>12. CASE ProfileChanged(c)
    <2>1. PICK profile : db' = [db EXCEPT !.profile = profile]
      BY <1>12 DEF ProfileChanged
    <2>2. /\ DOMAIN db' = DOMAIN db /\ db'.is = db.is /\ db'.errand = db.errand
          /\ db'.popup = db.popup /\ db'.maintenance = db.maintenance
      BY <1>a, <2>1
    <2> QED BY <1>6, <1>a, <2>2 DEF ListTyped, SystemForms
  <1>13. CASE SettingsSaved(c) /\ c.form # {}
    <2>1. PICK s \in c.form :
            db' = [db EXCEPT !.maintenance = s.on, !.popup = IF s.popup = 0 THEN @ ELSE s.popup]
      BY <1>13 DEF SettingsSaved
    <2>2. s.popup \in Popup /\ s.on \in BOOLEAN
      BY <1>a, <2>1 DEF SystemCall, Setting
    <2>3. PICK p \in Popup : p = IF s.popup = 0 THEN db.popup ELSE s.popup
      BY <1>a, <2>2 DEF SystemForms
    <2>4. db' = [db EXCEPT !.maintenance = s.on, !.popup = p]
      BY <1>a, <2>1, <2>3
    <2>5. /\ DOMAIN db' = DOMAIN db /\ db'.is = db.is /\ db'.errand = db.errand
          /\ db'.popup = p /\ db'.maintenance = s.on
      BY <1>a, <2>4
    <2> QED BY <1>6, <1>a, <2>2, <2>5 DEF ListTyped
  <1>14. CASE SettingsSaved(c) /\ c.form = {}
    BY <1>8, <1>14 DEF SettingsSaved
  <1> QED BY <1>9, <1>10, <1>11, <1>12, <1>13, <1>14

(* The answers *)
LEMMA SystemAnswersTyped ==
  ASSUME SystemRest, SystemTyped, NEW c \in calls,
         \/ AccountAdded(c) \/ AccountDeleted(c) \/ ProxyAdded(c) \/ ProxyDeleted(c)
         \/ ProfileDone(c) \/ FormSaved(c) \/ Failed(c)
  PROVE  SystemTyped'
  <1>a. /\ DialogInv /\ ListTyped(SystemStates, {}, {}) /\ SystemForms(ui, db)
        /\ DialogFields \cup {"tab", "popup", "texts", "settings", "typed"} \subseteq DOMAIN ui
    BY SystemFields DEF SystemTyped
  <1>1. PICK kinds, u :
          /\ u \in {Free(c.op), Closing(kinds, Free(c.op)), [Free(c.op) EXCEPT !.typed = FALSE]}
          /\ \/ End(c) /\ ui' = u /\ UNCHANGED db
             \/ \E tab : ThenLoadTab(c, tab, u)
    BY DEF AccountAdded, AccountDeleted, ProxyAdded, ProxyDeleted, ProfileDone, FormSaved, Failed
  <1>2. PICK freed : freed = Free(c.op)
    OBVIOUS
  <1>3. Fit(freed, SystemStates, {}) /\ DOMAIN freed = DOMAIN ui
        /\ freed = [ui EXCEPT !.busy = @ \ {c.op}]
    BY <1>a, <1>2, FreesTyped DEF Free
  <1>4. /\ freed.tab = ui.tab /\ freed.popup = ui.popup /\ freed.texts = ui.texts
        /\ freed.settings = ui.settings
    BY <1>a, <1>3
  <1>5. SystemForms(freed, db)
    BY <1>a, <1>4 DEF SystemForms
  <1>6. Fit(u, SystemStates, {}) /\ SystemForms(u, db)
    <2>1. CASE u = freed
      BY <1>3, <1>5, <2>1
    <2>2. CASE u = Closing(kinds, freed)
      <3>1. Fit(u, SystemStates, {})
        BY <1>3, <2>2, ClosesTyped
      <3>2. u \in {freed, [freed EXCEPT !.dialog = NoDialog]}
        BY <2>2 DEF Closing
      <3>3. /\ u.tab = freed.tab /\ u.popup = freed.popup /\ u.texts = freed.texts
            /\ u.settings = freed.settings
        BY <1>a, <1>3, <3>2
      <3> QED BY <1>5, <3>1, <3>3 DEF SystemForms
    <2>3. CASE u = [freed EXCEPT !.typed = FALSE]
      <3>1. DOMAIN u = DOMAIN freed /\ \A f \in TypedFields : u[f] = freed[f]
        BY <1>a, <1>3, <2>3 DEF TypedFields, DialogFields
      <3>2. Fit(u, SystemStates, {})
        BY <1>3, <3>1, TypedAlike DEF Fit
      <3>3. /\ u.tab = freed.tab /\ u.popup = freed.popup /\ u.texts = freed.texts
            /\ u.settings = freed.settings
        BY <1>a, <1>3, <2>3
      <3> QED BY <1>5, <3>2, <3>3 DEF SystemForms
    <2> QED BY <1>1, <1>2, <2>1, <2>2, <2>3
  <1>7. ASSUME NEW l, CallTyped(l, SystemStates, {}), SystemCall(l), ui' = u, UNCHANGED db,
               calls' \subseteq calls \cup {l}
        PROVE  SystemTyped'
    <2>1. ListTyped(SystemStates, {}, {})'
      BY <1>6, <1>7, <1>a, CallStepTyped DEF ListTyped, Fit
    <2>2. SystemForms(ui, db)'
      BY <1>6, <1>7 DEF SystemForms
    <2> QED BY <1>7, <2>1, <2>2, SystemKept
  <1>8. CASE End(c) /\ ui' = u /\ UNCHANGED db
    <2>1. ListTyped(SystemStates, {}, {})'
      BY <1>6, <1>8, <1>a, EndsTyped DEF ListTyped
    <2>2. SystemForms(ui, db)'
      BY <1>6, <1>8 DEF SystemForms
    <2> QED BY <1>8, <2>1, <2>2, SystemKept DEF End
  <1>9. ASSUME NEW tab, ThenLoadTab(c, tab, u)
        PROVE  SystemTyped'
    <2>1. PICK l : l = [LoadTab(tab) EXCEPT !.id = c.id]
      OBVIOUS
    <2>2. CallTyped(l, SystemStates, {}) /\ SystemCall(l)
      BY <1>a, <2>1, TabTyped DEF ListTyped, UiTyped
    <2>3. calls' \subseteq calls \cup {l} /\ ui' = u /\ UNCHANGED db
      BY <1>9, <2>1 DEF ThenLoadTab, Change
    <2> QED BY <1>7, <2>2, <2>3
  <1> QED BY <1>1, <1>8, <1>9

LEMMA SystemTypedNext == SystemRest /\ SystemTyped /\ AdminSystemNext => SystemTyped'
  <1> SUFFICES ASSUME SystemRest, SystemTyped, AdminSystemNext
               PROVE  SystemTyped'
    OBVIOUS
  <1>1. CASE \/ HandleAddAccount \/ HandleConfirmDeleteAccount \/ HandleAddProxy
             \/ HandleConfirmDeleteProxy \/ HandleUploadMobileconfig
             \/ HandleConfirmDeleteMobileconfig
    BY <1>1, SystemSubmitsTyped DEF HandleAddAccount, HandleConfirmDeleteAccount, HandleAddProxy,
       HandleConfirmDeleteProxy, HandleUploadMobileconfig, HandleConfirmDeleteMobileconfig
  <1> QED BY <1>1, SystemFieldsTyped, SystemDialogTyped, SystemSavesTyped, SelectSubtabTyped,
             ReadTabTyped, LoadDataTyped, SystemExecutedTyped, SystemAnswersTyped
          DEF AdminSystemNext

-----------------------------------------------------------------------------
(* Types of the wallet: an answer of the shop is a status, or a balance of no
   more than all items. *)

WalletAnswer(c) ==
  /\ c.op \in {"poll", "renew"} /\ c.reply = "ok" => c.value \in TopupStatus
  /\ c.op = "balance" /\ c.reply = "ok" => c.of \in 0 .. Cardinality(Items)

WalletUi(u) ==
  /\ u.amount \in Amounts /\ u.topup.status \in TopupStatus
  /\ u.attempt.key \in {0} \cup DOMAIN db.keys /\ u.balance \in 0 .. Cardinality(Items)

WalletTyped == WalletUi(ui) /\ \A c \in calls : WalletAnswer(c)

LEMMA WalletInit_Typed == WalletInit => WalletTyped
  <1> SUFFICES ASSUME WalletInit
               PROVE  WalletTyped
    OBVIOUS
  <1>1. (CHOOSE a \in Amounts : TRUE) \in Amounts /\ Cardinality(Items) \in Nat
    BY WalletAssumption, ListAssumption, FS_CardinalityType
  <1>2. /\ ui.amount = CHOOSE a \in Amounts : TRUE
        /\ ui.topup = NoTopup /\ ui.attempt = NoAttempt /\ ui.balance = 0
    BY DEF WalletInit
  <1>3. WalletUi(ui)
    BY <1>1, <1>2 DEF WalletUi, NoTopup, NoAttempt, TopupStatus
  <1>4. \A c \in calls : WalletAnswer(c)
    <2>1. PICK c : c = CallNo(1, "load", NoList)
      OBVIOUS
    <2>2. c.op = "load"
      BY <2>1 DEF CallNo
    <2>3. WalletAnswer(c)
      BY <2>2 DEF WalletAnswer
    <2>4. calls \subseteq {c}
      BY <2>1 DEF WalletInit
    <2> QED BY <2>3, <2>4
  <1> QED BY <1>3, <1>4 DEF WalletTyped

LEMMA WalletStepTyped ==
  ASSUME WalletTyped, DOMAIN db.keys \subseteq DOMAIN db'.keys, WalletUi(ui'),
         \A c \in calls' : c \in calls \/ WalletAnswer(c)
  PROVE  WalletTyped'
  <1>1. WalletUi(ui)'
    BY DEF WalletUi
  <1>2. \A c \in calls' : WalletAnswer(c)'
    BY DEF WalletTyped, WalletAnswer
  <1> QED BY <1>1, <1>2 DEF WalletTyped

LEMMA WalletUiKept ==
  ASSUME WalletTyped, NEW u, u.amount = ui.amount, u.topup = ui.topup, u.attempt = ui.attempt,
         u.balance = ui.balance
  PROVE  WalletUi(u)
  BY DEF WalletTyped, WalletUi

LEMMA WalletSubmitsTyped ==
  ASSUME WalletInv, WalletTyped,
         \/ \E amount \in Amounts : TopupForm(amount)
         \/ HandleRenewTopup \/ HandleCreateTopup \/ CloseTopupPanel \/ CheckTopupStatus
  PROVE  WalletTyped'
  <1>1. /\ WalletFields /\ WalletUi(ui)
        /\ {"is", "pays", "keys", "wish", "wishes", "errand"} \subseteq DOMAIN db
        /\ db.keys \in Seq(Wish)
    BY DEF WalletInv, WalletPage, WalletDb, WalletTyped
  <1>2. ASSUME NEW amount \in Amounts, TopupForm(amount)
        PROVE  WalletTyped'
    <2>1. ui' = [ui EXCEPT !.amount = amount] /\ UNCHANGED <<calls, db>>
      BY <1>2 DEF TopupForm
    <2>2. WalletUi(ui')
      BY <1>1, <2>1 DEF WalletUi, WalletFields
    <2> QED BY <2>1, <2>2, WalletStepTyped
  <1>3. CASE HandleRenewTopup
    <2>1. PICK b : b = Call("renew", ui)
      OBVIOUS
    <2>2. PICK c : c = [b EXCEPT !.target = ui.topup.pay]
      OBVIOUS
    <2>3. calls' = calls \cup {c} /\ ui' = [ui EXCEPT !.renewing = TRUE] /\ UNCHANGED db
      BY <1>3, <2>1, <2>2 DEF HandleRenewTopup, Begin
    <2>4. c.reply = "none"
      BY <2>1, <2>2 DEF Call, CallNo
    <2>5. WalletUi(ui')
      BY <1>1, <2>3, WalletUiKept DEF WalletFields
    <2>6. WalletAnswer(c)
      BY <2>4 DEF WalletAnswer
    <2> QED BY <2>3, <2>5, <2>6, WalletStepTyped
  <1>4. CASE CheckTopupStatus
    <2>1. PICK b : b = Call("poll", ui)
      OBVIOUS
    <2>2. PICK c : c = [b EXCEPT !.target = ui.topup.pay]
      OBVIOUS
    <2>3. calls' = calls \cup {c} /\ UNCHANGED <<ui, db>>
      BY <1>4, <2>1, <2>2 DEF CheckTopupStatus, Begin
    <2>4. c.reply = "none"
      BY <2>1, <2>2 DEF Call, CallNo
    <2>5. WalletAnswer(c)
      BY <2>4 DEF WalletAnswer
    <2> QED BY <1>1, <2>3, <2>5, WalletStepTyped
  <1>5. CASE CloseTopupPanel
    <2>1. /\ ui' = [ui EXCEPT !.topup = NoTopup, !.attempt = NoAttempt]
          /\ db' = [db EXCEPT !.wish = 0] /\ UNCHANGED calls
      BY <1>5 DEF CloseTopupPanel
    <2>2. /\ ui'.amount = ui.amount /\ ui'.balance = ui.balance /\ ui'.topup = NoTopup
          /\ ui'.attempt = NoAttempt /\ db'.keys = db.keys
      BY <1>1, <2>1 DEF WalletFields
    <2>3. WalletUi(ui')
      BY <1>1, <2>2 DEF WalletUi, NoTopup, NoAttempt, TopupStatus
    <2> QED BY <2>1, <2>2, <2>3, WalletStepTyped
  <1>6. CASE HandleCreateTopup
    <2>1. PICK key : key = IF ui.attempt.amount = ui.amount THEN ui.attempt.key
                           ELSE Len(db.keys) + 1
      OBVIOUS
    <2>2. PICK wish : wish = IF db.wish = ui.amount THEN db.wishes ELSE db.wishes + 1
      OBVIOUS
    <2>3. PICK made : made = IF ui.attempt.amount = ui.amount THEN db.keys
                             ELSE Append(db.keys, [amount |-> ui.amount, wish |-> wish])
      OBVIOUS
    <2>4. PICK b : b = Call("create", ui)
      OBVIOUS
    <2>5. PICK c : c = [b EXCEPT !.target = key, !.of = ui.amount]
      OBVIOUS
    <2>6. PICK attempt : attempt = [key |-> key, amount |-> ui.amount]
      OBVIOUS
    <2>7. /\ calls' = calls \cup {c}
          /\ ui' = [ui EXCEPT !.creating = TRUE, !.attempt = attempt]
          /\ db' = [db EXCEPT !.wish = ui.amount, !.wishes = wish, !.keys = made]
      BY <1>6, <2>1, <2>2, <2>3, <2>4, <2>5, <2>6 DEF HandleCreateTopup, Begin
    <2>8. c.op = "create"
      BY <2>4, <2>5, CallBegan DEF Began, CallFields
    <2>9. db'.keys = made
      BY <1>1, <2>7
    <2>10. DOMAIN db.keys \subseteq DOMAIN made /\ key \in {0} \cup DOMAIN made
      <3>1. CASE ui.attempt.amount = ui.amount
        BY <1>1, <2>1, <2>3, <3>1 DEF WalletUi
      <3>2. CASE ui.attempt.amount # ui.amount
        BY <1>1, <2>1, <2>3, <3>2
      <3> QED BY <3>1, <3>2
    <2>11. /\ ui'.amount = ui.amount /\ ui'.balance = ui.balance /\ ui'.topup = ui.topup
           /\ ui'.attempt.key = key
      BY <1>1, <2>6, <2>7 DEF WalletFields
    <2>12. WalletUi(ui)'
      BY <1>1, <2>9, <2>10, <2>11 DEF WalletUi
    <2>13. \A d \in calls' : WalletAnswer(d)
      BY <2>7, <2>8 DEF WalletTyped, WalletAnswer
    <2>14. \A d \in calls' : WalletAnswer(d)'
      BY <2>13 DEF WalletAnswer
    <2> QED BY <2>12, <2>14 DEF WalletTyped
  <1> QED BY <1>2, <1>3, <1>4, <1>5, <1>6

LEMMA WalletListsTyped ==
  ASSUME WalletInv, WalletTyped,
         \/ BalanceCard \/ RefreshLedger \/ \E to \in 1 .. ui.of : LedgerPages(to)
         \/ \E c \in calls : LoadTransactions(c)
  PROVE  WalletTyped'
  <1>1. WalletFields
    BY DEF WalletInv, WalletPage
  <1>2. ASSUME UNCHANGED db, NEW u, DOMAIN u = DOMAIN ui, u.attempt = ui.attempt,
               u.topup = ui.topup, u.balance = ui.balance, u.amount = ui.amount,
               SameBut(u, {"rows", "of", "at", "loading"}) \/ SameBut(u, {"loading"}),
               \A c \in calls' : c \in calls \/ LoadBegan(c)
        PROVE  WalletTyped'
    <2>1. /\ ui'["attempt"] = ui["attempt"] /\ ui'["topup"] = ui["topup"]
          /\ ui'["balance"] = ui["balance"] /\ ui'["amount"] = ui["amount"]
      BY <1>1, <1>2 DEF SameBut, WalletFields
    <2>2. WalletUi(ui')
      BY <2>1, WalletUiKept
    <2>3. \A c \in calls' : c \in calls \/ WalletAnswer(c)
      BY <1>2 DEF LoadBegan, WalletAnswer
    <2> QED BY <1>2, <2>2, <2>3, WalletStepTyped
  <1>3. CASE BalanceCard
    <2>1. PICK b : b = Call("balance", ui)
      OBVIOUS
    <2>2. PICK c : c = [b EXCEPT !.silent = TRUE]
      OBVIOUS
    <2>3. calls' = calls \cup {c} /\ UNCHANGED <<ui, db>>
      BY <1>3, <2>1, <2>2 DEF BalanceCard, Begin
    <2>4. c.reply = "none"
      BY <2>1, <2>2 DEF Call, CallNo
    <2>5. WalletAnswer(c)
      BY <2>4 DEF WalletAnswer
    <2> QED BY <2>3, <2>5, WalletStepTyped DEF WalletTyped
  <1>4. CASE RefreshLedger
    <2>1. Loading(ui, "") /\ UNCHANGED db
      BY <1>4 DEF RefreshLedger
    <2> QED BY <1>2, <2>1, LoadingShows
  <1>5. ASSUME NEW to, LedgerPages(to)
        PROVE  WalletTyped'
    <2>1. PICK u : u = [ui EXCEPT !.at = to]
      OBVIOUS
    <2>2. Refilter(u) /\ UNCHANGED db
      BY <1>5, <2>1 DEF LedgerPages
    <2>3. /\ DOMAIN u = DOMAIN ui /\ u.attempt = ui.attempt /\ u.topup = ui.topup
          /\ u.balance = ui.balance /\ u.amount = ui.amount
      BY <1>1, <2>1 DEF WalletFields
    <2> QED BY <1>2, <2>2, <2>3, RefilterShows
  <1>6. ASSUME NEW c \in calls, LoadTransactions(c)
        PROVE  WalletTyped'
    <2>1. PICK u : u = [ui EXCEPT !.loading = FALSE]
      OBVIOUS
    <2>2. ShowRows(c, u)
      BY <1>6, <2>1 DEF LoadTransactions
    <2>3. /\ DOMAIN u = DOMAIN ui /\ u.attempt = ui.attempt /\ u.topup = ui.topup
          /\ u.balance = ui.balance /\ u.amount = ui.amount
          /\ {"rows", "of", "at", "loading"} \subseteq DOMAIN u
      BY <1>1, <2>1 DEF WalletFields
    <2>4. UNCHANGED db
      BY <2>2 DEF ShowRows
    <2> QED BY <1>2, <2>2, <2>3, <2>4, RowsShown
  <1> QED BY <1>3, <1>4, <1>5, <1>6

(* A call the shop has answered, or the page has given up. *)
LEMMA WalletChangedTyped ==
  ASSUME WalletInv, WalletTyped, NEW c \in calls, UNCHANGED ui,
         DOMAIN db.keys \subseteq DOMAIN db'.keys, NEW d, WalletAnswer(d), Change(c, d)
  PROVE  WalletTyped'
  BY WalletStepTyped DEF Change, WalletTyped

LEMMA WalletEndsTyped ==
  ASSUME WalletInv, WalletTyped, NEW c \in calls, UNCHANGED db, End(c), WalletUi(ui')
  PROVE  WalletTyped'
  BY WalletStepTyped DEF End

LEMMA WalletShopTyped ==
  ASSUME WalletInv, WalletTyped, NEW c \in calls,
         ReadTopup(c) \/ ReadBalance(c) \/ ReadRows(c)
  PROVE  WalletTyped'
  <1>1. CallFields \subseteq DOMAIN c /\ UNCHANGED <<ui, db>>
    BY DEF WalletInv, WalletCall, ReadTopup, ReadBalance, ReadRows
  <1>2. CASE ReadTopup(c)
    <2>1. PICK status : status = db.pays[c.target].status
      OBVIOUS
    <2>2. PICK d : d = [c EXCEPT !.reply = "ok", !.value = status]
      OBVIOUS
    <2>3. Change(c, d) /\ c.op = "poll"
      BY <1>2, <2>1, <2>2 DEF ReadTopup
    <2>4. status \in TopupStatus
      <3>1. c.target \in DOMAIN db.pays /\ db.pays \in Seq(Topup)
        BY <2>3 DEF WalletInv, WalletCall, WalletDb
      <3>2. db.pays[c.target] \in Topup
        BY <3>1, LenProperties, ElementOfSeq
      <3> QED BY <2>1, <3>2 DEF Topup
    <2>5. WalletAnswer(d)
      BY <1>1, <2>2, <2>3, <2>4 DEF WalletAnswer, CallFields
    <2> QED BY <1>1, <2>3, <2>5, WalletChangedTyped
  <1>3. CASE ReadBalance(c)
    <2>1. PICK n : n = Cardinality(Matching(""))
      OBVIOUS
    <2>2. PICK d : d = [c EXCEPT !.reply = "ok", !.of = n]
      OBVIOUS
    <2>3. Change(c, d) /\ c.op = "balance"
      BY <1>3, <2>1, <2>2 DEF ReadBalance
    <2>4. n \in 0 .. Cardinality(Items)
      <3>1. Matching("") \subseteq Items
        BY DEF Matching
      <3>2. /\ IsFiniteSet(Matching("")) /\ Cardinality(Matching("")) \in Nat
            /\ Cardinality(Items) \in Nat /\ Cardinality(Matching("")) \leq Cardinality(Items)
        BY <3>1, ListAssumption, FS_Subset, FS_CardinalityType
      <3>3. PICK k : k = Cardinality(Items)
        OBVIOUS
      <3>4. n \in Nat /\ k \in Nat /\ n \leq k
        BY <2>1, <3>2, <3>3
      <3>5. n \in 0 .. k
        BY <3>4
      <3> QED BY <3>3, <3>5
    <2>5. d.op = "balance" /\ d.of = n
      BY <1>1, <2>2, <2>3 DEF CallFields
    <2>6. WalletAnswer(d)
      BY <2>4, <2>5 DEF WalletAnswer
    <2> QED BY <1>1, <2>3, <2>6, WalletChangedTyped
  <1>4. CASE ReadRows(c)
    <2>1. PICK rows : rows = RowsAt(c.filter, c.at)
      OBVIOUS
    <2>2. PICK of : of = PagesOf(c.filter)
      OBVIOUS
    <2>3. PICK d : d = [c EXCEPT !.reply = "ok", !.rows = rows, !.of = of]
      OBVIOUS
    <2>4. Change(c, d) /\ c.op = "load"
      BY <1>4, <2>1, <2>2, <2>3 DEF ReadRows
    <2>5. WalletAnswer(d)
      BY <1>1, <2>3, <2>4 DEF WalletAnswer, CallFields
    <2> QED BY <1>1, <2>4, <2>5, WalletChangedTyped
  <1> QED BY <1>2, <1>3, <1>4

LEMMA TopupCreatedTyped ==
  ASSUME WalletInv, WalletTyped, NEW c \in calls, TopupCreated(c)
  PROVE  WalletTyped'
  <1>1. PICK d : d = [c EXCEPT !.reply = "ok"]
    OBVIOUS
  <1>2. /\ calls' = calls \ {c} \/ calls' = (calls \ {c}) \cup {d}
        /\ UNCHANGED ui /\ c.op = "create" /\ CallFields \subseteq DOMAIN c
    BY <1>1 DEF TopupCreated, End, Change, WalletInv, WalletCall
  <1>3. WalletAnswer(d)
    BY <1>1, <1>2 DEF WalletAnswer, CallFields
  <1>4. UNCHANGED db.keys
    BY DEF TopupCreated, WalletInv, WalletDb
  <1> QED BY <1>2, <1>3, <1>4, WalletStepTyped DEF WalletTyped

LEMMA TopupRenewedTyped ==
  ASSUME WalletInv, WalletTyped, NEW c \in calls, TopupRenewed(c)
  PROVE  WalletTyped'
  <1>1. CallFields \subseteq DOMAIN c /\ UNCHANGED ui /\ c.op = "renew" /\ UNCHANGED db.keys
    BY DEF WalletInv, WalletCall, WalletDb, TopupRenewed
  <1>2. ASSUME NEW of, NEW value \in TopupStatus,
               Change(c, [c EXCEPT !.reply = "ok", !.of = of, !.value = value])
        PROVE  WalletTyped'
    <2>1. PICK d : d = [c EXCEPT !.reply = "ok", !.of = of, !.value = value]
      OBVIOUS
    <2>2. WalletAnswer(d)
      BY <1>1, <2>1 DEF WalletAnswer, CallFields
    <2> QED BY <1>1, <1>2, <2>1, <2>2, WalletChangedTyped
  <1>3. ASSUME NEW p \in DOMAIN db.pays
        PROVE  db.pays[p].status \in TopupStatus
    <2>1. db.pays \in Seq(Topup)
      BY DEF WalletInv, WalletDb
    <2>2. db.pays[p] \in Topup
      BY <2>1, LenProperties, ElementOfSeq
    <2> QED BY <2>2 DEF Topup
  <1>4. PICK n : n = Len(db'.pays)
    OBVIOUS
  <1>5. PICK pending \in TopupStatus : pending = "pending"
    BY DEF TopupStatus
  <1>6. \/ \E p \in DOMAIN db.pays :
             Change(c, [c EXCEPT !.reply = "ok", !.of = p, !.value = db.pays[p].status])
        \/ Change(c, [c EXCEPT !.reply = "ok", !.of = n, !.value = pending])
    BY <1>4, <1>5 DEF TopupRenewed
  <1> QED BY <1>2, <1>3, <1>6

LEMMA WalletAnsweredTyped ==
  ASSUME WalletInv, WalletTyped, NEW c \in calls,
         \/ CreateAnswered(c) \/ CreateFailed(c) \/ PollFailed(c)
         \/ RenewAnswered(c) \/ RenewFailed(c) \/ BalanceAnswered(c)
  PROVE  WalletTyped'
  <1>1. /\ CallFields \subseteq DOMAIN c /\ WalletFields /\ WalletUi(ui) /\ WalletAnswer(c)
        /\ UNCHANGED db
    BY DEF WalletInv, WalletPage, WalletCall, WalletTyped, CreateAnswered, CreateFailed,
       PollFailed, RenewAnswered, RenewFailed, BalanceAnswered
  <1>2. CASE CreateAnswered(c)
    <2>1. PICK p : ui' = [ui EXCEPT !.creating = FALSE,
                            !.topup = [pay |-> p, amount |-> c.of, status |-> "pending"]]
      BY <1>2 DEF CreateAnswered
    <2>2. WalletUi(ui')
      BY <1>1, <2>1 DEF WalletUi, WalletFields, TopupStatus
    <2> QED BY <1>1, <1>2, <2>2, WalletEndsTyped DEF CreateAnswered
  <1>3. CASE CreateFailed(c)
    <2>1. ui' = [ui EXCEPT !.creating = FALSE]
      BY <1>3 DEF CreateFailed
    <2>2. WalletUi(ui')
      BY <1>1, <2>1, WalletUiKept DEF WalletFields
    <2>3. PICK d : d = [c EXCEPT !.silent = TRUE]
      OBVIOUS
    <2>4. (calls' = calls \ {c} \/ calls' = (calls \ {c}) \cup {d}) /\ c.op = "create"
      BY <1>3, <2>3 DEF CreateFailed, End, Change
    <2>5. WalletAnswer(d)
      BY <1>1, <2>3, <2>4 DEF WalletAnswer, CallFields
    <2> QED BY <1>1, <2>2, <2>4, <2>5, WalletStepTyped
  <1>4. CASE PollFailed(c)
    BY <1>1, <1>4, WalletEndsTyped DEF PollFailed
  <1>5. CASE RenewAnswered(c)
    <2>1. /\ ui' = [ui EXCEPT !.renewing = FALSE, !.topup.pay = c.of, !.topup.status = c.value]
          /\ End(c) /\ c.value \in TopupStatus
      BY <1>1, <1>5 DEF RenewAnswered, WalletAnswer
    <2>2. WalletUi(ui')
      BY <1>1, <2>1 DEF WalletUi, WalletFields
    <2> QED BY <1>1, <2>1, <2>2, WalletEndsTyped
  <1>6. CASE RenewFailed(c)
    <2>1. ui' = [ui EXCEPT !.renewing = FALSE] /\ End(c)
      BY <1>6 DEF RenewFailed
    <2>2. WalletUi(ui')
      BY <1>1, <2>1, WalletUiKept DEF WalletFields
    <2> QED BY <1>1, <2>1, <2>2, WalletEndsTyped
  <1>7. CASE BalanceAnswered(c)
    <2>1. PICK balance : balance = IF c.reply = "ok" THEN c.of ELSE ui.balance
      OBVIOUS
    <2>2. PICK counting : counting = (ui.counting /\ c.silent)
      OBVIOUS
    <2>3. ui' = [ui EXCEPT !.balance = balance, !.counting = counting] /\ End(c)
      BY <1>7, <2>1, <2>2 DEF BalanceAnswered
    <2>4. balance \in 0 .. Cardinality(Items)
      BY <1>1, <1>7, <2>1 DEF BalanceAnswered, WalletAnswer, WalletUi
    <2>5. WalletUi(ui')
      BY <1>1, <2>3, <2>4 DEF WalletUi, WalletFields
    <2> QED BY <1>1, <2>3, <2>5, WalletEndsTyped
  <1> QED BY <1>2, <1>3, <1>4, <1>5, <1>6, <1>7

LEMMA TopupStatusChangeTyped ==
  ASSUME WalletInv, WalletTyped, NEW c \in calls, TopupStatusChange(c)
  PROVE  WalletTyped'
  <1>1. WalletFields /\ WalletUi(ui) /\ WalletAnswer(c) /\ UNCHANGED db
    BY DEF WalletInv, WalletPage, WalletTyped, TopupStatusChange
  <1>2. PICK u : u = IF ~TopupShown THEN ui
                     ELSE [ui EXCEPT !.topup.pay = c.target, !.topup.status = c.value]
    OBVIOUS
  <1>3. c.value \in TopupStatus
    BY <1>1 DEF WalletAnswer, TopupStatusChange
  <1>4. WalletUi(u) /\ DOMAIN u = DOMAIN ui
    BY <1>1, <1>2, <1>3 DEF WalletUi, WalletFields
  <1>5. CASE c.value # "paid"
    <2>1. calls' = calls \ {c} /\ ui' = u
      BY <1>2, <1>5 DEF TopupStatusChange
    <2> QED BY <1>1, <1>4, <2>1, WalletEndsTyped DEF End
  <1>6. CASE c.value = "paid"
    <2>1. PICK rest : rest = calls \ {c}
      OBVIOUS
    <2>2. PICK b : b = CallNo(IdBeside(rest), "balance", u)
      OBVIOUS
    <2>3. PICK reads : reads = [b EXCEPT !.silent = FALSE]
      OBVIOUS
    <2>4. PICK l : l = Load(u, FALSE, "")
      OBVIOUS
    <2>5. PICK ledger : ledger = [l EXCEPT !.id = IdBeside(rest \cup {reads}), !.at = 1]
      OBVIOUS
    <2>6. /\ calls' = rest \cup {reads, ledger}
          /\ ui' = [u EXCEPT !.thanked = @ \cup {c.target}, !.counting = TRUE, !.loading = TRUE]
      <3>1. u = Told(c)
        BY <1>2 DEF Told
      <3>2. reads = BalanceRead(u, rest)
        BY <2>2, <2>3 DEF BalanceRead
      <3>3. ledger = LedgerRead(u, rest \cup {reads})
        BY <2>4, <2>5 DEF LedgerRead
      <3>4. calls' = rest \cup {reads, ledger} /\ ui' = Thanking(u, c)
        BY <1>6, <2>1, <3>1, <3>2, <3>3, TopupPaid
      <3> QED BY <3>4 DEF Thanking
    <2>7. WalletAnswer(reads)
      <3>1. Began(b, "balance")
        BY <2>2, CallBegan
      <3>2. reads.reply = "none"
        BY <2>3, <3>1 DEF Began, CallFields
      <3> QED BY <3>2 DEF WalletAnswer
    <2>8. WalletAnswer(ledger)
      <3>1. LoadBegan(l)
        BY <2>4, LoadMade
      <3> QED BY <2>5, <3>1 DEF LoadBegan, CallFields, WalletAnswer
    <2>9. WalletUi(ui')
      <3>1. /\ ui'.amount = u.amount /\ ui'.topup = u.topup /\ ui'.attempt = u.attempt
            /\ ui'.balance = u.balance
        BY <1>1, <1>4, <2>6 DEF WalletFields
      <3> QED BY <1>4, <3>1 DEF WalletUi
    <2> QED BY <1>1, <2>1, <2>6, <2>7, <2>8, <2>9, WalletStepTyped
  <1> QED BY <1>5, <1>6

LEMMA TopupMovesTyped ==
  ASSUME WalletInv, WalletTyped, NEW q, NEW to, TopupMoves(q, to)
  PROVE  WalletTyped'
  <1>1. db'.keys = db.keys /\ UNCHANGED <<ui, calls>>
    BY DEF TopupMoves, WalletInv, WalletDb
  <1> QED BY <1>1, WalletStepTyped DEF WalletTyped

LEMMA WalletTypedNext == WalletInv /\ WalletTyped /\ WalletNext => WalletTyped'
  <1> SUFFICES ASSUME WalletInv, WalletTyped, WalletNext
               PROVE  WalletTyped'
    OBVIOUS
  <1>1. CASE \/ \E amount \in Amounts : TopupForm(amount)
             \/ HandleRenewTopup \/ HandleCreateTopup \/ CloseTopupPanel \/ CheckTopupStatus
    BY <1>1, WalletSubmitsTyped
  <1>2. CASE \/ BalanceCard \/ RefreshLedger \/ \E to \in 1 .. ui.of : LedgerPages(to)
             \/ \E c \in calls : LoadTransactions(c)
    BY <1>2, WalletListsTyped
  <1>3. CASE \E c \in calls : \/ ReadTopup(c) \/ ReadBalance(c) \/ ReadRows(c)
                             \/ TopupCreated(c) \/ TopupRenewed(c) \/ TopupStatusChange(c)
    BY <1>3, WalletShopTyped, TopupCreatedTyped, TopupRenewedTyped, TopupStatusChangeTyped
  <1>4. CASE \E c \in calls : \/ CreateAnswered(c) \/ CreateFailed(c) \/ PollFailed(c)
                             \/ RenewAnswered(c) \/ RenewFailed(c) \/ BalanceAnswered(c)
    BY <1>4, WalletAnsweredTyped
  <1>5. CASE \E p \in Items : \E to \in TopupStatus : TopupMoves(p, to)
    BY <1>5, TopupMovesTyped
  <1> QED BY <1>1, <1>2, <1>3, <1>4, <1>5 DEF WalletNext

LEMMA WalletTypeHolds == WalletInv /\ WalletTyped => WalletTypeOK
  <1> SUFFICES ASSUME WalletInv, WalletTyped
               PROVE  WalletTypeOK
    OBVIOUS
  <1>1. db.pays \in Seq(Topup) /\ db.keys \in Seq(Wish)
    BY DEF WalletInv, WalletDb
  <1>2. /\ DOMAIN db.pays = 1 .. Len(db.pays) /\ Len(db.pays) \in Nat
        /\ DOMAIN db.keys = 1 .. Len(db.keys) /\ Len(db.keys) \in Nat
    BY <1>1, LenProperties
  <1>3. ui.topup.pay \in 0 .. Len(db.pays)
    BY <1>2 DEF WalletInv, WalletPage
  <1>4. ui.attempt.key \in 0 .. Len(db.keys)
    BY <1>2 DEF WalletTyped, WalletUi
  <1>5. ui.thanked \subseteq Items
    BY DEF WalletInv, WalletPage, Credited
  <1> QED BY <1>3, <1>4, <1>5 DEF WalletTypeOK, WalletTyped, WalletUi

-----------------------------------------------------------------------------
(* Types of the reviews: what the page shows and what is stored are images, and
   no more new files are chosen than there is room for. *)

ReviewsUi(u) ==
  /\ {"my", "loading", "open", "draft", "busy", "asking"} \subseteq DOMAIN u
  /\ {"review", "images"} \subseteq DOMAIN u.my
  /\ {"rating", "files", "kept"} \subseteq DOMAIN u.draft
  /\ u.my.images \subseteq Images /\ u.draft.kept \subseteq Images
  /\ u.draft.files \in 0 .. MaxImages /\ u.busy \in {"none", "submit", "delete"}

ReviewsTyped == ReviewsUi(ui) /\ db.stored \subseteq Images

LEMMA ReviewsInit_Typed == ReviewsInit => ReviewsTyped
  <1> SUFFICES ASSUME ReviewsInit
               PROVE  ReviewsTyped
    OBVIOUS
  <1>1. 1 \in Images
    <2>1. Cardinality(Images) \in Nat /\ Cardinality(Images) # 0
      BY ReviewAssumption, FS_CardinalityType, FS_EmptySet
    <2> QED BY <2>1, ReviewAssumption
  <1>2. PICK rows \in {{}, {1}} :
          db = [review |-> Cardinality(rows), last |-> Cardinality(rows), rows |-> rows,
                files |-> rows, stored |-> rows, requests |-> 0, died |-> FALSE]
    BY DEF ReviewsInit
  <1>3. ui = [my |-> NoReview, loading |-> TRUE, open |-> FALSE, draft |-> EmptyDraft,
              busy |-> "none", asking |-> FALSE]
    BY DEF ReviewsInit
  <1>4. ReviewsUi(ui)
    BY <1>3, ReviewAssumption DEF ReviewsUi, NoReview, EmptyDraft
  <1> QED BY <1>1, <1>2, <1>4 DEF ReviewsTyped

LEMMA ResetTyped ==
  ASSUME NEW u, ReviewsUi(u)
  PROVE  ReviewsUi(Reset(u))
  <1>1. CASE ~u.open
    BY <1>1 DEF Reset
  <1>2. CASE u.open
    <2>1. PICK draft : draft = DraftOf(u.my)
      OBVIOUS
    <2>2. /\ {"rating", "files", "kept"} \subseteq DOMAIN draft
          /\ draft.kept \subseteq Images /\ draft.files \in 0 .. MaxImages
      BY <2>1, ReviewAssumption DEF DraftOf, ReviewsUi
    <2>3. PICK v : v = [u EXCEPT !.draft = draft]
      OBVIOUS
    <2>4. ReviewsUi(v)
      BY <2>2, <2>3 DEF ReviewsUi
    <2> QED BY <1>2, <2>1, <2>3, <2>4 DEF Reset
  <1> QED BY <1>1, <1>2

LEMMA ReviewFormTyped ==
  ASSUME ReviewsTyped,
         \/ OpenForm \/ CloseForm \/ SetRating \/ HandleFileChange \/ RemoveSelectedFile
         \/ \E i \in Images : RemoveExistingImage(i)
         \/ AskDelete \/ CancelDelete
  PROVE  ReviewsTyped'
  <1>1. UNCHANGED db /\ ReviewsUi(ui)
    BY DEF ReviewsTyped, OpenForm, CloseForm, SetRating, HandleFileChange, RemoveSelectedFile,
           RemoveExistingImage, AskDelete, CancelDelete
  <1>2. SUFFICES ReviewsUi(ui')
    BY <1>1, <1>2 DEF ReviewsTyped, ReviewsUi
  <1>3. MaxImages \in Nat
    BY ReviewAssumption
  <1>4. CASE OpenForm
    <2>1. PICK u : u = [ui EXCEPT !.open = TRUE]
      OBVIOUS
    <2>2. ReviewsUi(u)
      BY <1>1, <2>1 DEF ReviewsUi
    <2>3. ui' = Reset(u)
      BY <1>4, <2>1 DEF OpenForm
    <2> QED BY <2>2, <2>3, ResetTyped
  <1>5. CASE CloseForm
    <2>1. ui' = [ui EXCEPT !.open = FALSE, !.draft.files = 0]
      BY <1>5 DEF CloseForm
    <2> QED BY <1>1, <1>3, <2>1 DEF ReviewsUi
  <1>6. CASE SetRating
    <2>1. ui' = [ui EXCEPT !.draft.rating = TRUE]
      BY <1>6 DEF SetRating
    <2> QED BY <1>1, <2>1 DEF ReviewsUi
  <1>7. CASE HandleFileChange
    <2>1. PICK n \in 1 .. AvailableSlots : ui' = [ui EXCEPT !.draft.files = @ + n]
      BY <1>7 DEF HandleFileChange
    <2>2. PICK k \in Nat : k = Cardinality(ui.draft.kept)
      BY <1>1, ReviewAssumption, FS_Subset, FS_CardinalityType DEF ReviewsUi
    <2>3. PICK m \in 0 .. MaxImages : m = ui.draft.files
      BY <1>1 DEF ReviewsUi
    <2>4. n \in 1 .. (MaxImages - k - m)
      BY <2>1, <2>2, <2>3 DEF AvailableSlots
    <2>5. m + n \in 0 .. MaxImages
      BY <1>3, <2>2, <2>3, <2>4
    <2>6. PICK files : files = m + n
      OBVIOUS
    <2>7. ui' = [ui EXCEPT !.draft.files = files]
      BY <2>1, <2>3, <2>6
    <2> QED BY <1>1, <2>5, <2>6, <2>7 DEF ReviewsUi
  <1>8. CASE RemoveSelectedFile
    <2>1. ui' = [ui EXCEPT !.draft.files = ui.draft.files - 1] /\ ui.draft.files > 0
      BY <1>8 DEF RemoveSelectedFile
    <2>2. PICK m \in 0 .. MaxImages : m = ui.draft.files
      BY <1>1 DEF ReviewsUi
    <2>3. m - 1 \in 0 .. MaxImages
      BY <1>3, <2>1, <2>2
    <2>4. PICK files : files = m - 1
      OBVIOUS
    <2>5. ui' = [ui EXCEPT !.draft.files = files]
      BY <2>1, <2>2, <2>4
    <2> QED BY <1>1, <2>3, <2>4, <2>5 DEF ReviewsUi
  <1>9. ASSUME NEW i \in Images, RemoveExistingImage(i)
        PROVE  ReviewsUi(ui')
    <2>1. ui' = [ui EXCEPT !.draft.kept = ui.draft.kept \ {i}]
      BY <1>9 DEF RemoveExistingImage
    <2> QED BY <1>1, <2>1 DEF ReviewsUi
  <1>10. CASE AskDelete \/ CancelDelete
    <2>1. PICK asking : ui' = [ui EXCEPT !.asking = asking]
      BY <1>10 DEF AskDelete, CancelDelete
    <2> QED BY <1>1, <2>1 DEF ReviewsUi
  <1> QED BY <1>4, <1>5, <1>6, <1>7, <1>8, <1>9, <1>10

LEMMA ReviewAskedTyped ==
  ASSUME ReviewsInv, ReviewsTyped, HandleReviewSubmit \/ HandleReviewDelete \/ ElsewhereEdit
  PROVE  ReviewsTyped'
  <1>1. PICK busy \in {"submit", "delete"} : UNCHANGED ui \/ ui' = [ui EXCEPT !.busy = busy]
    BY DEF HandleReviewSubmit, HandleReviewDelete, ElsewhereEdit
  <1>2. db' = [db EXCEPT !.requests = @ + 1]
    BY DEF HandleReviewSubmit, HandleReviewDelete, ElsewhereEdit, Ask
  <1>3. db'.stored = db.stored
    BY <1>2 DEF ReviewsInv, ImagesKept
  <1>4. ReviewsUi(ui')
    BY <1>1 DEF ReviewsTyped, ReviewsUi
  <1> QED BY <1>3, <1>4 DEF ReviewsTyped, ReviewsUi

LEMMA ReviewsShopTyped ==
  ASSUME ReviewsInv, ReviewsTyped, NEW c \in calls,
         \/ SubmitReceived(c) \/ UpdateReceived(c) \/ Refused(c)
         \/ SubmitCommitted(c) \/ UpdateCommitted(c) \/ DeleteCommitted(c)
         \/ DeleteFiles(c) \/ HandlerDies(c) \/ GetMyReview(c)
  PROVE  ReviewsTyped'
  <1>1. UNCHANGED ui
    BY DEF SubmitReceived, UpdateReceived, Store, Refused, SubmitCommitted, UpdateCommitted,
       DeleteCommitted, DeleteFiles, HandlerDies, GetMyReview
  <1>2. {"review", "last", "rows", "files", "stored", "requests", "died"} \subseteq DOMAIN db
    BY DEF ReviewsInv, ImagesKept
  <1>3. CASE SubmitReceived(c) \/ UpdateReceived(c)
    <2>1. PICK fresh : fresh = {i \in Images \ db.stored :
                                  Cardinality({j \in Images \ db.stored : j < i}) < c.files}
      OBVIOUS
    <2>2. db' = [db EXCEPT !.files = @ \cup fresh, !.stored = @ \cup fresh]
      BY <1>3, <2>1 DEF SubmitReceived, UpdateReceived, Store
    <2>3. db'.stored = db.stored \cup fresh /\ fresh \subseteq Images
      BY <1>2, <2>1, <2>2
    <2> QED BY <1>1, <2>3 DEF ReviewsTyped, ReviewsUi
  <1>4. CASE \/ Refused(c) \/ SubmitCommitted(c) \/ UpdateCommitted(c) \/ DeleteCommitted(c)
             \/ DeleteFiles(c) \/ HandlerDies(c) \/ GetMyReview(c)
    <2>1. db'.stored = db.stored
      BY <1>2, <1>4 DEF Refused, SubmitCommitted, UpdateCommitted, DeleteCommitted, DeleteFiles,
         HandlerDies, GetMyReview, RolledBack
    <2> QED BY <1>1, <2>1 DEF ReviewsTyped, ReviewsUi
  <1> QED BY <1>3, <1>4

LEMMA ReviewsAnsweredTyped ==
  ASSUME ReviewsInv, ReviewsTyped, NEW c \in calls, ActionAnswered(c) \/ RefreshMyReview(c)
  PROVE  ReviewsTyped'
  <1>1. UNCHANGED db /\ ReviewsUi(ui) /\ db.stored \subseteq Images
    BY DEF ReviewsTyped, ActionAnswered, RefreshMyReview
  <1>2. SUFFICES ReviewsUi(ui')
    BY <1>1, <1>2 DEF ReviewsTyped, ReviewsUi
  <1>3. CASE ActionAnswered(c)
    <2>1. \/ UNCHANGED ui
          \/ ui' = [ui EXCEPT !.busy = "none", !.asking = FALSE]
          \/ ui' = [ui EXCEPT !.loading = TRUE]
      BY <1>3 DEF ActionAnswered
    <2> QED BY <1>1, <2>1 DEF ReviewsUi
  <1>4. CASE RefreshMyReview(c)
    <2>1. PICK known : known = [review |-> c.review, images |-> c.old]
      OBVIOUS
    <2>2. PICK told : told = [ui EXCEPT !.my = known]
      OBVIOUS
    <2>3. c.old \subseteq Images
      BY <1>1 DEF ReviewsInv, ReviewCallOK
    <2>4. ReviewsUi(told)
      BY <1>1, <2>1, <2>2, <2>3 DEF ReviewsUi
    <2>5. PICK read : read = IF c.stage = "sent" \/ (known = NoReview /\ ui.my = NoReview)
                             THEN ui ELSE Reset(told)
      OBVIOUS
    <2>6. ReviewsUi(read)
      BY <1>1, <2>4, <2>5, ResetTyped
    <2>7. PICK quiet : quiet = [read EXCEPT !.loading = FALSE]
      OBVIOUS
    <2>8. ReviewsUi(quiet)
      BY <2>6, <2>7 DEF ReviewsUi
    <2>9. ui' = IF ~c.close THEN quiet
                ELSE [quiet EXCEPT !.open = FALSE, !.draft.files = 0, !.busy = "none",
                                   !.asking = FALSE]
      BY <1>4, <2>1, <2>2, <2>5, <2>7 DEF RefreshMyReview
    <2>10. CASE ~c.close
      BY <2>8, <2>9, <2>10
    <2>11. CASE c.close
      <3>1. ui' = [quiet EXCEPT !.open = FALSE, !.draft.files = 0, !.busy = "none",
                                !.asking = FALSE]
        BY <2>9, <2>11
      <3> QED BY <2>8, <3>1, ReviewAssumption DEF ReviewsUi
    <2> QED BY <2>10, <2>11
  <1> QED BY <1>3, <1>4

LEMMA ReviewsTypedNext == ReviewsInv /\ ReviewsTyped /\ ReviewsNext => ReviewsTyped'
  BY ReviewFormTyped, ReviewAskedTyped, ReviewsShopTyped, ReviewsAnsweredTyped DEF ReviewsNext

LEMMA ReviewsTypeHolds == ReviewsInv /\ ReviewsTyped => ReviewsTypeOK
  BY DEF ReviewsInv, ImagesKept, ReviewsTyped, ReviewsUi, ReviewsTypeOK

-----------------------------------------------------------------------------
(* Types of the dashboard: what was told, and how often. *)

DashboardTyped ==
  /\ ui.orders \subseteq Items /\ ui.seen \in Items \cup {0} /\ db.kept \in Items \cup {0}
  /\ db.reloads \in 0 .. MaxReloads

LEMMA DashboardInit_Typed == DashboardInit => DashboardTyped
  <1> SUFFICES ASSUME DashboardInit
               PROVE  DashboardTyped
    OBVIOUS
  <1>1. PICK works \in BOOLEAN :
          db = [done |-> {}, review |-> FALSE, works |-> works, kept |-> 0, reloads |-> 0,
                told |-> [o \in Items |-> 0]]
    BY DEF DashboardInit
  <1>2. ui.orders = {} /\ ui.seen = 0
    BY DEF DashboardInit, FreshPage
  <1> QED BY <1>1, <1>2, DashboardAssumption DEF DashboardTyped

(* Mostly only what is shown of the summary, or nothing, changes. *)
LEMMA DashboardQuietTyped ==
  ASSUME DashboardInv, DashboardTyped,
         \/ PromptOpens \/ CloseReviewExperience \/ ShowReviewForm \/ SendReview
         \/ OverlayChanges \/ DashboardRefresh \/ ReviewRefresh \/ ReviewedElsewhere
         \/ \E c \in calls : ReviewStored(c) \/ ReviewAnswered(c) \/ ShopReads(c) \/ ReadFails(c)
         \/ \E o \in Items : OrderCompleted(o)
  PROVE  DashboardTyped'
  <1>1. /\ NewsFields /\ {"done", "review", "works", "kept", "reloads", "told"} \subseteq DOMAIN db
    BY DEF DashboardInv, NewsPage, NewsDb
  <1>2. ui'.orders = ui.orders /\ ui'.seen = ui.seen
    BY <1>1 DEF NewsFields, PromptOpens, CloseReviewExperience, ShowReviewForm, SendReview,
       OverlayChanges, DashboardRefresh, ReviewRefresh, ReviewedElsewhere, ReviewStored,
       ReviewAnswered, ShopReads, ReadFails, OrderCompleted
  <1>3. db'.kept = db.kept /\ db'.reloads = db.reloads
    BY <1>1 DEF PromptOpens, CloseReviewExperience, ShowReviewForm, SendReview,
       OverlayChanges, DashboardRefresh, ReviewRefresh, ReviewedElsewhere, ReviewStored,
       ReviewAnswered, ShopReads, ReadFails, OrderCompleted
  <1> QED BY <1>2, <1>3 DEF DashboardTyped

LEMMA ReloadedTyped ==
  ASSUME DashboardInv, DashboardTyped, Reloaded
  PROVE  DashboardTyped'
  <1>1. /\ ui' = FreshPage /\ db' = [db EXCEPT !.reloads = @ + 1] /\ db.reloads < MaxReloads
        /\ {"kept", "reloads"} \subseteq DOMAIN db /\ db.reloads \in Nat
    BY DEF Reloaded, DashboardInv, NewsDb
  <1>2. db'.kept = db.kept /\ db'.reloads = db.reloads + 1
    BY <1>1
  <1>3. ui'.orders = {} /\ ui'.seen = 0
    BY <1>1 DEF FreshPage
  <1> QED BY <1>1, <1>2, <1>3, DashboardAssumption DEF DashboardTyped

LEMMA OrdersSummaryTyped ==
  ASSUME DashboardInv, DashboardTyped, NEW c \in calls, OrdersSummary(c)
  PROVE  DashboardTyped'
  <1>1. /\ NewsFields /\ ReadOK(c) /\ db.done \subseteq Items
        /\ {"kept", "reloads", "told"} \subseteq DOMAIN db
    BY DEF DashboardInv, NewsPage, NewsDb
  <1>2. PICK u : u = [ui EXCEPT !.orders = c.orders]
    OBVIOUS
  <1>3. DOMAIN u = DOMAIN ui /\ u.seen = ui.seen /\ u.orders = c.orders
    BY <1>1, <1>2 DEF NewsFields
  <1>4. c.orders \subseteq Items
    BY <1>1 DEF ReadOK
  <1>5. PICK news : news = Latest(c.orders)
    OBVIOUS
  <1>6. CASE ui' = u /\ UNCHANGED db
    BY <1>3, <1>4, <1>6 DEF DashboardTyped
  <1>7. CASE c.orders # {} /\ ~(ui' = u /\ UNCHANGED db)
    <2>1. /\ ui' = [u EXCEPT !.refreshing = TRUE, !.seen = news, !.prompt = news,
                             !.reading = TRUE, !.form = @ /\ ui.prompt = news]
          /\ db' = [db EXCEPT !.told[news] = @ + 1, !.kept = IF db.works THEN news ELSE @]
      BY <1>2, <1>5, <1>7 DEF OrdersSummary
    <2>2. news \in Items
      BY <1>1, <1>4, <1>5, <1>7 DEF ReadOK, HasLatest, Latest
    <2>3. ui'.orders = c.orders /\ ui'.seen = news
      BY <1>1, <1>3, <2>1 DEF NewsFields
    <2>4. db'.kept \in {news, db.kept} /\ db'.reloads = db.reloads
      BY <1>1, <2>1
    <2> QED BY <1>4, <2>2, <2>3, <2>4 DEF DashboardTyped
  <1> QED BY <1>2, <1>5, <1>6, <1>7 DEF OrdersSummary

LEMMA MyReviewReadTyped ==
  ASSUME DashboardInv, DashboardTyped, NEW c \in calls, MyReviewRead(c)
  PROVE  DashboardTyped'
  <1>1. NewsFields
    BY DEF DashboardInv, NewsPage
  <1>2. PICK u : u = [ui EXCEPT !.reading = FALSE,
                         !.has = IF c.reply = "ok" THEN c.has ELSE @,
                         !.eligible = IF c.reply = "ok" THEN c.orders # {} ELSE @,
                         !.refreshing = @ /\ c.then # "told"]
    OBVIOUS
  <1>3. PICK v : v = IF c.then # "close" THEN u
                     ELSE [u EXCEPT !.sending = FALSE, !.open = FALSE, !.form = FALSE,
                                    !.prompt = 0]
    OBVIOUS
  <1>4. ui' = Settled(v) /\ UNCHANGED db
    BY <1>2, <1>3 DEF MyReviewRead
  <1>5. DOMAIN u = DOMAIN ui /\ u.seen = ui.seen /\ u.orders = ui.orders
    BY <1>1, <1>2 DEF NewsFields
  <1>6. DOMAIN v = DOMAIN ui /\ v.seen = ui.seen /\ v.orders = ui.orders
    BY <1>1, <1>3, <1>5 DEF NewsFields
  <1>7. ui'.seen = ui.seen /\ ui'.orders = ui.orders
    BY <1>1, <1>4, <1>6 DEF Settled, NewsFields
  <1> QED BY <1>4, <1>7 DEF DashboardTyped

LEMMA DashboardTypedNext == DashboardInv /\ DashboardTyped /\ DashboardNext => DashboardTyped'
  <1> SUFFICES ASSUME DashboardInv, DashboardTyped, DashboardNext
               PROVE  DashboardTyped'
    OBVIOUS
  <1>1. CASE Reloaded
    BY <1>1, ReloadedTyped
  <1>2. CASE \E c \in calls : OrdersSummary(c) \/ MyReviewRead(c)
    BY <1>2, OrdersSummaryTyped, MyReviewReadTyped
  <1> QED BY <1>1, <1>2, DashboardQuietTyped DEF DashboardNext

LEMMA DashboardTypeHolds == DashboardInv /\ DashboardTyped => DashboardTypeOK
  <1> SUFFICES ASSUME DashboardInv, DashboardTyped
               PROVE  DashboardTypeOK
    OBVIOUS
  <1>1. ASSUME NEW o \in Items
        PROVE  db.told[o] \in 0 .. MaxReloads + 1
    <2>1. db.told[o] \in Nat
      BY DEF DashboardInv, NewsDb
    <2>2. db.told[o] \leq 1 + (IF db.works THEN 0 ELSE db.reloads)
      BY DashboardTellsTruth DEF AnnouncedOnce
    <2> QED BY <2>1, <2>2, DashboardAssumption DEF DashboardTyped
  <1>2. db.told \in [Items -> 0 .. MaxReloads + 1]
    BY <1>1 DEF DashboardInv, NewsDb
  <1> QED BY <1>2 DEF DashboardTypeOK, DashboardTyped, DashboardInv, NewsPage

-----------------------------------------------------------------------------
(* Types of an order's progress.  There is room for one more call than are
   under way, so there is a number for it. *)

ProgressUi ==
  [step : {"elsewhere", "completed"}, order : ProgressOrders \cup {0},
   kind : OrderKind, client : ProgressOrders \cup {0}, queue : QueueStatus,
   provider : ProviderStatus, error : ProviderTerminal \cup {"none", "queue"},
   stopped : BOOLEAN, ticket : BOOLEAN]

ProgressShop ==
  /\ db.kind \in [ProgressOrders -> OrderKind] /\ db.queue \in [ProgressOrders -> QueueStatus]
  /\ db.provider \in [ProgressOrders -> ProviderStatus]

LoopTyped(c) ==
  /\ LoopFields \subseteq DOMAIN c
  /\ c.id \in 1 .. MaxCalls + 1 /\ c.stage \in {"timer", "sent", "answered"}
  /\ c.op \in {"queue", "provider"} => c.order \in ProgressOrders
  /\ c.op = "queue" /\ c.stage = "answered" => c.reply \in QueueStatus
  /\ c.op = "provider" /\ c.stage = "answered" => c.reply \in ProviderStatus

AtMost(cs) == IsFiniteSet(cs) /\ Cardinality(cs) \leq MaxCalls

ProgressTyped ==
  /\ ui \in ProgressUi /\ ProgressShop
  /\ AtMost(calls) /\ \A c \in calls : LoopTyped(c)

(* A number none of them has. *)
LEMMA NumberFree ==
  ASSUME NEW others, AtMost(others)
  PROVE  IdBeside(others) \in 1 .. MaxCalls + 1
  <1>1. PICK f : f = [c \in others |-> c.id]
    OBVIOUS
  <1>2. PICK taken : taken = {c.id : c \in others}
    OBVIOUS
  <1>3. f \in Surjection(others, taken)
    BY <1>1, <1>2 DEF Surjection
  <1>4. IsFiniteSet(taken) /\ Cardinality(taken) \leq Cardinality(others)
    BY <1>3, FS_Surjection DEF AtMost
  <1>5. /\ MaxCalls \in Nat /\ Cardinality(taken) \in Nat /\ Cardinality(others) \in Nat
    BY <1>4, BrowserAssumption, FS_CardinalityType DEF AtMost
  <1>6. PICK n \in Nat : n = MaxCalls + 1
    BY <1>5
  <1>7. Cardinality(1 .. n) = n
    BY <1>5, <1>6, FS_Interval
  <1>8. ~(1 .. n \subseteq taken)
    <2>1. ASSUME 1 .. n \subseteq taken
          PROVE  Cardinality(1 .. n) \leq Cardinality(taken)
      BY <1>4, <2>1, FS_Subset
    <2> QED BY <1>4, <1>5, <1>6, <1>7, <2>1 DEF AtMost
  <1>9. PICK i \in 1 .. n : i \notin taken
    BY <1>8
  <1>10. \A c \in others : c.id # i
    BY <1>2, <1>9
  <1> QED BY <1>6, <1>9, <1>10 DEF IdBeside

LEMMA RoomForOne ==
  ASSUME AtMost(calls), NEW c, NEW d
  PROVE  /\ Room => AtMost(calls \cup {c})
         /\ AtMost(calls \ {c})
         /\ c \in calls => AtMost((calls \ {c}) \cup {d})
  <1>1. Cardinality(calls) \in Nat /\ MaxCalls \in Nat
    BY BrowserAssumption, FS_CardinalityType DEF AtMost
  <1>2. /\ IsFiniteSet(calls \cup {c}) /\ IsFiniteSet(calls \ {c})
        /\ Cardinality(calls \cup {c}) \leq Cardinality(calls) + 1
        /\ Cardinality(calls \ {c}) \leq Cardinality(calls)
        /\ c \in calls => Cardinality(calls \ {c}) = Cardinality(calls) - 1
        /\ Cardinality(calls \cup {c}) \in Nat /\ Cardinality(calls \ {c}) \in Nat
    BY <1>1, FS_AddElement, FS_RemoveElement, FS_CardinalityType DEF AtMost
  <1>3. PICK rest : rest = calls \ {c}
    OBVIOUS
  <1>13. IsFiniteSet(rest)
    BY <1>2, <1>3
  <1>14. IsFiniteSet(rest \cup {d}) /\ Cardinality(rest \cup {d}) \leq Cardinality(rest) + 1
    <2>1. IsFiniteSet(rest \cup {d})
      BY <1>13, FS_AddElement
    <2>2. Cardinality(rest \cup {d}) = Cardinality(rest) \/ Cardinality(rest \cup {d}) = Cardinality(rest) + 1
      BY <1>13, FS_AddElement
    <2>3. Cardinality(rest) \in Nat
      BY <1>13, FS_CardinalityType
    <2> QED BY <2>1, <2>2, <2>3
  <1>15. Cardinality(rest \cup {d}) \in Nat
    BY <1>14, FS_CardinalityType
  <1>4. Cardinality(calls) \leq MaxCalls
    BY DEF AtMost
  <1>5. Room => AtMost(calls \cup {c})
    <2>1. ASSUME Room
          PROVE  Cardinality(calls \cup {c}) \leq MaxCalls
      BY <1>1, <1>2, <2>1 DEF Room
    <2> QED BY <1>2, <2>1 DEF AtMost
  <1>6. Cardinality(calls \ {c}) \leq MaxCalls
    BY <1>1, <1>2, <1>4
  <1>7. c \in calls => Cardinality((calls \ {c}) \cup {d}) \leq MaxCalls
    <2>1. PICK n : n = Cardinality((calls \ {c}) \cup {d})
      OBVIOUS
    <2>2. PICK m : m = Cardinality(calls \ {c})
      OBVIOUS
    <2>3. PICK k : k = Cardinality(calls)
      OBVIOUS
    <2>4. /\ n \in Nat /\ m \in Nat /\ k \in Nat /\ n \leq m + 1 /\ k \leq MaxCalls
          /\ c \in calls => m = k - 1
      BY <1>1, <1>2, <1>3, <1>14, <1>15, <1>4, <2>1, <2>2, <2>3
    <2>5. c \in calls => n \leq MaxCalls
      BY <1>1, <2>4
    <2> QED BY <2>1, <2>5
  <1> QED BY <1>2, <1>3, <1>14, <1>5, <1>6, <1>7 DEF AtMost

LEMMA ProgressInit_Typed == ProgressInit => ProgressTyped
  <1> SUFFICES ASSUME ProgressInit
               PROVE  ProgressTyped
    OBVIOUS
  <1>1. ui = NotShown /\ calls = {}
    BY DEF ProgressInit
  <1>2. NotShown \in ProgressUi
    BY DEF NotShown, ProgressUi, OrderKind, QueueStatus, ProviderStatus, ProviderTerminal
  <1>3. PICK kind \in [ProgressOrders -> OrderKind] :
          db = [bought |-> 0, kind |-> kind,
                provider |-> [o \in ProgressOrders |-> "processing"],
                was |-> [o \in ProgressOrders |-> {"processing"}],
                queue |-> [o \in ProgressOrders |-> "waiting"]]
    BY DEF ProgressInit
  <1>4. ProgressShop
    BY <1>3 DEF ProgressShop, QueueStatus, ProviderStatus
  <1>5. AtMost(calls)
    BY <1>1, BrowserAssumption, FS_EmptySet DEF AtMost
  <1> QED BY <1>1, <1>2, <1>4, <1>5 DEF ProgressTyped

LEMMA LoopMadeTyped ==
  ASSUME AtMost(calls), NEW op, NEW order, NEW seen, NEW stage \in {"timer", "sent"},
         op \in {"queue", "provider"} => order \in ProgressOrders,
         NEW c, c = Loop(op, order, seen, stage)
  PROVE  LoopTyped(c)
  <1>1. PICK id \in 1 .. MaxCalls + 1 : id = FreeId
    BY NumberFree DEF FreeId
  <1>2. c = [id |-> id, op |-> op, order |-> order, seen |-> seen, live |-> TRUE,
             stage |-> stage, reply |-> "none"]
    BY <1>1 DEF Loop
  <1> QED BY <1>2 DEF LoopTyped, LoopFields

(* A loop that is stopped has the type it had. *)
LEMMA CleanupTyped ==
  ASSUME NEW cs, IsFiniteSet(cs), \A c \in cs : LoopTyped(c), NEW op
  PROVE  IsFiniteSet(Cleanup(cs, op)) /\ \A c \in Cleanup(cs, op) : LoopTyped(c)
  <1>1. PICK T : T = {d \in cs : ~(d.op = op /\ d.live /\ d.stage = "timer")}
    OBVIOUS
  <1>2. IsFiniteSet(T)
    BY <1>1, FS_Subset
  <1>3. PICK f : f = [c \in T |-> IF c.op = op THEN [c EXCEPT !.live = FALSE] ELSE c]
    OBVIOUS
  <1>4. f \in Surjection(T, Cleanup(cs, op))
    BY <1>1, <1>3 DEF Surjection, Cleanup
  <1>5. IsFiniteSet(Cleanup(cs, op))
    BY <1>2, <1>4, FS_Surjection
  <1>6. ASSUME NEW c \in Cleanup(cs, op)
        PROVE  LoopTyped(c)
    <2>1. PICK d \in cs : c = IF d.op = op THEN [d EXCEPT !.live = FALSE] ELSE d
      BY DEF Cleanup
    <2> QED BY <2>1 DEF LoopTyped, LoopFields
  <1> QED BY <1>5, <1>6

LEMMA RenderTyped ==
  ASSUME ProgressTyped, ProgressShop', NEW u \in ProgressUi, NEW cs, IsFiniteSet(cs),
         \A c \in cs : LoopTyped(c), Render(u, cs)
  PROVE  ProgressTyped'
  <1>1. PICK q : q = IF QueueDeps(u) # QueueDeps(ui) THEN Cleanup(cs, "queue") ELSE cs
    OBVIOUS
  <1>2. PICK kept : kept = IF ProviderDeps(u) # ProviderDeps(ui) THEN Cleanup(q, "provider")
                           ELSE q
    OBVIOUS
  <1>3. PICK s : s = IF QueueDeps(u) # QueueDeps(ui) /\ QueuePolling(u)
                     THEN {Loop("queue", u.client, u.queue, "timer")} ELSE {}
    OBVIOUS
  <1>4. PICK t : t = IF ProviderDeps(u) # ProviderDeps(ui) /\ ProviderPolling(u)
                     THEN {Loop("provider", u.order, "none", "sent")} ELSE {}
    OBVIOUS
  <1>5. /\ calls' = kept \cup (s \cup t) /\ Cardinality(kept \cup (s \cup t)) \leq MaxCalls
        /\ ui' = IF ProviderDeps(u) # ProviderDeps(ui) /\ ProviderPolling(u)
                 THEN [u EXCEPT !.stopped = FALSE] ELSE u
    BY <1>1, <1>2, <1>3, <1>4 DEF Render
  <1>6. ui' \in ProgressUi
    <2>1. [u EXCEPT !.stopped = FALSE] \in ProgressUi
      BY DEF ProgressUi
    <2> QED BY <1>5, <2>1
  <1>7. IsFiniteSet(q) /\ \A c \in q : LoopTyped(c)
    BY <1>1, CleanupTyped
  <1>8. IsFiniteSet(kept) /\ \A c \in kept : LoopTyped(c)
    BY <1>2, <1>7, CleanupTyped
  <1>9. IsFiniteSet(s) /\ \A c \in s : LoopTyped(c)
    <2>1. IsFiniteSet(s)
      BY <1>3, FS_Singleton, FS_EmptySet
    <2>2. ASSUME NEW c \in s
          PROVE  LoopTyped(c)
      <3>1. c = Loop("queue", u.client, u.queue, "timer") /\ u.client \in ProgressOrders
        BY <1>3 DEF QueuePolling, ProgressUi
      <3>2. PICK stage \in {"timer", "sent"} : stage = "timer"
        OBVIOUS
      <3>3. c = Loop("queue", u.client, u.queue, stage)
        BY <3>1, <3>2
      <3> QED BY <3>1, <3>3, LoopMadeTyped DEF ProgressTyped
    <2> QED BY <2>1, <2>2
  <1>10. IsFiniteSet(t) /\ \A c \in t : LoopTyped(c)
    <2>1. IsFiniteSet(t)
      BY <1>4, FS_Singleton, FS_EmptySet
    <2>2. ASSUME NEW c \in t
          PROVE  LoopTyped(c)
      <3>1. c = Loop("provider", u.order, "none", "sent") /\ u.order \in ProgressOrders
        BY <1>4 DEF ProviderPolling, ProgressUi
      <3>2. PICK stage \in {"timer", "sent"} : stage = "sent"
        OBVIOUS
      <3>3. c = Loop("provider", u.order, "none", stage)
        BY <3>1, <3>2
      <3> QED BY <3>1, <3>3, LoopMadeTyped DEF ProgressTyped
    <2> QED BY <2>1, <2>2
  <1>11. AtMost(calls')
    <2>1. IsFiniteSet(s \cup t)
      BY <1>9, <1>10, FS_Union
    <2>2. IsFiniteSet(kept \cup (s \cup t))
      BY <1>8, <2>1, FS_Union
    <2> QED BY <1>5, <2>2 DEF AtMost
  <1>12. \A c \in calls' : LoopTyped(c)
    BY <1>5, <1>8, <1>9, <1>10
  <1>13. AtMost(calls)' /\ \A c \in calls' : LoopTyped(c)'
    BY <1>11, <1>12 DEF AtMost, LoopTyped
  <1> QED BY <1>6, <1>13 DEF ProgressTyped

LEMMA OrderBoughtTyped ==
  ASSUME ProgressInv, ProgressTyped, OrderBought
  PROVE  ProgressTyped'
  <1>1. PICK o \in ProgressOrders : o = db.bought + 1
    BY DEF OrderBought
  <1>2. PICK client \in ProgressOrders \cup {0} :
          client = IF db.kind[o] = "queue" THEN o ELSE 0
    OBVIOUS
  <1>3. PICK u : u = [ui EXCEPT !.step = "completed", !.order = o, !.kind = db.kind[o],
                                !.client = client, !.queue = "waiting"]
    OBVIOUS
  <1>4. db' = [db EXCEPT !.bought = o] /\ Render(u, calls)
    BY <1>1, <1>2, <1>3 DEF OrderBought
  <1>5. ProgressShop'
    BY <1>4 DEF ProgressInv, ProgressDb, ProgressTyped, ProgressShop
  <1>6. u \in ProgressUi
    <2>1. db.kind[o] \in OrderKind
      BY DEF ProgressTyped, ProgressShop
    <2>2. ui \in ProgressUi
      BY DEF ProgressTyped
    <2> QED BY <1>3, <2>1, <2>2 DEF ProgressUi, QueueStatus
  <1> QED BY <1>4, <1>5, <1>6, RenderTyped DEF ProgressTyped, AtMost

LEMMA ProgressResetTyped ==
  ASSUME ProgressTyped, ProgressReset
  PROVE  ProgressTyped'
  <1>1. PICK u : u = [NotShown EXCEPT !.error = ui.error, !.stopped = ui.stopped,
                                      !.ticket = ui.ticket]
    OBVIOUS
  <1>2. Render(u, calls) /\ UNCHANGED db
    BY <1>1 DEF ProgressReset
  <1>3. u \in ProgressUi
    <2>1. ui \in ProgressUi
      BY DEF ProgressTyped
    <2> QED BY <1>1, <2>1 DEF NotShown, ProgressUi, OrderKind, QueueStatus, ProviderStatus
  <1>4. ProgressShop'
    BY <1>2 DEF ProgressTyped, ProgressShop
  <1> QED BY <1>2, <1>3, <1>4, RenderTyped DEF ProgressTyped, AtMost

LEMMA TicketAskedTyped ==
  ASSUME ProgressTyped, HandleRequestDownloadTicket
  PROVE  ProgressTyped'
  <1>1. PICK c : c = Loop("ticket", ui.order, "none", "sent")
    OBVIOUS
  <1>2. /\ calls' = calls \cup {c} /\ Room /\ ui' = [ui EXCEPT !.ticket = TRUE]
        /\ UNCHANGED db
    BY <1>1 DEF HandleRequestDownloadTicket, Begin
  <1>3. PICK op, stage : op = "ticket" /\ stage = "sent"
    OBVIOUS
  <1>4. LoopTyped(c)
    BY <1>1, <1>3, LoopMadeTyped DEF ProgressTyped
  <1>5. AtMost(calls')
    BY <1>2, RoomForOne DEF ProgressTyped
  <1>6. ui' \in ProgressUi
    BY <1>2 DEF ProgressTyped, ProgressUi
  <1>7. \A d \in calls' : LoopTyped(d)
    BY <1>2, <1>4 DEF ProgressTyped
  <1>8. AtMost(calls)' /\ \A d \in calls' : LoopTyped(d)'
    BY <1>5, <1>7 DEF AtMost, LoopTyped
  <1>9. ProgressShop'
    BY <1>2 DEF ProgressTyped, ProgressShop
  <1> QED BY <1>6, <1>8, <1>9 DEF ProgressTyped

LEMMA LoopsMoveTyped ==
  ASSUME ProgressTyped, NEW c \in calls, TimerFires(c) \/ ReadStatus(c) \/ TicketAnswered(c)
  PROVE  ProgressTyped'
  <1>1. LoopTyped(c) /\ ui \in ProgressUi /\ AtMost(calls) /\ UNCHANGED db
    BY DEF ProgressTyped, TimerFires, ReadStatus, TicketAnswered
  <1>2. ASSUME NEW d, LoopTyped(d), ui' \in ProgressUi,
               calls' = (calls \ {c}) \cup {d} \/ calls' = calls \ {c}
        PROVE  ProgressTyped'
    <2>1. AtMost(calls')
      BY <1>1, <1>2, RoomForOne
    <2>2. \A e \in calls' : LoopTyped(e)
      BY <1>2 DEF ProgressTyped
    <2>3. AtMost(calls)' /\ \A e \in calls' : LoopTyped(e)'
      BY <2>1, <2>2 DEF AtMost, LoopTyped
    <2>4. ProgressShop'
      BY <1>1 DEF ProgressTyped, ProgressShop
    <2> QED BY <1>2, <2>3, <2>4 DEF ProgressTyped
  <1>3. CASE TimerFires(c)
    <2>1. PICK d : d = [c EXCEPT !.stage = "sent"]
      OBVIOUS
    <2>2. LoopTyped(d)
      BY <1>1, <2>1 DEF LoopTyped, LoopFields
    <2>3. calls' = (calls \ {c}) \cup {d} /\ UNCHANGED ui
      BY <1>3, <2>1 DEF TimerFires, Change
    <2> QED BY <1>1, <1>2, <2>2, <2>3
  <1>4. CASE ReadStatus(c)
    <2>1. PICK reply : reply = IF c.op = "queue" THEN db.queue[c.order] ELSE db.provider[c.order]
      OBVIOUS
    <2>2. PICK d : d = [c EXCEPT !.stage = "answered", !.reply = reply]
      OBVIOUS
    <2>3. /\ c.op = "queue" => reply \in QueueStatus
          /\ c.op = "provider" => reply \in ProviderStatus
      BY <1>1, <2>1 DEF LoopTyped, ProgressTyped, ProgressShop
    <2>4. LoopTyped(d)
      BY <1>1, <2>2, <2>3 DEF LoopTyped, LoopFields
    <2>5. calls' = (calls \ {c}) \cup {d} /\ UNCHANGED ui
      BY <1>4, <2>1, <2>2 DEF ReadStatus, Change
    <2> QED BY <1>1, <1>2, <2>4, <2>5
  <1>5. CASE TicketAnswered(c)
    <2>1. ui' = [ui EXCEPT !.ticket = FALSE] /\ calls' = calls \ {c}
      BY <1>5 DEF TicketAnswered, End
    <2>2. ui' \in ProgressUi
      BY <1>1, <2>1 DEF ProgressUi
    <2> QED BY <1>1, <1>2, <2>1, <2>2
  <1> QED BY <1>3, <1>4, <1>5

(* What a read loop leaves: the others, and its next pause. *)
LEMMA LoopAgainTyped ==
  ASSUME ProgressTyped, NEW c \in calls, NEW cs,
         cs \subseteq (calls \ {c}) \cup {[c EXCEPT !.stage = "timer", !.reply = "none"]}
  PROVE  IsFiniteSet(cs) /\ \A d \in cs : LoopTyped(d)
  <1>1. PICK again : again = [c EXCEPT !.stage = "timer", !.reply = "none"]
    OBVIOUS
  <1>2. LoopTyped(again)
    BY <1>1 DEF ProgressTyped, LoopTyped, LoopFields
  <1>3. AtMost((calls \ {c}) \cup {again})
    BY RoomForOne DEF ProgressTyped
  <1>4. IsFiniteSet(cs)
    BY <1>1, <1>3, FS_Subset DEF AtMost
  <1> QED BY <1>1, <1>2, <1>4 DEF ProgressTyped

LEMMA PollQueueTyped ==
  ASSUME ProgressTyped, NEW c \in calls, PollQueue(c)
  PROVE  ProgressTyped'
  <1>1. LoopTyped(c) /\ ui \in ProgressUi
    BY DEF ProgressTyped
  <1>2. PICK error : error = IF c.reply = "error" THEN "queue" ELSE ui.error
    OBVIOUS
  <1>3. PICK u : u = IF c.stage = "sent" THEN ui
                     ELSE [ui EXCEPT !.queue = c.reply, !.error = error]
    OBVIOUS
  <1>4. PICK again : again = [c EXCEPT !.stage = "timer", !.reply = "none"]
    OBVIOUS
  <1>5. PICK cs : cs = (calls \ {c}) \cup (IF c.seen = "error" THEN {} ELSE {again})
    OBVIOUS
  <1>6. Render(u, cs) /\ UNCHANGED db
    BY <1>2, <1>3, <1>4, <1>5 DEF PollQueue
  <1>7. u \in ProgressUi
    <2>1. CASE c.stage = "sent"
      BY <1>1, <1>3, <2>1
    <2>2. CASE c.stage # "sent"
      <3>1. c.reply \in QueueStatus
        BY <1>1, <2>2 DEF LoopTyped, PollQueue
      <3>2. error \in ProviderTerminal \cup {"none", "queue"}
        BY <1>1, <1>2 DEF ProgressUi
      <3> QED BY <1>1, <1>3, <2>2, <3>1, <3>2 DEF ProgressUi
    <2> QED BY <2>1, <2>2
  <1>8. IsFiniteSet(cs) /\ \A d \in cs : LoopTyped(d)
    BY <1>4, <1>5, LoopAgainTyped
  <1>9. ProgressShop'
    BY <1>6 DEF ProgressTyped, ProgressShop
  <1> QED BY <1>6, <1>7, <1>8, <1>9, RenderTyped

LEMMA PollProviderTyped ==
  ASSUME ProgressTyped, NEW c \in calls, PollProvider(c)
  PROVE  ProgressTyped'
  <1>1. LoopTyped(c) /\ ui \in ProgressUi
    BY DEF ProgressTyped
  <1>2. PICK told : told = (c.live /\ c.stage = "answered")
    OBVIOUS
  <1>3. PICK queue : queue = IF c.reply = "completed" THEN "completed"
                             ELSE IF c.reply \in ProviderTerminal THEN "error"
                             ELSE "processing"
    OBVIOUS
  <1>4. PICK error : error = IF c.reply \in ProviderTerminal \ {"completed"} THEN c.reply
                             ELSE ui.error
    OBVIOUS
  <1>5. PICK u : u = IF ~told THEN ui
                     ELSE [ui EXCEPT !.provider = c.reply, !.queue = queue, !.error = error]
    OBVIOUS
  <1>6. PICK again : again = [c EXCEPT !.stage = "timer", !.reply = "none"]
    OBVIOUS
  <1>7. PICK over : over = (~c.live \/ (told /\ c.reply \in ProviderTerminal))
    OBVIOUS
  <1>8. PICK cs : cs = (calls \ {c}) \cup (IF over THEN {} ELSE {again})
    OBVIOUS
  <1>9. PICK v : v = [u EXCEPT !.stopped = TRUE]
    OBVIOUS
  <1>10. (Render(u, cs) \/ Render(v, calls \ {c})) /\ UNCHANGED db
    BY <1>2, <1>3, <1>4, <1>5, <1>6, <1>7, <1>8, <1>9 DEF PollProvider
  <1>11. u \in ProgressUi
    <2>1. CASE ~told
      BY <1>1, <1>5, <2>1
    <2>2. CASE told
      <3>1. c.reply \in ProviderStatus
        BY <1>1, <1>2, <2>2 DEF LoopTyped, PollProvider
      <3>2. error \in ProviderTerminal \cup {"none", "queue"} /\ queue \in QueueStatus
        BY <1>1, <1>3, <1>4 DEF ProgressUi, QueueStatus
      <3>3. u = [ui EXCEPT !.provider = c.reply, !.queue = queue, !.error = error]
        BY <1>5, <2>2
      <3> QED BY <1>1, <3>1, <3>2, <3>3 DEF ProgressUi
    <2> QED BY <2>1, <2>2
  <1>12. v \in ProgressUi
    BY <1>9, <1>11 DEF ProgressUi
  <1>13. IsFiniteSet(cs) /\ \A d \in cs : LoopTyped(d)
    BY <1>6, <1>8, LoopAgainTyped
  <1>14. IsFiniteSet(calls \ {c}) /\ \A d \in calls \ {c} : LoopTyped(d)
    BY LoopAgainTyped
  <1>15. ProgressShop'
    BY <1>10 DEF ProgressTyped, ProgressShop
  <1>16. CASE Render(u, cs)
    BY <1>11, <1>13, <1>15, <1>16, RenderTyped
  <1>17. CASE Render(v, calls \ {c})
    BY <1>12, <1>14, <1>15, <1>17, RenderTyped
  <1> QED BY <1>10, <1>16, <1>17

LEMMA OrderMovesTyped ==
  ASSUME ProgressInv, ProgressTyped, NEW o \in ProgressOrders, OrderMoves(o)
  PROVE  ProgressTyped'
  <1>1. UNCHANGED <<ui, calls>>
    BY DEF OrderMoves
  <1>2. {"bought", "kind", "provider", "was", "queue"} \subseteq DOMAIN db
    BY DEF ProgressInv, ProgressDb
  <1>3. ProgressShop
    BY DEF ProgressTyped
  <1>4. ASSUME NEW s \in ProviderStatus,
               db' = [db EXCEPT !.provider[o] = s, !.was[o] = @ \cup {s}]
        PROVE  ProgressShop'
    <2>1. PICK d : d = [db EXCEPT !.provider[o] = s]
      OBVIOUS
    <2>2. /\ DOMAIN d = DOMAIN db /\ d.provider = [db.provider EXCEPT ![o] = s]
          /\ d.kind = db.kind /\ d.queue = db.queue /\ d.was = db.was
      BY <1>2, <2>1
    <2>3. db' = [d EXCEPT !.was[o] = @ \cup {s}]
      BY <1>4, <2>1, <2>2
    <2>4. db'.provider = d.provider /\ db'.kind = d.kind /\ db'.queue = d.queue
      BY <2>3
    <2> QED BY <1>3, <2>2, <2>4 DEF ProgressShop
  <1>5. ASSUME NEW s \in QueueStatus, db' = [db EXCEPT !.queue[o] = s]
        PROVE  ProgressShop'
    <2>1. /\ db'.queue = [db.queue EXCEPT ![o] = s] /\ db'.kind = db.kind
          /\ db'.provider = db.provider
      BY <1>2, <1>5
    <2> QED BY <1>3, <2>1 DEF ProgressShop
  <1>6. \/ \E s \in ProviderStatus : db' = [db EXCEPT !.provider[o] = s, !.was[o] = @ \cup {s}]
        \/ \E s \in QueueStatus : db' = [db EXCEPT !.queue[o] = s]
    BY DEF OrderMoves, QueueStatus
  <1>7. ProgressShop'
    BY <1>4, <1>5, <1>6
  <1> QED BY <1>1, <1>7 DEF ProgressTyped, AtMost, LoopTyped

LEMMA ProgressTypedNext == ProgressInv /\ ProgressTyped /\ ProgressNext => ProgressTyped'
  BY OrderBoughtTyped, ProgressResetTyped, TicketAskedTyped, LoopsMoveTyped, PollQueueTyped,
     PollProviderTyped, OrderMovesTyped
  DEF ProgressNext

LEMMA ProgressTypeHolds == ProgressTyped => ProgressTypeOK
  BY DEF ProgressTyped, ProgressUi, LoopTyped, ProgressTypeOK

-----------------------------------------------------------------------------
(* The types of every page together: a page opens with them, and keeps them
   in each of its steps. *)

(* A list opens on its first page, with nothing read. *)
LEMMA ListBegins ==
  ASSUME NEW S, NEW ops, NEW kinds,
         {"is", "others", "errand"} \subseteq DOMAIN db, db.is \in [Items -> S],
         ui.at = 1, ui.of = 1, ui.rows = {}, ui.dialog = NoDialog, ui.entered = {},
         "none" \notin kinds,
         \A c \in calls :
           c.at = 1 /\ c.of = 1 /\ c.rows = {} /\ c.target = 0 /\ c.op \notin ops
  PROVE  ListTyped(S, ops, kinds)
  <1>1. 1 \in PageNumbers
    BY DEF PageNumbers
  <1>2. UiTyped(ui, S, kinds)
    BY <1>1 DEF UiTyped, RowsTyped, NoDialog
  <1>3. \A c \in calls : CallTyped(c, S, ops)
    BY <1>1 DEF CallTyped, RowsTyped
  <1> QED BY <1>2, <1>3 DEF ListTyped

LEMMA FirstCall ==
  ASSUME NEW n, NEW op, NEW c, c = CallNo(n, op, NoList)
  PROVE  /\ c.at = 1 /\ c.of = 1 /\ c.rows = {} /\ c.target = 0 /\ c.op = op
         /\ c.form = {} /\ c.reply = "none" /\ {"silent", "value"} \subseteq DOMAIN c
  BY DEF CallNo, NoList

LEMMA FirstCalls ==
  ASSUME NEW op, \/ calls = {CallNo(1, "load", NoList)}
                 \/ calls = {CallNo(1, "load", NoList), CallNo(2, op, NoList)}
  PROVE  \A c \in calls : /\ c.at = 1 /\ c.of = 1 /\ c.rows = {} /\ c.target = 0
                          /\ c.op \in {"load", op}
  <1> SUFFICES ASSUME NEW c \in calls
               PROVE  /\ c.at = 1 /\ c.of = 1 /\ c.rows = {} /\ c.target = 0
                      /\ c.op \in {"load", op}
    OBVIOUS
  <1>1. ASSUME NEW o, NEW n, c = CallNo(n, o, NoList)
        PROVE  /\ c.at = 1 /\ c.of = 1 /\ c.rows = {} /\ c.target = 0 /\ c.op = o
    BY <1>1, FirstCall
  <1>2. PICK o : o = "load"
    OBVIOUS
  <1>3. c = CallNo(1, o, NoList) \/ c = CallNo(2, op, NoList)
    BY <1>2
  <1>4. CASE c = CallNo(1, o, NoList)
    BY <1>1, <1>2, <1>4
  <1>5. CASE c = CallNo(2, op, NoList)
    BY <1>1, <1>5
  <1> QED BY <1>3, <1>4, <1>5

LEMMA PaymentsInitTyped == AdminPaymentsInit => PaymentsTyped
  <1> SUFFICES ASSUME AdminPaymentsInit
               PROVE  PaymentsTyped
    OBVIOUS
  <1>1. {"is", "others", "errand"} \subseteq DOMAIN db /\ db.is \in [Items -> PaymentState]
    <2>1. PICK errand :
            db = [is |-> [i \in Items |-> "pending"], others |-> 0, errand |-> errand]
      BY DEF AdminPaymentsInit
    <2> QED BY <2>1 DEF PaymentState
  <1>2. ui.at = 1 /\ ui.of = 1 /\ ui.rows = {} /\ ui.dialog = NoDialog /\ ui.entered = {}
    BY DEF AdminPaymentsInit, DialogList
  <1>3. calls = {CallNo(1, "load", NoList)}
    BY DEF AdminPaymentsInit
  <1> QED BY <1>1, <1>2, <1>3, FirstCalls, ListBegins DEF PaymentsTyped

LEMMA ListsInitTyped == AdminListsInit => ListsTyped
  <1> SUFFICES ASSUME AdminListsInit
               PROVE  ListsTyped
    OBVIOUS
  <1>1. {"is", "others", "errand"} \subseteq DOMAIN db /\ db.is \in [Items -> ListStates]
    BY DEF AdminListsInit, ListStates
  <1>2. ui.at = 1 /\ ui.of = 1 /\ ui.rows = {} /\ ui.dialog = NoDialog /\ ui.entered = {}
    BY DEF AdminListsInit, DialogList
  <1>3. calls = {CallNo(1, "load", NoList)}
    BY DEF AdminListsInit
  <1>4. \A c \in calls : /\ c.at = 1 /\ c.of = 1 /\ c.rows = {} /\ c.target = 0
                         /\ c.op \notin {"save"}
    <2>1. PICK op : op = "load"
      OBVIOUS
    <2> QED BY <1>3, <2>1, FirstCalls
  <1> QED BY <1>1, <1>2, <1>4, ListBegins DEF ListsTyped

LEMMA UsersInitTyped == AdminUsersInit => UsersTyped
  <1> SUFFICES ASSUME AdminUsersInit
               PROVE  UsersTyped
    OBVIOUS
  <1>1. /\ {"is", "others", "errand", "adjusted"} \subseteq DOMAIN db
        /\ db.is \in [Items -> UserState] /\ db.adjusted = [i \in Items |-> 0]
    <2>1. PICK errand :
            db = [is |-> [i \in Items |-> IF i = SeedAdmin THEN "admin" ELSE "active"],
                  adjusted |-> [i \in Items |-> 0], others |-> 0, errand |-> errand]
      BY DEF AdminUsersInit
    <2> QED BY <2>1 DEF UserState
  <1>2. /\ ui.at = 1 /\ ui.of = 1 /\ ui.rows = {} /\ ui.dialog = NoDialog /\ ui.entered = {}
        /\ "detail" \in DOMAIN ui /\ ui.detail = 0
    BY DEF AdminUsersInit
  <1>3. calls = {CallNo(1, "load", NoList)}
    BY DEF AdminUsersInit
  <1>4. \A c \in calls : /\ c.at = 1 /\ c.of = 1 /\ c.rows = {} /\ c.target = 0
                         /\ c.op \notin UserHandlers
    <2>1. PICK op : op = "load"
      OBVIOUS
    <2> QED BY <1>3, <2>1, FirstCalls DEF UserHandlers
  <1>5. ListTyped(UserState, UserHandlers, UserHandlers)
    BY <1>1, <1>2, <1>4, ListBegins DEF UserHandlers
  <1>6. db.adjusted \in [Items -> 0 .. MaxAdjusted]
    BY <1>1, AdminUsersAssumption
  <1> QED BY <1>1, <1>2, <1>5, <1>6 DEF UsersTyped

LEMMA CouponsInitTyped == AdminCouponsInit => CouponsTyped
  <1> SUFFICES ASSUME AdminCouponsInit
               PROVE  CouponsTyped
    OBVIOUS
  <1>1. {"is", "others", "errand"} \subseteq DOMAIN db /\ db.is \in [Items -> CouponStates]
    <2>1. PICK errand :
            db = [is |-> [i \in Items |-> IF errand = "form" /\ i = 2
                                         THEN "absent" ELSE "active"],
                  others |-> 0, errand |-> errand]
      BY DEF AdminCouponsInit
    <2> QED BY <2>1 DEF CouponStates, CouponState
  <1>2. /\ ui.at = 1 /\ ui.of = 1 /\ ui.rows = {} /\ ui.dialog = NoDialog /\ ui.entered = {}
        /\ ui.busy = {} /\ ui.stats.shown = 0
    BY DEF AdminCouponsInit, NoStats
  <1>3. PICK op : op = "plans"
    OBVIOUS
  <1>4. calls = {CallNo(1, "load", NoList), CallNo(2, op, NoList)}
    BY <1>3 DEF AdminCouponsInit
  <1>5. \A c \in calls : /\ c.at = 1 /\ c.of = 1 /\ c.rows = {} /\ c.target = 0
                         /\ c.op \notin CouponHandlers
    BY <1>3, <1>4, FirstCalls DEF CouponHandlers
  <1>6. ListTyped(CouponStates, CouponHandlers, CouponForms)
    BY <1>1, <1>2, <1>5, ListBegins DEF CouponForms
  <1> QED BY <1>2, <1>6 DEF CouponsTyped

LEMMA OrdersInitTyped == OrdersViewInit => OrdersTyped
  <1> SUFFICES ASSUME OrdersViewInit
               PROVE  OrdersTyped
    OBVIOUS
  <1>1. /\ {"is", "others", "errand", "view"} \subseteq DOMAIN db
        /\ db.is \in [Items -> CustomerOrderStatus] /\ db.view \in [Items -> OrderView]
    <2>1. PICK view \in OrderViews :
            db = [is |-> [i \in Items |-> IF i = 1 THEN "paid" ELSE "failed"], others |-> 0,
                  errand |-> "orders", view |-> view]
      BY DEF OrdersViewInit
    <2> QED BY <2>1, OrdersViewAssumption DEF CustomerOrderStatus
  <1>2. /\ ui.at = 1 /\ ui.of = 1 /\ ui.rows = {} /\ ui.dialog = NoDialog /\ ui.entered = {}
        /\ "selected" \in DOMAIN ui /\ ui.selected = NoOrder
    BY DEF OrdersViewInit
  <1>3. PICK op : op = "config"
    OBVIOUS
  <1>4. calls = {CallNo(1, "load", NoList), CallNo(2, op, NoList)}
    BY <1>3 DEF OrdersViewInit
  <1>5. \A c \in calls : c.at = 1 /\ c.of = 1 /\ c.rows = {} /\ c.target = 0 /\ c.op \notin {}
    BY <1>4, FirstCalls
  <1>6. ListTyped(CustomerOrderStatus, {}, {})
    BY <1>1, <1>2, <1>5, ListBegins
  <1>7. NoOrder.id \in Items \cup {0} /\ NoOrder.is \in CustomerOrderStatus
    BY DEF NoOrder, CustomerOrderStatus
  <1> QED BY <1>1, <1>2, <1>6, <1>7 DEF OrdersTyped

LEMMA AdminOrdersInitTyped == AdminOrdersInit => AdminOrdersTyped
  <1> SUFFICES ASSUME AdminOrdersInit
               PROVE  AdminOrdersTyped
    OBVIOUS
  <1>1. {"is", "others", "errand"} \subseteq DOMAIN db /\ db.is \in [Items -> AdminOrderStatus]
    <2>1. PICK errand :
            db = [is |-> [i \in Items |-> IF i \in ManualOrders THEN "paid" ELSE "failed"],
                  others |-> 0, paused |-> errand = "banner", errand |-> errand]
      BY DEF AdminOrdersInit
    <2> QED BY <2>1 DEF AdminOrderStatus
  <1>2. /\ ui.at = 1 /\ ui.of = 1 /\ ui.rows = {} /\ ui.dialog = NoDialog /\ ui.entered = {}
        /\ ui.detail = 0 /\ ui.reason = 0 /\ ui.external = 0 /\ ui.note = 0
    BY DEF AdminOrdersInit
  <1>3. PICK op : op = "paused"
    OBVIOUS
  <1>4. calls = {CallNo(1, "load", NoList), CallNo(2, op, NoList)}
    BY <1>3 DEF AdminOrdersInit
  <1>5. \A c \in calls : /\ c.at = 1 /\ c.of = 1 /\ c.rows = {} /\ c.target = 0
                         /\ c.op \notin {} /\ c.op # "act"
    BY <1>3, <1>4, FirstCalls
  <1>6. ListTyped(AdminOrderStatus, {}, {})
    BY <1>1, <1>2, <1>5, ListBegins
  <1> QED BY <1>2, <1>5, <1>6 DEF AdminOrdersTyped

LEMMA PlansInitTyped == AdminPlansInit => PlansTyped
  <1> SUFFICES ASSUME AdminPlansInit
               PROVE  PlansTyped
    OBVIOUS
  <1>1. /\ {"is", "others", "errand"} \subseteq DOMAIN db /\ db.is \in [Items -> PlanStates]
        /\ db.plan = [i \in Items |-> EmptyPlanForm]
    <2>1. PICK errand : db = [is |-> [i \in Items |-> IF errand = "form" /\ i > 1
                                                      THEN "absent" ELSE "active"],
                              plan |-> [i \in Items |-> EmptyPlanForm], others |-> 0,
                              errand |-> errand]
      BY DEF AdminPlansInit
    <2> QED BY <2>1 DEF PlanStates
  <1>2. ui.at = 1 /\ ui.of = 1 /\ ui.rows = {} /\ ui.dialog = NoDialog /\ ui.entered = {}
    BY DEF AdminPlansInit
  <1>3. calls = {CallNo(1, "load", NoList)}
    BY DEF AdminPlansInit
  <1>4. \A c \in calls : /\ c.at = 1 /\ c.of = 1 /\ c.rows = {} /\ c.target = 0
                         /\ c.op \notin PlanHandlers
    <2>1. PICK op : op = "load"
      OBVIOUS
    <2> QED BY <1>3, <2>1, FirstCalls DEF PlanHandlers
  <1>5. ListTyped(PlanStates, PlanHandlers, PlanDialogs)
    BY <1>1, <1>2, <1>4, ListBegins DEF PlanDialogs
  <1>6. EmptyPlanForm \in PlanForm
    BY DEF EmptyPlanForm, PlanForm, Served, Category
  <1>7. PlanPages({}) \in PageNumbers
    BY DEF PlanPages, PageNumbers
  <1> QED BY <1>1, <1>4, <1>5, <1>6, <1>7 DEF PlansTyped

LEMMA SystemInitTyped == AdminSystemInit => SystemTyped
  <1> SUFFICES ASSUME AdminSystemInit
               PROVE  SystemTyped
    OBVIOUS
  <1>1. PICK b : b = CallNo(1, "load", NoList)
    OBVIOUS
  <1>2. PICK tab : tab = ui.tab
    OBVIOUS
  <1>3. PICK l : l = [b EXCEPT !.silent = TRUE, !.value = tab]
    OBVIOUS
  <1>4. calls = {l}
    BY <1>1, <1>2, <1>3 DEF AdminSystemInit
  <1>5. /\ l.at = 1 /\ l.of = 1 /\ l.rows = {} /\ l.target = 0 /\ l.op = "load"
        /\ l.form = {} /\ l.reply = "none"
    BY <1>1, <1>3, FirstCall
  <1>6. /\ {"is", "others", "errand", "popup", "maintenance", "profile"} \subseteq DOMAIN db
        /\ db.is \in [Items -> SystemStates] /\ db.popup = 1 /\ db.maintenance = FALSE
    <2>1. PICK errand :
            db = [is |-> [i \in Items |-> "active"], others |-> 0, errand |-> errand,
                  popup |-> 1, maintenance |-> FALSE, profile |-> TRUE]
      BY DEF AdminSystemInit
    <2> QED BY <2>1 DEF SystemStates
  <1>7. /\ ui.at = 1 /\ ui.of = 1 /\ ui.rows = {} /\ ui.dialog = NoDialog /\ ui.entered = {}
        /\ ui.tab = (IF "popup" \in db.errand THEN "popup" ELSE "accounts")
        /\ ui.popup = 0 /\ ui.texts = 0 /\ ui.settings = {}
    BY DEF AdminSystemInit
  <1>8. ListTyped(SystemStates, {}, {})
    BY <1>4, <1>5, <1>6, <1>7, ListBegins
  <1>9. 0 \in Popup /\ 1 \in Popup /\ 0 \in 0 .. MaxTexts
    BY AdminSystemAssumption DEF Popup
  <1>10. SystemForms(ui, db)
    BY <1>6, <1>7, <1>9 DEF SystemForms
  <1>11. SystemCall(l)
    BY <1>5 DEF SystemCall
  <1> QED BY <1>4, <1>8, <1>10, <1>11 DEF SystemTyped

(* The invariant: the page shown has its types.  Besides what FrontendTypeOK says
   of what is shown, it types the calls under way, whose answers are shown next,
   and the shop's records, which they are read from. *)
TypesInv ==
  /\ page = "progress" => ProgressTyped
  /\ page = "orders" => OrdersTyped
  /\ page = "wallet" => WalletTyped
  /\ page = "feedback" => ReviewsTyped
  /\ page = "dashboard" => DashboardTyped
  /\ page = "admin orders" => AdminOrdersTyped
  /\ page = "admin payments" => PaymentsTyped
  /\ page = "admin users" => UsersTyped
  /\ page = "admin coupons" => CouponsTyped
  /\ page = "admin plans" => PlansTyped
  /\ page = "admin system" => SystemTyped
  /\ page \in AdminListPage => ListsTyped

LEMMA TypesInit == FrontendInit => TypesInv
  <1> SUFFICES ASSUME FrontendInit
               PROVE  TypesInv
    OBVIOUS
  <1>1. OpenCheckout \/ OpenPage
    BY DEF FrontendInit
  <1>2. /\ page = "progress" => ProgressInit
        /\ page = "orders" => OrdersViewInit
        /\ page = "wallet" => WalletInit
        /\ page = "feedback" => ReviewsInit
        /\ page = "dashboard" => DashboardInit
        /\ page = "admin orders" => AdminOrdersInit
        /\ page = "admin payments" => AdminPaymentsInit
        /\ page = "admin users" => AdminUsersInit
        /\ page = "admin coupons" => AdminCouponsInit
        /\ page = "admin plans" => AdminPlansInit
        /\ page = "admin system" => AdminSystemInit
        /\ page \in AdminListPage => AdminListsInit
    BY <1>1 DEF OpenCheckout, OpenPage, ProgressInit, OrdersViewInit, WalletInit, ReviewsInit,
                DashboardInit, AdminOrdersInit, AdminPaymentsInit, AdminUsersInit,
                AdminCouponsInit, AdminPlansInit, AdminSystemInit, AdminListsInit, AdminListPage
  <1>3. /\ page = "progress" => ProgressTyped
        /\ page = "orders" => OrdersTyped
        /\ page = "wallet" => WalletTyped
        /\ page = "feedback" => ReviewsTyped
    BY <1>2, ProgressInit_Typed, OrdersInitTyped, WalletInit_Typed, ReviewsInit_Typed
  <1>4. /\ page = "dashboard" => DashboardTyped
        /\ page = "admin orders" => AdminOrdersTyped
        /\ page = "admin payments" => PaymentsTyped
        /\ page = "admin users" => UsersTyped
    BY <1>2, DashboardInit_Typed, AdminOrdersInitTyped, PaymentsInitTyped, UsersInitTyped
  <1>5. /\ page = "admin coupons" => CouponsTyped
        /\ page = "admin plans" => PlansTyped
        /\ page = "admin system" => SystemTyped
        /\ page \in AdminListPage => ListsTyped
    BY <1>2, CouponsInitTyped, PlansInitTyped, SystemInitTyped, ListsInitTyped
  <1> QED BY <1>3, <1>4, <1>5 DEF TypesInv

LEMMA ListTypedQuiet ==
  ASSUME NEW S, NEW ops, NEW kinds, ListTyped(S, ops, kinds), UNCHANGED <<ui, calls, db>>
  PROVE  ListTyped(S, ops, kinds)'
  BY DEF ListTyped, UiTyped, CallTyped, RowsTyped

LEMMA TypesQuiet ==
  ASSUME TypesInv, page' \in {page, "blank"}, UNCHANGED <<ui, calls, db>>
  PROVE  TypesInv'
  <1>1. ProgressTyped => ProgressTyped'
    BY DEF ProgressTyped, ProgressUi, ProgressShop, AtMost, LoopTyped
  <1>2. WalletTyped => WalletTyped'
    BY DEF WalletTyped, WalletUi, WalletAnswer
  <1>3. ReviewsTyped => ReviewsTyped'
    BY DEF ReviewsTyped, ReviewsUi
  <1>4. DashboardTyped => DashboardTyped'
    BY DEF DashboardTyped
  <1>5. PaymentsTyped => PaymentsTyped'
    BY ListTypedQuiet DEF PaymentsTyped
  <1>6. ListsTyped => ListsTyped'
    BY ListTypedQuiet DEF ListsTyped
  <1>7. UsersTyped => UsersTyped'
    BY ListTypedQuiet DEF UsersTyped
  <1>8. CouponsTyped => CouponsTyped'
    BY ListTypedQuiet DEF CouponsTyped
  <1>9. OrdersTyped => OrdersTyped'
    BY ListTypedQuiet DEF OrdersTyped
  <1>10. AdminOrdersTyped => AdminOrdersTyped'
    BY ListTypedQuiet DEF AdminOrdersTyped
  <1>11. PlansTyped => PlansTyped'
    BY ListTypedQuiet DEF PlansTyped
  <1>12. SystemTyped => SystemTyped'
    BY ListTypedQuiet DEF SystemTyped, SystemForms, SystemCall
  <1>13. page' = page \/ page' = "blank"
    OBVIOUS
  <1>14. CASE page' = "blank"
    BY <1>14 DEF TypesInv, AdminListPage
  <1>15. CASE page' = page
    <2>1. /\ page = "progress" => ProgressTyped'
          /\ page = "orders" => OrdersTyped'
          /\ page = "wallet" => WalletTyped'
          /\ page = "feedback" => ReviewsTyped'
      BY <1>1, <1>2, <1>3, <1>9 DEF TypesInv
    <2>2. /\ page = "dashboard" => DashboardTyped'
          /\ page = "admin orders" => AdminOrdersTyped'
          /\ page = "admin payments" => PaymentsTyped'
          /\ page = "admin users" => UsersTyped'
      BY <1>4, <1>5, <1>7, <1>10 DEF TypesInv
    <2>3. /\ page = "admin coupons" => CouponsTyped'
          /\ page = "admin plans" => PlansTyped'
          /\ page = "admin system" => SystemTyped'
          /\ page \in AdminListPage => ListsTyped'
      BY <1>6, <1>8, <1>11, <1>12 DEF TypesInv
    <2> QED BY <1>15, <2>1, <2>2, <2>3 DEF TypesInv
  <1> QED BY <1>13, <1>14, <1>15

LEMMA TypesNext ==
  PagesInv /\ DialogsInv /\ TypesInv /\ [FrontendNext]_<<vars, browser>> => TypesInv'
  <1> SUFFICES ASSUME PagesInv, DialogsInv, TypesInv, [FrontendNext]_<<vars, browser>>
               PROVE  TypesInv'
    OBVIOUS
  <1>1. page' \in {page, "blank"}
    BY PageStays
  <1>2. CASE UNCHANGED <<ui, calls, db>>
    BY <1>1, <1>2, TypesQuiet
  <1>3. CASE ~UNCHANGED <<ui, calls, db>>
    <2>1. /\ page = "progress" => ProgressNext
          /\ page = "orders" => OrdersViewNext
          /\ page = "wallet" => WalletNext
          /\ page = "feedback" => ReviewsNext
          /\ page = "dashboard" => DashboardNext
          /\ page = "admin orders" => AdminOrdersNext
          /\ page = "admin payments" => AdminPaymentsNext
          /\ page = "admin users" => AdminUsersNext
          /\ page = "admin coupons" => AdminCouponsNext
          /\ page = "admin plans" => AdminPlansNext
          /\ page = "admin system" => AdminSystemNext
          /\ page \in AdminListPage => AdminListsNext
      BY <1>3 DEF FrontendNext, PageNext, browser, AdminListPage
    <2>2. /\ page = "progress" => ProgressTyped'
          /\ page = "wallet" => WalletTyped'
          /\ page = "feedback" => ReviewsTyped'
          /\ page = "dashboard" => DashboardTyped'
      BY <2>1, ProgressTypedNext, WalletTypedNext, ReviewsTypedNext, DashboardTypedNext
      DEF PagesInv, TypesInv
    <2>3. /\ page = "orders" => OrdersTyped'
          /\ page = "admin orders" => AdminOrdersTyped'
          /\ page = "admin payments" => PaymentsTyped'
          /\ page = "admin users" => UsersTyped'
          /\ page = "admin coupons" => CouponsTyped'
      BY <2>1, OrdersTypedNext, AdminOrdersTypedNext, PaymentsTypedNext, UsersTypedNext,
         CouponsTypedNext
      DEF DialogsInv, DialogPages, TypesInv
    <2>4. /\ page = "admin plans" => PlansTyped'
          /\ page = "admin system" => SystemTyped'
          /\ page \in AdminListPage => ListsTyped'
      BY <2>1, PlansTypedNext, SystemTypedNext, ListsTypedNext
      DEF DialogsInv, DialogPages, TypesInv, PlanRest, SystemRest
    <2> QED BY <1>1, <2>2, <2>3, <2>4 DEF TypesInv, AdminListPage
  <1> QED BY <1>2, <1>3

(* The state of every page but the checkout keeps its type. *)
THEOREM TypesHold == FrontendSpec => []TypesInv
  BY TypesInit, TypesNext, PagesHold, DialogsHold, PTL DEF FrontendSpec

LEMMA DialogTypes ==
  ASSUME NEW S, NEW ops, NEW kinds, ListTyped(S, ops, kinds)
  PROVE  /\ DialogTypeOK /\ db.is \in [Items -> S]
         /\ \A row \in ui.rows : row.is \in Shown(S)
  BY DEF ListTyped, UiTyped, RowsTyped, DialogTypeOK, PageNumbers

LEMMA PaymentsTypeOK == PaymentsTyped => AdminPaymentsTypeOK
  BY DialogTypes DEF PaymentsTyped, AdminPaymentsTypeOK, Shown

LEMMA UsersTypeOK == UsersTyped => AdminUsersTypeOK
  BY DialogTypes DEF UsersTyped, AdminUsersTypeOK

LEMMA CouponsTypeOK == CouponsTyped => AdminCouponsTypeOK
  BY DialogTypes DEF CouponsTyped, AdminCouponsTypeOK, CouponStates

LEMMA ListsTypeOK == ListsTyped => AdminListsTypeOK
  BY DialogTypes DEF ListsTyped, AdminListsTypeOK, ListStates, Shown

LEMMA AdminOrdersTypeHolds == AdminOrdersTyped => AdminOrdersTypeOK
  BY DialogTypes DEF AdminOrdersTyped, AdminOrdersTypeOK, Shown

(* Every page's state keeps its type: rows, dialogs and forms name items there
   are, in states there are; pages are numbered as far as there are rows; the
   wallet, the reviews and the progress stay within their bounds; and so does
   the checkout (CheckoutTypesHold). *)
THEOREM FrontendTyped == FrontendSpec => []FrontendTypeOK
  <1>1. PagesInv /\ DialogsInv /\ TypesInv /\ TypeOK => FrontendTypeOK
    <2> SUFFICES ASSUME PagesInv, DialogsInv, TypesInv, TypeOK
                 PROVE  FrontendTypeOK
      OBVIOUS
    <2>1. /\ page = "progress" => ProgressTypeOK
          /\ page = "wallet" => WalletTypeOK
          /\ page = "feedback" => ReviewsTypeOK
          /\ page = "dashboard" => DashboardTypeOK
      BY ProgressTypeHolds, WalletTypeHolds, ReviewsTypeHolds, DashboardTypeHolds
      DEF PagesInv, TypesInv
    <2>2. /\ page = "orders" => OrdersViewTypeOK
          /\ page = "admin orders" => AdminOrdersTypeOK
          /\ page = "admin payments" => AdminPaymentsTypeOK
          /\ page = "admin users" => AdminUsersTypeOK
          /\ page = "admin coupons" => AdminCouponsTypeOK
          /\ page = "admin system" => AdminSystemTypeOK
          /\ page \in AdminListPage => AdminListsTypeOK
      BY OrdersTypeOK, AdminOrdersTypeHolds, PaymentsTypeOK, UsersTypeOK, CouponsTypeOK,
         SystemTypeOK, ListsTypeOK DEF TypesInv
    <2>3. page = "admin plans" => AdminPlansTypeOK
      BY PlansTypeOK DEF TypesInv, DialogsInv, DialogPages, PlanRest
    <2> QED BY <2>1, <2>2, <2>3 DEF FrontendTypeOK
  <1> QED BY <1>1, TypesHold, PagesHold, DialogsHold, CheckoutInside, CheckoutTypesHold, PTL
=============================================================================
