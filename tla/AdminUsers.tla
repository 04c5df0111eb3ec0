------------------------------ MODULE AdminUsers ------------------------------
(***************************************************************************)
(* The users of the administrator's panel, AdminUsers.tsx: the list, the   *)
(* details, and the dialogs that lock an account, change its role or its   *)
(* balance.  The dialogs can be closed and opened for another user while a *)
(* change is under way, and the details come in front whenever they are    *)
(* answered.  A change of the balance has a key of its own each time it is *)
(* sent, so one without an answer is sent again as another change.         *)
(***************************************************************************)
EXTENDS DialogPage

CONSTANT MaxAdjusted   \* bound: changes of balances that are carried out

ASSUME AdminUsersAssumption == MaxAdjusted \in Nat

(* "locked" stands for is_active = false; an administrator's account has the
   state "admin", and user 1 is the seed administrator, whom the shop keeps. *)
UserState == {"active", "locked", "admin"}
SeedAdmin == 1

AdminUsersInit ==
  /\ page = "admin users"
  /\ \E errand \in {"list", "status", "role", "wallet"} :
       db = [is |-> [i \in Items |-> IF i = SeedAdmin THEN "admin" ELSE "active"],
             adjusted |-> [i \in Items |-> 0], others |-> 0, errand |-> errand]
  /\ ui = [filter |-> "", at |-> 1, of |-> 1, rows |-> {}, loading |-> TRUE,
           dialog |-> NoDialog, entered |-> {}, value |-> "", busy |-> {}, detail |-> 0]
  /\ calls = {CallNo(1, "load", NoList)}

-----------------------------------------------------------------------------
(* The list: the search, the filters and the page number *)

UsersUncovered == ~Covered /\ ui.detail = 0

UserSearch(f) == UsersUncovered /\ (SearchFor(f) \/ SearchSubmit)
UserFilters(f) == UsersUncovered /\ FilterBy(f)
RefreshUsers == UsersUncovered /\ ~ui.loading /\ Loading(ui, "") /\ UNCHANGED <<page, db>>
UserPagination == UsersUncovered /\ \E to \in {ui.at - 1, ui.at + 1} : PageChanged(to)
LoadUsers(c) == Loaded(c)

UsersTable == IF ui.loading \/ ui.detail # 0 THEN {} ELSE Table

-----------------------------------------------------------------------------
(* The details are fetched first, and shown over whatever is there then. *)

HandleOpenUser(row) ==
  /\ row \in UsersTable
  /\ Begin([Call("detail", ui) EXCEPT !.target = row.id])
  /\ UNCHANGED <<page, ui, db>>

UserDetailAnswered(c) ==
  /\ c.op = "detail"
  /\ End(c)
  /\ ui' \in {ui, [ui EXCEPT !.detail = c.target]}
  /\ UNCHANGED <<page, db>>

UserDetailModal ==
  /\ ui.detail # 0
  /\ ui' = [ui EXCEPT !.detail = 0]
  /\ UNCHANGED <<page, calls, db>>

InFront(kind) == In({kind}) /\ ui.detail = 0

-----------------------------------------------------------------------------
(* Locking and unlocking: the opposite of the row the dialog was opened on *)

AskStatus(row) ==
  /\ row \in UsersTable
  /\ Open("status", row.id, {}, IF row.is = "locked" THEN "active" ELSE "locked")

StatusDialog == InFront("status") /\ Enter(ui.value)
HandleConfirmStatusChange == InFront("status") /\ Submit("status")

(* The seed administrator is never locked, nor made a user. *)
Kept(c) == c.target = SeedAdmin /\ c.value # "admin"

UserStatusChanged(c) == c.op = "status" /\ ~Kept(c) /\ Executed(c, c.value)

(* Success also clears what is typed by then. *)
StatusDone(c) ==
  /\ c.op = "status"
  /\ ThenLoad(c, Closing({"status"}, [Free("status") EXCEPT !.entered = {}]))

-----------------------------------------------------------------------------
(* The role *)

AskRole(row) ==
  /\ row \in UsersTable
  /\ Open("role", row.id, {row.id}, IF row.is = "admin" THEN "active" ELSE "admin")

RoleDialog == InFront("role") /\ Submit("role")
RoleChanged(c) == c.op = "role" /\ ~Kept(c) /\ Executed(c, c.value)
RoleDone(c) == c.op = "role" /\ ThenLoad(c, Closing({"role"}, Free("role")))

-----------------------------------------------------------------------------
(* The balance: an amount other than 0 and a reason *)

AskWallet(row) == row \in UsersTable /\ Open("wallet", row.id, {}, "")

WalletModal == InFront("wallet") /\ Enter("")

HandleConfirmWalletAdjust == InFront("wallet") /\ ui.entered # {} /\ Submit("wallet")

WalletAdjusted(c) ==
  /\ c.op = "wallet" /\ c.reply = "none" /\ db.adjusted[c.target] < MaxAdjusted
  /\ db' = [db EXCEPT !.adjusted[c.target] = @ + 1]
  /\ Change(c, [c EXCEPT !.reply = "ok"])
  /\ UNCHANGED <<page, ui>>

WalletDone(c) ==
  /\ c.op = "wallet"
  /\ ThenLoad(c, Closing({"wallet"}, [Free("wallet") EXCEPT !.entered = {}]))

AdminUsersNext ==
  \/ For("list") /\ \E f \in {"", "active"} : UserSearch(f) \/ UserFilters(f)
  \/ For("list") /\ (RefreshUsers \/ UserPagination)
  \/ UserDetailModal \/ StatusDialog \/ HandleConfirmStatusChange \/ RoleDialog
  \/ WalletModal \/ HandleConfirmWalletAdjust
  \/ ui.detail = 0 /\ Dismiss
  \/ \E row \in ui.rows :
       \/ For("list") /\ HandleOpenUser(row)
       \/ For("status") /\ (HandleOpenUser(row) \/ AskStatus(row))
       \/ For("role") /\ AskRole(row)
       \/ For("wallet") /\ AskWallet(row)
  \/ \E c \in calls :
       \/ ReadRows(c) \/ LoadUsers(c) \/ UserDetailAnswered(c)
       \/ UserStatusChanged(c) \/ StatusDone(c) \/ RoleChanged(c) \/ RoleDone(c)
       \/ WalletAdjusted(c) \/ WalletDone(c)
       \/ c.op \in {"status", "role", "wallet"} /\ Failed(c)
  \/ \E i \in Items \ {SeedAdmin} :
       OthersChange(i, IF db.is[i] = "locked" THEN "active" ELSE "locked")

-----------------------------------------------------------------------------
(* Types of the page's state. *)
AdminUsersTypeOK ==
  /\ DialogTypeOK
  /\ ui.detail \in Items \cup {0}
  /\ db.is \in [Items -> UserState] /\ db.adjusted \in [Items -> 0 .. MaxAdjusted]
=============================================================================
