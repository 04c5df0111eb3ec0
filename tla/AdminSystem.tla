----------------------------- MODULE AdminSystem -----------------------------
(***************************************************************************)
(* The settings of the administrator's panel, AdminSystem.tsx: the pool of *)
(* Locket accounts, the proxies and the token cache as lists, the popup of *)
(* the site, the DNS profile and the maintenance switch.                   *)
(*                                                                         *)
(* A tab is loaded when it is chosen; its form stands there before, with   *)
(* what was left in it, and the answer replaces whatever is in it by then. *)
(* The maintenance form holds all the settings of the site as they were    *)
(* loaded, the popup among them, and saves them all.                       *)
(***************************************************************************)
EXTENDS DialogPage

CONSTANT MaxTexts   \* bound: changes to the forms of the popup and of maintenance

ASSUME AdminSystemAssumption == MaxTexts \in Nat

Subtab == {"accounts", "popup", "proxies", "tokens", "mobileconfig", "settings"}
Lists == {"accounts", "proxies", "tokens"}

(* The popups are numbered: 0 is the form as it is before any answer, 1 what
   the shop had at first, the others are texts typed here. *)
Popup == 0 .. MaxTexts + 1

(* A behaviour is about two tabs, and starts where the first of them is chosen;
   the lists are one set of items. *)
AdminSystemInit ==
  /\ page = "admin system"
  /\ \E errand \in {{"accounts", "tokens"}, {"proxies", "tokens"}, {"popup", "settings"},
                    {"accounts", "mobileconfig"}} :
       db = [is |-> [i \in Items |-> "active"], others |-> 0, errand |-> errand,
             popup |-> 1, maintenance |-> FALSE, profile |-> TRUE]
  /\ ui = [filter |-> "", at |-> 1, of |-> 1, rows |-> {}, loading |-> FALSE,
           dialog |-> NoDialog, entered |-> {}, value |-> "", busy |-> {},
           tab |-> IF "popup" \in db.errand THEN "popup" ELSE "accounts",
           popup |-> 0, texts |-> 0, settings |-> {}, typed |-> FALSE]
  /\ calls = {[CallNo(1, "load", NoList) EXCEPT !.silent = TRUE, !.value = ui.tab]}

-----------------------------------------------------------------------------
(* Tabs and what they show *)

LoadTab(tab) == [Call("load", ui) EXCEPT !.silent = TRUE, !.value = tab]

(* The profile's tab has nothing to load. *)
SelectSubtab(tab) ==
  /\ tab \in db.errand \ {ui.tab} /\ ~Covered
  /\ ui' = [ui EXCEPT !.tab = tab]
  /\ IF tab = "mobileconfig" THEN UNCHANGED calls ELSE Begin(LoadTab(tab))
  /\ UNCHANGED <<page, db>>

ReadTab(c) ==
  /\ c.op = "load" /\ c.reply = "none"
  /\ Change(c, [c EXCEPT
                  !.reply = "ok",
                  !.rows = IF c.value \in Lists THEN RowsAt("", 1) \cup RowsAt("", 2) ELSE {},
                  !.form = CASE c.value = "popup" -> {[popup |-> db.popup, on |-> FALSE]}
                             [] c.value = "settings" ->
                                  {[popup |-> db.popup, on |-> db.maintenance]}
                             [] OTHER -> {}])
  /\ UNCHANGED <<page, ui, db>>

(* An answer is shown where it belongs, whatever tab is in front. *)
LoadData(c) ==
  /\ c.op = "load"
  /\ End(c)
  /\ ui' = IF c.reply = "none" THEN ui
           ELSE CASE c.value = "popup" ->
                       [ui EXCEPT !.popup = (CHOOSE f \in c.form : TRUE).popup]
                  [] c.value = "settings" -> [ui EXCEPT !.settings = c.form]
                  [] OTHER -> [ui EXCEPT !.rows = c.rows]
  /\ UNCHANGED <<page, db>>

ListRow(tab, row) == ui.tab = tab /\ ~Covered /\ row \in ui.rows

(* After success the handler loads the tab it was pressed in. *)
ThenLoadTab(c, tab, u) ==
  /\ c.reply = "ok"
  /\ Change(c, [LoadTab(tab) EXCEPT !.id = c.id])
  /\ ui' = u
  /\ UNCHANGED <<page, db>>

-----------------------------------------------------------------------------
(* The account pool *)

AccountForm == ui.tab = "accounts" /\ ~Covered /\ ~ui.typed
               /\ ui' = [ui EXCEPT !.typed = TRUE] /\ UNCHANGED <<page, calls, db>>

HandleAddAccount == ui.tab = "accounts" /\ ~Covered /\ ui.typed /\ Submit("add account")

ItemAdded(c) ==
  /\ c.op \in {"add account", "add proxy"} /\ c.reply = "none"
  /\ \E i \in Items : db.is[i] = "absent" /\ db' = [db EXCEPT !.is[i] = "active"]
  /\ Change(c, [c EXCEPT !.reply = "ok"])
  /\ UNCHANGED <<page, ui>>

AccountAdded(c) ==
  c.op = "add account" /\ ThenLoadTab(c, "accounts", [Free("add account") EXCEPT !.typed = FALSE])

AskDeleteAccount(row) == ListRow("accounts", row) /\ Open("account", row.id, {}, "")

HandleConfirmDeleteAccount == In({"account"}) /\ Submit("delete account")

(* The shop keeps at least one account: it looks, and then removes. *)
AccountChecked(c) ==
  /\ c.op = "delete account" /\ c.reply = "none"
  /\ db.is[c.target] # "absent" /\ Cardinality(Matching("")) > 1
  /\ Change(c, [c EXCEPT !.reply = "checked"])
  /\ UNCHANGED <<page, ui, db>>

AccountRemoved(c) ==
  /\ c.op = "delete account" /\ c.reply = "checked"
  /\ db' = [db EXCEPT !.is[c.target] = "absent"]
  /\ Change(c, [c EXCEPT !.reply = "ok"])
  /\ UNCHANGED <<page, ui>>

AccountDeleted(c) ==
  /\ c.op = "delete account"
  /\ ThenLoadTab(c, "accounts", Closing({"account"}, Free("delete account")))

-----------------------------------------------------------------------------
(* The proxies *)

ProxyForm == ui.tab = "proxies" /\ ~Covered /\ ~ui.typed
             /\ ui' = [ui EXCEPT !.typed = TRUE] /\ UNCHANGED <<page, calls, db>>

HandleAddProxy == ui.tab = "proxies" /\ ~Covered /\ ui.typed /\ Submit("add proxy")

ProxyAdded(c) ==
  c.op = "add proxy" /\ ThenLoadTab(c, "proxies", [Free("add proxy") EXCEPT !.typed = FALSE])

AskDeleteProxy(row) == ListRow("proxies", row) /\ Open("proxy", row.id, {}, "")

HandleConfirmDeleteProxy == In({"proxy"}) /\ Submit("delete proxy")

ProxyRemoved(c) == c.op = "delete proxy" /\ Executed(c, "absent")

ProxyDeleted(c) ==
  c.op = "delete proxy" /\ ThenLoadTab(c, "proxies", Closing({"proxy"}, Free("delete proxy")))

-----------------------------------------------------------------------------
(* The popup *)

(* A button needs both its text and an address of the site or of https. *)
PopupForm ==
  /\ ui.tab = "popup" /\ ~Covered /\ ui.texts < MaxTexts
  /\ ui' = [ui EXCEPT !.popup = ui.texts + 2, !.texts = @ + 1]
  /\ UNCHANGED <<page, calls, db>>

PopupPreview == ui.tab = "popup" /\ Open("preview", 0, {}, "")

HandleSavePopup ==
  /\ ui.tab = "popup" /\ ~Covered /\ "save popup" \notin ui.busy
  /\ Begin([Call("save popup", ui) EXCEPT !.form = {[popup |-> ui.popup, on |-> FALSE]}])
  /\ ui' = [ui EXCEPT !.busy = @ \cup {"save popup"}]
  /\ UNCHANGED <<page, db>>

PopupSaved(c) ==
  /\ c.op = "save popup" /\ c.reply = "none"
  /\ \E f \in c.form : db' = [db EXCEPT !.popup = f.popup]
  /\ Change(c, [c EXCEPT !.reply = "ok"])
  /\ UNCHANGED <<page, ui>>

-----------------------------------------------------------------------------
(* The DNS profile *)

ChooseProfile ==
  /\ ui.tab = "mobileconfig" /\ ~Covered
  /\ ui' = [ui EXCEPT !.typed = TRUE]
  /\ UNCHANGED <<page, calls, db>>

HandleUploadMobileconfig ==
  ui.tab = "mobileconfig" /\ ~Covered /\ ui.typed /\ Submit("upload")

AskDeleteProfile == ui.tab = "mobileconfig" /\ Open("profile", 0, {}, "")

HandleConfirmDeleteMobileconfig == In({"profile"}) /\ Submit("delete profile")

ProfileChanged(c) ==
  /\ c.op \in {"upload", "delete profile"} /\ c.reply = "none"
  /\ db' = [db EXCEPT !.profile = c.op = "upload"]
  /\ Change(c, [c EXCEPT !.reply = "ok"])
  /\ UNCHANGED <<page, ui>>

ProfileDone(c) ==
  /\ c.op \in {"upload", "delete profile"} /\ c.reply = "ok"
  /\ End(c)
  /\ ui' = IF c.op = "upload" THEN [Free("upload") EXCEPT !.typed = FALSE]
           ELSE Closing({"profile"}, Free("delete profile"))
  /\ UNCHANGED <<page, db>>

-----------------------------------------------------------------------------
(* Maintenance: the switch changes the settings that were loaded; without
   them it makes some that have no popup (0). *)
SettingsForm(on) ==
  /\ ui.tab = "settings" /\ ui.texts < MaxTexts
  /\ ui' = [ui EXCEPT !.texts = @ + 1, !.settings = IF @ = {} THEN {[popup |-> 0, on |-> on]}
                                   ELSE {[s EXCEPT !.on = on] : s \in @}]
  /\ UNCHANGED <<page, calls, db>>

HandleSaveSettings ==
  /\ ui.tab = "settings" /\ "save settings" \notin ui.busy
  /\ Begin([Call("save settings", ui) EXCEPT !.form = ui.settings])
  /\ ui' = [ui EXCEPT !.busy = @ \cup {"save settings"}]
  /\ UNCHANGED <<page, db>>

SettingsSaved(c) ==
  /\ c.op = "save settings" /\ c.reply = "none"
  /\ IF c.form = {} THEN UNCHANGED db
     ELSE \E s \in c.form :
            db' = [db EXCEPT !.maintenance = s.on,
                             !.popup = IF s.popup = 0 THEN @ ELSE s.popup]
  /\ Change(c, [c EXCEPT !.reply = "ok"])
  /\ UNCHANGED <<page, ui>>

(* The two forms stay as they are, with a word of success. *)
FormSaved(c) ==
  /\ c.op \in {"save popup", "save settings"} /\ c.reply = "ok"
  /\ Failed(c)

AdminSystemNext ==
  \/ \E tab \in Subtab : SelectSubtab(tab)
  \/ \E on \in BOOLEAN : SettingsForm(on)
  \/ AccountForm \/ HandleAddAccount \/ HandleConfirmDeleteAccount
  \/ ProxyForm \/ HandleAddProxy \/ HandleConfirmDeleteProxy
  \/ PopupForm \/ PopupPreview \/ HandleSavePopup
  \/ ChooseProfile \/ HandleUploadMobileconfig
  \/ AskDeleteProfile \/ HandleConfirmDeleteMobileconfig \/ HandleSaveSettings \/ Dismiss
  \/ \E row \in ui.rows : AskDeleteAccount(row) \/ AskDeleteProxy(row)
  \/ \E c \in calls :
       \/ ReadTab(c) \/ LoadData(c) \/ ItemAdded(c) \/ AccountAdded(c)
       \/ AccountChecked(c) \/ AccountRemoved(c) \/ AccountDeleted(c)
       \/ ProxyAdded(c) \/ ProxyRemoved(c) \/ ProxyDeleted(c)
       \/ PopupSaved(c) \/ ProfileChanged(c) \/ ProfileDone(c)
       \/ SettingsSaved(c) \/ FormSaved(c)
       \/ c.op # "load" /\ Failed(c)

-----------------------------------------------------------------------------
(* Types of the page's state. *)
AdminSystemTypeOK ==
  /\ DialogTypeOK
  /\ ui.tab \in db.errand \cup {"accounts"} /\ ui.popup \in Popup
  /\ ui.settings \subseteq [popup : Popup, on : BOOLEAN]
  /\ db.popup \in Popup /\ db.maintenance \in BOOLEAN
=============================================================================
