------------------------------- MODULE Wallet -------------------------------
(***************************************************************************)
(* The wallet of the dashboard, WalletView.tsx: the balance, the form that *)
(* asks for a top-up, its QR panel with the poll of usePaymentPolling, and *)
(* the ledger.  Closing the panel stops neither a read of the status nor a *)
(* renewal under way.                                                      *)
(*                                                                         *)
(* Items are the payments of the shop in the order they are made; db.is    *)
(* tells which of them the ledger has.                                     *)
(***************************************************************************)
EXTENDS ListPage

CONSTANT Amounts    \* what the customer may enter

ASSUME WalletAssumption == Amounts \subseteq Nat /\ Amounts # {}

TopupStatus == {"pending", "paid", "expired", "cancelled"}
NoTopup == [pay |-> 0, amount |-> 0, status |-> "pending"]
NoAttempt == [key |-> 0, amount |-> 0]

(* A customer who tops up begins when the empty ledger has been read, one who
   looks begins while it is. *)
WalletInit ==
  /\ page = "wallet"
  /\ \E errand \in {"top up", "look"} :
       db = [is |-> [i \in Items |-> "absent"], pays |-> <<>>, keys |-> <<>>,
             wish |-> 0, wishes |-> 0, errand |-> errand]
  /\ ui = [filter |-> "", at |-> 1, of |-> 1, rows |-> {}, loading |-> For("look"),
           amount |-> CHOOSE a \in Amounts : TRUE, topup |-> NoTopup, attempt |-> NoAttempt,
           creating |-> FALSE, renewing |-> FALSE, thanked |-> {}, balance |-> 0,
           counting |-> FALSE]
  /\ calls = IF For("look") THEN {CallNo(1, "load", NoList)} ELSE {}

-----------------------------------------------------------------------------
(* The form *)

(* A quick option, or a number typed; nothing typed is no amount. *)
TopupForm(amount) ==
  /\ amount \in Amounts \ {ui.amount}
  /\ ui' = [ui EXCEPT !.amount = amount]
  /\ UNCHANGED <<page, calls, db>>

(* The key of the last attempt serves again for the same amount, whatever
   became of the attempt.  Beside the key stands which wish it is for: a wish
   ends with the panel, or with another amount asked for. *)
HandleCreateTopup ==
  /\ ~ui.creating /\ ui.amount > 0
  /\ LET again == ui.attempt.amount = ui.amount
         key == IF again THEN ui.attempt.key ELSE Len(db.keys) + 1
         wish == IF db.wish = ui.amount THEN db.wishes ELSE db.wishes + 1
     IN  /\ key \leq Cardinality(Items)     \* bound
         /\ Begin([Call("create", ui) EXCEPT !.target = key, !.of = ui.amount])
         /\ ui' = [ui EXCEPT !.creating = TRUE,
                             !.attempt = [key |-> key, amount |-> ui.amount]]
         /\ db' = [db EXCEPT !.wish = ui.amount, !.wishes = wish,
                             !.keys = IF again THEN @
                                      ELSE Append(@, [amount |-> ui.amount, wish |-> wish])]
  /\ UNCHANGED page

(* The shop: the payment it has for the key, or a new one.  A request the page
   gave up on is executed all the same. *)
MadeWith(key) == {p \in DOMAIN db.pays : db.pays[p].key = key}

TopupCreated(c) ==
  /\ c.op = "create" /\ c.reply = "none"
  /\ IF MadeWith(c.target) # {} THEN UNCHANGED db
     ELSE /\ Len(db.pays) < Cardinality(Items)
          /\ db' = [db EXCEPT !.pays = Append(@, [key |-> c.target, amount |-> c.of,
                                                 status |-> "pending", from |-> 0])]
  /\ IF c.silent THEN End(c) ELSE Change(c, [c EXCEPT !.reply = "ok"])
  /\ UNCHANGED <<page, ui>>

(* Shown as pending, whatever it is. *)
CreateAnswered(c) ==
  /\ c.op = "create" /\ c.reply = "ok"
  /\ End(c)
  /\ \E p \in MadeWith(c.target) :
       ui' = [ui EXCEPT !.creating = FALSE,
                        !.topup = [pay |-> p, amount |-> c.of, status |-> "pending"]]
  /\ UNCHANGED <<page, db>>

CreateFailed(c) ==
  /\ c.op = "create" /\ ~c.silent
  /\ \/ End(c)
     \/ c.reply = "none" /\ Change(c, [c EXCEPT !.silent = TRUE])
  /\ ui' = [ui EXCEPT !.creating = FALSE]
  /\ UNCHANGED <<page, db>>

-----------------------------------------------------------------------------
(* The QR panel *)

TopupShown == ui.topup.pay # 0

CloseTopupPanel ==
  /\ TopupShown
  /\ ui' = [ui EXCEPT !.topup = NoTopup, !.attempt = NoAttempt]
  /\ db' = [db EXCEPT !.wish = 0]
  /\ UNCHANGED <<page, calls>>

(* The read of the hook, one at a time, while the payment is shown as pending,
   and once more when the countdown ends. *)
CheckTopupStatus ==
  /\ TopupShown /\ \A c \in calls : c.op # "poll"
  /\ ui.topup.status = "pending" \/ db.pays[ui.topup.pay].status = "expired"
  /\ Begin([Call("poll", ui) EXCEPT !.target = ui.topup.pay])
  /\ UNCHANGED <<page, ui, db>>

ReadTopup(c) ==
  /\ c.op = "poll" /\ c.reply = "none"
  /\ Change(c, [c EXCEPT !.reply = "ok", !.value = db.pays[c.target].status])
  /\ UNCHANGED <<page, ui, db>>

(* The answer goes to the panel shown by then, if one is; thanks are said once
   for a payment, balance and ledger are read whenever it is answered as paid. *)
TopupStatusChange(c) ==
  /\ c.op = "poll" /\ c.reply = "ok"
  /\ LET u == IF ~TopupShown THEN ui
              ELSE [ui EXCEPT !.topup.pay = c.target, !.topup.status = c.value]
         rest == calls \ {c}
         reads == [CallNo(IdBeside(rest), "balance", u) EXCEPT !.silent = FALSE]
         ledger == [Load(u, FALSE, "") EXCEPT !.id = IdBeside(rest \cup {reads}), !.at = 1]
     IN  IF c.value = "paid"
         THEN /\ Cardinality(rest) + 2 \leq MaxCalls
              /\ calls' = rest \cup {reads, ledger}
              /\ ui' = [u EXCEPT !.thanked = @ \cup {c.target}, !.counting = TRUE,
                                 !.loading = TRUE]
         ELSE calls' = rest /\ ui' = u
  /\ UNCHANGED <<page, db>>

PollFailed(c) == c.op = "poll" /\ End(c) /\ UNCHANGED <<page, ui, db>>

(* The panel offers a new code for one that lapsed, by its status or by the
   countdown. *)
TopupLapsed ==
  \/ ui.topup.status \in {"expired", "cancelled"}
  \/ ui.topup.status = "pending" /\ db.pays[ui.topup.pay].status = "expired"

HandleRenewTopup ==
  /\ TopupShown /\ TopupLapsed /\ ~ui.renewing
  /\ Begin([Call("renew", ui) EXCEPT !.target = ui.topup.pay])
  /\ ui' = [ui EXCEPT !.renewing = TRUE]
  /\ UNCHANGED <<page, db>>

(* The shop: another payment for a lapsed one, but only one; asked again it
   answers with the one it made, whatever became of that. *)
TopupRenewed(c) ==
  /\ c.op = "renew" /\ c.reply = "none"
  /\ LET renewal == {p \in DOMAIN db.pays : db.pays[p].from = c.target}
     IN  \/ \E p \in renewal :
              /\ Change(c, [c EXCEPT !.reply = "ok", !.of = p, !.value = db.pays[p].status])
              /\ UNCHANGED db
         \/ /\ renewal = {} /\ db.pays[c.target].status \in {"expired", "cancelled"}
            /\ Len(db.pays) < Cardinality(Items)
            /\ db' = [db EXCEPT !.pays = Append(@, [@[c.target] EXCEPT
                                   !.key = 0, !.status = "pending", !.from = c.target])]
            /\ Change(c, [c EXCEPT !.reply = "ok", !.of = Len(db'.pays), !.value = "pending"])
  /\ UNCHANGED <<page, ui>>

(* Where the panel was closed meanwhile there is no amount to go on with, and
   the page is lost: the panel fails to render. *)
RenewAnswered(c) ==
  /\ c.op = "renew" /\ c.reply = "ok"
  /\ End(c)
  /\ ui' = [ui EXCEPT !.renewing = FALSE,
                      !.topup.pay = c.of, !.topup.status = c.value]
  /\ page' = IF TopupShown THEN page ELSE "blank"
  /\ UNCHANGED db

RenewFailed(c) ==
  /\ c.op = "renew"
  /\ End(c)
  /\ ui' = [ui EXCEPT !.renewing = FALSE]
  /\ UNCHANGED <<page, db>>

-----------------------------------------------------------------------------
(* Balance and ledger *)

BalanceCard ==
  /\ Begin([Call("balance", ui) EXCEPT !.silent = TRUE])
  /\ UNCHANGED <<page, ui, db>>

ReadBalance(c) ==
  /\ c.op = "balance" /\ c.reply = "none"
  /\ Change(c, [c EXCEPT !.reply = "ok", !.of = Cardinality(Matching(""))])
  /\ UNCHANGED <<page, ui, db>>

BalanceAnswered(c) ==
  /\ c.op = "balance"
  /\ End(c)
  /\ ui' = [ui EXCEPT !.balance = IF c.reply = "ok" THEN c.of ELSE @,
                      !.counting = @ /\ c.silent]
  /\ UNCHANGED <<page, db>>

RefreshLedger == Loading(ui, "") /\ UNCHANGED <<page, db>>

LedgerShown == IF ui.loading THEN {} ELSE ui.rows

LedgerPages(to) ==
  /\ LedgerShown # {}
  /\ to \in (1 .. ui.of) \cap {ui.at - 1, ui.at + 1}
  /\ Refilter([ui EXCEPT !.at = to])
  /\ UNCHANGED <<page, db>>

LoadTransactions(c) == ShowRows(c, [ui EXCEPT !.loading = FALSE])

(* The bank pays, even after time ran out, or an administrator rejects. *)
TopupMoves(p, to) ==
  /\ p \in DOMAIN db.pays
  /\ \/ db.pays[p].status = "pending" /\ to # "pending"
     \/ db.pays[p].status = "expired" /\ to = "paid"
  /\ db' = [db EXCEPT !.pays[p].status = to,
                      !.is[p] = IF to = "paid" THEN "topup" ELSE @]
  /\ UNCHANGED <<page, ui, calls>>

WalletNext ==
  \/ For("top up") /\ \E amount \in Amounts : TopupForm(amount)
  \/ For("top up") /\ HandleRenewTopup
  \/ HandleCreateTopup \/ CloseTopupPanel \/ CheckTopupStatus
  \/ For("look") /\ (BalanceCard \/ RefreshLedger \/ \E to \in 1 .. ui.of : LedgerPages(to))
  \/ \E c \in calls :
       \/ TopupCreated(c) \/ CreateAnswered(c) \/ CreateFailed(c)
       \/ ReadTopup(c) \/ TopupStatusChange(c) \/ PollFailed(c)
       \/ TopupRenewed(c) \/ RenewAnswered(c) \/ RenewFailed(c)
       \/ ReadBalance(c) \/ BalanceAnswered(c) \/ ReadRows(c) \/ LoadTransactions(c)
  \/ \E p \in Items : \E to \in TopupStatus : TopupMoves(p, to)

-----------------------------------------------------------------------------
(* Types of the page's state. *)
WalletTypeOK ==
  /\ ui.amount \in Amounts /\ ui.topup.pay \in 0 .. Len(db.pays)
  /\ ui.topup.status \in TopupStatus /\ ui.attempt.key \in 0 .. Len(db.keys)
  /\ ui.thanked \subseteq Items /\ ui.balance \in 0 .. Cardinality(Items)

(* Spinners and disabled buttons of the wallet belong to calls under way. *)
WalletWaits ==
  /\ ui.loading => \E c \in calls : c.op = "load"
  /\ ui.creating => \E c \in calls : c.op = "create" /\ ~c.silent
  /\ ui.renewing => \E c \in calls : c.op = "renew"
  /\ ui.counting => \E c \in calls : c.op = "balance" /\ ~c.silent

(* "Coins were added" is said only of payments the ledger has, whatever panel
   the answer arrives at. *)
ThankedWhenCredited == \A p \in ui.thanked : db.is[p] # "absent"

(* One wish, one key: however often a top-up is asked for again after a lost
   answer, the shop makes one payment for it. *)
OneTopupPerWish ==
  /\ \A j, k \in DOMAIN db.keys : db.keys[j].wish = db.keys[k].wish => j = k
  /\ \A p \in DOMAIN db.pays :
       db.pays[p].key # 0 => db.pays[p].amount = db.keys[db.pays[p].key].amount
=============================================================================
