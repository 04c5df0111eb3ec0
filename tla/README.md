# A model of the shop: orders, payments, the provider outbox and the web front end

The repository is a shop that sells Locket Gold activations.  A customer pays
with coins from a wallet or by a VietQR bank transfer; the order is then
fulfilled by a third-party provider (LunaKey), by the shop's own queue of
restore workers, by an administrator, or by a download.  The server is Flask
on one SQLite file.  Every change of state is a statement or a
`BEGIN IMMEDIATE` transaction, so the database serialises single writes; what
is hard is everything *between* two writes: a request handler that goes on with
what it read, a worker thread that waits for the network, a process that dies,
a bank that reports late, an administrator who acts at the same time.

The customers and administrators sit before a React front end
(`src/frontend/src`), most of the code.  It is one thread, but every handler
that awaits the server is cut at its awaits: other handlers, timers and late
answers run in between, and a request it gave up on may still be executed.

These modules model both.  On the server: the parts that hold the money, the
orders and the sessions.  In the browser: every page that changes or follows
something, handler by handler.  TLC checks small instances, and TLAPS proves the
safety properties the runs check, and that the outbox implements its abstract
specification, for every value of the constants; what is left to TLC is liveness.

Python sources below are under `src/backend/locket/`, TypeScript sources under
`src/frontend/src/`.

## Inventory

| component | state | operations | interacts with |
|---|---|---|---|
| **Provider outbox** (`provider_worker.py`, `lunakey_service.py`, `providers/lunakey.py`, `db.py` 4915-5400) | `provider_jobs`: status, lease owner and expiry, attempts, first send, replay deadline, last outcome, next attempt; the pause flag in `site_settings`; worker threads | create, claim, call, finalize, maintenance (reclaim, exhaust, unreplayable, recover), retry, reconcile, refund, pause | the provider (HTTP), activation orders, wallets |
| **Activation orders** (`db.py` 3029-3900) | `activation_orders.status` and its links | `update_activation_order_status`, the manual-order endpoints, two refund endpoints, the writes in every other component | everything |
| **Payments by transfer** (`payment_service.py`, `sepay_webhook.py`, `db.py` 2514-3024, `public/routes.py` 1227-2090) | `payment_orders`: status, transfer code, bank transaction, expiry, the payment it renews | create, webhook, confirm, override, reject, status read, cancel, renew | the bank, orders, wallets, coupons |
| **Transfer codes** (`payment_service.py` 110-166) | none of their own: `payment_orders` of the last day | allocate | payments |
| **Coupons** (`coupon_service.py`, `db.py` 4479-4900) | `coupon_redemptions`: reserved, redeemed, released | quote, sweep, reserve, redeem, release, return to a renewal | payments, coin purchases |
| **Wallets and coin purchase** (`db.py` 2239-2400, 3045-3300) | `wallets.balance_coin`, `wallet_transactions` with idempotency keys | purchase, top-up, refund, adjust | orders, payments, coupons |
| **Legacy restore queue** (`queue_manager.py`, `db.py` 557, `rotator.py`) | `queue_requests`, one worker thread per account slot | enqueue, work, finish, reset at start | orders |
| **User sessions** (`user_auth.py`, `token_auth.py`, `db.py` 1150-1330, `src/frontend/src/api/client.ts`) | `auth_sessions`, `refresh_tokens`; the browser's cookie and lock | issue, rotate, detect replay, revoke, disable the account | the administrator |
| **Reviews and images** (`reviews.py`, `image_storage.py`) | `reviews`, `review_images`, files on disk | create, update, delete, each in files, rows, files | the review form |
| **Checkout** (`pages/dashboard/ActivationWizard.tsx`, `PlanCatalog.tsx`, `components/payment/`, `hooks/usePaymentPolling.ts`) | the step, the form, the coupon, the lookup's token, the QR code with its poll, idempotency keys | choose, look up, confirm, coupon, pay, poll, renew, cancel, back | payments, coins, lookups |
| **Customer pages** (`DashboardPage.tsx`, `OrdersView.tsx`, `WalletView.tsx`, `FeedbackView.tsx`, the last step of the wizard) | rows read, panels, polls, what was announced | read, refresh, top up, download, review | orders, wallets, reviews |
| **Administrator's pages** (`pages/admin/*`) | lists with filter and page, dialogs with what was entered, flags of handlers | load, refresh, open, submit | every endpoint of `admin_api.py` |
| **Download tickets, provider lookups** | single-use rows | create, claim | orders |
| **Accounts, tokens, proxies, HTTP helpers, creators, plans, site settings, notifications** | tables of their own, edited row by row | create, read, update, delete | the administrator's pages |

What makes each of the first components correct, and hard:

* *Provider outbox.*  An activation costs money and cannot be taken back.  A
  request whose answer is lost may have been executed, or may still be under
  way; a lease may run out under a slow call, and a second thread takes the row
  over; the process may die between the claim and the result; the
  administrator may retry, reconcile or refund in between.  It is correct when
  an order is not activated twice, when an outcome that allows a refund is the
  truth, when job and order agree, when evidence of a success is never lost,
  when coins come back at most once, and when a paid order never gets stuck
  without anybody seeing it.
* *Payments.*  The bank reports a transfer late, repeatedly, after the payment
  expired, after its code was renewed, or after an administrator booked it by
  hand; status reads and cancellations close a payment in a transaction that
  comes after the read that justified it; two tabs renew one payment.  It is
  correct when what is fulfilled is paid for, when what was booked has its
  effect exactly once and stays booked, when a transfer reaches the payment it
  was made for although there are only a thousand codes, and when a coupon
  counts exactly while it is paid for or may be.
* *Coupons.*  The quota of a reservation is given back when the payment lapses
  and taken again when the payment is renewed, or when its money arrives after
  all.
* *Wallets.*  No coin is spent or credited twice, by two tabs or by a repeated
  request; the creation of the provider's job afterwards, which a worker may
  attempt too, keeps one request id.
* *Checkout.*  Each answer finds a page that went on: the lookup of another name,
  the poll of a payment that was renewed, the QR code of a form that has
  changed.  It is correct when what is bought is what was confirmed, when a
  wish that is sent again is one purchase, and when the page announces only
  what was paid.
* *Pages and dialogs.*  A dialog is closed and opened for something else while its
  handler is under way.  They are correct when nothing is submitted for an item
  it was not entered for, when what they tell is or was true, and when nothing
  waits for ever.
* *Reviews.*  A handler stores files, commits rows and deletes files, beside
  another one and with a process that may die: a review has its images.
* *Restore queue.*  A restart resets rows that were being processed; the queue
  row and its order are finished in two transactions; a full queue refuses
  silently.
* *Sessions.*  A refresh spends a token and mints its successor; a spent token
  that comes back revokes the family.  The tabs of one browser share the
  cookie, so they must not refresh at the same time (they take a Web Lock), and
  a refresh the browser gave up on goes on at the server.  Handlers read before
  they write, and revoke in two statements.

The hazards, each at its line and with the property that covers it or the
reason why none does, are listed in `PROJECT.json`.

## Modules

```
ActivationOrders          the transition table of orders
  |-- ProviderOutbox      jobs, threads, maintenance, admin, provider, restarts
  |     |-- ActivationPromise (INSTANCE)       what a provider order promises
  |     |-- ProviderOutboxProofs               type correctness, safety, the outbox
  |     |                                      keeps the promise
  |     `-- MCProviderOutbox                   four runs
  |-- Payments            payments, codes, coupons, bank, admin, renewals
  |     |-- PaymentsProofs                     types, money, coupon, codes
  |     `-- MCPayments                         three runs
  `-- RestoreQueue        queue rows, account pool, worker threads, scripts
        |-- RestoreQueueProofs                 types, rows, orders
        `-- MCRestoreQueue                     two runs

CoinPurchase              wallet, ledger, purchases with coins, creation of jobs
  |-- CoinPurchaseProofs                       types, request ids, charges
  `-- MCCoinPurchase                           one run

AuthSessions              refresh token families, the browser's tabs
  |-- AuthSessionsProofs                       types, chains, revocation, no false
  |                                            alarm, signed out
  `-- MCAuthSessions                           one run

Checkout                  plan, lookup, payment step, QR code, poll
  `-- CheckoutProofs                           lookup, one order per wish, paid
                                               when completed, types
Browser                   one page, its state, its calls, the shop
  |-- OrderProgress       the last step of a purchase
  |-- Reviews             the review form and reviews.py
  `-- ListPage            rows, filter, page number, quiet refresh
        |-- Wallet        balance, top-up, ledger
        |-- Dashboard     news of completed orders, request for a review
        `-- DialogPage    dialogs and the handlers that submit them
              |-- OrdersView
              |-- AdminOrders, AdminPayments, AdminUsers, AdminCoupons,
              |   AdminPlans, AdminSystem
              `-- AdminLists   reviews, creators, log, figures

Frontend                  all pages behind one another (extends them all)
  |-- FrontendProofs                           pages tell the truth, submit what was
  |     (extends CheckoutProofs)               entered, wait for calls, keep images
  |     `-- FrontendTypes                      types of every page
  `-- MCFrontend                               one run
```

### ActivationOrders

`VALID_ACT_TRANSITIONS` of `db.py` as the relation `TransitionOk`, and the set of
statuses.  The three modules with orders extend it; each has the orders of its
own kind (provider, transfer or manual, legacy queue), which share nothing but
this table and the customer's wallet.

### ProviderOutbox

One action is one statement, one transaction, or one step of a thread outside
the database.

| state | in the code |
|---|---|
| `order[o]` | `activation_orders.status` of a provider order |
| `job[o]` | its `provider_jobs` row; `leaseOver`, `replay` and `due` are the comparisons of its times with the clock, which is all the code does with them |
| `worker[w]` | a thread of `ProviderWorker`: its place in `tick` and `_process`, the order and the verdict it holds |
| `funded`, `credits` | coins taken for the order or its own payment booked, and the refund keys in `wallet_transactions` |
| `superseded` | the payments that renewals of the order replaced: none, not booked, or one booked |
| `paused` | the provider's flag in `site_settings` |
| `dispatching`, `retrying` | handlers between payment and job, and between pause check and retry |
| `late`, `delivered` | requests the client gave up on that are still under way, and executions by the provider |

`Sale` (the payment of an order, whose detail is in `Payments`), `Dispatch`,
then the thread: `BeginMaintenance`, `Reclaim`, `ExpireExhausted`,
`ExpireUnreplayable`, `FindMissing`, `RecoverOne`, `CheckPaused`, `Claim`,
`Send`, the four kinds of answer, `PauseProvider` and the six ways to finalize;
`ResetForRetry`, `Reconcile`, `RefundCoin`, `RefundManual`, `SetPaused`; the
passing of time; `Restart`.  The provider is external: it executes a request at
most once inside the confirmed replay window of its request id, and may take a
repetition for a new request outside.

### ActivationPromise

What the shop promises of an order, without jobs or threads: unpaid, open,
failed, delivered or returned, and whether a success is known.  Delivery and
evidence are recorded together, evidence is never erased, an order with
evidence is never written off, and what is delivered or returned stays so.
`Promise` in ProviderOutbox is the refinement mapping.

### Payments

| state | in the code |
|---|---|
| `pay[p]` | the `payment_orders` row; `overdue` is `expires_at < now`, `cooled` says that its last write is older than the reuse delay of codes |
| `order[o]` | the activation order created with payment `o`, and the payment it is linked to now |
| `redemption[o]`, `coinUses` | the `coupon_redemptions` rows of transfer and of coin purchases |
| `ledger` | the `topup` entries of `wallet_transactions` |
| `transfer[t]` | the bank's side of a transfer: the payment the customer meant, whether its date lies in that payment's window, whether the bank may still report it |
| `closing`, `renewing`, `dispatching` | handlers between the read that justified them and their transaction |

`CreateTopup`, `CreatePlanPayment`, `CoinPurchase`, `Quote`; `Webhook`,
`AdminConfirm` (confirmation and override), both ending in `Confirm`, that is
`confirm_payment_order_tx` with its two outcomes `Settled` and `TooLate`;
`DispatchPaid`; `ReadToClose` and `Close` for the status read and the
cancellation, `AdminReject`; `BeginRenewal`, `Renew`, `RenewRefused`; the
later life of the order (`Activation`, `ManualStep`, `ManualCancel`,
`RefundManual`); `Overdue`, `Cools`, `Restart`.

The sales of ProviderOutbox correspond to these: `PaymentConfirmed` is a
`Settled` of a linked provider order, `SupersededConfirmed` one of a payment that
a renewal has replaced and that no order is linked to, `PaymentLapses` a `Closes`
or `TooLate`, `PaymentRenewed` a `Renew`.

Abstractions, and why they lose nothing the properties look at:

* The amount of a transfer is exactly that of the payment.  `_process_payment`
  acknowledges any other amount without a write.  The statuses `underpaid` and
  `review_needed` are never written by the code.
* The webhook finds the payment in a read before its transaction.  The model
  makes one action of both: of what was read, only the id, the creation and the
  expiry are used afterwards, and none of them ever changes.
* There is one coupon and one customer, so the two limits of a coupon are one.
* The clock a transaction uses is read just before it begins; the busy timeout
  of at most five seconds in between is ignored.
* `Cools` (a day after the last write, by default) is later than any request in
  progress and any report of a transfer with that code, and a customer does not
  pay with a QR code that is a day old.  This is an assumption about the bank
  and about the customer, made in the guards of `Cools` and `MakeTransfer`.
* The check that a payment belongs to the customer who asks guards nothing that
  changes here, with one customer.
* `renew_payment_order_tx` and `sweep_expired_pending_payments` have no caller
  outside the tests and are left out.

### RestoreQueue

| state | in the code |
|---|---|
| `order[o]` | an order of the legacy provider: status, whether it was paid with Coin, whether `queue_client_id` is set |
| `row[r]`, `line` | `queue_requests`: the status of each row, and the live rows by `added_at` |
| `slot[s]`, `worker[s]` | the accounts of the pool and the thread of each: its place in `_process_queue` and `_process_request`, the row it holds, what it will write, its stop event |
| `granted` | the customers for whom RevenueCat records the entitlement |
| `returned` | the idempotency keys under which `wallet_transactions` has a refund of the order |
| `unsent`, `removing` | handlers between a sale and its dispatch, and between the check of an account removal and the removal |
| `lost`, `scripted`, `mishaps` | history: orders whose status write failed, whether a script reset the rows, and the count that bounds both |

`Sell`, `RetryPurchase`, `Dispatch` (with `Enqueue`, the whole of
`add_to_queue`), `Visit`, the two refund endpoints `Refund` (of coins) and
`RefundManual` (which asks neither who fulfills the order nor how it was paid);
the worker: `Loop`, `Claim`,
`ClaimNothing`, `MarkProcessing`, `Serve`, `Grant`, `Answer`, `FinalizeRow`,
`SettleOrder`; the statements that fail: `ClaimFails`, `MarkFails`,
`FinalizeFails`, `SettleFails`; `AddSlot`, `CheckRemoval`, `RemoveSlot`;
`Restart` and `ScriptRuns`, which both run the reset of `db.init()`.

Abstractions:

* The read of `dispatch_paid_activation_order` is one action with the
  transaction of `add_to_queue`, which decides again whatever the read decided.
* A visitor of `/api/restore` is a row without an order.  A later request of the
  same account is a new row; it takes the place of the old one in the model.
* An entitlement in `granted` may be an old one: the worker cannot tell either.
  A restore that the client gave up on and that succeeds upstream later is not
  modelled.
* How long ended rows are kept is abstracted: `ClaimNothing` may remove any set
  of them.

### AuthSessions

| state | in the code |
|---|---|
| `session[f]` | an `auth_sessions` row: absent, open, or revoked, with replay told apart from the other reasons |
| `family[t]`, `spent` | the `refresh_tokens` rows; `spent` are those with `used_at` or `revoked_at`, which the code never tells apart |
| `expired`, `active` | comparisons with `expires_at`, which a family and its tokens share; `users.is_active` |
| `request[r]` | a handler: its place, its token or family, and whether a tab waits for its answer, inside the refresh lock or without it |
| `admin` | the handler that disables the account or changes its role |
| `cookie`, `known` | what the browser holds: the refresh cookie all tabs share, and the families of which a tab has an access token |
| `lost`, `slipped` | history: a refresh was given up; a sign-in or a crash overlapped with the revocation of all sessions |

A sign-in is `BeginLogin`, `OpenSession`, `StoreToken`; a refresh `BeginRefresh`,
`CheckRefresh` (the reads), `Rotate` or `RotationFails` (the transaction),
`FetchUser`; a revocation `RevokeSession`, `RevokeTokens`, begun by a refresh,
by `BeginLogout` or by `AccessExpired`; `Hear` is the answer that sets or clears
the cookie, `Abandon` the tab that no longer waits.  The administrator:
`Deactivate`, `ChangeRole`, `Activate`, `SelectSessions`, `RevokeChosen`,
`RevokeChosenTokens`.

Abstractions: one customer with one browser, whose tabs are the waiting
requests.  Every tab supports Web Locks.  The two reads of
`rotate_refresh_token` are one action; the transaction reads both rows again.
Passwords, Google, CSRF and rate limits decide only whether a handler starts.

### CoinPurchase

| state | in the code |
|---|---|
| `balance`, `ledger` | `wallets.balance_coin` and `wallet_transactions` of one customer |
| `orders` | `activation_orders` bought with coins: what was asked for, its key, its status, `provider_request_id` |
| `job` | the `provider_request_id` of each order's `provider_jobs` row |
| `handler[h]` | a thread: before its transaction, on its way to dispatch, between the statements of `ensure_provider_job_for_order` |
| `minted` | request ids made so far |

`ReceivePurchase` (the checks of the route), `Charge` (the whole of
`purchase_plan_with_coin_atomic`), `EnsureProviderJob`, `CreateProviderJob`,
`NameRequest`, `RecoverMissingJob`, `Dies`; `OrderEnds`, `RetryJob`, `RefundCoin`
and `AdjustWallet`.  A plan's stock, platform and provider decide only whether a
purchase is refused before any write, and are left out.  The database also
refuses a second row with a key and a negative balance; the model relies on the
checks of the code alone.

### Checkout

| state | in the code |
|---|---|
| `step`, `form`, `info`, `looking`, `popup` | the wizard's step; plan, platform, mode, name, contact, coupon, token; the profile shown; the plan whose details are open |
| `lookups` | `handleLunakeyLookup` and `handleCheckUsername` under way; `current` is `lookupSeqRef` being what they captured |
| `charge`, `coinTry`, `qrTry`, `autoSig` | the purchase under way; the refs with the key and signature of the last attempt, and the signature the QR effect ran with |
| `task` | a handler that closes the QR code (coupon, coins, back) |
| `qr`, `watch`, `poll`, `renewing` | the order of the QR panel, the status the polling hook has, its read, the renewal |
| `orders`, `pays`, `minted`, `late` | the shop: orders, payments, lookup tokens, and requests given up on that may still be executed |
| `keys`, `pressed`, `turn` | keys minted; history: the form last sent and whether it was changed since |

Each handler is sent, executed and answered in steps of its own, and `Next` lets
the effect that creates a QR code by itself run before any other event.  The
shop's side is what Payments and CoinPurchase have in detail.

### The other pages

`Browser` has the four variables all other pages share: the page, its state `ui`,
its calls, and `db`, what the shop has of it.  A call carries what its handler
captured.  `ListPage` has the loads with a filter and a page number and the quiet
refresh of `useLiveRefresh`, `DialogPage` the dialogs; in a call beside the target
goes the item its input was entered for, which the code does not keep.  In
OrderProgress, `db.was` is history: the states a provider's order has had.  Each page
module says which handler loads, opens, closes and submits what, which button
is disabled when, and how the shop answers.

A behaviour is about one page: leaving it unmounts it and its answers go
nowhere.  It is about one errand (`db.errand`), the quiet refresh and other people's
changes besides: handlers of one page meet in its dialog, its flags and its
list, and those are what an errand has.  Wording, layout, sorting, charts and
the formatting of dates and amounts are left out; a filter is one choice, and
search text is abstracted into it.

`Reviews` has both sides: the form with `useReviews`, and the handlers of
`reviews.py` cut between the files, the rows and the files again.

## Runs

Every run but the four that end in a violation passes; each passing run states
the properties that its part is about, and for each of them `PROJECT.json` names
a mutant: a plausible bug of the code (a guard dropped, a check made only before
the transaction, a reset that is missing) under which TLC finds the property
violated with the same bounds.

| run | what it shows |
|---|---|
| `outbox_default` | No confirmed replay window, which is the default. Two threads, two attempts, two restarts: never two requests of one order out, and "rejected" means untouched. |
| `outbox_window` | A confirmed window, so a request may be repeated while the first is out. One order, for coins or by transfer; the payments of the latter lapse, are renewed, and are paid late, the replaced ones included. Order and job agree on completed and failed, evidence of a success is kept, a coin refund is final, coins come back at most once, only coins or the order's own payment fulfill it, and the outbox implements `ActivationPromise`. |
| `outbox_live` | An order paid with coins, under `FairSpec`, with either setting of the window and a restart: a paid order gets its result or reaches the administrator. |
| `outbox_inflight` | Violation, see below. |
| `payments_purchases` | Two payments of different kinds (one may renew the other), a coupon with one use, one transfer, one typed reference: what is fulfilled is paid, what is paid takes effect once and is final, the coupon follows the payment. And three top-ups on two codes: a transfer reaches the payment it was meant for, and a payment is renewed at most once. |
| `payments_superseded`, `payments_released` | Violations, see below. |
| `queue_service` | One order and two visitors, one account and a second that may be added, one mishap (restart, script or failing statement): rows are held by one worker, settled with their order, and orders end truly; orders settle. |
| `queue_refunded` | Violation, see below. |
| `sessions_tabs` | Two sessions, three tokens, two handlers at a time: a family stays one chain, revocation is final, an honest browser raises no alarm, a disabled account is signed out. |
| `coin_tabs` | Two purchases with the coins and the coupon of one, two threads of which one may die: each order is charged once under its key, the balance is what the ledger says, and a job keeps its request id. |
| `frontend_pages` | Every page, two calls at a time: the lookup is current, a wish is one purchase, the page completes when paid, pages tell the truth, dialogs submit their own input, nothing waits for ever, a review has its images. |

### Bounds

* *Orders, payments, sessions.*  Rows of different orders meet only in the
  threads, the pause flag and the maintenance of the outbox, in the pool of
  codes, in the coupon and in the queue.  One or two of each reach every such
  meeting; three payments are needed for a code to be used a second time while
  a report about its first use is still to come.
* *Threads and requests.*  Two threads are the least with which a lease is
  taken over while its former owner goes on; two handlers the least with which
  one acts between another's read and write.
* *`MaxAttempts`* is configurable in the code; with 2 there is an attempt after an
  unclear one and an attempt after the last is refused.
* *`MaxDeliveries`, `MaxLate`* bound how often the provider executes a request and
  how many given-up requests are under way.  They are 2 where a property counts
  deliveries, so that a second one could be seen; the other runs have 1 and 0.
* *`MaxRestarts`, `MaxMishaps`* count crashes and failing statements.  Two restarts
  let one fall into the recovery from the other.
* *`CouponLimit`* 1: the boundary of the limit.
* *`MaxRequests`* 1: of each kind one handler of payments between its read and its
  transaction, so a stale close and a stale renewal are under way together.  A
  payment in `renewing` stands for any number of tabs that have read it.
* *`Varied`* (`payments_purchases`): two purchases are of different kinds, so each
  kind meets each other; top-ups meet themselves, up to three of them, booked by
  transfers, and only their codes come back into use.
* *`OneOrder`* (`outbox_window`): one of two orders is sold, the one for coins or the
  one by transfer; after a renewal there is no restart and one attempt, which is
  enough to see a transfer on the replaced payment or on a refunded order.
* *`OneMishap`* (`sessions_tabs`): a refresh is given up or a revocation misses a
  session, not both, and one session expires at most.  The theorems below are
  without this bound.
* *`MAX_QUEUE_SIZE`* 2 with three requests: full and not full.
* *`MaxOrders`* 2, *`Start`* 3, *`CouponLimit`* 1, *`MaxDeaths`* 1 (`coin_tabs`): coins and
  uses of the coupon for one order, or for two; one thread may die between any
  two of its statements.
* *`Limits`* (`frontend_pages`): the checkout is checked in six instances, each with
  its plans, coupons, keys, tokens, payments and requests at a time: two
  purchases one after the other, with a coupon and without; one whose code is
  renewed; one with a coupon whose requests overlap; two plans with a name;
  the provider's plan by transfer.  All at once is beyond TLC.
* *`MaxCalls`* 2: two handlers, or a handler and a refresh, at a time.  *`Items`* 2: the
  item of a dialog and another one.  *`MaxOthers`*, *`MaxAdjusted`*, *`MaxEdits`*,
  *`MaxTexts`*, *`MaxRequests`*, *`MaxReloads`*: how often other people act, balances
  change, form fields are edited, reviews change and the page is reloaded.
  *`MaxStatuses`* 3: a provider's order goes through three states at most, so that one
  page may show an old state, and another order have a third.
  *`MaxImages`* 2 of 3 images: full and not full.
* Symmetry is used where nothing tells the elements apart (threads, codes,
  families, tokens, handlers), and only with safety properties.

`CHECK_DEADLOCK FALSE` is used by the queue runs (every worker thread may have
died, or everything may be done), and by `coin_tabs` and `frontend_pages`, where
the customer may have bought all there is to buy.

## Findings

* `outbox_inflight` / `RefundAwaitsOutcome` (`db.py:3739`): the general refund
  endpoint does not look at `provider_jobs`; it refunds an order while the thread
  that leased its job waits for the provider's answer, against the comment at
  `db.py:3842`.
* `payments_superseded` / `PaidHasOrder` (`db.py:2766`): a transfer that is reported
  after its payment was renewed is booked on the old payment, whose order has
  moved to the renewal: nothing is fulfilled and the customer is asked to pay
  again, against the docstring at `db.py:2649`.
* `payments_released` / `ReleasedByOverrideOnly` (`db.py:2785`): the webhook of a
  transfer made in time redeems a reservation that was released when the payment
  lapsed, also when somebody else has taken the quota since.  The docstring at
  `coupon_service.py:270` keeps that to an administrator's override.
* `queue_refunded` / `RefundedNeverRestored` (`db.py:3836`): a refunded order keeps
  its row in the legacy queue, and its restore takes place, against the
  docstring at `admin_api.py:2055`.  The general refund endpoint
  (`db.py:3716`) leaves the row as well; it promises nothing of the restore, so
  the property speaks of the refund of coins.

Not runs of their own, but shown by the modules, or seen while they were written:

* *A refusal erases an unclear outcome* (`provider_worker.py:195`).  With a confirmed
  window a later attempt that is refused overwrites the unclear outcome of an
  earlier one, and the coin refund takes the refusal for the truth, against
  the comment at `db.py:3842`.  `RejectedMeansUntouched` is violated when
  `outbox_window` is run with it.
* *The order may name another request than its job's* (`lunakey_service.py:293`).  Two
  creators mint an id each; the one whose job was not kept may name its id on
  the order "for support/reconciliation".  `OrderNamesRequest` of CoinPurchase
  is violated.
* *A repeated purchase that overtakes its first* is answered `duplicate_in_progress`
  instead of its order, because the transaction looks for an order in flight
  (`db.py:3094`) before it looks for the key (`db.py:3145`).
* *A QR code without the coupon that is shown* (`ActivationWizard.tsx:466`).  A coupon
  applied while the QR code of the old form is being created finds none to
  close; the code that arrives then has the old price, against
  `docs/coupon_popup_implementation_report.md:175`.  `QrFollowsCoupon` of Checkout
  is violated in the bounds of `frontend_pages`.  A late answer of a purchase
  also reaches a page that has gone back.
* *A poll of the old payment during a renewal* sets the hook's status back, and the
  panel says it checks while it does not: `PollsWhileOpen` of Checkout is
  violated.  In `WalletView.tsx:172-187` such an answer overwrites the new panel,
  and a panel closed during a renewal takes the page of the ledger with it
  (`:148-158`).  `WalletView.tsx:126-129` shows a top-up that was answered again as
  pending, whatever it is.
* *The note of a reconciliation* (`AdminOrders.tsx:180`) is cleared neither when the
  details are closed nor when those of another order are opened, so one typed
  for an order is recorded for the next, though the form asks for a note on this
  conclusion (`AdminOrders.tsx:174`, `admin_api.py:2145`).  `ReconciliationNoted` of
  AdminOrders is violated when both items of `frontend_pages` are orders of the
  provider: the note is typed, the details are closed, the list is turned to its
  next page, the other order is opened and reconciled.
* *The legacy queue's loop* (`ActivationWizard.tsx:722-742`): nothing stops a read that
  is under way; answered after the customer has bought the next order, it
  announces the end of the first on the page of the second, against
  `src/backend/README.md:261`.  `QueueHeadlineTrue` of OrderProgress is violated in
  the bounds of `frontend_pages`.
* *The news of completed orders* (`DashboardPage.tsx:133-171`) remembers the largest id:
  an order with a smaller id that is completed later is never announced.
  `DashboardPage.tsx:99-110` shows the balance in the order of the answers.
* *Reviews* (`reviews.py:588-745`): concurrent updates, each within the limit of three
  images, exceed it together; a list of kept images that is stale deletes the
  images added since; an update of a deleted review without new images answers
  success; an update publishes a review an administrator has hidden.
* *The administrator's pages.*  The maintenance form saves all settings it loaded,
  an old popup among them (`AdminSystem.tsx:368`), and the popup form can be
  saved before, or although, its load failed (`AdminSystem.tsx:138`).  A change
  of a balance gets a new key with each press (`AdminUsers.tsx:137`), so that one
  without an answer is applied twice.  The coupon form saves the state the row
  had, its late answer closes whatever form is open by then, and statistics of
  one coupon show under the title of another (`AdminCoupons.tsx:297-311`).  The
  page of orders looks for a conflict by a code the message does not have.
* *The last accounts of the pool* (`admin_api.py:1327`): two removals at the same time
  both see two accounts, and the pool is empty.
* *A late bootstrap* (`context/AuthContext.tsx:100-109`) can wipe a sign-in that
  happened while it waited.

The invariants state the exceptions they need in the open: `CouponWithinLimit`
(a released reservation that comes back when its payment is booked after all;
`ReleasedByOverrideOnly` says who may do that), `FundedShows` (money on a payment
the order was renewed from: the order goes on to wait, which is `PaidHasOrder`),
`SubmitsOwnInput` (the note of a reconciliation, which is `ReconciliationNoted`),
`PagesTellTruth` (the headline of the legacy queue, which is `QueueHeadlineTrue`),
`NoFalseAlarm` (a
refresh the browser gave up on makes the next one look like a replay, so the
customer is signed out, although `client.ts:107` means to treat the session as
absent for that load only), `DeactivatedSignedOut` (a sign-in that overlaps), and
`RowsHeldOnce` (a script that calls `db.init()` beside the application), and
`ChargedOnce` (an order that an administrator retried may run beside a new one of
its account).

## Fairness

Only `FairSpec`, in `outbox_live` and the queue runs, assumes any.  In the front end no
answer is assumed to come: `WaitsForSomething` says what waits for what, and a
request without an answer is given up after 20 s.

* *Outbox.*  Weak fairness of `Tick`: the loop of a worker catches every exception
  and goes on (`provider_worker.py:103-111`), and each HTTP call has a timeout.
  Strong fairness of the statements of the maintenance: it comes round every
  30 s, and a statement may fail when the database is busy, but not each time
  it is tried.  Weak fairness of the clocks: a lease, a back-off and a replay
  window end.  Nothing is assumed of the customer, the provider's answers, the
  administrator or crashes; `PaidOrderSettles` has "the provider stays unpaused"
  as its premise.
* *Queue.*  Weak fairness of each worker's own steps.  A thread that died takes no
  step, so `OrderSettles` excepts a pool that is empty or has a dead thread.
  That `Grant` happens is not assumed: a restore may fail.

## Proofs

`ProviderOutboxProofs`, `PaymentsProofs`, `RestoreQueueProofs`, `AuthSessionsProofs`,
`CoinPurchaseProofs`, `CheckoutProofs`, `FrontendProofs` and `FrontendTypes` are checked
by TLAPS to the last leaf.  They hold for any sets of orders, threads, payments,
codes, families, tokens, handlers, keys, forms, plans, names and (finitely many)
items and images and for any bounds.  They rest on the named assumptions about constants,
which TLC evaluates in the runs:

* ProviderOutbox: coin orders are orders, the threads finitely many, the bounds
  natural numbers, one attempt is made at least (`CoinAssumption`,
  `WorkersAssumption`, `AttemptsAssumption`, `NoneAssumption`, `WindowAssumption`,
  `BoundAssumption`).
* Payments: `None` is none of the codes, transfers, references and kinds of goods, a
  transfer is no reference an administrator types or the code makes up
  (`NoneAssumption`); the bounds are natural numbers, the limit of the coupon is
  positive, the goods are those of the code.
* RestoreQueue: orders and visitors are different requests, `NONE` is neither, the
  pool begins with an account, and the queue has room for one.
* AuthSessions: `NONE` is neither a token nor a family.
* CoinPurchase: prices, the first balance and the bounds are natural numbers,
  adjustments are integers other than 0 (`PurchaseAssumption`).
* Checkout: what a plan of the catalogue says of itself, the outcomes of a payment
  (`CheckoutAssumption`), and that `None` is no form and no attempt
  (`NoneAssumption`).
* The pages: items are finitely many positive numbers (`ListAssumption`; a table
  has so many rows, and pages are cut from them), what the sets of orders say of an
  item (`OrdersViewAssumption`), a customer may enter some amount and amounts are
  natural numbers (`WalletAssumption`), images are numbered from 1, there is one at
  least and they are finitely many (`ReviewAssumption`).

Each inductive invariant below was an invariant of a TLC run before it was proved,
in the bounds of the runs above.

*Provider outbox.*  The invariant is

    IInv == /\ TypeOK /\ OnOrder /\ Funding
            /\ \A o \in Orders : Consistent(order[o], job[o], credits[o])

`Consistent` is the agreement of an order with its job and with the refunds in
the wallet: the properties follow from it.  Alone it is not inductive.  A sale,
a recovery and a refund each act on what was read before, so `Funding` says
which orders money was booked for: only those have a job or a refund, and only
those are in the hands of a handler or on the list of the recovery.  `OnOrder`
says that a thread that sends or finalizes has an order.  An action changes the
rows of one order or moves one thread; the proof that a step keeps the
invariant takes the actions one by one, and under each the conjuncts it can
disturb.

| theorem | statement |
|---|---|
| `TypeCorrect` | `Spec => []TypeOK` |
| `CompletedTogether`, `FailedTogether`, `OrdersAgreeWithJobs` | order and job agree on completed and on failed (`CompletedWithJob`, `FailedWithJob`, together `OrderAndJobAgree`) |
| `EvidenceNeverLost` | a success that was recorded stands on a completed order, or the administrator is asked (`EvidenceAccounted`) |
| `CoinRefundSettles`, `NoDoubleRefund` | a coin refund is final for the job (`CoinRefundIsFinal`), and coins come back once (`RefundedOnce`) |
| `FundingShows` | what is fulfilled was paid for with coins or by its own payment, and an order whose own payment was booked does not show as unpaid (`FundedShows`) |
| `NeverSentTwice`, `RejectionIsTrue` | without a confirmed window: one request at a time (`SentOnceAtATime`), and a rejection is the truth, so that a coin refund after one is of an order that was not delivered (`RejectedMeansUntouched`) |
| `OutboxKeepsPromise` | `Spec => KeepsPromise`: every step maps to a step of `ActivationPromise` or to a stutter (`PromiseMove`, `QuietStep`, `PromiseStep`) |

The last row but one has a hypothesis, `WindowSettings \subseteq {FALSE}`: nobody
confirms a replay window, which is the default of the settings and the setting
of `outbox_default`.  With a window a request may be repeated, and the two
properties do not hold (see the findings).  Their invariant adds, for each order,
`Once`: it was executed or is under way once at most, one thread is engaged with
it, a thread that is about to send it, or holds a refusal, knows that it was not
executed, and so does a row that may be sent (`Sendable`): nothing was sent, or
what was sent was refused.

*Payments.*  The invariant is

    PInv == /\ TypeOK /\ OrdersLinked /\ RedemptionsLinked /\ OneReservation
            /\ ReportsInTime /\ DispatchedPaid
            /\ OrderPaidFor /\ MoneyAccounted /\ CouponFollowsPayment
            /\ RenewedOnce /\ TransferReachesItsPayment

The properties need each other: an order that waits is linked to a payment that
was not booked, and no two orders to one.  `OneReservation` says the same of the
coupon.  `ReportsInTime` is the reuse of codes: a transfer the bank may still
report was made for the newest payment of its code, and that code has not cooled
down, so no other payment has got it.  A handler that closes or renews a payment
acts on a stale read; what it does is decided again in its transaction, so the
invariant says nothing of `closing` and `renewing`.  The two action properties,
`PaidStep` and `LimitStep`, are proved of every step together with the invariant.

| theorem | statement |
|---|---|
| `PaymentsTyped` | `Spec => []TypeOK` |
| `FulfilledIsPaid`, `MoneyIsAccounted` | what is fulfilled is paid (`OrderPaidFor`), what is paid has its effect once (`MoneyAccounted`) |
| `CouponTied` | a use of the coupon follows its payment (`CouponFollowsPayment`) |
| `TransferArrives`, `NoForkedRenewal` | a transfer reaches the payment it was made for (`TransferReachesItsPayment`), and a payment has one renewal (`RenewedOnce`) |
| `BookedForGood`, `LimitRespected` | the action properties `PaidIsFinal` and `CouponWithinLimit` |

*Restore queue.*  The invariant is

    IInv == /\ TypeOK /\ \A s \in Slots : WorkerSound(worker[s], granted)
            /\ PoolSound /\ \A o \in Orders : OrderSound(o)
            /\ ServedSays /\ ServedMarked
            /\ RowsHeldOnce /\ NeverStranded /\ EndsTrue

`OrderSound` says that before `queue_client_id` is set no row and no worker has the
order; `ServedSays` that the order of a row that is served says so, unless that
write was lost; `ServedMarked` that such a row is marked as processed, as long as
no script reset the rows.  The line is proved to hold each live row once through
`InLine`: what an append, a removal of ended rows, and the filter of a claim do to
a sequence without repetitions.

| theorem | statement |
|---|---|
| `QueueTyped` | `Spec => []TypeOK`; the line holds exactly the live rows, each once |
| `RowsHaveOneWorker` | a row that is processed has one worker (`RowsHeldOnce`) |
| `NoOrderStranded`, `EndsAreTrue` | an order that waits has a row or a worker (`NeverStranded`), and ends truly: its coins went back once, through one of two endpoints, exactly when it was paid with coins and is refunded, and it is completed only with its entitlement (`EndsTrue`) |

*Sessions.*  The invariant is

    SInv == TypeOK /\ Carried /\ OneOpener /\ Opened /\ OneLive

`OneLive` is the property `OneLiveToken`, element by element.  It is not
inductive: whether a handler may store a token depends on what it read several
statements ago.  `Carried` says what each handler may still assume: the token it
is about to exchange is a stored token of its family, the session it has opened
has no token yet, the session whose tokens it is about to revoke is revoked.
`OneOpener` says that no two handlers are about to store the first token of one
session, `Opened` that the browser and the administrator name only sessions
that exist, and that those the administrator has marked are revoked.  That
revocation is final is a property of steps; it follows from `Grows`, proved of
every step under the invariant.  `MoveStep` says once how a handler moves, and
which action moves it; the lemmas about handlers use it instead of the actions.

`NoFalseAlarm` and `DeactivatedSignedOut` need more (`GInv`):

* `Locks`: one tab is inside the refresh lock.  While nothing was given up
  (`Honest`), a refresh has its tab waiting inside the lock, its token was
  exchanged by nobody, the tokens that handlers hold are different
  (`Apart`) and different from the cookie until they are answered, and a cookie
  that was exchanged is about to be replaced by the tab inside the lock
  (`Replaced`), so nobody can send it again.
* `Closing`: while an account is disabled, nobody is admitted from the moment the
  sessions are read, and what is open is what was selected, then nothing.

| theorem | statement |
|---|---|
| `Invariance` | `Spec => []SInv` |
| `SessionsTyped` | `Spec => []TypeOK` |
| `LiveTokenUnique` | an open session has exactly one token that can be exchanged (`OneLiveToken`) |
| `RevocationIsFinal` | `Spec => RevokedIsFinal` |
| `HonestNeverAlarmed` | a browser whose refreshes are answered is never taken for a replay (`NoFalseAlarm`) |
| `DisabledIsSignedOut` | a disabled account has no open session (`DeactivatedSignedOut`) |

*Coin purchase.*  The invariant is

    PInv == /\ Typed /\ Counted /\ Apart /\ OneOrderEach
            /\ \A h \in Handlers : Holds(handler[h], job, minted)

`OneOrderEach` says that no two orders share a request id.  A thread reads that an
order has no job, mints an id and inserts it later, and another one may do the
same for the same order; so `Holds` says that the id of a thread before its
insertion is no job's, `Apart` that no two threads are about to insert the same,
and `Counted` that no id is ahead of the counter.  `Kept` is what a step may do to
the jobs; it is proved of every step together with the invariant.

| theorem | statement |
|---|---|
| `PurchaseTyped` | `Spec => []TypeOK`; a wallet is never overdrawn |
| `RequestIsKept` | `Spec => JobKeepsRequest`: a request id is chosen once and belongs to one order |
| `EveryOrderChargedOnce` | a key buys one order, which is charged once and refunded once at most; each row of the ledger continues the one before it, and the last one has the balance (`ChargedOnce`) |

`Charged`, the invariant of the last one, says which row of the ledger charged an
order, that the keys of rows are different, and that an account has one order in
flight unless one was retried.  `LedgerAddsUp` speaks of neighbouring rows, as
the columns `balance_before` and `balance_after` do, and not of a sum: it needs
no induction over the ledger.

*Checkout.*  The invariant is

    LInv == /\ Typed /\ Bound(form, minted) /\ AsksFor(form, lookups)
            /\ info # None => info = form.name

`Bound` and the last conjunct are the property `LookupIsCurrent`.  They are not
inductive: the answer of a lookup writes the token and the profile of what was
asked, whatever the form says by then.  `AsksFor` is what `lookupSeqRef` is for:
a lookup that was not outrun asks about the form as it is.  The handlers that
change plan, platform or name outrun all lookups and forget token and profile
(`StartsAfresh`); the coupon and the contact keep what a token is bound to
(`SameBinding`); an answer is forgotten or is about the form (`ConcludedStep`).

| theorem | statement |
|---|---|
| `LookupStaysCurrent` | `Spec => []LookupIsCurrent`: the token in the form was issued for its plan and name, and the profile shown is the name's |
| `OneOrderPerPurchase` | `Spec => []KeyPerPurchase`: of one kind the shop has one order for a turn of the form at most, and a key is of one form |
| `CompletionIsPaid` | `Spec => CompletesWhenPaid`: the last step is reached with an order of the shop that is paid |

The second rests on `KInv`.  A key belongs to a kind (coins or QR code) and a turn,
and to the form sent with it; `Deals` are all places where one is: the last
attempts, the purchase under way, the requests given up on and the orders.
Two of them with one key agree on kind, turn and form, and two of one kind and
turn have one key (`KeyTellsPurchase`), so the shop, which looks for the key,
makes one order.  The third rests on `PInv`: what the panel shows, the poll
reads, the renewal and the answer of a purchase name are orders and payments of
the shop, with a status that is, or was, theirs; and a handler that waits for the
code to be closed returns to a step before the last.

`CheckoutTypesHold` is `Spec => []TypeOK`.  The types follow the handlers, but one bound
does not: nothing in the shop counts its orders.  There are no more of them than
keys, because no two have the same one (`OrdersFit`), so this theorem rests on
`KInv` and `PInv`.

*Front end.*  `FrontendProofs` has one invariant for each page, which speaks of `ui`,
`calls` and `db` while that page is shown (`PagesInv`, `DialogsInv`, `WaitsInv`).  A
page is left for the blank page only (`PageStays`), so a step of one page cannot
disturb the invariant of another; that the checkout is the same inside
(`CheckoutInside`) lets its theorems hold here too (`CheckoutHolds`).

* *What pages tell.*  A late answer may find any panel, so each call carries what
  makes its answer true: `ReadTrue` (an answer of a poll about an order was true of
  that order), `RowTrue` (a row of an order was), `WalletCall` (a poll answered as
  paid names a payment in the ledger).  What the shop has recorded
  it keeps (`WalletGrows`, the states an order has had, a completed order), so what
  was true of a read stays so.  On the dashboard `NewsTold` counts how often an order was
  announced against what storage and page remember.
* *Wishes.*  Each key of a top-up is for one wish, keys for different wishes are
  different, and a payment has the amount of its key.
* *Reviews.*  Files stored by a handler still at work are nobody else's
  (`FilesApart`), what a committed handler will delete is no row's, and each file
  is a row's or answered for by a handler (`FilesNeeded`).  A handler of an update
  that read another review than the one there now has old images which are none
  of its rows.
* *What dialogs submit.*  A dialog shows what was entered for its own item
  (`OwnEntry`), a call carries what was entered for its target (`OwnCall`; the note of
  a reconciliation is outside it), and
  an answer changes neither.  Pages with fields of their own need more:
  `ReasonsOwn` for the reason of an order, `TabsQuiet` for the settings, `PlansSold`
  for the form of a plan, which starts from rows that the shop accepted.
* *What waits.*  A flag is set together with the call that takes it back, and a call
  that ends takes its flag with it (`DialogWaits`, `WalletWaits`, `ReviewsWaits`,
  `DashboardWaits`).  For that a handler may go on with a load only under the name
  its flag has (`OwnCall`, `LoadsAlone`), and only a read of the review goes on for
  news or closes the prompt (`NewsAwaited`).

| theorem | statement |
|---|---|
| `PagesTruthful` | the headline of a provider's order, the files its details offer, the announcements and the thanks are true (`PagesTellTruth`); the legacy queue's headline is excepted, see the findings |
| `OneWishOnePurchase` | a wish to buy or to top up is one key (`OnePurchasePerWish`) |
| `ReviewImagesThere` | a review has its images, and no file is left over (`ReviewHasItsImages`) |
| `SubmissionsOwn` | no dialog submits for an item what was not entered for it, and the form of a plan stays one the shop accepts (`SubmitsOwnInput`); the note of a reconciliation is excepted, see the findings |
| `WaitsForCalls` | every spinner, disabled button and held-back poll has a call under way that takes it back (`WaitsForSomething`) |
| `CheckoutHolds` | `LookupIsCurrent` and `CompletesWhenPaid`, inside the front end |

*Types of the front end.*  `FrontendTypes` proves `FrontendTypeOK`, which speaks of what
is shown.  It is not inductive: what is shown next is what a call brings, and what
a call brings was read from the shop's records, maybe long before.  So `TypesInv`
types all three, page by page.  The pages with a list share `ListTyped`: an item is
in one of the page's states, a row is of an item that was there when it was read, a
page number is one the items can fill, a dialog and a call name an item or none,
and the handlers that send a status send one that items have.  What a page has of
its own stands beside it: the balances of the users, the switches and figures of
the coupons, the details of an order, the form of a plan, the tabs of the settings.

* *Page numbers* are bounded by the number of rows the shop can have, not by the
  pages of the last answer: an answer that is old when it arrives may leave the
  page number past the end.
* *Numbers of calls.*  A loop of the progress page gets a number from 1 to
  `MaxCalls + 1` that no other has.  That there is one is a matter of counting
  the calls under way (`NumberFree`), so the invariant says that they are finitely
  many and not too many (`AtMost`, `RoomForOne`).
* *The rest.*  A poll of the wallet brings a status, a balance is a number of items;
  the images of a review's form are images, with no more new files than there is
  room for; the dashboard remembers an order there is.

The step of one page leaves the invariants of the others alone, as for the
properties above, and `TypesNext` uses `DialogsInv` and `PagesInv` for what records
they are about.

| theorem | statement |
|---|---|
| `CheckoutTypesHold` | `Spec => []TypeOK` of Checkout (`CheckoutProofs`) |
| `TypesHold` | what is shown, the calls and the records have their types (`TypesInv`) |
| `FrontendTyped` | `FrontendSpec => []FrontendTypeOK` |

*Only model-checked.*  The liveness properties `PaidOrderSettles` and `OrderSettles`:
liveness under fairness and `ENABLED` are out of the prover's reach.  So is
induction over data, which is why no theorem is about a recursive definition.  The
theorems about the front end say nothing of two pages open at a time, as the modules do not.

## Not modelled

* *Provider outbox.*  A job whose payload does not parse or whose hash does not
  match (`provider_worker.py:151-166`), a product without a category, the
  clean-up of expired lookups, wording and logs.
* *Payments.*  `underpaid` and `review_needed`, which no code writes;
  `renew_payment_order_tx` and `sweep_expired_pending_payments`, which no code
  calls.
* *Restore queue.*  An order refused by a full queue stays `awaiting_queue`: nothing
  dispatches it again, except that its customer repeats the purchase.
* *Sessions.*  `cleanup_expired_tokens`, which has no caller; passwords, Google,
  CSRF and rate limits.
* *Download tickets, lookup confirmations.*  The rows are claimed by one statement
  each; a lookup's token is `minted` in Checkout.
* *Accounts and tokens, proxies, HTTP helpers, creators, plans, site settings,
  notifications.*  On the server, rows edited one at a time, or calls to other
  services, without states that several actors share; what the administrator's
  pages do with them is modelled.
* *The front end.*  Routing and guards, the bootstrap of the session, the public
  landing pages, announcements and the theme, the instruction page of a DNS
  profile, the pages that only show what they read (the queue, the overview, an order
  looked up without an account), validators of forms, the formatting of
  amounts and dates, charts and exports.  The old queue's status panel is the
  loop of OrderProgress; the recovery of `useQueuePolling` never runs.  Two pages
  open at a time share only what the server has, and CoinPurchase, Payments and
  AuthSessions have the tabs.

## Plan

What remains, in this order:

1. Payments composed with the sales of ProviderOutbox: the outbox's
   `PaymentConfirmed`, `PaymentLapses` and `PaymentRenewed` as steps of Payments.
2. Checkout against Payments and CoinPurchase: its shop as an abstract
   specification that both implement.
3. The hazard of `ActivationWizard.tsx:466` as a run of its own, once the docs say
   what the page should do.
4. The session of the front end: bootstrap, sign-in and sign-out beside each
   other, with AuthSessions behind them.
