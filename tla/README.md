# A verification project for Koffy

Koffy meters and bills the use of AI models: applications call a gateway, the
gateway asks a billing service to set coins or plan quota aside, calls the model,
and settles what was really used. This directory holds TLA+ models of that system,
the TLC runs that check them on small instances, and proofs that TLAPS checks for
every value of the constants. File references are to the repository (`internal/...`,
`docs/...`).

## 1. Inventory

| component | state it keeps | operations | modelled by |
|---|---|---|---|
| usage billing (`internal/billing/store.go`, `internal/contracts/billing.go`) | `wallets`, `wallet_ledger`, `usage_requests`, `usage_reservations`, `entitlement_balances` | `Authorize`, `Commit`, `Cancel`, `Charge` | `UsageBilling`, `Totals` |
| plans, subscriptions, maintenance (`plan_admin_store.go`, `background.go`) | `plan_entitlements`, `user_subscriptions`, `entitlement_balances` | upsert an entitlement, grant a subscription, hourly maintenance, refresh on reading | `UsageBilling` |
| prices and coins of the administrator (`admin_store.go`) | `app_token_pricing`, `app_unit_pricing`, `wallets` | set and delete prices, adjust coins | `UsageBilling` |
| gateway handlers and billing client (`internal/aigateway/server.go`, `billing_client.go`) | none that outlives a request; calls in flight | `chatCompletions`, `imageGenerations`, `streamChatCompletions` | `Gateway` |
| rate limiter (`internal/aigateway/rate_limiter.go`) | a map from counter to window and count, under a mutex | `Allow`, `cleanupLocked` | `RateLimiter` |
| recharge (`payment_store.go`, notification handlers of `server.go`) | `recharge_orders`, `payment_events`, `wallets`, `wechat_pay_openids` | create an order, take an openid for it, process a payment notification | `Recharge`, `WeChatPay` |
| phone codes (`registration_store.go`, the handlers that send and take codes) | `phone_verification_codes` | create a code behind a throttle, consume one | `PhoneCodes`, `OneTimeCodes` |
| WeChat sign-in and binding (`auth_wechat_handlers.go`, `auth_security_store.go`, session exchange of `auth_handlers.go`) | `auth_states`, `auth_login_codes`, `auth_identities`, `users`, Casdoor users | the callback to log in, bind or pay; exchange a code for a session; unbind | `SignIn` |
| registration and phone binding (`auth_register_handlers.go`, `auth_account_handlers.go`) | `users`, Casdoor users | register, bind a phone, log in | `Accounts` |
| user mapping, profiles (`user_store.go`, `profile_*.go`, `principal_sync.go`) | `users` | map a principal to a row, edit names | the phones: `Accounts` |
| authentication (`internal/auth`) | none | verify tokens and cookies | no |
| model routing (`ai_admin_store.go`, `aigateway/store.go`) | providers, models, routes | upsert, look up | no |
| payment clients, captcha, SMS | none | calls of external services | no |
| branding, web console, configuration, storage, HTTP helpers, commands | files, presentation | | no |

How they interact. The gateway calls the billing service over HTTP
(`/api/v1/billing/authorize|commit|cancel`); both sides may time out. The billing
service keeps all its state in MySQL and changes it in transactions, each locking the
rows it reads before it writes them. Administrators, a background job and payment
notifications change wallets, prices, plans and subscriptions between the calls of one
request. The rate limiter is shared by all handler goroutines of the gateway.

What is hard about it:

* a usage request lives across two transactions (preauthorise, settle), between which
  the wallet, the price, the plan, the month and the subscription may change;
* calls are lost, answered late or repeated; several handlers may share one
  idempotency key; the gateway may stop at any point;
* the holds on wallets and quota rows are kept twice, as a counter on the row and as
  reservation rows, and every path must change both;
* quota rows are created, refreshed and left behind month by month while requests hold
  units of them;
* payment notifications come repeatedly, concurrently, in any order and under several
  event ids;
* the limiter reads the clock outside its lock, and the throttle on phone codes reads the
  latest code without one;
* accounts are kept twice, at Casdoor and here, with no transaction in common: a handler
  may fail or its server stop between the two, and others run in between;
* a WeChat callback looks up an identity and binds it in transactions apart.

What makes each component correct: usage billing must neither leak a hold nor overdraw a
wallet or a quota, must charge a request once, and must be able to settle what it
preauthorised; subscriptions must not double or carry over quota; the gateway must not
answer for free, must always answer, and should settle every preauthorisation; the
limiter must keep its limit; a payment must be credited exactly once, and an authorisation
to pay used once; a code must be accepted once, in time, and resist guessing; a state must
serve one callback, an identity stay with its user, nobody be left without a way to sign
in; and the two sides of an account must agree in the end. The list of single
hazards, each at its line, with the properties that watch over it, is under `hazards`
in `PROJECT.json`.

## 2. Modules

```
Totals ── Totals_proofs
  ├── UsageBilling
  │     ├── PrepaidRefinement ── MCUsageBilling     (INSTANCE PrepaidAccounts)
  │     │     └── UsageBilling_proofs               (on Totals_proofs)
  │     └── Gateway ── MCGateway
  │           └── Gateway_proofs                    (on UsageBilling_proofs)
  └── Recharge ── WeChatPay ── MCRecharge
                    └── WeChatPay_proofs            (on Totals_proofs)
RateLimiter ── MCRateLimiter, RateLimiter_proofs
PhoneCodes ── MCPhoneCodes, PhoneCodes_proofs       (INSTANCE OneTimeCodes; on Totals_proofs)
SignIn ── MCSignIn, SignIn_proofs                   (on Totals_proofs)
Accounts ── MCAccounts, Accounts_proofs
```

**`Totals`** is the arithmetic: `CeilDiv`, minima and maxima, and `Total(f, S)`, the sum
of `f` over a finite set. It is defined as the number of pairs `<<x, i>>` with `x` in `S`
and `i` in `1 .. f[x]`, not by recursion, so that its laws follow from the library's
theorems on cardinalities.

**`UsageBilling`** is the core. Every operation of the store is one database transaction
that locks what it reads, so each is one action; one that ends in an error rolls back, so
it takes no step and its error paths are the negated guards. A repeated `Authorize`,
`Commit` or `Cancel` returns the stored row and takes no step either.

* `wallet`, `usage`, `sub` are the tables of these names; `bal` is `entitlement_balances`,
  indexed by subscription, code and month (its unique key), with the row's `id` because
  rows are drawn on in the order of ids; `coinRes` and `unitRes` are `usage_reservations`,
  by request and by request and row; `ledger` is `wallet_ledger` summed by direction and
  reason; `price` and `plan` hold the rows the lookups select.
* `Authorize` refreshes the rows of the user's subscriptions in force
  (`EnsureBalances`), reserves units row by row (`Fill` over `Reservable`), prices what is
  left (`priceUsageCoins`, rounding up per unit) and reserves coins. `Commit` consumes the
  reserved units in the order of the reservations, prices the rest, charges the wallet,
  and settles or releases every reservation. `Cancel` releases them.
* `AdminUpsertPricing` and `AdminDeletePricing` set and delete a price; the handlers for
  token prices and for unit prices do the same to their tables.
* `AdminAdjustCoins` also stands for the credit of a recharge, which changes the wallet
  the same way; `Recharge` models when that happens.
* `Tick` moves the clock; months are `TicksPerMonth` ticks long, and a subscription ends
  on a tick.

**`PrepaidAccounts`** is what the store promises about coins, with neither entitlements,
prices, reservations nor ledgers: free coins, a hold per request, one settlement.
**`PrepaidRefinement`** maps the store to it (free coins are `balance - reserved`).

**`Gateway`** composes the handlers with the store by extending `UsageBilling`. A handler
has a place `pc`, one billing call in flight, and the reply it has not read. A call is
executed by the store (`ServeAuthorize`, `ServeCommit`, `ServeCancel`), or is lost
(`FailCall`); the handler may stop waiting (`GiveUp`) and the call may be executed all the
same. `imageGenerations` goes through the same steps as `chatCompletions` and shares its
kind, `"call"`; a `"stream"` has written its status and output before it is paid; a
`"charge"` is `Store.Charge`, which commits what `Authorize` returned whatever its status.
The error of a `Cancel` is ignored, a failed `Commit` is not repeated: both as in the code.

**`RateLimiter`** has goroutines that read the clock, then take the lock. `admitted` and
`late` are history variables, for the properties only. **`Recharge`** has orders, events,
the coins they credit, what the provider took from the customer, and the notifications the
provider has not seen acknowledged. An event is recorded with its payload. WeChat may notify
without an amount (the events in `Amountless`): such a notification reads as one of amount 0,
for which `processPaymentSuccess` compares nothing. **`WeChatPay`** composes it with the way an order inside
WeChat gets the openid it needs: a state sent to WeChat, the callback that keeps the openid
under a one-time code, and `createRechargeOrder`, which takes the code first and may then
fail. `ticket` follows one authorisation through these stages; `hand` holds the codes taken
by a request that has not stored its order yet, `payer` what an order was made with.

**`PhoneCodes`** has the rows of `phone_verification_codes` in the order of ids. A handler
that sends a code is three steps, since nothing is locked between them: it reads the clock
(`AskForCode`), the latest code (`CheckThrottle`), and inserts (`InsertCode`). A handler that
takes one reads the clock (`AnswerCode`) and does the rest in one transaction that locks the
row (`ConsumeCode`). A wrong answer is counted in that transaction, but the error of the
`UPDATE` is ignored (`registration_store.go:92`), and a `Commit` that fails afterwards is
answered alike: so `MarkAttempt` may leave an answer uncounted that is told wrong all the
same. `wrong` and `missed` count, for the properties, the answers told wrong and those of
them that were not counted. `SendFails` and `TakeFails` are the errors that roll back.
**`OneTimeCodes`** is what any store of such codes promises: a code is used once, and is told
wrong at most `MaxMisses` times and once more for each answer the store could not write
down (`excused`). `PhoneCodes` maps each row to one of its codes.

**`SignIn`** is the WeChat callback, one step per access to the database, Casdoor or WeChat:
take the state, fetch the identity, look it up, then bind it, or create an account at
Casdoor and here, and hand out a login code. Callbacks interleave; each step may fail, and
what was done before stays. Rows of `auth_states` and `auth_login_codes` that are taken or
expired are as good as none, so the model keeps the open ones and issues values anew.
`bound` is `auth_identities` by its unique key, the openid: the user of each row and its
`place` in the order of ids, since a look-up by openid or unionid takes the row with the
lowest id. Binding again changes the user of a row and not its place; unbinding deletes
rows and keeps the order of the others.

**`Accounts`** is `registerAccount` and `bindPhone` over the two stores of an account, and
`SyncUser`, by which every request of a user writes the phone of its JWT to the local row.
`known`, `cphone` are Casdoor's users and their phones, `rows`, `lphone` the local ones,
`token` the claims to a phone in all the JWTs of a user that are valid: Koffy keeps no list
of them (`internal/auth/casdoor.go:80`), so `loginAccount` adds one, `Expire` takes one away,
and until then `SyncUser` may bring any of them. `torn` is a history variable: the users for
whom something happened after which the two sides may differ. That is a step that failed
after Casdoor changed, a JWT that was outdated when a request brought it, two bindings at a
time by one user, or a save refused because another row has got the phone since the look-up,
which takes no failure, only a second handler. What `PhoneCodes` and `SignIn` model in detail (the code, the steps of a
WeChat registration) is one step here.

Operators introduced by "Faulty variant" in a comment are the definition next to them with
a plausible mistake. No specification uses them. Substituting one for its neighbour makes
the property it was written for fail (`mutants` in `PROJECT.json` pairs them), which shows
that the property depends on the code getting this right.

## 3. Runs

The runs of `UsageBilling` and `Gateway` stop the clock at `MaxTime` and credit at most
`MaxCredit` coins; those of `RateLimiter` stop it at `MaxWindow`, that of `PhoneCodes` at
`MaxTime` and `MaxCodes` rows, and each row to `MaxFaults` answers that are not counted;
`SignIn` has at most `MaxFaults` failures and expiries.
`UsageBilling` also requires that a granted subscription ends at most a month after
`MaxTime`. Deadlock is checked in every run: maintenance, a report of a payment, a new
request or a new sign-in remains possible.

| run | asks | instance, and why it is enough |
|---|---|---|
| `UsageBilling_requests` | do two requests, a top-up and a take-out keep wallet, reservations and ledger together, is a request paid once and in its own mode, can what was preauthorised be settled, and does the store implement `PrepaidAccounts`? | one user, two keys, all three modes, two units of which one has a plan with a quota of one, a price below and one above a coin per unit, demands of one or two units: estimates above and below the use, remainders, roundings, extra charges, refusals; a month's end between the two calls. Prices and plans stay (`StableSpec`), which `PreauthorizationSuffices` needs |
| `UsageBilling_renewals` | do grants, expiry, quota edits and months keep quotas apart, are `used` and `reserved` of a row the sums over requests, and does a row serve only its user in its app? | hybrid mode, two units, two codes whose unit may be changed under open reservations, so one request draws on two rows (lowering a quota is left to the proof); two subscription rows of one plan and months of two ticks: extending, expiring within and at the end of a month, a second row after the first has ended. A third request comes from another app and a fourth from another user, neither with a plan: as there are no prices either, they must be refused whatever the rows have left. Without coins, the part of `OnlyOwnRequestsPay` about wallets is left to its theorem |
| `Gateway_faults` | is every successful answer charged, and a retry after the settlement rejected? is a call always answered, and does a stream stop waiting for billing? | a call, a stream and a charge that share a key, with loss, timeouts and crashes: each pair of kinds races |
| `Gateway_reliable` | where nothing is lost, is every hold settled? | hybrid mode with a plan and a month's end, no call above its estimate |
| `RateLimiter_limits` | how far can a limit be passed, and who is rejected? does the clean-up forget only what is not needed? | three goroutines, a limit of 2 on the app and of 1 on a user, none on another; three windows, with `Kept` = 1 in place of the code's 5, so that the clean-up bites in the third window as it does in the seventh |
| `Recharge_payments` | is a payment credited once, and in the end? is an authorisation used once? | two orders of two users, three events of which two are of one order, one without an amount if it is WeChat's, two amounts, both providers, one authorisation that either user may ask for |
| `PhoneCodes_throttle` | how many codes can a burst of requests get, when is one accepted, and are they one-time codes? | two handlers that send and one that takes, three codes, a throttle of two ticks and a lifetime of one, one wrong answer, and one that is not counted: codes overtake each other, expire while they are answered, are asked for again. Handlers and code values are symmetric: no property tells them apart |
| `SignIn_wechat` | does a state serve once, does an identity stay with its user, does everybody keep a way to sign in, and does who tries again succeed? | a user with a phone and a person with two openids of one unionid, two callbacks at a time, two states, one failure anywhere |
| `Accounts_phones` | do Casdoor and the local rows agree when they should, and in the end? does a code for a user's password go to anybody else's phone? | two users, two phones, two handlers; every step may fail, and a user may have JWTs with every claim at once |

Three more runs check a sentence of the documentation, and find it violated:

* `Gateway_release`. "The gateway cancels the preauthorisation if the provider fails"
  (`docs/api.md:115`, `README.md:80`): `server.go` discards the error of `billing.Cancel`
  (lines 192, 202, 214 and their likes) and nothing else releases a request that stays
  `authorized`, so one lost call keeps the coins and units reserved. `EveryHoldSettled`
  holds where nothing is lost.
* `Gateway_duplicates`. "A key that has already been charged gets the same result, or is
  rejected" (`docs/app-integration.md:385`). A second handler that was authorised before the
  first one committed calls the provider too; its `Commit` finds the request committed,
  succeeds, and the client gets a second, different response, charged once.
  `RetryAfterSettlementRejected` is the part of the sentence that holds.
* `RateLimiter_claim`. The limit per minute (`docs/api.md:27`) can be passed: `Allow` reads
  the clock at line 31, before the lock, and line 38 replaces the stored window whenever it
  differs, also by an older one. `OvershootIsBounded` says by how much: once more for each
  request that was late.

### Fairness

* `LiveGatewaySpec` (`Gateway_faults`) differs by kind, as the code does. Every handler reads
  a reply that has come. A call or a stream gives up on billing in the end, by the timeout of
  `NewBillingClient` (30 s) or `billingFinalizerContext` (15 s). A call returns from the
  provider, by the timeout of the LiteLLM client (10 min), for its body is read whole. A
  stream may not: it writes to a client that may not read (`aigateway/server.go:619`), and the
  server has no write timeout (`cmd/ai-gateway/main.go:31`). A charge may wait for good: it
  runs in the billing API under its request's context alone, and neither the DSN
  (`storage/mysql.go:15`) nor the server (`cmd/billing-api/main.go:32`) sets a timeout.
  `EveryRequestAnswered` claims for each kind no more than that. Nothing is assumed of the
  billing service.
* `ReliableSpec` (`Gateway_reliable`): in addition every billing call is executed and answered,
  clients read their streams, and the gateway does not stop. It is the assumption under which
  holds are settled, and is stated as such.
* `Fairness` of `PaySpec` (`Recharge_payments`): providers report a payment and repeat a report until it is
  acknowledged, as WeChat and Alipay document. The customer is not assumed to pay.
* `SignIn!FairSpec` (`SignIn_wechat`): Go runs a callback to its end (weak fairness); the
  person starts a login, returns from WeChat and hands in the code again and again. Strong
  fairness is on the person's own two steps, because other people's use of the same few
  states of the model disables them now and then; real states never run out.
* `Accounts!FairSpec` (`Accounts_phones`): handlers run to their end, users log in again and
  JWTs expire (weak fairness), and users go on sending requests. Strong fairness is on the
  requests, because another row may have the phone of the moment now and then, and the
  request then fails; weak fairness would say nothing of a user to whom that happens again and
  again. `FollowsCasdoor` is only about behaviours in which handlers come to rest. It does
  not say that the next sign-in repairs a row for good: while an older JWT is valid, each
  request that brings it puts the older phone back. It says that this ends as JWTs expire.

## 4. Proofs

TLAPS checks every theorem below for any number of users, apps, keys, handlers, plans,
months, orders, goroutines, phones and codes, and any demands, prices and limits that
satisfy the assumption of the module (`UsageBillingAssumption` and its likes, which TLC
evaluates in every run). The assumptions say of what kind the constants are, that the sets
that are summed over or numbered (keys, units, codes, subscriptions, orders, senders,
workers, identities) are finite, and in `SignIn` that openids with one unionid create one
account (`shortHash` of the unionid).

| module | theorem | property |
|---|---|---|
| `UsageBilling_proofs` | `TypeCorrect` | `TypeOK`; with `Nat` as the type of balances, holds and quota counters, none ever becomes negative |
| | `WalletsCovered` | `NoOverdraft` |
| | `WalletHoldsExact`, `RowHoldsExact` | `HoldsMatchWallet`, `HoldsMatchRows` |
| | `NothingLeaks`, `LedgerExact`, `SettledStays` | `SettledHoldsNothing`, `BalanceMatchesLedger`, `SettledForever` (in no run) |
| | `DebitedOnce` | `EachRequestDebitedOnce` |
| | `ConsumptionExact`, `QuotaKept`, `HoldsInMonth` | `UsedMatchesConsumption`, `QuotaNeverExceeded`, `NoCarryOver` |
| | `ModesApart`, `OwnersPay`, `OnePerPlan` | `ModesKeptApart`, `OnlyOwnRequestsPay`, `OneSubscriptionPerPlan` |
| | `OwnRowsOnly` | `HoldsOwnRows` (in no run) |
| | `Preauthorized` | `PreauthorizationSuffices`, of `StableSpec` |
| | `Implementation` | `ImplementsPrepaid`: the refinement of `PrepaidAccounts` |
| `Gateway_proofs` | `StoreUnderGateway` | `GatewaySpec => Spec`: what is proved of the store holds under the gateway |
| | `GatewayTypeCorrect`, `SuccessCharged`, `RetriesRejected` | `GatewayTypeOK`, `SuccessIsCharged`, `RetryAfterSettlementRejected` |
| | `HoldsAttendedTo` | `ReliableSpec /\ []WithinEstimate => []HoldsAttended` (in no run) |
| `WeChatPay_proofs` | `PayTypeCorrect`, `CreditedOnce`, `PaymentsOnly`, `RecordedCredited`, `OneOrderEach` | `PayTypeOK`, `EachOrderCreditedOnce`, `OnlyPaymentsCredited`, `RecordedMeansCredited`, `OneOrderPerAuthorisation` |
| | `ReportsTaken`, `AcknowledgedCredited` | `ReportsAccepted`, `AcknowledgedMeansCredited` (in no run) |
| `RateLimiter_proofs` | `LimiterTypeCorrect`, `RejectionsJustified`, `OvershootBounded` | `TypeOK`, `RejectedOnlyWhenFull`, `OvershootIsBounded` |
| `PhoneCodes_proofs` | `CodesTypeCorrect`, `BurstsBounded`, `InTime` | `TypeOK`, `BurstBounded`, `AcceptedInTime` |
| | `CodesImplementation` | `ImplementsOneTimeCodes`: the refinement of `OneTimeCodes` |
| `SignIn_proofs` | `TypeCorrect`, `ServesOnce` | `TypeOK`, `StateServesOnce` |
| | `TakenOnlyByOverlapHolds`, `WayInStays` | `TakenOnlyByOverlap`, `WayInKept` |
| `Accounts_proofs` | `AccountsTypeCorrect`, `OwnersGetCodes`, `SidesMeet` | `TypeOK`, `CodeGoesToOwner`, `SidesAgree` |

The arguments, each around an invariant that is stronger than what it is for:

* **Holds** (`IInv` of `UsageBilling_proofs`). `Commit` subtracts a hold from
  `wallet.reserved`, which stays a natural number only because the counter is the sum of the
  open reservations; that sum changes by the right amount only because a request that was
  never authorised, or is settled, has no open reservation; and the balance stays above the
  reserved coins only because of both. `IInv` is their conjunction. There is one lemma per
  action; the sums are handled by `Totals_proofs`, of which `TotalUpdate` (changing one
  summand) and `TotalSplit` carry most of the weight. What a transaction computes enters
  only through what it guarantees: `FillBounds` (a row gives no more than it may),
  `PriceType` and `EnsureBalancesKeeps` (a refresh keeps `used` and `reserved`).
* **Charges** (the second part of `UsageBilling_proofs`). Four lemmas say what steps do to requests and rows:
  `AuthorizeEffect`, `CommitEffect`, `CancelEffect`, and `OtherEffect` for all the rest.
  Each property is an induction over these four, not over the actions. Consumption needs
  that a request that is not committed has consumed nothing (`NothingConsumedYet`); quotas,
  that a row that does not exist yet has none. The refinement reads the same effects as a
  hold, a settlement and a void; that a settlement is covered by hold and free coins is
  where it needs `IInv`. `OwnersPay`, of coins and of units, rests on `OwnRowsOnly`: a
  settlement consumes only what its own request has reserved, and that is on rows of its user
  and app.
* **Preauthorization**. What has to be remembered of an open request is that its coins are
  the price of what its units do not cover, by today's prices and today's units of its rows
  (`OpenCovered`); that survives the steps of others because prices stay and a row keeps the
  unit of its plan (`RowsFollowPlan`), also when it is refreshed or a month ends. From there
  to `CommitAccepted` is arithmetic: reserving and consuming are both a `Fill` of the rows in
  the order of ids, and `FillServes` says of any such filling that it serves a unit in full
  or uses up its rows, by looking at the first row it leaves some of. So of a smaller usage
  no more is left to pay in any unit, and rounding up is monotonic (`PriceMonotone`).
* **Gateway**. While a handler commits, only its own `Commit` can be in flight (`CallsInv`),
  so what it is told other than an error is that the key is committed (`RepliesTrue`), and
  by `SettledStays` that never changes, whatever other handlers of the key do. That no hold
  is abandoned where nothing is lost follows each open request to a handler that will settle
  it (`OpenIsSettling`): the one `Authorize` answered, on its way to a `Commit`, which by
  `Preauthorized` is accepted, or a `Cancel`. A handler of the same key that comes between
  either finds the request open as well or settles it. It is the safety part of
  `EveryHoldSettled`; what is left to fairness is that handlers go on.
* **Payments**. A notification tells of a payment as it was made, or does not say its amount
  (`Truthful`). So one whose amount is compared with the order's credits what was paid; an
  order that is credited otherwise was paid something, and has a recorded event without an
  amount. A code is with the user it was made for or used up by an order. Reports are of
  orders that exist and of their provider (`ReportsKnown`), so none of a right amount is
  refused, and no step acknowledges one whose order is not paid: the safety part of
  `EveryPaymentCredited`.
* **Limiter**. The bound is not inductive: that a request opens a window again says nothing
  of how often others did before. What is, is a kind of credit (`Credit`): what a window has
  admitted beyond its present count is covered by the late requests, and a window newer than
  the stored one is either so old that the next request for it is late, or within them.
* **Phone codes**. A handler that passes the throttle finds no unused code younger than a
  minute, because its clock is behind the database's and rows are in order of time. So young
  codes and handlers that have passed are together no more than the handlers (`Room`). For the
  refinement, a code's answers told wrong are its counted attempts and the missed ones.
* **Sign-in**. The invariant (`SInv`) says of each callback, at each of its steps, what it
  may still rely on: nobody else holds its state, it binds for one known user, and what its
  look-up found was nobody else (`LookedUp`). A write by a callback whose look-up still
  stands then takes nobody's identity (`UpToDateTakesNone`), which is the heart of both
  action properties. That an identity leads to anyone at all takes the least place among
  the rows alike; places stay unique only because they are numbered without gaps
  (`Numbered`), through re-binding and the renumbering of `Unbound`.
* **Accounts**. Agreement is not inductive: while handlers work, a user's two sides agree or
  one handler is about to make them agree (`Finishing`), and it is the only one that works for
  that user (`OneAtATime`). This is said user by user (`Converges`), of those who are not torn:
  what happens to one does not spoil it for another. A phone is one user's at Casdoor, so a
  user whose sides agree has nobody else's.

Every invariant and safety property of a passing run is proved. Only model-checked is
liveness (`EveryRequestAnswered`, `EveryHoldSettled`, `EveryPaymentCredited`,
`SignInRecovers`, `FollowsCasdoor`), which rests on fairness and so on `ENABLED`, which the
prover does not handle.

Seven properties are proved and in no run. Runs of others show the same as
`BalanceMatchesLedger`, `SettledHoldsNothing` and `SettledForever`, and as `HoldsAttended`,
`ReportsAccepted` and `AcknowledgedMeansCredited`, without which the liveness of the same
runs would fail. `HoldsOwnRows` is what `OnlyOwnRequestsPay` rests on, which a run checks.

## 5. Plan

Done, in this order because the coins and quotas of users depend on it: `UsageBilling` and
its proofs, `PrepaidAccounts`, `Gateway`, `RateLimiter`, `Recharge`, `PhoneCodes` with
`OneTimeCodes`, `SignIn`, `WeChatPay`, `Accounts`, and the proofs of all of them.

What could follow:

1. the turn of a month inside a transaction of `UsageBilling`, where `localNow` is read
   twice, with an action per reading;
2. a composition of `Recharge` with the wallet of `UsageBilling`, in place of
   `AdminAdjustCoins` standing for it, under which `Implementation` would carry over to
   credits as well.

## 6. What is left out, and why

* The `status` columns of apps, users and plans only make operations fail, which is a step
  not taken.
* `entitlement_ledger` is written and never read by an operation. `wallet_ledger` is kept as
  sums, which is what the balance depends on.
* 64-bit overflow of products such as `amount * coin_amount`: amounts that large are not
  rejected by the code, but are far from any real price; integers are unbounded here.
* `localNow` is called more than once in a transaction, so at the very turn of a month rows
  may be refreshed for one month and read for the next; here a transaction happens at one
  time.
* Transactions that lock in different orders (`AdminGrantSubscription`: user, then app;
  `Authorize`: app, then user) may deadlock; InnoDB rolls one of them back, which is a step
  that changes nothing.
* The query for subscriptions in force has no order, and each is refreshed; the model numbers
  new rows in the order of subscriptions, one of the orders the database may choose.
* In `Gateway`: authentication, the model check, parsing and the rate limit come before
  `Authorize` and touch no billing state.
* In `Recharge`: the plain notifications accepted in the `local` environment, and the calls
  that create a payment at the provider (`Prepay`).
* In `PhoneCodes`: captcha before, and the text message after, which change no row.
* In `SignIn`: nicknames and avatars, and the page the browser is sent to in the end.
* In `Accounts`: the local phone that `/me` shows and codes go to may be an older one of the
  same user for as long as a JWT from before the last binding is valid and used
  (`user_store.go:141`); `torn` excepts it from the safety properties.
* In `Accounts`, too: passwords, which only Casdoor keeps, and names that look like phones.
  Two users who exchange phones by three bindings and an outdated JWT can end up each with
  the phone of the other, one's at Casdoor and the other's here. Then `SyncUser` fails on the
  unique key for both, whatever they request, and neither row can change first.
  `FollowsCasdoor` excepts such users (`Blocked`). It takes a third phone, which the run has
  not; the safety properties are proved for any number of phones.
* Everything marked "no" in section 1: presentation, stateless checks, wrappers of vendor
  SDKs, and rows that are written and read one at a time with no rule that relates them.
