---------------------------- MODULE UsageBilling ----------------------------
(***************************************************************************)
(* The billing store: wallets, monthly entitlements, and the two-phase     *)
(* life of a usage request (Authorize, then Commit or Cancel).             *)
(* internal/billing/store.go, plan_admin_store.go, admin_store.go.         *)
(*                                                                         *)
(* Every operation of the store is one database transaction.  It locks     *)
(* with FOR UPDATE each row it reads and later writes, so an operation is  *)
(* one action; one that returns an error rolls back and changes nothing,   *)
(* so its error paths are the negated guards and take no step.             *)
(***************************************************************************)
EXTENDS Totals

CONSTANTS
    Users, Apps,
    Units,        \* metered units, numbered in the order of entitlementDemands
    Modes,        \* billing modes in use, of "entitlement", "coins", "hybrid"
    Keys,         \* usage requests: (app, user, idempotency key) triples
    UserOf,       \* the user of a key
    AppOf,        \* the app of a key
    Demands,      \* the usage vectors clients report
    Plans, PlanApp,
    Codes,        \* entitlement codes of a plan, numbered as they are defined
    Subs,         \* ids of subscription rows
    SubUser, SubPlan,
    PriceRows,    \* prices an administrator may set
    Quotas,       \* monthly quotas an administrator may set
    Adjustments,  \* coins an administrator or a recharge may add or take
    GrantMonths,  \* lengths of a granted subscription
    TicksPerMonth,
    MaxTime,      \* bound on the clock
    MaxCredit     \* bound on the coins ever credited to a user

ASSUME UsageBillingAssumption ==
    /\ IsFiniteSet(Keys)
    /\ IsFiniteSet(Units) /\ Units \subseteq Nat /\ Units # {}
    /\ Modes \subseteq {"entitlement", "coins", "hybrid"}
    /\ UserOf \in [Keys -> Users] /\ AppOf \in [Keys -> Apps]
    /\ Demands \subseteq [Units -> Nat]
    /\ PlanApp \in [Plans -> Apps]
    /\ IsFiniteSet(Codes) /\ Codes \subseteq Nat
    /\ IsFiniteSet(Subs) /\ Subs \subseteq Nat
    /\ SubUser \in [Subs -> Users] /\ SubPlan \in [Subs -> Plans]
    /\ PriceRows \subseteq [coin : Nat \ {0}, per : Nat \ {0}]
    /\ Quotas \subseteq Nat
    /\ Adjustments \subseteq Int
    /\ GrantMonths \subseteq Nat \ {0}
    /\ TicksPerMonth \in Nat \ {0}
    /\ MaxTime \in Nat /\ MaxCredit \in Nat

VARIABLES
    now,      \* the clock, in ticks
    price,    \* price[a][x]: the row findPricing / findUnitPricing selects
    plan,     \* plan[p][c]: the row of plan_entitlements for p and code c
    sub,      \* user_subscriptions
    bal,      \* entitlement_balances, by subscription, code and month
    wallet,   \* wallets
    ledger,   \* wallet_ledger, summed by direction and reason
    usage,    \* usage_requests
    coinRes,  \* usage_reservations of type 'coins', at most one per usage
    unitRes   \* usage_reservations of type 'entitlement'

vars == <<now, price, plan, sub, bal, wallet, ledger, usage, coinRes, unitRes>>

-----------------------------------------------------------------------------
(* Rows and their initial contents.                                        *)

MonthOf(t) == t \div TicksPerMonth

Months == 0 .. MonthOf(MaxTime)

Rows == Subs \X Codes \X Months

NoPrice == [coin |-> 0, per |-> 0]

SomeUnit == CHOOSE x \in Units : TRUE

NoEntitlement == [unit |-> SomeUnit, quota |-> -1]

EntitlementOf(r) == plan[SubPlan[r[1]]][r[2]]

NoRow == [id |-> 0, unit |-> SomeUnit, quota |-> 0, used |-> 0, reserved |-> 0]

NoUsage == [status |-> "none", mode |-> "hybrid",
            estimated |-> [x \in Units |-> 0], reservedCoins |-> 0,
            reservedUnits |-> 0, chargedCoins |-> 0, chargedUnits |-> 0]

NoReservation == [id |-> 0, status |-> "none", amount |-> 0, consumed |-> 0]

Nothing == [r \in Rows |-> 0]

TypeOK ==
    /\ now \in 0 .. MaxTime
    /\ price \in [Apps -> [Units -> PriceRows \cup {NoPrice}]]
    /\ plan \in [Plans -> [Codes -> [unit : Units, quota : Nat] \cup {NoEntitlement}]]
    /\ sub \in [Subs -> [status : {"none", "active", "expired", "cancelled"},
                         ends : Nat]]
    /\ bal \in [Rows -> [id : Nat, unit : Units, quota : Nat,
                         used : Nat, reserved : Nat]]
    /\ wallet \in [Users -> [balance : Nat, reserved : Nat]]
    /\ ledger \in [Users -> [credit : Nat, adjust : Nat, usage : Nat,
                             reserve : Nat, release : Nat]]
    /\ usage \in [Keys ->
            [status : {"none", "authorized", "committed", "cancelled"},
             mode : {"entitlement", "coins", "hybrid"},
             estimated : [Units -> Nat], reservedCoins : Nat,
             reservedUnits : Nat, chargedCoins : Nat, chargedUnits : Nat]]
    /\ coinRes \in [Keys ->
            [id : Nat, status : {"none", "reserved", "consumed", "released"},
             amount : Nat, consumed : Nat]]
    /\ unitRes \in [Keys -> [Rows ->
            [id : Nat, status : {"none", "reserved", "consumed", "released"},
             amount : Nat, consumed : Nat]]]

Init ==
    /\ now = 0
    /\ price \in [Apps -> [Units -> PriceRows \cup {NoPrice}]]
    /\ plan \in [Plans -> [Codes -> [unit : Units, quota : Quotas] \cup {NoEntitlement}]]
    /\ \A p \in Plans, c, d \in Codes :
          d < c /\ plan[p][c] # NoEntitlement => plan[p][d] # NoEntitlement
    /\ sub = [s \in Subs |-> [status |-> "none", ends |-> 0]]
    /\ bal = [r \in Rows |-> NoRow]
    /\ wallet = [u \in Users |-> [balance |-> 0, reserved |-> 0]]
    /\ ledger = [u \in Users |-> [credit |-> 0, adjust |-> 0, usage |-> 0,
                                  reserve |-> 0, release |-> 0]]
    /\ usage = [k \in Keys |-> NoUsage]
    /\ coinRes = [k \in Keys |-> NoReservation]
    /\ unitRes = [k \in Keys |-> [r \in Rows |-> NoReservation]]

-----------------------------------------------------------------------------
(* What is still held for a usage request.                                 *)

OpenAmount(reservation) ==
    IF reservation.status = "reserved" THEN reservation.amount ELSE 0

reservedCoinsForUsage(k) == OpenAmount(coinRes[k])

reservedUnitsForUsage(k) == [r \in Rows |-> OpenAmount(unitRes[k][r])]

(* Faulty variant: holds of other requests are forgotten.                  *)
BalanceOnly(u) == wallet[u].balance

Available(u) == wallet[u].balance - wallet[u].reserved

-----------------------------------------------------------------------------
(* Entitlements of the current month.                                      *)

InForce(s) == sub[s].status = "active" /\ sub[s].ends > now

(* ensureEntitlementBalances for each subscription in S: a missing row of   *)
(* the current month is created with the quota of the plan, an existing    *)
(* one takes over quota and unit and keeps what is used and held.          *)
EnsureBalances(S) ==
    LET due == {r \in Rows : /\ r[1] \in S /\ r[3] = MonthOf(now)
                             /\ EntitlementOf(r) # NoEntitlement}
        new == {r \in due : bal[r].id = 0}
        old == Cardinality({r \in Rows : bal[r].id # 0})
        upTo(r) == {q \in new : \/ q[1] < r[1]
                                \/ q[1] = r[1] /\ q[2] <= r[2]}
    IN  [r \in Rows |->
            IF r \notin due THEN bal[r]
            ELSE [id |-> IF r \in new THEN old + Cardinality(upTo(r)) ELSE bal[r].id,
                  unit |-> EntitlementOf(r).unit, quota |-> EntitlementOf(r).quota,
                  used |-> bal[r].used, reserved |-> bal[r].reserved]]

(* The subscriptions of user u in app a that are in force.                 *)
InForceFor(u, a) ==
    {s \in Subs : InForce(s) /\ SubUser[s] = u /\ PlanApp[SubPlan[s]] = a}

(* Serve the demand for each unit from the rows in the given order, taking *)
(* at most cap[r] from row r.                                              *)
Fill(rows, order, cap, demand) ==
    [r \in Rows |->
        LET earlier == {q \in Rows : /\ rows[q].unit = rows[r].unit
                                     /\ order[q] < order[r]}
        IN  Min2(cap[r], Max2(0, demand[rows[r].unit] - Total(cap, earlier)))]

(* usageDemandMap less what the rows served.                               *)
Remaining(rows, taken, demand) ==
    [x \in Units |-> demand[x] - Total(taken, {r \in Rows : rows[r].unit = x})]

(* Faulty variants: quota held by other requests is handed out again; rows *)
(* of past months are drawn on.                                            *)
ReservableIgnoringHolds(rows, S) ==
    [r \in Rows |->
        IF r[1] \in S /\ r[3] = MonthOf(now)
        THEN Max2(0, rows[r].quota - rows[r].used) ELSE 0]

ReservableAnyMonth(rows, S) ==
    [r \in Rows |->
        IF r[1] \in S
        THEN Max2(0, rows[r].quota - rows[r].used - rows[r].reserved) ELSE 0]

(* What reserveEntitlementUnit may take of a row: only rows of the current *)
(* month whose subscription is in force, and never more than is left.      *)
Reservable(rows, S) ==
    [r \in Rows |->
        IF r[1] \in S /\ r[3] = MonthOf(now)
        THEN Max2(0, rows[r].quota - rows[r].used - rows[r].reserved)
        ELSE 0]

rejectRemainingEntitlementUsage(mode, rest) ==
    mode = "entitlement" /\ \E x \in Units : rest[x] > 0

-----------------------------------------------------------------------------
(* Prices.                                                                 *)

PricingFound(a, mode, rest) ==
    mode # "entitlement" =>
        \A x \in Units : rest[x] > 0 => price[a][x] # NoPrice

priceUsageCoins(a, mode, rest) ==
    IF mode = "entitlement" THEN 0
    ELSE Total([x \in Units |->
                  CeilDiv(rest[x] * price[a][x].coin, price[a][x].per)], Units)

-----------------------------------------------------------------------------
(* The operations on a usage request.                                      *)

Reserved(amount, id) ==
    IF amount > 0
    THEN [id |-> id, status |-> "reserved", amount |-> amount, consumed |-> 0]
    ELSE NoReservation

(* The order in which a request's reservations are inserted: unit by unit,  *)
(* and for one unit in the order of the rows' ids.                         *)
ReservationId(rows, taken, r) ==
    Cardinality({q \in Rows : /\ taken[q] > 0
                              /\ \/ rows[q].unit < rows[r].unit
                                 \/ /\ rows[q].unit = rows[r].unit
                                    /\ rows[q].id <= rows[r].id})

(* Faulty variant: coins mode draws on entitlements too.                   *)
SubsServingAnyMode(k, mode, estimated) == InForceFor(UserOf[k], AppOf[k])

(* Faulty variant: the rows of other users serve as well.                  *)
SubsServingAnyUser(k, mode, estimated) ==
    IF mode = "coins" \/ \A x \in Units : estimated[x] = 0
    THEN {} ELSE UNION {InForceFor(u, AppOf[k]) : u \in Users}

(* The subscriptions whose rows may serve a request; none in coins mode or *)
(* for an empty estimate.                                                  *)
SubsServing(k, mode, estimated) ==
    IF mode = "coins" \/ \A x \in Units : estimated[x] = 0
    THEN {} ELSE InForceFor(UserOf[k], AppOf[k])

(* reserveEntitlements: the units taken from each row, refreshed before.   *)
reserveEntitlements(k, mode, estimated) ==
    LET S == SubsServing(k, mode, estimated)
        rows == EnsureBalances(S)
    IN  Fill(rows, [r \in Rows |-> rows[r].id], Reservable(rows, S), estimated)

Unserved(k, mode, estimated) ==
    Remaining(EnsureBalances(SubsServing(k, mode, estimated)),
              reserveEntitlements(k, mode, estimated), estimated)

CoinsToReserve(k, mode, estimated) ==
    priceUsageCoins(AppOf[k], mode, Unserved(k, mode, estimated))

AuthorizeAccepted(k, mode, estimated) ==
    /\ ~ rejectRemainingEntitlementUsage(mode, Unserved(k, mode, estimated))
    /\ PricingFound(AppOf[k], mode, Unserved(k, mode, estimated))
    /\ CoinsToReserve(k, mode, estimated) <= Available(UserOf[k])

(* The first Authorize for key k.  A repeated one finds the usage row and  *)
(* returns it as it is, without a step.                                    *)
Authorize(k, mode, estimated) ==
    LET u == UserOf[k]
        rows == EnsureBalances(SubsServing(k, mode, estimated))
        units == reserveEntitlements(k, mode, estimated)
        coins == CoinsToReserve(k, mode, estimated)
    IN  /\ usage[k].status = "none"
        /\ AuthorizeAccepted(k, mode, estimated)
        /\ bal' = [r \in Rows |-> [rows[r] EXCEPT !.reserved = @ + units[r]]]
        /\ unitRes' = [unitRes EXCEPT ![k] =
                          [r \in Rows |-> Reserved(units[r], ReservationId(rows, units, r))]]
        /\ wallet' = [wallet EXCEPT ![u].reserved = @ + coins]
        /\ coinRes' = [coinRes EXCEPT ![k] = Reserved(coins, 0)]
        /\ ledger' = [ledger EXCEPT ![u].reserve = @ + coins]
        /\ usage' = [usage EXCEPT ![k] =
                        [status |-> "authorized", mode |-> mode,
                         estimated |-> estimated, reservedCoins |-> coins,
                         reservedUnits |-> Total(units, Rows),
                         chargedCoins |-> 0, chargedUnits |-> 0]]
        /\ UNCHANGED <<now, price, plan, sub>>

(* Faulty variants: nothing is released; what was held counts as consumed. *)
SettledUnreleased(reservation, amount) ==
    IF amount = 0 THEN reservation
    ELSE [reservation EXCEPT !.status = "consumed",
                             !.consumed = Min2(reservation.amount, amount)]

SettledInFull(reservation, amount) ==
    IF reservation.status # "reserved" THEN reservation
    ELSE [reservation EXCEPT !.status = "consumed", !.consumed = reservation.amount]

(* A reservation once its usage is settled: consumed as far as amount goes, *)
(* released when none of it was needed.                                    *)
Settled(reservation, amount) ==
    IF reservation.status # "reserved" THEN reservation
    ELSE IF amount = 0
         THEN [reservation EXCEPT !.status = "released"]
         ELSE [reservation EXCEPT !.status = "consumed",
                                  !.consumed = Min2(reservation.amount, amount)]

(* Faulty variant: units held in a month are lost at its end.              *)
consumeThisMonth(k, actual) ==
    Fill(bal, [r \in Rows |-> unitRes[k][r].id],
         [r \in Rows |-> IF r[3] = MonthOf(now) THEN OpenAmount(unitRes[k][r]) ELSE 0],
         actual)

(* consumeEntitlements: the units taken from the rows held for k, in the    *)
(* order of the reservations' ids.                                         *)
consumeEntitlements(k, actual) ==
    IF usage[k].mode = "coins" THEN Nothing
    ELSE Fill(bal, [r \in Rows |-> unitRes[k][r].id], reservedUnitsForUsage(k), actual)

(* The coins a Commit charges for what the entitlements do not cover.      *)
CoinsToCharge(k, actual) ==
    priceUsageCoins(AppOf[k], usage[k].mode,
                    Remaining(bal, consumeEntitlements(k, actual), actual))

(* Faulty variant: a repeated Commit is taken for a first one.              *)
CommitRepeatable(k, actual) ==
    /\ usage[k].status \in {"authorized", "committed"}
    /\ PricingFound(AppOf[k], usage[k].mode, actual)
    /\ CoinsToCharge(k, actual) - reservedCoinsForUsage(k) <= Available(UserOf[k])

CommitAccepted(k, actual) ==
    LET rest == Remaining(bal, consumeEntitlements(k, actual), actual)
        extra == Max2(0, CoinsToCharge(k, actual) - reservedCoinsForUsage(k))
    IN  /\ usage[k].status = "authorized"
        /\ ~ rejectRemainingEntitlementUsage(usage[k].mode, rest)
        /\ PricingFound(AppOf[k], usage[k].mode, rest)
        /\ extra <= Available(UserOf[k])

Commit(k, actual) ==
    LET u == UserOf[k]
        units == consumeEntitlements(k, actual)
        heldUnits == reservedUnitsForUsage(k)
        coins == CoinsToCharge(k, actual)
        held == reservedCoinsForUsage(k)
    IN  /\ CommitAccepted(k, actual)
        /\ bal' = [r \in Rows |-> [bal[r] EXCEPT !.used = @ + units[r],
                                                 !.reserved = @ - heldUnits[r]]]
        /\ unitRes' = [unitRes EXCEPT ![k] =
                          [r \in Rows |-> Settled(unitRes[k][r], units[r])]]
        /\ wallet' = [wallet EXCEPT ![u].balance = @ - coins,
                                    ![u].reserved = @ - held]
        /\ coinRes' = [coinRes EXCEPT ![k] = Settled(@, coins)]
        /\ ledger' = [ledger EXCEPT
                        ![u].usage = @ + coins,
                        ![u].release = @ + IF coins = 0 THEN held ELSE 0]
        /\ usage' = [usage EXCEPT ![k].status = "committed",
                                  ![k].chargedCoins = coins,
                                  ![k].chargedUnits = Total(units, Rows)]
        /\ UNCHANGED <<now, price, plan, sub>>

Cancel(k) ==
    LET u == UserOf[k]
        heldUnits == reservedUnitsForUsage(k)
        held == reservedCoinsForUsage(k)
    IN  /\ usage[k].status = "authorized"
        /\ bal' = [r \in Rows |-> [bal[r] EXCEPT !.reserved = @ - heldUnits[r]]]
        /\ unitRes' = [unitRes EXCEPT ![k] =
                          [r \in Rows |-> Settled(unitRes[k][r], 0)]]
        /\ wallet' = [wallet EXCEPT ![u].reserved = @ - held]
        /\ coinRes' = [coinRes EXCEPT ![k] = Settled(@, 0)]
        /\ ledger' = [ledger EXCEPT ![u].release = @ + held]
        /\ usage' = [usage EXCEPT ![k].status = "cancelled"]
        /\ UNCHANGED <<now, price, plan, sub>>

-----------------------------------------------------------------------------
(* Wallet, prices, plans and subscriptions change under the requests.      *)

(* Also the credit of a paid recharge order, which adds to the balance in   *)
(* the same way.                                                           *)
AdminAdjustCoins(u, coins) ==
    /\ coins # 0
    /\ wallet[u].balance + coins >= wallet[u].reserved
    /\ ledger[u].credit + coins <= MaxCredit
    /\ wallet' = [wallet EXCEPT ![u].balance = @ + coins]
    /\ ledger' = [ledger EXCEPT ![u].credit = @ + Max2(0, coins),
                                ![u].adjust = @ + Max2(0, -coins)]
    /\ UNCHANGED <<now, price, plan, sub, bal, usage, coinRes, unitRes>>

(* The row that findPricing or findUnitPricing selects from now on.         *)
SetPrice(a, x, row) ==
    /\ price' = [price EXCEPT ![a][x] = row]
    /\ UNCHANGED <<now, plan, sub, bal, wallet, ledger, usage, coinRes, unitRes>>

(* AdminUpsertPricing for tokens, AdminUpsertUnitPricing for other units.   *)
AdminUpsertPricing(a, x, row) == SetPrice(a, x, row)

(* AdminDeleteTokenPricing, AdminDeleteUnitPricing.                        *)
AdminDeletePricing(a, x) == SetPrice(a, x, NoPrice)

(* The definition changes; balances follow at their next EnsureBalances.   *)
AdminUpsertPlanEntitlement(p, c, x, quota) ==
    /\ \A d \in Codes : d < c => plan[p][d] # NoEntitlement
    /\ plan' = [plan EXCEPT ![p][c] = [unit |-> x, quota |-> quota]]
    /\ UNCHANGED <<now, price, sub, bal, wallet, ledger, usage, coinRes, unitRes>>

(* Faulty variant: a grant never looks for a subscription to extend.       *)
GrantAlwaysInserts(u, p, months) ==
    /\ \E s \in Subs :
          /\ sub[s].status = "none" /\ SubUser[s] = u /\ SubPlan[s] = p
          /\ sub' = [sub EXCEPT ![s] = [status |-> "active",
                                       ends |-> now + months * TicksPerMonth]]
          /\ bal' = EnsureBalances({s})
    /\ UNCHANGED <<now, price, plan, wallet, ledger, usage, coinRes, unitRes>>

(* Extend the subscription in force that ends last, or insert a new one;   *)
(* any other one of the plan in force is cancelled.                        *)
AdminGrantSubscription(u, p, months) ==
    LET current == {s \in Subs : InForce(s) /\ SubUser[s] = u /\ SubPlan[s] = p}
        Grant(s, from) ==
            /\ from + months * TicksPerMonth <= MaxTime + TicksPerMonth
            /\ sub' = [t \in Subs |->
                 IF t = s THEN [status |-> "active",
                                ends |-> from + months * TicksPerMonth]
                 ELSE IF t \in current THEN [sub[t] EXCEPT !.status = "cancelled"]
                 ELSE sub[t]]
            /\ bal' = EnsureBalances({s})
    IN  /\ \/ \E s \in current :
                 /\ \A t \in current : sub[t].ends <= sub[s].ends
                 /\ Grant(s, sub[s].ends)
           \/ \E s \in Subs :
                 /\ current = {}
                 /\ sub[s].status = "none" /\ SubUser[s] = u /\ SubPlan[s] = p
                 /\ Grant(s, now)
        /\ UNCHANGED <<now, price, plan, wallet, ledger, usage, coinRes, unitRes>>

RunEntitlementMaintenance ==
    /\ sub' = [s \in Subs |->
                 IF sub[s].status = "active" /\ sub[s].ends <= now
                 THEN [sub[s] EXCEPT !.status = "expired"] ELSE sub[s]]
    /\ bal' = EnsureBalances({s \in Subs : InForce(s)})
    /\ UNCHANGED <<now, price, plan, wallet, ledger, usage, coinRes, unitRes>>

(* Reading a user's entitlements refreshes the rows of the current month.  *)
EnsureCurrentMonthEntitlementsForUser(u) ==
    /\ bal' = EnsureBalances({s \in Subs : InForce(s) /\ SubUser[s] = u})
    /\ UNCHANGED <<now, price, plan, sub, wallet, ledger, usage, coinRes, unitRes>>

Tick ==
    /\ now < MaxTime
    /\ now' = now + 1
    /\ UNCHANGED <<price, plan, sub, bal, wallet, ledger, usage, coinRes, unitRes>>

Requests ==
    \E k \in Keys :
        \/ \E mode \in Modes, d \in Demands : Authorize(k, mode, d)
        \/ \E d \in Demands : Commit(k, d)
        \/ Cancel(k)

(* What administrators change in the catalogue.                            *)
CatalogueEdits ==
    \/ \E a \in Apps, x \in Units :
          \/ \E row \in PriceRows : AdminUpsertPricing(a, x, row)
          \/ AdminDeletePricing(a, x)
    \/ \E p \in Plans, c \in Codes, x \in Units, q \in Quotas :
          AdminUpsertPlanEntitlement(p, c, x, q)

(* What changes a user's assets, and the passing of time.                  *)
AssetChanges ==
    \/ \E u \in Users, n \in Adjustments : AdminAdjustCoins(u, n)
    \/ \E u \in Users, p \in Plans, m \in GrantMonths :
          AdminGrantSubscription(u, p, m)
    \/ RunEntitlementMaintenance
    \/ \E u \in Users : EnsureCurrentMonthEntitlementsForUser(u)
    \/ Tick

Next == Requests \/ AssetChanges \/ CatalogueEdits

Spec == Init /\ [][Next]_vars

(* The same, while the catalogue stays as it is.                           *)
StableSpec == Init /\ [][Requests \/ AssetChanges]_vars

-----------------------------------------------------------------------------
(* Safety.                                                                 *)

KeysOf(u) == {k \in Keys : UserOf[k] = u}

(* wallets.reserved_coins is the sum of the user's open coin reservations: *)
(* no interleaving of Authorize, Commit and Cancel leaks a hold or frees   *)
(* one twice.                                                              *)
HoldsMatchWallet ==
    \A u \in Users :
        wallet[u].reserved =
            Total([k \in Keys |-> reservedCoinsForUsage(k)], KeysOf(u))

(* A wallet always covers what is held on it, whatever is charged beyond   *)
(* its reservation and whatever an administrator takes out meanwhile.      *)
NoOverdraft ==
    \A u \in Users : 0 <= wallet[u].reserved /\ wallet[u].reserved <= wallet[u].balance

(* The balance is what the wallet ledger says: credits less debits.        *)
BalanceMatchesLedger ==
    \A u \in Users :
        wallet[u].balance = ledger[u].credit - ledger[u].adjust - ledger[u].usage

(* The usage debits of a user are the charges of the user's committed      *)
(* requests, each counted once: a logical request is never charged twice.  *)
EachRequestDebitedOnce ==
    /\ \A u \in Users :
          ledger[u].usage = Total([k \in Keys |-> usage[k].chargedCoins], KeysOf(u))
    /\ \A k \in Keys :
          usage[k].status # "committed" =>
              usage[k].chargedCoins = 0 /\ usage[k].chargedUnits = 0

(* entitlement_balances.reserved is the sum of the open reservations on    *)
(* that row, also for rows of past months and ended subscriptions.         *)
HoldsMatchRows ==
    \A r \in Rows :
        bal[r].reserved = Total([k \in Keys |-> OpenAmount(unitRes[k][r])], Keys)

(* entitlement_balances.used is the sum of what requests consumed of that  *)
(* row, and a committed request reports as charged what it consumed.       *)
UsedMatchesConsumption ==
    /\ \A r \in Rows :
          bal[r].used = Total([k \in Keys |-> unitRes[k][r].consumed], Keys)
    /\ \A k \in Keys :
          usage[k].chargedUnits = Total([r \in Rows |-> unitRes[k][r].consumed], Rows)

(* A request that is not open holds neither coins nor units.               *)
SettledHoldsNothing ==
    \A k \in Keys :
        usage[k].status # "authorized" =>
            /\ coinRes[k].status # "reserved"
            /\ \A r \in Rows : unitRes[k][r].status # "reserved"

(* Units are held only on rows of the request's own user and app.          *)
HoldsOwnRows ==
    \A k \in Keys, r \in Rows :
        unitRes[k][r].status # "none" =>
            /\ bal[r].id # 0
            /\ SubUser[r[1]] = UserOf[k]
            /\ PlanApp[SubPlan[r[1]]] = AppOf[k]

(* Repeated grants extend one subscription: a user never draws the quota   *)
(* of one plan from two subscriptions at a time.                           *)
OneSubscriptionPerPlan ==
    \A s, t \in Subs :
        /\ InForce(s) /\ InForce(t)
        /\ SubUser[s] = SubUser[t] /\ SubPlan[s] = SubPlan[t]
        => s = t

(* A usage request in entitlement mode never costs coins, and one in coins *)
(* mode never touches a quota.                                             *)
ModesKeptApart ==
    \A k \in Keys :
        /\ usage[k].mode = "entitlement" =>
              coinRes[k] = NoReservation /\ usage[k].chargedCoins = 0
        /\ usage[k].mode = "coins" =>
              \A r \in Rows : unitRes[k][r] = NoReservation

(* What preauthorisation is for: as long as prices and plan units stay,    *)
(* a request that used no more than it announced can be committed, however *)
(* the wallet, the month and the subscription have changed meanwhile.      *)
PreauthorizationSuffices ==
    \A k \in Keys, d \in Demands :
        /\ usage[k].status = "authorized"
        /\ \A x \in Units : d[x] <= usage[k].estimated[x]
        => CommitAccepted(k, d) /\ CoinsToCharge(k, d) <= usage[k].reservedCoins

-----------------------------------------------------------------------------
(* What a step may never do.                                               *)

(* A committed or cancelled request stays as it is: a late Commit, a retry *)
(* or a Cancel that lost the race changes nothing.                         *)
SettledForever ==
    [][\A k \in Keys :
          usage[k].status \in {"committed", "cancelled"} =>
              UNCHANGED <<usage[k], coinRes[k], unitRes[k]>>]_vars

(* No step draws a row beyond its quota; only lowering the quota can leave *)
(* a row overdrawn.                                                        *)
QuotaNeverExceeded ==
    [][\A r \in Rows :
          bal'[r].used + bal'[r].reserved > bal[r].used + bal[r].reserved =>
              bal'[r].used + bal'[r].reserved <= bal'[r].quota]_vars

(* Quotas do not carry over: a row takes new holds only in its own month   *)
(* and while its subscription is in force.                                 *)
NoCarryOver ==
    [][\A r \in Rows :
          bal'[r].reserved > bal[r].reserved =>
              r[3] = MonthOf(now) /\ InForce(r[1])]_vars

(* Nobody pays for another's request.  Coins leave a wallet only in the    *)
(* amount charged for a request of that user, or by an administrator's     *)
(* adjustment; a subscription's units are used up only by a request of its *)
(* user in its plan's app, as much as the request reports as consumed.     *)
OnlyOwnRequestsPay ==
    [][LET Commits(k) == usage[k].status = "authorized" /\ usage'[k].status = "committed"
       IN  /\ \A u \in Users :
                 wallet'[u].balance < wallet[u].balance =>
                     \/ ledger'[u].adjust - ledger[u].adjust
                          = wallet[u].balance - wallet'[u].balance
                     \/ \E k \in KeysOf(u) :
                          /\ Commits(k)
                          /\ usage'[k].chargedCoins = wallet[u].balance - wallet'[u].balance
           /\ \A r \in Rows :
                 bal'[r].used > bal[r].used =>
                     \E k \in KeysOf(SubUser[r[1]]) :
                         /\ AppOf[k] = PlanApp[SubPlan[r[1]]]
                         /\ Commits(k)
                         /\ unitRes'[k][r].consumed = bal'[r].used - bal[r].used]_vars
=============================================================================
