------------------------- MODULE UsageBilling_proofs -------------------------
(***************************************************************************)
(* Proofs about UsageBilling, for any users, keys, units, prices, plans    *)
(* and subscriptions, and any bounds on the clock and on credits.          *)
(*                                                                         *)
(* The first part proves the invariant IInv from the actions.  The wallet  *)
(* is only ever changed together with the reservations of one request, so  *)
(* it says that reserved_coins and the reserved column of every            *)
(* entitlement row are the sums of the open reservations; NoOverdraft and  *)
(* the types of the decremented columns follow from those sums.            *)
(*                                                                         *)
(* The second part, from "What the steps do", is on top of IInv: what      *)
(* requests are charged, what they consume of the entitlements, and on     *)
(* which rows.  Three lemmas say what Authorize, Commit and Cancel do; a   *)
(* fourth, that all other steps leave the requests alone and only refresh  *)
(* rows.  Each property then has an induction of its own that rests on     *)
(* these four and not on the actions; and so do what preauthorization is   *)
(* for and the refinement of PrepaidAccounts at the end.                   *)
(***************************************************************************)
EXTENDS PrepaidRefinement, Totals_proofs

(* The inductive invariant.                                                *)
IInv ==
    /\ TypeOK
    /\ SettledHoldsNothing
    /\ HoldsMatchWallet
    /\ HoldsMatchRows
    /\ NoOverdraft
    /\ BalanceMatchesLedger

Reservation == [id : Nat, status : {"none", "reserved", "consumed", "released"},
                amount : Nat, consumed : Nat]

LedgerRow == [credit : Nat, adjust : Nat, usage : Nat, reserve : Nat, release : Nat]

BalanceRow == [id : Nat, unit : Units, quota : Nat, used : Nat, reserved : Nat]

-----------------------------------------------------------------------------
(* Facts about the constants and the helpers.                              *)

(* There are finitely many rows: TicksPerMonth and MaxTime bound the       *)
(* months.                                                                 *)
LEMMA RowsFinite == IsFiniteSet(Rows)
<1> DEFINE Pairs == (Subs \X Codes) \X Months
           g == [q \in Pairs |-> <<q[1][1], q[1][2], q[2]>>]
<1>1. MonthOf(MaxTime) \in Int
  BY UsageBillingAssumption DEF MonthOf
<1>2. IsFiniteSet(Months)
  BY <1>1, FS_Interval DEF Months
<1>3. IsFiniteSet(Subs) /\ IsFiniteSet(Codes)
  BY UsageBillingAssumption
<1>4. IsFiniteSet(Subs \X Codes)
  BY <1>3, FS_Product, Zenon
<1>5. IsFiniteSet(Pairs)
  BY <1>2, <1>4, FS_Product, Zenon
<1>6. g \in Surjection(Pairs, Rows)
  <2>1. g \in [Pairs -> Rows]
    BY DEF Rows
  <2>2. ASSUME NEW r \in Rows
        PROVE  \E q \in Pairs : g[q] = r
    <3>1. <<<<r[1], r[2]>>, r[3]>> \in Pairs
      BY DEF Rows
    <3>2. g[<<<<r[1], r[2]>>, r[3]>>] = r
      BY <3>1 DEF Rows
    <3>3. QED
      BY <3>1, <3>2
  <2>3. QED
    BY <2>1, <2>2 DEF Surjection
<1>7. QED
  BY <1>5, <1>6, FS_Surjection

(* The requests of a user are finitely many of the keys.                   *)
LEMMA KeysOfFinite == \A u : IsFiniteSet(KeysOf(u)) /\ KeysOf(u) \subseteq Keys
<1> SUFFICES ASSUME NEW u
             PROVE  IsFiniteSet(KeysOf(u)) /\ KeysOf(u) \subseteq Keys
  OBVIOUS
<1>1. KeysOf(u) \in SUBSET Keys
  BY DEF KeysOf
<1>2. IsFiniteSet(Keys)
  BY UsageBillingAssumption
<1>3. QED
  BY <1>1, <1>2, FS_Subset

(* A column that changes for key k only changes the sum of k's user, by    *)
(* that change, and leaves the other users' sums.                          *)
LEMMA OneKeyTotal ==
    ASSUME NEW k \in Keys, NEW f \in [Keys -> Nat], NEW g \in [Keys -> Nat],
           \A j \in Keys \ {k} : g[j] = f[j], NEW u
    PROVE  Total(g, KeysOf(u)) =
              IF u = UserOf[k] THEN Total(f, KeysOf(u)) - f[k] + g[k]
                               ELSE Total(f, KeysOf(u))
<1>1. CASE u = UserOf[k]
  <2>1. k \in KeysOf(u)
    BY <1>1 DEF KeysOf
  <2>2. QED
    BY <1>1, <2>1, KeysOfFinite, TotalUpdate
<1>2. CASE u # UserOf[k]
  <2>1. \A j \in KeysOf(u) : f[j] = g[j]
    BY <1>2 DEF KeysOf
  <2>2. QED
    BY <1>2, <2>1, TotalCongruence
<1>3. QED
  BY <1>1, <1>2

(* Fill serves a row with a natural number of units, at most its cap.       *)
LEMMA FillBounds ==
    ASSUME NEW rows \in [Rows -> BalanceRow], NEW order,
           NEW cap \in [Rows -> Nat], NEW demand \in [Units -> Nat]
    PROVE  /\ Fill(rows, order, cap, demand) \in [Rows -> Nat]
           /\ \A r \in Rows : Fill(rows, order, cap, demand)[r] <= cap[r]
<1>1. SUFFICES ASSUME NEW r \in Rows
               PROVE  /\ Fill(rows, order, cap, demand)[r] \in Nat
                      /\ Fill(rows, order, cap, demand)[r] <= cap[r]
  BY DEF Fill
<1> DEFINE earlier == {q \in Rows : /\ rows[q].unit = rows[r].unit
                                    /\ order[q] < order[r]}
<1>2. IsFiniteSet(earlier)
  BY RowsFinite, FS_Subset
<1>3. Total(cap, earlier) \in Nat
  BY <1>2, TotalType
<1>4. demand[rows[r].unit] \in Nat /\ cap[r] \in Nat
  BY DEF BalanceRow
<1>5. Fill(rows, order, cap, demand)[r]
        = Min2(cap[r], Max2(0, demand[rows[r].unit] - Total(cap, earlier)))
  BY DEF Fill
<1>6. QED
  BY <1>3, <1>4, <1>5 DEF Min2, Max2

(* The price of any remainder is a natural number of coins.                *)
LEMMA PriceType ==
    ASSUME TypeOK, NEW a \in Apps, NEW mode,
           NEW rows \in [Rows -> BalanceRow], NEW taken \in [Rows -> Nat],
           NEW demand \in [Units -> Nat]
    PROVE  priceUsageCoins(a, mode, Remaining(rows, taken, demand)) \in Nat
<1> DEFINE rest == Remaining(rows, taken, demand)
           cost == [x \in Units |->
                      CeilDiv(rest[x] * price[a][x].coin, price[a][x].per)]
<1>1. ASSUME NEW x \in Units
      PROVE  cost[x] \in Nat
  <2>1. IsFiniteSet({r \in Rows : rows[r].unit = x})
    BY RowsFinite, FS_Subset
  <2>2. Total(taken, {r \in Rows : rows[r].unit = x}) \in Nat
    BY <2>1, TotalType
  <2>3. rest[x] \in Int
    <3>1. rest[x] = demand[x] - Total(taken, {r \in Rows : rows[r].unit = x})
      BY DEF Remaining
    <3>2. demand[x] \in Nat
      OBVIOUS
    <3>3. QED
      BY <2>2, <3>1, <3>2
  <2>4. price[a][x].coin \in Nat /\ price[a][x].per \in Nat
    BY UsageBillingAssumption DEF TypeOK, NoPrice
  <2> DEFINE n == rest[x] * price[a][x].coin
             d == price[a][x].per
  <2>5. n \in Int /\ d \in Int
    BY <2>3, <2>4
  <2>6. cost[x] = CeilDiv(n, d)
    OBVIOUS
  <2> HIDE DEF n, d, cost
  <2>7. CeilDiv(n, d) \in Nat
    BY <2>5, CeilDivType
  <2>8. QED
    BY <2>6, <2>7
<1>2. IsFiniteSet(Units)
  BY UsageBillingAssumption
<1>3. Total(cost, Units) \in Nat
  BY <1>1, <1>2, TotalType
<1>4. QED
  BY <1>3 DEF priceUsageCoins

(* EnsureBalances keeps what is used and held on every row.                *)
LEMMA EnsureBalancesKeeps ==
    ASSUME TypeOK, NEW S, S \subseteq Subs
    PROVE  /\ EnsureBalances(S) \in [Rows -> BalanceRow]
           /\ \A r \in Rows : /\ EnsureBalances(S)[r].used = bal[r].used
                              /\ EnsureBalances(S)[r].reserved = bal[r].reserved
<1> DEFINE due == {r \in Rows : /\ r[1] \in S /\ r[3] = MonthOf(now)
                                /\ EntitlementOf(r) # NoEntitlement}
           new == {r \in due : bal[r].id = 0}
           old == Cardinality({r \in Rows : bal[r].id # 0})
           upTo(r) == {q \in new : \/ q[1] < r[1]
                                   \/ q[1] = r[1] /\ q[2] <= r[2]}
<1>1. old \in Nat
  BY RowsFinite, FS_Subset, FS_CardinalityType
<1>2. ASSUME NEW r \in Rows
      PROVE  /\ EnsureBalances(S)[r] \in BalanceRow
             /\ EnsureBalances(S)[r].used = bal[r].used
             /\ EnsureBalances(S)[r].reserved = bal[r].reserved
  <2>1. bal[r] \in BalanceRow
    BY DEF TypeOK, BalanceRow
  <2>2. Cardinality(upTo(r)) \in Nat
    <3>1. upTo(r) \in SUBSET Rows
      OBVIOUS
    <3>2. QED
      BY <3>1, RowsFinite, FS_Subset, FS_CardinalityType
  <2>3. r \in due => EntitlementOf(r) \in [unit : Units, quota : Nat]
    <3>1. r[1] \in Subs /\ r[2] \in Codes
      BY DEF Rows
    <3>2. SubPlan[r[1]] \in Plans
      BY <3>1, UsageBillingAssumption
    <3>3. EntitlementOf(r) \in [unit : Units, quota : Nat] \cup {NoEntitlement}
      BY <3>1, <3>2 DEF TypeOK, EntitlementOf
    <3>4. QED
      BY <3>3
  <2>4. EnsureBalances(S)[r] =
          IF r \notin due THEN bal[r]
          ELSE [id |-> IF r \in new THEN old + Cardinality(upTo(r)) ELSE bal[r].id,
                unit |-> EntitlementOf(r).unit, quota |-> EntitlementOf(r).quota,
                used |-> bal[r].used, reserved |-> bal[r].reserved]
    BY DEF EnsureBalances
  <2> HIDE DEF old, upTo, new
  <2>5. QED
    BY <1>1, <2>1, <2>2, <2>3, <2>4 DEF BalanceRow
<1>3. QED
  BY <1>2 DEF EnsureBalances
-----------------------------------------------------------------------------
(* Reservations.                                                           *)

(* An open amount is a natural number.                                     *)
LEMMA OpenAmountType ==
    ASSUME NEW x \in Reservation
    PROVE  OpenAmount(x) \in Nat
BY DEF OpenAmount, Reservation

(* A new reservation holds exactly the amount it is made for.              *)
LEMMA ReservedHolds ==
    ASSUME NEW n \in Nat, NEW id \in Nat
    PROVE  Reserved(n, id) \in Reservation /\ OpenAmount(Reserved(n, id)) = n
BY DEF Reserved, Reservation, NoReservation, OpenAmount

(* A settled reservation holds nothing, whatever was consumed of it.       *)
LEMMA SettledHolds ==
    ASSUME NEW x \in Reservation, NEW n \in Nat
    PROVE  /\ Settled(x, n) \in Reservation
           /\ Settled(x, n).status # "reserved"
           /\ OpenAmount(Settled(x, n)) = 0
<1>1. CASE x.status # "reserved"
  BY <1>1 DEF Settled, OpenAmount
<1>2. CASE x.status = "reserved" /\ n = 0
  BY <1>2 DEF Settled, Reservation, OpenAmount
<1>3. CASE x.status = "reserved" /\ n # 0
  <2>1. Settled(x, n) = [[x EXCEPT !.status = "consumed"]
                           EXCEPT !.consumed = Min2(x.amount, n)]
    BY <1>3 DEF Settled, Reservation
  <2>2. Min2(x.amount, n) \in Nat
    BY DEF Min2, Reservation
  <2>3. QED
    BY <2>1, <2>2 DEF Reservation, OpenAmount
<1>4. QED
  BY <1>1, <1>2, <1>3

(* A request holds no more than its user's wallet and its rows have held.  *)
LEMMA HeldBounds ==
    ASSUME TypeOK, HoldsMatchWallet, HoldsMatchRows, NEW k \in Keys
    PROVE  /\ reservedCoinsForUsage(k) \in Nat
           /\ reservedCoinsForUsage(k) <= wallet[UserOf[k]].reserved
           /\ reservedUnitsForUsage(k) \in [Rows -> Nat]
           /\ \A r \in Rows : reservedUnitsForUsage(k)[r] <= bal[r].reserved
<1>1. \A j \in Keys : reservedCoinsForUsage(j) \in Nat
  BY OpenAmountType DEF TypeOK, Reservation, reservedCoinsForUsage
<1>2. \A j \in Keys, r \in Rows : OpenAmount(unitRes[j][r]) \in Nat
  BY OpenAmountType DEF TypeOK, Reservation
<1>3. reservedCoinsForUsage(k) <= wallet[UserOf[k]].reserved
  <2> DEFINE held == [j \in Keys |-> reservedCoinsForUsage(j)]
  <2>1. UserOf[k] \in Users /\ k \in KeysOf(UserOf[k])
    BY UsageBillingAssumption DEF KeysOf
  <2>2. IsFiniteSet(KeysOf(UserOf[k])) /\ KeysOf(UserOf[k]) \subseteq Keys
    BY KeysOfFinite
  <2>3. \A j \in KeysOf(UserOf[k]) : held[j] \in Nat
    BY <1>1, <2>2
  <2>4. held[k] <= Total(held, KeysOf(UserOf[k]))
    BY <2>1, <2>2, <2>3, TotalBounds
  <2>5. QED
    BY <2>1, <2>4 DEF HoldsMatchWallet
<1>4. ASSUME NEW r \in Rows
      PROVE  OpenAmount(unitRes[k][r]) <= bal[r].reserved
  <2> DEFINE held == [j \in Keys |-> OpenAmount(unitRes[j][r])]
  <2>1. IsFiniteSet(Keys)
    BY UsageBillingAssumption
  <2>2. \A j \in Keys : held[j] \in Nat
    BY <1>2
  <2>3. held[k] <= Total(held, Keys)
    BY <2>1, <2>2, TotalBounds
  <2>4. QED
    BY <2>3 DEF HoldsMatchRows
<1>5. QED
  BY <1>1, <1>2, <1>3, <1>4 DEF reservedUnitsForUsage

(* The coin side of a step: the reservation of one request is replaced and *)
(* its user's reserved coins change by the difference.                     *)
LEMMA CoinHoldsKept ==
    ASSUME TypeOK, HoldsMatchWallet, NEW k \in Keys, NEW c \in Reservation,
           coinRes' = [coinRes EXCEPT ![k] = c],
           wallet'[UserOf[k]].reserved
             = wallet[UserOf[k]].reserved - reservedCoinsForUsage(k) + OpenAmount(c),
           \A v \in Users \ {UserOf[k]} : wallet'[v] = wallet[v]
    PROVE  HoldsMatchWallet'
<1> DEFINE f == [j \in Keys |-> reservedCoinsForUsage(j)]
           g == [j \in Keys |-> reservedCoinsForUsage(j)']
<1>1. f \in [Keys -> Nat]
  BY OpenAmountType DEF TypeOK, Reservation, reservedCoinsForUsage
<1>2. \A j \in Keys \ {k} : g[j] = f[j]
  BY DEF TypeOK, reservedCoinsForUsage
<1>3. g[k] = OpenAmount(c)
  BY DEF TypeOK, reservedCoinsForUsage
<1>4. g \in [Keys -> Nat]
  <2>1. OpenAmount(c) \in Nat
    BY OpenAmountType
  <2>2. QED
    BY <1>1, <1>2, <1>3, <2>1
<1>5. ASSUME NEW v \in Users
      PROVE  wallet'[v].reserved = Total(g, KeysOf(v))
  <2>1. Total(g, KeysOf(v)) = IF v = UserOf[k] THEN Total(f, KeysOf(v)) - f[k] + g[k]
                                               ELSE Total(f, KeysOf(v))
    <3> HIDE DEF f, g
    <3>1. QED
      BY <1>1, <1>2, <1>4, OneKeyTotal
  <2>2. wallet[v].reserved = Total(f, KeysOf(v))
    BY DEF HoldsMatchWallet
  <2>3. f[k] = reservedCoinsForUsage(k)
    OBVIOUS
  <2> HIDE DEF f, g
  <2>4. QED
    BY <1>3, <2>1, <2>2, <2>3
<1>6. QED
  BY <1>5 DEF HoldsMatchWallet

(* The entitlement side: the reservations of one request are replaced and  *)
(* the reserved column of every row changes by the difference.             *)
LEMMA RowHoldsKept ==
    ASSUME TypeOK, HoldsMatchRows, NEW k \in Keys, NEW w \in [Rows -> Reservation],
           unitRes' = [unitRes EXCEPT ![k] = w],
           \A r \in Rows :
              bal'[r].reserved
                = bal[r].reserved - reservedUnitsForUsage(k)[r] + OpenAmount(w[r])
    PROVE  HoldsMatchRows'
<1>1. SUFFICES ASSUME NEW r \in Rows
               PROVE  bal'[r].reserved
                        = Total([j \in Keys |-> OpenAmount(unitRes'[j][r])], Keys)
  BY DEF HoldsMatchRows
<1> DEFINE f == [j \in Keys |-> OpenAmount(unitRes[j][r])]
           g == [j \in Keys |-> OpenAmount(unitRes'[j][r])]
<1>2. f \in [Keys -> Nat]
  BY OpenAmountType DEF TypeOK, Reservation
<1>3. \A j \in Keys \ {k} : g[j] = f[j]
  BY DEF TypeOK
<1>4. g[k] = OpenAmount(w[r])
  BY DEF TypeOK
<1>5. OpenAmount(w[r]) \in Nat
  BY OpenAmountType
<1>6. g \in [Keys -> Nat]
  BY <1>2, <1>3, <1>4, <1>5
<1>7. bal[r].reserved = Total(f, Keys)
  BY DEF HoldsMatchRows
<1>8. f[k] = reservedUnitsForUsage(k)[r]
  BY DEF reservedUnitsForUsage
<1>9. IsFiniteSet(Keys)
  BY UsageBillingAssumption
<1> HIDE DEF f, g
<1>10. Total(g, Keys) = Total(f, Keys) - f[k] + g[k]
  BY <1>2, <1>3, <1>6, <1>9, TotalUpdate
<1>11. bal'[r].reserved = Total(g, Keys)
  BY <1>4, <1>7, <1>8, <1>10
<1>12. QED
  BY <1>11 DEF g
-----------------------------------------------------------------------------
(* Authorize.                                                              *)

(* What Authorize takes of the rows and of the wallet are natural numbers. *)
LEMMA AuthorizeAmounts ==
    ASSUME TypeOK, NEW k \in Keys, NEW mode, NEW estimated \in [Units -> Nat]
    PROVE  /\ SubsServing(k, mode, estimated) \subseteq Subs
           /\ reserveEntitlements(k, mode, estimated) \in [Rows -> Nat]
           /\ CoinsToReserve(k, mode, estimated) \in Nat
<1> DEFINE S == SubsServing(k, mode, estimated)
           rows == EnsureBalances(S)
           order == [r \in Rows |-> rows[r].id]
           cap == Reservable(rows, S)
           units == reserveEntitlements(k, mode, estimated)
<1>1. S \subseteq Subs
  BY DEF SubsServing, InForceFor
<1>2. rows \in [Rows -> BalanceRow]
  BY <1>1, EnsureBalancesKeeps
<1>3. cap \in [Rows -> Nat]
  <2> HIDE DEF rows, S
  <2>1. ASSUME NEW r \in Rows
        PROVE  cap[r] \in Nat
    <3>1. rows[r].quota \in Nat /\ rows[r].used \in Nat /\ rows[r].reserved \in Nat
      BY <1>2 DEF BalanceRow
    <3>2. cap[r] = IF r[1] \in S /\ r[3] = MonthOf(now)
                   THEN Max2(0, rows[r].quota - rows[r].used - rows[r].reserved)
                   ELSE 0
      BY DEF Reservable
    <3>3. QED
      BY <3>1, <3>2 DEF Max2
  <2>2. QED
    BY <2>1 DEF Reservable
<1>4. units = Fill(rows, order, cap, estimated)
  BY DEF reserveEntitlements
<1>5. units \in [Rows -> Nat]
  <2> HIDE DEF rows, order, cap
  <2>1. QED
    BY <1>2, <1>3, <1>4, FillBounds
<1>6. CoinsToReserve(k, mode, estimated)
        = priceUsageCoins(AppOf[k], mode, Remaining(rows, units, estimated))
  BY DEF CoinsToReserve, Unserved
<1>7. AppOf[k] \in Apps
  BY UsageBillingAssumption
<1> HIDE DEF rows, units
<1>8. CoinsToReserve(k, mode, estimated) \in Nat
  BY <1>2, <1>5, <1>6, <1>7, PriceType
<1>9. QED
  BY <1>1, <1>5, <1>8 DEF units

(* The id of a reservation within its request is a natural number.         *)
LEMMA ReservationIdType ==
    ASSUME NEW rows, NEW taken, NEW r \in Rows
    PROVE  ReservationId(rows, taken, r) \in Nat
<1> DEFINE before == {q \in Rows : /\ taken[q] > 0
                                   /\ \/ rows[q].unit < rows[r].unit
                                      \/ /\ rows[q].unit = rows[r].unit
                                         /\ rows[q].id <= rows[r].id}
<1>1. before \in SUBSET Rows
  OBVIOUS
<1>2. Cardinality(before) \in Nat
  <2> HIDE DEF before
  <2>1. QED
    BY <1>1, RowsFinite, FS_Subset, FS_CardinalityType
<1>3. QED
  BY <1>2 DEF ReservationId

(* The first Authorize of a key adds its holds on both sides of each sum.  *)
LEMMA AuthorizeKeeps ==
    ASSUME IInv, NEW k \in Keys, NEW mode \in Modes, NEW estimated \in Demands,
           Authorize(k, mode, estimated)
    PROVE  IInv'
<1> DEFINE u == UserOf[k]
           S == SubsServing(k, mode, estimated)
           rows == EnsureBalances(S)
           units == reserveEntitlements(k, mode, estimated)
           coins == CoinsToReserve(k, mode, estimated)
           c == Reserved(coins, 0)
           w == [r \in Rows |-> Reserved(units[r], ReservationId(rows, units, r))]
           request == [status |-> "authorized", mode |-> mode,
                       estimated |-> estimated, reservedCoins |-> coins,
                       reservedUnits |-> Total(units, Rows),
                       chargedCoins |-> 0, chargedUnits |-> 0]
<1>1. /\ usage[k].status = "none"
      /\ coins <= Available(u)
      /\ bal' = [r \in Rows |-> [rows[r] EXCEPT !.reserved = @ + units[r]]]
      /\ unitRes' = [unitRes EXCEPT ![k] = w]
      /\ wallet' = [wallet EXCEPT ![u].reserved = @ + coins]
      /\ coinRes' = [coinRes EXCEPT ![k] = c]
      /\ ledger' = [ledger EXCEPT ![u].reserve = @ + coins]
      /\ usage' = [usage EXCEPT ![k] = request]
      /\ UNCHANGED <<now, price, plan, sub>>
  BY DEF Authorize, AuthorizeAccepted
<1>2. /\ TypeOK /\ SettledHoldsNothing /\ HoldsMatchWallet
      /\ HoldsMatchRows /\ NoOverdraft /\ BalanceMatchesLedger
  BY DEF IInv
<1>3. u \in Users /\ estimated \in [Units -> Nat]
      /\ mode \in {"entitlement", "coins", "hybrid"}
  BY UsageBillingAssumption
<1>4. /\ S \subseteq Subs
      /\ units \in [Rows -> Nat]
      /\ coins \in Nat
  BY <1>2, <1>3, AuthorizeAmounts
<1>5. /\ rows \in [Rows -> BalanceRow]
      /\ \A r \in Rows : rows[r].used = bal[r].used /\ rows[r].reserved = bal[r].reserved
  BY <1>2, <1>4, EnsureBalancesKeeps
<1>6. c \in Reservation /\ OpenAmount(c) = coins
  BY <1>4, ReservedHolds
<1>7. w \in [Rows -> Reservation] /\ \A r \in Rows : OpenAmount(w[r]) = units[r]
  <2> HIDE DEF units, rows
  <2>1. ASSUME NEW r \in Rows
        PROVE  w[r] \in Reservation /\ OpenAmount(w[r]) = units[r]
    BY <1>4, ReservationIdType, ReservedHolds
  <2>2. QED
    BY <2>1
<1>8. Total(units, Rows) \in Nat
  BY <1>4, RowsFinite, TotalType
<1> HIDE DEF u, S, rows, units, coins, c, w
<1>9. \A r \in Rows : /\ bal'[r] \in BalanceRow
                       /\ bal'[r].reserved = bal[r].reserved + units[r]
  <2>1. ASSUME NEW r \in Rows
        PROVE  /\ bal'[r] \in BalanceRow
               /\ bal'[r].reserved = bal[r].reserved + units[r]
    <3>1. bal'[r] = [rows[r] EXCEPT !.reserved = rows[r].reserved + units[r]]
      BY <1>1
    <3>2. rows[r] \in BalanceRow /\ units[r] \in Nat
      BY <1>4, <1>5
    <3>3. rows[r].reserved = bal[r].reserved
      BY <1>5
    <3>4. QED
      BY <3>1, <3>2, <3>3 DEF BalanceRow
  <2>2. QED
    BY <2>1
<1>10. TypeOK'
  <2>1. bal' \in [Rows -> BalanceRow]
    BY <1>1, <1>9
  <2>2. unitRes' \in [Keys -> [Rows -> Reservation]]
    BY <1>1, <1>2, <1>7 DEF TypeOK, Reservation
  <2>3. wallet' \in [Users -> [balance : Nat, reserved : Nat]]
    BY <1>1, <1>2, <1>3, <1>4 DEF TypeOK
  <2>4. coinRes' \in [Keys -> Reservation]
    BY <1>1, <1>2, <1>6 DEF TypeOK, Reservation
  <2>5. ledger' \in [Users -> [credit : Nat, adjust : Nat, usage : Nat,
                               reserve : Nat, release : Nat]]
    <3>1. ledger' = [ledger EXCEPT ![u].reserve = ledger[u].reserve + coins]
      BY <1>1
    <3>2. ledger[u].reserve + coins \in Nat
      BY <1>2, <1>3, <1>4 DEF TypeOK
    <3>3. ledger \in [Users -> LedgerRow]
      BY <1>2 DEF TypeOK, LedgerRow
    <3>4. QED
      BY <1>3, <3>1, <3>2, <3>3 DEF LedgerRow
  <2>6. request \in [status : {"none", "authorized", "committed", "cancelled"},
                     mode : {"entitlement", "coins", "hybrid"},
                     estimated : [Units -> Nat], reservedCoins : Nat,
                     reservedUnits : Nat, chargedCoins : Nat, chargedUnits : Nat]
    BY <1>3, <1>4, <1>8
  <2>7. usage' \in [Keys ->
            [status : {"none", "authorized", "committed", "cancelled"},
             mode : {"entitlement", "coins", "hybrid"},
             estimated : [Units -> Nat], reservedCoins : Nat,
             reservedUnits : Nat, chargedCoins : Nat, chargedUnits : Nat]]
    BY <1>1, <1>2, <2>6 DEF TypeOK
  <2>8. QED
    BY <1>1, <1>2, <2>1, <2>2, <2>3, <2>4, <2>5, <2>7
       DEF TypeOK, Reservation, BalanceRow
<1>11. reservedCoinsForUsage(k) = 0 /\ \A r \in Rows : reservedUnitsForUsage(k)[r] = 0
  BY <1>1, <1>2 DEF SettledHoldsNothing, reservedCoinsForUsage,
                    reservedUnitsForUsage, OpenAmount
<1>12. HoldsMatchWallet'
  <2>1. /\ wallet'[u].reserved = wallet[u].reserved - reservedCoinsForUsage(k) + OpenAmount(c)
        /\ \A v \in Users \ {u} : wallet'[v] = wallet[v]
    BY <1>1, <1>2, <1>3, <1>4, <1>6, <1>11 DEF TypeOK
  <2>2. QED
    BY <1>1, <1>2, <1>6, <2>1, CoinHoldsKept DEF u
<1>13. HoldsMatchRows'
  <2>1. \A r \in Rows : bal'[r].reserved
            = bal[r].reserved - reservedUnitsForUsage(k)[r] + OpenAmount(w[r])
    BY <1>2, <1>4, <1>7, <1>9, <1>11 DEF TypeOK
  <2>2. QED
    BY <1>1, <1>2, <1>7, <2>1, RowHoldsKept
<1>14. SettledHoldsNothing'
  BY <1>1, <1>2 DEF SettledHoldsNothing, TypeOK
<1>15. NoOverdraft'
  BY <1>1, <1>2, <1>3, <1>4 DEF NoOverdraft, Available, TypeOK
<1>16. BalanceMatchesLedger'
  BY <1>1, <1>2, <1>3, <1>4 DEF BalanceMatchesLedger, TypeOK
<1>17. QED
  BY <1>10, <1>12, <1>13, <1>14, <1>15, <1>16 DEF IInv
-----------------------------------------------------------------------------
(* Commit and Cancel.                                                      *)

UsageRow == [status : {"none", "authorized", "committed", "cancelled"},
             mode : {"entitlement", "coins", "hybrid"},
             estimated : [Units -> Nat], reservedCoins : Nat,
             reservedUnits : Nat, chargedCoins : Nat, chargedUnits : Nat]

(* What Commit takes of the rows and charges are natural numbers.          *)
LEMMA CommitAmounts ==
    ASSUME TypeOK, HoldsMatchWallet, HoldsMatchRows, NEW k \in Keys,
           NEW actual \in [Units -> Nat]
    PROVE  /\ consumeEntitlements(k, actual) \in [Rows -> Nat]
           /\ CoinsToCharge(k, actual) \in Nat
<1> DEFINE order == [r \in Rows |-> unitRes[k][r].id]
           held == reservedUnitsForUsage(k)
           units == consumeEntitlements(k, actual)
<1>1. held \in [Rows -> Nat]
  BY HeldBounds
<1>2. bal \in [Rows -> BalanceRow]
  BY DEF TypeOK, BalanceRow
<1>3. units \in [Rows -> Nat]
  <2> HIDE DEF order, held
  <2>1. Fill(bal, order, held, actual) \in [Rows -> Nat]
    BY <1>1, <1>2, FillBounds
  <2>2. units = IF usage[k].mode = "coins" THEN Nothing
                ELSE Fill(bal, order, held, actual)
    BY DEF consumeEntitlements, order, held
  <2>3. Nothing \in [Rows -> Nat]
    BY DEF Nothing
  <2>4. QED
    BY <2>1, <2>2, <2>3
<1>4. AppOf[k] \in Apps
  BY UsageBillingAssumption
<1>5. CoinsToCharge(k, actual)
        = priceUsageCoins(AppOf[k], usage[k].mode, Remaining(bal, units, actual))
  BY DEF CoinsToCharge
<1> HIDE DEF units
<1>6. CoinsToCharge(k, actual) \in Nat
  BY <1>2, <1>3, <1>4, <1>5, PriceType
<1>7. QED
  BY <1>3, <1>6 DEF units

(* The reservations of a settled request hold nothing any more.            *)
LEMMA SettledReservations ==
    ASSUME TypeOK, NEW k \in Keys, NEW n \in [Rows -> Nat], NEW w,
           w = [r \in Rows |-> Settled(unitRes[k][r], n[r])]
    PROVE  /\ w \in [Rows -> Reservation]
           /\ \A r \in Rows : OpenAmount(w[r]) = 0 /\ w[r].status # "reserved"
<1>1. ASSUME NEW r \in Rows
      PROVE  w[r] \in Reservation /\ OpenAmount(w[r]) = 0 /\ w[r].status # "reserved"
  <2>1. unitRes[k][r] \in Reservation /\ n[r] \in Nat
    BY DEF TypeOK, Reservation
  <2>2. w[r] = Settled(unitRes[k][r], n[r])
    OBVIOUS
  <2>3. QED
    BY <2>1, <2>2, SettledHolds
<1>2. QED
  BY <1>1

(* Commit takes the request's holds out of both sides of each sum, and the *)
(* coins it charges were held or free.                                     *)
LEMMA CommitKeeps ==
    ASSUME IInv, NEW k \in Keys, NEW actual \in Demands, Commit(k, actual)
    PROVE  IInv'
<1> DEFINE u == UserOf[k]
           units == consumeEntitlements(k, actual)
           heldUnits == reservedUnitsForUsage(k)
           coins == CoinsToCharge(k, actual)
           held == reservedCoinsForUsage(k)
           c == Settled(coinRes[k], coins)
           w == [r \in Rows |-> Settled(unitRes[k][r], units[r])]
           unused == IF coins = 0 THEN held ELSE 0
           total == Total(units, Rows)
<1>1. /\ usage[k].status = "authorized"
      /\ Max2(0, coins - held) <= Available(u)
      /\ bal' = [r \in Rows |-> [bal[r] EXCEPT !.used = @ + units[r],
                                               !.reserved = @ - heldUnits[r]]]
      /\ unitRes' = [unitRes EXCEPT ![k] = w]
      /\ wallet' = [wallet EXCEPT ![u].balance = @ - coins,
                                  ![u].reserved = @ - held]
      /\ coinRes' = [coinRes EXCEPT ![k] = c]
      /\ ledger' = [ledger EXCEPT ![u].usage = @ + coins,
                                  ![u].release = @ + unused]
      /\ usage' = [usage EXCEPT ![k].status = "committed",
                                ![k].chargedCoins = coins,
                                ![k].chargedUnits = total]
      /\ UNCHANGED <<now, price, plan, sub>>
  BY DEF Commit, CommitAccepted
<1>2. /\ TypeOK /\ SettledHoldsNothing /\ HoldsMatchWallet
      /\ HoldsMatchRows /\ NoOverdraft /\ BalanceMatchesLedger
  BY DEF IInv
<1>3. u \in Users /\ actual \in [Units -> Nat]
  BY UsageBillingAssumption
<1>4. units \in [Rows -> Nat] /\ coins \in Nat
  BY <1>2, <1>3, CommitAmounts
<1>5. /\ held \in Nat /\ held <= wallet[u].reserved
      /\ heldUnits \in [Rows -> Nat]
      /\ \A r \in Rows : heldUnits[r] <= bal[r].reserved
  BY <1>2, HeldBounds
<1>6. c \in Reservation /\ OpenAmount(c) = 0 /\ c.status # "reserved"
  <2>1. coinRes[k] \in Reservation
    BY <1>2 DEF TypeOK, Reservation
  <2>2. QED
    BY <1>4, <2>1, SettledHolds
<1>7. /\ w \in [Rows -> Reservation]
      /\ \A r \in Rows : OpenAmount(w[r]) = 0 /\ w[r].status # "reserved"
  BY <1>2, <1>4, SettledReservations
<1>8. total \in Nat /\ unused \in Nat
  BY <1>4, <1>5, RowsFinite, TotalType
<1>9. wallet[u].balance \in Nat /\ wallet[u].reserved \in Nat
      /\ wallet[u].reserved <= wallet[u].balance
  BY <1>2, <1>3 DEF TypeOK, NoOverdraft
<1>10. Max2(0, coins - held) <= wallet[u].balance - wallet[u].reserved
  BY <1>1 DEF Available
<1> HIDE DEF u, units, heldUnits, coins, held, c, w, unused, total
<1>11. /\ wallet[u].balance - coins \in Nat
       /\ wallet[u].reserved - held \in Nat
       /\ wallet[u].reserved - held <= wallet[u].balance - coins
  BY <1>4, <1>5, <1>9, <1>10 DEF Max2
<1>12. /\ wallet' \in [Users -> [balance : Nat, reserved : Nat]]
       /\ wallet'[u].balance = wallet[u].balance - coins
       /\ wallet'[u].reserved = wallet[u].reserved - held
       /\ \A v \in Users \ {u} : wallet'[v] = wallet[v]
  <2>1. wallet \in [Users -> [balance : Nat, reserved : Nat]]
    BY <1>2 DEF TypeOK
  <2>2. wallet' = [wallet EXCEPT ![u].balance = wallet[u].balance - coins,
                                 ![u].reserved = wallet[u].reserved - held]
    BY <1>1
  <2>3. QED
    BY <1>3, <1>11, <2>1, <2>2
<1>13. \A r \in Rows : bal'[r] \in BalanceRow
                       /\ bal'[r].reserved = bal[r].reserved - heldUnits[r]
  <2>1. ASSUME NEW r \in Rows
        PROVE  bal'[r] \in BalanceRow /\ bal'[r].reserved = bal[r].reserved - heldUnits[r]
    <3>1. bal[r] \in BalanceRow
      BY <1>2 DEF TypeOK, BalanceRow
    <3>2. units[r] \in Nat /\ heldUnits[r] \in Nat /\ heldUnits[r] <= bal[r].reserved
      BY <1>4, <1>5
    <3>3. bal[r].used + units[r] \in Nat /\ bal[r].reserved - heldUnits[r] \in Nat
      BY <3>1, <3>2 DEF BalanceRow
    <3>4. bal'[r] = [bal[r] EXCEPT !.used = bal[r].used + units[r],
                                   !.reserved = bal[r].reserved - heldUnits[r]]
      BY <1>1
    <3>5. QED
      BY <3>1, <3>3, <3>4 DEF BalanceRow
  <2>2. QED
    BY <2>1
<1>14. /\ ledger' \in [Users -> LedgerRow]
       /\ ledger'[u].usage = ledger[u].usage + coins
       /\ ledger'[u].credit = ledger[u].credit
       /\ ledger'[u].adjust = ledger[u].adjust
       /\ \A v \in Users \ {u} : ledger'[v] = ledger[v]
  <2>1. ledger \in [Users -> LedgerRow]
    BY <1>2 DEF TypeOK, LedgerRow
  <2>2. ledger[u].usage + coins \in Nat /\ ledger[u].release + unused \in Nat
    BY <1>3, <1>4, <1>8, <2>1 DEF LedgerRow
  <2>3. ledger' = [ledger EXCEPT ![u].usage = ledger[u].usage + coins,
                                 ![u].release = ledger[u].release + unused]
    BY <1>1
  <2>4. QED
    BY <1>3, <2>1, <2>2, <2>3 DEF LedgerRow
<1>15. /\ usage' \in [Keys -> UsageRow]
       /\ usage'[k].status = "committed"
       /\ \A j \in Keys \ {k} : usage'[j] = usage[j]
  <2>1. usage \in [Keys -> UsageRow]
    BY <1>2 DEF TypeOK, UsageRow
  <2>2. usage' = [usage EXCEPT ![k].status = "committed",
                               ![k].chargedCoins = coins,
                               ![k].chargedUnits = total]
    BY <1>1
  <2>3. \A j \in Keys \ {k} : usage'[j] = usage[j]
    BY <2>1, <2>2
  <2>4. usage'[k] \in UsageRow /\ usage'[k].status = "committed"
    BY <1>4, <1>8, <2>1, <2>2 DEF UsageRow
  <2>5. QED
    BY <2>1, <2>2, <2>3, <2>4
<1>16. TypeOK'
  <2>1. bal' \in [Rows -> BalanceRow]
    BY <1>1, <1>13
  <2>2. unitRes' \in [Keys -> [Rows -> Reservation]]
    BY <1>1, <1>2, <1>7 DEF TypeOK, Reservation
  <2>3. coinRes' \in [Keys -> Reservation]
    BY <1>1, <1>2, <1>6 DEF TypeOK, Reservation
  <2>4. QED
    BY <1>1, <1>2, <1>12, <1>14, <1>15, <2>1, <2>2, <2>3
       DEF TypeOK, Reservation, BalanceRow, LedgerRow, UsageRow
<1>17. HoldsMatchWallet'
  <2>1. wallet'[u].reserved = wallet[u].reserved - reservedCoinsForUsage(k) + OpenAmount(c)
    BY <1>5, <1>6, <1>9, <1>12 DEF held
  <2>2. QED
    BY <1>1, <1>2, <1>6, <1>12, <2>1, CoinHoldsKept DEF u
<1>18. HoldsMatchRows'
  <2>1. \A r \in Rows : bal'[r].reserved
            = bal[r].reserved - reservedUnitsForUsage(k)[r] + OpenAmount(w[r])
    BY <1>2, <1>5, <1>7, <1>13 DEF TypeOK, heldUnits
  <2>2. QED
    BY <1>1, <1>2, <1>7, <2>1, RowHoldsKept
<1>19. SettledHoldsNothing'
  <2>1. coinRes'[k] = c /\ unitRes'[k] = w
    BY <1>1, <1>2 DEF TypeOK
  <2>2. \A j \in Keys \ {k} : coinRes'[j] = coinRes[j] /\ unitRes'[j] = unitRes[j]
    BY <1>1, <1>2 DEF TypeOK
  <2>3. QED
    BY <1>2, <1>6, <1>7, <1>15, <2>1, <2>2 DEF SettledHoldsNothing
<1>20. NoOverdraft'
  BY <1>2, <1>11, <1>12 DEF NoOverdraft
<1>21. BalanceMatchesLedger'
  <2>1. ledger[u].credit \in Nat /\ ledger[u].adjust \in Nat /\ ledger[u].usage \in Nat
    BY <1>2, <1>3 DEF TypeOK
  <2>2. wallet[u].balance = ledger[u].credit - ledger[u].adjust - ledger[u].usage
    BY <1>2, <1>3 DEF BalanceMatchesLedger
  <2>3. wallet'[u].balance = ledger'[u].credit - ledger'[u].adjust - ledger'[u].usage
    BY <1>4, <1>9, <1>12, <1>14, <2>1, <2>2
  <2>4. QED
    BY <1>2, <1>12, <1>14, <2>3 DEF BalanceMatchesLedger
<1>22. QED
  BY <1>16, <1>17, <1>18, <1>19, <1>20, <1>21 DEF IInv
(* Cancel takes the request's holds out of both sides of each sum.         *)
LEMMA CancelKeeps ==
    ASSUME IInv, NEW k \in Keys, Cancel(k)
    PROVE  IInv'
<1> DEFINE u == UserOf[k]
           heldUnits == reservedUnitsForUsage(k)
           held == reservedCoinsForUsage(k)
           c == Settled(coinRes[k], 0)
           w == [r \in Rows |-> Settled(unitRes[k][r], 0)]
<1>1. /\ usage[k].status = "authorized"
      /\ bal' = [r \in Rows |-> [bal[r] EXCEPT !.reserved = @ - heldUnits[r]]]
      /\ unitRes' = [unitRes EXCEPT ![k] = w]
      /\ wallet' = [wallet EXCEPT ![u].reserved = @ - held]
      /\ coinRes' = [coinRes EXCEPT ![k] = c]
      /\ ledger' = [ledger EXCEPT ![u].release = @ + held]
      /\ usage' = [usage EXCEPT ![k].status = "cancelled"]
      /\ UNCHANGED <<now, price, plan, sub>>
  BY DEF Cancel
<1>2. /\ TypeOK /\ SettledHoldsNothing /\ HoldsMatchWallet
      /\ HoldsMatchRows /\ NoOverdraft /\ BalanceMatchesLedger
  BY DEF IInv
<1>3. u \in Users
  BY UsageBillingAssumption
<1>4. /\ held \in Nat /\ held <= wallet[u].reserved
      /\ heldUnits \in [Rows -> Nat]
      /\ \A r \in Rows : heldUnits[r] <= bal[r].reserved
  BY <1>2, HeldBounds
<1>5. c \in Reservation /\ OpenAmount(c) = 0 /\ c.status # "reserved"
  <2>1. coinRes[k] \in Reservation
    BY <1>2 DEF TypeOK, Reservation
  <2>2. QED
    BY <2>1, SettledHolds
<1>6. /\ w \in [Rows -> Reservation]
      /\ \A r \in Rows : OpenAmount(w[r]) = 0 /\ w[r].status # "reserved"
  <2>1. w = [r \in Rows |-> Settled(unitRes[k][r], Nothing[r])]
    BY DEF Nothing
  <2>2. Nothing \in [Rows -> Nat]
    BY DEF Nothing
  <2> HIDE DEF w
  <2>3. QED
    BY <1>2, <2>1, <2>2, SettledReservations
<1> HIDE DEF u, heldUnits, held, c, w
<1>7. /\ wallet' \in [Users -> [balance : Nat, reserved : Nat]]
      /\ wallet'[u].balance = wallet[u].balance
      /\ wallet'[u].reserved = wallet[u].reserved - held
      /\ \A v \in Users \ {u} : wallet'[v] = wallet[v]
  <2>1. wallet \in [Users -> [balance : Nat, reserved : Nat]]
    BY <1>2 DEF TypeOK
  <2>2. wallet' = [wallet EXCEPT ![u].reserved = wallet[u].reserved - held]
    BY <1>1
  <2>3. QED
    BY <1>3, <1>4, <2>1, <2>2
<1>8. \A r \in Rows : bal'[r] \in BalanceRow
                      /\ bal'[r].reserved = bal[r].reserved - heldUnits[r]
  <2>1. ASSUME NEW r \in Rows
        PROVE  bal'[r] \in BalanceRow /\ bal'[r].reserved = bal[r].reserved - heldUnits[r]
    <3>1. bal[r] \in BalanceRow
      BY <1>2 DEF TypeOK, BalanceRow
    <3>2. bal[r].reserved - heldUnits[r] \in Nat
      BY <1>4, <3>1 DEF BalanceRow
    <3>3. bal'[r] = [bal[r] EXCEPT !.reserved = bal[r].reserved - heldUnits[r]]
      BY <1>1
    <3>4. QED
      BY <3>1, <3>2, <3>3 DEF BalanceRow
  <2>2. QED
    BY <2>1
<1>9. /\ ledger' \in [Users -> LedgerRow]
      /\ \A v \in Users : /\ ledger'[v].usage = ledger[v].usage
                           /\ ledger'[v].credit = ledger[v].credit
                           /\ ledger'[v].adjust = ledger[v].adjust
  <2>1. ledger \in [Users -> LedgerRow]
    BY <1>2 DEF TypeOK, LedgerRow
  <2>2. ledger[u].release + held \in Nat
    BY <1>3, <1>4, <2>1 DEF LedgerRow
  <2>3. ledger' = [ledger EXCEPT ![u].release = ledger[u].release + held]
    BY <1>1
  <2>4. QED
    BY <1>3, <2>1, <2>2, <2>3 DEF LedgerRow
<1>10. /\ usage' \in [Keys -> UsageRow]
       /\ usage'[k].status = "cancelled"
       /\ \A j \in Keys \ {k} : usage'[j] = usage[j]
  <2>1. usage \in [Keys -> UsageRow]
    BY <1>2 DEF TypeOK, UsageRow
  <2>2. usage' = [usage EXCEPT ![k].status = "cancelled"]
    BY <1>1
  <2>3. QED
    BY <2>1, <2>2 DEF UsageRow
<1>11. TypeOK'
  <2>1. bal' \in [Rows -> BalanceRow]
    BY <1>1, <1>8
  <2>2. unitRes' \in [Keys -> [Rows -> Reservation]]
    BY <1>1, <1>2, <1>6 DEF TypeOK, Reservation
  <2>3. coinRes' \in [Keys -> Reservation]
    BY <1>1, <1>2, <1>5 DEF TypeOK, Reservation
  <2>4. QED
    BY <1>1, <1>2, <1>7, <1>9, <1>10, <2>1, <2>2, <2>3
       DEF TypeOK, Reservation, BalanceRow, LedgerRow, UsageRow
<1>12. HoldsMatchWallet'
  <2>1. wallet[u].reserved \in Nat
    BY <1>2, <1>3 DEF TypeOK
  <2>2. wallet'[u].reserved = wallet[u].reserved - reservedCoinsForUsage(k) + OpenAmount(c)
    BY <1>4, <1>5, <1>7, <2>1 DEF held
  <2>3. QED
    BY <1>1, <1>2, <1>5, <1>7, <2>2, CoinHoldsKept DEF u
<1>13. HoldsMatchRows'
  <2>1. \A r \in Rows : bal'[r].reserved
            = bal[r].reserved - reservedUnitsForUsage(k)[r] + OpenAmount(w[r])
    BY <1>2, <1>4, <1>6, <1>8 DEF TypeOK, heldUnits
  <2>2. QED
    BY <1>1, <1>2, <1>6, <2>1, RowHoldsKept
<1>14. SettledHoldsNothing'
  <2>1. coinRes'[k] = c /\ unitRes'[k] = w
    BY <1>1, <1>2 DEF TypeOK
  <2>2. \A j \in Keys \ {k} : coinRes'[j] = coinRes[j] /\ unitRes'[j] = unitRes[j]
    BY <1>1, <1>2 DEF TypeOK
  <2>3. QED
    BY <1>2, <1>5, <1>6, <1>10, <2>1, <2>2 DEF SettledHoldsNothing
<1>15. NoOverdraft'
  <2>1. /\ wallet[u].balance \in Nat /\ wallet[u].reserved \in Nat
        /\ wallet[u].reserved <= wallet[u].balance
    BY <1>2, <1>3 DEF TypeOK, NoOverdraft
  <2>2. 0 <= wallet'[u].reserved /\ wallet'[u].reserved <= wallet'[u].balance
    BY <1>4, <1>7, <2>1
  <2>3. QED
    BY <1>2, <1>7, <2>2 DEF NoOverdraft
<1>16. BalanceMatchesLedger'
  BY <1>2, <1>7, <1>9 DEF BalanceMatchesLedger
<1>17. QED
  BY <1>11, <1>12, <1>13, <1>14, <1>15, <1>16 DEF IInv
-----------------------------------------------------------------------------
(* The steps that change no request.                                       *)

(* A refresh of balances changes quota, unit and id only.                  *)
LEMMA RefreshKeeps ==
    ASSUME IInv, NEW S, S \subseteq Subs, bal' = EnsureBalances(S),
           sub' \in [Subs -> [status : {"none", "active", "expired", "cancelled"},
                             ends : Nat]],
           UNCHANGED <<now, price, plan, wallet, ledger, usage, coinRes, unitRes>>
    PROVE  IInv'
<1>1. /\ TypeOK /\ SettledHoldsNothing /\ HoldsMatchWallet
      /\ HoldsMatchRows /\ NoOverdraft /\ BalanceMatchesLedger
  BY DEF IInv
<1>2. /\ bal' \in [Rows -> BalanceRow]
      /\ \A r \in Rows : bal'[r].reserved = bal[r].reserved
  BY <1>1, EnsureBalancesKeeps
<1>3. TypeOK'
  BY <1>1, <1>2 DEF TypeOK, BalanceRow
<1>4. HoldsMatchRows'
  BY <1>1, <1>2 DEF HoldsMatchRows
<1>5. HoldsMatchWallet'
  BY <1>1 DEF HoldsMatchWallet, reservedCoinsForUsage
<1>6. SettledHoldsNothing' /\ NoOverdraft' /\ BalanceMatchesLedger'
  BY <1>1 DEF SettledHoldsNothing, NoOverdraft, BalanceMatchesLedger
<1>7. QED
  BY <1>3, <1>4, <1>5, <1>6 DEF IInv

(* An adjustment moves the balance and the ledger alike.                   *)
LEMMA AdminAdjustCoinsKeeps ==
    ASSUME IInv, NEW u \in Users, NEW n \in Adjustments, AdminAdjustCoins(u, n)
    PROVE  IInv'
<1>1. /\ TypeOK /\ SettledHoldsNothing /\ HoldsMatchWallet
      /\ HoldsMatchRows /\ NoOverdraft /\ BalanceMatchesLedger
  BY DEF IInv
<1>2. /\ wallet[u].balance + n >= wallet[u].reserved
      /\ wallet' = [wallet EXCEPT ![u].balance = wallet[u].balance + n]
      /\ ledger' = [ledger EXCEPT ![u].credit = ledger[u].credit + Max2(0, n),
                                  ![u].adjust = ledger[u].adjust + Max2(0, -n)]
      /\ UNCHANGED <<now, price, plan, sub, bal, usage, coinRes, unitRes>>
  BY DEF AdminAdjustCoins
<1>3. n \in Int
  BY UsageBillingAssumption
<1>4. /\ wallet \in [Users -> [balance : Nat, reserved : Nat]]
      /\ ledger \in [Users -> LedgerRow]
  BY <1>1 DEF TypeOK, LedgerRow
<1>5. wallet[u].balance + n \in Nat
  BY <1>2, <1>3, <1>4
<1>6. /\ wallet' \in [Users -> [balance : Nat, reserved : Nat]]
      /\ wallet'[u].balance = wallet[u].balance + n
      /\ \A v \in Users : wallet'[v].reserved = wallet[v].reserved
      /\ \A v \in Users \ {u} : wallet'[v] = wallet[v]
  BY <1>2, <1>4, <1>5
<1>7. /\ Max2(0, n) \in Nat /\ Max2(0, -n) \in Nat
      /\ Max2(0, n) - Max2(0, -n) = n
  BY <1>3 DEF Max2
<1>8. /\ ledger' \in [Users -> LedgerRow]
      /\ ledger'[u].credit = ledger[u].credit + Max2(0, n)
      /\ ledger'[u].adjust = ledger[u].adjust + Max2(0, -n)
      /\ ledger'[u].usage = ledger[u].usage
      /\ \A v \in Users \ {u} : ledger'[v] = ledger[v]
  <2>1. ledger[u].credit + Max2(0, n) \in Nat /\ ledger[u].adjust + Max2(0, -n) \in Nat
    BY <1>4, <1>7 DEF LedgerRow
  <2>2. QED
    BY <1>2, <1>4, <2>1 DEF LedgerRow
<1>9. TypeOK'
  BY <1>1, <1>2, <1>6, <1>8 DEF TypeOK, LedgerRow
<1>10. HoldsMatchWallet'
  BY <1>1, <1>2, <1>6 DEF HoldsMatchWallet, reservedCoinsForUsage
<1>11. HoldsMatchRows' /\ SettledHoldsNothing'
  BY <1>1, <1>2 DEF HoldsMatchRows, SettledHoldsNothing
<1>12. NoOverdraft'
  <2>1. 0 <= wallet'[u].reserved /\ wallet'[u].reserved <= wallet'[u].balance
    BY <1>1, <1>2, <1>3, <1>4, <1>6 DEF NoOverdraft
  <2>2. QED
    BY <1>1, <1>6, <2>1 DEF NoOverdraft
<1>13. BalanceMatchesLedger'
  <2>1. ledger[u].credit \in Nat /\ ledger[u].adjust \in Nat /\ ledger[u].usage \in Nat
    BY <1>4 DEF LedgerRow
  <2>2. wallet[u].balance = ledger[u].credit - ledger[u].adjust - ledger[u].usage
    BY <1>1 DEF BalanceMatchesLedger
  <2>3. wallet'[u].balance = ledger'[u].credit - ledger'[u].adjust - ledger'[u].usage
    BY <1>3, <1>6, <1>7, <1>8, <2>1, <2>2
  <2>4. QED
    BY <1>1, <1>6, <1>8, <2>3 DEF BalanceMatchesLedger
<1>14. QED
  BY <1>9, <1>10, <1>11, <1>12, <1>13 DEF IInv

(* Prices and plans occur in no conjunct but TypeOK.                       *)
LEMMA CatalogueEditsKeep ==
    ASSUME IInv, CatalogueEdits
    PROVE  IInv'
<1>1. /\ TypeOK /\ SettledHoldsNothing /\ HoldsMatchWallet
      /\ HoldsMatchRows /\ NoOverdraft /\ BalanceMatchesLedger
  BY DEF IInv
<1>2. UNCHANGED <<now, sub, bal, wallet, ledger, usage, coinRes, unitRes>>
  BY DEF CatalogueEdits, AdminUpsertPricing, AdminDeletePricing,
         SetPrice, AdminUpsertPlanEntitlement
<1>3. price' \in [Apps -> [Units -> PriceRows \cup {NoPrice}]]
  <2>1. price \in [Apps -> [Units -> PriceRows \cup {NoPrice}]]
    BY <1>1 DEF TypeOK
  <2>2. ASSUME NEW a \in Apps, NEW x \in Units, NEW row \in PriceRows \cup {NoPrice},
               SetPrice(a, x, row)
        PROVE  price' \in [Apps -> [Units -> PriceRows \cup {NoPrice}]]
    BY <2>1, <2>2 DEF SetPrice
  <2>3. QED
    BY <2>1, <2>2 DEF CatalogueEdits, AdminUpsertPricing, AdminDeletePricing,
                      AdminUpsertPlanEntitlement
<1>4. plan' \in [Plans -> [Codes -> [unit : Units, quota : Nat] \cup {NoEntitlement}]]
  <2>1. plan \in [Plans -> [Codes -> [unit : Units, quota : Nat] \cup {NoEntitlement}]]
    BY <1>1 DEF TypeOK
  <2>2. ASSUME NEW p \in Plans, NEW c \in Codes, NEW x \in Units, NEW q \in Quotas,
               AdminUpsertPlanEntitlement(p, c, x, q)
        PROVE  plan' \in [Plans -> [Codes -> [unit : Units, quota : Nat] \cup {NoEntitlement}]]
    <3>1. [unit |-> x, quota |-> q] \in [unit : Units, quota : Nat]
      BY UsageBillingAssumption
    <3>2. plan' = [plan EXCEPT ![p][c] = [unit |-> x, quota |-> q]]
      BY <2>2 DEF AdminUpsertPlanEntitlement
    <3>3. QED
      BY <2>1, <3>1, <3>2
  <2>3. QED
    BY <2>1, <2>2 DEF CatalogueEdits, AdminUpsertPricing, AdminDeletePricing, SetPrice
<1>5. TypeOK'
  BY <1>1, <1>2, <1>3, <1>4 DEF TypeOK
<1>6. HoldsMatchWallet'
  BY <1>1, <1>2 DEF HoldsMatchWallet, reservedCoinsForUsage
<1>7. HoldsMatchRows' /\ SettledHoldsNothing' /\ NoOverdraft' /\ BalanceMatchesLedger'
  BY <1>1, <1>2 DEF HoldsMatchRows, SettledHoldsNothing, NoOverdraft, BalanceMatchesLedger
<1>8. QED
  BY <1>5, <1>6, <1>7 DEF IInv

(* Grants, maintenance and the clock hold and release nothing.             *)
LEMMA AssetChangesKeep ==
    ASSUME IInv, AssetChanges
    PROVE  IInv'
<1>1. /\ TypeOK /\ SettledHoldsNothing /\ HoldsMatchWallet
      /\ HoldsMatchRows /\ NoOverdraft /\ BalanceMatchesLedger
  BY DEF IInv
<1>2. sub \in [Subs -> [status : {"none", "active", "expired", "cancelled"}, ends : Nat]]
  BY <1>1 DEF TypeOK
<1>3. ASSUME NEW u \in Users, NEW n \in Adjustments, AdminAdjustCoins(u, n)
      PROVE  IInv'
  BY <1>3, AdminAdjustCoinsKeeps
<1>4. ASSUME NEW u \in Users, NEW p \in Plans, NEW m \in GrantMonths,
             AdminGrantSubscription(u, p, m)
      PROVE  IInv'
  <2> DEFINE current == {s \in Subs : InForce(s) /\ SubUser[s] = u /\ SubPlan[s] = p}
             granted(s, from) ==
               [t \in Subs |->
                 IF t = s THEN [status |-> "active", ends |-> from + m * TicksPerMonth]
                 ELSE IF t \in current THEN [sub[t] EXCEPT !.status = "cancelled"]
                 ELSE sub[t]]
  <2>1. \/ \E s \in current : sub' = granted(s, sub[s].ends) /\ bal' = EnsureBalances({s})
        \/ \E s \in Subs : sub' = granted(s, now) /\ bal' = EnsureBalances({s})
    BY <1>4, Zenon DEF AdminGrantSubscription
  <2>2. now \in Nat /\ \A s \in Subs : sub[s].ends \in Nat
    BY <1>1 DEF TypeOK
  <2>3. PICK s \in Subs, from \in Nat :
           sub' = granted(s, from) /\ bal' = EnsureBalances({s})
    <3> HIDE DEF granted
    <3>1. QED
      BY <2>1, <2>2
  <2>4. from + m * TicksPerMonth \in Nat
    BY UsageBillingAssumption
  <2>5. sub' \in [Subs -> [status : {"none", "active", "expired", "cancelled"}, ends : Nat]]
    BY <1>2, <2>3, <2>4
  <2>6. UNCHANGED <<now, price, plan, wallet, ledger, usage, coinRes, unitRes>>
    BY <1>4 DEF AdminGrantSubscription
  <2>7. {s} \subseteq Subs /\ bal' = EnsureBalances({s})
    BY <2>3
  <2>8. QED
    BY <2>5, <2>6, <2>7, RefreshKeeps
<1>5. CASE RunEntitlementMaintenance
  <2>1. sub' \in [Subs -> [status : {"none", "active", "expired", "cancelled"}, ends : Nat]]
    BY <1>2, <1>5 DEF RunEntitlementMaintenance
  <2>2. bal' = EnsureBalances({s \in Subs : InForce(s)})
        /\ UNCHANGED <<now, price, plan, wallet, ledger, usage, coinRes, unitRes>>
    BY <1>5 DEF RunEntitlementMaintenance
  <2>3. QED
    BY <2>1, <2>2, RefreshKeeps
<1>6. ASSUME NEW u \in Users, EnsureCurrentMonthEntitlementsForUser(u)
      PROVE  IInv'
  <2>1. /\ bal' = EnsureBalances({s \in Subs : InForce(s) /\ SubUser[s] = u})
        /\ UNCHANGED <<now, price, plan, sub, wallet, ledger, usage, coinRes, unitRes>>
    BY <1>6 DEF EnsureCurrentMonthEntitlementsForUser
  <2>2. QED
    BY <1>2, <2>1, RefreshKeeps
<1>7. CASE Tick
  <2>1. now' \in 0 .. MaxTime
        /\ UNCHANGED <<price, plan, sub, bal, wallet, ledger, usage, coinRes, unitRes>>
    BY <1>1, <1>7, UsageBillingAssumption DEF Tick, TypeOK
  <2>2. TypeOK'
    BY <1>1, <2>1 DEF TypeOK
  <2>3. HoldsMatchWallet'
    BY <1>1, <2>1 DEF HoldsMatchWallet, reservedCoinsForUsage
  <2>4. HoldsMatchRows' /\ SettledHoldsNothing' /\ NoOverdraft' /\ BalanceMatchesLedger'
    BY <1>1, <2>1 DEF HoldsMatchRows, SettledHoldsNothing, NoOverdraft, BalanceMatchesLedger
  <2>5. QED
    BY <2>2, <2>3, <2>4 DEF IInv
<1>8. QED
  BY <1>3, <1>4, <1>5, <1>6, <1>7 DEF AssetChanges
-----------------------------------------------------------------------------
(* The invariant and what follows from it.                                 *)

(* Nothing is held at first.                                               *)
LEMMA InitIInv == Init => IInv
<1> SUFFICES ASSUME Init
             PROVE  IInv
  OBVIOUS
<1>1. TypeOK
  <2>1. SomeUnit \in Units
    BY UsageBillingAssumption DEF SomeUnit
  <2>2. plan \in [Plans -> [Codes -> [unit : Units, quota : Nat] \cup {NoEntitlement}]]
    <3>1. plan \in [Plans -> [Codes -> [unit : Units, quota : Quotas] \cup {NoEntitlement}]]
      BY DEF Init
    <3>2. [unit : Units, quota : Quotas] \subseteq [unit : Units, quota : Nat]
      BY UsageBillingAssumption
    <3>3. QED
      BY <3>1, <3>2
  <2>3. now \in 0 .. MaxTime
    BY UsageBillingAssumption DEF Init
  <2>4. bal \in [Rows -> [id : Nat, unit : Units, quota : Nat, used : Nat, reserved : Nat]]
    BY <2>1 DEF Init, NoRow
  <2>5. usage \in [Keys -> UsageRow]
    BY DEF Init, NoUsage, UsageRow
  <2>6. coinRes \in [Keys -> Reservation] /\ unitRes \in [Keys -> [Rows -> Reservation]]
    BY DEF Init, NoReservation, Reservation
  <2>7. QED
    BY <2>2, <2>3, <2>4, <2>5, <2>6 DEF Init, TypeOK, UsageRow, Reservation
<1>2. SettledHoldsNothing
  BY DEF Init, SettledHoldsNothing, NoReservation
<1>3. HoldsMatchWallet
  <2> DEFINE f == [k \in Keys |-> reservedCoinsForUsage(k)]
  <2>1. ASSUME NEW u \in Users
        PROVE  wallet[u].reserved = Total(f, KeysOf(u))
    <3>1. \A k \in KeysOf(u) : f[k] = 0
      BY DEF Init, KeysOf, reservedCoinsForUsage, OpenAmount, NoReservation
    <3> HIDE DEF f
    <3>2. Total(f, KeysOf(u)) = 0
      BY <3>1, TotalZero
    <3>3. QED
      BY <3>2 DEF Init
  <2>2. QED
    BY <2>1 DEF HoldsMatchWallet
<1>4. HoldsMatchRows
  <2>1. ASSUME NEW r \in Rows
        PROVE  bal[r].reserved = Total([k \in Keys |-> OpenAmount(unitRes[k][r])], Keys)
    <3> DEFINE f == [k \in Keys |-> OpenAmount(unitRes[k][r])]
    <3>1. \A k \in Keys : f[k] = 0
      BY DEF Init, OpenAmount, NoReservation
    <3> HIDE DEF f
    <3>2. Total(f, Keys) = 0
      BY <3>1, TotalZero
    <3>3. QED
      BY <3>2 DEF Init, NoRow, f
  <2>2. QED
    BY <2>1 DEF HoldsMatchRows
<1>5. NoOverdraft /\ BalanceMatchesLedger
  BY DEF Init, NoOverdraft, BalanceMatchesLedger
<1>6. QED
  BY <1>1, <1>2, <1>3, <1>4, <1>5 DEF IInv

(* The invariant is inductive.                                             *)
LEMMA NextIInv == IInv /\ [Next]_vars => IInv'
<1> SUFFICES ASSUME IInv, [Next]_vars
             PROVE  IInv'
  OBVIOUS
<1>1. CASE UNCHANGED vars
  BY <1>1 DEF vars, IInv, TypeOK, SettledHoldsNothing, HoldsMatchWallet,
              reservedCoinsForUsage, HoldsMatchRows, NoOverdraft, BalanceMatchesLedger
<1>2. CASE Requests
  BY <1>2, AuthorizeKeeps, CommitKeeps, CancelKeeps DEF Requests
<1>3. CASE AssetChanges
  BY <1>3, AssetChangesKeep
<1>4. CASE CatalogueEdits
  BY <1>4, CatalogueEditsKeep
<1>5. QED
  BY <1>1, <1>2, <1>3, <1>4 DEF Next

(* Every reachable state of the store satisfies the inductive invariant.   *)
THEOREM Invariance == Spec => []IInv
<1>1. Init => IInv
  BY InitIInv
<1>2. IInv /\ [Next]_vars => IInv'
  BY NextIInv
<1>3. QED
  BY <1>1, <1>2, PTL DEF Spec

(* The columns of every table keep their types; reserved columns, which    *)
(* Commit and Cancel decrement, never go below zero.                       *)
THEOREM TypeCorrect == Spec => []TypeOK
<1>1. IInv => TypeOK
  BY DEF IInv
<1>2. QED
  BY <1>1, Invariance, PTL

(* A wallet always covers what is held on it.                              *)
THEOREM WalletsCovered == Spec => []NoOverdraft
<1>1. IInv => NoOverdraft
  BY DEF IInv
<1>2. QED
  BY <1>1, Invariance, PTL

(* reserved_coins is the sum of the open coin reservations.                *)
THEOREM WalletHoldsExact == Spec => []HoldsMatchWallet
<1>1. IInv => HoldsMatchWallet
  BY DEF IInv
<1>2. QED
  BY <1>1, Invariance, PTL

(* The reserved column of a balance is the sum of the open reservations.   *)
THEOREM RowHoldsExact == Spec => []HoldsMatchRows
<1>1. IInv => HoldsMatchRows
  BY DEF IInv
<1>2. QED
  BY <1>1, Invariance, PTL

(* A settled request holds nothing.                                        *)
THEOREM NothingLeaks == Spec => []SettledHoldsNothing
<1>1. IInv => SettledHoldsNothing
  BY DEF IInv
<1>2. QED
  BY <1>1, Invariance, PTL

(* The balance is what the ledger says.                                    *)
THEOREM LedgerExact == Spec => []BalanceMatchesLedger
<1>1. IInv => BalanceMatchesLedger
  BY DEF IInv
<1>2. QED
  BY <1>1, Invariance, PTL

(* No step changes a committed or cancelled request.                       *)
THEOREM SettledStays == Spec => SettledForever
<1> DEFINE Step == \A k \in Keys :
                     usage[k].status \in {"committed", "cancelled"} =>
                         UNCHANGED <<usage[k], coinRes[k], unitRes[k]>>
<1>1. IInv /\ [Next]_vars => [Step]_vars
  <2> SUFFICES ASSUME IInv, Next, NEW k \in Keys,
                      usage[k].status \in {"committed", "cancelled"}
               PROVE  UNCHANGED <<usage[k], coinRes[k], unitRes[k]>>
    OBVIOUS
  <2>1. CASE Requests
    <3>1. PICK j \in Keys : \/ \E mode \in Modes, d \in Demands : Authorize(j, mode, d)
                            \/ \E d \in Demands : Commit(j, d)
                            \/ Cancel(j)
      BY <2>1 DEF Requests
    <3>2. usage[j].status \in {"none", "authorized"}
      BY <3>1 DEF Authorize, Commit, CommitAccepted, Cancel
    <3>3. k # j
      BY <3>2
    <3>4. /\ usage \in [Keys -> UsageRow]
          /\ coinRes \in [Keys -> Reservation]
          /\ unitRes \in [Keys -> [Rows -> Reservation]]
      BY DEF IInv, TypeOK, UsageRow, Reservation
    <3>5. CASE \E mode \in Modes, d \in Demands : Authorize(j, mode, d)
      BY <3>3, <3>4, <3>5 DEF Authorize
    <3>6. CASE \E d \in Demands : Commit(j, d)
      BY <3>3, <3>4, <3>6 DEF Commit
    <3>7. CASE Cancel(j)
      BY <3>3, <3>4, <3>7 DEF Cancel
    <3>8. QED
      BY <3>1, <3>5, <3>6, <3>7
  <2>2. CASE AssetChanges
    BY <2>2 DEF AssetChanges, AdminAdjustCoins, AdminGrantSubscription,
                RunEntitlementMaintenance, EnsureCurrentMonthEntitlementsForUser, Tick
  <2>3. CASE CatalogueEdits
    BY <2>3 DEF CatalogueEdits, AdminUpsertPricing, AdminDeletePricing,
                SetPrice, AdminUpsertPlanEntitlement
  <2>4. QED
    BY <2>1, <2>2, <2>3 DEF Next
<1>2. QED
  BY <1>1, Invariance, PTL DEF Spec, SettledForever
-----------------------------------------------------------------------------
(* What the steps do.                                                      *)

(* Only request k changes.                                                 *)
OthersStay(k) ==
    \A j \in Keys \ {k} : UNCHANGED <<usage[j], coinRes[j], unitRes[j]>>

(* k takes its holds: units on the rows of the subscriptions S, and coins. *)
HoldsTaken(k, mode, estimated, S, units, coins) ==
    /\ mode = "coins" => S = {}
    /\ mode = "entitlement" => coins = 0
    /\ \A r \in Rows :
          /\ units[r] <= Reservable(EnsureBalances(S), S)[r]
          /\ bal'[r].id = EnsureBalances(S)[r].id
          /\ bal'[r].quota = EnsureBalances(S)[r].quota
          /\ bal'[r].used = bal[r].used
          /\ bal'[r].reserved = bal[r].reserved + units[r]
          /\ \E n \in Nat : unitRes'[k][r] = Reserved(units[r], n)
    /\ coinRes'[k] = Reserved(coins, 0)
    /\ usage'[k].status = "authorized" /\ usage'[k].mode = mode
    /\ usage'[k].chargedCoins = 0 /\ usage'[k].chargedUnits = 0

(* k's holds are settled: units are consumed on the rows it held, and its  *)
(* user pays the coins.                                                    *)
HoldsSettled(k, units, coins) ==
    /\ usage[k].mode = "entitlement" => coins = 0
    /\ \A r \in Rows :
          /\ units[r] <= OpenAmount(unitRes[k][r])
          /\ bal'[r].id = bal[r].id /\ bal'[r].quota = bal[r].quota
          /\ bal'[r].used = bal[r].used + units[r]
          /\ bal'[r].reserved = bal[r].reserved - OpenAmount(unitRes[k][r])
          /\ unitRes'[k][r] = Settled(unitRes[k][r], units[r])
    /\ coinRes'[k] = Settled(coinRes[k], coins)
    /\ usage'[k].status = "committed" /\ usage'[k].mode = usage[k].mode
    /\ usage'[k].chargedCoins = coins
    /\ usage'[k].chargedUnits = Total(units, Rows)
    /\ \A u \in Users :
          /\ wallet'[u].balance = wallet[u].balance - IF u = UserOf[k] THEN coins ELSE 0
          /\ ledger'[u].usage = ledger[u].usage + IF u = UserOf[k] THEN coins ELSE 0


(* What may be reserved of a row is a natural number.                      *)
LEMMA ReservableType ==
    ASSUME NEW rows \in [Rows -> BalanceRow], NEW S
    PROVE  Reservable(rows, S) \in [Rows -> Nat]
<1>1. ASSUME NEW r \in Rows
      PROVE  Reservable(rows, S)[r] \in Nat
  <2>1. rows[r].quota \in Nat /\ rows[r].used \in Nat /\ rows[r].reserved \in Nat
    BY DEF BalanceRow
  <2>2. Reservable(rows, S)[r] = IF r[1] \in S /\ r[3] = MonthOf(now)
                                 THEN Max2(0, rows[r].quota - rows[r].used - rows[r].reserved)
                                 ELSE 0
    BY DEF Reservable
  <2>3. QED
    BY <2>1, <2>2 DEF Max2
<1>2. QED
  BY <1>1 DEF Reservable

(* Authorize holds units on rows of subscriptions in force of k's user and *)
(* app, no more than they have left, and coins.                            *)
LEMMA AuthorizeEffect ==
    ASSUME IInv, NEW k \in Keys, NEW mode \in Modes, NEW estimated \in Demands,
           Authorize(k, mode, estimated)
    PROVE  /\ usage[k].status = "none"
           /\ OthersStay(k)
           /\ UNCHANGED <<now, plan, sub>>
           /\ \A u \in Users : /\ wallet'[u].balance = wallet[u].balance
                               /\ ledger'[u].usage = ledger[u].usage
           /\ \E S \in SUBSET InForceFor(UserOf[k], AppOf[k]), units \in [Rows -> Nat],
                 coins \in Nat : HoldsTaken(k, mode, estimated, S, units, coins)
<1> DEFINE S == SubsServing(k, mode, estimated)
           rows == EnsureBalances(S)
           units == reserveEntitlements(k, mode, estimated)
           coins == CoinsToReserve(k, mode, estimated)
           w == [r \in Rows |-> Reserved(units[r], ReservationId(rows, units, r))]
           request == [status |-> "authorized", mode |-> mode,
                       estimated |-> estimated, reservedCoins |-> coins,
                       reservedUnits |-> Total(units, Rows),
                       chargedCoins |-> 0, chargedUnits |-> 0]
<1>1. /\ usage[k].status = "none"
      /\ bal' = [r \in Rows |-> [rows[r] EXCEPT !.reserved = @ + units[r]]]
      /\ unitRes' = [unitRes EXCEPT ![k] = w]
      /\ wallet' = [wallet EXCEPT ![UserOf[k]].reserved = @ + coins]
      /\ coinRes' = [coinRes EXCEPT ![k] = Reserved(coins, 0)]
      /\ ledger' = [ledger EXCEPT ![UserOf[k]].reserve = @ + coins]
      /\ usage' = [usage EXCEPT ![k] = request]
      /\ UNCHANGED <<now, price, plan, sub>>
  BY DEF Authorize
<1>2. TypeOK
  BY DEF IInv
<1>3. estimated \in [Units -> Nat]
  BY UsageBillingAssumption
<1>4. /\ S \subseteq Subs
      /\ units \in [Rows -> Nat]
      /\ coins \in Nat
  BY <1>2, <1>3, AuthorizeAmounts
<1>5. /\ rows \in [Rows -> BalanceRow]
      /\ \A r \in Rows : rows[r].reserved = bal[r].reserved /\ rows[r].used = bal[r].used
  BY <1>2, <1>4, EnsureBalancesKeeps
<1>6. S \in SUBSET InForceFor(UserOf[k], AppOf[k]) /\ (mode = "coins" => S = {})
  BY DEF SubsServing
<1>7. mode = "entitlement" => coins = 0
  BY DEF CoinsToReserve, priceUsageCoins
<1>8. \A r \in Rows : units[r] <= Reservable(rows, S)[r]
  <2> DEFINE order == [r \in Rows |-> rows[r].id]
             cap == Reservable(rows, S)
  <2>1. units = Fill(rows, order, cap, estimated)
    BY DEF reserveEntitlements
  <2>2. cap \in [Rows -> Nat]
    BY <1>5, ReservableType
  <2> HIDE DEF rows, order, cap, units
  <2>3. \A r \in Rows : units[r] <= cap[r]
    BY <1>3, <1>5, <2>1, <2>2, FillBounds
  <2>4. QED
    BY <2>3 DEF cap
<1>9. \A r \in Rows : ReservationId(rows, units, r) \in Nat
  BY ReservationIdType
<1>10. \A u \in Users : /\ wallet'[u].balance = wallet[u].balance
                        /\ ledger'[u].usage = ledger[u].usage
  <2> HIDE DEF coins
  <2>1. QED
    BY <1>1, <1>2 DEF TypeOK
<1>11. OthersStay(k)
  <2> HIDE DEF coins, w, request
  <2>1. QED
    BY <1>1, <1>2 DEF TypeOK, OthersStay
<1>12. /\ coinRes'[k] = Reserved(coins, 0)
       /\ usage'[k] = request
       /\ unitRes'[k] = w
  <2> HIDE DEF coins, w, request
  <2>1. QED
    BY <1>1, <1>2 DEF TypeOK
<1>13. ASSUME NEW r \in Rows
       PROVE  /\ bal'[r].id = rows[r].id /\ bal'[r].quota = rows[r].quota
              /\ bal'[r].used = bal[r].used
              /\ bal'[r].reserved = bal[r].reserved + units[r]
              /\ \E n \in Nat : unitRes'[k][r] = Reserved(units[r], n)
  <2> HIDE DEF rows, units
  <2>1. /\ bal'[r].id = rows[r].id /\ bal'[r].quota = rows[r].quota
        /\ bal'[r].used = rows[r].used
        /\ bal'[r].reserved = rows[r].reserved + units[r]
    BY <1>1, <1>5 DEF BalanceRow
  <2>2. unitRes'[k][r] = Reserved(units[r], ReservationId(rows, units, r))
    BY <1>12
  <2>3. QED
    BY <1>5, <1>9, <2>1, <2>2
<1> HIDE DEF S, units, coins, w
<1>14. HoldsTaken(k, mode, estimated, S, units, coins)
  BY <1>6, <1>7, <1>8, <1>12, <1>13 DEF HoldsTaken
<1>15. QED
  BY <1>1, <1>4, <1>6, <1>10, <1>11, <1>14

(* Commit turns what is held into what is used, up to the units it needs,  *)
(* and charges its coins to k's user.                                      *)
LEMMA CommitEffect ==
    ASSUME IInv, NEW k \in Keys, NEW actual \in Demands, Commit(k, actual)
    PROVE  /\ usage[k].status = "authorized"
           /\ OthersStay(k)
           /\ UNCHANGED <<now, plan, sub>>
           /\ \E units \in [Rows -> Nat], coins \in Nat : HoldsSettled(k, units, coins)
<1> DEFINE units == consumeEntitlements(k, actual)
           heldUnits == reservedUnitsForUsage(k)
           coins == CoinsToCharge(k, actual)
           held == reservedCoinsForUsage(k)
           unused == IF coins = 0 THEN held ELSE 0
           w == [r \in Rows |-> Settled(unitRes[k][r], units[r])]
           total == Total(units, Rows)
<1>1. /\ usage[k].status = "authorized"
      /\ bal' = [r \in Rows |-> [bal[r] EXCEPT !.used = @ + units[r],
                                               !.reserved = @ - heldUnits[r]]]
      /\ unitRes' = [unitRes EXCEPT ![k] = w]
      /\ wallet' = [wallet EXCEPT ![UserOf[k]].balance = @ - coins,
                                  ![UserOf[k]].reserved = @ - held]
      /\ coinRes' = [coinRes EXCEPT ![k] = Settled(coinRes[k], coins)]
      /\ ledger' = [ledger EXCEPT ![UserOf[k]].usage = @ + coins,
                                  ![UserOf[k]].release = @ + unused]
      /\ usage' = [usage EXCEPT ![k].status = "committed",
                                ![k].chargedCoins = coins,
                                ![k].chargedUnits = total]
      /\ UNCHANGED <<now, price, plan, sub>>
  BY DEF Commit, CommitAccepted
<1>2. TypeOK /\ HoldsMatchWallet /\ HoldsMatchRows
  BY DEF IInv
<1>3. actual \in [Units -> Nat] /\ UserOf[k] \in Users
  BY UsageBillingAssumption
<1>4. units \in [Rows -> Nat] /\ coins \in Nat
  BY <1>2, <1>3, CommitAmounts
<1>5. heldUnits \in [Rows -> Nat] /\ held \in Nat
  BY <1>2, HeldBounds
<1>6. \A r \in Rows : heldUnits[r] = OpenAmount(unitRes[k][r])
  BY DEF reservedUnitsForUsage
<1>7. usage[k].mode = "entitlement" => coins = 0
  BY DEF CoinsToCharge, priceUsageCoins
<1>8. \A r \in Rows : units[r] <= heldUnits[r]
  <2>1. CASE usage[k].mode = "coins"
    <3>1. units = Nothing
      BY <2>1 DEF consumeEntitlements
    <3> HIDE DEF units, heldUnits
    <3>2. QED
      BY <1>5, <3>1 DEF Nothing
  <2>2. CASE usage[k].mode # "coins"
    <3> DEFINE order == [r \in Rows |-> unitRes[k][r].id]
    <3>1. units = Fill(bal, order, heldUnits, actual)
      BY <2>2 DEF consumeEntitlements
    <3>2. bal \in [Rows -> BalanceRow]
      BY <1>2 DEF TypeOK, BalanceRow
    <3> HIDE DEF units, heldUnits, order
    <3>3. QED
      BY <1>3, <1>5, <3>1, <3>2, FillBounds
  <2>3. QED
    BY <2>1, <2>2
<1> HIDE DEF units, heldUnits, coins, held, unused, w, total
<1>9. unused \in Nat
  BY <1>5 DEF unused
<1>10. OthersStay(k)
  BY <1>1, <1>2 DEF TypeOK, OthersStay
<1>11. /\ coinRes'[k] = Settled(coinRes[k], coins)
       /\ unitRes'[k] = w
  BY <1>1, <1>2 DEF TypeOK
<1>12. /\ usage'[k].status = "committed" /\ usage'[k].mode = usage[k].mode
       /\ usage'[k].chargedCoins = coins /\ usage'[k].chargedUnits = total
  <2>1. usage \in [Keys -> UsageRow]
    BY <1>2 DEF TypeOK, UsageRow
  <2>2. QED
    BY <1>1, <2>1 DEF UsageRow
<1>13. ASSUME NEW r \in Rows
       PROVE  /\ units[r] <= OpenAmount(unitRes[k][r])
              /\ bal'[r].id = bal[r].id /\ bal'[r].quota = bal[r].quota
              /\ bal'[r].used = bal[r].used + units[r]
              /\ bal'[r].reserved = bal[r].reserved - OpenAmount(unitRes[k][r])
              /\ unitRes'[k][r] = Settled(unitRes[k][r], units[r])
  <2>1. /\ bal'[r].id = bal[r].id /\ bal'[r].quota = bal[r].quota
        /\ bal'[r].used = bal[r].used + units[r]
        /\ bal'[r].reserved = bal[r].reserved - heldUnits[r]
    <3>1. bal[r] \in BalanceRow
      BY <1>2 DEF TypeOK, BalanceRow
    <3>2. bal'[r] = [bal[r] EXCEPT !.used = bal[r].used + units[r],
                                   !.reserved = bal[r].reserved - heldUnits[r]]
      BY <1>1
    <3>3. QED
      BY <3>1, <3>2 DEF BalanceRow
  <2>2. unitRes'[k][r] = Settled(unitRes[k][r], units[r])
    BY <1>11 DEF w
  <2>3. QED
    BY <1>6, <1>8, <2>1, <2>2
<1>14. ASSUME NEW u \in Users
       PROVE  /\ wallet'[u].balance
                   = wallet[u].balance - IF u = UserOf[k] THEN coins ELSE 0
              /\ ledger'[u].usage = ledger[u].usage + IF u = UserOf[k] THEN coins ELSE 0
  <2>1. /\ wallet \in [Users -> [balance : Nat, reserved : Nat]]
        /\ ledger \in [Users -> LedgerRow]
    BY <1>2 DEF TypeOK, LedgerRow
  <2>2. CASE u # UserOf[k]
    <3>1. wallet'[u] = wallet[u] /\ ledger'[u] = ledger[u]
      BY <1>1, <2>1, <2>2
    <3>2. wallet[u].balance \in Nat /\ ledger[u].usage \in Nat
      BY <2>1 DEF LedgerRow
    <3>3. QED
      BY <2>2, <3>1, <3>2
  <2>3. CASE u = UserOf[k]
    <3>1. wallet'[u].balance = wallet[u].balance - coins
      BY <1>1, <2>1, <2>3
    <3>2. ledger'[u].usage = ledger[u].usage + coins
      BY <1>1, <2>1, <2>3 DEF LedgerRow
    <3>3. QED
      BY <2>3, <3>1, <3>2
  <2>4. QED
    BY <2>2, <2>3
<1>15. HoldsSettled(k, units, coins)
  BY <1>7, <1>11, <1>12, <1>13, <1>14 DEF HoldsSettled, total
<1>16. QED
  BY <1>1, <1>4, <1>10, <1>15

(* Cancel settles k with nothing.                                          *)
LEMMA CancelEffect ==
    ASSUME IInv, NEW k \in Keys, Cancel(k)
    PROVE  /\ usage[k].status = "authorized"
           /\ OthersStay(k)
           /\ UNCHANGED <<now, plan, sub>>
           /\ \A r \in Rows :
                 /\ bal'[r].id = bal[r].id /\ bal'[r].quota = bal[r].quota
                 /\ bal'[r].used = bal[r].used
                 /\ bal'[r].reserved = bal[r].reserved - OpenAmount(unitRes[k][r])
                 /\ unitRes'[k][r] = Settled(unitRes[k][r], 0)
           /\ coinRes'[k] = Settled(coinRes[k], 0)
           /\ usage'[k].status = "cancelled" /\ usage'[k].mode = usage[k].mode
           /\ usage'[k].chargedCoins = usage[k].chargedCoins
           /\ usage'[k].chargedUnits = usage[k].chargedUnits
           /\ \A u \in Users : /\ wallet'[u].balance = wallet[u].balance
                               /\ ledger'[u].usage = ledger[u].usage
<1> DEFINE heldUnits == reservedUnitsForUsage(k)
           held == reservedCoinsForUsage(k)
           w == [r \in Rows |-> Settled(unitRes[k][r], 0)]
<1>1. /\ usage[k].status = "authorized"
      /\ bal' = [r \in Rows |-> [bal[r] EXCEPT !.reserved = @ - heldUnits[r]]]
      /\ unitRes' = [unitRes EXCEPT ![k] = w]
      /\ wallet' = [wallet EXCEPT ![UserOf[k]].reserved = @ - held]
      /\ coinRes' = [coinRes EXCEPT ![k] = Settled(coinRes[k], 0)]
      /\ ledger' = [ledger EXCEPT ![UserOf[k]].release = @ + held]
      /\ usage' = [usage EXCEPT ![k].status = "cancelled"]
      /\ UNCHANGED <<now, price, plan, sub>>
  BY DEF Cancel
<1>2. TypeOK /\ UserOf[k] \in Users
  BY UsageBillingAssumption DEF IInv
<1>3. \A r \in Rows : heldUnits[r] = OpenAmount(unitRes[k][r])
  BY DEF reservedUnitsForUsage
<1> HIDE DEF heldUnits, held
<1>4. \A u \in Users : /\ wallet'[u].balance = wallet[u].balance
                       /\ ledger'[u].usage = ledger[u].usage
  BY <1>1, <1>2 DEF TypeOK
<1>5. \A r \in Rows : /\ bal'[r].id = bal[r].id /\ bal'[r].quota = bal[r].quota
                      /\ bal'[r].used = bal[r].used
                      /\ bal'[r].reserved = bal[r].reserved - OpenAmount(unitRes[k][r])
                      /\ unitRes'[k][r] = Settled(unitRes[k][r], 0)
  BY <1>1, <1>2, <1>3 DEF TypeOK
<1> HIDE DEF w
<1>6. /\ coinRes'[k] = Settled(coinRes[k], 0)
      /\ usage'[k].status = "cancelled" /\ usage'[k].mode = usage[k].mode
      /\ usage'[k].chargedCoins = usage[k].chargedCoins
      /\ usage'[k].chargedUnits = usage[k].chargedUnits
      /\ OthersStay(k)
  BY <1>1, <1>2 DEF TypeOK, OthersStay
<1>7. QED
  BY <1>1, <1>4, <1>5, <1>6

(* All other steps leave requests alone and refresh rows, if anything.     *)
LEMMA OtherEffect ==
    ASSUME AssetChanges \/ CatalogueEdits \/ UNCHANGED vars, TypeOK
    PROVE  /\ UNCHANGED <<usage, coinRes, unitRes>>
           /\ \A u \in Users :
                 /\ ledger'[u].usage = ledger[u].usage
                 /\ wallet'[u].balance < wallet[u].balance =>
                       ledger'[u].adjust - ledger[u].adjust
                         = wallet[u].balance - wallet'[u].balance
           /\ \/ bal' = bal
              \/ \E S \in SUBSET Subs : bal' = EnsureBalances(S)
<1>0. \A u \in Users : wallet[u].balance \in Nat
  BY DEF TypeOK
<1>1. CASE AssetChanges
  <2>1. ASSUME NEW u \in Users, NEW n \in Adjustments, AdminAdjustCoins(u, n)
        PROVE  /\ UNCHANGED <<usage, coinRes, unitRes, bal>>
               /\ \A v \in Users :
                     /\ ledger'[v].usage = ledger[v].usage
                     /\ wallet'[v].balance < wallet[v].balance =>
                           ledger'[v].adjust - ledger[v].adjust
                             = wallet[v].balance - wallet'[v].balance
    <3>1. /\ wallet' = [wallet EXCEPT ![u].balance = wallet[u].balance + n]
          /\ ledger' = [ledger EXCEPT ![u].credit = ledger[u].credit + Max2(0, n),
                                      ![u].adjust = ledger[u].adjust + Max2(0, -n)]
          /\ UNCHANGED <<usage, coinRes, unitRes, bal>>
      BY <2>1 DEF AdminAdjustCoins
    <3>2. /\ wallet \in [Users -> [balance : Nat, reserved : Nat]]
          /\ ledger \in [Users -> LedgerRow]
          /\ n \in Int
      BY UsageBillingAssumption DEF TypeOK, LedgerRow
    <3>3. ASSUME NEW v \in Users
          PROVE  /\ ledger'[v].usage = ledger[v].usage
                 /\ wallet'[v].balance < wallet[v].balance =>
                       ledger'[v].adjust - ledger[v].adjust
                         = wallet[v].balance - wallet'[v].balance
      <4>1. CASE v # u
        <5>1. wallet'[v] = wallet[v] /\ ledger'[v] = ledger[v]
          BY <3>1, <3>2, <4>1
        <5>2. wallet[v].balance \in Nat
          BY <3>2
        <5>3. QED
          BY <5>1, <5>2
      <4>2. CASE v = u
        <5>1. wallet'[v].balance = wallet[v].balance + n
          BY <3>1, <3>2, <4>2
        <5>2. /\ ledger'[v].usage = ledger[v].usage
              /\ ledger'[v].adjust = ledger[v].adjust + Max2(0, -n)
          BY <3>1, <3>2, <4>2 DEF LedgerRow
        <5>3. wallet[v].balance \in Nat /\ ledger[v].adjust \in Nat
          BY <3>2 DEF LedgerRow
        <5>4. QED
          BY <3>2, <5>1, <5>2, <5>3 DEF Max2
      <4>3. QED
        BY <4>1, <4>2
    <3>4. QED
      BY <3>1, <3>3
  <2>2. ASSUME NEW u \in Users, NEW p \in Plans, NEW m \in GrantMonths,
               AdminGrantSubscription(u, p, m)
        PROVE  /\ UNCHANGED <<usage, coinRes, unitRes, wallet, ledger>>
               /\ \E S \in SUBSET Subs : bal' = EnsureBalances(S)
    <3>1. \E s \in Subs : bal' = EnsureBalances({s})
      BY <2>2, Zenon DEF AdminGrantSubscription
    <3>2. QED
      BY <2>2, <3>1 DEF AdminGrantSubscription
  <2>3. CASE RunEntitlementMaintenance
    <3>1. {s \in Subs : InForce(s)} \in SUBSET Subs
      OBVIOUS
    <3>2. QED
      BY <1>0, <2>3, <3>1 DEF RunEntitlementMaintenance
  <2>4. ASSUME NEW u \in Users, EnsureCurrentMonthEntitlementsForUser(u)
        PROVE  /\ UNCHANGED <<usage, coinRes, unitRes, wallet, ledger>>
               /\ \E S \in SUBSET Subs : bal' = EnsureBalances(S)
    <3>1. {s \in Subs : InForce(s) /\ SubUser[s] = u} \in SUBSET Subs
      OBVIOUS
    <3>2. QED
      BY <2>4, <3>1 DEF EnsureCurrentMonthEntitlementsForUser
  <2>5. CASE Tick
    BY <1>0, <2>5 DEF Tick
  <2>6. QED
    BY <1>0, <1>1, <2>1, <2>2, <2>3, <2>4, <2>5 DEF AssetChanges
<1>2. CASE CatalogueEdits
  BY <1>0, <1>2 DEF CatalogueEdits, AdminUpsertPricing, AdminDeletePricing,
                    SetPrice, AdminUpsertPlanEntitlement
<1>3. CASE UNCHANGED vars
  BY <1>0, <1>3 DEF vars
<1>4. QED
  BY <1>1, <1>2, <1>3

(* What a step of the store may be: one of the three operations on a       *)
(* request, or a step that leaves the requests alone.                      *)
LEMMA StepKinds ==
    ASSUME [Next]_vars
    PROVE  \/ \E k \in Keys, mode \in Modes, d \in Demands : Authorize(k, mode, d)
           \/ \E k \in Keys, d \in Demands : Commit(k, d)
           \/ \E k \in Keys : Cancel(k)
           \/ AssetChanges \/ CatalogueEdits \/ UNCHANGED vars
BY DEF Next, Requests

-----------------------------------------------------------------------------
(* Charges.                                                                *)

(* When only k's charge changes, from nothing to c, and the debits of k's  *)
(* user grow by c, the sums go on matching.                                *)
LEMMA ChargeSums ==
    ASSUME TypeOK, TypeOK', EachRequestDebitedOnce, NEW k \in Keys, NEW c \in Nat,
           OthersStay(k),
           usage[k].chargedCoins = 0, usage'[k].chargedCoins = c,
           \A u \in Users :
              ledger'[u].usage = ledger[u].usage + IF u = UserOf[k] THEN c ELSE 0
    PROVE  \A u \in Users :
              ledger'[u].usage
                = Total([j \in Keys |-> usage'[j].chargedCoins], KeysOf(u))
<1> SUFFICES ASSUME NEW u \in Users
             PROVE  ledger'[u].usage
                      = Total([j \in Keys |-> usage'[j].chargedCoins], KeysOf(u))
  OBVIOUS
<1> DEFINE f == [j \in Keys |-> usage[j].chargedCoins]
           g == [j \in Keys |-> usage'[j].chargedCoins]
<1>1. f \in [Keys -> Nat] /\ g \in [Keys -> Nat]
  BY DEF TypeOK
<1>2. \A j \in Keys \ {k} : g[j] = f[j]
  BY DEF OthersStay
<1>3. f[k] = 0 /\ g[k] = c
  OBVIOUS
<1>4. ledger[u].usage = Total(f, KeysOf(u)) /\ ledger[u].usage \in Nat
  BY DEF EachRequestDebitedOnce, TypeOK
<1> HIDE DEF f, g
<1>5. Total(g, KeysOf(u)) = IF u = UserOf[k] THEN Total(f, KeysOf(u)) - f[k] + g[k]
                                             ELSE Total(f, KeysOf(u))
  BY <1>1, <1>2, OneKeyTotal
<1>6. ledger'[u].usage = Total(g, KeysOf(u))
  BY <1>3, <1>4, <1>5
<1>7. QED
  BY <1>6 DEF g

(* Charges and debits change together.                                     *)
LEMMA DebitsKept ==
    ASSUME IInv, IInv', EachRequestDebitedOnce, [Next]_vars
    PROVE  EachRequestDebitedOnce'
<1>1. TypeOK /\ TypeOK'
  BY DEF IInv
<1>2. usage \in [Keys -> UsageRow] /\ \A u \in Users : ledger[u].usage \in Nat
  BY <1>1 DEF TypeOK, UsageRow
<1>3. ASSUME NEW k \in Keys, NEW mode \in Modes, NEW d \in Demands,
             Authorize(k, mode, d)
      PROVE  EachRequestDebitedOnce'
  <2>1. /\ usage[k].status = "none" /\ OthersStay(k)
        /\ usage'[k].chargedCoins = 0 /\ usage'[k].chargedUnits = 0
        /\ \A u \in Users : ledger'[u].usage = ledger[u].usage
    BY <1>3, AuthorizeEffect DEF HoldsTaken
  <2>2. \A u \in Users :
           ledger'[u].usage = Total([j \in Keys |-> usage'[j].chargedCoins], KeysOf(u))
    <3>1. usage[k].chargedCoins = 0
      BY <2>1 DEF EachRequestDebitedOnce
    <3>2. \A u \in Users :
             ledger'[u].usage = ledger[u].usage + IF u = UserOf[k] THEN 0 ELSE 0
      BY <1>2, <2>1
    <3>3. QED
      BY <1>1, <2>1, <3>1, <3>2, ChargeSums
  <2>3. QED
    BY <2>1, <2>2 DEF EachRequestDebitedOnce, OthersStay
<1>4. ASSUME NEW k \in Keys, NEW d \in Demands, Commit(k, d)
      PROVE  EachRequestDebitedOnce'
  <2>1. PICK units \in [Rows -> Nat], coins \in Nat :
           /\ usage[k].status = "authorized" /\ OthersStay(k)
           /\ HoldsSettled(k, units, coins)
    BY <1>4, CommitEffect
  <2>2. usage[k].chargedCoins = 0
    BY <2>1 DEF EachRequestDebitedOnce
  <2>3. usage'[k].status = "committed" /\ usage'[k].chargedCoins = coins
    BY <2>1 DEF HoldsSettled
  <2>4. \A u \in Users :
           ledger'[u].usage = Total([j \in Keys |-> usage'[j].chargedCoins], KeysOf(u))
    BY <1>1, <2>1, <2>2, <2>3, ChargeSums DEF HoldsSettled
  <2>5. QED
    BY <2>1, <2>3, <2>4 DEF EachRequestDebitedOnce, OthersStay
<1>5. ASSUME NEW k \in Keys, Cancel(k)
      PROVE  EachRequestDebitedOnce'
  <2>1. /\ usage[k].status = "authorized" /\ OthersStay(k)
        /\ usage'[k].chargedCoins = usage[k].chargedCoins
        /\ usage'[k].chargedUnits = usage[k].chargedUnits
        /\ \A u \in Users : ledger'[u].usage = ledger[u].usage
    BY <1>5, CancelEffect
  <2>2. usage[k].chargedCoins = 0 /\ usage[k].chargedUnits = 0
    BY <2>1 DEF EachRequestDebitedOnce
  <2>3. usage'[k].chargedCoins = 0 /\ usage'[k].chargedUnits = 0
    BY <2>1, <2>2
  <2>4. \A u \in Users :
           ledger'[u].usage = Total([j \in Keys |-> usage'[j].chargedCoins], KeysOf(u))
    <3>1. \A u \in Users :
             ledger'[u].usage = ledger[u].usage + IF u = UserOf[k] THEN 0 ELSE 0
      BY <1>2, <2>1
    <3>2. QED
      BY <1>1, <2>1, <2>2, <2>3, <3>1, ChargeSums
  <2>5. QED
    BY <2>1, <2>3, <2>4 DEF EachRequestDebitedOnce, OthersStay
<1>6. CASE AssetChanges \/ CatalogueEdits \/ UNCHANGED vars
  <2>1. usage' = usage /\ \A u \in Users : ledger'[u].usage = ledger[u].usage
    BY <1>1, <1>6, OtherEffect
  <2>2. QED
    BY <2>1 DEF EachRequestDebitedOnce
<1>7. QED
  BY <1>3, <1>4, <1>5, <1>6, StepKinds

(* A user is debited once for each committed request: the usage debits of  *)
(* the wallet ledger are the sum of the charges of the user's requests.    *)
THEOREM DebitedOnce == Spec => []EachRequestDebitedOnce
<1>1. Init => EachRequestDebitedOnce
  <2> SUFFICES ASSUME Init
               PROVE  EachRequestDebitedOnce
    OBVIOUS
  <2> DEFINE f == [k \in Keys |-> usage[k].chargedCoins]
  <2>1. \A k \in Keys : usage[k].chargedCoins = 0 /\ usage[k].chargedUnits = 0
    BY DEF Init, NoUsage
  <2>2. ASSUME NEW u \in Users
        PROVE  ledger[u].usage = Total(f, KeysOf(u))
    <3>1. \A k \in KeysOf(u) : f[k] = 0
      BY <2>1 DEF KeysOf
    <3> HIDE DEF f
    <3>2. Total(f, KeysOf(u)) = 0
      BY <3>1, TotalZero
    <3>3. QED
      BY <3>2 DEF Init
  <2>3. QED
    BY <2>1, <2>2 DEF EachRequestDebitedOnce
<1>2. IInv /\ IInv' /\ EachRequestDebitedOnce /\ [Next]_vars => EachRequestDebitedOnce'
  BY DebitsKept
<1>3. QED
  BY <1>1, <1>2, Invariance, PTL DEF Spec

-----------------------------------------------------------------------------
(* Modes.                                                                  *)

(* Where nothing is reserved there is nothing to settle.                   *)
LEMMA NothingSettled == \A n : Settled(NoReservation, n) = NoReservation
<1>1. NoReservation.status # "reserved"
  BY DEF NoReservation
<1>2. QED
  BY <1>1, Zenon DEF Settled

(* Authorize respects the mode when it takes holds, and Commit and Cancel  *)
(* leave a missing reservation missing.                                    *)
LEMMA ModesKept ==
    ASSUME IInv, ModesKeptApart, [Next]_vars
    PROVE  ModesKeptApart'
<1>1. TypeOK
  BY DEF IInv
<1>2. usage \in [Keys -> UsageRow]
  BY <1>1 DEF TypeOK, UsageRow
<1>3. ASSUME NEW k \in Keys, NEW mode \in Modes, NEW d \in Demands,
             Authorize(k, mode, d)
      PROVE  ModesKeptApart'
  <2>1. PICK S \in SUBSET InForceFor(UserOf[k], AppOf[k]),
             units \in [Rows -> Nat], coins \in Nat :
           OthersStay(k) /\ HoldsTaken(k, mode, d, S, units, coins)
    BY <1>3, AuthorizeEffect
  <2>2. usage'[k].mode = mode /\ usage'[k].chargedCoins = 0
    BY <2>1 DEF HoldsTaken
  <2>3. mode = "entitlement" => coinRes'[k] = NoReservation
    BY <2>1 DEF HoldsTaken, Reserved
  <2>4. ASSUME mode = "coins", NEW r \in Rows
        PROVE  unitRes'[k][r] = NoReservation
    <3>1. units[r] <= Reservable(EnsureBalances(S), S)[r] /\ S = {}
      BY <2>1, <2>4 DEF HoldsTaken
    <3>2. Reservable(EnsureBalances(S), S)[r] = 0
      BY <3>1 DEF Reservable
    <3>3. units[r] \in Nat
      OBVIOUS
    <3>4. units[r] = 0
      BY <3>1, <3>2, <3>3
    <3>5. PICK n \in Nat : unitRes'[k][r] = Reserved(units[r], n)
      BY <2>1 DEF HoldsTaken
    <3>6. QED
      BY <3>4, <3>5 DEF Reserved
  <2>5. QED
    BY <2>1, <2>2, <2>3, <2>4 DEF ModesKeptApart, OthersStay
<1>4. ASSUME NEW k \in Keys, NEW d \in Demands, Commit(k, d)
      PROVE  ModesKeptApart'
  <2>1. PICK units \in [Rows -> Nat], coins \in Nat :
           OthersStay(k) /\ HoldsSettled(k, units, coins)
    BY <1>4, CommitEffect
  <2>2. usage'[k].mode = usage[k].mode /\ usage'[k].chargedCoins = coins
    BY <2>1 DEF HoldsSettled
  <2>3. usage[k].mode = "entitlement" =>
           coins = 0 /\ coinRes'[k] = NoReservation
    BY <2>1, NothingSettled DEF HoldsSettled, ModesKeptApart
  <2>4. usage[k].mode = "coins" => \A r \in Rows : unitRes'[k][r] = NoReservation
    BY <2>1, NothingSettled DEF HoldsSettled, ModesKeptApart
  <2>5. QED
    BY <2>1, <2>2, <2>3, <2>4 DEF ModesKeptApart, OthersStay
<1>5. ASSUME NEW k \in Keys, Cancel(k)
      PROVE  ModesKeptApart'
  <2>1. /\ OthersStay(k)
        /\ coinRes'[k] = Settled(coinRes[k], 0)
        /\ \A r \in Rows : unitRes'[k][r] = Settled(unitRes[k][r], 0)
        /\ usage'[k].mode = usage[k].mode
        /\ usage'[k].chargedCoins = usage[k].chargedCoins
    BY <1>5, CancelEffect
  <2>2. usage[k].mode = "entitlement" => coinRes'[k] = NoReservation
    BY <2>1, NothingSettled DEF ModesKeptApart
  <2>3. usage[k].mode = "coins" => \A r \in Rows : unitRes'[k][r] = NoReservation
    BY <2>1, NothingSettled DEF ModesKeptApart
  <2>4. QED
    BY <2>1, <2>2, <2>3 DEF ModesKeptApart, OthersStay
<1>6. CASE AssetChanges \/ CatalogueEdits \/ UNCHANGED vars
  BY <1>1, <1>6, OtherEffect DEF ModesKeptApart
<1>7. QED
  BY <1>3, <1>4, <1>5, <1>6, StepKinds

(* A request in entitlement mode never costs coins, and one in coins mode  *)
(* never touches a quota.                                                  *)
THEOREM ModesApart == Spec => []ModesKeptApart
<1>1. Init => ModesKeptApart
  BY DEF Init, ModesKeptApart, NoUsage
<1>2. IInv /\ ModesKeptApart /\ [Next]_vars => ModesKeptApart'
  BY ModesKept
<1>3. QED
  BY <1>1, <1>2, Invariance, PTL DEF Spec

-----------------------------------------------------------------------------
(* Consumption.                                                            *)

(* Only committed requests have consumed anything.                         *)
NothingConsumedYet ==
    \A k \in Keys, r \in Rows :
        usage[k].status # "committed" => unitRes[k][r].consumed = 0

(* A reservation nothing was consumed of, settled with n units it holds.   *)
LEMMA SettledConsumes ==
    ASSUME NEW x \in Reservation, x.consumed = 0,
           NEW n \in Nat, n <= OpenAmount(x)
    PROVE  Settled(x, n).consumed = n
<1>1. CASE x.status # "reserved"
  BY <1>1 DEF Settled, OpenAmount
<1>2. CASE x.status = "reserved" /\ n = 0
  BY <1>2 DEF Settled, Reservation
<1>3. CASE x.status = "reserved" /\ n # 0
  <2>1. Settled(x, n) = [[x EXCEPT !.status = "consumed"]
                           EXCEPT !.consumed = Min2(x.amount, n)]
    BY <1>3 DEF Settled, Reservation
  <2>2. Min2(x.amount, n) = n
    BY <1>3 DEF Min2, OpenAmount, Reservation
  <2>3. QED
    BY <2>1, <2>2 DEF Reservation
<1>4. QED
  BY <1>1, <1>2, <1>3

(* When request k, which had consumed nothing, consumes c[r] of each row r *)
(* and the used columns grow by c, both sums go on matching.               *)
LEMMA ConsumptionSums ==
    ASSUME TypeOK, TypeOK', UsedMatchesConsumption, NEW k \in Keys,
           NEW c \in [Rows -> Nat], OthersStay(k),
           \A r \in Rows : /\ unitRes[k][r].consumed = 0
                           /\ unitRes'[k][r].consumed = c[r]
                           /\ bal'[r].used = bal[r].used + c[r],
           usage'[k].chargedUnits = Total(c, Rows)
    PROVE  UsedMatchesConsumption'
<1>1. ASSUME NEW r \in Rows
      PROVE  bal'[r].used = Total([j \in Keys |-> unitRes'[j][r].consumed], Keys)
  <2> DEFINE f == [j \in Keys |-> unitRes[j][r].consumed]
             g == [j \in Keys |-> unitRes'[j][r].consumed]
  <2>1. f \in [Keys -> Nat] /\ g \in [Keys -> Nat]
    BY DEF TypeOK
  <2>2. \A j \in Keys \ {k} : g[j] = f[j]
    BY DEF OthersStay
  <2>3. f[k] = 0 /\ g[k] = c[r]
    OBVIOUS
  <2>4. bal[r].used = Total(f, Keys) /\ bal[r].used \in Nat
    BY DEF UsedMatchesConsumption, TypeOK
  <2>5. IsFiniteSet(Keys)
    BY UsageBillingAssumption
  <2> HIDE DEF f, g
  <2>6. Total(g, Keys) = Total(f, Keys) - f[k] + g[k]
    BY <2>1, <2>2, <2>5, TotalUpdate
  <2>7. bal'[r].used = Total(g, Keys)
    BY <2>3, <2>4, <2>6
  <2>8. QED
    BY <2>7 DEF g
<1>2. ASSUME NEW j \in Keys
      PROVE  usage'[j].chargedUnits = Total([r \in Rows |-> unitRes'[j][r].consumed], Rows)
  <2>1. CASE j # k
    BY <2>1 DEF UsedMatchesConsumption, OthersStay
  <2>2. CASE j = k
    <3> DEFINE g == [r \in Rows |-> unitRes'[j][r].consumed]
    <3>1. \A r \in Rows : g[r] = c[r]
      BY <2>2
    <3> HIDE DEF g
    <3>2. Total(g, Rows) = Total(c, Rows)
      BY <3>1, TotalCongruence
    <3>3. QED
      BY <2>2, <3>2 DEF g
  <2>3. QED
    BY <2>1, <2>2
<1>3. QED
  BY <1>1, <1>2 DEF UsedMatchesConsumption

(* Used columns and reservations change together.                          *)
LEMMA ConsumptionKept ==
    ASSUME IInv, IInv', EachRequestDebitedOnce,
           UsedMatchesConsumption, NothingConsumedYet, [Next]_vars
    PROVE  UsedMatchesConsumption' /\ NothingConsumedYet'
<1>1. TypeOK /\ TypeOK'
  BY DEF IInv
<1>2. /\ usage \in [Keys -> UsageRow]
      /\ bal \in [Rows -> BalanceRow]
      /\ unitRes \in [Keys -> [Rows -> Reservation]]
  BY <1>1 DEF TypeOK, UsageRow, BalanceRow, Reservation
<1>3. ASSUME NEW k \in Keys, NEW mode \in Modes, NEW d \in Demands,
             Authorize(k, mode, d)
      PROVE  UsedMatchesConsumption' /\ NothingConsumedYet'
  <2>1. PICK S \in SUBSET InForceFor(UserOf[k], AppOf[k]),
             units \in [Rows -> Nat], coins \in Nat :
           /\ usage[k].status = "none" /\ OthersStay(k)
           /\ HoldsTaken(k, mode, d, S, units, coins)
    BY <1>3, AuthorizeEffect
  <2>2. S \subseteq Subs
    BY <2>1 DEF InForceFor
  <2>3. ASSUME NEW r \in Rows
        PROVE  /\ unitRes[k][r].consumed = 0
               /\ unitRes'[k][r].consumed = Nothing[r]
               /\ bal'[r].used = bal[r].used + Nothing[r]
    <3>1. unitRes[k][r].consumed = 0
      BY <2>1 DEF NothingConsumedYet
    <3>2. unitRes'[k][r].consumed = 0
      <4>1. PICK n \in Nat : unitRes'[k][r] = Reserved(units[r], n)
        BY <2>1 DEF HoldsTaken
      <4>2. QED
        BY <4>1 DEF Reserved, NoReservation
    <3>3. bal'[r].used = bal[r].used
      BY <2>1 DEF HoldsTaken
    <3>4. bal[r].used \in Nat /\ Nothing[r] = 0
      BY <1>2 DEF BalanceRow, Nothing
    <3>5. QED
      BY <3>1, <3>2, <3>3, <3>4
  <2>4. usage'[k].chargedUnits = Total(Nothing, Rows)
    <3>1. Total(Nothing, Rows) = 0
      BY TotalZero DEF Nothing
    <3>2. QED
      BY <2>1, <3>1 DEF HoldsTaken
  <2>5. UsedMatchesConsumption'
    <3>1. Nothing \in [Rows -> Nat]
      BY DEF Nothing
    <3>2. QED
      BY <1>1, <2>1, <2>3, <2>4, <3>1, ConsumptionSums
  <2>6. NothingConsumedYet'
    BY <2>1, <2>3 DEF NothingConsumedYet, OthersStay, Nothing
  <2>7. QED
    BY <2>5, <2>6
<1>4. ASSUME NEW k \in Keys, NEW d \in Demands, Commit(k, d)
      PROVE  UsedMatchesConsumption' /\ NothingConsumedYet'
  <2>1. PICK units \in [Rows -> Nat], coins \in Nat :
           /\ usage[k].status = "authorized" /\ OthersStay(k)
           /\ HoldsSettled(k, units, coins)
    BY <1>4, CommitEffect
  <2>2. ASSUME NEW r \in Rows
        PROVE  /\ unitRes[k][r].consumed = 0
               /\ unitRes'[k][r].consumed = units[r]
               /\ bal'[r].used = bal[r].used + units[r]
    <3>1. unitRes[k][r].consumed = 0
      BY <2>1 DEF NothingConsumedYet
    <3>2. unitRes'[k][r].consumed = units[r]
      <4>1. unitRes[k][r] \in Reservation /\ units[r] \in Nat
        BY <1>2
      <4>2. /\ units[r] <= OpenAmount(unitRes[k][r])
            /\ unitRes'[k][r] = Settled(unitRes[k][r], units[r])
        BY <2>1 DEF HoldsSettled
      <4>3. QED
        BY <3>1, <4>1, <4>2, SettledConsumes
    <3>3. bal'[r].used = bal[r].used + units[r]
      BY <2>1 DEF HoldsSettled
    <3>4. QED
      BY <3>1, <3>2, <3>3
  <2>3. usage'[k].chargedUnits = Total(units, Rows) /\ usage'[k].status = "committed"
    BY <2>1 DEF HoldsSettled
  <2>4. UsedMatchesConsumption'
    BY <1>1, <2>1, <2>2, <2>3, ConsumptionSums
  <2>5. QED
    BY <2>1, <2>3, <2>4 DEF NothingConsumedYet, OthersStay
<1>5. ASSUME NEW k \in Keys, Cancel(k)
      PROVE  UsedMatchesConsumption' /\ NothingConsumedYet'
  <2>1. /\ usage[k].status = "authorized" /\ OthersStay(k)
        /\ \A r \in Rows :
              /\ bal'[r].used = bal[r].used
              /\ unitRes'[k][r] = Settled(unitRes[k][r], 0)
        /\ usage'[k].status = "cancelled"
        /\ usage'[k].chargedUnits = usage[k].chargedUnits
    BY <1>5, CancelEffect
  <2>2. ASSUME NEW r \in Rows
        PROVE  /\ unitRes[k][r].consumed = 0
               /\ unitRes'[k][r].consumed = Nothing[r]
               /\ bal'[r].used = bal[r].used + Nothing[r]
    <3>1. unitRes[k][r].consumed = 0
      BY <2>1 DEF NothingConsumedYet
    <3>2. unitRes'[k][r].consumed = 0
      <4>1. unitRes[k][r] \in Reservation
        BY <1>2
      <4>2. OpenAmount(unitRes[k][r]) \in Nat
        BY <4>1, OpenAmountType
      <4>3. unitRes'[k][r] = Settled(unitRes[k][r], 0)
        BY <2>1
      <4>4. QED
        BY <3>1, <4>1, <4>2, <4>3, SettledConsumes
    <3>3. bal'[r].used = bal[r].used
      BY <2>1
    <3>4. bal[r].used \in Nat /\ Nothing[r] = 0
      BY <1>2 DEF BalanceRow, Nothing
    <3>5. QED
      BY <3>1, <3>2, <3>3, <3>4
  <2>3. usage'[k].chargedUnits = Total(Nothing, Rows)
    <3>1. Total(Nothing, Rows) = 0
      BY TotalZero DEF Nothing
    <3>2. usage[k].chargedUnits = 0
      BY <2>1 DEF EachRequestDebitedOnce
    <3>3. QED
      BY <2>1, <3>1, <3>2
  <2>4. UsedMatchesConsumption'
    <3>1. Nothing \in [Rows -> Nat]
      BY DEF Nothing
    <3>2. QED
      BY <1>1, <2>1, <2>2, <2>3, <3>1, ConsumptionSums
  <2>5. NothingConsumedYet'
    BY <2>1, <2>2 DEF NothingConsumedYet, OthersStay, Nothing
  <2>6. QED
    BY <2>4, <2>5
<1>6. CASE AssetChanges \/ CatalogueEdits \/ UNCHANGED vars
  <2>1. UNCHANGED <<usage, unitRes>>
    BY <1>1, <1>6, OtherEffect
  <2>2. \A r \in Rows : bal'[r].used = bal[r].used
    BY <1>1, <1>6, OtherEffect, EnsureBalancesKeeps
  <2>3. QED
    BY <2>1, <2>2 DEF UsedMatchesConsumption, NothingConsumedYet
<1>7. QED
  BY <1>3, <1>4, <1>5, <1>6, StepKinds

(* The used column of every row is the sum of what requests consumed of    *)
(* it, and a committed request reports what it consumed.                   *)
THEOREM ConsumptionExact == Spec => []UsedMatchesConsumption
<1> DEFINE J == UsedMatchesConsumption /\ NothingConsumedYet
<1>1. Init => J
  <2> SUFFICES ASSUME Init
               PROVE  J
    OBVIOUS
  <2>1. \A k \in Keys, r \in Rows : unitRes[k][r].consumed = 0
    BY DEF Init, NoReservation
  <2>2. ASSUME NEW r \in Rows
        PROVE  bal[r].used = Total([k \in Keys |-> unitRes[k][r].consumed], Keys)
    <3> DEFINE f == [k \in Keys |-> unitRes[k][r].consumed]
    <3>1. \A k \in Keys : f[k] = 0
      BY <2>1
    <3> HIDE DEF f
    <3>2. Total(f, Keys) = 0
      BY <3>1, TotalZero
    <3>3. QED
      BY <3>2 DEF Init, NoRow, f
  <2>3. ASSUME NEW k \in Keys
        PROVE  usage[k].chargedUnits = Total([r \in Rows |-> unitRes[k][r].consumed], Rows)
    <3> DEFINE f == [r \in Rows |-> unitRes[k][r].consumed]
    <3>1. \A r \in Rows : f[r] = 0
      BY <2>1
    <3> HIDE DEF f
    <3>2. Total(f, Rows) = 0
      BY <3>1, TotalZero
    <3>3. QED
      BY <3>2 DEF Init, NoUsage, f
  <2>4. QED
    BY <2>1, <2>2, <2>3 DEF UsedMatchesConsumption, NothingConsumedYet
<1>2. IInv /\ IInv' /\ EachRequestDebitedOnce /\ J /\ [Next]_vars => J'
  BY ConsumptionKept
<1>3. J => UsedMatchesConsumption
  OBVIOUS
<1> HIDE DEF J
<1>4. QED
  BY <1>1, <1>2, <1>3, Invariance, DebitedOnce, PTL DEF Spec

-----------------------------------------------------------------------------
(* Rows.                                                                   *)

(* A row that is not in the table has no quota.                            *)
NoQuotaWithoutRow == \A r \in Rows : bal[r].id = 0 => bal[r].quota = 0

(* EnsureBalances creates rows with ids and removes none.                  *)
LEMMA EnsureBalancesRows ==
    ASSUME TypeOK, NoQuotaWithoutRow, NEW S, S \subseteq Subs, NEW r \in Rows
    PROVE  /\ EnsureBalances(S)[r].id = 0 => EnsureBalances(S)[r].quota = 0
           /\ bal[r].id # 0 => EnsureBalances(S)[r].id # 0
<1> DEFINE due == {q \in Rows : /\ q[1] \in S /\ q[3] = MonthOf(now)
                                /\ EntitlementOf(q) # NoEntitlement}
           new == {q \in due : bal[q].id = 0}
           old == Cardinality({q \in Rows : bal[q].id # 0})
           upTo == {q \in new : \/ q[1] < r[1]
                                \/ q[1] = r[1] /\ q[2] <= r[2]}
<1>1. old \in Nat
  BY RowsFinite, FS_Subset, FS_CardinalityType
<1>2. r \in new => Cardinality(upTo) \in Nat \ {0}
  <2>1. upTo \in SUBSET Rows
    OBVIOUS
  <2>2. r \in new => r \in upTo
    <3>1. r[2] \in Nat
      BY UsageBillingAssumption DEF Rows
    <3>2. QED
      BY <3>1
  <2> HIDE DEF upTo, new
  <2>3. IsFiniteSet(upTo)
    BY <2>1, RowsFinite, FS_Subset
  <2>4. QED
    BY <2>2, <2>3, FS_EmptySet, FS_CardinalityType
<1>3. EnsureBalances(S)[r] =
        IF r \notin due THEN bal[r]
        ELSE [id |-> IF r \in new THEN old + Cardinality(upTo) ELSE bal[r].id,
              unit |-> EntitlementOf(r).unit, quota |-> EntitlementOf(r).quota,
              used |-> bal[r].used, reserved |-> bal[r].reserved]
  BY DEF EnsureBalances
<1>4. r \in due /\ r \notin new => bal[r].id # 0
  OBVIOUS
<1> HIDE DEF due, new, old, upTo
<1>5. QED
  BY <1>1, <1>2, <1>3, <1>4 DEF NoQuotaWithoutRow

(* A row units can be reserved of is in the table, of the current month    *)
(* and of one of the subscriptions given.                                  *)
LEMMA ReservableRows ==
    ASSUME TypeOK, NoQuotaWithoutRow, NEW S, S \subseteq Subs, NEW r \in Rows,
           NEW n \in Nat, n > 0, n <= Reservable(EnsureBalances(S), S)[r]
    PROVE  /\ r[1] \in S /\ r[3] = MonthOf(now)
           /\ EnsureBalances(S)[r].id # 0
           /\ bal[r].used + bal[r].reserved + n <= EnsureBalances(S)[r].quota
<1> DEFINE row == EnsureBalances(S)[r]
<1>1. /\ row \in BalanceRow
      /\ row.used = bal[r].used /\ row.reserved = bal[r].reserved
  BY EnsureBalancesKeeps
<1>2. row.id = 0 => row.quota = 0
  BY EnsureBalancesRows
<1>3. Reservable(EnsureBalances(S), S)[r]
        = IF r[1] \in S /\ r[3] = MonthOf(now)
          THEN Max2(0, row.quota - row.used - row.reserved) ELSE 0
  BY DEF Reservable
<1> HIDE DEF row
<1>4. r[1] \in S /\ r[3] = MonthOf(now)
  BY <1>3
<1>5. row.used + row.reserved + n <= row.quota
  BY <1>1, <1>3 DEF Max2, BalanceRow
<1>6. row.id # 0
  BY <1>1, <1>2, <1>5 DEF BalanceRow
<1>7. QED
  BY <1>1, <1>4, <1>5, <1>6 DEF row

(* Reservations stay on rows of the request's own user and app, and rows   *)
(* stay in the table.                                                      *)
LEMMA OwnRowsKept ==
    ASSUME IInv, HoldsOwnRows, NoQuotaWithoutRow, [Next]_vars
    PROVE  HoldsOwnRows' /\ NoQuotaWithoutRow'
<1>1. TypeOK
  BY DEF IInv
<1>2. ASSUME NEW k \in Keys, NEW mode \in Modes, NEW d \in Demands,
             Authorize(k, mode, d)
      PROVE  HoldsOwnRows' /\ NoQuotaWithoutRow'
  <2>1. PICK S \in SUBSET InForceFor(UserOf[k], AppOf[k]),
             units \in [Rows -> Nat], coins \in Nat :
           OthersStay(k) /\ HoldsTaken(k, mode, d, S, units, coins)
    BY <1>2, AuthorizeEffect
  <2>2. S \subseteq Subs
    BY DEF InForceFor
  <2>3. ASSUME NEW r \in Rows
        PROVE  /\ bal'[r].id = 0 => bal'[r].quota = 0
               /\ bal[r].id # 0 => bal'[r].id # 0
    BY <1>1, <2>1, <2>2, EnsureBalancesRows DEF HoldsTaken
  <2>4. ASSUME NEW r \in Rows, unitRes'[k][r].status # "none"
        PROVE  /\ bal'[r].id # 0
               /\ SubUser[r[1]] = UserOf[k]
               /\ PlanApp[SubPlan[r[1]]] = AppOf[k]
    <3>1. PICK n \in Nat : unitRes'[k][r] = Reserved(units[r], n)
      BY <2>1 DEF HoldsTaken
    <3>2. units[r] > 0
      BY <2>4, <3>1 DEF Reserved, NoReservation
    <3>3. units[r] \in Nat /\ units[r] <= Reservable(EnsureBalances(S), S)[r]
      BY <2>1 DEF HoldsTaken
    <3>4. r[1] \in S /\ EnsureBalances(S)[r].id # 0
      BY <1>1, <2>2, <3>2, <3>3, ReservableRows
    <3>5. QED
      BY <2>1, <3>4 DEF HoldsTaken, InForceFor
  <2>5. HoldsOwnRows'
    <3> SUFFICES ASSUME NEW j \in Keys, NEW r \in Rows, unitRes'[j][r].status # "none"
                 PROVE  /\ bal'[r].id # 0
                        /\ SubUser[r[1]] = UserOf[j]
                        /\ PlanApp[SubPlan[r[1]]] = AppOf[j]
      BY DEF HoldsOwnRows
    <3>1. CASE j = k
      BY <2>4, <3>1
    <3>2. CASE j # k
      <4>1. unitRes[j][r].status # "none"
        BY <2>1, <3>2 DEF OthersStay
      <4>2. QED
        BY <2>3, <4>1 DEF HoldsOwnRows
    <3>3. QED
      BY <3>1, <3>2
  <2>6. QED
    BY <2>3, <2>5 DEF NoQuotaWithoutRow
<1>3. ASSUME NEW k \in Keys, OthersStay(k),
             \A r \in Rows :
                /\ bal'[r].id = bal[r].id /\ bal'[r].quota = bal[r].quota
                /\ \E n \in Nat : unitRes'[k][r] = Settled(unitRes[k][r], n)
      PROVE  HoldsOwnRows' /\ NoQuotaWithoutRow'
  <2>1. ASSUME NEW j \in Keys, NEW r \in Rows, unitRes'[j][r].status # "none"
        PROVE  unitRes[j][r].status # "none"
    <3>1. CASE j = k
      <4>1. PICK n \in Nat : unitRes'[j][r] = Settled(unitRes[j][r], n)
        BY <1>3, <3>1
      <4>2. unitRes[j][r].status = "none" => unitRes'[j][r] = unitRes[j][r]
        BY <4>1, Zenon DEF Settled
      <4>3. QED
        BY <2>1, <4>2
    <3>2. CASE j # k
      BY <1>3, <2>1, <3>2 DEF OthersStay
    <3>3. QED
      BY <3>1, <3>2
  <2>2. QED
    BY <1>3, <2>1 DEF HoldsOwnRows, NoQuotaWithoutRow
<1>4. ASSUME NEW k \in Keys, NEW d \in Demands, Commit(k, d)
      PROVE  HoldsOwnRows' /\ NoQuotaWithoutRow'
  <2>1. PICK units \in [Rows -> Nat], coins \in Nat :
           OthersStay(k) /\ HoldsSettled(k, units, coins)
    BY <1>4, CommitEffect
  <2>2. \A r \in Rows :
           /\ bal'[r].id = bal[r].id /\ bal'[r].quota = bal[r].quota
           /\ unitRes'[k][r] = Settled(unitRes[k][r], units[r]) /\ units[r] \in Nat
    BY <2>1 DEF HoldsSettled
  <2>3. QED
    BY <1>3, <2>1, <2>2
<1>5. ASSUME NEW k \in Keys, Cancel(k)
      PROVE  HoldsOwnRows' /\ NoQuotaWithoutRow'
  BY <1>3, <1>5, CancelEffect
<1>6. CASE AssetChanges \/ CatalogueEdits \/ UNCHANGED vars
  <2>1. unitRes' = unitRes
    BY <1>1, <1>6, OtherEffect
  <2>2. ASSUME NEW r \in Rows
        PROVE  /\ bal'[r].id = 0 => bal'[r].quota = 0
               /\ bal[r].id # 0 => bal'[r].id # 0
    <3>1. CASE bal' = bal
      BY <3>1 DEF NoQuotaWithoutRow
    <3>2. ASSUME NEW S \in SUBSET Subs, bal' = EnsureBalances(S)
          PROVE  /\ bal'[r].id = 0 => bal'[r].quota = 0
                 /\ bal[r].id # 0 => bal'[r].id # 0
      <4>1. S \subseteq Subs
        OBVIOUS
      <4>2. QED
        BY <1>1, <3>2, <4>1, EnsureBalancesRows
    <3>3. QED
      BY <1>1, <1>6, <3>1, <3>2, OtherEffect
  <2>3. QED
    BY <2>1, <2>2 DEF HoldsOwnRows, NoQuotaWithoutRow
<1>7. QED
  BY <1>2, <1>4, <1>5, <1>6, StepKinds

(* Every reachable state satisfies both.                                   *)
LEMMA OwnRowsInvariant == Spec => [](HoldsOwnRows /\ NoQuotaWithoutRow)
<1> DEFINE J == HoldsOwnRows /\ NoQuotaWithoutRow
<1>1. Init => J
  BY DEF Init, HoldsOwnRows, NoQuotaWithoutRow, NoReservation, NoRow
<1>2. IInv /\ J /\ [Next]_vars => J'
  BY OwnRowsKept
<1> HIDE DEF J
<1>3. Spec => []J
  BY <1>1, <1>2, Invariance, PTL DEF Spec
<1>4. QED
  BY <1>3 DEF J

(* Units are held only on rows of the request's own user and app.          *)
THEOREM OwnRowsOnly == Spec => []HoldsOwnRows
BY OwnRowsInvariant, PTL

(* How a row may change in a step: more is used and held of it only by an  *)
(* Authorize within the quota, in its month and while its subscription is  *)
(* in force; a Commit may only turn what is held into what is used.        *)
LEMMA RowSteps ==
    ASSUME IInv, NoQuotaWithoutRow, [Next]_vars, NEW r \in Rows
    PROVE  \/ /\ bal'[r].used + bal'[r].reserved <= bal[r].used + bal[r].reserved
              /\ bal'[r].reserved <= bal[r].reserved
           \/ /\ bal'[r].used + bal'[r].reserved <= bal'[r].quota
              /\ r[3] = MonthOf(now) /\ InForce(r[1])
<1>1. TypeOK
  BY DEF IInv
<1>2. bal[r].used \in Nat /\ bal[r].reserved \in Nat
  BY <1>1 DEF TypeOK
<1> DEFINE Kept == /\ bal'[r].used + bal'[r].reserved <= bal[r].used + bal[r].reserved
                   /\ bal'[r].reserved <= bal[r].reserved
<1>3. ASSUME NEW k \in Keys, NEW mode \in Modes, NEW d \in Demands,
             Authorize(k, mode, d), ~ Kept
      PROVE  /\ bal'[r].used + bal'[r].reserved <= bal'[r].quota
             /\ r[3] = MonthOf(now) /\ InForce(r[1])
  <2>1. PICK S \in SUBSET InForceFor(UserOf[k], AppOf[k]),
             units \in [Rows -> Nat], coins \in Nat :
           HoldsTaken(k, mode, d, S, units, coins)
    BY <1>3, AuthorizeEffect
  <2>2. S \subseteq Subs
    BY DEF InForceFor
  <2>3. /\ units[r] \in Nat /\ units[r] <= Reservable(EnsureBalances(S), S)[r]
        /\ bal'[r].used = bal[r].used
        /\ bal'[r].reserved = bal[r].reserved + units[r]
        /\ bal'[r].quota = EnsureBalances(S)[r].quota
    BY <2>1 DEF HoldsTaken
  <2>4. units[r] > 0
    BY <1>2, <1>3, <2>3
  <2>5. /\ r[1] \in S /\ r[3] = MonthOf(now)
        /\ bal[r].used + bal[r].reserved + units[r] <= EnsureBalances(S)[r].quota
    BY <1>1, <2>2, <2>3, <2>4, ReservableRows
  <2>6. InForce(r[1])
    BY <2>5 DEF InForceFor
  <2>7. bal'[r].used + bal'[r].reserved = bal[r].used + bal[r].reserved + units[r]
    BY <1>2, <2>3
  <2>8. QED
    BY <2>3, <2>5, <2>6, <2>7
<1>4. ASSUME NEW k \in Keys, NEW d \in Demands, Commit(k, d)
      PROVE  Kept
  <2>1. PICK units \in [Rows -> Nat], coins \in Nat : HoldsSettled(k, units, coins)
    BY <1>4, CommitEffect
  <2>2. /\ units[r] \in Nat /\ units[r] <= OpenAmount(unitRes[k][r])
        /\ bal'[r].used = bal[r].used + units[r]
        /\ bal'[r].reserved = bal[r].reserved - OpenAmount(unitRes[k][r])
    BY <2>1 DEF HoldsSettled
  <2>3. OpenAmount(unitRes[k][r]) \in Nat
    BY <1>1, OpenAmountType DEF TypeOK, Reservation
  <2>4. QED
    BY <1>2, <2>2, <2>3
<1>5. ASSUME NEW k \in Keys, Cancel(k)
      PROVE  Kept
  <2>1. /\ bal'[r].used = bal[r].used
        /\ bal'[r].reserved = bal[r].reserved - OpenAmount(unitRes[k][r])
    BY <1>5, CancelEffect
  <2>2. OpenAmount(unitRes[k][r]) \in Nat
    BY <1>1, OpenAmountType DEF TypeOK, Reservation
  <2>3. QED
    BY <1>2, <2>1, <2>2
<1>6. CASE AssetChanges \/ CatalogueEdits \/ UNCHANGED vars
  <2>1. bal'[r].used = bal[r].used /\ bal'[r].reserved = bal[r].reserved
    BY <1>1, <1>6, OtherEffect, EnsureBalancesKeeps
  <2>2. Kept
    BY <1>2, <2>1
  <2>3. QED
    BY <2>2
<1>7. QED
  BY <1>3, <1>4, <1>5, <1>6, StepKinds

(* No step draws a row beyond its quota.                                   *)
THEOREM QuotaKept == Spec => QuotaNeverExceeded
<1> DEFINE Step == \A r \in Rows :
                     bal'[r].used + bal'[r].reserved > bal[r].used + bal[r].reserved =>
                         bal'[r].used + bal'[r].reserved <= bal'[r].quota
<1>1. IInv /\ IInv' /\ NoQuotaWithoutRow /\ [Next]_vars => Step
  <2> SUFFICES ASSUME IInv, IInv', NoQuotaWithoutRow, [Next]_vars, NEW r \in Rows,
                      bal'[r].used + bal'[r].reserved > bal[r].used + bal[r].reserved
               PROVE  bal'[r].used + bal'[r].reserved <= bal'[r].quota
    OBVIOUS
  <2>1. /\ bal[r].used \in Nat /\ bal[r].reserved \in Nat
        /\ bal'[r].used \in Nat /\ bal'[r].reserved \in Nat
    BY DEF IInv, TypeOK
  <2>2. QED
    BY <2>1, RowSteps
<1> HIDE DEF Step
<1>2. Spec => [][Step]_vars
  BY <1>1, Invariance, OwnRowsInvariant, PTL DEF Spec
<1>3. QED
  BY <1>2 DEF Step, QuotaNeverExceeded

(* A row takes new holds only in its month and while its subscription is   *)
(* in force.                                                               *)
THEOREM HoldsInMonth == Spec => NoCarryOver
<1> DEFINE Step == \A r \in Rows :
                     bal'[r].reserved > bal[r].reserved =>
                         r[3] = MonthOf(now) /\ InForce(r[1])
<1>1. IInv /\ IInv' /\ NoQuotaWithoutRow /\ [Next]_vars => Step
  <2> SUFFICES ASSUME IInv, IInv', NoQuotaWithoutRow, [Next]_vars, NEW r \in Rows,
                      bal'[r].reserved > bal[r].reserved
               PROVE  r[3] = MonthOf(now) /\ InForce(r[1])
    OBVIOUS
  <2>1. bal[r].reserved \in Nat /\ bal'[r].reserved \in Nat
    BY DEF IInv, TypeOK
  <2>2. QED
    BY <2>1, RowSteps
<1> HIDE DEF Step
<1>2. Spec => [][Step]_vars
  BY <1>1, Invariance, OwnRowsInvariant, PTL DEF Spec
<1>3. QED
  BY <1>2 DEF Step, NoCarryOver

-----------------------------------------------------------------------------
(* Who pays, and for which subscription.                                   *)

(* Only Commit and an administrator's adjustment take coins out of a       *)
(* wallet.                                                                 *)
LEMMA PaymentSteps ==
    ASSUME IInv, [Next]_vars, NEW u \in Users,
           wallet'[u].balance < wallet[u].balance
    PROVE  \/ ledger'[u].adjust - ledger[u].adjust
                = wallet[u].balance - wallet'[u].balance
           \/ \E k \in KeysOf(u) :
                /\ usage[k].status = "authorized"
                /\ usage'[k].status = "committed"
                /\ usage'[k].chargedCoins = wallet[u].balance - wallet'[u].balance
<1>1. TypeOK /\ wallet[u].balance \in Nat
  BY DEF IInv, TypeOK
<1>2. ASSUME NEW k \in Keys, NEW mode \in Modes, NEW d \in Demands,
             Authorize(k, mode, d)
      PROVE  FALSE
  <2>1. wallet'[u].balance = wallet[u].balance
    BY <1>2, AuthorizeEffect
  <2>2. QED
    BY <1>1, <2>1
<1>3. ASSUME NEW k \in Keys, NEW d \in Demands, Commit(k, d)
      PROVE  /\ k \in KeysOf(u)
             /\ usage[k].status = "authorized"
             /\ usage'[k].status = "committed"
             /\ usage'[k].chargedCoins = wallet[u].balance - wallet'[u].balance
  <2>1. PICK units \in [Rows -> Nat], coins \in Nat :
           usage[k].status = "authorized" /\ HoldsSettled(k, units, coins)
    BY <1>3, CommitEffect
  <2>2. /\ wallet'[u].balance = wallet[u].balance - IF u = UserOf[k] THEN coins ELSE 0
        /\ usage'[k].status = "committed" /\ usage'[k].chargedCoins = coins
    BY <2>1 DEF HoldsSettled
  <2>3. u = UserOf[k]
    BY <1>1, <2>2
  <2>4. QED
    BY <1>1, <2>1, <2>2, <2>3 DEF KeysOf
<1>4. ASSUME NEW k \in Keys, Cancel(k)
      PROVE  FALSE
  <2>1. wallet'[u].balance = wallet[u].balance
    BY <1>4, CancelEffect
  <2>2. QED
    BY <1>1, <2>1
<1>5. CASE AssetChanges \/ CatalogueEdits \/ UNCHANGED vars
  BY <1>1, <1>5, OtherEffect
<1>6. QED
  BY <1>2, <1>3, <1>4, <1>5, StepKinds

(* Units of a row are used up only by the Commit of a request that held    *)
(* them, as many as its reservation reports as consumed.                   *)
LEMMA UseSteps ==
    ASSUME IInv, HoldsOwnRows, [Next]_vars, NEW r \in Rows,
           bal'[r].used > bal[r].used
    PROVE  \E k \in KeysOf(SubUser[r[1]]) :
              /\ AppOf[k] = PlanApp[SubPlan[r[1]]]
              /\ usage[k].status = "authorized"
              /\ usage'[k].status = "committed"
              /\ unitRes'[k][r].consumed = bal'[r].used - bal[r].used
<1>1. TypeOK /\ bal[r].used \in Nat
  BY DEF IInv, TypeOK
<1>2. ASSUME NEW k \in Keys, NEW mode \in Modes, NEW d \in Demands,
             Authorize(k, mode, d)
      PROVE  FALSE
  <2>1. bal'[r].used = bal[r].used
    BY <1>2, AuthorizeEffect DEF HoldsTaken
  <2>2. QED
    BY <1>1, <2>1
<1>3. ASSUME NEW k \in Keys, NEW d \in Demands, Commit(k, d)
      PROVE  /\ k \in KeysOf(SubUser[r[1]])
             /\ AppOf[k] = PlanApp[SubPlan[r[1]]]
             /\ usage[k].status = "authorized"
             /\ usage'[k].status = "committed"
             /\ unitRes'[k][r].consumed = bal'[r].used - bal[r].used
  <2>1. PICK units \in [Rows -> Nat], coins \in Nat :
           usage[k].status = "authorized" /\ HoldsSettled(k, units, coins)
    BY <1>3, CommitEffect
  <2>2. /\ units[r] \in Nat /\ units[r] <= OpenAmount(unitRes[k][r])
        /\ bal'[r].used = bal[r].used + units[r]
        /\ unitRes'[k][r] = Settled(unitRes[k][r], units[r])
        /\ usage'[k].status = "committed"
    BY <2>1 DEF HoldsSettled
  <2>3. units[r] > 0
    BY <1>1, <2>2
  <2>4. unitRes[k][r] \in Reservation
    BY <1>1 DEF TypeOK, Reservation
  <2>5. unitRes[k][r].status = "reserved" /\ units[r] <= unitRes[k][r].amount
    BY <2>2, <2>3, <2>4 DEF OpenAmount, Reservation
  <2>6. SubUser[r[1]] = UserOf[k] /\ PlanApp[SubPlan[r[1]]] = AppOf[k]
    BY <2>5 DEF HoldsOwnRows
  <2>7. unitRes'[k][r].consumed = units[r]
    <3>1. Settled(unitRes[k][r], units[r])
            = [unitRes[k][r] EXCEPT !.status = "consumed",
                                    !.consumed = Min2(unitRes[k][r].amount, units[r])]
      BY <2>3, <2>5 DEF Settled
    <3>2. Min2(unitRes[k][r].amount, units[r]) = units[r]
      BY <2>2, <2>4, <2>5 DEF Min2, Reservation
    <3>3. QED
      BY <2>2, <2>4, <3>1, <3>2 DEF Reservation
  <2>8. QED
    BY <1>1, <2>1, <2>2, <2>6, <2>7 DEF KeysOf
<1>4. ASSUME NEW k \in Keys, Cancel(k)
      PROVE  FALSE
  <2>1. bal'[r].used = bal[r].used
    BY <1>4, CancelEffect
  <2>2. QED
    BY <1>1, <2>1
<1>5. ASSUME AssetChanges \/ CatalogueEdits \/ UNCHANGED vars
      PROVE  FALSE
  <2>1. bal'[r].used = bal[r].used
    BY <1>1, <1>5, OtherEffect, EnsureBalancesKeeps
  <2>2. QED
    BY <1>1, <2>1
<1>6. QED
  BY <1>2, <1>3, <1>4, <1>5, StepKinds

(* Nobody pays for another's request: coins leave a wallet only for what a *)
(* request of that user is charged, or by an administrator's adjustment,   *)
(* and units of a subscription are used up only by a request of its user   *)
(* in the app of its plan.                                                 *)
THEOREM OwnersPay == Spec => OnlyOwnRequestsPay
<1> DEFINE Commits(k) == usage[k].status = "authorized" /\ usage'[k].status = "committed"
           Pays  == \A u \in Users :
                      wallet'[u].balance < wallet[u].balance =>
                          \/ ledger'[u].adjust - ledger[u].adjust
                               = wallet[u].balance - wallet'[u].balance
                          \/ \E k \in KeysOf(u) :
                               /\ Commits(k)
                               /\ usage'[k].chargedCoins
                                    = wallet[u].balance - wallet'[u].balance
           Uses == \A r \in Rows :
                     bal'[r].used > bal[r].used =>
                         \E k \in KeysOf(SubUser[r[1]]) :
                             /\ AppOf[k] = PlanApp[SubPlan[r[1]]]
                             /\ Commits(k)
                             /\ unitRes'[k][r].consumed = bal'[r].used - bal[r].used
           Step == /\ Pays
                   /\ Uses
<1>1. IInv /\ HoldsOwnRows /\ [Next]_vars => Step
  <2>1. IInv /\ [Next]_vars => Pays
    BY PaymentSteps
  <2>2. IInv /\ HoldsOwnRows /\ [Next]_vars => Uses
    BY UseSteps
  <2>3. QED
    BY <2>1, <2>2
<1> HIDE DEF Step
<1>2. Spec => [][Step]_vars
  BY <1>1, Invariance, OwnRowsInvariant, PTL DEF Spec
<1>3. QED
  BY <1>2 DEF Step, OnlyOwnRequestsPay

(* A grant extends the subscription in force, or makes one where none is   *)
(* in force; all other steps can only take subscriptions out of force.     *)
LEMMA SubscriptionsKept ==
    ASSUME IInv, OneSubscriptionPerPlan, [Next]_vars
    PROVE  OneSubscriptionPerPlan'
<1>1. /\ now \in Nat
      /\ sub \in [Subs -> [status : {"none", "active", "expired", "cancelled"}, ends : Nat]]
  BY DEF IInv, TypeOK
<1>2. ASSUME \A s \in Subs : InForce(s)' => InForce(s)
      PROVE  OneSubscriptionPerPlan'
  BY <1>2 DEF OneSubscriptionPerPlan
<1>3. CASE UNCHANGED <<now, sub>>
  BY <1>2, <1>3 DEF InForce
<1>4. ASSUME NEW u \in Users, NEW p \in Plans, NEW m \in GrantMonths,
             AdminGrantSubscription(u, p, m)
      PROVE  OneSubscriptionPerPlan'
  <2> DEFINE current == {s \in Subs : InForce(s) /\ SubUser[s] = u /\ SubPlan[s] = p}
             granted(s, from) ==
               [t \in Subs |->
                 IF t = s THEN [status |-> "active", ends |-> from + m * TicksPerMonth]
                 ELSE IF t \in current THEN [sub[t] EXCEPT !.status = "cancelled"]
                 ELSE sub[t]]
  <2>1. \/ \E s \in current : sub' = granted(s, sub[s].ends)
        \/ \E s \in Subs : SubUser[s] = u /\ SubPlan[s] = p /\ sub' = granted(s, now)
    BY <1>4, Zenon DEF AdminGrantSubscription
  <2>2. now' = now
    BY <1>4 DEF AdminGrantSubscription
  <2>3. PICK s \in Subs : /\ SubUser[s] = u /\ SubPlan[s] = p
                          /\ \E from : sub' = granted(s, from)
    <3> HIDE DEF granted
    <3>1. QED
      BY <2>1
  <2> PICK from : sub' = granted(s, from)
    BY <2>3
  <2>4. ASSUME NEW t \in Subs, t # s, InForce(t)'
        PROVE  InForce(t) /\ t \notin current
    <3>1. sub'[t] = IF t \in current THEN [sub[t] EXCEPT !.status = "cancelled"]
                    ELSE sub[t]
      BY <2>3, <2>4
    <3>2. [sub[t] EXCEPT !.status = "cancelled"].status = "cancelled"
      BY <1>1
    <3>3. sub'[t].status = "active"
      BY <2>4 DEF InForce
    <3>4. t \notin current
      BY <3>1, <3>2, <3>3
    <3>5. QED
      BY <2>2, <2>4, <3>1, <3>4 DEF InForce
  <2>5. SUFFICES ASSUME NEW t1 \in Subs, NEW t2 \in Subs, InForce(t1)', InForce(t2)',
                        SubUser[t1] = SubUser[t2], SubPlan[t1] = SubPlan[t2], t1 # t2
                 PROVE  FALSE
    BY DEF OneSubscriptionPerPlan
  <2>6. t1 # s => t1 \notin current /\ InForce(t1)
    BY <2>4, <2>5
  <2>7. t2 # s => t2 \notin current /\ InForce(t2)
    BY <2>4, <2>5
  <2>8. QED
    BY <2>3, <2>5, <2>6, <2>7 DEF OneSubscriptionPerPlan
<1>5. CASE RunEntitlementMaintenance
  <2>1. ASSUME NEW s \in Subs, InForce(s)'
        PROVE  InForce(s)
    <3>1. /\ sub'[s] = IF sub[s].status = "active" /\ sub[s].ends <= now
                       THEN [sub[s] EXCEPT !.status = "expired"] ELSE sub[s]
          /\ now' = now
      BY <1>5 DEF RunEntitlementMaintenance
    <3>2. [sub[s] EXCEPT !.status = "expired"].status = "expired"
      BY <1>1
    <3>3. sub'[s].status = "active" /\ sub'[s].ends > now
      BY <2>1, <3>1 DEF InForce
    <3>4. sub'[s] = sub[s]
      BY <3>1, <3>2, <3>3
    <3>5. QED
      BY <3>3, <3>4 DEF InForce
  <2>2. QED
    BY <1>2, <2>1
<1>6. CASE Tick
  <2>1. ASSUME NEW s \in Subs, InForce(s)'
        PROVE  InForce(s)
    <3>1. sub' = sub /\ now' = now + 1 /\ sub[s].ends \in Nat
      BY <1>1, <1>6 DEF Tick
    <3>2. QED
      BY <1>1, <2>1, <3>1 DEF InForce
  <2>2. QED
    BY <1>2, <2>1
<1>7. \/ UNCHANGED <<now, sub>>
      \/ \E u \in Users, p \in Plans, m \in GrantMonths : AdminGrantSubscription(u, p, m)
      \/ RunEntitlementMaintenance
      \/ Tick
  <2>1. ASSUME NEW k \in Keys, NEW mode \in Modes, NEW d \in Demands,
               Authorize(k, mode, d)
        PROVE  UNCHANGED <<now, sub>>
    BY <2>1, AuthorizeEffect
  <2>2. ASSUME NEW k \in Keys, NEW d \in Demands, Commit(k, d)
        PROVE  UNCHANGED <<now, sub>>
    BY <2>2, CommitEffect
  <2>3. ASSUME NEW k \in Keys, Cancel(k)
        PROVE  UNCHANGED <<now, sub>>
    BY <2>3, CancelEffect
  <2>4. CASE AssetChanges
    BY <2>4 DEF AssetChanges, AdminAdjustCoins, EnsureCurrentMonthEntitlementsForUser
  <2>5. CASE CatalogueEdits
    BY <2>5 DEF CatalogueEdits, AdminUpsertPricing, AdminDeletePricing,
                SetPrice, AdminUpsertPlanEntitlement
  <2>6. CASE UNCHANGED vars
    BY <2>6 DEF vars
  <2>7. QED
    BY <2>1, <2>2, <2>3, <2>4, <2>5, <2>6, StepKinds
<1>8. QED
  BY <1>3, <1>4, <1>5, <1>6, <1>7

(* A user never has two subscriptions of one plan in force.                *)
THEOREM OnePerPlan == Spec => []OneSubscriptionPerPlan
<1>1. Init => OneSubscriptionPerPlan
  BY DEF Init, OneSubscriptionPerPlan, InForce
<1>2. IInv /\ OneSubscriptionPerPlan /\ [Next]_vars => OneSubscriptionPerPlan'
  BY SubscriptionsKept
<1>3. QED
  BY <1>1, <1>2, Invariance, PTL DEF Spec

-----------------------------------------------------------------------------
(* Preauthorization.                                                       *)

(* The rows that serve a unit.                                             *)
Serving(rows, x) == {r \in Rows : rows[r].unit = x}

(* Filling serves of each unit all that is asked, or all there is: if some *)
(* row is not used up, then the first such one stopped because what was    *)
(* left of the demand was smaller.                                         *)
LEMMA FillServes ==
    ASSUME NEW rows \in [Rows -> BalanceRow], NEW order \in [Rows -> Nat],
           NEW cap \in [Rows -> Nat], NEW demand \in [Units -> Nat],
           NEW taken, taken = Fill(rows, order, cap, demand), NEW x \in Units
    PROVE  \/ Total(taken, Serving(rows, x)) >= demand[x]
           \/ Total(taken, Serving(rows, x)) = Total(cap, Serving(rows, x))
<1> DEFINE G == Serving(rows, x)
           unfilled == {r \in G : taken[r] # cap[r]}
           places == {order[r] : r \in unfilled}
<1>1. /\ G \subseteq Rows /\ IsFiniteSet(G)
      /\ taken \in [Rows -> Nat]
      /\ \A r \in Rows : taken[r] <= cap[r]
  BY RowsFinite, FS_Subset, FillBounds DEF Serving
<1>2. CASE unfilled = {}
  <2>1. \A r \in G : taken[r] = cap[r]
    BY <1>2
  <2>2. QED
    BY <2>1, TotalCongruence
<1>3. CASE unfilled # {}
  <2>1. places \subseteq Nat /\ places # {}
    BY <1>1, <1>3
  <2>2. PICK n \in places : \A m \in places : n <= m
    <3> HIDE DEF places
    <3>1. QED
      BY <2>1, Least
  <2>3. PICK r \in unfilled : \A q \in unfilled : order[r] <= order[q]
    BY <2>2
  <2> DEFINE earlier == {q \in Rows : rows[q].unit = rows[r].unit /\ order[q] < order[r]}
             upTo == earlier \cup {r}
  <2>4. r \in G /\ r \in Rows /\ rows[r].unit = x /\ taken[r] < cap[r]
    BY <1>1, <2>3 DEF Serving
  <2>5. /\ earlier \subseteq G /\ upTo \subseteq G /\ r \notin earlier
        /\ upTo \ {r} = earlier
    BY <2>4 DEF Serving
  <2>6. \A q \in earlier : taken[q] = cap[q]
    <3>1. ASSUME NEW q \in earlier, taken[q] # cap[q]
          PROVE  FALSE
      <4>1. q \in unfilled /\ order[q] \in Nat /\ order[r] \in Nat /\ order[q] < order[r]
        BY <1>1, <2>4, <2>5, <3>1
      <4>2. QED
        BY <2>3, <4>1
    <3>2. QED
      BY <3>1
  <2>7. Total(taken, earlier) = Total(cap, earlier)
    <3> HIDE DEF earlier
    <3>1. QED
      BY <2>6, TotalCongruence
  <2>8. taken[r] = Min2(cap[r], Max2(0, demand[x] - Total(cap, earlier)))
    BY <2>4 DEF Fill
  <2> HIDE DEF G, unfilled, places, earlier
  <2>9. Total(cap, earlier) \in Nat
    BY <1>1, <2>5, FS_Subset, TotalType
  <2>10. Total(taken, upTo) = taken[r] + Total(taken, earlier)
    <3>1. IsFiniteSet(upTo) /\ \A y \in upTo : taken[y] \in Nat
      BY <1>1, <2>5, FS_Subset
    <3>2. r \in upTo
      OBVIOUS
    <3> HIDE DEF upTo
    <3>3. Total(taken, upTo) = taken[r] + Total(taken, upTo \ {r})
      BY <3>1, <3>2, TotalSplit
    <3>4. QED
      BY <2>5, <3>3
  <2>11. Total(taken, upTo) <= Total(taken, G)
    <3>1. \A y \in G : taken[y] \in Nat
      BY <1>1
    <3>2. \A y \in upTo : taken[y] \in Nat /\ taken[y] <= taken[y]
      BY <1>1, <2>5
    <3>3. upTo \in SUBSET G
      BY <2>5
    <3> HIDE DEF upTo
    <3>4. QED
      BY <1>1, <3>1, <3>2, <3>3, TotalMonotone
  <2>12. taken[r] \in Nat /\ cap[r] \in Nat /\ demand[x] \in Nat
    BY <1>1, <2>4
  <2>13. Total(taken, upTo) >= demand[x]
    BY <2>4, <2>7, <2>8, <2>9, <2>10, <2>12 DEF Min2, Max2
  <2>14. Total(taken, G) \in Nat /\ Total(taken, upTo) \in Nat
    <3>1. \A y \in G : taken[y] \in Nat
      BY <1>1
    <3>2. QED
      BY <1>1, <2>7, <2>9, <2>10, <2>12, <3>1, TotalType
  <2>15. QED
    BY <2>11, <2>12, <2>13, <2>14 DEF G
<1>4. QED
  BY <1>2, <1>3

(* What remains is an integer for each unit.                               *)
LEMMA RemainingType ==
    ASSUME NEW rows \in [Rows -> BalanceRow], NEW taken \in [Rows -> Nat],
           NEW demand \in [Units -> Nat]
    PROVE  /\ Remaining(rows, taken, demand) \in [Units -> Int]
           /\ \A x \in Units :
                 /\ Total(taken, Serving(rows, x)) \in Nat
                 /\ Remaining(rows, taken, demand)[x]
                      = demand[x] - Total(taken, Serving(rows, x))
<1>1. ASSUME NEW x \in Units
      PROVE  Total(taken, Serving(rows, x)) \in Nat
  <2>1. IsFiniteSet(Serving(rows, x)) /\ Serving(rows, x) \subseteq Rows
    BY RowsFinite, FS_Subset DEF Serving
  <2>2. \A r \in Serving(rows, x) : taken[r] \in Nat
    BY <2>1
  <2>3. QED
    BY <2>1, <2>2, TotalType
<1>2. Remaining(rows, taken, demand)
        = [x \in Units |-> demand[x] - Total(taken, Serving(rows, x))]
  BY DEF Remaining, Serving
<1>3. QED
  BY <1>1, <1>2

(* Whatever is at most a remainder, or nothing, costs no more than it.     *)
LEMMA PriceMonotone ==
    ASSUME TypeOK, NEW a \in Apps, NEW mode,
           NEW rest \in [Units -> Int], NEW more \in [Units -> Int],
           \A x \in Units : rest[x] <= more[x] \/ rest[x] <= 0
    PROVE  priceUsageCoins(a, mode, rest) <= priceUsageCoins(a, mode, more)
<1> DEFINE cost == [x \in Units |->
                      CeilDiv(rest[x] * price[a][x].coin, price[a][x].per)]
           costMore == [x \in Units |->
                      CeilDiv(more[x] * price[a][x].coin, price[a][x].per)]
<1>1. ASSUME NEW x \in Units
      PROVE  cost[x] \in Nat /\ costMore[x] \in Nat /\ cost[x] <= costMore[x]
  <2>1. price[a][x].coin \in Nat /\ price[a][x].per \in Nat
    BY UsageBillingAssumption DEF TypeOK, NoPrice
  <2>2. PICK c \in Nat, d \in Nat : c = price[a][x].coin /\ d = price[a][x].per
    BY <2>1
  <2>3. PICK m \in Int, n \in Int :
           m = rest[x] /\ n = more[x] /\ (m <= n \/ m <= 0)
    OBVIOUS
  <2>4. m * c \in Int /\ n * c \in Int /\ (m * c <= n * c \/ m * c <= 0)
    BY <2>2, <2>3, SMT
  <2>5. PICK p \in Int, q \in Int : /\ p = m * c /\ q = n * c
                                    /\ p <= q \/ p <= 0
    BY <2>4
  <2>6. CeilDiv(p, d) \in Nat /\ CeilDiv(q, d) \in Nat
    <3>1. d \in Int
      OBVIOUS
    <3>2. QED
      BY <3>1, CeilDivType
  <2>7. CeilDiv(p, d) <= CeilDiv(q, d)
    <3>1. CASE p <= q
      BY <3>1, CeilDivMonotone
    <3>2. CASE p <= 0
      <4>1. CeilDiv(p, d) = 0
        BY <3>2 DEF CeilDiv
      <4>2. QED
        BY <2>6, <4>1
    <3>3. QED
      BY <2>5, <3>1, <3>2
  <2>8. cost[x] = CeilDiv(p, d) /\ costMore[x] = CeilDiv(q, d)
    BY <2>2, <2>3, <2>5
  <2> HIDE DEF cost, costMore
  <2>9. QED
    BY <2>6, <2>7, <2>8
<1>2. IsFiniteSet(Units) /\ Units \in SUBSET Units
  BY UsageBillingAssumption
<1> HIDE DEF cost, costMore
<1>3. Total(cost, Units) <= Total(costMore, Units)
  BY <1>1, <1>2, TotalMonotone
<1>4. QED
  BY <1>3 DEF priceUsageCoins, cost, costMore

-----------------------------------------------------------------------------
(* While the catalogue stays as it is, a row keeps the unit it is created  *)
(* with: the one the plan gives its code.                                  *)
RowsFollowPlan ==
    \A r \in Rows : bal[r].id # 0 =>
        EntitlementOf(r) # NoEntitlement /\ bal[r].unit = EntitlementOf(r).unit

(* What of the estimate no held units cover.                               *)
Uncovered(k) == Remaining(bal, reservedUnitsForUsage(k), usage[k].estimated)

(* The coins held for k are the price of what no held units cover.         *)
Covered(k) ==
    /\ ~ rejectRemainingEntitlementUsage(usage[k].mode, Uncovered(k))
    /\ PricingFound(AppOf[k], usage[k].mode, Uncovered(k))
    /\ usage[k].reservedCoins
          = priceUsageCoins(AppOf[k], usage[k].mode, Uncovered(k))
    /\ reservedCoinsForUsage(k) = usage[k].reservedCoins

OpenCovered == \A k \in Keys : usage[k].status = "authorized" => Covered(k)

(* A request covered for its estimate is covered for any smaller usage: of *)
(* each unit the held rows serve all of it, or all they have, and then no  *)
(* more is left to pay for than of the estimate.                           *)
LEMMA CoveredSuffices ==
    ASSUME IInv, ModesKeptApart, NEW k \in Keys, usage[k].status = "authorized", Covered(k),
           NEW d \in Demands, \A x \in Units : d[x] <= usage[k].estimated[x]
    PROVE  CommitAccepted(k, d) /\ CoinsToCharge(k, d) <= usage[k].reservedCoins
<1> DEFINE mode == usage[k].mode
           held == reservedUnitsForUsage(k)
           units == consumeEntitlements(k, d)
           rest == Remaining(bal, units, d)
           more == Uncovered(k)
           coins == CoinsToCharge(k, d)
<1>1. TypeOK /\ HoldsMatchWallet /\ HoldsMatchRows /\ NoOverdraft
  BY DEF IInv
<1>2. /\ d \in [Units -> Nat] /\ usage[k].estimated \in [Units -> Nat]
      /\ bal \in [Rows -> BalanceRow] /\ AppOf[k] \in Apps /\ UserOf[k] \in Users
  BY <1>1, UsageBillingAssumption DEF TypeOK, BalanceRow
<1>3. held \in [Rows -> Nat] /\ reservedCoinsForUsage(k) \in Nat
  BY <1>1, HeldBounds
<1>4. units \in [Rows -> Nat] /\ coins \in Nat
  BY <1>1, <1>2, CommitAmounts
<1>5. ASSUME NEW x \in Units
      PROVE  \/ Total(units, Serving(bal, x)) >= d[x]
             \/ Total(units, Serving(bal, x)) = Total(held, Serving(bal, x))
  <2>1. CASE mode = "coins"
    <3>1. \A r \in Rows : held[r] = 0 /\ units[r] = 0
      BY <2>1 DEF ModesKeptApart, reservedUnitsForUsage, OpenAmount, NoReservation,
                  consumeEntitlements, Nothing
    <3>2. \A r \in Serving(bal, x) : units[r] = held[r]
      BY <3>1 DEF Serving
    <3> HIDE DEF units, held
    <3>3. QED
      BY <3>2, TotalCongruence
  <2>2. CASE mode # "coins"
    <3> DEFINE order == [r \in Rows |-> unitRes[k][r].id]
    <3>1. units = Fill(bal, order, held, d)
      BY <2>2 DEF consumeEntitlements
    <3>2. order \in [Rows -> Nat]
      BY <1>1 DEF TypeOK
    <3> HIDE DEF units, held, order
    <3>3. QED
      BY <1>2, <1>3, <3>1, <3>2, FillServes
  <2>3. QED
    BY <2>1, <2>2
<1>6. ASSUME NEW x \in Units
      PROVE  rest[x] \in Int /\ more[x] \in Int /\ (rest[x] <= more[x] \/ rest[x] <= 0)
  <2> HIDE DEF units, held
  <2>1. /\ Total(units, Serving(bal, x)) \in Nat
        /\ rest[x] = d[x] - Total(units, Serving(bal, x))
    BY <1>2, <1>4, RemainingType
  <2>2. /\ Total(held, Serving(bal, x)) \in Nat
        /\ more[x] = usage[k].estimated[x] - Total(held, Serving(bal, x))
    BY <1>2, <1>3, RemainingType DEF Uncovered, held
  <2>3. d[x] \in Nat /\ usage[k].estimated[x] \in Nat /\ d[x] <= usage[k].estimated[x]
    BY <1>2
  <2> HIDE DEF rest, more
  <2>4. QED
    BY <1>5, <2>1, <2>2, <2>3
<1>7. rest \in [Units -> Int] /\ more \in [Units -> Int]
  <2>1. /\ DOMAIN rest = Units /\ rest = [x \in Units |-> rest[x]]
        /\ DOMAIN more = Units /\ more = [x \in Units |-> more[x]]
    BY DEF Remaining, Uncovered
  <2> HIDE DEF rest, more
  <2>2. QED
    BY <1>6, <2>1
<1>8. /\ ~ rejectRemainingEntitlementUsage(mode, more)
      /\ PricingFound(AppOf[k], mode, more)
      /\ usage[k].reservedCoins = priceUsageCoins(AppOf[k], mode, more)
      /\ reservedCoinsForUsage(k) = usage[k].reservedCoins
  BY DEF Covered
<1>9. coins = priceUsageCoins(AppOf[k], mode, rest)
  BY DEF CoinsToCharge
<1> HIDE DEF rest, more, coins, units, mode
<1>10. coins <= usage[k].reservedCoins
  BY <1>1, <1>2, <1>6, <1>7, <1>8, <1>9, PriceMonotone
<1>11. ~ rejectRemainingEntitlementUsage(mode, rest)
  BY <1>6, <1>8 DEF rejectRemainingEntitlementUsage
<1>12. PricingFound(AppOf[k], mode, rest)
  BY <1>6, <1>8 DEF PricingFound
<1>13. Max2(0, coins - reservedCoinsForUsage(k)) <= Available(UserOf[k])
  <2>1. /\ wallet[UserOf[k]].reserved \in Nat /\ wallet[UserOf[k]].balance \in Nat
        /\ wallet[UserOf[k]].reserved <= wallet[UserOf[k]].balance
    BY <1>1, <1>2 DEF TypeOK, NoOverdraft
  <2>2. Max2(0, coins - reservedCoinsForUsage(k)) = 0
    BY <1>3, <1>4, <1>8, <1>10 DEF Max2
  <2>3. QED
    BY <2>1, <2>2 DEF Available
<1>14. QED
  BY <1>10, <1>11, <1>12, <1>13 DEF CommitAccepted, coins, rest, units, mode

(* EnsureBalances gives rows the units of the plan, and those that were    *)
(* there before have them already.                                         *)
LEMMA EnsureBalancesUnits ==
    ASSUME RowsFollowPlan, NEW S, NEW r \in Rows
    PROVE  /\ EnsureBalances(S)[r].id # 0 =>
                  /\ EntitlementOf(r) # NoEntitlement
                  /\ EnsureBalances(S)[r].unit = EntitlementOf(r).unit
           /\ bal[r].id # 0 => EnsureBalances(S)[r].unit = bal[r].unit
<1> DEFINE due == {q \in Rows : /\ q[1] \in S /\ q[3] = MonthOf(now)
                                /\ EntitlementOf(q) # NoEntitlement}
           new == {q \in due : bal[q].id = 0}
           old == Cardinality({q \in Rows : bal[q].id # 0})
           upTo == {q \in new : \/ q[1] < r[1]
                                \/ q[1] = r[1] /\ q[2] <= r[2]}
<1>1. EnsureBalances(S)[r] =
        IF r \notin due THEN bal[r]
        ELSE [id |-> IF r \in new THEN old + Cardinality(upTo) ELSE bal[r].id,
              unit |-> EntitlementOf(r).unit, quota |-> EntitlementOf(r).quota,
              used |-> bal[r].used, reserved |-> bal[r].reserved]
  BY DEF EnsureBalances
<1>2. r \in due => EntitlementOf(r) # NoEntitlement
  OBVIOUS
<1> HIDE DEF due, new, old, upTo
<1>3. bal[r].id # 0 =>
          EntitlementOf(r) # NoEntitlement /\ bal[r].unit = EntitlementOf(r).unit
  BY DEF RowsFollowPlan
<1>4. QED
  BY <1>1, <1>2, <1>3

(* A request stays covered while nothing of it changes and the rows it     *)
(* holds units of keep their unit.                                         *)
LEMMA CoveredStays ==
    ASSUME TypeOK, TypeOK', NEW k \in Keys, Covered(k),
           UNCHANGED <<price, usage[k], coinRes[k], unitRes[k]>>,
           \A r \in Rows : unitRes[k][r].status # "none" => bal'[r].unit = bal[r].unit
    PROVE  Covered(k)'
<1> DEFINE held == reservedUnitsForUsage(k)
<1>1. reservedUnitsForUsage(k)' = held /\ reservedCoinsForUsage(k)' = reservedCoinsForUsage(k)
  BY DEF reservedUnitsForUsage, reservedCoinsForUsage
<1>2. \A r \in Rows : unitRes[k][r].status = "none" => held[r] = 0
  BY DEF reservedUnitsForUsage, OpenAmount
<1> HIDE DEF held
<1>3. ASSUME NEW x \in Units
      PROVE  Total(held, {r \in Rows : bal'[r].unit = x})
               = Total(held, {r \in Rows : bal[r].unit = x})
  BY <1>2, TotalSupport
<1>4. Uncovered(k) = [x \in Units |-> usage[k].estimated[x]
                                      - Total(held, {r \in Rows : bal[r].unit = x})]
  BY DEF Uncovered, Remaining, held
<1>5. Uncovered(k)' = [x \in Units |-> usage'[k].estimated[x]
                                      - Total(held, {r \in Rows : bal'[r].unit = x})]
  BY <1>1 DEF Uncovered, Remaining
<1>6. Uncovered(k)' = Uncovered(k)
  BY <1>3, <1>4, <1>5
<1>7. QED
  BY <1>1, <1>6 DEF Covered, rejectRemainingEntitlementUsage, PricingFound, priceUsageCoins

(* A request is covered when it is authorized.                             *)
LEMMA AuthorizeCovers ==
    ASSUME IInv, RowsFollowPlan, NEW k \in Keys, NEW mode \in Modes,
           NEW estimated \in Demands, Authorize(k, mode, estimated)
    PROVE  /\ Covered(k)'
           /\ UNCHANGED <<price, plan>>
           /\ \E S \in SUBSET Subs : \A r \in Rows :
                 /\ bal'[r].id = EnsureBalances(S)[r].id
                 /\ bal'[r].unit = EnsureBalances(S)[r].unit
<1> DEFINE S == SubsServing(k, mode, estimated)
           rows == EnsureBalances(S)
           units == reserveEntitlements(k, mode, estimated)
           coins == CoinsToReserve(k, mode, estimated)
           rest == Unserved(k, mode, estimated)
           w == [r \in Rows |-> Reserved(units[r], ReservationId(rows, units, r))]
           request == [status |-> "authorized", mode |-> mode,
                       estimated |-> estimated, reservedCoins |-> coins,
                       reservedUnits |-> Total(units, Rows),
                       chargedCoins |-> 0, chargedUnits |-> 0]
<1>1. /\ AuthorizeAccepted(k, mode, estimated)
      /\ bal' = [r \in Rows |-> [rows[r] EXCEPT !.reserved = @ + units[r]]]
      /\ unitRes' = [unitRes EXCEPT ![k] = w]
      /\ coinRes' = [coinRes EXCEPT ![k] = Reserved(coins, 0)]
      /\ usage' = [usage EXCEPT ![k] = request]
      /\ UNCHANGED <<now, price, plan, sub>>
  BY DEF Authorize
<1>2. TypeOK /\ estimated \in [Units -> Nat]
  BY UsageBillingAssumption DEF IInv
<1>3. /\ S \subseteq Subs
      /\ units \in [Rows -> Nat]
      /\ coins \in Nat
  BY <1>2, AuthorizeAmounts
<1>4. rows \in [Rows -> BalanceRow]
  BY <1>2, <1>3, EnsureBalancesKeeps
<1>5. \A r \in Rows : ReservationId(rows, units, r) \in Nat
  BY ReservationIdType
<1>6. /\ coins = priceUsageCoins(AppOf[k], mode, rest)
      /\ ~ rejectRemainingEntitlementUsage(mode, rest)
      /\ PricingFound(AppOf[k], mode, rest)
  BY <1>1 DEF AuthorizeAccepted, CoinsToReserve
<1>7. rest = [x \in Units |-> estimated[x] - Total(units, {r \in Rows : rows[r].unit = x})]
  BY DEF Unserved, Remaining
<1>8. usage'[k] = request /\ unitRes'[k] = w /\ coinRes'[k] = Reserved(coins, 0)
  <2> HIDE DEF request, w, coins
  <2>1. QED
    BY <1>1, <1>2 DEF TypeOK
<1>9. /\ usage'[k].mode = mode /\ usage'[k].estimated = estimated
      /\ usage'[k].reservedCoins = coins
  BY <1>8
<1> HIDE DEF S, rows, units, coins, rest, request
<1>10. \A r \in Rows : bal'[r].id = rows[r].id /\ bal'[r].unit = rows[r].unit
  BY <1>1, <1>4 DEF BalanceRow
<1>11. reservedUnitsForUsage(k)' = units
  <2>1. \A r \in Rows : OpenAmount(w[r]) = units[r]
    BY <1>3, <1>5, ReservedHolds
  <2> HIDE DEF w
  <2>2. reservedUnitsForUsage(k)' = [r \in Rows |-> OpenAmount(w[r])]
    BY <1>8 DEF reservedUnitsForUsage, OpenAmount
  <2>3. QED
    BY <1>3, <2>1, <2>2
<1>12. reservedCoinsForUsage(k)' = coins
  <2>1. OpenAmount(Reserved(coins, 0)) = coins
    BY <1>3, ReservedHolds
  <2>2. reservedCoinsForUsage(k)' = OpenAmount(Reserved(coins, 0))
    BY <1>8 DEF reservedCoinsForUsage, OpenAmount
  <2>3. QED
    BY <2>1, <2>2
<1>13. Uncovered(k)' = rest
  <2>1. \A x \in Units : {r \in Rows : bal'[r].unit = x} = {r \in Rows : rows[r].unit = x}
    BY <1>10
  <2>2. Uncovered(k)' = [x \in Units |-> estimated[x]
                                      - Total(units, {r \in Rows : bal'[r].unit = x})]
    BY <1>9, <1>11 DEF Uncovered, Remaining
  <2>3. QED
    BY <1>7, <2>1, <2>2
<1>14. Covered(k)'
  BY <1>1, <1>6, <1>9, <1>12, <1>13
     DEF Covered, rejectRemainingEntitlementUsage, PricingFound, priceUsageCoins
<1>15. QED
  BY <1>1, <1>3, <1>10, <1>14 DEF rows

(* Settling a request leaves ids and units of rows alone.                  *)
LEMMA SettlingKeepsUnits ==
    ASSUME TypeOK, NEW k \in Keys,
           (\E d \in Demands : Commit(k, d)) \/ Cancel(k)
    PROVE  /\ UNCHANGED <<price, plan>>
           /\ \A r \in Rows : bal'[r].id = bal[r].id /\ bal'[r].unit = bal[r].unit
<1>1. bal \in [Rows -> BalanceRow]
  BY DEF TypeOK, BalanceRow
<1>2. ASSUME NEW d \in Demands, Commit(k, d)
      PROVE  /\ UNCHANGED <<price, plan>>
             /\ \A r \in Rows : bal'[r].id = bal[r].id /\ bal'[r].unit = bal[r].unit
  <2> DEFINE units == consumeEntitlements(k, d)
             heldUnits == reservedUnitsForUsage(k)
  <2>1. /\ bal' = [r \in Rows |-> [bal[r] EXCEPT !.used = @ + units[r],
                                                 !.reserved = @ - heldUnits[r]]]
        /\ UNCHANGED <<price, plan>>
    BY <1>2 DEF Commit
  <2> HIDE DEF units, heldUnits
  <2>2. QED
    BY <1>1, <2>1 DEF BalanceRow
<1>3. CASE Cancel(k)
  <2> DEFINE heldUnits == reservedUnitsForUsage(k)
  <2>1. /\ bal' = [r \in Rows |-> [bal[r] EXCEPT !.reserved = @ - heldUnits[r]]]
        /\ UNCHANGED <<price, plan>>
    BY <1>3 DEF Cancel
  <2> HIDE DEF heldUnits
  <2>2. QED
    BY <1>1, <2>1 DEF BalanceRow
<1>4. QED
  BY <1>2, <1>3

(* Prices and plans stay, so all that can go wrong with the cover of an    *)
(* open request is that a row it holds units of changes its unit.          *)
LEMMA OpenCoveredKept ==
    ASSUME IInv, IInv', HoldsOwnRows, RowsFollowPlan, OpenCovered,
           [Requests \/ AssetChanges]_vars
    PROVE  RowsFollowPlan' /\ OpenCovered'
<1>1. TypeOK /\ TypeOK'
  BY DEF IInv
<1> DEFINE Refreshed(S) == \A r \in Rows : /\ bal'[r].id = EnsureBalances(S)[r].id
                                           /\ bal'[r].unit = EnsureBalances(S)[r].unit
           Kept == \A r \in Rows : bal'[r].id = bal[r].id /\ bal'[r].unit = bal[r].unit
<1>2. ASSUME UNCHANGED <<price, plan>>, Kept \/ \E S \in SUBSET Subs : Refreshed(S)
      PROVE  /\ RowsFollowPlan'
             /\ \A r \in Rows : bal[r].id # 0 => bal'[r].unit = bal[r].unit
  <2>1. \A r \in Rows : EntitlementOf(r)' = EntitlementOf(r)
    BY <1>2 DEF EntitlementOf
  <2>2. CASE Kept
    BY <2>1, <2>2 DEF RowsFollowPlan
  <2>3. ASSUME NEW S \in SUBSET Subs, Refreshed(S)
        PROVE  /\ RowsFollowPlan'
               /\ \A r \in Rows : bal[r].id # 0 => bal'[r].unit = bal[r].unit
    <3>1. ASSUME NEW r \in Rows
          PROVE  /\ bal'[r].id # 0 =>
                        /\ EntitlementOf(r) # NoEntitlement
                        /\ bal'[r].unit = EntitlementOf(r).unit
                 /\ bal[r].id # 0 => bal'[r].unit = bal[r].unit
      BY <2>3, EnsureBalancesUnits
    <3>2. QED
      BY <2>1, <3>1 DEF RowsFollowPlan
  <2>4. QED
    BY <1>2, <2>2, <2>3
<1>3. ASSUME UNCHANGED <<price, plan>>,
             \A r \in Rows : bal[r].id # 0 => bal'[r].unit = bal[r].unit,
             NEW k \in Keys, UNCHANGED <<usage[k], coinRes[k], unitRes[k]>>,
             usage'[k].status = "authorized"
      PROVE  Covered(k)'
  <2>1. Covered(k)
    BY <1>3 DEF OpenCovered
  <2>2. \A r \in Rows : unitRes[k][r].status # "none" => bal'[r].unit = bal[r].unit
    BY <1>3 DEF HoldsOwnRows
  <2>3. QED
    BY <1>1, <1>3, <2>1, <2>2, CoveredStays
<1>4. ASSUME NEW k \in Keys, NEW mode \in Modes, NEW d \in Demands,
             Authorize(k, mode, d)
      PROVE  RowsFollowPlan' /\ OpenCovered'
  <2>1. /\ Covered(k)'
        /\ UNCHANGED <<price, plan>>
        /\ \E S \in SUBSET Subs : Refreshed(S)
    BY <1>4, AuthorizeCovers
  <2>2. OthersStay(k)
    BY <1>4, AuthorizeEffect
  <2>3. QED
    BY <1>2, <1>3, <2>1, <2>2 DEF OthersStay, OpenCovered
<1>5. ASSUME NEW k \in Keys, (\E d \in Demands : Commit(k, d)) \/ Cancel(k)
      PROVE  RowsFollowPlan' /\ OpenCovered'
  <2>1. UNCHANGED <<price, plan>> /\ Kept
    BY <1>1, <1>5, SettlingKeepsUnits
  <2>2. OthersStay(k)
    BY <1>5, CommitEffect, CancelEffect
  <2>3. usage'[k].status # "authorized"
    <3>1. ASSUME NEW d \in Demands, Commit(k, d)
          PROVE  usage'[k].status # "authorized"
      BY <3>1, CommitEffect DEF HoldsSettled
    <3>2. Cancel(k) => usage'[k].status # "authorized"
      BY CancelEffect
    <3>3. QED
      BY <1>5, <3>1, <3>2
  <2>4. QED
    BY <1>2, <1>3, <2>1, <2>2, <2>3 DEF OthersStay, OpenCovered
<1>6. CASE AssetChanges \/ UNCHANGED vars
  <2>1. UNCHANGED <<price, plan>>
    BY <1>6 DEF AssetChanges, AdminAdjustCoins, AdminGrantSubscription, vars,
                RunEntitlementMaintenance, EnsureCurrentMonthEntitlementsForUser, Tick
  <2>2. /\ UNCHANGED <<usage, coinRes, unitRes>>
        /\ Kept \/ \E S \in SUBSET Subs : Refreshed(S)
    BY <1>1, <1>6, OtherEffect
  <2>3. QED
    BY <1>2, <1>3, <2>1, <2>2 DEF OpenCovered
<1>7. QED
  BY <1>4, <1>5, <1>6 DEF Requests

(* While prices and plans stay, a request that used no more than it        *)
(* announced can be committed, for no more coins than were held.           *)
THEOREM Preauthorized == StableSpec => []PreauthorizationSuffices
<1> DEFINE J == RowsFollowPlan /\ OpenCovered
<1>1. StableSpec => Spec
  <2>1. [Requests \/ AssetChanges]_vars => [Next]_vars
    BY DEF Next
  <2>2. QED
    BY <2>1, PTL DEF StableSpec, Spec
<1>2. Init => J
  BY DEF Init, RowsFollowPlan, OpenCovered, NoRow, NoUsage
<1>3. IInv /\ IInv' /\ HoldsOwnRows /\ J /\ [Requests \/ AssetChanges]_vars => J'
  BY OpenCoveredKept
<1>4. IInv /\ ModesKeptApart /\ J => PreauthorizationSuffices
  BY CoveredSuffices DEF OpenCovered, PreauthorizationSuffices
<1> HIDE DEF J
<1>5. QED
  BY <1>1, <1>2, <1>3, <1>4, Invariance, OwnRowsOnly, ModesApart, PTL DEF StableSpec

-----------------------------------------------------------------------------
(* The store implements PrepaidAccounts: Authorize is a Hold of the coins  *)
(* it reserves, Commit a Settle of the coins it charges, Cancel a Void and *)
(* AdminAdjustCoins an Adjust; every other step leaves the accounts as     *)
(* they are.                                                               *)

(* What the refinement mapping makes of the coins of user u and request k, *)
(* in the next state.                                                      *)
AccountsBecome(k, status, heldCoins, charge, freed) ==
    /\ \A j \in Keys :
          /\ usage'[j].status = IF j = k THEN status ELSE usage[j].status
          /\ reservedCoinsForUsage(j)'
               = IF j = k THEN heldCoins ELSE reservedCoinsForUsage(j)
          /\ usage'[j].chargedCoins = IF j = k THEN charge ELSE usage[j].chargedCoins
    /\ \A u \in Users :
          Available(u)' = IF u = UserOf[k] THEN Available(u) + freed ELSE Available(u)

(* Nothing is held or free at first.                                       *)
LEMMA AccountsInit == Init => Accounts!Init
<1> SUFFICES ASSUME Init
             PROVE  Accounts!Init
  OBVIOUS
<1>1. \A u \in Users : Available(u) = 0
  BY DEF Init, Available
<1>2. \A k \in Keys : /\ reservedCoinsForUsage(k) = 0
                      /\ usage[k].chargedCoins = 0
                      /\ usage[k].status = "none"
  BY DEF Init, reservedCoinsForUsage, OpenAmount, NoReservation, NoUsage
<1>3. QED
  BY <1>1, <1>2 DEF Accounts!Init

(* Authorize is a Hold.                                                    *)
LEMMA AuthorizeHolds ==
    ASSUME IInv, EachRequestDebitedOnce, NEW k \in Keys, NEW mode \in Modes,
           NEW estimated \in Demands, Authorize(k, mode, estimated)
    PROVE  Accounts!Next
<1>1. PICK coins : coins = CoinsToReserve(k, mode, estimated)
  OBVIOUS
<1> DEFINE c == Reserved(coins, 0)
<1>2. /\ usage[k].status = "none"
      /\ coins <= Available(UserOf[k])
      /\ wallet' = [wallet EXCEPT ![UserOf[k]].reserved = @ + coins]
      /\ coinRes' = [coinRes EXCEPT ![k] = c]
  BY <1>1 DEF Authorize, AuthorizeAccepted
<1>3. TypeOK /\ UserOf[k] \in Users /\ estimated \in [Units -> Nat]
  BY UsageBillingAssumption DEF IInv
<1>4. coins \in Nat
  BY <1>1, <1>3, AuthorizeAmounts
<1>5. OpenAmount(c) = coins
  BY <1>4, ReservedHolds
<1>6. OthersStay(k) /\ usage'[k].status = "authorized" /\ usage'[k].chargedCoins = 0
  BY AuthorizeEffect DEF HoldsTaken
<1>7. usage[k].chargedCoins = 0
  BY <1>2 DEF EachRequestDebitedOnce
<1> HIDE DEF c
<1>8. AccountsBecome(k, "authorized", coins, 0, -coins)
  <2>1. ASSUME NEW j \in Keys
        PROVE  /\ usage'[j].status = IF j = k THEN "authorized" ELSE usage[j].status
               /\ reservedCoinsForUsage(j)' = IF j = k THEN coins ELSE reservedCoinsForUsage(j)
               /\ usage'[j].chargedCoins = IF j = k THEN 0 ELSE usage[j].chargedCoins
    <3>1. CASE j = k
      BY <1>2, <1>3, <1>5, <1>6, <3>1 DEF reservedCoinsForUsage, TypeOK
    <3>2. CASE j # k
      BY <1>6, <3>2 DEF reservedCoinsForUsage, OthersStay
    <3>3. QED
      BY <3>1, <3>2
  <2>2. ASSUME NEW u \in Users
        PROVE  Available(u)' = IF u = UserOf[k] THEN Available(u) + (-coins) ELSE Available(u)
    BY <1>2, <1>3, <1>4 DEF Available, TypeOK
  <2>3. QED
    BY <2>1, <2>2 DEF AccountsBecome
<1>9. Available(UserOf[k]) \in Int
  BY <1>3 DEF Available, TypeOK
<1>10. Accounts!Hold(k, coins)
  BY <1>2, <1>3, <1>4, <1>7, <1>8, <1>9 DEF AccountsBecome, Accounts!Hold
<1>11. coins \in 0 .. Available(UserOf[k])
  BY <1>2, <1>4, <1>9
<1>12. coins \in 0 .. [u \in Users |-> Available(u)][UserOf[k]]
  BY <1>3, <1>11
<1>13. QED
  BY <1>10, <1>12 DEF Accounts!Next

(* Commit is a Settle.                                                     *)
LEMMA CommitSettles ==
    ASSUME IInv, NEW k \in Keys, NEW actual \in Demands, Commit(k, actual)
    PROVE  Accounts!Next
<1>1. PICK coins : coins = CoinsToCharge(k, actual)
  OBVIOUS
<1> DEFINE held == reservedCoinsForUsage(k)
           c == Settled(coinRes[k], coins)
<1>2. /\ usage[k].status = "authorized"
      /\ Max2(0, coins - held) <= Available(UserOf[k])
      /\ wallet' = [wallet EXCEPT ![UserOf[k]].balance = @ - coins,
                                  ![UserOf[k]].reserved = @ - held]
      /\ coinRes' = [coinRes EXCEPT ![k] = c]
      /\ usage' = [usage EXCEPT ![k].status = "committed",
                                ![k].chargedCoins = coins,
                                ![k].chargedUnits = Total(consumeEntitlements(k, actual), Rows)]
  BY <1>1 DEF Commit, CommitAccepted
<1>3. TypeOK /\ UserOf[k] \in Users /\ actual \in [Units -> Nat]
      /\ HoldsMatchWallet /\ HoldsMatchRows
  BY UsageBillingAssumption DEF IInv
<1>4. coins \in Nat
  BY <1>1, <1>3, CommitAmounts
<1>5. held \in Nat
  BY <1>3, HeldBounds
<1>6. OpenAmount(c) = 0
  <2>1. coinRes[k] \in Reservation
    BY <1>3 DEF TypeOK, Reservation
  <2>2. QED
    BY <1>4, <2>1, SettledHolds
<1>7. OthersStay(k)
  BY CommitEffect
<1> HIDE DEF held, c
<1>8. usage'[k].status = "committed" /\ usage'[k].chargedCoins = coins
  <2>1. usage \in [Keys -> UsageRow]
    BY <1>3 DEF TypeOK, UsageRow
  <2>2. QED
    BY <1>2, <2>1 DEF UsageRow
<1>9. AccountsBecome(k, "committed", 0, coins, held - coins)
  <2>1. ASSUME NEW j \in Keys
        PROVE  /\ usage'[j].status = IF j = k THEN "committed" ELSE usage[j].status
               /\ reservedCoinsForUsage(j)' = IF j = k THEN 0 ELSE reservedCoinsForUsage(j)
               /\ usage'[j].chargedCoins = IF j = k THEN coins ELSE usage[j].chargedCoins
    <3>1. CASE j = k
      BY <1>2, <1>3, <1>6, <1>8, <3>1 DEF reservedCoinsForUsage, TypeOK
    <3>2. CASE j # k
      BY <1>7, <3>2 DEF reservedCoinsForUsage, OthersStay
    <3>3. QED
      BY <3>1, <3>2
  <2>2. ASSUME NEW u \in Users
        PROVE  Available(u)' = IF u = UserOf[k] THEN Available(u) + (held - coins)
                                                ELSE Available(u)
    <3>1. wallet \in [Users -> [balance : Nat, reserved : Nat]]
      BY <1>3 DEF TypeOK
    <3>2. wallet' = [wallet EXCEPT
             ![UserOf[k]].balance = wallet[UserOf[k]].balance - coins,
             ![UserOf[k]].reserved = wallet[UserOf[k]].reserved - held]
      BY <1>2
    <3>3. CASE u # UserOf[k]
      BY <3>1, <3>2, <3>3 DEF Available
    <3>4. CASE u = UserOf[k]
      <4>1. wallet'[u].balance = wallet[u].balance - coins
            /\ wallet'[u].reserved = wallet[u].reserved - held
        BY <3>1, <3>2, <3>4
      <4>2. wallet[u].balance \in Nat /\ wallet[u].reserved \in Nat
        BY <3>1
      <4>3. QED
        BY <1>4, <1>5, <3>4, <4>1, <4>2 DEF Available
    <3>5. QED
      BY <3>3, <3>4
  <2>3. QED
    BY <2>1, <2>2 DEF AccountsBecome
<1>10. Available(UserOf[k]) \in Int
  BY <1>3 DEF Available, TypeOK
<1>11. coins \in 0 .. Available(UserOf[k]) + held
  BY <1>2, <1>4, <1>5, <1>10 DEF Max2
<1>12. Accounts!Settle(k, coins)
  <2> DEFINE free == [u \in Users |-> Available(u)]
             after == [u \in Users |-> Available(u)']
             hold == [j \in Keys |-> reservedCoinsForUsage(j)]
  <2>1. \A u \in Users : free[u] \in Int
    BY <1>3 DEF Available, TypeOK
  <2>2. hold[k] = held
    BY DEF held
  <2>3. \A u \in Users : after[u] = IF u = UserOf[k] THEN free[u] + (held - coins) ELSE free[u]
    BY <1>9 DEF AccountsBecome
  <2>4. after = [free EXCEPT ![UserOf[k]] = free[UserOf[k]] + hold[k] - coins]
    <3> HIDE DEF hold
    <3>1. free[UserOf[k]] + (held - coins) = free[UserOf[k]] + hold[k] - coins
      BY <1>3, <1>4, <1>5, <2>1, <2>2
    <3>2. QED
      BY <1>3, <2>3, <3>1
  <2>5. coins <= free[UserOf[k]] + hold[k]
    BY <1>3, <1>11, <2>2
  <2>6. /\ [j \in Keys |-> usage[j].status][k] = "authorized"
        /\ [j \in Keys |-> usage'[j].status]
             = [[j \in Keys |-> usage[j].status] EXCEPT ![k] = "committed"]
        /\ [j \in Keys |-> reservedCoinsForUsage(j)'] = [hold EXCEPT ![k] = 0]
        /\ [j \in Keys |-> usage'[j].chargedCoins]
             = [[j \in Keys |-> usage[j].chargedCoins] EXCEPT ![k] = coins]
    BY <1>2, <1>9 DEF AccountsBecome
  <2>7. QED
    BY <2>4, <2>5, <2>6 DEF Accounts!Settle
<1>13. coins \in 0 .. [u \in Users |-> Available(u)][UserOf[k]]
                       + [j \in Keys |-> reservedCoinsForUsage(j)][k]
  <2>1. [u \in Users |-> Available(u)][UserOf[k]] = Available(UserOf[k])
    BY <1>3
  <2>2. [j \in Keys |-> reservedCoinsForUsage(j)][k] = held
    BY DEF held
  <2>3. QED
    BY <1>11, <2>1, <2>2
<1>14. QED
  BY <1>12, <1>13 DEF Accounts!Next

(* Cancel is a Void.                                                       *)
LEMMA CancelVoids ==
    ASSUME IInv, NEW k \in Keys, Cancel(k)
    PROVE  Accounts!Next
<1> DEFINE held == reservedCoinsForUsage(k)
           c == Settled(coinRes[k], 0)
<1>1. /\ usage[k].status = "authorized"
      /\ wallet' = [wallet EXCEPT ![UserOf[k]].reserved = @ - held]
      /\ coinRes' = [coinRes EXCEPT ![k] = c]
  BY DEF Cancel
<1>2. TypeOK /\ UserOf[k] \in Users /\ HoldsMatchWallet /\ HoldsMatchRows
  BY UsageBillingAssumption DEF IInv
<1>3. held \in Nat
  BY <1>2, HeldBounds
<1>4. OpenAmount(c) = 0
  <2>1. coinRes[k] \in Reservation
    BY <1>2 DEF TypeOK, Reservation
  <2>2. QED
    BY <2>1, SettledHolds
<1>5. OthersStay(k) /\ usage'[k].status = "cancelled"
      /\ usage'[k].chargedCoins = usage[k].chargedCoins
  BY CancelEffect
<1> HIDE DEF held, c
<1>6. AccountsBecome(k, "cancelled", 0, usage[k].chargedCoins, held)
  <2>1. ASSUME NEW j \in Keys
        PROVE  /\ usage'[j].status = IF j = k THEN "cancelled" ELSE usage[j].status
               /\ reservedCoinsForUsage(j)' = IF j = k THEN 0 ELSE reservedCoinsForUsage(j)
               /\ usage'[j].chargedCoins = usage[j].chargedCoins
    <3>1. CASE j = k
      BY <1>1, <1>2, <1>4, <1>5, <3>1 DEF reservedCoinsForUsage, TypeOK
    <3>2. CASE j # k
      BY <1>5, <3>2 DEF reservedCoinsForUsage, OthersStay
    <3>3. QED
      BY <3>1, <3>2
  <2>2. ASSUME NEW u \in Users
        PROVE  Available(u)' = IF u = UserOf[k] THEN Available(u) + held ELSE Available(u)
    BY <1>1, <1>2, <1>3 DEF Available, TypeOK
  <2>3. QED
    BY <2>1, <2>2 DEF AccountsBecome
<1>7. Accounts!Void(k)
  BY <1>1, <1>2, <1>6 DEF AccountsBecome, Accounts!Void, held
<1>8. QED
  BY <1>7 DEF Accounts!Next

(* AdminAdjustCoins is an Adjust.                                          *)
LEMMA AdjustmentAdjusts ==
    ASSUME IInv, NEW u \in Users, NEW n \in Adjustments, AdminAdjustCoins(u, n)
    PROVE  Accounts!Next
<1>1. /\ wallet[u].balance + n >= wallet[u].reserved
      /\ wallet' = [wallet EXCEPT ![u].balance = wallet[u].balance + n]
      /\ usage' = usage /\ coinRes' = coinRes
  BY DEF AdminAdjustCoins
<1>2. /\ wallet \in [Users -> [balance : Nat, reserved : Nat]]
      /\ n \in Int
  BY UsageBillingAssumption DEF IInv, TypeOK
<1>3. \A v \in Users : Available(v)' = IF v = u THEN Available(v) + n ELSE Available(v)
  BY <1>1, <1>2 DEF Available
<1>4. Available(u) + n >= 0 /\ \A v \in Users : Available(v) \in Int
  BY <1>1, <1>2 DEF Available
<1>5. \A k \in Keys : reservedCoinsForUsage(k)' = reservedCoinsForUsage(k)
  BY <1>1 DEF reservedCoinsForUsage
<1>6. Accounts!Adjust(u, n)
  BY <1>1, <1>3, <1>4, <1>5 DEF Accounts!Adjust
<1>7. QED
  BY <1>6 DEF Accounts!Next

(* Every other step leaves the accounts as they are.                       *)
LEMMA OtherStepsStutter ==
    ASSUME UNCHANGED <<wallet, usage, coinRes>>
    PROVE  UNCHANGED Accounts!accounts
<1>1. \A u \in Users : Available(u)' = Available(u)
  BY DEF Available
<1>2. \A k \in Keys : reservedCoinsForUsage(k)' = reservedCoinsForUsage(k)
  BY DEF reservedCoinsForUsage
<1>3. QED
  BY <1>1, <1>2 DEF Accounts!accounts

(* Each step of the store is one of the accounts, or a stutter.            *)
LEMMA AccountsNext ==
    ASSUME IInv, EachRequestDebitedOnce, [Next]_vars
    PROVE  Accounts!Next \/ UNCHANGED Accounts!accounts
<1>1. CASE AssetChanges
  <2>1. \/ \E u \in Users, n \in Adjustments : AdminAdjustCoins(u, n)
        \/ UNCHANGED <<wallet, usage, coinRes>>
    BY <1>1 DEF AssetChanges, AdminGrantSubscription, RunEntitlementMaintenance,
                EnsureCurrentMonthEntitlementsForUser, Tick
  <2>2. QED
    BY <2>1, AdjustmentAdjusts, OtherStepsStutter
<1>2. CASE CatalogueEdits \/ UNCHANGED vars
  <2>1. UNCHANGED <<wallet, usage, coinRes>>
    BY <1>2 DEF CatalogueEdits, AdminUpsertPricing, AdminDeletePricing,
                SetPrice, AdminUpsertPlanEntitlement, vars
  <2>2. QED
    BY <2>1, OtherStepsStutter
<1>3. QED
  BY <1>1, <1>2, StepKinds, AuthorizeHolds, CommitSettles, CancelVoids

(* The billing store keeps what PrepaidAccounts promises about coins.      *)
THEOREM Implementation == Spec => ImplementsPrepaid
<1>1. Init => Accounts!Init
  BY AccountsInit
<1>2. IInv /\ EachRequestDebitedOnce /\ [Next]_vars => [Accounts!Next]_(Accounts!accounts)
  BY AccountsNext
<1>3. QED
  BY <1>1, <1>2, Invariance, DebitedOnce, PTL DEF Spec, ImplementsPrepaid, Accounts!Spec
=============================================================================
