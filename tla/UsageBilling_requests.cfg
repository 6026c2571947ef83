SPECIFICATION StableSpec
CONSTANTS
  a1 = a1  a2 = a2  u1 = u1  u2 = u2  k1 = k1  k2 = k2  k3 = k3  k4 = k4  p1 = p1  p2 = p2
  Users = {u1}
  Apps = {a1}
  Units = {1, 2}
  Modes = {"hybrid", "entitlement", "coins"}
  Keys = {k1, k2}
  UserOf <- OneUser
  AppOf <- OneApp
  Demands <- PairDemands
  Plans = {p1}
  PlanApp <- PlansOfOneApp
  Codes = {1}
  Subs = {1}
  SubUser <- SubsOfOneUser
  SubPlan <- SubsOfOnePlan
  PriceRows <- CheapAndDear
  Quotas = {1}
  Adjustments <- TopUpAndTakeOut
  GrantMonths = {1}
  TicksPerMonth = 1
  MaxTime = 1
  MaxCredit = 3
INVARIANTS TypeOK HoldsMatchWallet NoOverdraft EachRequestDebitedOnce PreauthorizationSuffices ModesKeptApart
PROPERTIES ImplementsPrepaid
