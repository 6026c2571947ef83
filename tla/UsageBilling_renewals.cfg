SPECIFICATION Spec
CONSTANTS
  a1 = a1  a2 = a2  u1 = u1  u2 = u2  k1 = k1  k2 = k2  k3 = k3  k4 = k4  p1 = p1  p2 = p2
  Users = {u1, u2}
  Apps = {a1, a2}
  Units = {1, 2}
  Modes = {"hybrid"}
  Keys = {k1, k2, k3, k4}
  UserOf <- LastOfOther
  AppOf <- ThirdElsewhere
  Demands <- BothOrTwo
  Plans = {p1}
  PlanApp <- PlansOfOneApp
  Codes = {1, 2}
  Subs = {1, 2}
  SubUser <- SubsOfOneUser
  SubPlan <- SubsOfOnePlan
  PriceRows = {}
  Quotas = {1}
  Adjustments = {}
  GrantMonths = {1}
  TicksPerMonth = 2
  MaxTime = 2
  MaxCredit = 0
INVARIANTS HoldsMatchRows UsedMatchesConsumption OneSubscriptionPerPlan
PROPERTIES OnlyOwnRequestsPay QuotaNeverExceeded NoCarryOver
