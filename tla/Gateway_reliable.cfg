SPECIFICATION ReliableSpec
CONSTANTS
  a1 = a1  u1 = u1  k1 = k1   p1 = p1  h1 = h1  h2 = h2  h3 = h3
  Users = {u1}
  Apps = {a1}
  Units = {1}
  Modes = {"hybrid"}
  Keys = {k1}
  UserOf <- OneUser
  AppOf <- OneApp
  Demands <- AtMostOne
  Plans = {p1}
  PlanApp <- PlansOfOneApp
  Codes = {1}
  Subs = {1}
  SubUser <- SubsOfOneUser
  SubPlan <- SubsOfOnePlan
  PriceRows <- OnePrice
  Quotas = {1}
  Adjustments = {1}
  GrantMonths = {1}
  TicksPerMonth = 1
  MaxTime = 1
  MaxCredit = 1
  Handlers = {h1, h2, h3}
  KeyOf <- SameKey
  Kind <- AllKinds
  EstimateOf <- One
PROPERTIES EveryHoldSettled
