SPECIFICATION LiveGatewaySpec
CONSTANTS
  a1 = a1  u1 = u1  k1 = k1   p1 = p1  h1 = h1  h2 = h2  h3 = h3
  Users = {u1}
  Apps = {a1}
  Units = {1}
  Modes = {"coins"}
  Keys = {k1}
  UserOf <- OneUser
  AppOf <- OneApp
  Demands <- OneOrTwo
  Plans = {}
  PlanApp <- PlansOfOneApp
  Codes = {1}
  Subs = {}
  SubUser <- SubsOfOneUser
  SubPlan <- SubsOfOnePlan
  PriceRows <- OnePrice
  Quotas = {}
  Adjustments = {1}
  GrantMonths = {1}
  TicksPerMonth = 1
  MaxTime = 0
  MaxCredit = 2
  Handlers = {h1, h2, h3}
  KeyOf <- SameKey
  Kind <- AllKinds
  EstimateOf <- One
INVARIANTS GatewayTypeOK SuccessIsCharged
PROPERTIES RetryAfterSettlementRejected EveryRequestAnswered
