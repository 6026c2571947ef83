SPECIFICATION PaySpec
CONSTANTS
  u1 = u1  u2 = u2  o1 = o1  o2 = o2  e1 = e1  e2 = e2  e3 = e3  t1 = t1
  Users = {u1, u2}
  Orders = {o1, o2}
  Events = {e1, e2, e3}
  EventOrder <- TwoOfFirst
  Amountless = {e2}
  Amounts = {1, 2}
  coinRate = 150
  Tickets = {t1}
INVARIANTS PayTypeOK EachOrderCreditedOnce  RecordedMeansCredited OneOrderPerAuthorisation
PROPERTIES EveryPaymentCredited
