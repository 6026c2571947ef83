--------------------------- MODULE WeChatPay_proofs ---------------------------
(***************************************************************************)
(* Proofs about Recharge and WeChatPay, for any orders, events, amounts    *)
(* and exchange rate, and any authorisations to pay inside WeChat.         *)
(*                                                                         *)
(* The first invariant ties a notification to what the provider took: its  *)
(* amount, where it has one, is the amount of the payment, which never     *)
(* changes.  With that, a credit is the credit of a payment.  The second   *)
(* says where a code may be: with the user it was made for, or used up by  *)
(* an order.  The last, that reports are of orders that exist: they are    *)
(* not refused, and acknowledged only when their order is paid.            *)
(***************************************************************************)
EXTENDS WeChatPay, Totals_proofs

(* An order that exists costs something, and a notification, under way or  *)
(* recorded, tells of a payment as it was made or does not say its amount. *)
Truthful ==
    /\ \A o \in Orders : order[o].status # "none" => order[o].cents > 0
    /\ \A n \in sent \cup events :
          EventOrder[n.event] = n.order /\ taken[n.order] > 0
          /\ n.amount \in {0, taken[n.order]}

RInv ==
    /\ TypeOK
    /\ Truthful
    /\ EachOrderCreditedOnce
    /\ OnlyPaymentsCredited
    /\ RecordedMeansCredited

Order == [status : {"none", "pending", "paid"}, user : Users,
          provider : Providers, cents : Nat, coins : Nat]

PaidOrders(u) == {o \in Orders : order[o].user = u /\ order[o].status = "paid"}

(* An order costs a natural number of coins.                               *)
LEMMA CoinsType == \A cents \in Nat : CeilDiv(cents * coinRate, 100) \in Nat
<1> SUFFICES ASSUME NEW cents \in Nat
             PROVE  CeilDiv(cents * coinRate, 100) \in Nat
  OBVIOUS
<1> DEFINE n == cents * coinRate
<1>1. n \in Int
  BY RechargeAssumption
<1> HIDE DEF n
<1>2. CeilDiv(n, 100) \in Nat
  BY <1>1, CeilDivType
<1>3. QED
  BY <1>2 DEF n

(* Nothing is ordered at first.                                            *)
LEMMA InitRInv == Init => RInv
<1> SUFFICES ASSUME Init
             PROVE  RInv
  OBVIOUS
<1>1. PICK u \in Users : order = [o \in Orders |-> NoOrder(u)]
  BY DEF Init
<1>2. order \in [Orders -> Order]
  BY <1>1 DEF NoOrder, Order, Providers
<1>3. TypeOK
  BY <1>2 DEF Init, TypeOK, Order
<1>4. Truthful /\ OnlyPaymentsCredited /\ RecordedMeansCredited
  BY <1>1 DEF Init, Truthful, OnlyPaymentsCredited, RecordedMeansCredited, NoOrder
<1>5. EachOrderCreditedOnce
  <2>1. ASSUME NEW v \in Users
        PROVE  balance[v] = Total([o \in Orders |-> order[o].coins], PaidOrders(v))
    <3>1. PaidOrders(v) = {}
      BY <1>1 DEF PaidOrders, NoOrder
    <3>2. Total([o \in Orders |-> order[o].coins], {}) = 0
      BY TotalZero
    <3>3. QED
      BY <3>1, <3>2 DEF Init
  <2>2. QED
    BY <1>1, <2>1 DEF Init, EachOrderCreditedOnce, PaidOrders, NoOrder
<1>6. QED
  BY <1>3, <1>4, <1>5 DEF RInv

(* A new order is not paid.                                                *)
LEMMA CreateKeeps ==
    ASSUME RInv, NEW o \in Orders, NEW u \in Users, NEW p \in Providers,
           NEW cents \in Amounts, CreateRechargeOrder(o, u, p, cents)
    PROVE  RInv'
<1> DEFINE new == [status |-> "pending", user |-> u, provider |-> p,
                   cents |-> cents, coins |-> CeilDiv(cents * coinRate, 100)]
<1>1. /\ order[o].status = "none"
      /\ order' = [order EXCEPT ![o] = new]
      /\ UNCHANGED <<events, balance, credits, taken, sent>>
  BY DEF CreateRechargeOrder
<1>2. order \in [Orders -> Order] /\ TypeOK /\ Truthful
  BY DEF RInv, TypeOK, Order
<1>3. cents \in Nat /\ cents > 0
  BY RechargeAssumption
<1>4. new \in Order /\ new.status = "pending" /\ new.cents = cents
  BY <1>3, CoinsType DEF Order
<1> HIDE DEF new
<1>5. order' \in [Orders -> Order] /\ order'[o] = new
      /\ \A q \in Orders \ {o} : order'[q] = order[q]
  BY <1>1, <1>2, <1>4
<1>6. TypeOK'
  BY <1>1, <1>2, <1>5 DEF TypeOK, Order, Notification
<1>7. Truthful'
  BY <1>1, <1>2, <1>3, <1>4, <1>5 DEF Truthful
<1>8. EachOrderCreditedOnce'
  <2>1. ASSUME NEW v \in Users
        PROVE  balance'[v] = Total([q \in Orders |-> order'[q].coins], PaidOrders(v)')
    <3> DEFINE f == [q \in Orders |-> order[q].coins]
               g == [q \in Orders |-> order'[q].coins]
    <3>1. PaidOrders(v)' = PaidOrders(v)
      BY <1>1, <1>4, <1>5 DEF PaidOrders
    <3>2. \A q \in PaidOrders(v) : f[q] = g[q]
      BY <1>1, <1>5 DEF PaidOrders
    <3>3. balance[v] = Total(f, PaidOrders(v))
      BY DEF RInv, EachOrderCreditedOnce, PaidOrders
    <3> HIDE DEF f, g
    <3>4. Total(f, PaidOrders(v)) = Total(g, PaidOrders(v))
      BY <3>2, TotalCongruence
    <3>5. balance'[v] = Total(g, PaidOrders(v)')
      BY <1>1, <3>1, <3>3, <3>4
    <3>6. QED
      BY <3>5 DEF g
  <2>2. \A q \in Orders : credits'[q] = IF order'[q].status = "paid" THEN 1 ELSE 0
    BY <1>1, <1>4, <1>5 DEF RInv, EachOrderCreditedOnce
  <2>3. QED
    BY <2>1, <2>2 DEF EachOrderCreditedOnce, PaidOrders
<1>9. OnlyPaymentsCredited'
  BY <1>1, <1>4, <1>5 DEF RInv, OnlyPaymentsCredited
<1>10. RecordedMeansCredited'
  BY <1>1, <1>2, <1>5 DEF RInv, RecordedMeansCredited, TypeOK, Notification
<1>11. QED
  BY <1>6, <1>7, <1>8, <1>9, <1>10 DEF RInv

(* Orders, credits and records stay when the provider is paid or reports.  *)
LEMMA ProviderKeeps ==
    ASSUME RInv, NEW o \in Orders,
           \/ \E cents \in Amounts : Pay(o, cents)
           \/ \E e \in Events : Report(o, e)
    PROVE  RInv'
<1>1. UNCHANGED <<order, events, balance, credits>>
  BY DEF Pay, Report
<1>2. TypeOK /\ Truthful /\ order \in [Orders -> Order]
  BY DEF RInv, TypeOK, Order
<1>3. EachOrderCreditedOnce' /\ RecordedMeansCredited'
  BY <1>1 DEF RInv, EachOrderCreditedOnce, RecordedMeansCredited
<1>4. ASSUME NEW cents \in Amounts, Pay(o, cents)
      PROVE  RInv'
  <2>1. /\ taken[o] = 0 /\ order[o].status # "none"
        /\ taken' = [taken EXCEPT ![o] = cents]
        /\ sent' = sent
    BY <1>4 DEF Pay
  <2>2. cents \in Nat /\ cents > 0
    BY RechargeAssumption
  <2>3. TypeOK'
    BY <1>1, <1>2, <2>1 DEF TypeOK, Notification
  <2>4. Truthful'
    <3>1. \A n \in sent \cup events : n.order \in Orders /\ n.order # o
      BY <1>2, <2>1 DEF Truthful, TypeOK, Notification
    <3>2. QED
      BY <1>1, <1>2, <2>1, <3>1 DEF Truthful, TypeOK
  <2>5. OnlyPaymentsCredited'
    <3>1. order[o].status # "paid"
      <4>1. order[o].cents > 0
        BY <1>2, <2>1 DEF Truthful
      <4>2. QED
        BY <2>1, <4>1 DEF RInv, OnlyPaymentsCredited
    <3>2. QED
      BY <1>1, <1>2, <2>1, <3>1 DEF RInv, OnlyPaymentsCredited, TypeOK
  <2>6. QED
    BY <1>3, <2>3, <2>4, <2>5 DEF RInv
<1>5. ASSUME NEW e \in Events, Report(o, e)
      PROVE  RInv'
  <2>0. PICK amount \in {0, taken[o]} :
           sent' = sent \cup {[provider |-> order[o].provider, event |-> e,
                              order |-> o, amount |-> amount]}
    BY <1>5 DEF Report
  <2> DEFINE n == [provider |-> order[o].provider, event |-> e, order |-> o,
                   amount |-> amount]
  <2>1. /\ taken[o] > 0 /\ EventOrder[e] = o
        /\ sent' = sent \cup {n}
        /\ taken' = taken
    BY <1>5, <2>0 DEF Report
  <2>2. n \in Notification
    BY <1>2, <2>0 DEF TypeOK, Notification, Order
  <2>3. n.event = e /\ n.order = o /\ n.amount \in {0, taken[o]}
    BY <2>0
  <2> HIDE DEF n
  <2>4. TypeOK'
    BY <1>1, <1>2, <2>1, <2>2 DEF TypeOK
  <2>5. Truthful'
    BY <1>1, <1>2, <2>1, <2>3 DEF Truthful
  <2>6. OnlyPaymentsCredited'
    BY <1>1, <2>1 DEF RInv, OnlyPaymentsCredited
  <2>7. QED
    BY <1>3, <2>4, <2>5, <2>6 DEF RInv
<1>6. QED
  BY <1>4, <1>5

(* A notification is ignored, recorded, or pays an order that is pending.  *)
LEMMA NotificationKeeps ==
    ASSUME RInv, NEW n \in sent, processPaymentSuccess(n)
    PROVE  RInv'
<1>1. TypeOK /\ Truthful /\ order \in [Orders -> Order]
  BY DEF RInv, TypeOK, Order
<1>2. n \in Notification
  BY <1>1 DEF TypeOK
<1>3. n.order \in Orders /\ n.event \in Events /\ n.provider \in Providers
      /\ EventOrder[n.event] = n.order
      /\ taken[n.order] > 0 /\ n.amount \in {0, taken[n.order]}
  BY <1>1, <1>2 DEF Truthful, Notification
<1>4. sent' \subseteq sent /\ taken' = taken
  BY DEF processPaymentSuccess, IgnoreRepeated, AlreadyPaid, Credit, Acknowledge
<1>5. CASE IgnoreRepeated(n)
  <2>1. UNCHANGED <<order, events, balance, credits, taken>>
    BY <1>5 DEF IgnoreRepeated
  <2>2. QED
    BY <1>4, <2>1 DEF RInv, TypeOK, Truthful, EachOrderCreditedOnce,
                      OnlyPaymentsCredited, RecordedMeansCredited
<1>6. CASE AlreadyPaid(n)
  <2>1. /\ order[n.order].status = "paid"
        /\ events' = events \cup {n}
        /\ UNCHANGED <<order, balance, credits>>
    BY <1>6 DEF AlreadyPaid, RecordEvent
  <2>2. RecordedMeansCredited'
    BY <1>3, <2>1 DEF RInv, RecordedMeansCredited
  <2>3. TypeOK'
    BY <1>1, <1>2, <1>4, <2>1 DEF TypeOK
  <2>4. Truthful'
    BY <1>1, <1>3, <1>4, <2>1 DEF Truthful
  <2>5. EachOrderCreditedOnce' /\ OnlyPaymentsCredited'
    BY <1>4, <2>1 DEF RInv, EachOrderCreditedOnce, OnlyPaymentsCredited
  <2>6. QED
    BY <2>2, <2>3, <2>4, <2>5 DEF RInv
<1>7. CASE Credit(n)
  <2> DEFINE o == n.order
             u == order[o].user
  <2>1. /\ order[o].status = "pending" /\ ~ Conflict(n)
        /\ events' = events \cup {n}
        /\ balance' = [balance EXCEPT ![u] = @ + order[o].coins]
        /\ order' = [order EXCEPT ![o].status = "paid"]
        /\ credits' = [credits EXCEPT ![o] = @ + 1]
    BY <1>7 DEF Credit, RecordEvent
  <2>2. o \in Orders /\ u \in Users /\ order[o].coins \in Nat
    BY <1>1, <1>3 DEF Order
  <2>3. n.amount = 0 \/ taken[o] = order[o].cents
    <3>1. n.amount = 0 \/ (n.amount = taken[o] /\ n.amount > 0)
      BY <1>3
    <3>2. ~ (n.amount > 0 /\ n.amount # order[o].cents)
      BY <2>1 DEF Conflict
    <3>3. QED
      BY <3>1, <3>2
  <2> HIDE DEF u
  <2>4. /\ order' \in [Orders -> Order]
        /\ order'[o].status = "paid"
        /\ \A q \in Orders : /\ order'[q].user = order[q].user
                             /\ order'[q].coins = order[q].coins
                             /\ order'[q].cents = order[q].cents
        /\ \A q \in Orders \ {o} : order'[q].status = order[q].status
    BY <1>1, <2>1, <2>2 DEF Order
  <2>5. credits[o] = 0 /\ credits'[o] = 1
        /\ \A q \in Orders \ {o} : credits'[q] = credits[q]
    <3>1. credits[o] = 0
      BY <2>1, <2>2 DEF RInv, EachOrderCreditedOnce
    <3>2. QED
      BY <1>1, <2>1, <2>2, <3>1 DEF TypeOK
  <2>6. TypeOK'
    <3>1. balance' \in [Users -> Nat]
      BY <1>1, <2>1, <2>2 DEF TypeOK
    <3>2. credits' \in [Orders -> {0, 1}]
      BY <1>1, <2>1, <2>2, <2>5 DEF TypeOK
    <3>3. events' \subseteq Notification
      BY <1>1, <1>2, <2>1 DEF TypeOK
    <3>4. QED
      BY <1>1, <1>4, <2>4, <3>1, <3>2, <3>3 DEF TypeOK, Order
  <2>7. Truthful'
    <3>1. \A q \in Orders : order'[q].status # "none" => order'[q].cents > 0
      BY <1>1, <2>1, <2>2, <2>4 DEF Truthful
    <3>2. \A m \in sent' \cup events' : m \in sent \cup events
      BY <1>4, <2>1
    <3>3. QED
      BY <1>1, <1>4, <3>1, <3>2 DEF Truthful
  <2>8. EachOrderCreditedOnce'
    <3>1. ASSUME NEW v \in Users
          PROVE  balance'[v] = Total([q \in Orders |-> order'[q].coins], PaidOrders(v)')
      <4> DEFINE f == [q \in Orders |-> order[q].coins]
                 g == [q \in Orders |-> order'[q].coins]
      <4>1. g = f
        BY <2>4
      <4>2. balance[v] = Total(f, PaidOrders(v))
        BY DEF RInv, EachOrderCreditedOnce, PaidOrders
      <4>3. \A q \in Orders : f[q] \in Nat
        BY <1>1 DEF Order
      <4>4. f[o] = order[o].coins
        BY <2>2
      <4> HIDE DEF f, g
      <4>5. CASE v = u
        <5>1. PaidOrders(v)' = PaidOrders(v) \cup {o} /\ o \notin PaidOrders(v)
          BY <2>1, <2>2, <2>4, <4>5 DEF PaidOrders, u
        <5>2. IsFiniteSet(PaidOrders(v)')
          <6>1. PaidOrders(v)' \in SUBSET Orders
            BY DEF PaidOrders
          <6>2. QED
            BY <6>1, FS_Subset, RechargeAssumption
        <5>3. /\ o \in PaidOrders(v)'
              /\ PaidOrders(v)' \ {o} = PaidOrders(v)
              /\ \A q \in PaidOrders(v)' : f[q] \in Nat
          BY <4>3, <5>1 DEF PaidOrders
        <5>4. Total(f, PaidOrders(v)') = f[o] + Total(f, PaidOrders(v)' \ {o})
          BY <5>2, <5>3, TotalSplit
        <5>5. balance'[v] = balance[v] + order[o].coins /\ balance[v] \in Nat
          BY <1>1, <2>1, <2>2, <4>5 DEF TypeOK
        <5>6. Total(f, PaidOrders(v)') = order[o].coins + balance[v]
          BY <4>2, <4>4, <5>3, <5>4
        <5>7. balance'[v] = order[o].coins + balance[v]
          BY <2>2, <5>5
        <5>8. balance'[v] = Total(f, PaidOrders(v)')
          BY <5>6, <5>7
        <5>9. QED
          BY <4>1, <5>8 DEF g
      <4>6. CASE v # u
        <5>1. PaidOrders(v)' = PaidOrders(v)
          BY <2>1, <2>2, <2>4, <4>6 DEF PaidOrders, u
        <5>2. balance'[v] = balance[v]
          BY <1>1, <2>1, <2>2, <4>6 DEF TypeOK
        <5>3. balance'[v] = Total(g, PaidOrders(v)')
          BY <4>1, <4>2, <5>1, <5>2
        <5>4. QED
          BY <5>3 DEF g
      <4>7. QED
        BY <4>5, <4>6
    <3>2. \A q \in Orders : credits'[q] = IF order'[q].status = "paid" THEN 1 ELSE 0
      BY <2>2, <2>4, <2>5 DEF RInv, EachOrderCreditedOnce
    <3>3. QED
      BY <3>1, <3>2 DEF EachOrderCreditedOnce, PaidOrders
  <2>9. OnlyPaymentsCredited'
    BY <1>3, <1>4, <2>1, <2>2, <2>3, <2>4 DEF RInv, OnlyPaymentsCredited
  <2>10. RecordedMeansCredited'
    <3> SUFFICES ASSUME NEW m \in events'
                 PROVE  order'[m.order].status = "paid"
      BY DEF RecordedMeansCredited
    <3>1. m.order \in Orders
      BY <2>6 DEF TypeOK, Notification
    <3>2. m.order = o \/ order[m.order].status = "paid"
      BY <2>1 DEF RInv, RecordedMeansCredited
    <3>3. QED
      BY <2>4, <3>1, <3>2
  <2>11. QED
    BY <2>6, <2>7, <2>8, <2>9, <2>10 DEF RInv
<1>8. QED
  BY <1>5, <1>6, <1>7 DEF processPaymentSuccess

(* The invariant of Recharge is inductive.                                 *)
LEMMA NextRInv == RInv /\ [Next]_vars => RInv'
<1> SUFFICES ASSUME RInv, [Next]_vars
             PROVE  RInv'
  OBVIOUS
<1>1. CASE UNCHANGED vars
  BY <1>1 DEF vars, RInv, TypeOK, Truthful, EachOrderCreditedOnce,
              OnlyPaymentsCredited, RecordedMeansCredited
<1>2. CASE Next
  BY <1>2, CreateKeeps, ProviderKeeps, NotificationKeeps DEF Next
<1>3. QED
  BY <1>1, <1>2

-----------------------------------------------------------------------------
(* Where a code is: in the hand of the user it was made for, or used up by *)
(* one order of that user.                                                 *)
CodesPlaced ==
    /\ \A u \in Users : \A t \in hand[u] :
          ticket[t].stage = "consumed" /\ ticket[t].user = u
    /\ \A o \in Orders : \A t \in payer[o] :
          /\ ticket[t].stage = "consumed"
          /\ order[o].status # "none"
          /\ \A u \in Users : t \notin hand[u]

PInv == RInv /\ PayTypeOK /\ CodesPlaced /\ OneOrderPerAuthorisation

(* An order that exists keeps its user and its provider.                   *)
LEMMA OrdersStay ==
    ASSUME RInv, [Next]_vars, NEW o \in Orders, order[o].status # "none"
    PROVE  /\ order'[o].status # "none"
           /\ order'[o].user = order[o].user
           /\ order'[o].provider = order[o].provider
<1>1. order \in [Orders -> Order]
  BY DEF RInv, TypeOK, Order
<1>2. ASSUME NEW q \in Orders, NEW u \in Users, NEW p \in Providers,
             NEW cents \in Amounts, CreateRechargeOrder(q, u, p, cents)
      PROVE  order'[o] = order[o]
  BY <1>1, <1>2 DEF CreateRechargeOrder
<1>3. ASSUME NEW n \in sent, processPaymentSuccess(n)
      PROVE  /\ order'[o].status # "none"
             /\ order'[o].user = order[o].user
             /\ order'[o].provider = order[o].provider
  <2>1. order' = order \/ order' = [order EXCEPT ![n.order].status = "paid"]
    BY <1>3 DEF processPaymentSuccess, IgnoreRepeated, AlreadyPaid, Credit
  <2>2. QED
    BY <1>1, <2>1 DEF Order
<1>4. QED
  BY <1>2, <1>3 DEF Next, Pay, Report, vars

(* A step that moves no code into a hand or an order.                      *)
LEMMA TicketsKeep ==
    ASSUME PInv, [Next]_vars, UNCHANGED payer,
           ticket' \in [Tickets -> Ticket],
           \A t \in Tickets : ticket[t].stage = "consumed" => ticket'[t] = ticket[t],
           hand' \in [Users -> SUBSET Tickets],
           \A u \in Users : \A t \in hand'[u] \ hand[u] :
              /\ ticket[t].stage # "consumed"
              /\ ticket'[t].stage = "consumed" /\ ticket'[t].user = u
    PROVE  PInv'
<1>1. RInv' /\ RInv
  BY NextRInv DEF PInv
<1>2. /\ payer \in [Orders -> SUBSET Tickets] /\ hand \in [Users -> SUBSET Tickets]
      /\ CodesPlaced /\ OneOrderPerAuthorisation
      /\ \A o \in Orders : payer[o] # {} => order[o].provider = "wechat"
  BY DEF PInv, PayTypeOK
<1>3. ASSUME NEW o \in Orders, NEW t \in payer[o]
      PROVE  /\ ticket'[t] = ticket[t] /\ ticket[t].stage = "consumed"
             /\ order'[o].status # "none"
             /\ order'[o].user = order[o].user
             /\ order'[o].provider = order[o].provider
  <2>1. ticket[t].stage = "consumed" /\ order[o].status # "none" /\ t \in Tickets
    BY <1>2 DEF CodesPlaced
  <2>2. QED
    BY <1>1, <2>1, OrdersStay
<1>4. PayTypeOK'
  BY <1>1, <1>2, <1>3 DEF PayTypeOK, RInv
<1>5. CodesPlaced'
  <2>1. ASSUME NEW u \in Users, NEW t \in hand'[u]
        PROVE  ticket'[t].stage = "consumed" /\ ticket'[t].user = u
    BY <1>2 DEF CodesPlaced
  <2>2. ASSUME NEW o \in Orders, NEW t \in payer[o], NEW u \in Users
        PROVE  t \notin hand'[u]
    BY <1>2, <1>3 DEF CodesPlaced
  <2>3. QED
    BY <1>3, <2>1, <2>2 DEF CodesPlaced
<1>6. OneOrderPerAuthorisation'
  BY <1>2, <1>3 DEF OneOrderPerAuthorisation
<1>7. QED
  BY <1>1, <1>4, <1>5, <1>6 DEF PInv

(* The code in the hand of a user moves to a new order of that user.       *)
LEMMA CreateJSAPIOrderKeeps ==
    ASSUME PInv, NEW o \in Orders, NEW u \in Users, NEW t \in Tickets,
           NEW cents \in Amounts, CreateJSAPIOrder(o, u, t, cents)
    PROVE  PInv'
<1>1. /\ t \in hand[u]
      /\ order[o].status = "none"
      /\ CreateRechargeOrder(o, u, "wechat", cents)
      /\ hand' = [hand EXCEPT ![u] = @ \ {t}]
      /\ payer' = [payer EXCEPT ![o] = {t}]
      /\ ticket' = ticket
  BY DEF CreateJSAPIOrder, CreateRechargeOrder
<1>2. /\ payer \in [Orders -> SUBSET Tickets] /\ hand \in [Users -> SUBSET Tickets]
      /\ ticket \in [Tickets -> Ticket]
      /\ CodesPlaced /\ OneOrderPerAuthorisation /\ RInv
      /\ \A q \in Orders : payer[q] # {} => order[q].provider = "wechat"
  BY DEF PInv, PayTypeOK
<1>3. RInv'
  BY <1>1, <1>2, CreateKeeps DEF Providers
<1>4. /\ order'[o].status = "pending" /\ order'[o].user = u /\ order'[o].provider = "wechat"
      /\ \A q \in Orders \ {o} : order'[q] = order[q]
  <2>1. order \in [Orders -> Order]
    BY <1>2 DEF RInv, TypeOK, Order
  <2>2. QED
    BY <1>1, <2>1 DEF CreateRechargeOrder
<1>5. \A q \in Orders : t \notin payer[q]
  BY <1>1, <1>2 DEF CodesPlaced
<1>6. ticket[t].stage = "consumed" /\ ticket[t].user = u
      /\ \A v \in Users \ {u} : t \notin hand[v]
  BY <1>1, <1>2 DEF CodesPlaced
<1>7. payer'[o] = {t} /\ \A q \in Orders \ {o} : payer'[q] = payer[q]
  BY <1>1, <1>2
<1>8. hand'[u] = hand[u] \ {t} /\ \A v \in Users \ {u} : hand'[v] = hand[v]
  BY <1>1, <1>2
<1>9. PayTypeOK'
  BY <1>1, <1>2, <1>3, <1>4, <1>7 DEF PayTypeOK, RInv
<1>10. CodesPlaced'
  BY <1>1, <1>2, <1>4, <1>6, <1>7, <1>8 DEF CodesPlaced
<1>11. OneOrderPerAuthorisation'
  BY <1>1, <1>2, <1>4, <1>5, <1>6, <1>7 DEF OneOrderPerAuthorisation
<1>12. QED
  BY <1>3, <1>9, <1>10, <1>11 DEF PInv

(* The composed invariant is inductive.                                    *)
LEMMA NextPInv == PInv /\ [PayNext]_payVars => PInv'
<1> SUFFICES ASSUME PInv, [PayNext]_payVars
             PROVE  PInv'
  OBVIOUS
<1>1. /\ ticket \in [Tickets -> Ticket]
      /\ hand \in [Users -> SUBSET Tickets]
  BY DEF PInv, PayTypeOK
<1>2. CASE [Next]_vars /\ UNCHANGED <<ticket, hand, payer>>
  BY <1>1, <1>2, TicketsKeep
<1>3. ASSUME NEW t \in Tickets, NEW from \in {"sent", "returned", "ready"},
             NEW to \in {"returned", "ready", "lost"}, Advance(t, from, to)
      PROVE  PInv'
  <2>1. /\ ticket[t].stage = from
        /\ ticket' = [ticket EXCEPT ![t].stage = to]
        /\ UNCHANGED <<vars, hand, payer>>
    BY <1>3 DEF Advance
  <2>2. ticket' \in [Tickets -> Ticket]
    BY <1>1, <2>1 DEF Ticket
  <2>3. \A s \in Tickets : ticket[s].stage = "consumed" => ticket'[s] = ticket[s]
    BY <1>1, <2>1
  <2>4. QED
    BY <1>1, <2>1, <2>2, <2>3, TicketsKeep
<1>4. ASSUME NEW t \in Tickets, NEW u \in Users, CreatePayState(t, u)
      PROVE  PInv'
  <2>1. /\ ticket[t].stage = "none"
        /\ ticket' = [ticket EXCEPT ![t] = [stage |-> "sent", user |-> u]]
        /\ UNCHANGED <<vars, hand, payer>>
    BY <1>4 DEF CreatePayState
  <2>2. ticket' \in [Tickets -> Ticket]
    BY <1>1, <2>1 DEF Ticket
  <2>3. \A s \in Tickets : ticket[s].stage = "consumed" => ticket'[s] = ticket[s]
    BY <1>1, <2>1
  <2>4. QED
    BY <1>1, <2>1, <2>2, <2>3, TicketsKeep
<1>5. ASSUME NEW t \in Tickets, NEW u \in Users, ConsumeWeChatPayOpenIDCode(t, u)
      PROVE  PInv'
  <2>1. /\ ticket[t].stage = "ready" /\ ticket[t].user = u
        /\ ticket' = [ticket EXCEPT ![t].stage = "consumed"]
        /\ hand' = [hand EXCEPT ![u] = @ \cup {t}]
        /\ UNCHANGED <<vars, payer>>
    BY <1>5 DEF ConsumeWeChatPayOpenIDCode
  <2>2. ticket' \in [Tickets -> Ticket] /\ hand' \in [Users -> SUBSET Tickets]
    BY <1>1, <2>1 DEF Ticket
  <2>3. \A s \in Tickets : ticket[s].stage = "consumed" => ticket'[s] = ticket[s]
    BY <1>1, <2>1
  <2>4. ticket'[t].stage = "consumed" /\ ticket'[t].user = u
    BY <1>1, <2>1 DEF Ticket
  <2>5. \A v \in Users : \A s \in hand'[v] \ hand[v] : s = t /\ v = u
    BY <1>1, <2>1
  <2>6. QED
    BY <1>1, <2>1, <2>2, <2>3, <2>4, <2>5, TicketsKeep
<1>6. ASSUME NEW t \in Tickets, NEW u \in Users, DropOrder(u, t)
      PROVE  PInv'
  <2>1. /\ hand' = [hand EXCEPT ![u] = @ \ {t}]
        /\ UNCHANGED <<vars, ticket, payer>>
    BY <1>6 DEF DropOrder
  <2>2. hand' \in [Users -> SUBSET Tickets]
        /\ \A v \in Users : hand'[v] \subseteq hand[v]
    BY <1>1, <2>1
  <2>3. QED
    BY <1>1, <2>1, <2>2, TicketsKeep
<1>7. ASSUME NEW t \in Tickets, ConsumePayState(t) \/ CreateWeChatPayOpenIDCode(t) \/ LoseTicket(t)
      PROVE  PInv'
  BY <1>3, <1>7 DEF ConsumePayState, CreateWeChatPayOpenIDCode, LoseTicket
<1>8. CASE UNCHANGED payVars
  BY <1>2, <1>8 DEF payVars
<1>9. QED
  BY <1>2, <1>4, <1>5, <1>6, <1>7, <1>8, CreateJSAPIOrderKeeps DEF PayNext

(* Every reachable state satisfies the composed invariant.                 *)
THEOREM PayInvariance == PaySpec => []PInv
<1>1. PayInit => PInv
  <2> SUFFICES ASSUME PayInit
               PROVE  PInv
    OBVIOUS
  <2>1. RInv
    BY InitRInv DEF PayInit
  <2>2. PICK u \in Users : ticket = [t \in Tickets |-> [stage |-> "none", user |-> u]]
    BY DEF PayInit
  <2>3. ticket \in [Tickets -> Ticket]
    BY <2>2 DEF Ticket
  <2>4. PayTypeOK /\ CodesPlaced /\ OneOrderPerAuthorisation
    BY <2>1, <2>3 DEF PayInit, PayTypeOK, CodesPlaced, OneOrderPerAuthorisation, RInv
  <2>5. QED
    BY <2>1, <2>4 DEF PInv
<1>2. PInv /\ [PayNext]_payVars => PInv'
  BY NextPInv
<1>3. QED
  BY <1>1, <1>2, PTL DEF PaySpec

(* The tables keep their types; no order has two credit rows.              *)
THEOREM PayTypeCorrect == PaySpec => []PayTypeOK
<1>1. PInv => PayTypeOK
  BY DEF PInv
<1>2. QED
  BY <1>1, PayInvariance, PTL

(* A wallet gains the coins of each of its paid orders once, however often *)
(* and under however many events the payment is reported.                  *)
THEOREM CreditedOnce == PaySpec => []EachOrderCreditedOnce
<1>1. PInv => EachOrderCreditedOnce
  BY DEF PInv, RInv
<1>2. QED
  BY <1>1, PayInvariance, PTL

(* No order counts as paid unless the provider took its very amount, or    *)
(* took some amount and reported it without a number.                      *)
THEOREM PaymentsOnly == PaySpec => []OnlyPaymentsCredited
<1>1. PInv => OnlyPaymentsCredited
  BY DEF PInv, RInv
<1>2. QED
  BY <1>1, PayInvariance, PTL

(* A recorded event may be acknowledged unseen: its order is paid.         *)
THEOREM RecordedCredited == PaySpec => []RecordedMeansCredited
<1>1. PInv => RecordedMeansCredited
  BY DEF PInv, RInv
<1>2. QED
  BY <1>1, PayInvariance, PTL

(* An authorisation by WeChat serves one order, of the user it is of.      *)
THEOREM OneOrderEach == PaySpec => []OneOrderPerAuthorisation
<1>1. PInv => OneOrderPerAuthorisation
  BY DEF PInv
<1>2. QED
  BY <1>1, PayInvariance, PTL

-----------------------------------------------------------------------------
(* Reports.                                                                *)

(* Only an order that exists is paid and reported, by its own provider.    *)
ReportsKnown ==
    /\ \A o \in Orders : taken[o] > 0 => order[o].status # "none"
    /\ \A n \in sent : /\ order[n.order].status # "none"
                       /\ n.provider = order[n.order].provider

(* Orders that exist stay, and only Pay and Report add payments and        *)
(* reports.                                                                *)
LEMMA ReportsKnownKept == RInv /\ ReportsKnown /\ [Next]_vars => ReportsKnown'
<1> SUFFICES ASSUME RInv, ReportsKnown, [Next]_vars
             PROVE  ReportsKnown'
  OBVIOUS
<1>1. /\ taken \in [Orders -> Amounts \cup {0}] /\ sent \subseteq Notification
      /\ order \in [Orders -> Order]
  BY DEF RInv, TypeOK, Order
<1>2. \A n \in sent : n.order \in Orders
  BY <1>1 DEF Notification
<1>3. ASSUME UNCHANGED taken, sent' \subseteq sent
      PROVE  ReportsKnown'
  BY <1>2, <1>3, OrdersStay DEF ReportsKnown
<1>4. ASSUME NEW o \in Orders, NEW cents \in Amounts, Pay(o, cents)
      PROVE  ReportsKnown'
  <2>1. /\ order[o].status # "none" /\ taken' = [taken EXCEPT ![o] = cents]
        /\ UNCHANGED <<order, sent>>
    BY <1>4 DEF Pay
  <2>2. QED
    BY <1>1, <2>1 DEF ReportsKnown
<1>5. ASSUME NEW o \in Orders, NEW e \in Events, Report(o, e)
      PROVE  ReportsKnown'
  <2>0. PICK amount \in {0, taken[o]} :
           sent' = sent \cup {[provider |-> order[o].provider, event |-> e,
                              order |-> o, amount |-> amount]}
    BY <1>5 DEF Report
  <2> DEFINE m == [provider |-> order[o].provider, event |-> e, order |-> o,
                   amount |-> amount]
  <2>1. taken[o] > 0 /\ sent' = sent \cup {m} /\ UNCHANGED <<order, taken>>
    BY <1>5, <2>0 DEF Report
  <2>2. order[o].status # "none" /\ m.order = o /\ m.provider = order[o].provider
    BY <2>1 DEF ReportsKnown
  <2> HIDE DEF m
  <2>3. QED
    BY <2>1, <2>2 DEF ReportsKnown
<1>6. ASSUME NEW o \in Orders, NEW u \in Users, NEW p \in Providers, NEW c \in Amounts,
             CreateRechargeOrder(o, u, p, c)
      PROVE  UNCHANGED taken /\ sent' \subseteq sent
  BY <1>6 DEF CreateRechargeOrder
<1>7. ASSUME NEW n \in sent, processPaymentSuccess(n)
      PROVE  UNCHANGED taken /\ sent' \subseteq sent
  BY <1>7 DEF processPaymentSuccess, IgnoreRepeated, AlreadyPaid, Credit, Acknowledge
<1>8. CASE UNCHANGED vars
  BY <1>3, <1>8 DEF vars
<1>9. QED
  BY <1>3, <1>4, <1>5, <1>6, <1>7, <1>8 DEF Next

(* What the composition makes of orders and reports is a step of Recharge. *)
LEMMA PayNextNext == [PayNext]_payVars => [Next]_vars
<1>1. ASSUME NEW t \in Tickets,
             \/ ConsumePayState(t) \/ CreateWeChatPayOpenIDCode(t) \/ LoseTicket(t)
             \/ \E u \in Users : \/ CreatePayState(t, u) \/ DropOrder(u, t)
                                 \/ ConsumeWeChatPayOpenIDCode(t, u)
      PROVE  UNCHANGED vars
  BY <1>1 DEF ConsumePayState, CreateWeChatPayOpenIDCode, LoseTicket, Advance,
     CreatePayState, DropOrder, ConsumeWeChatPayOpenIDCode
<1>2. ASSUME NEW t \in Tickets, NEW u \in Users, NEW o \in Orders, NEW c \in Amounts,
             CreateJSAPIOrder(o, u, t, c)
      PROVE  Next
  BY <1>2 DEF CreateJSAPIOrder, Next, Providers
<1>3. QED
  BY <1>1, <1>2 DEF PayNext, payVars

(* No report of a payment of the order's amount is refused.                *)
THEOREM ReportsTaken == PaySpec => []ReportsAccepted
<1>1. PayInit => ReportsKnown
  BY DEF PayInit, Init, ReportsKnown
<1>2. PInv /\ ReportsKnown /\ [PayNext]_payVars => ReportsKnown'
  BY ReportsKnownKept, PayNextNext DEF PInv
<1>3. PInv /\ ReportsKnown => ReportsAccepted
  BY DEF PInv, RInv, Truthful, ReportsKnown, ReportsAccepted, Conflict
<1>4. QED
  BY <1>1, <1>2, <1>3, PayInvariance, PTL DEF PaySpec

(* A report is acknowledged only by a step after which its order is paid:  *)
(* nothing that fails before lets the provider forget a payment.           *)
THEOREM AcknowledgedCredited == PaySpec => AcknowledgedMeansCredited
<1> DEFINE Kept == \A n \in sent \ sent' : order'[n.order].status = "paid"
<1>1. ASSUME RInv, [Next]_vars
      PROVE  Kept
  <2>1. /\ order \in [Orders -> Order] /\ sent \subseteq Notification
        /\ \A n \in sent : n.order \in Orders /\ n.event \in Events
                           /\ n.provider \in Providers /\ EventOrder[n.event] = n.order
    BY <1>1 DEF RInv, TypeOK, Order, Truthful, Notification
  <2>2. ASSUME NEW m \in sent, processPaymentSuccess(m)
        PROVE  Kept
    <3>1. sent \ sent' \subseteq {m}
      BY <2>2 DEF processPaymentSuccess, IgnoreRepeated, AlreadyPaid, Credit, Acknowledge
    <3>2. CASE IgnoreRepeated(m)
      <4>1. PICK seen \in events : seen.event = m.event
        BY <3>2 DEF IgnoreRepeated, Repeated
      <4>2. seen.order = m.order
        BY <1>1, <2>1, <4>1 DEF RInv, Truthful
      <4>3. order[m.order].status = "paid" /\ order' = order
        BY <1>1, <3>2, <4>2 DEF IgnoreRepeated, RInv, RecordedMeansCredited
      <4>4. QED
        BY <3>1, <4>3
    <3>3. CASE AlreadyPaid(m)
      BY <3>1, <3>3 DEF AlreadyPaid
    <3>4. CASE Credit(m)
      <4>1. order'[m.order].status = "paid"
        BY <2>1, <3>4 DEF Credit, Order
      <4>2. QED
        BY <3>1, <4>1
    <3>5. QED
      BY <2>2, <3>2, <3>3, <3>4 DEF processPaymentSuccess
  <2>3. CASE sent \subseteq sent'
    BY <2>3
  <2>4. ASSUME NEW o \in Orders,
               \/ \E u \in Users, p \in Providers, c \in Amounts :
                     CreateRechargeOrder(o, u, p, c)
               \/ \E c \in Amounts : Pay(o, c)
               \/ \E e \in Events : Report(o, e)
        PROVE  sent \subseteq sent'
    BY <2>4 DEF CreateRechargeOrder, Pay, Report
  <2>5. CASE UNCHANGED vars
    BY <2>3, <2>5 DEF vars
  <2>6. QED
    BY <1>1, <2>2, <2>3, <2>4, <2>5 DEF Next
<1>2. PInv /\ [PayNext]_payVars => [Kept]_vars
  BY <1>1, PayNextNext DEF PInv
<1>3. QED
  BY <1>2, PayInvariance, PTL DEF PaySpec, AcknowledgedMeansCredited
=============================================================================
