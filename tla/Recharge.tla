------------------------------ MODULE Recharge ------------------------------
(***************************************************************************)
(* Recharge orders: a user creates an order, pays it at WeChat or Alipay,  *)
(* and the provider's notification credits the wallet.                     *)
(* internal/billing/payment_store.go and the notification handlers of      *)
(* internal/billing/server.go.                                             *)
(*                                                                         *)
(* A provider sends a notification until it is acknowledged, sends several *)
(* for one order, and in any order.  processPaymentSuccess is one          *)
(* transaction that locks the order and the wallet, so it is one action;   *)
(* the acknowledgement that follows may be lost, by a crash too.           *)
(***************************************************************************)
EXTENDS Totals

CONSTANTS
    Users,
    Orders,     \* order numbers, random and unique
    Events,     \* event ids, unique for a provider
    EventOrder, \* the order an event is about
    Amountless, \* events that, if of WeChat, are reported without an amount
    Amounts,    \* amounts in cents users choose, or providers report
    coinRate    \* CoinExchangeRateCNY

Providers == {"wechat", "alipay"}

ASSUME RechargeAssumption ==
    /\ IsFiniteSet(Orders)
    /\ EventOrder \in [Events -> Orders]
    /\ Amounts \subseteq Nat \ {0}
    /\ coinRate \in Nat \ {0}

VARIABLES
    order,      \* recharge_orders
    events,     \* payment_events, the payload of each included
    balance,    \* what recharges added to wallets.balance_coins
    credits,    \* rows of wallet_ledger for an order
    taken,      \* what the provider took from the customer for an order
    sent        \* notifications the provider has not seen acknowledged

vars == <<order, events, balance, credits, taken, sent>>

NoOrder(u) == [status |-> "none", user |-> u, provider |-> "wechat",
               cents |-> 0, coins |-> 0]

Notification == [provider : Providers, event : Events, order : Orders,
                 amount : Amounts \cup {0}]

TypeOK ==
    /\ order \in [Orders -> [status : {"none", "pending", "paid"}, user : Users,
                             provider : Providers, cents : Nat, coins : Nat]]
    /\ events \subseteq Notification
    /\ balance \in [Users -> Nat]
    /\ credits \in [Orders -> {0, 1}]
    /\ taken \in [Orders -> Amounts \cup {0}]
    /\ sent \subseteq Notification

Init ==
    /\ \E u \in Users : order = [o \in Orders |-> NoOrder(u)]
    /\ events = {}
    /\ balance = [u \in Users |-> 0]
    /\ credits = [o \in Orders |-> 0]
    /\ taken = [o \in Orders |-> 0]
    /\ sent = {}

(* The order is stored before the provider hears of it.                    *)
CreateRechargeOrder(o, u, provider, cents) ==
    /\ order[o].status = "none"
    /\ order' = [order EXCEPT ![o] =
                    [status |-> "pending", user |-> u, provider |-> provider,
                     cents |-> cents, coins |-> CeilDiv(cents * coinRate, 100)]]
    /\ UNCHANGED <<events, balance, credits, taken, sent>>

(* The customer pays; usually, but not by this code, the amount of the     *)
(* order.                                                                  *)
Pay(o, cents) ==
    /\ order[o].status # "none"
    /\ taken[o] = 0
    /\ taken' = [taken EXCEPT ![o] = cents]
    /\ UNCHANGED <<order, events, balance, credits, sent>>

(* The provider reports the payment, once or, as Alipay does with          *)
(* TRADE_SUCCESS and TRADE_FINISHED, again under another event id.  A      *)
(* notification of WeChat that has no amount is read as one of amount 0;   *)
(* Alipay's is refused as it is parsed.                                    *)
Report(o, e) ==
    /\ taken[o] > 0
    /\ EventOrder[e] = o
    /\ sent' = sent \cup {[provider |-> order[o].provider, event |-> e, order |-> o,
                           amount |-> IF order[o].provider = "wechat" /\ e \in Amountless
                                      THEN 0 ELSE taken[o]]}
    /\ UNCHANGED <<order, events, balance, credits, taken>>

(* ACKNotification, or a 200; it may never arrive.                         *)
Acknowledge(n) == sent' \in {sent, sent \ {n}}

Repeated(n) == \E m \in events : m.provider = n.provider /\ m.event = n.event

(* Faulty variants: the amount is not compared; it is compared with coins. *)
ConflictButForAmount(n) ==
    \/ order[n.order].status = "none"
    \/ order[n.order].provider # n.provider

ConflictInCoins(n) ==
    \/ order[n.order].status = "none"
    \/ n.amount > 0 /\ n.amount # order[n.order].coins
    \/ order[n.order].provider # n.provider

(* What processPaymentSuccess finds wrong with an event that is new; it    *)
(* then rolls back, the event's row included, and no acknowledgement goes  *)
(* out.                                                                    *)
Conflict(n) ==
    \/ order[n.order].status = "none"
    \/ n.amount > 0 /\ n.amount # order[n.order].cents
    \/ order[n.order].provider # n.provider

RecordEvent(n) == events' = events \cup {n}

IgnoreRepeated(n) ==
    /\ Repeated(n)
    /\ Acknowledge(n)
    /\ UNCHANGED <<order, events, balance, credits, taken>>

(* Faulty variant: a conflict is recorded and acknowledged as well.         *)
AcceptConflict(n) ==
    /\ ~ Repeated(n)
    /\ Conflict(n) \/ order[n.order].status = "paid"
    /\ RecordEvent(n)
    /\ Acknowledge(n)
    /\ UNCHANGED <<order, balance, credits, taken>>

AlreadyPaid(n) ==
    /\ ~ Repeated(n) /\ ~ Conflict(n)
    /\ order[n.order].status = "paid"
    /\ RecordEvent(n)
    /\ Acknowledge(n)
    /\ UNCHANGED <<order, balance, credits, taken>>

(* Faulty variant: only the event is checked for having been seen.         *)
CreditPerEvent(n) ==
    LET o == n.order
    IN  /\ ~ Repeated(n) /\ ~ Conflict(n)
        /\ RecordEvent(n)
        /\ balance' = [balance EXCEPT ![order[o].user] = @ + order[o].coins]
        /\ order' = [order EXCEPT ![o].status = "paid"]
        /\ credits' = [credits EXCEPT ![o] = @ + 1]
        /\ Acknowledge(n)
        /\ UNCHANGED taken

Credit(n) ==
    LET o == n.order
    IN  /\ ~ Repeated(n) /\ ~ Conflict(n)
        /\ order[o].status = "pending"
        /\ RecordEvent(n)
        /\ balance' = [balance EXCEPT ![order[o].user] = @ + order[o].coins]
        /\ order' = [order EXCEPT ![o].status = "paid"]
        /\ credits' = [credits EXCEPT ![o] = @ + 1]
        /\ Acknowledge(n)
        /\ UNCHANGED taken

processPaymentSuccess(n) == IgnoreRepeated(n) \/ AlreadyPaid(n) \/ Credit(n)

Next ==
    \/ \E o \in Orders :
          \/ \E u \in Users, p \in Providers, c \in Amounts : CreateRechargeOrder(o, u, p, c)
          \/ \E c \in Amounts : Pay(o, c)
          \/ \E e \in Events : Report(o, e)
    \/ \E n \in sent : processPaymentSuccess(n)

Spec == Init /\ [][Next]_vars

(* A provider reports each payment, and repeats a report until it is        *)
(* acknowledged.                                                           *)
Fairness ==
    /\ \A o \in Orders : WF_vars(\E e \in Events : Report(o, e))
    /\ \A n \in Notification : WF_vars(n \in sent /\ processPaymentSuccess(n))

-----------------------------------------------------------------------------
(* A wallet gains the coins of each of its paid orders once, however often *)
(* and under however many events the payment is reported.                  *)
EachOrderCreditedOnce ==
    /\ \A u \in Users :
          balance[u] =
            Total([o \in Orders |-> order[o].coins],
                  {o \in Orders : order[o].user = u /\ order[o].status = "paid"})
    /\ \A o \in Orders : credits[o] = IF order[o].status = "paid" THEN 1 ELSE 0

(* No order counts as paid unless the provider took its very amount, or    *)
(* took some amount and reported it without a number.                      *)
OnlyPaymentsCredited ==
    \A o \in Orders :
        order[o].status = "paid" =>
            \/ taken[o] = order[o].cents
            \/ taken[o] > 0 /\ \E m \in events : m.order = o /\ m.amount = 0

(* What makes it safe to acknowledge a repeated event unseen: an event is  *)
(* recorded only with the credit of its order, or after it.                *)
RecordedMeansCredited == \A m \in events : order[m.order].status = "paid"

(* A report of a payment of the order's amount finds nothing wrong with    *)
(* it, so a provider that repeats it does not do so in vain.               *)
ReportsAccepted ==
    \A n \in sent : taken[n.order] = order[n.order].cents => ~ Conflict(n)

(* A provider sees a report acknowledged only once its order is paid.      *)
AcknowledgedMeansCredited ==
    [][\A n \in sent \ sent' : order'[n.order].status = "paid"]_vars

(* Each payment of an order's amount reaches the wallet in the end.        *)
EveryPaymentCredited ==
    \A o \in Orders :
        taken[o] > 0 /\ taken[o] = order[o].cents ~> order[o].status = "paid"
=============================================================================
