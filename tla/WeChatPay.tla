----------------------------- MODULE WeChatPay -----------------------------
(***************************************************************************)
(* Recharge orders paid inside WeChat.  WeChat takes such an order only    *)
(* for an openid, so the user is sent to WeChat with a state to pay, the   *)
(* callback keeps the openid under a one-time code, and                    *)
(* createRechargeOrder, in internal/billing/server.go, takes the code      *)
(* before it stores the order.                                             *)
(*                                                                         *)
(* This composes Recharge with the rows of wechat_pay_openids.  A ticket   *)
(* is what comes of one state: its callback and its code.  Failures and    *)
(* the end of a lifetime leave a ticket lost, or an order unmade.          *)
(***************************************************************************)
EXTENDS Recharge

CONSTANTS Tickets

VARIABLES
    ticket, \* auth_states with action pay, and wechat_pay_openids
    hand,   \* codes a user's createRechargeOrder has taken, but not yet used
    payer   \* the code whose openid an order is sent to WeChat with

payVars == <<vars, ticket, hand, payer>>

Ticket == [stage : {"none", "sent", "returned", "ready", "consumed", "lost"}, user : Users]

PayTypeOK ==
    /\ TypeOK
    /\ ticket \in [Tickets -> Ticket]
    /\ hand \in [Users -> SUBSET Tickets]
    /\ payer \in [Orders -> SUBSET Tickets]
    /\ \A o \in Orders : payer[o] # {} => order[o].provider = "wechat"

PayInit ==
    /\ Init
    /\ \E u \in Users : ticket = [t \in Tickets |-> [stage |-> "none", user |-> u]]
    /\ hand = [u \in Users |-> {}]
    /\ payer = [o \in Orders |-> {}]

Advance(t, from, to) ==
    /\ ticket[t].stage = from
    /\ ticket' = [ticket EXCEPT ![t].stage = to]
    /\ UNCHANGED <<vars, hand, payer>>

(* A state with the user's id; the user must be signed in.                 *)
CreatePayState(t, u) ==
    /\ ticket[t].stage = "none"
    /\ ticket' = [ticket EXCEPT ![t] = [stage |-> "sent", user |-> u]]
    /\ UNCHANGED <<vars, hand, payer>>

ConsumePayState(t) == Advance(t, "sent", "returned")

(* WeChat tells the openid, and the callback keeps it for the user.        *)
CreateWeChatPayOpenIDCode(t) == Advance(t, "returned", "ready")

(* It expires, or the callback fails.                                      *)
LoseTicket(t) == \E stage \in {"sent", "returned", "ready"} : Advance(t, stage, "lost")

(* Faulty variant: the code stays open.                                    *)
ReadWeChatPayOpenIDCode(t, u) ==
    /\ ticket[t].stage = "ready" /\ ticket[t].user = u
    /\ hand' = [hand EXCEPT ![u] = @ \cup {t}]
    /\ UNCHANGED <<vars, ticket, payer>>

(* A user hands in a code; another's is a conflict, and stays.             *)
ConsumeWeChatPayOpenIDCode(t, u) ==
    /\ ticket[t].stage = "ready" /\ ticket[t].user = u
    /\ ticket' = [ticket EXCEPT ![t].stage = "consumed"]
    /\ hand' = [hand EXCEPT ![u] = @ \cup {t}]
    /\ UNCHANGED <<vars, payer>>

(* The same request goes on to store the order, or fails: then the code is *)
(* gone.                                                                   *)
CreateJSAPIOrder(o, u, t, cents) ==
    /\ t \in hand[u]
    /\ CreateRechargeOrder(o, u, "wechat", cents)
    /\ hand' = [hand EXCEPT ![u] = @ \ {t}]
    /\ payer' = [payer EXCEPT ![o] = {t}]
    /\ UNCHANGED ticket

DropOrder(u, t) ==
    /\ t \in hand[u]
    /\ hand' = [hand EXCEPT ![u] = @ \ {t}]
    /\ UNCHANGED <<vars, ticket, payer>>

PayNext ==
    \/ Next /\ UNCHANGED <<ticket, hand, payer>>
    \/ \E t \in Tickets :
          \/ ConsumePayState(t) \/ CreateWeChatPayOpenIDCode(t) \/ LoseTicket(t)
          \/ \E u \in Users :
                \/ CreatePayState(t, u)
                \/ ConsumeWeChatPayOpenIDCode(t, u)
                \/ \E o \in Orders, c \in Amounts : CreateJSAPIOrder(o, u, t, c)
                \/ DropOrder(u, t)

PaySpec == PayInit /\ [][PayNext]_payVars /\ Fairness

-----------------------------------------------------------------------------
(* Each authorisation by WeChat, however its code is handed in again or by *)
(* whom, serves one order, of the user who asked for it.                   *)
OneOrderPerAuthorisation ==
    /\ \A o \in Orders : \A t \in payer[o] : order[o].user = ticket[t].user
    /\ \A o, q \in Orders : payer[o] \cap payer[q] # {} => o = q
=============================================================================
