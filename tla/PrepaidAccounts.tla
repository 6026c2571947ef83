--------------------------- MODULE PrepaidAccounts ---------------------------
(***************************************************************************)
(* What the billing store promises about coins, with no entitlements,      *)
(* prices, reservations or ledgers: an account has coins that are free;    *)
(* a request sets some of them aside, and is later settled for an amount   *)
(* that its hold and the free coins cover, or voided; each of these        *)
(* happens at most once to a request.                                      *)
(***************************************************************************)
EXTENDS Integers

CONSTANTS
    Users, Keys, UserOf,
    Adjustments  \* amounts an account may be adjusted by

VARIABLES
    free,   \* coins a user may still reserve or be charged
    held,   \* coins set aside for a request
    spent,  \* coins a request was charged
    phase   \* life of a request

accounts == <<free, held, spent, phase>>

Init ==
    /\ free = [u \in Users |-> 0]
    /\ held = [k \in Keys |-> 0]
    /\ spent = [k \in Keys |-> 0]
    /\ phase = [k \in Keys |-> "none"]

Hold(k, coins) ==
    /\ phase[k] = "none"
    /\ coins <= free[UserOf[k]]
    /\ phase' = [phase EXCEPT ![k] = "authorized"]
    /\ held' = [held EXCEPT ![k] = coins]
    /\ free' = [free EXCEPT ![UserOf[k]] = @ - coins]
    /\ UNCHANGED spent

Settle(k, coins) ==
    /\ phase[k] = "authorized"
    /\ coins <= free[UserOf[k]] + held[k]
    /\ phase' = [phase EXCEPT ![k] = "committed"]
    /\ held' = [held EXCEPT ![k] = 0]
    /\ spent' = [spent EXCEPT ![k] = coins]
    /\ free' = [free EXCEPT ![UserOf[k]] = @ + held[k] - coins]

Void(k) ==
    /\ phase[k] = "authorized"
    /\ phase' = [phase EXCEPT ![k] = "cancelled"]
    /\ held' = [held EXCEPT ![k] = 0]
    /\ free' = [free EXCEPT ![UserOf[k]] = @ + held[k]]
    /\ UNCHANGED spent

(* Coins come in or are taken out; held coins are not touched.             *)
Adjust(u, coins) ==
    /\ free[u] + coins >= 0
    /\ free' = [free EXCEPT ![u] = @ + coins]
    /\ UNCHANGED <<held, spent, phase>>

Next ==
    \/ \E k \in Keys : \E coins \in 0 .. free[UserOf[k]] : Hold(k, coins)
    \/ \E k \in Keys : \E coins \in 0 .. free[UserOf[k]] + held[k] : Settle(k, coins)
    \/ \E k \in Keys : Void(k)
    \/ \E u \in Users : \E n \in Adjustments : Adjust(u, n)

Spec == Init /\ [][Next]_accounts
=============================================================================
