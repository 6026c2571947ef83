-------------------------- MODULE PrepaidRefinement --------------------------
(***************************************************************************)
(* The billing store implements PrepaidAccounts: the free coins are what   *)
(* the wallet has beyond its reserved coins, the hold of a request is its  *)
(* open reservation.                                                       *)
(***************************************************************************)
EXTENDS UsageBilling

Accounts == INSTANCE PrepaidAccounts
    WITH free  <- [u \in Users |-> Available(u)],
         held  <- [k \in Keys |-> reservedCoinsForUsage(k)],
         spent <- [k \in Keys |-> usage[k].chargedCoins],
         phase <- [k \in Keys |-> usage[k].status]

(* Every step of the store is a step of the prepaid accounts or leaves     *)
(* them as they are, for all the transactions of store.go and              *)
(* AdminAdjustCoins.                                                       *)
ImplementsPrepaid == Accounts!Spec
=============================================================================
