--------------------------- MODULE MCUsageBilling ---------------------------
(***************************************************************************)
(* Small instances of UsageBilling for TLC.  The functions and sets that a *)
(* .cfg cannot write are definitions here; each run chooses among them.    *)
(***************************************************************************)
EXTENDS PrepaidRefinement

CONSTANTS a1, a2, u1, u2, k1, k2, k3, k4, p1, p2

OneUser == [k \in Keys |-> u1]
OneApp == [k \in Keys |-> a1]

(* The third request comes from another app, the fourth from another user. *)
LastOfOther == [k \in Keys |-> IF k = k4 THEN u2 ELSE u1]
ThirdElsewhere == [k \in Keys |-> IF k = k3 THEN a2 ELSE a1]

PlansOfOneApp == [p \in Plans |-> a1]

SubsOfOneUser == [s \in Subs |-> u1]
SubsOfOnePlan == [s \in Subs |-> p1]

PairDemands == {d \in [Units -> 0 .. 2] : d[1] + d[2] \in 1 .. 2 /\ d[2] # 2}
BothOrTwo == {[x \in Units |-> 1], [x \in Units |-> IF x = 1 THEN 2 ELSE 0]}

CheapAndDear == {[coin |-> 1, per |-> 2], [coin |-> 2, per |-> 1]}
TopUpAndTakeOut == {-1, 3}
=============================================================================
