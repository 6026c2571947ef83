------------------------------ MODULE MCGateway ------------------------------
(***************************************************************************)
(* Small instances of Gateway for TLC: one user and app, three handlers    *)
(* that share a key.                                                       *)
(***************************************************************************)
EXTENDS Gateway

CONSTANTS a1, u1, k1, p1, h1, h2, h3

OneUser == [k \in Keys |-> u1]
OneApp == [k \in Keys |-> a1]
PlansOfOneApp == [p \in Plans |-> a1]
SubsOfOneUser == [s \in Subs |-> u1]
SubsOfOnePlan == [s \in Subs |-> p1]

OneOrTwo == {[x \in Units |-> n] : n \in {1, 2}}
AtMostOne == {[x \in Units |-> 1]}
One == [h \in Handlers |-> [x \in Units |-> 1]]
OnePrice == {[coin |-> 1, per |-> 1]}

SameKey == [h \in Handlers |-> k1]

AllKinds == [h \in Handlers |->
                IF h = h1 THEN "call" ELSE IF h = h2 THEN "stream" ELSE "charge"]
=============================================================================
