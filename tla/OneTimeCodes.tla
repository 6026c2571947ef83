---------------------------- MODULE OneTimeCodes ----------------------------
(***************************************************************************)
(* What a store of one-time codes promises, whatever they are for: a code  *)
(* that was issued is used at most once, and not at all once MaxMisses     *)
(* wrong answers were given beyond the excused ones, which the store could *)
(* not write down.  PhoneCodes implements it.                              *)
(***************************************************************************)
EXTENDS Naturals

CONSTANTS
    Ids,        \* codes, by the order or the name they are issued under
    MaxMisses   \* wrong answers a code survives, and one more

VARIABLES
    stage,      \* "none", "issued" or "used"
    misses,     \* wrong answers given while the code was the one to give
    excused     \* those of them that the store could not write down

TypeOK ==
    /\ stage \in [Ids -> {"none", "issued", "used"}]
    /\ {misses, excused} \subseteq [Ids -> Nat]
    /\ \A i \in Ids : misses[i] <= MaxMisses + excused[i]

Init ==
    /\ stage = [i \in Ids |-> "none"]
    /\ misses = [i \in Ids |-> 0]
    /\ excused = [i \in Ids |-> 0]

Issue(i) ==
    /\ stage[i] = "none"
    /\ stage' = [stage EXCEPT ![i] = "issued"]
    /\ UNCHANGED <<misses, excused>>

Open(i) == stage[i] = "issued" /\ misses[i] < MaxMisses + excused[i]

Miss(i) ==
    /\ Open(i)
    /\ misses' = [misses EXCEPT ![i] = @ + 1]
    /\ excused' = excused \/ excused' = [excused EXCEPT ![i] = @ + 1]
    /\ UNCHANGED stage

Use(i) ==
    /\ Open(i)
    /\ stage' = [stage EXCEPT ![i] = "used"]
    /\ UNCHANGED <<misses, excused>>

Next == \E i \in Ids : Issue(i) \/ Miss(i) \/ Use(i)

Spec == Init /\ [][Next]_<<stage, misses, excused>>
=============================================================================
