------------------------------- MODULE Totals -------------------------------
(***************************************************************************)
(* Arithmetic shared by the billing modules: the two int64 helpers of the  *)
(* store, CeilDiv, and the sum of a function over a finite set.            *)
(*                                                                         *)
(* Total(f, S) is the SUM(...) of the SQL queries.  It is defined as the   *)
(* number of pairs <<x, i>> with x in S and i in 1 .. f[x], and not by     *)
(* recursion on S, so that facts about it follow from the library's        *)
(* theorems on cardinalities (see Totals_proofs).                          *)
(***************************************************************************)
EXTENDS Integers, FiniteSets

Min2(a, b) == IF a < b THEN a ELSE b

Max2(a, b) == IF a > b THEN a ELSE b

CeilDiv(numerator, denominator) ==
    IF denominator <= 0 \/ numerator <= 0
    THEN 0
    ELSE (numerator + denominator - 1) \div denominator

Coins(f, x) == {x} \X (1 .. f[x])

Total(f, S) == Cardinality(UNION {Coins(f, x) : x \in S})
=============================================================================
