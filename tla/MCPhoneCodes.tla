---------------------------- MODULE MCPhoneCodes ----------------------------
(***************************************************************************)
(* A small instance of PhoneCodes for TLC: one phone, two handlers that    *)
(* send and one that takes codes.  Purposes only divide the rows, as       *)
(* phones do.                                                              *)
(***************************************************************************)
EXTENDS PhoneCodes, TLC

CONSTANTS p1, register, c1, c2, s1, s2, t1

(* Handlers, and the codes that may be drawn, are alike.                   *)
Interchangeable == Permutations(Senders) \cup Permutations(Codes)
=============================================================================
