------------------------------ MODULE MCSignIn ------------------------------
(***************************************************************************)
(* A small instance of SignIn for TLC: one person with two openids, of the *)
(* website and the official account, which share a unionid, one user who   *)
(* registered by phone, and the account the person's WeChat creates.       *)
(***************************************************************************)
EXTENDS SignIn

CONSTANTS alice, wx, web, official, union, s1, s2, l1, c1, c2

OneUnion == [i \in Identities |-> union]
OneAccount == [i \in Identities |-> wx]
=============================================================================
