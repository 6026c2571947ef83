----------------------------- MODULE MCRecharge -----------------------------
(***************************************************************************)
(* A small instance of WeChatPay and Recharge for TLC: two orders, up to   *)
(* three reports of them, and one authorisation to pay inside WeChat.      *)
(***************************************************************************)
EXTENDS WeChatPay

CONSTANTS u1, u2, o1, o2, e1, e2, e3, t1

TwoOfFirst == [e \in Events |-> IF e = e3 THEN o2 ELSE o1]
=============================================================================
