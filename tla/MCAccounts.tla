----------------------------- MODULE MCAccounts -----------------------------
(***************************************************************************)
(* A small instance of Accounts for TLC: two users, two phones, and        *)
(* handlers that register or bind at the same time.                        *)
(***************************************************************************)
EXTENDS Accounts

CONSTANTS alice, bob, p1, p2, h1, h2
=============================================================================
