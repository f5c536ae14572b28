----------------------------- MODULE MCSession -----------------------------
(***************************************************************************)
(* One tab for TLC: the accounts are interchangeable.                       *)
(***************************************************************************)
EXTENDS ClientSession, TLC

Accounts == Permutations(Users)
=============================================================================
