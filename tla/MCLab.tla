------------------------------- MODULE MCLab -------------------------------
(***************************************************************************)
(* Small laboratories for TLC: one request with two wafers, the first of    *)
(* which needs two experiments, on two machines.                            *)
(***************************************************************************)
EXTENDS LabViews, TLC

CONSTANTS r1, s1, s2, x11, x12, x21, rcpA, rcpB

MCRequestOf == [s \in Samples |-> r1]
MCSampleOf  == [x \in Experiments |-> IF x = x21 THEN s2 ELSE s1]
MCSeqNo     == [x \in Experiments |-> IF x = x12 THEN 2 ELSE 1]
MCRecipeOf  == [x \in Experiments |-> IF x = x12 THEN rcpB ELSE rcpA]
MCCapable   == [r \in Recipes |-> Equipment]

Identifiers == Permutations(Wips) \cup Permutations(Jobs) \cup Permutations(Equipment)
=============================================================================
