---------------------------- MODULE MCProposals ----------------------------
(***************************************************************************)
(* A small queue for TLC: wafers that wait for one recipe, whose batches hold *)
(* two, and a machine for one wafer beside a machine for two.  While the    *)
(* larger machine is offline, chunks overlap.                               *)
(***************************************************************************)
EXTENDS QueueProposals

CONSTANTS s1, s2, rA, e1, e2

MCRecipeOf == [s \in Samples |-> rA]
MCRank == [s \in Samples |-> IF s = s1 THEN 1 ELSE 2]
MCOneRecipe == <<rA>>
MCMaxBatchSize == [r \in Recipes |-> 2]
MCCodeOf == [e \in Equipment |-> IF e = e1 THEN 1 ELSE 2]
MCCapable == [r \in Recipes |-> Equipment]
MCCapacity == [e \in Equipment |-> IF e = e1 THEN 1 ELSE 2]
=============================================================================
