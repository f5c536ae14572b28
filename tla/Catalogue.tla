------------------------------ MODULE Catalogue ------------------------------
(***************************************************************************)
(* What the forms of the laboratory choose from.                            *)
(***************************************************************************)
EXTENDS ClientValues, Naturals, FiniteSetsExt

CONSTANTS
  Types,     \* the experiment types
  Recipes,   \* the active recipes
  TypeOf     \* the experiment type of each recipe

ASSUME CatalogueAssumption ==
  TypeOf \in [Recipes -> Types] /\ None \notin Recipes \cup Types /\ Recipes \cap Types = {}
=============================================================================
