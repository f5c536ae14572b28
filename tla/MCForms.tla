------------------------------ MODULE MCForms ------------------------------
(***************************************************************************)
(* The forms of the laboratory, which share the catalogue and no state,     *)
(* checked in one run: a behaviour is one of one form, which `part' names.  *)
(***************************************************************************)
EXTENDS BatchForm, MachineForm, RecipeForm

CONSTANTS t1, t2, r1, r2, e1, p1

MCTypeOf == [r \in Recipes |-> IF r = r1 THEN t1 ELSE t2]
MCRecipeLimit == [r \in Recipes |-> IF r = r1 THEN 1 ELSE 2]
MCMachineFits == [m \in Machines |-> [r \in Recipes |-> IF m = e1 THEN 1 ELSE 2]]
MCSchemaOf == [t \in Types |-> IF t = t1 THEN {p1} ELSE {}]
VARIABLE part
formsVars == <<part, batchVars, machineVars, recipeVars>>

FormsInit ==
  /\ part \in {"batch", "machine", "recipe"}
  /\ BatchInit
  /\ MachineInit /\ (part # "machine" => links = {})
  /\ RecipeInit /\ (part # "recipe" => listed = {})

FormsNext ==
  /\ UNCHANGED part
  /\ IF part = "batch" THEN BatchNext ELSE UNCHANGED batchVars
  /\ IF part = "machine" THEN MachineNext ELSE UNCHANGED machineVars
  /\ IF part = "recipe" THEN RecipeNext ELSE UNCHANGED recipeVars

FormsSpec == FormsInit /\ [][FormsNext]_formsVars
=============================================================================
