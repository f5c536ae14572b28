------------------------------ MODULE RecipeForm ------------------------------
(***************************************************************************)
(* The manager's form that makes and edits recipes.  It is mounted all the  *)
(* time and one effect resets it when it opens; its parameters are fields   *)
(* when the name of the experiment type is one it knows, a JSON text        *)
(* otherwise, and both are kept side by side.  It opens from the rows of    *)
(* the page, which may be older than what the server holds.                 *)
(* A parameter's value is reduced to where it comes from: the recipe that   *)
(* had it at first, the keyboard, or a field that nobody filled in.         *)
(***************************************************************************)
EXTENDS Catalogue, TLC

CONSTANTS
  Params,    \* the parameters
  SchemaOf,  \* RECIPE_PARAM_SCHEMA: the fields of each type, {} for one it does not know
  MaxCalls   \* bound on the calls of the form under way

ASSUME RecipeFormAssumption ==
  /\ SchemaOf \in [Types -> SUBSET Params] /\ MaxCalls \in Nat
  /\ {"typed", "empty"} \cap Recipes = {}

\* null is no recipe of the server's.
ASSUME RecipeRowAssumption ==
  None \notin [type : Types, params : UNION {[S -> Recipes \cup {"typed", "empty"}] : S \in SUBSET Params},
               active : BOOLEAN]

VARIABLES
  book,         \* the recipes of the server; None: an id that is not given yet
  rows,         \* the rows of the page
  listed,       \* the experiment types of the server
  known,        \* those the form has fetched
  recipeForm,
  recipeCalls   \* the form's calls under way

recipeVars == <<book, rows, listed, known, recipeForm, recipeCalls>>

Calls == 1..MaxCalls
NoParams == [k \in {} |-> "empty"]
ClosedRecipeForm ==
  [open |-> FALSE, editing |-> None, type |-> None, kv |-> NoParams, json |-> NoParams,
   busy |-> FALSE]
NoCall == [phase |-> "idle", of |-> None, type |-> None, params |-> NoParams]

Stored(r) == {[type |-> TypeOf[r], params |-> [k \in S |-> r], active |-> TRUE] : S \in SUBSET Params}

RecipeInit ==
  /\ book \in {b \in [Recipes -> {None} \cup UNION {Stored(r) : r \in Recipes}] :
                 \A r \in Recipes : b[r] \in Stored(r) \cup {None}}
  /\ rows = [r \in Recipes |-> None]
  /\ listed \in {T \in SUBSET Types : \A r \in Recipes : book[r] # None => TypeOf[r] \in T}
  /\ known = {}
  /\ recipeForm = ClosedRecipeForm
  /\ recipeCalls = [c \in Calls |-> NoCall]

-----------------------------------------------------------------------------
\* The type whose fields show: that of the recipe, or the chosen one once its name is there.
schema(f, types) ==
  CASE f.editing # None -> SchemaOf[book[f.editing].type]
    [] f.editing = None /\ f.type \in types -> SchemaOf[f.type]
    [] OTHER -> {}

\* The effect that gives every field of the schema a value.
WithFields(f, types) ==
  [f EXCEPT !.kv = [k \in DOMAIN f.kv \cup schema(f, types) |->
                      IF k \in DOMAIN f.kv THEN f.kv[k] ELSE "empty"]]

firstType(types) == IF types = {} THEN None ELSE CHOOSE t \in types : TRUE
\* The effect that chooses the first type once there is one.
WithType(f, types) ==
  IF f.open /\ f.editing = None /\ f.type = None THEN [f EXCEPT !.type = firstType(types)] ELSE f

\* The row of a recipe: a removed one is not listed.
recipeRow(r) == IF book[r] # None /\ book[r].active THEN book[r] ELSE None

\* The page fetches its rows: when it is mounted, after a save, after a removal.
RowsArrive ==
  /\ rows' = [r \in Recipes |-> recipeRow(r)]
  /\ UNCHANGED <<book, listed, known, recipeForm, recipeCalls>>

\* refreshExperimentTypes; nothing waits for it.
TypesArrive ==
  /\ known' = listed
  /\ recipeForm' = IF recipeForm.open THEN WithFields(WithType(recipeForm, listed), listed)
                                      ELSE recipeForm
  /\ UNCHANGED <<book, rows, listed, recipeCalls>>

OpenNew ==
  /\ ~recipeForm.open
  /\ recipeForm' = WithFields([ClosedRecipeForm EXCEPT !.open = TRUE, !.type = firstType(known)], known)
  /\ UNCHANGED <<book, rows, listed, known, recipeCalls>>

\* Defect variant: the fields are filled in over those of the opening before.
OpenRecipeOver(r) ==
  /\ ~recipeForm.open /\ rows[r] # None
  /\ recipeForm' = WithFields([ClosedRecipeForm EXCEPT
       !.open = TRUE, !.editing = r, !.type = rows[r].type, !.json = rows[r].params,
       !.kv = rows[r].params @@ recipeForm.kv], known)
  /\ UNCHANGED <<book, rows, listed, known, recipeCalls>>

OpenRecipe(r) ==
  /\ ~recipeForm.open /\ rows[r] # None
  /\ recipeForm' = WithFields([ClosedRecipeForm EXCEPT
       !.open = TRUE, !.editing = r, !.type = rows[r].type, !.json = rows[r].params,
       !.kv = rows[r].params], known)
  /\ UNCHANGED <<book, rows, listed, known, recipeCalls>>

\* closeModal: the fields stay until the effect of the next opening.
CloseRecipe(f) == [f EXCEPT !.open = FALSE, !.editing = None]
Dismiss ==
  /\ recipeForm.open
  /\ recipeForm' = CloseRecipe(recipeForm)
  /\ UNCHANGED <<book, rows, listed, known, recipeCalls>>

\* The type of a recipe that exists is locked.
PickRecipeType(t) ==
  /\ recipeForm.open /\ recipeForm.editing = None /\ t \in known \ {recipeForm.type}
  /\ recipeForm' = WithFields([recipeForm EXCEPT !.type = t], known)
  /\ UNCHANGED <<book, rows, listed, known, recipeCalls>>

TypeField(k) ==
  /\ recipeForm.open /\ k \in schema(recipeForm, known)
  /\ recipeForm' = [recipeForm EXCEPT !.kv[k] = "typed"]
  /\ UNCHANGED <<book, rows, listed, known, recipeCalls>>

\* The JSON text: a parameter is typed, or deleted.
TypeJson(k) ==
  /\ recipeForm.open /\ schema(recipeForm, known) = {}
  /\ LET json == recipeForm.json
     IN  recipeForm' = [recipeForm EXCEPT !.json =
           IF k \in DOMAIN json THEN [j \in DOMAIN json \ {k} |-> json[j]]
                                ELSE [j \in DOMAIN json \cup {k} |-> IF j = k THEN "typed" ELSE json[j]]]
  /\ UNCHANGED <<book, rows, listed, known, recipeCalls>>

Payload(f) ==
  LET fields == schema(f, known)
  IN  IF fields = {} THEN f.json
      ELSE [k \in fields |-> IF k \in DOMAIN f.kv THEN f.kv[k] ELSE "empty"]

\* The call of a save: an update never names a type.
recipeRequest(f) ==
  IF f.editing = None
    THEN [phase |-> "create", of |-> None, type |-> f.type, params |-> Payload(f)]
    ELSE [phase |-> "update", of |-> f.editing, type |-> None, params |-> Payload(f)]

submitRecipe(c) ==
  /\ recipeForm.open /\ ~recipeForm.busy /\ recipeCalls[c] = NoCall
  /\ recipeForm.editing # None \/ recipeForm.type # None
  /\ recipeForm' = [recipeForm EXCEPT !.busy = TRUE]
  /\ recipeCalls' = [recipeCalls EXCEPT ![c] = recipeRequest(recipeForm)]
  /\ UNCHANGED <<book, rows, listed, known>>

\* create_recipe, after the client looked for an equipment type to name; update_recipe, which
\* knows removed recipes too.
CreateRecipe(c, r) ==
  /\ recipeCalls[c].phase = "create" /\ book[r] = None
  /\ book' = [book EXCEPT ![r] = [type |-> recipeCalls[c].type, params |-> recipeCalls[c].params,
                                  active |-> TRUE]]
  /\ recipeCalls' = [recipeCalls EXCEPT ![c].phase = "done"]
  /\ UNCHANGED <<rows, listed, known, recipeForm>>
UpdateRecipe(c) ==
  /\ recipeCalls[c].phase = "update"
  /\ book' = [book EXCEPT ![recipeCalls[c].of].params = recipeCalls[c].params]
  /\ recipeCalls' = [recipeCalls EXCEPT ![c].phase = "done"]
  /\ UNCHANGED <<rows, listed, known, recipeForm>>

\* A save may fail, or its answer be lost after it was served.
CallFails(c) ==
  /\ recipeCalls[c].phase \in {"create", "update", "done"}
  /\ recipeCalls' = [recipeCalls EXCEPT ![c].phase = "failed"]
  /\ UNCHANGED <<book, rows, listed, known, recipeForm>>

\* The answer to a save: onSaved closes the form that is open by now.
SaveAnswered(c) ==
  /\ recipeCalls[c].phase \in {"done", "failed"}
  /\ recipeForm' = [IF recipeCalls[c].phase = "done" THEN CloseRecipe(recipeForm) ELSE recipeForm
                    EXCEPT !.busy = FALSE]
  /\ recipeCalls' = [recipeCalls EXCEPT ![c] = NoCall]
  /\ UNCHANGED <<book, rows, listed, known>>

\* `Add Type' looks at no mark; its answer chooses the new type in the form that is open by
\* now, before the list with its name has come.
AddType(c, t) ==
  /\ recipeForm.open /\ recipeForm.editing = None /\ recipeCalls[c] = NoCall
  /\ recipeCalls' = [recipeCalls EXCEPT ![c] = [NoCall EXCEPT !.phase = "type", !.type = t]]
  /\ UNCHANGED <<book, rows, listed, known, recipeForm>>
TypeAnswered(c) ==
  /\ recipeCalls[c].phase = "type"
  /\ recipeCalls' = [recipeCalls EXCEPT ![c] = NoCall]
  /\ \/ /\ recipeCalls[c].type \notin listed
        /\ listed' = listed \cup {recipeCalls[c].type}
        /\ recipeForm' \in {recipeForm, [recipeForm EXCEPT !.type = recipeCalls[c].type]}
     \/ UNCHANGED <<listed, recipeForm>>
  /\ UNCHANGED <<book, rows, known>>

\* onDelete and delete_recipe: the recipe is kept, and no longer listed.
RemoveRecipe(r) ==
  /\ ~recipeForm.open /\ rows[r] # None
  /\ book' = [book EXCEPT ![r].active = FALSE]
  /\ UNCHANGED <<rows, listed, known, recipeForm, recipeCalls>>

RecipeNext ==
  \/ RowsArrive \/ TypesArrive \/ OpenNew \/ Dismiss
  \/ \E r \in Recipes : OpenRecipe(r) \/ RemoveRecipe(r)
  \/ \E t \in Types : PickRecipeType(t)
  \/ \E k \in Params : TypeField(k) \/ TypeJson(k)
  \/ \E c \in Calls : \/ submitRecipe(c) \/ UpdateRecipe(c) \/ CallFails(c) \/ SaveAnswered(c)
                      \/ TypeAnswered(c) \/ \E t \in Types : AddType(c, t)
                      \/ \E r \in Recipes : CreateRecipe(c, r)
RecipeSpec == RecipeInit /\ [][RecipeNext]_recipeVars
-----------------------------------------------------------------------------
(* Properties                                                               *)

\* However often the form is opened, closed under a save, opened for another recipe, given
\* another type, and however late rows, types and answers come: a recipe holds only its own
\* parameters, those typed for it and empty fields, never those of the recipe that was edited
\* before; and what an edit sends has the fields of the recipe's type and no others.
ParametersStayWithTheirRecipe ==
  /\ \A r \in Recipes : book[r] # None =>
       \A k \in DOMAIN book[r].params : book[r].params[k] \in {r, "typed", "empty"}
  /\ \A c \in Calls : recipeCalls[c].phase = "update" =>
       LET fields == SchemaOf[book[recipeCalls[c].of].type]
       IN  fields # {} => DOMAIN recipeCalls[c].params = fields
=============================================================================
