------------------------------ MODULE BatchForm ------------------------------
(***************************************************************************)
(* The form that creates a batch: an experiment type, one of its recipes,   *)
(* and wafers whose requests need the type.  Choosing a type runs two       *)
(* effects, one trims the wafers and one resets the recipe; choosing a      *)
(* recipe runs none.  What the form knows was fetched when it opened.       *)
(***************************************************************************)
EXTENDS Catalogue

CONSTANTS
  Wafers,        \* the received wafers that are in no batch
  Machines,      \* the equipment
  RecipeLimit,   \* max_batch_size of each recipe
  MachineFits    \* the capacity of each machine for each recipe, 0 if it cannot run it

ASSUME BatchFormAssumption ==
  RecipeLimit \in [Recipes -> Nat] /\ MachineFits \in [Machines -> [Recipes -> Nat]]

VARIABLES
  needs,  \* requestExpMap: the types the request of each wafer needs, {} if its fetch failed
  form,   \* the form's fields
  sent    \* the batch that this opening of the form sent last

batchVars == <<needs, form, sent>>

EmptyForm == [phase |-> "loading", type |-> None, recipe |-> None, selected |-> {}, busy |-> FALSE]

BatchInit ==
  /\ needs = [w \in Wafers |-> {}]
  /\ form = EmptyForm
  /\ sent = None

-----------------------------------------------------------------------------
eligibleSamples(t) == {w \in Wafers : t \in needs[w]}
availableRecipes(t) == {r \in Recipes : TypeOf[r] = t}
firstRecipe(t) ==
  IF availableRecipes(t) = {} THEN None ELSE CHOOSE r \in availableRecipes(t) : TRUE

\* The largest machine that runs the recipe, and no more than the recipe allows; none at all
\* while no machine runs it.
maxBatch(r) ==
  LET equipmentCap == Max({0} \cup {MachineFits[m][r] : m \in Machines})
  IN  IF r = None THEN 0
      ELSE IF RecipeLimit[r] = 0 THEN equipmentCap ELSE Min({RecipeLimit[r], equipmentCap})

\* Opening the form starts its fetch; it ends with the lists, or with an error and none.
OpenBatchForm == form' = EmptyForm /\ sent' = None /\ UNCHANGED needs
LoadBatchForm ==
  /\ form.phase = "loading" /\ UNCHANGED sent
  /\ \/ form' = [form EXCEPT !.phase = "loaded"] /\ needs' \in [Wafers -> SUBSET Types]
     \/ form' = [form EXCEPT !.phase = "failed"] /\ needs' = [w \in Wafers |-> {}]

\* Defect variant: the wafers that were picked for another type stay picked.
PickTypeOnly(t) ==
  /\ form.phase = "loaded" /\ t # form.type
  /\ form' = [form EXCEPT !.type = t, !.recipe = firstRecipe(t)]
  /\ UNCHANGED <<needs, sent>>

\* The select and the two effects, which run before the next click.
PickType(t) ==
  /\ form.phase = "loaded" /\ t # form.type
  /\ form' = [form EXCEPT !.type = t, !.selected = @ \cap eligibleSamples(t),
                          !.recipe = firstRecipe(t)]
  /\ UNCHANGED <<needs, sent>>

PickRecipe(r) ==
  /\ form.type # None /\ r \in availableRecipes(form.type) \cup {None} /\ r # form.recipe
  /\ form' = [form EXCEPT !.recipe = r]
  /\ UNCHANGED <<needs, sent>>

\* The wafers show once there is a recipe; a box is grey at the cap, unless it is ticked.
ShowsWafers == form.recipe # None /\ maxBatch(form.recipe) > 0
toggleSample(w) ==
  /\ ShowsWafers /\ w \in eligibleSamples(form.type)
  /\ \/ w \in form.selected /\ form' = [form EXCEPT !.selected = @ \ {w}]
     \/ /\ w \notin form.selected /\ Cardinality(form.selected) < maxBatch(form.recipe)
        /\ form' = [form EXCEPT !.selected = @ \cup {w}]
  /\ UNCHANGED <<needs, sent>>

\* The first eligible wafers, in the order of the list.
selectBatch ==
  /\ ShowsWafers
  /\ LET eligible == eligibleSamples(form.type)
     IN  /\ eligible # {}
         /\ \E S \in kSubset(Min({maxBatch(form.recipe), Cardinality(eligible)}), eligible) :
              form' = [form EXCEPT !.selected = S]
  /\ UNCHANGED <<needs, sent>>

\* The fields stay open while the call is under way; its answer clears `busy', and a success
\* closes the form.
submitBatch ==
  /\ form.recipe # None /\ form.selected # {} /\ ~form.busy
  /\ form' = [form EXCEPT !.busy = TRUE]
  /\ sent' = [recipe |-> form.recipe, wafers |-> form.selected]
  /\ UNCHANGED needs
BatchRefused == form.busy /\ form' = [form EXCEPT !.busy = FALSE] /\ UNCHANGED <<needs, sent>>

BatchNext ==
  \/ OpenBatchForm \/ LoadBatchForm \/ selectBatch \/ submitBatch \/ BatchRefused
  \/ \E t \in Types \cup {None} : PickType(t)
  \/ \E r \in Recipes \cup {None} : PickRecipe(r)
  \/ \E w \in Wafers : toggleSample(w)
BatchSpec == BatchInit /\ [][BatchNext]_batchVars

-----------------------------------------------------------------------------
(* Properties                                                               *)

\* However often the type, the recipe and the wafers were chosen anew, before the call or
\* while it was under way: every wafer of the batch that is sent needs the experiment of its
\* recipe.  (How many wafers it has is not bounded: a recipe that is chosen after the wafers,
\* and allows fewer, does not trim them.)
BatchMatchesItsRecipe ==
  sent # None => \A w \in sent.wafers : TypeOf[sent.recipe] \in needs[w]
=============================================================================
