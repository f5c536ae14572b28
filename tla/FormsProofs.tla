---------------------------- MODULE FormsProofs ----------------------------
(***************************************************************************)
(* Proofs about the forms that create a batch, that edit a machine and that *)
(* make and edit a recipe, for every catalogue, any number of wafers,       *)
(* machines, parameters, managers and saves.                                *)
(***************************************************************************)
EXTENDS BatchForm, MachineForm, RecipeForm, TLAPS

-----------------------------------------------------------------------------
(* The form of a batch                                                      *)

BatchFormType ==
  [phase : {"loading", "loaded", "failed"}, type : Types \cup {None},
   recipe : Recipes \cup {None}, selected : SUBSET Wafers, busy : BOOLEAN]
SentType == [recipe : Recipes, wafers : SUBSET Wafers]

\* The form's fields agree at any time, not only when they are sent; and nothing was sent
\* before the needs of the wafers are known, which the form learns once.
BatchInv ==
  /\ needs \in [Wafers -> SUBSET Types]
  /\ form \in BatchFormType
  /\ sent \in SentType \cup {None}
  /\ form.recipe # None => TypeOf[form.recipe] = form.type
  /\ form.selected \subseteq eligibleSamples(form.type)
  /\ form.phase = "loading" =>
       form.type = None /\ form.recipe = None /\ form.selected = {} /\ sent = None
  /\ BatchMatchesItsRecipe

LEMMA FirstRecipeOfType ==
  ASSUME NEW t
  PROVE  firstRecipe(t) # None => firstRecipe(t) \in Recipes /\ TypeOf[firstRecipe(t)] = t
BY DEF firstRecipe, availableRecipes

LEMMA BatchInvInit == BatchInit => BatchInv
BY DEF BatchInit, BatchInv, EmptyForm, BatchFormType, eligibleSamples, BatchMatchesItsRecipe

LEMMA BatchInvStep == BatchInv /\ [BatchNext]_batchVars => BatchInv'
<1> SUFFICES ASSUME BatchInv, [BatchNext]_batchVars PROVE BatchInv'
  OBVIOUS
<1> USE DEF BatchInv, BatchFormType
<1>1. CASE OpenBatchForm
  BY <1>1 DEF OpenBatchForm, EmptyForm, eligibleSamples, BatchMatchesItsRecipe
<1>2. CASE LoadBatchForm
  BY <1>2 DEF LoadBatchForm, eligibleSamples, BatchMatchesItsRecipe
<1>3. ASSUME NEW t \in Types \cup {None}, PickType(t) PROVE BatchInv'
  BY <1>3, FirstRecipeOfType DEF PickType, eligibleSamples, BatchMatchesItsRecipe
<1>4. ASSUME NEW r \in Recipes \cup {None}, PickRecipe(r) PROVE BatchInv'
  BY <1>4 DEF PickRecipe, availableRecipes, eligibleSamples, BatchMatchesItsRecipe
<1>5. ASSUME NEW w \in Wafers, toggleSample(w) PROVE BatchInv'
  BY <1>5 DEF toggleSample, ShowsWafers, eligibleSamples, BatchMatchesItsRecipe
<1>6. CASE selectBatch
  <2>1. PICK S \in SUBSET eligibleSamples(form.type) : form' = [form EXCEPT !.selected = S]
    BY <1>6 DEF selectBatch, kSubset
  <2> QED
    BY <1>6, <2>1 DEF selectBatch, ShowsWafers, eligibleSamples, BatchMatchesItsRecipe
<1>7. CASE submitBatch
  \* What is sent is what the form holds: its wafers need the type of its recipe.
  <2>1. sent' \in SentType /\ \A w \in sent'.wafers : TypeOf[sent'.recipe] \in needs[w]
    BY <1>7 DEF submitBatch, SentType, eligibleSamples
  <2> QED
    BY <1>7, <2>1 DEF submitBatch, eligibleSamples, BatchMatchesItsRecipe
<1>8. CASE BatchRefused
  BY <1>8 DEF BatchRefused, eligibleSamples, BatchMatchesItsRecipe
<1>9. CASE UNCHANGED batchVars
  BY <1>9 DEF batchVars, eligibleSamples, BatchMatchesItsRecipe
<1> QED
  BY <1>1, <1>2, <1>3, <1>4, <1>5, <1>6, <1>7, <1>8, <1>9 DEF BatchNext

\* Every batch that the form sends is of wafers that need its experiment, in whatever order
\* the fields were chosen and chosen anew (WipCreationModalInner).
THEOREM BatchesMatchTheirRecipes == BatchSpec => []BatchMatchesItsRecipe
<1>1. BatchInv => BatchMatchesItsRecipe
  BY DEF BatchInv
<1> QED
  BY <1>1, BatchInvInit, BatchInvStep, PTL DEF BatchSpec
-----------------------------------------------------------------------------
(* The form of a machine                                                    *)

MachineFormType ==
  [open : BOOLEAN, initial : SUBSET Recipes, capIds : SUBSET (Recipes \cup Types),
   ticked : SUBSET Types, busy : BOOLEAN]
SaveType ==
  [phase : {"idle", "patch", "list", "replace", "link"}, by : Managers \cup {None},
   changed : BOOLEAN, types : SUBSET Types, recipeIds : SUBSET Recipes, ticked : SUBSET Types]

\* The list that the form edits is what it opened with and the ticks: it differs from the
\* former only if something is ticked.
FormHoldsItsTicks(f) == f.capIds = f.initial \cup f.ticked

\* A save that will replace the links was made with a tick, and knows recipes of ticked types
\* only.
SaveFollowsItsTicks(s) ==
  /\ s.types = s.ticked
  /\ s.recipeIds \subseteq recipeIdsFor(s.ticked)
  /\ s.phase \in {"list", "replace", "link"} => s.ticked # {}
  /\ s.phase = "patch" /\ s.changed => s.ticked # {}
  /\ s.phase # "idle" => s.by \in Managers

MachineInv ==
  /\ links \subseteq Recipes
  /\ cards \in [Managers -> SUBSET Recipes]
  /\ forms \in [Managers -> MachineFormType]
  /\ saves \in [Saves -> SaveType]
  /\ \A m \in Managers : FormHoldsItsTicks(forms[m])
  /\ \A c \in Saves : SaveFollowsItsTicks(saves[c])

LEMMA MachineInvInit == MachineInit => MachineInv
<1> SUFFICES ASSUME MachineInit PROVE MachineInv
  OBVIOUS
<1>1. forms \in [Managers -> MachineFormType] /\ \A m \in Managers : FormHoldsItsTicks(forms[m])
  BY DEF MachineInit, ClosedForm, MachineFormType, FormHoldsItsTicks
<1>2. NoSave \in SaveType /\ SaveFollowsItsTicks(NoSave)
  BY DEF NoSave, SaveType, SaveFollowsItsTicks
<1>3. saves \in [Saves -> SaveType] /\ \A c \in Saves : SaveFollowsItsTicks(saves[c])
  BY <1>2 DEF MachineInit
<1> QED
  BY <1>1, <1>3 DEF MachineInit, MachineInv

\* Opening, closing and greying a form leaves its list and its ticks alone.
LEMMA FormsUpdated ==
  ASSUME NEW F \in [Managers -> MachineFormType], \A n \in Managers : FormHoldsItsTicks(F[n]),
         NEW m \in Managers, NEW v \in BOOLEAN
  PROVE  LET opened == [F EXCEPT ![m].open = v]
             greyed == [F EXCEPT ![m].busy = v]
         IN  /\ opened \in [Managers -> MachineFormType]
             /\ \A n \in Managers : FormHoldsItsTicks(opened[n])
             /\ greyed \in [Managers -> MachineFormType]
             /\ \A n \in Managers : FormHoldsItsTicks(greyed[n])
<1>1. ASSUME NEW f \in MachineFormType, FormHoldsItsTicks(f)
      PROVE  /\ [f EXCEPT !.open = v] \in MachineFormType
             /\ FormHoldsItsTicks([f EXCEPT !.open = v])
             /\ [f EXCEPT !.busy = v] \in MachineFormType
             /\ FormHoldsItsTicks([f EXCEPT !.busy = v])
  BY <1>1 DEF MachineFormType, FormHoldsItsTicks
<1>2. /\ [F[m] EXCEPT !.open = v] \in MachineFormType
      /\ FormHoldsItsTicks([F[m] EXCEPT !.open = v])
      /\ [F[m] EXCEPT !.busy = v] \in MachineFormType
      /\ FormHoldsItsTicks([F[m] EXCEPT !.busy = v])
  BY <1>1
<1> QED
  BY <1>2

\* The end of a save, however it ends.
LEMMA SavedKeepsInv ==
  ASSUME MachineInv, NEW c \in Saves, saves[c].phase # "idle", Saved(c), links' \subseteq Recipes,
         cards' = cards
  PROVE  MachineInv'
<1>1. saves[c].by \in Managers
  BY DEF MachineInv, SaveFollowsItsTicks
<1>2. NoSave \in SaveType /\ SaveFollowsItsTicks(NoSave)
  BY DEF NoSave, SaveType, SaveFollowsItsTicks
<1>3. /\ saves' \in [Saves -> SaveType]
      /\ \A d \in Saves : SaveFollowsItsTicks(saves'[d])
  BY <1>2 DEF MachineInv, Saved
<1>4. /\ forms' \in [Managers -> MachineFormType]
      /\ \A m \in Managers : FormHoldsItsTicks(forms'[m])
  <2> DEFINE closed == [forms EXCEPT ![saves[c].by].open = FALSE]
  <2>1. /\ closed \in [Managers -> MachineFormType]
        /\ \A m \in Managers : FormHoldsItsTicks(closed[m])
    BY <1>1, FormsUpdated DEF MachineInv
  <2>2. forms' = [closed EXCEPT ![saves[c].by].busy = FALSE]
    BY DEF Saved
  <2> HIDE DEF closed
  <2> QED
    BY <1>1, <2>1, <2>2, FormsUpdated
<1> QED
  BY <1>3, <1>4 DEF MachineInv, SaveFollowsItsTicks, FormHoldsItsTicks, recipeIdsFor

LEMMA MachineInvStep == MachineInv /\ [MachineNext]_machineVars => MachineInv'
<1> SUFFICES ASSUME MachineInv, [MachineNext]_machineVars PROVE MachineInv'
  OBVIOUS
<1> USE DEF MachineInv
<1>1. ASSUME NEW m \in Managers, OpenEdit(m) PROVE MachineInv'
  BY <1>1 DEF OpenEdit, MachineFormType, FormHoldsItsTicks, SaveFollowsItsTicks,
              recipeIdsFor
<1>1a. ASSUME NEW m \in Managers, CardArrives(m) PROVE MachineInv'
  BY <1>1a DEF CardArrives, machineCard, FormHoldsItsTicks, SaveFollowsItsTicks, recipeIdsFor
<1>2. ASSUME NEW m \in Managers, CloseEdit(m) PROVE MachineInv'
  BY <1>2 DEF CloseEdit, MachineFormType, FormHoldsItsTicks, SaveFollowsItsTicks, recipeIdsFor
<1>3. ASSUME NEW m \in Managers, NEW t \in Types, toggleCap(m, t) PROVE MachineInv'
  \* No type is a recipe: the tick is in the list exactly if it is among the ticks.
  <2>1. Flip(forms[m].capIds, t) = forms[m].initial \cup Flip(forms[m].ticked, t)
    BY CatalogueAssumption DEF Flip, FormHoldsItsTicks, MachineFormType
  <2>2. Flip(forms[m].ticked, t) \in SUBSET Types /\ Flip(forms[m].capIds, t) \in SUBSET (Recipes \cup Types)
    BY DEF Flip, MachineFormType
  <2>3. /\ forms' \in [Managers -> MachineFormType]
        /\ \A n \in Managers : FormHoldsItsTicks(forms'[n])
    BY <1>3, <2>1, <2>2 DEF toggleCap, MachineFormType, FormHoldsItsTicks
  <2> QED
    BY <1>3, <2>3 DEF toggleCap, FormHoldsItsTicks, SaveFollowsItsTicks, recipeIdsFor
<1>4. ASSUME NEW m \in Managers, NEW c \in Saves, submitMachine(m, c) PROVE MachineInv'
  <2> DEFINE f == forms[m]
             s == [phase |-> "patch", by |-> m, changed |-> capsChanged(f),
                   types |-> f.capIds \cap Types, recipeIds |-> {}, ticked |-> f.ticked]
  <2>0. /\ f.initial \in SUBSET Recipes /\ f.ticked \in SUBSET Types
        /\ f.capIds = f.initial \cup f.ticked
    BY DEF MachineFormType, FormHoldsItsTicks
  <2>1. s \in SaveType
    BY <2>0 DEF SaveType, capsChanged
  \* The list differs from the initial one only by the ticks.
  <2>2. SaveFollowsItsTicks(s)
    <3>1. f.capIds \cap Types = f.ticked
      BY <2>0, CatalogueAssumption
    <3>2. capsChanged(f) => f.ticked # {}
      BY <2>0 DEF capsChanged
    <3> QED
      BY <3>1, <3>2 DEF SaveFollowsItsTicks
  <2>3. /\ saves' \in [Saves -> SaveType]
        /\ \A d \in Saves : SaveFollowsItsTicks(saves'[d])
    <3>1. saves' = [saves EXCEPT ![c] = s]
      BY <1>4 DEF submitMachine
    <3> HIDE DEF s
    <3> QED
      BY <2>1, <2>2, <3>1
  <2>4. /\ forms' \in [Managers -> MachineFormType]
        /\ \A n \in Managers : FormHoldsItsTicks(forms'[n])
    BY <1>4 DEF submitMachine, MachineFormType, FormHoldsItsTicks
  <2> QED
    BY <1>4, <2>3, <2>4 DEF submitMachine, SaveFollowsItsTicks, FormHoldsItsTicks, recipeIdsFor
<1>5. ASSUME NEW c \in Saves, PatchMachine(c) PROVE MachineInv'
  <2>1. CASE saves[c].changed /\ saves' = [saves EXCEPT ![c].phase = "list"] /\ UNCHANGED forms
    BY <1>5, <2>1 DEF PatchMachine, SaveType, SaveFollowsItsTicks, FormHoldsItsTicks, recipeIdsFor
  <2>2. CASE Saved(c)
    BY <1>5, <2>2, SavedKeepsInv DEF PatchMachine
  <2>3. CASE /\ saves' = [saves EXCEPT ![c] = NoSave]
             /\ forms' = [forms EXCEPT ![saves[c].by].busy = FALSE]
    <3>1. NoSave \in SaveType /\ SaveFollowsItsTicks(NoSave)
      BY DEF NoSave, SaveType, SaveFollowsItsTicks
    <3>2. /\ saves' \in [Saves -> SaveType]
          /\ \A d \in Saves : SaveFollowsItsTicks(saves'[d])
      BY <2>3, <3>1
    <3>3. /\ forms' \in [Managers -> MachineFormType]
          /\ \A n \in Managers : FormHoldsItsTicks(forms'[n])
      <4>1. saves[c].by \in Managers
        BY <1>5 DEF PatchMachine, SaveFollowsItsTicks
      <4>2. /\ forms \in [Managers -> MachineFormType]
            /\ \A n \in Managers : FormHoldsItsTicks(forms[n])
        BY DEF MachineInv
      <4> QED
        BY <2>3, <4>1, <4>2, FormsUpdated
    <3> QED
      BY <1>5, <3>2, <3>3 DEF PatchMachine, SaveFollowsItsTicks, FormHoldsItsTicks, recipeIdsFor
  <2> QED
    BY <1>5, <2>1, <2>2, <2>3 DEF PatchMachine
<1>6. ASSUME NEW c \in Saves, ListRecipes(c) PROVE MachineInv'
  <2>1. PICK ids \in {{}, recipeIdsFor(saves[c].types)} :
          saves' = [saves EXCEPT ![c].phase = "replace", ![c].recipeIds = ids]
    BY <1>6 DEF ListRecipes
  <2> DEFINE s == [saves[c] EXCEPT !.phase = "replace", !.recipeIds = ids]
  <2>2. saves[c] \in SaveType /\ SaveFollowsItsTicks(saves[c]) /\ saves[c].phase = "list"
    BY <1>6 DEF ListRecipes
  <2>3. ids \in SUBSET Recipes /\ ids \subseteq recipeIdsFor(saves[c].ticked)
    BY <2>2 DEF recipeIdsFor, SaveFollowsItsTicks
  <2>4. s \in SaveType /\ SaveFollowsItsTicks(s)
    BY <2>2, <2>3 DEF SaveType, SaveFollowsItsTicks
  <2>5. saves' = [saves EXCEPT ![c] = s]
    BY <2>1
  <2> HIDE DEF s
  <2> QED
    BY <1>6, <2>4, <2>5 DEF ListRecipes, SaveFollowsItsTicks, FormHoldsItsTicks, recipeIdsFor
<1>7. ASSUME NEW c \in Saves, DeleteLinks(c) PROVE MachineInv'
  BY <1>7 DEF DeleteLinks, SaveType, SaveFollowsItsTicks, FormHoldsItsTicks, recipeIdsFor
<1>8. ASSUME NEW c \in Saves, NEW r \in Recipes, CreateLink(c, r) PROVE MachineInv'
  <2>1. CASE /\ links' = links \cup {r} /\ UNCHANGED <<cards, forms>>
             /\ saves' = [saves EXCEPT ![c].recipeIds = @ \ {r}]
    BY <1>8, <2>1 DEF SaveType, SaveFollowsItsTicks, FormHoldsItsTicks, recipeIdsFor
  <2>2. CASE UNCHANGED links /\ Saved(c)
    BY <1>8, <2>2, SavedKeepsInv DEF CreateLink
  <2> QED
    BY <1>8, <2>1, <2>2 DEF CreateLink
<1>9. ASSUME NEW c \in Saves, LinksAnswered(c) PROVE MachineInv'
  BY <1>9, SavedKeepsInv DEF LinksAnswered
<1>10. CASE UNCHANGED machineVars
  BY <1>10 DEF machineVars, FormHoldsItsTicks, SaveFollowsItsTicks, recipeIdsFor
<1> QED
  BY <1>1, <1>1a, <1>2, <1>3, <1>4, <1>5, <1>6, <1>7, <1>8, <1>9, <1>10 DEF MachineNext

\* The links change only in the two steps of a save that replaces them.
LEMMA LinksFollowTicks ==
  ASSUME MachineInv, [MachineNext]_machineVars, links' # links
  PROVE  LinksFollowATick
<1>1. ASSUME NEW c \in Saves, DeleteLinks(c) PROVE saves[c].ticked # {} /\ links' = {}
  <2>1. SaveFollowsItsTicks(saves[c]) /\ saves[c].phase = "replace" /\ links' = {}
    BY <1>1 DEF DeleteLinks, MachineInv
  <2> QED
    BY <2>1 DEF SaveFollowsItsTicks
<1>2. ASSUME NEW c \in Saves, NEW r \in Recipes, CreateLink(c, r)
      PROVE  /\ saves[c].ticked # {}
             /\ \A q \in links' \ links : TypeOf[q] \in saves[c].ticked
  BY <1>2 DEF CreateLink, MachineInv, SaveFollowsItsTicks, recipeIdsFor
<1>3. \/ \E c \in Saves : DeleteLinks(c)
      \/ \E c \in Saves, r \in Recipes : CreateLink(c, r)
  BY DEF MachineNext, machineVars, CardArrives, OpenEdit, CloseEdit, toggleCap, submitMachine, PatchMachine,
         ListRecipes, LinksAnswered
<1> QED
  BY <1>1, <1>2, <1>3 DEF LinksFollowATick

\* Saving a machine without touching its capabilities never changes what it can do, with any
\* number of managers, saves and failures (EquipmentModal, setCapabilities, update_equipment).
THEOREM UntouchedCapabilitiesAreKept == MachineSpec => UntouchedCapabilitiesStay
<1>1. MachineInv /\ [MachineNext]_machineVars => [links' # links => LinksFollowATick]_machineVars
  BY LinksFollowTicks
<1>2. MachineSpec => []MachineInv
  BY MachineInvInit, MachineInvStep, PTL DEF MachineSpec
<1> QED
  BY <1>1, <1>2, PTL DEF MachineSpec, UntouchedCapabilitiesStay
-----------------------------------------------------------------------------
(* The form of a recipe                                                     *)

\* Where the value of a parameter may come from, in the recipe r or a new one (None).
Own(r) == {"typed", "empty"} \cup ({r} \ {None})
ComesFrom(p, V) == \A k \in DOMAIN p : p[k] \in V

Origins == Recipes \cup {"typed", "empty"}
ParamsType == UNION {[S -> Origins] : S \in SUBSET Params}
RecipeRow == [type : Types, params : ParamsType, active : BOOLEAN]
RecipeFormType ==
  [open : BOOLEAN, editing : Recipes \cup {None}, type : Types \cup {None},
   kv : ParamsType, json : ParamsType, busy : BOOLEAN]
RecipeCallType ==
  [phase : {"idle", "create", "update", "done", "failed", "type"}, of : Recipes \cup {None},
   type : Types \cup {None}, params : ParamsType]

RecipeTypes ==
  /\ book \in [Recipes -> RecipeRow \cup {None}]
  /\ rows \in [Recipes -> RecipeRow \cup {None}]
  /\ listed \subseteq Types /\ known \subseteq Types
  /\ recipeForm \in RecipeFormType
  /\ recipeCalls \in [Calls -> RecipeCallType]

\* The rows are old copies of recipes that exist, and a recipe stays.
RowsAreOwn(b, R) ==
  \A r \in Recipes :
    /\ b[r] # None => ComesFrom(b[r].params, Own(r))
    /\ R[r] # None => b[r] # None /\ ComesFrom(R[r].params, Own(r))

\* What an open form holds is of the recipe it edits; the fields that a closed one keeps may
\* be of any.
FormIsOwn(b, f) ==
  /\ ~f.open => f.editing = None
  /\ f.editing # None => b[f.editing] # None
  /\ f.open => ComesFrom(f.kv, Own(f.editing)) /\ ComesFrom(f.json, Own(f.editing))

\* A save carries what the form held when it was pressed, with the fields of its type.
CallIsOwn(b, s) ==
  /\ s.phase = "create" => s.type # None /\ ComesFrom(s.params, Own(None))
  /\ s.phase = "update" =>
       /\ s.of # None /\ b[s.of] # None
       /\ ComesFrom(s.params, Own(s.of))
       /\ SchemaOf[b[s.of].type] # {} => DOMAIN s.params = SchemaOf[b[s.of].type]
  /\ s.phase = "type" => s.type # None

RecipeInv ==
  /\ RecipeTypes
  /\ RowsAreOwn(book, rows)
  /\ FormIsOwn(book, recipeForm)
  /\ \A c \in Calls : CallIsOwn(book, recipeCalls[c])

LEMMA ParamsAreTyped ==
  ASSUME NEW p
  PROVE  /\ p \in ParamsType =>
              DOMAIN p \in SUBSET Params /\ \A k \in DOMAIN p : p[k] \in Origins
         /\ (p = [k \in DOMAIN p |-> p[k]] /\ DOMAIN p \in SUBSET Params
              /\ \A k \in DOMAIN p : p[k] \in Origins) => p \in ParamsType
BY DEF ParamsType

LEMMA NoParamsAreTyped == NoParams \in ParamsType /\ \A V : ComesFrom(NoParams, V)
BY ParamsAreTyped DEF NoParams, ComesFrom

\* A row is no null.
LEMMA RowIsThere == None \notin RecipeRow
BY RecipeRowAssumption DEF RecipeRow, ParamsType, Origins

LEMMA NoCallIsOwn == NoCall \in RecipeCallType /\ \A b : CallIsOwn(b, NoCall)
BY NoParamsAreTyped DEF NoCall, RecipeCallType, CallIsOwn

\* The fields of a form that is open for a recipe that exists.
LEMMA SchemaTyped ==
  ASSUME NEW f \in RecipeFormType, NEW types \in SUBSET Types,
         book \in [Recipes -> RecipeRow \cup {None}], FormIsOwn(book, f)
  PROVE  /\ schema(f, types) \in SUBSET Params
         /\ f.editing # None => schema(f, types) = SchemaOf[book[f.editing].type]
<1>1. CASE f.editing # None
  <2>1. book[f.editing] \in RecipeRow
    BY <1>1 DEF FormIsOwn, RecipeFormType
  <2>2. book[f.editing].type \in Types
    BY <2>1 DEF RecipeRow
  <2> QED
    BY <1>1, <2>2, RecipeFormAssumption DEF schema
<1>2. CASE f.editing = None
  BY <1>2, RecipeFormAssumption DEF schema
<1> QED
  BY <1>1, <1>2

LEMMA FieldsAreOwn ==
  ASSUME NEW f \in RecipeFormType, NEW types \in SUBSET Types, f.open,
         book \in [Recipes -> RecipeRow \cup {None}], FormIsOwn(book, f)
  PROVE  /\ WithFields(f, types) \in RecipeFormType
         /\ FormIsOwn(book, WithFields(f, types))
<1> DEFINE fields == DOMAIN f.kv \cup schema(f, types)
           filled == [k \in fields |-> IF k \in DOMAIN f.kv THEN f.kv[k] ELSE "empty"]
<1>1. f.kv \in ParamsType /\ ComesFrom(f.kv, Own(f.editing))
  BY DEF RecipeFormType, FormIsOwn
<1>2. schema(f, types) \in SUBSET Params
  BY SchemaTyped
<1>3. fields \in SUBSET Params
  BY <1>1, <1>2, ParamsAreTyped
<1>4. /\ filled = [k \in DOMAIN filled |-> filled[k]]
      /\ DOMAIN filled \in SUBSET Params
      /\ \A k \in DOMAIN filled : filled[k] \in Origins
  BY <1>1, <1>3, ParamsAreTyped DEF Origins
<1>5. filled \in ParamsType /\ ComesFrom(filled, Own(f.editing))
  <2>1. ComesFrom(filled, Own(f.editing))
    BY <1>1 DEF ComesFrom, Own
  <2> HIDE DEF filled
  <2> QED
    BY <1>4, <2>1, ParamsAreTyped
<1>6. WithFields(f, types) = [f EXCEPT !.kv = filled]
  BY DEF WithFields
<1> HIDE DEF filled
<1> QED
  BY <1>5, <1>6 DEF RecipeFormType, FormIsOwn

LEMMA FirstTypeTyped == \A types \in SUBSET Types : firstType(types) \in Types \cup {None}
BY DEF firstType

\* The steps of the form alone: the recipes, the rows and the calls stay.
LEMMA FormSteps ==
  ASSUME RecipeInv, recipeForm' \in RecipeFormType, FormIsOwn(book, recipeForm'),
         listed' \in SUBSET Types, known' \in SUBSET Types,
         UNCHANGED <<book, rows, recipeCalls>>
  PROVE  RecipeInv'
BY DEF RecipeInv, RecipeTypes

LEMMA RecipeInvInit == RecipeInit => RecipeInv
<1> SUFFICES ASSUME RecipeInit PROVE RecipeInv
  OBVIOUS
<1>1. ASSUME NEW r \in Recipes, book[r] # None
      PROVE  book[r] \in RecipeRow /\ ComesFrom(book[r].params, Own(r))
  <2>1. book[r] \in Stored(r)
    BY <1>1 DEF RecipeInit
  <2>2. PICK S \in SUBSET Params :
          book[r] = [type |-> TypeOf[r], params |-> [k \in S |-> r], active |-> TRUE]
    BY <2>1 DEF Stored
  <2> DEFINE p == [k \in S |-> r]
  <2>3. p \in ParamsType
    BY DEF ParamsType, Origins
  <2>4. ComesFrom(p, Own(r))
    BY CatalogueAssumption DEF ComesFrom, Own
  <2>5. TypeOf[r] \in Types
    BY CatalogueAssumption
  <2> HIDE DEF p
  <2> QED
    BY <2>2, <2>3, <2>4, <2>5 DEF RecipeRow, p
<1>2. book \in [Recipes -> RecipeRow \cup {None}]
  BY <1>1 DEF RecipeInit
<1>3. rows \in [Recipes -> RecipeRow \cup {None}] /\ \A r \in Recipes : rows[r] = None
  BY DEF RecipeInit
<1>4. recipeForm \in RecipeFormType /\ FormIsOwn(book, recipeForm)
  BY NoParamsAreTyped DEF RecipeInit, ClosedRecipeForm, RecipeFormType, FormIsOwn
<1>5. /\ recipeCalls \in [Calls -> RecipeCallType]
      /\ \A c \in Calls : CallIsOwn(book, recipeCalls[c])
  BY NoCallIsOwn DEF RecipeInit
<1> QED
  BY <1>1, <1>2, <1>3, <1>4, <1>5 DEF RecipeInit, RecipeInv, RecipeTypes, RowsAreOwn

\* What the form and a call say of the recipes stays true when recipes keep their types.
LEMMA TypesAreLocked ==
  ASSUME NEW b, \A r \in Recipes : book[r] # None => b[r] # None /\ b[r].type = book[r].type
  PROVE  /\ \A f \in RecipeFormType : FormIsOwn(book, f) => FormIsOwn(b, f)
         /\ \A s \in RecipeCallType : CallIsOwn(book, s) => CallIsOwn(b, s)
<1>1. ASSUME NEW f \in RecipeFormType, FormIsOwn(book, f) PROVE FormIsOwn(b, f)
  BY <1>1 DEF FormIsOwn, RecipeFormType
<1>2. ASSUME NEW s \in RecipeCallType, CallIsOwn(book, s) PROVE CallIsOwn(b, s)
  <2>1. s.of \in Recipes \cup {None}
    BY DEF RecipeCallType
  <2> QED
    BY <1>2, <2>1 DEF CallIsOwn
<1> QED
  BY <1>1, <1>2

\* A step that writes one recipe, and the phase of the call that asked for it.
LEMMA RecipeWritten ==
  ASSUME RecipeInv, NEW r \in Recipes, NEW row \in RecipeRow, NEW C \in [Calls -> RecipeCallType],
         ComesFrom(row.params, Own(r)), book[r] # None => row.type = book[r].type,
         \A c \in Calls : CallIsOwn(book, C[c]),
         book' = [book EXCEPT ![r] = row], recipeCalls' = C,
         UNCHANGED <<rows, listed, known, recipeForm>>
  PROVE  RecipeInv'
<1>1. book' \in [Recipes -> RecipeRow \cup {None}]
  BY DEF RecipeInv, RecipeTypes
<1>2. /\ book'[r] = row /\ row # None
      /\ \A q \in Recipes : q # r => book'[q] = book[q]
  BY RowIsThere DEF RecipeInv, RecipeTypes
<1>3. \A q \in Recipes : book[q] # None => book'[q] # None /\ book'[q].type = book[q].type
  BY <1>2
<1>4. /\ \A f \in RecipeFormType : FormIsOwn(book, f) => FormIsOwn(book', f)
      /\ \A s \in RecipeCallType : CallIsOwn(book, s) => CallIsOwn(book', s)
  BY <1>3, TypesAreLocked
<1>5. RowsAreOwn(book, rows)'
  BY <1>2 DEF RecipeInv, RowsAreOwn
<1>6. FormIsOwn(book, recipeForm)' /\ \A c \in Calls : CallIsOwn(book, recipeCalls[c])'
  BY <1>4 DEF RecipeInv, RecipeTypes
<1> QED
  BY <1>1, <1>5, <1>6 DEF RecipeInv, RecipeTypes

\* A step of one call that writes no recipe.
LEMMA CallSteps ==
  ASSUME RecipeInv, NEW c \in Calls, NEW s \in RecipeCallType, CallIsOwn(book, s),
         recipeCalls' = [recipeCalls EXCEPT ![c] = s],
         recipeForm' \in RecipeFormType, FormIsOwn(book, recipeForm'), listed' \in SUBSET Types,
         UNCHANGED <<book, rows, known>>
  PROVE  RecipeInv'
BY DEF RecipeInv, RecipeTypes

LEMMA PayloadIsOwn ==
  ASSUME RecipeInv, recipeForm.open
  PROVE  /\ Payload(recipeForm) \in ParamsType
         /\ ComesFrom(Payload(recipeForm), Own(recipeForm.editing))
         /\ schema(recipeForm, known) # {} => DOMAIN Payload(recipeForm) = schema(recipeForm, known)
<1> DEFINE f == recipeForm
           fields == schema(f, known)
           filled == [k \in fields |-> IF k \in DOMAIN f.kv THEN f.kv[k] ELSE "empty"]
<1>1. /\ f \in RecipeFormType /\ FormIsOwn(book, f) /\ known \in SUBSET Types
      /\ book \in [Recipes -> RecipeRow \cup {None}]
  BY DEF RecipeInv, RecipeTypes
<1>2. fields \in SUBSET Params
  BY <1>1, SchemaTyped
<1>3. /\ f.kv \in ParamsType /\ ComesFrom(f.kv, Own(f.editing))
      /\ f.json \in ParamsType /\ ComesFrom(f.json, Own(f.editing))
  BY <1>1 DEF RecipeFormType, FormIsOwn
<1>4. /\ filled = [k \in DOMAIN filled |-> filled[k]]
      /\ DOMAIN filled \in SUBSET Params
      /\ \A k \in DOMAIN filled : filled[k] \in Origins
      /\ ComesFrom(filled, Own(f.editing))
  BY <1>2, <1>3, ParamsAreTyped DEF Origins, ComesFrom, Own
<1>5. DOMAIN filled = fields
  OBVIOUS
<1>6. Payload(f) = IF fields = {} THEN f.json ELSE filled
  BY DEF Payload
<1> HIDE DEF filled, fields
<1> QED
  BY <1>3, <1>4, <1>5, <1>6, ParamsAreTyped DEF fields

LEMMA RecipeInvStep == RecipeInv /\ [RecipeNext]_recipeVars => RecipeInv'
<1> SUFFICES ASSUME RecipeInv, [RecipeNext]_recipeVars PROVE RecipeInv'
  OBVIOUS
<1>0. /\ RecipeTypes
      /\ RowsAreOwn(book, rows)
      /\ FormIsOwn(book, recipeForm)
      /\ \A c \in Calls : CallIsOwn(book, recipeCalls[c])
  BY DEF RecipeInv
<1>a. /\ recipeForm \in RecipeFormType /\ listed \in SUBSET Types /\ known \in SUBSET Types
      /\ book \in [Recipes -> RecipeRow \cup {None}]
      /\ \A c \in Calls : recipeCalls[c] \in RecipeCallType
  BY <1>0 DEF RecipeTypes
<1>1. CASE RowsArrive
  <2>1. \A r \in Recipes : rows'[r] \in {book[r], None}
    BY <1>1 DEF RowsArrive, recipeRow
  <2>2. rows' \in [Recipes -> RecipeRow \cup {None}]
    BY <1>1, <1>a, <2>1 DEF RowsArrive
  <2> QED
    BY <1>0, <1>1, <2>1, <2>2 DEF RowsArrive, RecipeInv, RecipeTypes, RowsAreOwn
<1>2. CASE TypesArrive
  <2>1. CASE recipeForm.open
    <3> DEFINE g == WithType(recipeForm, listed)
    <3>1. g \in RecipeFormType /\ g.open /\ FormIsOwn(book, g)
      BY <1>0, <1>a, <2>1, FirstTypeTyped DEF WithType, RecipeFormType, FormIsOwn
    <3>2. recipeForm' = WithFields(g, listed)
      BY <1>2, <2>1 DEF TypesArrive
    <3> HIDE DEF g
    <3>3. recipeForm' \in RecipeFormType /\ FormIsOwn(book, recipeForm')
      BY <1>a, <3>1, <3>2, FieldsAreOwn
    <3> QED
      BY <1>2, <1>a, <3>3, FormSteps DEF TypesArrive
  <2>2. CASE ~recipeForm.open
    BY <1>0, <1>2, <1>a, <2>2, FormSteps DEF TypesArrive
  <2> QED
    BY <2>1, <2>2
<1>3. CASE OpenNew
  <2> DEFINE g == [ClosedRecipeForm EXCEPT !.open = TRUE, !.type = firstType(known)]
  <2>1. g \in RecipeFormType /\ g.open /\ FormIsOwn(book, g)
    BY <1>a, FirstTypeTyped, NoParamsAreTyped DEF ClosedRecipeForm, RecipeFormType, FormIsOwn
  <2>2. recipeForm' = WithFields(g, known)
    BY <1>3 DEF OpenNew
  <2> HIDE DEF g
  <2>3. recipeForm' \in RecipeFormType /\ FormIsOwn(book, recipeForm')
    BY <1>a, <2>1, <2>2, FieldsAreOwn
  <2> QED
    BY <1>3, <1>a, <2>3, FormSteps DEF OpenNew
<1>4. CASE Dismiss
  <2>1. recipeForm' \in RecipeFormType /\ FormIsOwn(book, recipeForm')
    BY <1>4, <1>a DEF Dismiss, CloseRecipe, RecipeFormType, FormIsOwn
  <2> QED
    BY <1>4, <1>a, <2>1, FormSteps DEF Dismiss
<1>5. ASSUME NEW r \in Recipes, OpenRecipe(r) PROVE RecipeInv'
  <2> DEFINE g == [ClosedRecipeForm EXCEPT !.open = TRUE, !.editing = r, !.type = rows[r].type,
                                          !.json = rows[r].params, !.kv = rows[r].params]
  <2>1. /\ rows[r] \in RecipeRow /\ book[r] # None /\ r # None
        /\ ComesFrom(rows[r].params, Own(r))
    BY <1>0, <1>5, CatalogueAssumption DEF OpenRecipe, RecipeTypes, RowsAreOwn
  <2>2. rows[r].type \in Types /\ rows[r].params \in ParamsType
    BY <2>1 DEF RecipeRow
  <2>3. g \in RecipeFormType /\ g.open /\ FormIsOwn(book, g)
    BY <2>1, <2>2 DEF ClosedRecipeForm, RecipeFormType, FormIsOwn
  <2>4. recipeForm' = WithFields(g, known)
    BY <1>5 DEF OpenRecipe
  <2> HIDE DEF g
  <2>5. recipeForm' \in RecipeFormType /\ FormIsOwn(book, recipeForm')
    BY <1>a, <2>3, <2>4, FieldsAreOwn
  <2> QED
    BY <1>5, <1>a, <2>5, FormSteps DEF OpenRecipe
<1>6. ASSUME NEW r \in Recipes, RemoveRecipe(r) PROVE RecipeInv'
  <2> DEFINE row == [book[r] EXCEPT !.active = FALSE]
  <2>1. book[r] \in RecipeRow /\ book[r] # None /\ ComesFrom(book[r].params, Own(r))
    BY <1>0, <1>6, <1>a DEF RemoveRecipe, RowsAreOwn
  <2>2. row \in RecipeRow /\ row.type = book[r].type /\ row.params = book[r].params
    BY <2>1 DEF RecipeRow
  <2>3. book' = [book EXCEPT ![r] = row]
    BY <1>6 DEF RemoveRecipe
  <2>4. recipeCalls \in [Calls -> RecipeCallType]
    BY <1>0 DEF RecipeTypes
  <2> HIDE DEF row
  <2> QED
    BY <1>0, <1>6, <2>1, <2>2, <2>3, <2>4, RecipeWritten DEF RemoveRecipe
<1>7. ASSUME NEW t \in Types, PickRecipeType(t) PROVE RecipeInv'
  <2> DEFINE g == [recipeForm EXCEPT !.type = t]
  <2>1. g \in RecipeFormType /\ g.open /\ FormIsOwn(book, g)
    BY <1>0, <1>7, <1>a DEF PickRecipeType, RecipeFormType, FormIsOwn
  <2>2. recipeForm' = WithFields(g, known)
    BY <1>7 DEF PickRecipeType
  <2> HIDE DEF g
  <2>3. recipeForm' \in RecipeFormType /\ FormIsOwn(book, recipeForm')
    BY <1>a, <2>1, <2>2, FieldsAreOwn
  <2> QED
    BY <1>7, <1>a, <2>3, FormSteps DEF PickRecipeType
<1>8. ASSUME NEW k \in Params, TypeField(k) PROVE RecipeInv'
  <2> DEFINE kv == [recipeForm.kv EXCEPT ![k] = "typed"]
  <2>1. recipeForm.kv \in ParamsType /\ ComesFrom(recipeForm.kv, Own(recipeForm.editing))
    BY <1>0, <1>8, <1>a DEF TypeField, RecipeFormType, FormIsOwn
  <2>2. /\ kv = [j \in DOMAIN kv |-> kv[j]]
        /\ DOMAIN kv \in SUBSET Params
        /\ \A j \in DOMAIN kv : kv[j] \in Origins
        /\ ComesFrom(kv, Own(recipeForm.editing))
    BY <2>1, ParamsAreTyped DEF Origins, ComesFrom, Own
  <2>3. kv \in ParamsType
    <3> HIDE DEF kv
    <3> QED
      BY <2>2, ParamsAreTyped
  <2>4. recipeForm' = [recipeForm EXCEPT !.kv = kv]
    BY <1>8 DEF TypeField
  <2> HIDE DEF kv
  <2>5. recipeForm' \in RecipeFormType /\ FormIsOwn(book, recipeForm')
    BY <1>0, <1>8, <1>a, <2>2, <2>3, <2>4 DEF TypeField, RecipeFormType, FormIsOwn
  <2> QED
    BY <1>8, <1>a, <2>5, FormSteps DEF TypeField
<1>9. ASSUME NEW k \in Params, TypeJson(k) PROVE RecipeInv'
  <2> DEFINE old == recipeForm.json
             json == IF k \in DOMAIN old THEN [j \in DOMAIN old \ {k} |-> old[j]]
                                          ELSE [j \in DOMAIN old \cup {k} |-> IF j = k THEN "typed" ELSE old[j]]
  <2>1. old \in ParamsType /\ ComesFrom(old, Own(recipeForm.editing))
    BY <1>0, <1>9, <1>a DEF TypeJson, RecipeFormType, FormIsOwn
  <2>2. /\ json = [j \in DOMAIN json |-> json[j]]
        /\ DOMAIN json \in SUBSET Params
        /\ \A j \in DOMAIN json : json[j] \in Origins
        /\ ComesFrom(json, Own(recipeForm.editing))
    <3>1. CASE k \in DOMAIN old
      BY <2>1, <3>1, ParamsAreTyped DEF ComesFrom
    <3>2. CASE k \notin DOMAIN old
      BY <2>1, <3>2, ParamsAreTyped DEF ComesFrom, Origins, Own
    <3> QED
      BY <3>1, <3>2
  <2>3. json \in ParamsType
    <3> HIDE DEF json
    <3> QED
      BY <2>2, ParamsAreTyped
  <2>4. recipeForm' = [recipeForm EXCEPT !.json = json]
    BY <1>9 DEF TypeJson
  <2> HIDE DEF json
  <2>5. recipeForm' \in RecipeFormType /\ FormIsOwn(book, recipeForm')
    BY <1>0, <1>9, <1>a, <2>2, <2>3, <2>4 DEF TypeJson, RecipeFormType, FormIsOwn
  <2> QED
    BY <1>9, <1>a, <2>5, FormSteps DEF TypeJson
<1>10. ASSUME NEW c \in Calls, submitRecipe(c) PROVE RecipeInv'
  <2> DEFINE s == recipeRequest(recipeForm)
  <2>1. recipeForm.open
    BY <1>10 DEF submitRecipe
  <2>2. /\ Payload(recipeForm) \in ParamsType
        /\ ComesFrom(Payload(recipeForm), Own(recipeForm.editing))
        /\ schema(recipeForm, known) # {} =>
              DOMAIN Payload(recipeForm) = schema(recipeForm, known)
    BY <2>1, PayloadIsOwn
  <2>3. CASE recipeForm.editing = None
    <3>1. recipeForm.type \in Types /\ recipeForm.type # None
      BY <1>10, <1>a, <2>3, CatalogueAssumption DEF submitRecipe, RecipeFormType
    <3>2. s = [phase |-> "create", of |-> None, type |-> recipeForm.type,
               params |-> Payload(recipeForm)]
      BY <2>3 DEF recipeRequest
    <3>3. s \in RecipeCallType /\ CallIsOwn(book, s)
      BY <2>2, <2>3, <3>1, <3>2 DEF RecipeCallType, CallIsOwn
    <3>4. recipeForm' \in RecipeFormType /\ FormIsOwn(book, recipeForm')
      BY <1>0, <1>10, <1>a DEF submitRecipe, RecipeFormType, FormIsOwn
    <3> QED
      BY <1>10, <1>a, <3>3, <3>4, CallSteps DEF submitRecipe
  <2>4. CASE recipeForm.editing # None
    <3>1. schema(recipeForm, known) = SchemaOf[book[recipeForm.editing].type]
      BY <1>0, <1>a, <2>4, SchemaTyped
    <3>2. recipeForm.editing \in Recipes /\ book[recipeForm.editing] # None
      BY <1>0, <1>a, <2>4 DEF RecipeFormType, FormIsOwn
    <3>3. s = [phase |-> "update", of |-> recipeForm.editing, type |-> None,
               params |-> Payload(recipeForm)]
      BY <2>4 DEF recipeRequest
    <3>4. s \in RecipeCallType /\ CallIsOwn(book, s)
      BY <2>2, <2>4, <3>1, <3>2, <3>3 DEF RecipeCallType, CallIsOwn
    <3>5. recipeForm' \in RecipeFormType /\ FormIsOwn(book, recipeForm')
      BY <1>0, <1>10, <1>a DEF submitRecipe, RecipeFormType, FormIsOwn
    <3> QED
      BY <1>10, <1>a, <3>4, <3>5, CallSteps DEF submitRecipe
  <2> QED
    BY <2>3, <2>4
<1>11. ASSUME NEW c \in Calls, NEW r \in Recipes, CreateRecipe(c, r) PROVE RecipeInv'
  <2> DEFINE s == recipeCalls[c]
             row == [type |-> s.type, params |-> s.params, active |-> TRUE]
             ended == [s EXCEPT !.phase = "done"]
             C == [recipeCalls EXCEPT ![c] = ended]
  <2>1. s \in RecipeCallType /\ s.phase = "create" /\ CallIsOwn(book, s)
    BY <1>0, <1>a, <1>11 DEF CreateRecipe
  <2>2. row \in RecipeRow /\ ComesFrom(row.params, Own(r))
    BY <2>1 DEF RecipeCallType, CallIsOwn, RecipeRow, ComesFrom, Own
  <2>3. ended \in RecipeCallType /\ CallIsOwn(book, ended)
    BY <2>1 DEF RecipeCallType, CallIsOwn
  <2>4. C \in [Calls -> RecipeCallType] /\ \A d \in Calls : CallIsOwn(book, C[d])
    <3> HIDE DEF ended
    <3> QED
      BY <1>0, <2>3 DEF RecipeTypes
  <2>5. book[r] = None /\ book' = [book EXCEPT ![r] = row] /\ recipeCalls' = C
    BY <1>11 DEF CreateRecipe
  <2> HIDE DEF row, C
  <2> QED
    BY <1>11, <2>2, <2>4, <2>5, RecipeWritten DEF CreateRecipe
<1>12. ASSUME NEW c \in Calls, UpdateRecipe(c) PROVE RecipeInv'
  <2> DEFINE s == recipeCalls[c]
             r == s.of
             row == [book[r] EXCEPT !.params = s.params]
             ended == [s EXCEPT !.phase = "done"]
             C == [recipeCalls EXCEPT ![c] = ended]
  <2>1. s \in RecipeCallType /\ s.phase = "update" /\ CallIsOwn(book, s)
    BY <1>0, <1>a, <1>12 DEF UpdateRecipe
  <2>2. /\ r \in Recipes /\ book[r] # None /\ s.params \in ParamsType
        /\ ComesFrom(s.params, Own(r))
    BY <2>1 DEF RecipeCallType, CallIsOwn
  <2>3. book[r] \in RecipeRow
    BY <1>a, <2>2
  <2>4. row \in RecipeRow /\ row.type = book[r].type /\ ComesFrom(row.params, Own(r))
    BY <2>2, <2>3 DEF RecipeRow
  <2>5. ended \in RecipeCallType /\ CallIsOwn(book, ended)
    BY <2>1 DEF RecipeCallType, CallIsOwn
  <2>6. C \in [Calls -> RecipeCallType] /\ \A d \in Calls : CallIsOwn(book, C[d])
    <3> HIDE DEF ended
    <3> QED
      BY <1>0, <2>5 DEF RecipeTypes
  <2>7. book' = [book EXCEPT ![r] = row] /\ recipeCalls' = C
    BY <1>12 DEF UpdateRecipe
  <2> HIDE DEF row, C, r
  <2> QED
    BY <1>12, <2>2, <2>4, <2>6, <2>7, RecipeWritten DEF UpdateRecipe
<1>13. ASSUME NEW c \in Calls, CallFails(c) PROVE RecipeInv'
  <2> DEFINE ended == [recipeCalls[c] EXCEPT !.phase = "failed"]
  <2>1. recipeCalls[c] \in RecipeCallType
    BY <1>a
  <2>2. ended \in RecipeCallType /\ CallIsOwn(book, ended)
    BY <2>1 DEF RecipeCallType, CallIsOwn
  <2>3. recipeCalls' = [recipeCalls EXCEPT ![c] = ended]
    BY <1>13 DEF CallFails
  <2> HIDE DEF ended
  <2> QED
    BY <1>0, <1>13, <1>a, <2>2, <2>3, CallSteps DEF CallFails
<1>14. ASSUME NEW c \in Calls, SaveAnswered(c) PROVE RecipeInv'
  <2>1. recipeForm' \in RecipeFormType /\ FormIsOwn(book, recipeForm')
    BY <1>0, <1>14, <1>a DEF SaveAnswered, CloseRecipe, RecipeFormType, FormIsOwn
  <2> QED
    BY <1>14, <1>a, <2>1, NoCallIsOwn, CallSteps DEF SaveAnswered
<1>15. ASSUME NEW c \in Calls, NEW t \in Types, AddType(c, t) PROVE RecipeInv'
  <2> DEFINE s == [NoCall EXCEPT !.phase = "type", !.type = t]
  <2>1. s \in RecipeCallType /\ CallIsOwn(book, s)
    BY NoCallIsOwn, CatalogueAssumption DEF NoCall, RecipeCallType, CallIsOwn
  <2>2. recipeCalls' = [recipeCalls EXCEPT ![c] = s]
    BY <1>15 DEF AddType
  <2> HIDE DEF s
  <2> QED
    BY <1>0, <1>15, <1>a, <2>1, <2>2, CallSteps DEF AddType
<1>16. ASSUME NEW c \in Calls, TypeAnswered(c) PROVE RecipeInv'
  <2>1. recipeCalls[c].type \in Types
    BY <1>0, <1>16, <1>a DEF TypeAnswered, CallIsOwn, RecipeCallType
  <2>2. recipeForm' \in RecipeFormType /\ FormIsOwn(book, recipeForm') /\ listed' \in SUBSET Types
    BY <1>0, <1>16, <1>a, <2>1 DEF TypeAnswered, RecipeFormType, FormIsOwn
  <2> QED
    BY <1>16, <2>2, NoCallIsOwn, CallSteps DEF TypeAnswered
<1>17. CASE UNCHANGED recipeVars
  BY <1>0, <1>17 DEF recipeVars, RecipeInv, RecipeTypes
<1> QED
  BY <1>1, <1>2, <1>3, <1>4, <1>5, <1>6, <1>7, <1>8, <1>9, <1>10, <1>11, <1>12, <1>13, <1>14,
     <1>15, <1>16, <1>17 DEF RecipeNext

\* A recipe holds its own parameters, those typed for it and empty fields, and an edit sends
\* the fields of the recipe's type, for any number of recipes, types, parameters and saves
\* under way (RecipeModal, createRecipe, updateRecipe).
THEOREM ParametersAreOwn == RecipeSpec => []ParametersStayWithTheirRecipe
<1>1. RecipeInv => ParametersStayWithTheirRecipe
  <2> SUFFICES ASSUME RecipeInv PROVE ParametersStayWithTheirRecipe
    OBVIOUS
  <2>1. \A r \in Recipes : book[r] # None =>
          \A k \in DOMAIN book[r].params : book[r].params[k] \in {r, "typed", "empty"}
    BY DEF RecipeInv, RowsAreOwn, ComesFrom, Own
  <2>2. \A c \in Calls : recipeCalls[c].phase = "update" =>
          (SchemaOf[book[recipeCalls[c].of].type] # {} =>
             DOMAIN recipeCalls[c].params = SchemaOf[book[recipeCalls[c].of].type])
    BY DEF RecipeInv, CallIsOwn
  <2> QED
    BY <2>1, <2>2 DEF ParametersStayWithTheirRecipe
<1> QED
  BY <1>1, RecipeInvInit, RecipeInvStep, PTL DEF RecipeSpec
=============================================================================
