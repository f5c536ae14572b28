----------------------------- MODULE MachineForm -----------------------------
(***************************************************************************)
(* The manager's form that edits a machine, in several browsers at once.    *)
(* The page shows the machine's capabilities as recipes, the form ticks     *)
(* experiment types: the list of ids it edits holds both.  A save is a      *)
(* first PATCH, then, if the list differs from the one the form opened      *)
(* with, a listing of the recipes and a second PATCH with those of the      *)
(* ticked types; the server deletes the old links and makes the new ones    *)
(* one by one, in no transaction.  Any step can fail.                       *)
(* What the first PATCH does to the machine's row is in EquipmentAdmin.     *)
(***************************************************************************)
EXTENDS Catalogue

CONSTANTS
  Managers,  \* the browsers
  MaxSaves   \* bound on the saves under way

ASSUME MachineFormAssumption == MaxSaves \in Nat

VARIABLES
  links,  \* the machine's capability_links
  cards,  \* those of the card each manager's page shows, which it fetched some time ago
  forms,  \* the form of each manager
  saves   \* the saves under way

machineVars == <<links, cards, forms, saves>>

Saves == 1..MaxSaves
ClosedForm == [open |-> FALSE, initial |-> {}, capIds |-> {}, ticked |-> {}, busy |-> FALSE]
\* Of the ids that a save carries only those of types find anything.
NoSave == [phase |-> "idle", by |-> None, changed |-> FALSE, types |-> {}, recipeIds |-> {},
           ticked |-> {}]

MachineInit ==
  /\ links \in SUBSET Recipes
  /\ cards = [m \in Managers |-> links]
  /\ forms = [m \in Managers |-> ClosedForm]
  /\ saves = [c \in Saves |-> NoSave]

-----------------------------------------------------------------------------
\* The card of the machine: of its fields only the capabilities matter here.
machineCard == links

\* The page polls its cards, also while the form is open.
CardArrives(m) ==
  /\ cards' = [cards EXCEPT ![m] = machineCard]
  /\ UNCHANGED <<links, forms, saves>>

\* Defect variant: the form opens with the ticks of its last opening.
OpenEditAsLeft(m) ==
  /\ ~forms[m].open
  /\ forms' = [forms EXCEPT ![m] = [@ EXCEPT !.open = TRUE, !.initial = cards[m], !.ticked = {},
                                             !.busy = FALSE]]
  /\ UNCHANGED <<links, cards, saves>>

\* openEdit, and the effect that copies the machine's card into the fields: the card as the
\* page shows it.
OpenEdit(m) ==
  /\ ~forms[m].open
  /\ forms' = [forms EXCEPT ![m] = [open |-> TRUE, initial |-> cards[m], capIds |-> cards[m],
                                    ticked |-> {}, busy |-> FALSE]]
  /\ UNCHANGED <<links, cards, saves>>

\* closeModal: the backdrop and the cross look at nothing.  The fields stay until it opens.
CloseEdit(m) ==
  /\ forms[m].open
  /\ forms' = [forms EXCEPT ![m].open = FALSE]
  /\ UNCHANGED <<links, cards, saves>>

Flip(S, x) == IF x \in S THEN S \ {x} ELSE S \cup {x}

\* toggleCap; `ticked' is history, the types that were ticked an odd number of times.
toggleCap(m, t) ==
  /\ forms[m].open
  /\ forms' = [forms EXCEPT ![m].capIds = Flip(@, t), ![m].ticked = Flip(@, t)]
  /\ UNCHANGED <<links, cards, saves>>

capsChanged(f) == f.capIds # f.initial

submitMachine(m, c) ==
  /\ forms[m].open /\ ~forms[m].busy /\ saves[c] = NoSave
  /\ forms' = [forms EXCEPT ![m].busy = TRUE]
  /\ saves' = [saves EXCEPT ![c] =
       [phase |-> "patch", by |-> m, changed |-> capsChanged(forms[m]),
        types |-> forms[m].capIds \cap Types, recipeIds |-> {}, ticked |-> forms[m].ticked]]
  /\ UNCHANGED <<links, cards>>

\* onSaved closes the form that is open by now; `finally' frees its buttons.
Saved(c) ==
  /\ saves' = [saves EXCEPT ![c] = NoSave]
  /\ forms' = [forms EXCEPT ![saves[c].by].open = FALSE, ![saves[c].by].busy = FALSE]

\* The first PATCH: on an error the form stays.
PatchMachine(c) ==
  /\ saves[c].phase = "patch" /\ UNCHANGED <<links, cards>>
  /\ \/ /\ saves[c].changed
        /\ saves' = [saves EXCEPT ![c].phase = "list"] /\ UNCHANGED forms
     \/ ~saves[c].changed /\ Saved(c)
     \/ /\ saves' = [saves EXCEPT ![c] = NoSave]
        /\ forms' = [forms EXCEPT ![saves[c].by].busy = FALSE]

\* recipeIdsForExperimentIds: a listing that fails is an empty one.
recipeIdsFor(ids) == {r \in Recipes : TypeOf[r] \in ids}
ListRecipes(c) ==
  /\ saves[c].phase = "list"
  /\ \E ids \in {{}, recipeIdsFor(saves[c].types)} :
       saves' = [saves EXCEPT ![c].phase = "replace", ![c].recipeIds = ids]
  /\ UNCHANGED <<links, cards, forms>>

\* update_equipment with recipe_ids: all links go, ...
DeleteLinks(c) ==
  /\ saves[c].phase = "replace"
  /\ links' = {}
  /\ saves' = [saves EXCEPT ![c].phase = "link"]
  /\ UNCHANGED <<cards, forms>>

\* ... and come one by one; a link that another PATCH made meanwhile ends this one.
CreateLink(c, r) ==
  /\ saves[c].phase = "link" /\ r \in saves[c].recipeIds /\ UNCHANGED cards
  /\ \/ r \notin links /\ links' = links \cup {r}
        /\ saves' = [saves EXCEPT ![c].recipeIds = @ \ {r}] /\ UNCHANGED forms
     \/ r \in links /\ UNCHANGED links /\ Saved(c)

\* The second PATCH has answered, or failed anywhere: safeGet makes both the same.
LinksAnswered(c) ==
  /\ saves[c].phase \in {"replace", "link"}
  /\ Saved(c) /\ UNCHANGED <<links, cards>>

MachineNext ==
  \/ \E m \in Managers : CardArrives(m) \/ OpenEdit(m) \/ CloseEdit(m) \/ \E t \in Types : toggleCap(m, t)
  \/ \E c \in Saves : \/ PatchMachine(c) \/ ListRecipes(c) \/ DeleteLinks(c) \/ LinksAnswered(c)
                      \/ \E m \in Managers : submitMachine(m, c)
                      \/ \E r \in Recipes : CreateLink(c, r)
MachineSpec == MachineInit /\ [][MachineNext]_machineVars

-----------------------------------------------------------------------------
(* Properties                                                               *)

\* A save is under way in which a type was ticked, and what is new is of such a type.
LinksFollowATick ==
  \E c \in Saves : saves[c].ticked # {} /\ \A r \in links' \ links : TypeOf[r] \in saves[c].ticked

\* A machine loses or gains a capability only while a save is under way in which a type was
\* ticked, and gains it only if its recipe is of such a type: several managers may edit it at
\* once, close the form while it saves, open it again from a card that is old by then, and any
\* call may fail, but a save of the name never touches what the machine can do by then.
UntouchedCapabilitiesStay == [][links' # links => LinksFollowATick]_machineVars
=============================================================================
