--------------------------- MODULE QueueProposals --------------------------
(***************************************************************************)
(* Dispatch queue proposals (apps/wip): the lab asks for a plan of batches, *)
(* edits it, and confirms it; the confirmation creates and locks WIP        *)
(* batches and, once committed, dispatches them one by one in the same      *)
(* process.  The wafers are seen only as far as batching sees them: waiting *)
(* for a recipe, taken into a batch, or gone.                               *)
(***************************************************************************)
EXTENDS BatchPlanning, SequencesExt

CONSTANTS
  Samples,        \* wafers
  RecipeOf,       \* the recipe of a wafer's next experiment
  Rank,           \* the place of a wafer in its queue (priority, due date, age)
  RecipeOrder,    \* the recipes in the order of their compatibility keys
  MaxBatchSize,   \* Recipe.max_batch_size
  Equipment,      \* machines
  CodeOf,         \* the order of the machines' codes
  Capable,        \* the machines that support a recipe
  Capacity,       \* Equipment.capacity
  Proposals,      \* identifiers a proposal can take
  None,           \* a null foreign key
  MaxRows,        \* bound on proposal batch rows
  MaxWips,        \* bound on WIP batches
  MaxEdits,       \* bound on edits in flight
  MaxCrashes      \* bound on deaths of a process that dispatches

Recipes == {RecipeOrder[i] : i \in DOMAIN RecipeOrder}

ASSUME PlanningAssumption ==
  /\ IsFiniteSet(Samples) /\ RecipeOrder \in Seq(Recipes)
  /\ RecipeOf \in [Samples -> Recipes]
  /\ Rank \in [Samples -> Nat] /\ \A s, t \in Samples : Rank[s] = Rank[t] => s = t
  /\ MaxBatchSize \in [Recipes -> Nat]
  /\ CodeOf \in [Equipment -> Nat]
  /\ \A e, f \in Equipment : CodeOf[e] = CodeOf[f] => e = f
  /\ Capable \in [Recipes -> SUBSET Equipment]
  /\ Capacity \in [Equipment -> Nat]
  /\ None \notin Equipment
  /\ MaxRows \in Nat /\ MaxWips \in Nat /\ MaxEdits \in Nat /\ MaxCrashes \in Nat

VARIABLES
  sample,    \* "incoming", "received" (ready for its next experiment), "batched" or "gone"
  machine,   \* Equipment.status and is_active: "idle", "working", "faulty", "offline"
  proposal,  \* DispatchQueueProposal.status, "absent" before the row exists
  rows,      \* DispatchQueueProposalBatch rows with their items, in order of creation
  wips,      \* WipBatch rows created here; `told': the lab knows it waits for them
  plans,     \* on_commit callbacks that are running
  edits,     \* edits in flight with the rows their endpoints loaded
  crashes

vars == <<sample, machine, proposal, rows, wips, plans, edits, crashes>>

Row == [proposal : Proposals, recipe : Recipes, equip : Equipment \cup {None},
        items : SUBSET Samples, live : BOOLEAN]
Wip == [recipe : Recipes, items : SUBSET Samples,
        status : {"draft", "ready_for_dispatch", "dispatching", "cancelled"}, told : BOOLEAN]
PlanEntry == [wip : 1..MaxWips, equip : Equipment]
Plan == [todo : Seq(PlanEntry), failed : SUBSET (1..MaxWips)]
Edit ==
  [op : {"update_batch"}, batch : 1..MaxRows, equip : Equipment \cup {None}]
  \cup [op : {"remove_item"}, batch : 1..MaxRows, sample : Samples]

\* The types of the tables; the properties at the end say more than it, and are what is run.
ProposalsTypeOK ==
  /\ sample \in [Samples -> {"incoming", "received", "batched", "gone"}]
  /\ machine \in [Equipment -> {"idle", "working", "faulty", "offline"}]
  /\ proposal \in [Proposals -> {"absent", "draft", "confirmed", "cancelled"}]
  /\ rows \in Seq(Row) /\ Len(rows) <= MaxRows
  /\ wips \in Seq(Wip) /\ Len(wips) <= MaxWips
  /\ plans \subseteq Plan
  /\ edits \subseteq Edit
  /\ crashes \in 0..MaxCrashes

Init ==
  /\ sample \in [Samples -> {"incoming", "received"}]
  /\ machine = [e \in Equipment |-> "idle"]
  /\ proposal = [p \in Proposals |-> "absent"]
  /\ rows = <<>> /\ wips = <<>> /\ plans = {} /\ edits = {} /\ crashes = 0

-----------------------------------------------------------------------------
(* Queries                                                                  *)

BatchesOf(p) == {b \in DOMAIN rows : rows[b].live /\ rows[b].proposal = p}

\* _candidate_equipment: the first idle machine that supports the recipe.
FirstIdle(recipe, reserved) ==
  LET free == {e \in Capable[recipe] \ reserved : machine[e] = "idle"}
  IN  IF free = {} THEN None ELSE CHOOSE e \in free : \A f \in free : CodeOf[e] <= CodeOf[f]

\* The wafers that wait for a recipe.
QueueOf(recipe) == {s \in Samples : sample[s] = "received" /\ RecipeOf[s] = recipe}

\* Where the queue of a recipe is cut.
Cuts(recipe) ==
  LET active == {e \in Capable[recipe] : machine[e] # "offline"}
  IN  Starts(Cardinality(QueueOf(recipe)),
             EffectiveBatchSize(MaxBatchSize[recipe], {Capacity[e] : e \in active}))

\* The chunks of the queues of some recipes, in the order of the keys and within a queue in
\* the order of its wafers, up to max_batches.  There is one such plan.
PlannedChunks(recipes, limit) ==
  LET cuts == {c \in (DOMAIN RecipeOrder) \X (0..Cardinality(Samples)) :
                 RecipeOrder[c[1]] \in recipes /\ c[2] \in Cuts(RecipeOrder[c[1]])}
      precedes(c, d) == c[1] < d[1] \/ (c[1] = d[1] /\ c[2] < d[2])
      chunk(c) == LET r == RecipeOrder[c[1]]
                  IN  [recipe |-> r, items |-> Slice(QueueOf(r), Rank, c[2], MaxBatchSize[r])]
  IN  {[k \in 1..Smaller(limit, Cardinality(cuts)) |-> chunk(all[k])] :
         all \in {c \in SetToSeqs(cuts) : \A j, k \in DOMAIN c : j < k => precedes(c[j], c[k])}}

\* Defect variant: the wafers are checked once, before the first batch is created.
BatchableAtFirst(batches) ==
  \A i \in DOMAIN batches : batches[i] # {} /\ \A s \in batches[i] : sample[s] = "received"

\* create_wip accepts the batches, one after the other: each of waiting wafers, not empty.
Batchable(batches) ==
  /\ \A i \in DOMAIN batches : batches[i] # {} /\ \A s \in batches[i] : sample[s] = "received"
  /\ \A i, j \in DOMAIN batches : i # j => batches[i] \cap batches[j] = {}

Taken(batches) ==
  [s \in Samples |-> IF \E i \in DOMAIN batches : s \in batches[i] THEN "batched" ELSE sample[s]]

\* Defect variant: the items of a deleted row are left behind.
DeletedWithoutItems(row) == [row EXCEPT !.live = FALSE]

\* A deleted row takes its items with it (on_delete=CASCADE).
Deleted(row) == [row EXCEPT !.live = FALSE, !.items = {}, !.equip = None]

WithoutEmptyBatches(p, table) ==
  [b \in DOMAIN table |-> IF table[b].proposal = p /\ table[b].live /\ table[b].items = {}
                            THEN Deleted(table[b]) ELSE table[b]]

\* prune_proposal: wafers that are no longer ready leave, then the batches left empty.
Pruned(p) ==
  LET stale == {s \in Samples : sample[s] # "received"}
  IN  IF \A b \in BatchesOf(p) : rows[b].items \cap stale = {} THEN rows
      ELSE WithoutEmptyBatches(p,
             [b \in DOMAIN rows |-> IF b \in BatchesOf(p)
                THEN [rows[b] EXCEPT !.items = @ \ stale] ELSE rows[b]])

\* _proposal_readiness and WipProposalQueue: the page lists a batch as sent now if it has a
\* machine or one could take it, otherwise as planned.
ShownReady(b) ==
  rows[b].equip # None \/ \E e \in Capable[rows[b].recipe] : machine[e] = "idle"

-----------------------------------------------------------------------------
(* Automatic batching and proposing                                         *)

\* auto_create_wip_batches: one refused batch undoes them all.
AutoCreate(limit) ==
  \E chunks \in PlannedChunks(Recipes, limit) :
    LET batches == [k \in DOMAIN chunks |-> chunks[k].items]
    IN  /\ Len(wips) + Len(chunks) <= MaxWips
        /\ Batchable(batches)
        /\ wips' = wips \o [k \in DOMAIN chunks |->
             [recipe |-> chunks[k].recipe, items |-> batches[k], status |-> "draft", told |-> TRUE]]
        /\ sample' = Taken(batches)
        /\ UNCHANGED <<machine, proposal, rows, plans, edits, crashes>>

\* auto_propose_dispatch_queue: each chunk is a row with the first machine that is idle
\* and not proposed for an earlier chunk.
AutoPropose(p, limit) ==
  \E chunks \in PlannedChunks({r \in Recipes : Capable[r] # {}}, limit) :
    \E given \in [DOMAIN chunks -> Equipment \cup {None}] :
      /\ \A k \in DOMAIN chunks :
           given[k] = FirstIdle(chunks[k].recipe, {given[j] : j \in 1..(k - 1)})
      /\ proposal[p] = "absent" /\ Len(rows) + Len(chunks) <= MaxRows
      /\ proposal' = [proposal EXCEPT ![p] = "draft"]
      /\ rows' = rows \o [k \in DOMAIN chunks |->
           [proposal |-> p, recipe |-> chunks[k].recipe, equip |-> given[k],
            items |-> chunks[k].items, live |-> TRUE]]
      /\ UNCHANGED <<sample, machine, wips, plans, edits, crashes>>

-----------------------------------------------------------------------------
(* Editing: the endpoint loads the row and its proposal, the service trusts  *)
(* them.                                                                    *)

\* An edit that loads a proposal which is no draft is refused at once.
LoadEdit ==
  /\ Cardinality(edits) < MaxEdits
  /\ \E b \in DOMAIN rows :
       /\ rows[b].live /\ proposal[rows[b].proposal] = "draft"
       /\ \/ edits' = edits \cup {[op |-> "update_batch", batch |-> b, equip |-> rows[b].equip]}
          \/ \E s \in rows[b].items :
               edits' = edits \cup {[op |-> "remove_item", batch |-> b, sample |-> s]}
  /\ UNCHANGED <<sample, machine, proposal, rows, wips, plans, crashes>>

\* update_proposal_batch: the payload keeps the machine, clears it or names an active one
\* that supports the recipe.  save() writes every column, and inserts the row again when
\* it was deleted in the meantime.
UpdateBatch(c) ==
  LET b == c.batch
  IN  /\ c \in edits /\ c.op = "update_batch"
      /\ edits' = edits \ {c}
      /\ \E e \in {c.equip, None} \cup {f \in Capable[rows[b].recipe] : machine[f] # "offline"} :
           rows' = [rows EXCEPT ![b].equip = e, ![b].live = TRUE]
      /\ UNCHANGED <<sample, machine, proposal, wips, plans, crashes>>

\* remove_proposal_item
RemoveItem(c) ==
  /\ c \in edits /\ c.op = "remove_item"
  /\ edits' = edits \ {c}
  /\ rows' = WithoutEmptyBatches(rows[c.batch].proposal,
                                 [rows EXCEPT ![c.batch].items = @ \ {c.sample}])
  /\ UNCHANGED <<sample, machine, proposal, wips, plans, crashes>>

\* The edit is refused or abandoned.
DropEdit(c) ==
  /\ c \in edits /\ edits' = edits \ {c}
  /\ UNCHANGED <<sample, machine, proposal, rows, wips, plans, crashes>>

\* list_proposals and get_proposal prune the drafts they show.
PruneProposal(p) ==
  /\ proposal[p] = "draft" /\ rows' = Pruned(p) /\ rows' # rows
  /\ UNCHANGED <<sample, machine, proposal, wips, plans, edits, crashes>>

CancelProposal(p) ==
  /\ proposal[p] = "draft"
  /\ proposal' = [proposal EXCEPT ![p] = "cancelled"]
  /\ UNCHANGED <<sample, machine, rows, wips, plans, edits, crashes>>

-----------------------------------------------------------------------------
(* Confirming, and dispatching what was confirmed                           *)

\* Defect variant: a batch goes on without a machine.
TakesPartUnassigned(e, items) == items # {}

TakesPart(e, items) == e # None /\ items # {}

\* The machines of the loop's batches: one keeps its machine while that is idle, even one an
\* earlier batch has; otherwise it takes the first free one, or stays planned.
Assigned(table, order, given) ==
  \A i \in DOMAIN order :
    LET row == table[order[i]]
    IN  given[order[i]] = IF row.equip # None /\ machine[row.equip] = "idle" THEN row.equip
                          ELSE FirstIdle(row.recipe, {given[order[j]] : j \in 1..(i - 1)})

\* The batches of a loop that are sent, one after the other.
InOrderOf(order, chosen) ==
  \A i, j \in DOMAIN chosen : i < j =>
    \E m, n \in DOMAIN order : m < n /\ order[m] = chosen[i] /\ order[n] = chosen[j]

\* confirm_proposal, with the proposal's row locked.  Users may set the batches' order, so
\* any order is tried.  Nothing is kept when no batch takes part or one is refused.
ConfirmProposal(p) ==
  LET pruned == Pruned(p)
      planned == {b \in BatchesOf(p) : pruned[b].live}
  IN  \E order \in SetToSeqs(planned), given \in [planned -> Equipment \cup {None}] :
        LET sent == {b \in planned : TakesPart(given[b], pruned[b].items)}
        IN  \E chosen \in SetToSeqs(sent) :
              LET batches == [i \in DOMAIN chosen |-> pruned[chosen[i]].items]
              IN  /\ proposal[p] = "draft"
                  /\ Assigned(pruned, order, given) /\ InOrderOf(order, chosen)
                  /\ sent # {} /\ Len(wips) + Len(chosen) <= MaxWips
                  /\ Batchable(batches)
                  /\ rows' = [b \in DOMAIN rows |->
                       CASE b \in sent -> Deleted(pruned[b])
                         [] b \in planned \ sent -> [pruned[b] EXCEPT !.equip = given[b]]
                         [] b \notin planned -> pruned[b]]
                  /\ proposal' = IF sent = planned THEN [proposal EXCEPT ![p] = "confirmed"]
                                 ELSE proposal
                  /\ wips' = wips \o [i \in DOMAIN chosen |->
                       [recipe |-> rows[chosen[i]].recipe, items |-> batches[i],
                        status |-> "ready_for_dispatch", told |-> FALSE]]
                  /\ sample' = Taken(batches)
                  /\ plans' = plans \cup
                       {[todo |-> [i \in DOMAIN chosen |->
                           [wip |-> Len(wips) + i, equip |-> given[chosen[i]]]],
                         failed |-> {}]}
                  /\ UNCHANGED <<machine, edits, crashes>>

\* Defect variant: the error of a dispatch is swallowed.
RefusedSilently(plan) == [plan EXCEPT !.todo = Tail(@)]

\* The error is collected for the manager and the next batch follows.
Refused(plan) == [plan EXCEPT !.todo = Tail(@), !.failed = @ \cup {Head(plan.todo).wip}]

\* queue_dispatches, one create_dispatch; it can always be refused (the number it counted
\* for the job may be taken).
QueueDispatch(plan) ==
  /\ plan \in plans /\ plan.todo # <<>>
  /\ LET entry == Head(plan.todo)
     IN  \/ /\ wips[entry.wip].status = "ready_for_dispatch" /\ machine[entry.equip] = "idle"
            /\ wips' = [wips EXCEPT ![entry.wip].status = "dispatching"]
            /\ machine' = [machine EXCEPT ![entry.equip] = "working"]
            /\ plans' = (plans \ {plan}) \cup {[plan EXCEPT !.todo = Tail(@)]}
         \/ /\ plans' = (plans \ {plan}) \cup {Refused(plan)}
            /\ UNCHANGED <<wips, machine>>
  /\ UNCHANGED <<sample, proposal, rows, edits, crashes>>

\* The managers are told of the batches that need dispatch attention.
ReportPlan(plan) ==
  /\ plan \in plans /\ plan.todo = <<>>
  /\ plans' = plans \ {plan}
  /\ wips' = [w \in DOMAIN wips |-> IF w \in plan.failed THEN [wips[w] EXCEPT !.told = TRUE] ELSE wips[w]]
  /\ UNCHANGED <<sample, machine, proposal, rows, edits, crashes>>

\* The process dies after the commit, or a notification raises: the rest of its callback
\* is lost.
LosePlan(plan) ==
  /\ plan \in plans /\ crashes < MaxCrashes
  /\ crashes' = crashes + 1
  /\ plans' = plans \ {plan}
  /\ UNCHANGED <<sample, machine, proposal, rows, wips, edits>>

-----------------------------------------------------------------------------
(* What the rest of the laboratory does (LabWorkflow), as seen from here     *)

\* A wafer is received; or it is rejected, or batched by hand.
SampleChanges(s) ==
  /\ \/ sample[s] = "incoming" /\ sample' = [sample EXCEPT ![s] = "received"]
     \/ sample[s] = "received" /\ sample' = [sample EXCEPT ![s] = "gone"]
  /\ UNCHANGED <<machine, proposal, rows, wips, plans, edits, crashes>>

\* A job ends, a machine fails, a manager stops or starts it.
MachineChanges(e) ==
  /\ \E status \in {"idle", "faulty", "offline"} : machine' = [machine EXCEPT ![e] = status]
  /\ UNCHANGED <<sample, proposal, rows, wips, plans, edits, crashes>>

\* A lab user locks, dispatches or cancels a batch by hand.  The wafers of a cancelled batch
\* are not batched again: their experiments stay in it.  What becomes of a batch once it is
\* dispatched is LabWorkflow's.
BatchByHand(w) ==
  /\ \/ /\ wips[w].status \in {"draft", "ready_for_dispatch"}
        /\ wips' = [wips EXCEPT ![w].status = "cancelled"]
        /\ UNCHANGED machine
     \/ /\ wips[w].status = "draft"
        /\ wips' = [wips EXCEPT ![w].status = "ready_for_dispatch"]
        /\ UNCHANGED machine
     \/ /\ wips[w].status = "ready_for_dispatch"
        /\ wips' = [wips EXCEPT ![w].status = "dispatching"]
        /\ \E e \in Capable[wips[w].recipe] :
             machine[e] = "idle" /\ machine' = [machine EXCEPT ![e] = "working"]
  /\ UNCHANGED <<sample, proposal, rows, plans, edits, crashes>>

Limits == 1..Cardinality(Samples)

Next ==
  \/ \E limit \in Limits : AutoCreate(limit) \/ \E p \in Proposals : AutoPropose(p, limit)
  \/ LoadEdit
  \/ \E c \in edits : UpdateBatch(c) \/ RemoveItem(c) \/ DropEdit(c)
  \/ \E p \in Proposals : PruneProposal(p) \/ CancelProposal(p) \/ ConfirmProposal(p)
  \/ \E plan \in plans : QueueDispatch(plan) \/ ReportPlan(plan) \/ LosePlan(plan)
  \/ \E s \in Samples : SampleChanges(s)
  \/ \E e \in Equipment : MachineChanges(e)
  \/ \E w \in DOMAIN wips : BatchByHand(w)

Spec == Init /\ [][Next]_vars

-----------------------------------------------------------------------------
(* Properties                                                               *)

\* A wafer is in at most one batch, although chunks overlap, proposals of the same wafers
\* coexist and wafers are received and rejected under an open proposal.
WaferBatchedOnce ==
  \A v, w \in DOMAIN wips : v # w => wips[v].items \cap wips[w].items = {}

\* A confirmed proposal has no wafer left to batch, whatever edit was in flight: an edit
\* can bring a deleted batch back, never its wafers.
ConfirmedProposalHasNoWafer ==
  \A p \in Proposals : proposal[p] = "confirmed" => \A b \in BatchesOf(p) : rows[b].items = {}

\* A batch that a confirmation locked and nobody dispatched is still in the plan of a
\* running callback, or the managers were told, as long as no process died in between.
LockedBatchIsFollowedUp ==
  crashes = 0 => \A w \in DOMAIN wips :
    wips[w].status = "ready_for_dispatch" /\ ~wips[w].told =>
      \E plan \in plans :
        w \in plan.failed \/ \E i \in DOMAIN plan.todo : plan.todo[i].wip = w

\* The page says of every batch whether it is sent now or stays queued: a confirmation may
\* send fewer than it says (two batches can hope for one machine), never a wafer of a batch
\* that is shown as planned, nor one that no batch of a draft shows.
ConfirmTakesWhatIsReady ==
  [][\A s \in Samples : plans' \ plans # {} /\ sample[s] # "batched" /\ sample'[s] = "batched" =>
       \E b \in DOMAIN rows : /\ rows[b].live /\ s \in rows[b].items /\ ShownReady(b)
                             /\ proposal[rows[b].proposal] = "draft"]_vars
=============================================================================
