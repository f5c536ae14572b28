---------------------------- MODULE WipBatches -----------------------------
(***************************************************************************)
(* WIP batches (apps/wip): wafers that wait for the same experiment are     *)
(* grouped into a batch, the batch is locked for dispatch or cancelled.     *)
(***************************************************************************)
EXTENDS LabData

\* _request_allows_wip
RequestAllowsWip ==
  {"approved", "waiting_sample_receive", "received", "in_wip", "queued",
   "running", "final_check"}

\* Defect variant: the sequence of the wafer's experiments is ignored.
NextReadyUnordered(s) ==
  {x \in ExperimentsOf(s) :
     /\ \A y \in ExperimentsOf(s) : expStatus[y] \notin Active /\ expWip[y] = None
     /\ expStatus[x] \in Waiting}

\* _next_ready_sample_experiment as a set: empty for None.  No experiment of the wafer
\* may be in a batch; of those still waiting the first in sequence is next.
NextReady(s) ==
  {x \in ExperimentsOf(s) :
     /\ \A y \in ExperimentsOf(s) : expStatus[y] \notin Active /\ expWip[y] = None
     /\ expStatus[x] \in Waiting
     /\ \A y \in ExperimentsOf(s) : SeqNo[y] < SeqNo[x] => expStatus[y] \in Finished}

\* _validate_samples: every wafer is received, free, and waits for this recipe.
SampleReady(s, recipe) ==
  /\ sampleStatus[s] = "received"
  /\ sampleWip[s] = None
  /\ \E x \in NextReady(s) : RecipeOf[x] = recipe
  /\ reqStatus[RequestOf[s]] \in RequestAllowsWip

\* create_wip: the samples and their experiments are locked (select_for_update) from
\* validation to commit, so the handler is one step over current rows.
CreateWip(w, S, recipe) ==
  /\ wipStatus[w] = "absent"
  /\ S # {}
  /\ \A s \in S : SampleReady(s, recipe)
  /\ LET taken == UNION {NextReady(s) : s \in S}
     IN  /\ expStatus' = Update(expStatus, taken, "in_wip")
         /\ expWip' = Update(expWip, taken, w)
  /\ wipStatus' = [wipStatus EXCEPT ![w] = "draft"]
  /\ wipItems' = [wipItems EXCEPT ![w] = S]
  /\ wipRecipe' = [wipRecipe EXCEPT ![w] = recipe]
  /\ sampleStatus' = Update(sampleStatus, S, "in_wip")
  /\ sampleWip' = Update(sampleWip, S, w)
  /\ reqStatus' = [r \in Requests |->
       IF r \in RequestsIn(S) /\ reqStatus[r] \in {"approved", "waiting_sample_receive", "received"}
         THEN "in_wip" ELSE reqStatus[r]]
  /\ UNCHANGED <<jobTable, equipmentTable>>

\* lock_wip: `seen' is the status of the row the endpoint loaded.
LockWip(w, seen) ==
  /\ seen = "draft"
  /\ wipItems[w] # {}
  /\ wipStatus' = [wipStatus EXCEPT ![w] = "ready_for_dispatch"]
  /\ UNCHANGED <<requestTable, sampleTable, experimentTable, wipItems, wipRecipe, jobTable, equipmentTable>>

\* cancel_wip: every wafer of the batch goes back to RECEIVED; its experiments stay.
\* _set_wip_status writes nothing when the loaded row was already CANCELLED.
CancelWip(w, seen) ==
  /\ seen \notin {"running", "completed"}
  /\ sampleStatus' = Update(sampleStatus, wipItems[w], "received")
  /\ sampleWip' = Update(sampleWip, wipItems[w], None)
  /\ wipStatus' = IF seen = "cancelled" THEN wipStatus ELSE [wipStatus EXCEPT ![w] = "cancelled"]
  /\ UNCHANGED <<requestTable, experimentTable, wipItems, wipRecipe, jobTable, equipmentTable>>
=============================================================================
