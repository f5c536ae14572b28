------------------------------ MODULE LabData ------------------------------
(***************************************************************************)
(* The relational tables the laboratory workflow works on: commission      *)
(* requests, their samples (wafers), the experiments each wafer needs, the  *)
(* WIP batches, the dispatch jobs and the equipment.  Every component of    *)
(* the workflow reads and writes these tables and nothing else that lasts.  *)
(* A table is one function per column that some guard reads; the choices   *)
(* of a status column are those of the Django model.                        *)
(***************************************************************************)
EXTENDS Naturals, FiniteSets

CONSTANTS
  Requests,      \* commission requests
  Samples,       \* wafers
  Experiments,   \* one per (wafer, required experiment)
  Recipes,       \* active recipes, one per experiment type
  Wips,          \* identifiers a WIP batch can take
  Jobs,          \* identifiers a dispatch job can take
  Equipment,     \* machines
  None,          \* a null foreign key
  RequestOf,     \* the request a sample belongs to
  SampleOf,      \* the sample an experiment belongs to
  SeqNo,         \* the position of an experiment in its wafer's plan
  RecipeOf,      \* the recipe that performs an experiment
  Capable        \* the machines that support a recipe

ASSUME ForeignKeysAssumption ==
  /\ RequestOf \in [Samples -> Requests]
  /\ SampleOf \in [Experiments -> Samples]
  /\ RecipeOf \in [Experiments -> Recipes]
  /\ Capable \in [Recipes -> SUBSET Equipment]

\* create_request numbers a wafer's experiments 1, 2, ... in the order asked.
ASSUME SequenceAssumption ==
  /\ SeqNo \in [Experiments -> Nat]
  /\ \A x, y \in Experiments :
       SampleOf[x] = SampleOf[y] /\ SeqNo[x] = SeqNo[y] => x = y

ASSUME NullAssumption == None \notin Wips \cup Jobs

VARIABLES
  reqStatus,     \* CommissionRequest.status
  sampleStatus,  \* Sample.status
  sampleWip,     \* Sample.current_wip
  expStatus,     \* SampleExperiment.status
  expWip,        \* SampleExperiment.current_wip
  wipStatus,     \* WipBatch.status, "absent" before the row exists
  wipItems,      \* the samples of the batch's WipItem rows
  wipRecipe,     \* WipBatch.recipe
  jobStatus,     \* DispatchJob.status, "absent" before the row exists
  jobWip,        \* DispatchJob.wip
  jobEquip,      \* DispatchJob.equipment
  jobConfirmed,  \* DispatchJob.final_confirmed_at is set
  jobResult,     \* the verdict of its ExperimentResult row, "none" without one
  eqStatus,      \* Equipment.status
  eqCurrent,     \* Equipment.current_dispatch
  eqActive       \* Equipment.is_active

requestTable    == <<reqStatus>>
sampleTable     == <<sampleStatus, sampleWip>>
experimentTable == <<expStatus, expWip>>
wipTable        == <<wipStatus, wipItems, wipRecipe>>
jobTable        == <<jobStatus, jobWip, jobEquip, jobConfirmed, jobResult>>
equipmentTable  == <<eqStatus, eqCurrent, eqActive>>
tables == <<requestTable, sampleTable, experimentTable, wipTable, jobTable, equipmentTable>>

-----------------------------------------------------------------------------
RequestStatus ==
  {"draft", "submitted", "waiting_approval", "approved", "rejected",
   "waiting_sample_receive", "received", "in_wip", "queued", "running",
   "final_check", "completed", "closed", "cancelled"}

SampleStatus ==
  {"pending_receive", "received", "rejected", "in_wip", "queued", "running",
   "completed", "failed"}

ExperimentStatus ==
  {"pending", "ready", "in_wip", "running", "completed", "failed", "cancelled"}

WipStatus ==
  {"draft", "ready_for_dispatch", "dispatching", "running", "completed",
   "failed", "cancelled"}

DispatchStatus ==
  {"pending", "queued", "assigned", "running", "paused", "completed", "failed",
   "retrying", "cancelled"}

EquipmentStatus == {"idle", "working", "faulty", "maintenance", "offline"}

Active   == {"in_wip", "running"}                 \* the wafer is in a batch for it
Waiting  == {"pending", "ready"}                  \* still to be batched
Finished == {"completed", "failed", "cancelled"}

-----------------------------------------------------------------------------
(* Queries: reverse foreign keys and the filters several handlers share.   *)

SamplesOf(r) == {s \in Samples : RequestOf[s] = r}
ExperimentsOf(s) == {x \in Experiments : SampleOf[x] = s}
RequestsIn(S) == {RequestOf[s] : s \in S}
ExistingWips == {w \in Wips : wipStatus[w] # "absent"}
ExistingJobs == {j \in Jobs : jobStatus[j] # "absent"}
JobsOf(w) == {j \in ExistingJobs : jobWip[j] = w}

\* f with the value v at every key of S (a queryset's update, a loop of saves).
Update(f, S, v) == [k \in DOMAIN f |-> IF k \in S THEN v ELSE f[k]]

TypeOK ==
  /\ reqStatus \in [Requests -> RequestStatus]
  /\ sampleStatus \in [Samples -> SampleStatus]
  /\ sampleWip \in [Samples -> Wips \cup {None}]
  /\ expStatus \in [Experiments -> ExperimentStatus]
  /\ expWip \in [Experiments -> Wips \cup {None}]
  /\ wipStatus \in [Wips -> WipStatus \cup {"absent"}]
  /\ wipItems \in [Wips -> SUBSET Samples]
  /\ wipRecipe \in [Wips -> Recipes \cup {None}]
  /\ jobStatus \in [Jobs -> DispatchStatus \cup {"absent"}]
  /\ jobWip \in [Jobs -> Wips \cup {None}]
  /\ jobEquip \in [Jobs -> Equipment \cup {None}]
  /\ jobConfirmed \in [Jobs -> BOOLEAN]
  /\ jobResult \in [Jobs -> {"none", "pass", "fail"}]
  /\ eqStatus \in [Equipment -> EquipmentStatus]
  /\ eqCurrent \in [Equipment -> Jobs \cup {None}]
  /\ eqActive \in [Equipment -> BOOLEAN]

\* An approved request whose wafers are on their way to the lab, and nothing batched yet.
InitTables ==
  /\ reqStatus = [r \in Requests |-> "waiting_sample_receive"]
  /\ sampleStatus = [s \in Samples |-> "pending_receive"]
  /\ sampleWip = [s \in Samples |-> None]
  /\ expStatus = [x \in Experiments |->
       IF \E y \in ExperimentsOf(SampleOf[x]) : SeqNo[y] < SeqNo[x] THEN "pending" ELSE "ready"]
  /\ expWip = [x \in Experiments |-> None]
  /\ wipStatus = [w \in Wips |-> "absent"]
  /\ wipItems = [w \in Wips |-> {}]
  /\ wipRecipe = [w \in Wips |-> None]
  /\ jobStatus = [j \in Jobs |-> "absent"]
  /\ jobWip = [j \in Jobs |-> None]
  /\ jobEquip = [j \in Jobs |-> None]
  /\ jobConfirmed = [j \in Jobs |-> FALSE]
  /\ jobResult = [j \in Jobs |-> "none"]
  /\ eqStatus = [e \in Equipment |-> "idle"]
  /\ eqCurrent = [e \in Equipment |-> None]
  /\ eqActive = [e \in Equipment |-> TRUE]
=============================================================================
