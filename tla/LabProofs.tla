----------------------------- MODULE LabProofs -----------------------------
(***************************************************************************)
(* Proofs about the laboratory workflow, for every laboratory: any number   *)
(* of requests, wafers, experiments, machines, workers, calls in flight and *)
(* crashes.                                                                 *)
(***************************************************************************)
EXTENDS LabProperties, TLAPS

\* The tuples of columns are only a way to write UNCHANGED.
USE DEF tables, requestTable, sampleTable, experimentTable, wipTable, jobTable,
        equipmentTable, environment, otherTables

\* The part of the type invariant a handler works on: everything but the calls.
StateInv == TypeOK /\ EnvironmentTypeOK /\ JobRowsExist /\ OpeningRowsExist /\ TaskRowsExist

\* Rows are never deleted.
RowsKept ==
  /\ \A w \in Wips : wipStatus[w] # "absent" => wipStatus'[w] # "absent"
  /\ \A j \in Jobs : jobStatus[j] # "absent" => jobStatus'[j] # "absent"

TypeInv == LabTypeOK /\ RowsExist

-----------------------------------------------------------------------------
(* The updates the handlers are written with                               *)

LEMMA UpdateType ==
  ASSUME NEW D, NEW R, NEW f \in [D -> R], NEW S, NEW v \in R
  PROVE  Update(f, S, v) \in [D -> R]
BY DEF Update

-----------------------------------------------------------------------------
(* Type correctness                                                        *)

LEMMA InitType == Init => TypeInv
<1> SUFFICES ASSUME Init PROVE TypeInv
  OBVIOUS
<1>1. TypeOK
  BY DEF Init, InitTables, TypeOK, RequestStatus, SampleStatus, ExperimentStatus, WipStatus,
         DispatchStatus, EquipmentStatus
<1>2. EnvironmentTypeOK
  BY DEF Init, InitEnvironment, EnvironmentTypeOK, NoTask, Task
<1>3. calls \subseteq Call /\ crashes \in 0..MaxCrashes
  BY BoundsAssumption DEF Init
<1>4. RowsExist
  BY DEF Init, InitTables, InitEnvironment, RowsExist, JobRowsExist, OpeningRowsExist,
         TaskRowsExist, NoTask
<1> QED
  BY <1>1, <1>2, <1>3, <1>4 DEF TypeInv, LabTypeOK

LEMMA ReceiveSampleType ==
  ASSUME StateInv, NEW s \in Samples, NEW seen, NEW wip \in Wips \cup {None}, NEW req,
         ReceiveSample(s, seen, wip, req), UNCHANGED environment
  PROVE  StateInv' /\ RowsKept
<1>1. TypeOK'
  BY ForeignKeysAssumption, UpdateType DEF StateInv, TypeOK, ReceiveSample, SampleStatus,
     RequestStatus
<1>2. EnvironmentTypeOK' /\ JobRowsExist' /\ OpeningRowsExist' /\ TaskRowsExist' /\ RowsKept
  BY NullAssumption DEF StateInv, TypeOK, EnvironmentTypeOK, JobRowsExist, OpeningRowsExist,
     TaskRowsExist, RowsKept, ReceiveSample
<1> QED
  BY <1>1, <1>2 DEF StateInv

LEMMA RejectSampleType ==
  ASSUME StateInv, NEW s \in Samples, NEW seen, NEW req,
         RejectSample(s, seen, req), UNCHANGED environment
  PROVE  StateInv' /\ RowsKept
<1>1. TypeOK'
  BY ForeignKeysAssumption, UpdateType DEF StateInv, TypeOK, RejectSample, SampleStatus,
     RequestStatus
<1>2. EnvironmentTypeOK' /\ JobRowsExist' /\ OpeningRowsExist' /\ TaskRowsExist' /\ RowsKept
  BY NullAssumption DEF StateInv, TypeOK, EnvironmentTypeOK, JobRowsExist, OpeningRowsExist,
     TaskRowsExist, RowsKept, RejectSample
<1> QED
  BY <1>1, <1>2 DEF StateInv

LEMMA CancelRequestType ==
  ASSUME StateInv, NEW r \in Requests, NEW seen,
         CancelRequest(r, seen), UNCHANGED environment
  PROVE  StateInv' /\ RowsKept
<1>1. TypeOK'
  BY ForeignKeysAssumption, UpdateType DEF StateInv, TypeOK, CancelRequest, SampleStatus,
     RequestStatus
<1>2. EnvironmentTypeOK' /\ JobRowsExist' /\ OpeningRowsExist' /\ TaskRowsExist' /\ RowsKept
  BY NullAssumption DEF StateInv, TypeOK, EnvironmentTypeOK, JobRowsExist, OpeningRowsExist,
     TaskRowsExist, RowsKept, CancelRequest
<1> QED
  BY <1>1, <1>2 DEF StateInv

LEMMA CloseRequestType ==
  ASSUME StateInv, NEW r \in Requests, NEW seen,
         CloseRequest(r, seen), UNCHANGED environment
  PROVE  StateInv' /\ RowsKept
<1>1. TypeOK'
  BY ForeignKeysAssumption, UpdateType DEF StateInv, TypeOK, CloseRequest, SampleStatus,
     RequestStatus
<1>2. EnvironmentTypeOK' /\ JobRowsExist' /\ OpeningRowsExist' /\ TaskRowsExist' /\ RowsKept
  BY NullAssumption DEF StateInv, TypeOK, EnvironmentTypeOK, JobRowsExist, OpeningRowsExist,
     TaskRowsExist, RowsKept, CloseRequest
<1> QED
  BY <1>1, <1>2 DEF StateInv

LEMMA UpdateSampleStatusType ==
  ASSUME StateInv, NEW s \in Samples, NEW status \in SampleStatus,
         UpdateSampleStatus(s, status), UNCHANGED environment
  PROVE  StateInv' /\ RowsKept
<1>1. TypeOK'
  BY ForeignKeysAssumption, UpdateType DEF StateInv, TypeOK, UpdateSampleStatus
<1>2. EnvironmentTypeOK' /\ JobRowsExist' /\ OpeningRowsExist' /\ TaskRowsExist' /\ RowsKept
  BY NullAssumption DEF StateInv, TypeOK, EnvironmentTypeOK, JobRowsExist, OpeningRowsExist,
     TaskRowsExist, RowsKept, UpdateSampleStatus
<1> QED
  BY <1>1, <1>2 DEF StateInv

LEMMA CreateWipType ==
  ASSUME StateInv, NEW w \in Wips, NEW S \in SUBSET Samples, NEW recipe \in Recipes,
         CreateWip(w, S, recipe), UNCHANGED environment
  PROVE  StateInv' /\ RowsKept
<1>1. TypeOK'
  BY ForeignKeysAssumption, UpdateType DEF StateInv, TypeOK, CreateWip, SampleStatus,
     RequestStatus, WipStatus, ExperimentStatus
<1>2. EnvironmentTypeOK' /\ JobRowsExist' /\ OpeningRowsExist' /\ TaskRowsExist' /\ RowsKept
  BY NullAssumption DEF StateInv, TypeOK, EnvironmentTypeOK, JobRowsExist, OpeningRowsExist,
     TaskRowsExist, RowsKept, CreateWip
<1> QED
  BY <1>1, <1>2 DEF StateInv

LEMMA LockWipType ==
  ASSUME StateInv, NEW w \in Wips, NEW seen,
         LockWip(w, seen), UNCHANGED environment
  PROVE  StateInv' /\ RowsKept
<1>1. TypeOK'
  BY ForeignKeysAssumption, UpdateType DEF StateInv, TypeOK, LockWip, WipStatus
<1>2. EnvironmentTypeOK' /\ JobRowsExist' /\ OpeningRowsExist' /\ TaskRowsExist' /\ RowsKept
  BY NullAssumption DEF StateInv, TypeOK, EnvironmentTypeOK, JobRowsExist, OpeningRowsExist,
     TaskRowsExist, RowsKept, LockWip
<1> QED
  BY <1>1, <1>2 DEF StateInv

LEMMA CancelWipType ==
  ASSUME StateInv, NEW w \in Wips, NEW seen,
         CancelWip(w, seen), UNCHANGED environment
  PROVE  StateInv' /\ RowsKept
<1>1. TypeOK'
  BY ForeignKeysAssumption, UpdateType DEF StateInv, TypeOK, CancelWip, SampleStatus, WipStatus
<1>2. EnvironmentTypeOK' /\ JobRowsExist' /\ OpeningRowsExist' /\ TaskRowsExist' /\ RowsKept
  BY NullAssumption DEF StateInv, TypeOK, EnvironmentTypeOK, JobRowsExist, OpeningRowsExist,
     TaskRowsExist, RowsKept, CancelWip
<1> QED
  BY <1>1, <1>2 DEF StateInv

LEMMA CommitDispatchType ==
  ASSUME StateInv, NEW o,
         CommitDispatch(o)
  PROVE  StateInv' /\ RowsKept
<1>1. TypeOK'
  BY ForeignKeysAssumption, UpdateType DEF StateInv, TypeOK, CommitDispatch, EnvironmentTypeOK,
     Opening, DispatchStatus, EquipmentStatus, SampleStatus, RequestStatus, WipStatus,
     ExperimentStatus
<1>2. EnvironmentTypeOK' /\ JobRowsExist' /\ OpeningRowsExist' /\ TaskRowsExist' /\ RowsKept
  BY NullAssumption DEF StateInv, TypeOK, EnvironmentTypeOK, JobRowsExist, OpeningRowsExist,
     TaskRowsExist, RowsKept, CommitDispatch, Opening
<1> QED
  BY <1>1, <1>2 DEF StateInv

LEMMA AbortDispatchType ==
  ASSUME StateInv, NEW o,
         AbortDispatch(o)
  PROVE  StateInv' /\ RowsKept
<1>1. TypeOK'
  BY ForeignKeysAssumption, UpdateType DEF StateInv, TypeOK, AbortDispatch
<1>2. EnvironmentTypeOK' /\ JobRowsExist' /\ OpeningRowsExist' /\ TaskRowsExist' /\ RowsKept
  BY NullAssumption DEF StateInv, TypeOK, EnvironmentTypeOK, JobRowsExist, OpeningRowsExist,
     TaskRowsExist, RowsKept, AbortDispatch
<1> QED
  BY <1>1, <1>2 DEF StateInv

LEMMA CancelDispatchType ==
  ASSUME StateInv, NEW j \in Jobs, jobStatus[j] # "absent", NEW seen, NEW confirmed \in BOOLEAN, NEW active \in BOOLEAN,
         CancelDispatch(j, seen, confirmed, active)
  PROVE  StateInv' /\ RowsKept
<1>1. TypeOK'
  BY ForeignKeysAssumption, UpdateType DEF StateInv, TypeOK, CancelDispatch, JobRowsExist,
     DispatchStatus, EquipmentStatus
<1>2. EnvironmentTypeOK' /\ JobRowsExist' /\ OpeningRowsExist' /\ TaskRowsExist' /\ RowsKept
  BY NullAssumption DEF StateInv, TypeOK, EnvironmentTypeOK, JobRowsExist, OpeningRowsExist,
     TaskRowsExist, RowsKept, CancelDispatch
<1> QED
  BY <1>1, <1>2 DEF StateInv

LEMMA FinalConfirmType ==
  ASSUME StateInv, NEW j \in Jobs,
         FinalConfirm(j)
  PROVE  StateInv' /\ RowsKept
<1>1. TypeOK'
  BY ForeignKeysAssumption, UpdateType DEF StateInv, TypeOK, FinalConfirm,
     StatusAfterFinalCheck, RequestStatus
<1>2. EnvironmentTypeOK' /\ JobRowsExist' /\ OpeningRowsExist' /\ TaskRowsExist' /\ RowsKept
  BY NullAssumption DEF StateInv, TypeOK, EnvironmentTypeOK, JobRowsExist, OpeningRowsExist,
     TaskRowsExist, RowsKept, FinalConfirm
<1> QED
  BY <1>1, <1>2 DEF StateInv

LEMMA TakeMessageType ==
  ASSUME StateInv, NEW k \in Workers, NEW j \in Jobs,
         TakeMessage(k, j)
  PROVE  StateInv' /\ RowsKept
<1>1. TypeOK'
  BY ForeignKeysAssumption, UpdateType DEF StateInv, TypeOK, TakeMessage
<1>2. EnvironmentTypeOK' /\ JobRowsExist' /\ OpeningRowsExist' /\ TaskRowsExist' /\ RowsKept
  BY NullAssumption DEF StateInv, TypeOK, EnvironmentTypeOK, JobRowsExist, OpeningRowsExist,
     TaskRowsExist, RowsKept, TakeMessage, Task
<1> QED
  BY <1>1, <1>2 DEF StateInv

LEMMA MissDispatchType ==
  ASSUME StateInv, NEW k \in Workers, NEW j \in Jobs,
         MissDispatch(k, j)
  PROVE  StateInv' /\ RowsKept
<1>1. TypeOK'
  BY ForeignKeysAssumption, UpdateType DEF StateInv, TypeOK, MissDispatch
<1>2. EnvironmentTypeOK' /\ JobRowsExist' /\ OpeningRowsExist' /\ TaskRowsExist' /\ RowsKept
  BY NullAssumption DEF StateInv, TypeOK, EnvironmentTypeOK, JobRowsExist, OpeningRowsExist,
     TaskRowsExist, RowsKept, MissDispatch
<1> QED
  BY <1>1, <1>2 DEF StateInv

LEMMA StartRunType ==
  ASSUME StateInv, NEW k \in Workers,
         StartRun(k)
  PROVE  StateInv' /\ RowsKept
<1>1. TypeOK'
  BY ForeignKeysAssumption, UpdateType DEF StateInv, TypeOK, StartRun, EnvironmentTypeOK, Task,
     TaskRowsExist, JobRowsExist, DispatchStatus, EquipmentStatus, SampleStatus, RequestStatus,
     WipStatus, ExperimentStatus
<1>2. EnvironmentTypeOK' /\ JobRowsExist' /\ OpeningRowsExist' /\ TaskRowsExist' /\ RowsKept
  BY NullAssumption DEF StateInv, TypeOK, EnvironmentTypeOK, JobRowsExist, OpeningRowsExist,
     TaskRowsExist, RowsKept, StartRun, Task
<1> QED
  BY <1>1, <1>2 DEF StateInv

LEMMA FailRunType ==
  ASSUME StateInv, NEW k \in Workers,
         FailRun(k)
  PROVE  StateInv' /\ RowsKept
<1>1. TypeOK'
  BY ForeignKeysAssumption, UpdateType DEF StateInv, TypeOK, FailRun, TaskRowsExist,
     JobRowsExist, DispatchStatus, EquipmentStatus, SampleStatus, RequestStatus, WipStatus,
     ExperimentStatus
<1>2. EnvironmentTypeOK' /\ JobRowsExist' /\ OpeningRowsExist' /\ TaskRowsExist' /\ RowsKept
  BY NullAssumption DEF StateInv, TypeOK, EnvironmentTypeOK, JobRowsExist, OpeningRowsExist,
     TaskRowsExist, RowsKept, FailRun, Task
<1> QED
  BY <1>1, <1>2 DEF StateInv

LEMMA AcknowledgeType ==
  ASSUME StateInv, NEW k \in Workers,
         Acknowledge(k)
  PROVE  StateInv' /\ RowsKept
<1>1. TypeOK'
  BY ForeignKeysAssumption, UpdateType DEF StateInv, TypeOK, Acknowledge
<1>2. EnvironmentTypeOK' /\ JobRowsExist' /\ OpeningRowsExist' /\ TaskRowsExist' /\ RowsKept
  BY NullAssumption DEF StateInv, TypeOK, EnvironmentTypeOK, JobRowsExist, OpeningRowsExist,
     TaskRowsExist, RowsKept, Acknowledge, Task, NoTask
<1> QED
  BY <1>1, <1>2 DEF StateInv

LEMMA WorkerDiesType ==
  ASSUME StateInv, NEW k \in Workers,
         WorkerDies(k)
  PROVE  StateInv' /\ RowsKept
<1>1. TypeOK'
  BY ForeignKeysAssumption, UpdateType DEF StateInv, TypeOK, WorkerDies
<1>2. EnvironmentTypeOK' /\ JobRowsExist' /\ OpeningRowsExist' /\ TaskRowsExist' /\ RowsKept
  BY NullAssumption DEF StateInv, TypeOK, EnvironmentTypeOK, JobRowsExist, OpeningRowsExist,
     TaskRowsExist, RowsKept, WorkerDies, Task, NoTask
<1> QED
  BY <1>1, <1>2 DEF StateInv

LEMMA PoolProcessDiesType ==
  ASSUME StateInv, NEW k \in Workers,
         PoolProcessDies(k)
  PROVE  StateInv' /\ RowsKept
<1>1. TypeOK'
  BY ForeignKeysAssumption, UpdateType DEF StateInv, TypeOK, PoolProcessDies
<1>2. EnvironmentTypeOK' /\ JobRowsExist' /\ OpeningRowsExist' /\ TaskRowsExist' /\ RowsKept
  BY NullAssumption DEF StateInv, TypeOK, EnvironmentTypeOK, JobRowsExist, OpeningRowsExist,
     TaskRowsExist, RowsKept, PoolProcessDies, Task, NoTask
<1> QED
  BY <1>1, <1>2 DEF StateInv

LEMMA MarkMaintenanceType ==
  ASSUME StateInv, NEW e \in Equipment,
         MarkMaintenance(e), UNCHANGED environment
  PROVE  StateInv' /\ RowsKept
<1>1. TypeOK'
  BY ForeignKeysAssumption, UpdateType DEF StateInv, TypeOK, MarkMaintenance, EquipmentStatus
<1>2. EnvironmentTypeOK' /\ JobRowsExist' /\ OpeningRowsExist' /\ TaskRowsExist' /\ RowsKept
  BY NullAssumption DEF StateInv, TypeOK, EnvironmentTypeOK, JobRowsExist, OpeningRowsExist,
     TaskRowsExist, RowsKept, MarkMaintenance
<1> QED
  BY <1>1, <1>2 DEF StateInv

LEMMA ActivateEquipmentType ==
  ASSUME StateInv, NEW e \in Equipment,
         ActivateEquipment(e), UNCHANGED environment
  PROVE  StateInv' /\ RowsKept
<1>1. TypeOK'
  BY ForeignKeysAssumption, UpdateType DEF StateInv, TypeOK, ActivateEquipment, EquipmentStatus
<1>2. EnvironmentTypeOK' /\ JobRowsExist' /\ OpeningRowsExist' /\ TaskRowsExist' /\ RowsKept
  BY NullAssumption DEF StateInv, TypeOK, EnvironmentTypeOK, JobRowsExist, OpeningRowsExist,
     TaskRowsExist, RowsKept, ActivateEquipment
<1> QED
  BY <1>1, <1>2 DEF StateInv

LEMMA DeactivateEquipmentType ==
  ASSUME StateInv, NEW e \in Equipment,
         DeactivateEquipment(e), UNCHANGED environment
  PROVE  StateInv' /\ RowsKept
<1>1. TypeOK'
  BY ForeignKeysAssumption, UpdateType DEF StateInv, TypeOK, DeactivateEquipment,
     EquipmentStatus
<1>2. EnvironmentTypeOK' /\ JobRowsExist' /\ OpeningRowsExist' /\ TaskRowsExist' /\ RowsKept
  BY NullAssumption DEF StateInv, TypeOK, EnvironmentTypeOK, JobRowsExist, OpeningRowsExist,
     TaskRowsExist, RowsKept, DeactivateEquipment
<1> QED
  BY <1>1, <1>2 DEF StateInv

LEMMA UpdateEquipmentType ==
  ASSUME StateInv, NEW e \in Equipment, NEW status \in EquipmentStatus, NEW current \in Jobs \cup {None}, NEW active \in BOOLEAN,
         UpdateEquipment(e, status, current, active), UNCHANGED environment
  PROVE  StateInv' /\ RowsKept
<1>1. TypeOK'
  BY ForeignKeysAssumption, UpdateType DEF StateInv, TypeOK, UpdateEquipment
<1>2. EnvironmentTypeOK' /\ JobRowsExist' /\ OpeningRowsExist' /\ TaskRowsExist' /\ RowsKept
  BY NullAssumption DEF StateInv, TypeOK, EnvironmentTypeOK, JobRowsExist, OpeningRowsExist,
     TaskRowsExist, RowsKept, UpdateEquipment
<1> QED
  BY <1>1, <1>2 DEF StateInv
\* A step that only adds one transaction, or replaces it.
LEMMA OpeningType ==
  ASSUME StateInv, NEW o \in Opening, wipStatus[o.wip] # "absent",
         o.retryOf # None => jobStatus[o.retryOf] # "absent",
         opening' \subseteq opening \cup {o},
         broker' \in [Jobs -> {"none", "ready", "held", "acked"}], UNCHANGED <<tables, task>>
  PROVE  StateInv' /\ RowsKept
<1>1. TypeOK' /\ JobRowsExist' /\ TaskRowsExist' /\ RowsKept
  BY DEF StateInv, TypeOK, JobRowsExist, TaskRowsExist, RowsKept
<1>2. EnvironmentTypeOK' /\ OpeningRowsExist'
  BY DEF StateInv, EnvironmentTypeOK, OpeningRowsExist
<1> QED
  BY <1>1, <1>2 DEF StateInv

LEMMA BeginDispatchType ==
  ASSUME StateInv, NEW w \in Wips, NEW e \in Equipment, NEW j \in Jobs, BeginDispatch(w, e, j)
  PROVE  StateInv' /\ RowsKept
<1> DEFINE o == [job |-> j, wip |-> w, equip |-> e, retryOf |-> None, sent |-> FALSE]
<1>1. o \in Opening /\ o.wip = w /\ o.retryOf = None
  BY DEF Opening
<1>2. wipStatus[w] # "absent" /\ opening' = opening \cup {o} /\ UNCHANGED <<tables, broker, task>>
  BY DEF BeginDispatch
<1>3. broker' \in [Jobs -> {"none", "ready", "held", "acked"}]
  BY <1>2 DEF StateInv, EnvironmentTypeOK
<1> HIDE DEF o
<1> QED
  BY <1>1, <1>2, <1>3, OpeningType

LEMMA BeginRetryType ==
  ASSUME StateInv, NEW i \in Jobs, jobStatus[i] # "absent", NEW seen, NEW j \in Jobs,
         BeginRetry(i, seen, j)
  PROVE  StateInv' /\ RowsKept
<1> DEFINE o == [job |-> j, wip |-> jobWip[i], equip |-> jobEquip[i], retryOf |-> i, sent |-> FALSE]
<1>1. jobWip[i] \in Wips /\ jobEquip[i] \in Equipment /\ wipStatus[jobWip[i]] # "absent"
  BY DEF StateInv, JobRowsExist
<1>2. o \in Opening /\ o.wip = jobWip[i] /\ o.retryOf = i
  BY <1>1 DEF Opening
<1>3. opening' = opening \cup {o} /\ UNCHANGED <<tables, broker, task>>
  BY DEF BeginRetry
<1>4. broker' \in [Jobs -> {"none", "ready", "held", "acked"}]
  BY <1>3 DEF StateInv, EnvironmentTypeOK
<1> HIDE DEF o
<1> QED
  BY <1>1, <1>2, <1>3, <1>4, OpeningType

LEMMA SubmitDispatchType ==
  ASSUME StateInv, NEW o, SubmitDispatch(o)
  PROVE  StateInv' /\ RowsKept
<1> DEFINE p == [o EXCEPT !.sent = TRUE]
<1>1. o \in Opening /\ wipStatus[o.wip] # "absent" /\ (o.retryOf # None => jobStatus[o.retryOf] # "absent")
  BY DEF SubmitDispatch, StateInv, EnvironmentTypeOK, OpeningRowsExist
<1>2. p \in Opening /\ p.wip = o.wip /\ p.retryOf = o.retryOf
  BY <1>1 DEF Opening
<1>3. opening' \subseteq opening \cup {p} /\ UNCHANGED <<tables, task>>
  BY DEF SubmitDispatch
<1>4. broker' \in [Jobs -> {"none", "ready", "held", "acked"}]
  BY DEF SubmitDispatch, StateInv, EnvironmentTypeOK
<1> HIDE DEF p
<1> QED
  BY <1>1, <1>2, <1>3, <1>4, OpeningType

LEMMA FinishRunType ==
  ASSUME StateInv, NEW k \in Workers, NEW verdict \in {"pass", "fail"}, FinishRun(k, verdict)
  PROVE  StateInv' /\ RowsKept
<1> DEFINE w == jobWip[task[k].job]
           settledExps == Update(expStatus, Settled(w), Outcome(verdict))
<1>1. task[k].job \in Jobs /\ w \in Wips /\ wipStatus[w] # "absent" /\ jobStatus[task[k].job] # "absent"
  BY DEF StateInv, TaskRowsExist, JobRowsExist, FinishRun
<1>2. expStatus' \in [Experiments -> ExperimentStatus]
  <2>1. settledExps \in [Experiments -> ExperimentStatus]
    BY UpdateType DEF StateInv, TypeOK, Outcome, ExperimentStatus
  <2>2. expStatus' = Update(settledExps, Promoted(w, verdict, settledExps), "ready")
    BY DEF FinishRun, SyncCompletion
  <2>3. "ready" \in ExperimentStatus
    BY DEF ExperimentStatus
  <2> HIDE DEF settledExps
  <2> QED
    BY <2>1, <2>2, <2>3, UpdateType
<1>3. /\ expWip' \in [Experiments -> Wips \cup {None}]
      /\ sampleStatus' \in [Samples -> SampleStatus]
      /\ sampleWip' \in [Samples -> Wips \cup {None}]
  BY UpdateType DEF StateInv, TypeOK, FinishRun, SyncCompletion, SampleOutcome, SampleStatus
<1>4. wipStatus' \in [Wips -> WipStatus \cup {"absent"}] /\ reqStatus' \in [Requests -> RequestStatus]
  BY DEF StateInv, TypeOK, FinishRun, SyncCompletion, Outcome, WipStatus, RequestStatus
<1>5. TypeOK'
  BY <1>1, <1>2, <1>3, <1>4 DEF StateInv, TypeOK, FinishRun, DispatchStatus, EquipmentStatus
<1>6. \A v \in Wips : wipStatus[v] # "absent" => wipStatus'[v] # "absent"
  BY <1>1 DEF StateInv, TypeOK, FinishRun, SyncCompletion, Outcome
<1>7. EnvironmentTypeOK' /\ JobRowsExist' /\ OpeningRowsExist' /\ TaskRowsExist' /\ RowsKept
  BY <1>6, NullAssumption DEF StateInv, TypeOK, EnvironmentTypeOK, Task, Opening, JobRowsExist, OpeningRowsExist,
     TaskRowsExist, RowsKept, FinishRun
<1> QED
  BY <1>5, <1>7 DEF StateInv

\* An endpoint loads rows that exist and columns of their types.
LEMMA LoadableIsCall ==
  ASSUME StateInv, NEW c \in Loadable
  PROVE  c \in Call /\ CallRowExists(c)
<1>1. CASE \E o \in {"cancel_request", "close_request"}, r \in Requests :
             c = [op |-> o, request |-> r, seen |-> reqStatus[r]]
  BY <1>1 DEF StateInv, TypeOK, Call, RequestCall, CallRowExists
<1>2. CASE \E o \in {"receive_sample", "reject_sample"}, s \in Samples :
             c = [op |-> o, sample |-> s, seen |-> sampleStatus[s], wip |-> sampleWip[s],
                  req |-> reqStatus[RequestOf[s]]]
  BY <1>2, ForeignKeysAssumption DEF StateInv, TypeOK, Call, SampleCall, CallRowExists
<1>3. CASE \E o \in {"lock_wip", "cancel_wip"}, w \in ExistingWips :
             c = [op |-> o, wip |-> w, seen |-> wipStatus[w]]
  BY <1>3 DEF StateInv, TypeOK, ExistingWips, Call, WipCall, CallRowExists
<1>4. CASE \E o \in {"cancel_dispatch", "retry_dispatch"}, j \in ExistingJobs :
             c = [op |-> o, job |-> j, seen |-> jobStatus[j], confirmed |-> jobConfirmed[j],
                  active |-> eqActive[jobEquip[j]]]
  BY <1>4 DEF StateInv, TypeOK, JobRowsExist, ExistingJobs, Call, JobCall, CallRowExists
<1>5. CASE \E o \in {"update_equipment"}, e \in Equipment :
             c = [op |-> o, equip |-> e, current |-> eqCurrent[e]]
  BY <1>5 DEF StateInv, TypeOK, Call, EquipCall, CallRowExists
<1> QED
  BY <1>1, <1>2, <1>3, <1>4, <1>5 DEF Loadable, Called

LEMMA HandleType ==
  ASSUME StateInv, NEW c \in Call, CallRowExists(c), Handle(c)
  PROVE  StateInv' /\ RowsKept
<1>1. CASE c.op = "receive_sample" /\ ReceiveSample(c.sample, c.seen, c.wip, c.req) /\ UNCHANGED environment
  BY <1>1, ReceiveSampleType DEF Call, RequestCall, SampleCall, WipCall, JobCall, EquipCall
<1>2. CASE c.op = "reject_sample" /\ RejectSample(c.sample, c.seen, c.req) /\ UNCHANGED environment
  BY <1>2, RejectSampleType DEF Call, RequestCall, SampleCall, WipCall, JobCall, EquipCall
<1>3. CASE c.op = "cancel_request" /\ CancelRequest(c.request, c.seen) /\ UNCHANGED environment
  BY <1>3, CancelRequestType DEF Call, RequestCall, SampleCall, WipCall, JobCall, EquipCall
<1>4. CASE c.op = "close_request" /\ CloseRequest(c.request, c.seen) /\ UNCHANGED environment
  BY <1>4, CloseRequestType DEF Call, RequestCall, SampleCall, WipCall, JobCall, EquipCall
<1>5. CASE c.op = "lock_wip" /\ LockWip(c.wip, c.seen) /\ UNCHANGED environment
  BY <1>5, LockWipType DEF Call, RequestCall, SampleCall, WipCall, JobCall, EquipCall
<1>6. CASE c.op = "cancel_wip" /\ CancelWip(c.wip, c.seen) /\ UNCHANGED environment
  BY <1>6, CancelWipType DEF Call, RequestCall, SampleCall, WipCall, JobCall, EquipCall
<1>7. CASE c.op = "cancel_dispatch" /\ CancelDispatch(c.job, c.seen, c.confirmed, c.active)
  <2>1. c \in JobCall /\ jobStatus[c.job] # "absent"
    BY <1>7 DEF Call, RequestCall, SampleCall, WipCall, JobCall, EquipCall, CallRowExists
  <2> QED
    BY <1>7, <2>1, CancelDispatchType DEF JobCall
<1>8. CASE c.op = "retry_dispatch" /\ \E j \in Jobs : BeginRetry(c.job, c.seen, j)
  <2>1. c \in JobCall /\ jobStatus[c.job] # "absent"
    BY <1>8 DEF Call, RequestCall, SampleCall, WipCall, JobCall, EquipCall, CallRowExists
  <2> QED
    BY <1>8, <2>1, BeginRetryType DEF JobCall
<1>9. CASE /\ c.op = "update_equipment" /\ UNCHANGED environment
           /\ \E status \in EquipmentStatus, active \in BOOLEAN :
                UpdateEquipment(c.equip, status, c.current, active)
  <2>1. c \in EquipCall
    BY <1>9 DEF Call, RequestCall, SampleCall, WipCall, JobCall, EquipCall
  <2> QED
    BY <1>9, <2>1, UpdateEquipmentType DEF EquipCall
<1> QED
  BY <1>1, <1>2, <1>3, <1>4, <1>5, <1>6, <1>7, <1>8, <1>9 DEF Handle

LEMMA WorkerStepType ==
  ASSUME StateInv, NEW k \in Workers, WorkerStep(k)
  PROVE  StateInv' /\ RowsKept
BY TakeMessageType, MissDispatchType, StartRunType, FinishRunType, FailRunType, AcknowledgeType
   DEF WorkerStep

\* A step of the system keeps the rows; the calls in flight stay well-formed.
LEMMA NextType ==
  ASSUME TypeInv, Next
  PROVE  TypeInv' /\ RowsKept
<1> USE DEF LabTypeOK, RowsExist
<1>1. StateInv /\ calls \subseteq Call /\ crashes \in 0..MaxCrashes /\ \A c \in calls : CallRowExists(c)
  BY DEF TypeInv, StateInv
<1>2. ASSUME StateInv', RowsKept, calls' \subseteq calls, crashes' \in 0..MaxCrashes
      PROVE  TypeInv' /\ RowsKept
  <2>1. \A c \in calls' : CallRowExists(c)'
    BY <1>1, <1>2 DEF CallRowExists, RowsKept, Call, RequestCall, SampleCall, WipCall, JobCall, EquipCall
  <2> QED
    BY <1>1, <1>2, <2>1 DEF TypeInv, StateInv
<1>3. CASE CallServed
  BY <1>1, <1>2, <1>3, LoadableIsCall, HandleType DEF CallServed
<1>4. CASE CallLoaded
  <2>1. PICK c \in Loadable : calls' = calls \cup {c}
    BY <1>4 DEF CallLoaded
  <2>2. c \in Call /\ CallRowExists(c)
    BY <1>1, LoadableIsCall
  <2>3. UNCHANGED <<tables, environment, crashes>>
    BY <1>4 DEF CallLoaded
  <2>4. \A d \in calls' : CallRowExists(d)'
    BY <1>1, <2>1, <2>2, <2>3 DEF CallRowExists
  <2>5. StateInv'
    BY <1>1, <2>3 DEF StateInv, TypeOK, EnvironmentTypeOK, JobRowsExist, OpeningRowsExist, TaskRowsExist
  <2> QED
    BY <1>1, <2>1, <2>2, <2>3, <2>4, <2>5 DEF TypeInv, StateInv, RowsKept
<1>5. CASE CallHandled
  BY <1>1, <1>2, <1>5, HandleType DEF CallHandled
<1>6. CASE CallDropped
  <2>1. StateInv' /\ RowsKept /\ calls' \subseteq calls /\ crashes' = crashes
    BY <1>1, <1>6 DEF CallDropped, StateInv, TypeOK, EnvironmentTypeOK, JobRowsExist, OpeningRowsExist,
       TaskRowsExist, RowsKept
  <2> QED
    BY <1>1, <1>2, <2>1
<1>7. CASE BatchCreated
  <2>1. StateInv' /\ RowsKept
    BY <1>1, <1>7, CreateWipType DEF BatchCreated
  <2> QED
    BY <1>1, <1>2, <1>7, <2>1 DEF BatchCreated
<1>8. CASE DispatchBegun
  BY <1>1, <1>2, <1>8, BeginDispatchType DEF DispatchBegun
<1>9. CASE DispatchCommitted
  BY <1>1, <1>2, <1>9, CommitDispatchType DEF DispatchCommitted
<1>10. CASE DispatchSubmitted
  BY <1>1, <1>2, <1>10, SubmitDispatchType DEF DispatchSubmitted
<1>16. CASE DispatchRefused
  BY <1>1, <1>2, <1>16, AbortDispatchType DEF DispatchRefused
<1>17. CASE DispatchCrashed
  BY <1>1, <1>2, <1>17, AbortDispatchType, BoundsAssumption DEF DispatchCrashed
<1>11. CASE ResultConfirmed
  BY <1>1, <1>2, <1>11, FinalConfirmType DEF ResultConfirmed
<1>12. CASE StatusSetByHand
  BY <1>1, <1>2, <1>12, UpdateSampleStatusType, BoundsAssumption DEF StatusSetByHand
<1>13. CASE EquipmentManaged
  BY <1>1, <1>2, <1>13, MarkMaintenanceType, ActivateEquipmentType, DeactivateEquipmentType
     DEF EquipmentManaged
<1>14. CASE \E k \in Workers : WorkerStep(k)
  <2>1. StateInv' /\ RowsKept
    BY <1>1, <1>14, WorkerStepType
  <2> QED
    BY <1>1, <1>2, <1>14, <2>1 DEF WorkerStep
<1>15. CASE WorkerCrashed
  BY <1>1, <1>2, <1>15, WorkerDiesType, PoolProcessDiesType, BoundsAssumption DEF WorkerCrashed
<1> QED
  BY <1>3, <1>4, <1>5, <1>6, <1>7, <1>8, <1>9, <1>10, <1>11, <1>12, <1>13, <1>14, <1>15, <1>16, <1>17
  DEF Next

LEMMA StepType ==
  ASSUME TypeInv, [Next]_vars
  PROVE  TypeInv' /\ RowsKept
<1>1. CASE UNCHANGED vars
  BY <1>1 DEF vars, TypeInv, LabTypeOK, TypeOK, EnvironmentTypeOK, RowsExist, JobRowsExist,
     OpeningRowsExist, TaskRowsExist, CallRowExists, RowsKept
<1> QED
  BY <1>1, NextType

LEMMA TypeInvInvariant == Spec => []TypeInv
<1>1. TypeInv /\ [Next]_vars => TypeInv'
  BY StepType
<1> QED
  BY <1>1, InitType, PTL DEF Spec

\* Every column of every table, every message, transaction, worker and call in flight keeps
\* its type, in every laboratory.
THEOREM TypeCorrectness == Spec => []LabTypeOK
<1>1. TypeInv => LabTypeOK
  BY DEF TypeInv
<1> QED
  BY <1>1, TypeInvInvariant, PTL

-----------------------------------------------------------------------------
(* Which steps matter to the experiments                                   *)

\* A step that leaves the experiments and the batches' contents alone, ends no job, and
\* closes a request only when its experiments are finished.
Quiet ==
  /\ UNCHANGED <<expStatus, expWip, wipItems, wipRecipe, jobWip>>
  /\ \A j \in Jobs : jobStatus'[j] \in {"completed", "failed"} => jobStatus'[j] = jobStatus[j]
  /\ \A x \in Experiments :
       reqStatus'[RequestOf[SampleOf[x]]] = "closed" =>
         reqStatus[RequestOf[SampleOf[x]]] = "closed" \/ expStatus[x] \in Finished

LEMMA HandleQuiet ==
  ASSUME StateInv, NEW c \in Call, CallRowExists(c), Handle(c)
  PROVE  Quiet
<1> USE ForeignKeysAssumption DEF StateInv, TypeOK, Quiet
<1>1. CASE c.op = "receive_sample" /\ ReceiveSample(c.sample, c.seen, c.wip, c.req) /\ UNCHANGED environment
  BY <1>1 DEF ReceiveSample
<1>2. CASE c.op = "reject_sample" /\ RejectSample(c.sample, c.seen, c.req) /\ UNCHANGED environment
  BY <1>2 DEF RejectSample
<1>3. CASE c.op = "cancel_request" /\ CancelRequest(c.request, c.seen) /\ UNCHANGED environment
  BY <1>3 DEF CancelRequest
<1>4. CASE c.op = "close_request" /\ CloseRequest(c.request, c.seen) /\ UNCHANGED environment
  BY <1>4 DEF CloseRequest, AllExperimentsComplete, Finished
<1>5. CASE c.op = "lock_wip" /\ LockWip(c.wip, c.seen) /\ UNCHANGED environment
  BY <1>5 DEF LockWip
<1>6. CASE c.op = "cancel_wip" /\ CancelWip(c.wip, c.seen) /\ UNCHANGED environment
  BY <1>6 DEF CancelWip
<1>7. CASE c.op = "cancel_dispatch" /\ CancelDispatch(c.job, c.seen, c.confirmed, c.active)
  BY <1>7 DEF CancelDispatch
<1>8. CASE c.op = "retry_dispatch" /\ \E j \in Jobs : BeginRetry(c.job, c.seen, j)
  BY <1>8 DEF BeginRetry
<1>9. CASE /\ c.op = "update_equipment" /\ UNCHANGED environment
           /\ \E status \in EquipmentStatus, active \in BOOLEAN :
                UpdateEquipment(c.equip, status, c.current, active)
  BY <1>9 DEF UpdateEquipment
<1> QED
  BY <1>1, <1>2, <1>3, <1>4, <1>5, <1>6, <1>7, <1>8, <1>9 DEF Handle

\* final_confirm_dispatch closes a request only when none of its experiments is open.
LEMMA FinalConfirmQuiet ==
  ASSUME StateInv, NEW j \in Jobs, FinalConfirm(j)
  PROVE  Quiet
<1> SUFFICES ASSUME NEW x \in Experiments, NEW r \in Requests, r = RequestOf[SampleOf[x]],
                    StatusAfterFinalCheck(r, jobConfirmed') = "closed"
             PROVE  expStatus[x] \in Finished
  BY ForeignKeysAssumption DEF StateInv, TypeOK, Quiet, FinalConfirm
<1>1. OpenExperiments(r) = {}
  BY DEF StatusAfterFinalCheck
<1>2. expStatus[x] \notin Waiting \cup Active
  BY <1>1 DEF OpenExperiments
<1> QED
  BY <1>2 DEF StateInv, TypeOK, ExperimentStatus, Waiting, Active, Finished

\* Five handlers write the experiments; every other step is quiet.
LEMMA StepKinds ==
  ASSUME TypeInv, [Next]_vars
  PROVE  \/ Quiet
         \/ \E w \in Wips, S \in SUBSET Samples, recipe \in Recipes : CreateWip(w, S, recipe)
         \/ \E o \in opening : CommitDispatch(o)
         \/ \E k \in Workers : StartRun(k)
         \/ \E k \in Workers, verdict \in {"pass", "fail"} : FinishRun(k, verdict)
         \/ \E k \in Workers : FailRun(k)
<1>1. StateInv /\ calls \subseteq Call /\ \A c \in calls : CallRowExists(c)
  BY DEF TypeInv, LabTypeOK, RowsExist, StateInv
<1>2. CASE CallServed \/ CallHandled
  BY <1>1, <1>2, LoadableIsCall, HandleQuiet DEF CallServed, CallHandled
<1>3. CASE CallLoaded \/ CallDropped \/ WorkerCrashed \/ UNCHANGED vars
  BY <1>3 DEF CallLoaded, CallDropped, WorkerCrashed, WorkerDies, PoolProcessDies, vars, Quiet
<1>4. CASE BatchCreated
  BY <1>4 DEF BatchCreated
<1>5. CASE DispatchBegun \/ DispatchSubmitted \/ DispatchRefused \/ DispatchCrashed
  BY <1>5 DEF DispatchBegun, BeginDispatch, DispatchSubmitted, SubmitDispatch, DispatchRefused,
              DispatchCrashed, AbortDispatch, Quiet
<1>6. CASE DispatchCommitted
  BY <1>6 DEF DispatchCommitted
<1>7. CASE ResultConfirmed
  BY <1>1, <1>7, FinalConfirmQuiet DEF ResultConfirmed
<1>8. CASE StatusSetByHand
  BY <1>8 DEF StatusSetByHand, UpdateSampleStatus, Quiet
<1>9. CASE EquipmentManaged
  BY <1>9 DEF EquipmentManaged, MarkMaintenance, ActivateEquipment, DeactivateEquipment, Quiet
<1>10. CASE \E k \in Workers : WorkerStep(k)
  BY <1>10 DEF WorkerStep, TakeMessage, MissDispatch, Acknowledge, Quiet
<1> QED
  BY <1>2, <1>3, <1>4, <1>5, <1>6, <1>7, <1>8, <1>9, <1>10 DEF Next

-----------------------------------------------------------------------------
(* The workflow keeps the promise of ExperimentLifecycle                   *)

\* A wafer has at most one next experiment, it is waiting, and nothing before it is open.
LEMMA NextReadyIsFirst ==
  ASSUME NEW s \in Samples, NEW x \in NextReady(s)
  PROVE  /\ x \in Experiments /\ SampleOf[x] = s /\ expStatus[x] \in Waiting
         /\ \A y \in Experiments : SampleOf[y] = s =>
              /\ expStatus[y] \notin Active
              /\ SeqNo[y] < SeqNo[x] => expStatus[y] \in Finished
              /\ y \in NextReady(s) => y = x
<1>1. /\ x \in Experiments /\ SampleOf[x] = s /\ expStatus[x] \in Waiting
      /\ \A y \in ExperimentsOf(s) : expStatus[y] \notin Active
      /\ \A y \in ExperimentsOf(s) : SeqNo[y] < SeqNo[x] => expStatus[y] \in Finished
  BY DEF NextReady, ExperimentsOf
<1>2. ASSUME NEW y \in NextReady(s) PROVE y = x
  <2>1. y \in Experiments /\ SampleOf[y] = s /\ expStatus[y] \in Waiting
    BY DEF NextReady, ExperimentsOf
  <2>2. ~(SeqNo[y] < SeqNo[x]) /\ ~(SeqNo[x] < SeqNo[y])
    BY <1>1, <2>1 DEF NextReady, ExperimentsOf, Waiting, Finished
  <2>3. SeqNo[x] \in Nat /\ SeqNo[y] \in Nat
    BY <1>1, <2>1, SequenceAssumption
  <2>4. SeqNo[x] = SeqNo[y]
    BY <2>2, <2>3
  <2> QED
    BY <1>1, <2>1, <2>4, SequenceAssumption
<1> QED
  BY <1>1, <1>2 DEF ExperimentsOf

\* create_wip takes the next experiment of each of its wafers into a batch that had none.
LEMMA CreateWipAssigns ==
  ASSUME TypeInv, BatchRunsItsRecipe,
         NEW w \in Wips, NEW S \in SUBSET Samples, NEW recipe \in Recipes, CreateWip(w, S, recipe)
  PROVE  Lifecycle!Next
<1> DEFINE taken == UNION {NextReady(s) : s \in S}
<1>1. taken \subseteq Experiments
  BY NextReadyIsFirst
<1>2. taken # {}
  BY DEF CreateWip, SampleReady
<1>3. Lifecycle!In(w) = {}
  BY NullAssumption DEF Lifecycle!In, BatchRunsItsRecipe, CreateWip
<1>4. ASSUME NEW x \in taken
      PROVE  /\ expStatus[x] \in Lifecycle!Unstarted
             /\ \A y \in Lifecycle!Earlier(x) : expStatus[y] \in Lifecycle!Done
             /\ \A y \in Lifecycle!SameWafer(x) : expStatus[y] \notin Lifecycle!Busy /\ (y \in taken => y = x)
  <2>1. PICK s \in S : x \in NextReady(s)
    OBVIOUS
  <2>2. \A y \in Experiments : y \in taken /\ SampleOf[y] = s => y \in NextReady(s)
    BY NextReadyIsFirst
  <2> QED
    BY <2>1, <2>2, NextReadyIsFirst
       DEF Lifecycle!Unstarted, Lifecycle!Earlier, Lifecycle!Done, Lifecycle!SameWafer, Lifecycle!Busy,
           Waiting, Active, Finished
<1>5. /\ expStatus' = [x \in Experiments |-> IF x \in taken THEN "in_wip" ELSE expStatus[x]]
      /\ expWip' = [x \in Experiments |-> IF x \in taken THEN w ELSE expWip[x]]
  BY DEF CreateWip, Update, TypeInv, LabTypeOK, TypeOK
<1>6. Lifecycle!Assign(w, taken)
  BY <1>2, <1>3, <1>4, <1>5 DEF Lifecycle!Assign
<1> QED
  BY <1>1, <1>6 DEF Lifecycle!Next

LEMMA CommitDispatchStarts ==
  ASSUME TypeInv, NEW o \in opening, CommitDispatch(o)
  PROVE  Lifecycle!Next
<1>1. o.wip \in Wips
  BY DEF TypeInv, LabTypeOK, EnvironmentTypeOK, Opening
<1>2. Lifecycle!Start(o.wip)
  BY DEF Lifecycle!Start, Lifecycle!In, CommitDispatch, Update, TypeInv, LabTypeOK, TypeOK
<1> QED
  BY <1>1, <1>2 DEF Lifecycle!Next

\* What the rows say of the job a worker holds.
LEMMA HeldJob ==
  ASSUME TypeInv, NEW k \in Workers, task[k].phase # "idle"
  PROVE  task[k].job \in Jobs /\ jobWip[task[k].job] \in Wips
BY DEF TypeInv, RowsExist, TaskRowsExist, JobRowsExist

\* The experiments a run reaches through the batch's items are all the batch has.
LEMMA SettledIsBatch ==
  ASSUME BatchRunsItsRecipe, NEW w \in Wips
  PROVE  Settled(w) = {x \in Experiments : expWip[x] = w}
BY NullAssumption DEF Settled, BatchRunsItsRecipe

LEMMA StartRunStarts ==
  ASSUME TypeInv, BatchRunsItsRecipe, NEW k \in Workers, StartRun(k)
  PROVE  Lifecycle!Next
<1> DEFINE w == jobWip[task[k].job]
<1>1. w \in Wips
  BY HeldJob DEF StartRun
<1>2. Settled(w) = {x \in Experiments : expWip[x] = w}
  BY <1>1, SettledIsBatch
<1>3. expStatus' = Update(expStatus, Settled(w), "running") /\ expWip' = expWip
  BY DEF StartRun, Settled
<1>4. Lifecycle!Start(w)
  BY <1>2, <1>3 DEF Lifecycle!Start, Lifecycle!In, Update, TypeInv, LabTypeOK, TypeOK
<1> QED
  BY <1>1, <1>4 DEF Lifecycle!Next

LEMMA FinishRunSettles ==
  ASSUME TypeInv, BatchRunsItsRecipe, NEW k \in Workers, NEW verdict \in {"pass", "fail"},
         FinishRun(k, verdict)
  PROVE  Lifecycle!Next
<1> DEFINE w == jobWip[task[k].job]
           exps == Update(expStatus, Settled(w), Outcome(verdict))
           P == Promoted(w, verdict, exps)
<1>1. w \in Wips /\ Outcome(verdict) \in {"completed", "failed"}
  BY HeldJob DEF FinishRun, Outcome
<1>2. Settled(w) = Lifecycle!In(w)
  BY <1>1, SettledIsBatch DEF Lifecycle!In
<1>3. exps = [x \in Experiments |-> IF x \in Lifecycle!In(w) THEN Outcome(verdict) ELSE expStatus[x]]
  BY <1>2 DEF Update, TypeInv, LabTypeOK, TypeOK
<1>4. P \subseteq Experiments /\ \A x \in P : exps[x] = "pending"
  BY DEF Promoted
<1>5. \A x \in P : expStatus[x] = "pending" /\ x \notin Lifecycle!In(w)
  BY <1>1, <1>3, <1>4
<1>6. expStatus' = Update(exps, P, "ready") /\ expWip' = Update(expWip, Settled(w), None)
  BY DEF FinishRun, SyncCompletion
<1> HIDE DEF exps, P, w
<1>7. expStatus' = [x \in Experiments |-> IF x \in Lifecycle!In(w) THEN Outcome(verdict)
                                          ELSE IF x \in P THEN "ready" ELSE expStatus[x]]
  BY <1>3, <1>5, <1>6 DEF Update
<1>8. expWip' = [x \in Experiments |-> IF x \in Lifecycle!In(w) THEN None ELSE expWip[x]]
  BY <1>2, <1>6 DEF Update, TypeInv, LabTypeOK, TypeOK
<1>9. Lifecycle!Settle(w, Outcome(verdict), P)
  BY <1>4, <1>5, <1>7, <1>8 DEF Lifecycle!Settle
<1> QED
  BY <1>1, <1>4, <1>9 DEF Lifecycle!Next

LEMMA FailRunSettles ==
  ASSUME TypeInv, NEW k \in Workers, FailRun(k)
  PROVE  Lifecycle!Next
<1> DEFINE w == jobWip[task[k].job]
<1>1. w \in Wips
  BY HeldJob DEF FailRun
<1>2. /\ expStatus' = Update(expStatus, Lifecycle!In(w), "failed")
      /\ expWip' = Update(expWip, Lifecycle!In(w), None)
  BY DEF FailRun, Lifecycle!In
<1>3. Lifecycle!Settle(w, "failed", {})
  BY <1>2 DEF Lifecycle!Settle, Update, TypeInv, LabTypeOK, TypeOK
<1> QED
  BY <1>1, <1>3 DEF Lifecycle!Next

LEMMA StepRefines ==
  ASSUME TypeInv, BatchRunsItsRecipe, [Next]_vars
  PROVE  [Lifecycle!Next]_<<expStatus, expWip>>
<1>1. CASE Quiet
  BY <1>1 DEF Quiet
<1> QED
  BY <1>1, StepKinds, CreateWipAssigns, CommitDispatchStarts, StartRunStarts, FinishRunSettles, FailRunSettles

-----------------------------------------------------------------------------
(* The experiments' invariants                                             *)

\* The abstract lifecycle alone keeps these three, and never rewrites an outcome.
LEMMA LifecycleKeeps ==
  ASSUME TypeInv, ActiveIffBatched, OneExperimentPerWafer, InSequence, Lifecycle!Next
  PROVE  /\ ActiveIffBatched' /\ OneExperimentPerWafer' /\ InSequence'
         /\ \A x \in Experiments : expStatus[x] \in Finished => expStatus'[x] = expStatus[x]
<1> USE DEF Active, Finished, ActiveIffBatched, OneExperimentPerWafer, InSequence
<1> PICK w \in Wips :
      \/ \E X \in SUBSET Experiments : Lifecycle!Assign(w, X)
      \/ Lifecycle!Start(w)
      \/ \E outcome \in {"completed", "failed"}, P \in SUBSET Experiments : Lifecycle!Settle(w, outcome, P)
  BY DEF Lifecycle!Next
<1>1. w # None /\ None \notin Wips
  BY NullAssumption
<1>2. CASE \E X \in SUBSET Experiments : Lifecycle!Assign(w, X)
  <2> PICK X \in SUBSET Experiments : Lifecycle!Assign(w, X)
    BY <1>2
  <2>1. \A x \in Experiments :
          /\ expStatus'[x] = IF x \in X THEN "in_wip" ELSE expStatus[x]
          /\ expWip'[x] = IF x \in X THEN w ELSE expWip[x]
    BY DEF Lifecycle!Assign
  <2>2. \A x \in X, y \in Experiments :
          /\ expStatus[x] \in {"pending", "ready"}
          /\ SampleOf[y] = SampleOf[x] =>
               /\ expStatus[y] \notin Active
               /\ y \in X => y = x
               /\ SeqNo[y] < SeqNo[x] => expStatus[y] \in Finished
    BY DEF Lifecycle!Assign, Lifecycle!Earlier, Lifecycle!SameWafer, Lifecycle!Unstarted,
           Lifecycle!Done, Lifecycle!Busy
  <2> QED
    BY <1>1, <2>1, <2>2
<1>3. CASE Lifecycle!Start(w)
  <2>1. \A x \in Experiments :
          /\ expStatus'[x] = IF expWip[x] = w THEN "running" ELSE expStatus[x]
          /\ expWip'[x] = expWip[x]
    BY <1>3 DEF Lifecycle!Start, Lifecycle!In
  <2> QED
    BY <1>1, <2>1
<1>4. CASE \E outcome \in {"completed", "failed"}, P \in SUBSET Experiments : Lifecycle!Settle(w, outcome, P)
  <2> PICK outcome \in {"completed", "failed"}, P \in SUBSET Experiments : Lifecycle!Settle(w, outcome, P)
    BY <1>4
  <2>1. \A x \in Experiments :
          /\ expStatus'[x] = IF expWip[x] = w THEN outcome
                             ELSE IF x \in P THEN "ready" ELSE expStatus[x]
          /\ expWip'[x] = IF expWip[x] = w THEN None ELSE expWip[x]
          /\ x \in P => expStatus[x] = "pending"
    BY DEF Lifecycle!Settle, Lifecycle!In
  <2> QED
    BY <1>1, <2>1
<1> QED
  BY <1>2, <1>3, <1>4

\* Only create_wip puts experiments into a batch, and only into one it creates.
LEMMA BatchRunsItsRecipeKept ==
  ASSUME TypeInv, RowsKept, BatchRunsItsRecipe, [Next]_vars
  PROVE  BatchRunsItsRecipe'
<1> SUFFICES ASSUME NEW x \in Experiments, expWip'[x] # None
             PROVE  /\ SampleOf[x] \in wipItems'[expWip'[x]]
                    /\ RecipeOf[x] = wipRecipe'[expWip'[x]]
                    /\ wipStatus'[expWip'[x]] # "absent"
  BY DEF BatchRunsItsRecipe
<1>1. ASSUME UNCHANGED <<wipItems, wipRecipe>>, expWip'[x] = expWip[x]
      PROVE  /\ SampleOf[x] \in wipItems'[expWip'[x]]
             /\ RecipeOf[x] = wipRecipe'[expWip'[x]]
             /\ wipStatus'[expWip'[x]] # "absent"
  BY <1>1 DEF BatchRunsItsRecipe, RowsKept, TypeInv, LabTypeOK, TypeOK
<1>2. CASE Quiet
  BY <1>1, <1>2 DEF Quiet
<1>3. ASSUME NEW w \in Wips, NEW S \in SUBSET Samples, NEW recipe \in Recipes, CreateWip(w, S, recipe)
      PROVE  /\ SampleOf[x] \in wipItems'[expWip'[x]]
             /\ RecipeOf[x] = wipRecipe'[expWip'[x]]
             /\ wipStatus'[expWip'[x]] # "absent"
  <2>1. wipItems' = [wipItems EXCEPT ![w] = S] /\ wipRecipe' = [wipRecipe EXCEPT ![w] = recipe]
        /\ wipStatus' = [wipStatus EXCEPT ![w] = "draft"] /\ wipStatus[w] = "absent"
    BY <1>3 DEF CreateWip
  <2>2. expWip'[x] = IF x \in UNION {NextReady(s) : s \in S} THEN w ELSE expWip[x]
    BY <1>3 DEF CreateWip, Update, TypeInv, LabTypeOK, TypeOK
  <2>3. CASE x \in UNION {NextReady(s) : s \in S}
    <3>1. PICK s \in S : x \in NextReady(s)
      BY <2>3
    <3>2. PICK y \in NextReady(s) : RecipeOf[y] = recipe
      BY <1>3 DEF CreateWip, SampleReady
    <3>3. SampleOf[x] = s /\ y = x
      BY <3>1, <3>2, NextReadyIsFirst
    <3> QED
      BY <2>1, <2>2, <2>3, <3>2, <3>3 DEF TypeInv, LabTypeOK, TypeOK
  <2>4. CASE x \notin UNION {NextReady(s) : s \in S}
    <3>1. expWip[x] # w /\ expWip'[x] = expWip[x] /\ expWip[x] \in Wips
      BY <2>1, <2>2, <2>4 DEF BatchRunsItsRecipe, TypeInv, LabTypeOK, TypeOK
    <3> QED
      BY <2>1, <3>1 DEF BatchRunsItsRecipe, TypeInv, LabTypeOK, TypeOK
  <2> QED
    BY <2>3, <2>4
<1>4. ASSUME NEW o \in opening, CommitDispatch(o)
      PROVE  UNCHANGED <<expWip, wipItems, wipRecipe>>
  BY <1>4 DEF CommitDispatch
<1>5. ASSUME NEW k \in Workers, StartRun(k)
      PROVE  UNCHANGED <<expWip, wipItems, wipRecipe>>
  BY <1>5 DEF StartRun
<1>6. ASSUME NEW k \in Workers, NEW verdict, FinishRun(k, verdict) \/ FailRun(k)
      PROVE  UNCHANGED <<wipItems, wipRecipe>> /\ (expWip'[x] = None \/ expWip'[x] = expWip[x])
  BY <1>6 DEF FinishRun, SyncCompletion, FailRun, Update, TypeInv, LabTypeOK, TypeOK
<1> QED
  BY <1>1, <1>2, <1>3, <1>4, <1>5, <1>6, StepKinds

\* What a job's end and a closed request leave behind.
LEMMA EndedJobKept ==
  ASSUME TypeInv, BatchRunsItsRecipe, EndedJobSettledItsBatch, [Next]_vars
  PROVE  EndedJobSettledItsBatch'
<1> SUFFICES ASSUME NEW j \in Jobs, NEW x \in Experiments,
                    jobStatus'[j] \in {"completed", "failed"}, expWip'[x] # None
             PROVE  expWip'[x] # jobWip'[j]
  BY DEF EndedJobSettledItsBatch
<1> USE DEF TypeInv, LabTypeOK, TypeOK
<1>1. ASSUME jobStatus'[j] = jobStatus[j], jobWip'[j] = jobWip[j], expWip'[x] = expWip[x]
      PROVE  expWip'[x] # jobWip'[j]
  BY <1>1 DEF EndedJobSettledItsBatch
<1>2. CASE Quiet
  BY <1>1, <1>2 DEF Quiet
<1>3. ASSUME NEW w \in Wips, NEW S \in SUBSET Samples, NEW recipe \in Recipes, CreateWip(w, S, recipe)
      PROVE  expWip'[x] # jobWip'[j]
  <2>1. jobStatus' = jobStatus /\ jobWip' = jobWip /\ wipStatus[w] = "absent"
    BY <1>3 DEF CreateWip
  <2>2. jobWip[j] # w
    BY <2>1 DEF RowsExist, JobRowsExist
  <2>3. expWip'[x] \in {w, expWip[x]}
    BY <1>3 DEF CreateWip, Update
  <2> QED
    BY <1>1, <2>1, <2>2, <2>3
<1>4. ASSUME NEW o \in opening, CommitDispatch(o)
      PROVE  expWip'[x] # jobWip'[j]
  BY <1>1, <1>4 DEF CommitDispatch
<1>5. ASSUME NEW k \in Workers, StartRun(k)
      PROVE  expWip'[x] # jobWip'[j]
  BY <1>1, <1>5 DEF StartRun
<1>6. ASSUME NEW k \in Workers, NEW verdict \in {"pass", "fail"}, FinishRun(k, verdict) \/ FailRun(k)
      PROVE  expWip'[x] # jobWip'[j]
  <2> DEFINE w == jobWip[task[k].job]
  <2>1. w \in Wips /\ task[k].job \in Jobs
    BY <1>6, HeldJob DEF FinishRun, FailRun
  <2>2. Settled(w) = {y \in Experiments : expWip[y] = w}
    BY <2>1, SettledIsBatch
  <2>3. expWip' = Update(expWip, {y \in Experiments : expWip[y] = w}, None)
    BY <1>6, <2>2 DEF FinishRun, SyncCompletion, FailRun
  <2>4. expWip[x] # w /\ expWip'[x] = expWip[x]
    BY <2>3 DEF Update
  <2>5. jobWip' = jobWip /\ (j # task[k].job => jobStatus'[j] = jobStatus[j])
    BY <1>6 DEF FinishRun, FailRun
  <2> QED
    BY <1>1, <2>4, <2>5
<1> QED
  BY <1>2, <1>3, <1>4, <1>5, <1>6, StepKinds

LEMMA ClosedRequestKept ==
  ASSUME TypeInv, ClosedRequestIsDone, [Next]_vars,
         \A x \in Experiments : expStatus[x] \in Finished => expStatus'[x] = expStatus[x]
  PROVE  ClosedRequestIsDone'
<1> SUFFICES ASSUME NEW x \in Experiments, reqStatus'[RequestOf[SampleOf[x]]] = "closed"
             PROVE  expStatus[x] \in Finished
  BY DEF ClosedRequestIsDone
<1> USE ForeignKeysAssumption DEF TypeInv, LabTypeOK, TypeOK
<1>1. ASSUME reqStatus[RequestOf[SampleOf[x]]] = "closed"
      PROVE  expStatus[x] \in Finished
  BY <1>1 DEF ClosedRequestIsDone
<1>2. CASE Quiet
  BY <1>1, <1>2 DEF Quiet
<1>3. ASSUME NEW w, NEW S, NEW recipe, CreateWip(w, S, recipe)
      PROVE  reqStatus[RequestOf[SampleOf[x]]] = "closed"
  BY <1>3 DEF CreateWip
<1>4. ASSUME NEW o, CommitDispatch(o)
      PROVE  reqStatus[RequestOf[SampleOf[x]]] = "closed"
  BY <1>4 DEF CommitDispatch, Update
<1>5. ASSUME NEW k, StartRun(k)
      PROVE  reqStatus[RequestOf[SampleOf[x]]] = "closed"
  BY <1>5 DEF StartRun, Update
<1>6. ASSUME NEW k, NEW verdict, FinishRun(k, verdict)
      PROVE  reqStatus[RequestOf[SampleOf[x]]] = "closed"
  BY <1>6 DEF FinishRun, SyncCompletion
<1>7. ASSUME NEW k, FailRun(k)
      PROVE  reqStatus[RequestOf[SampleOf[x]]] = "closed"
  BY <1>7 DEF FailRun
<1> QED
  BY <1>1, <1>2, <1>3, <1>4, <1>5, <1>6, <1>7, StepKinds

\* LabInv is inductive, and a step under it rewrites no outcome.
LEMMA StepKeepsLabInv ==
  ASSUME LabInv, [Next]_vars
  PROVE  LabInv' /\ \A x \in Experiments : expStatus[x] \in Finished => expStatus'[x] = expStatus[x]
<1> USE DEF LabInv, ExperimentIntegrity
<1>1. TypeInv /\ TypeInv' /\ RowsKept
  BY StepType DEF TypeInv
<1>2. BatchRunsItsRecipe'
  BY <1>1, BatchRunsItsRecipeKept
<1>3. CASE Lifecycle!Next
  BY <1>1, <1>2, <1>3, LifecycleKeeps, EndedJobKept, ClosedRequestKept DEF TypeInv
<1>4. CASE UNCHANGED <<expStatus, expWip>>
  <2>1. ActiveIffBatched' /\ OneExperimentPerWafer' /\ InSequence'
    BY <1>4 DEF ActiveIffBatched, OneExperimentPerWafer, InSequence
  <2> QED
    BY <1>1, <1>2, <1>4, <2>1, EndedJobKept, ClosedRequestKept DEF TypeInv
<1> QED
  BY <1>1, <1>3, <1>4, StepRefines

LEMMA InitLabInv == Init => LabInv
<1> SUFFICES ASSUME Init PROVE LabInv
  OBVIOUS
<1>1. TypeInv
  BY InitType
<1>2. ExperimentIntegrity
  BY DEF Init, InitTables, ExperimentIntegrity, ActiveIffBatched, BatchRunsItsRecipe,
         OneExperimentPerWafer, InSequence, Active
<1>3. EndedJobSettledItsBatch /\ ClosedRequestIsDone
  BY ForeignKeysAssumption DEF Init, InitTables, EndedJobSettledItsBatch, ClosedRequestIsDone
<1> QED
  BY <1>1, <1>2, <1>3 DEF LabInv, TypeInv

-----------------------------------------------------------------------------
(* The theorems                                                            *)

\* The inductive invariant holds in every laboratory, whatever is stale, retried,
\* redelivered or lost.
THEOREM LabInvariant == Spec => []LabInv
<1>1. LabInv /\ [Next]_vars => LabInv'
  BY StepKeepsLabInv
<1> QED
  BY <1>1, InitLabInv, PTL DEF Spec

\* An experiment is in a batch exactly while it is active, its batch holds its wafer and
\* runs its recipe, a wafer is in one batch at a time, and its experiments go in order: the
\* row locks of create_wip are enough, whatever the unlocked handlers interleave.
THEOREM ExperimentsKeepIntegrity == Spec => []ExperimentIntegrity
<1>1. LabInv => ExperimentIntegrity
  BY DEF LabInv
<1> QED
  BY <1>1, LabInvariant, PTL

\* A completed or failed job has no experiment of its batch left in it.
THEOREM EndedJobsSettle == Spec => []EndedJobSettledItsBatch
<1>1. LabInv => EndedJobSettledItsBatch
  BY DEF LabInv
<1> QED
  BY <1>1, LabInvariant, PTL

\* No experiment of a closed request is open, or ever opened again.
THEOREM ClosedRequestsAreDone == Spec => []ClosedRequestIsDone
<1>1. LabInv => ClosedRequestIsDone
  BY DEF LabInv
<1> QED
  BY <1>1, LabInvariant, PTL

\* No step rewrites the outcome of an experiment: not a redelivered task, a retry or a
\* cancelled job that runs on.
THEOREM OutcomesAreFinal == Spec => OutcomeIsFinal
<1>1. LabInv /\ [Next]_vars =>
        [\A x \in Experiments : expStatus[x] \in Finished => expStatus'[x] = expStatus[x]]_vars
  BY StepKeepsLabInv
<1> QED
  BY <1>1, LabInvariant, PTL DEF Spec, OutcomeIsFinal

\* The workflow implements ExperimentLifecycle: every step of the handlers, tasks and calls
\* is a step of the abstract laboratory or leaves its experiments alone.
THEOREM LabImplementsLifecycle == Spec => KeepsLifecycle
<1>1. Init => Lifecycle!Init
  BY DEF Init, InitTables, Lifecycle!Init, Lifecycle!Earlier, Lifecycle!SameWafer, ExperimentsOf
<1>2. LabInv /\ [Next]_vars => [Lifecycle!Next]_<<expStatus, expWip>>
  BY StepRefines DEF LabInv, ExperimentIntegrity, TypeInv
<1> QED
  BY <1>1, <1>2, LabInvariant, PTL DEF Spec, KeepsLifecycle, Lifecycle!Spec
=============================================================================
