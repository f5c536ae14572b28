--------------------------- MODULE LabCalmProofs ---------------------------
(***************************************************************************)
(* More proofs about the laboratory, most of them about a calm one: a       *)
(* service acts on the row its endpoint has just loaded, no process dies,   *)
(* and the log and notification calls after a completed run do not raise.   *)
(* The number of requests, wafers, machines, workers and jobs, the order of *)
(* the steps, lost and late messages, failed runs and retries are as in     *)
(* every laboratory.  What else a theorem assumes is named in it; confirmed *)
(* results, dead batches, the buttons and the progress bars are about every *)
(* laboratory.                                                              *)
(***************************************************************************)
EXTENDS LabProofs, LabViews, FiniteSetTheorems

Calm == MaxCalls = 0 /\ MaxCrashes = 0 /\ ~ReportMayFail

EquipmentOperations == {"update_equipment", "maintenance", "activate", "deactivate"}

\* The tuples of columns are only a way to write UNCHANGED.
USE DEF tables, requestTable, sampleTable, experimentTable, wipTable, jobTable,
        equipmentTable, environment, otherTables

-----------------------------------------------------------------------------
(* Jobs, their messages and their tasks                                    *)

\* A task's message stays with the broker until the task returns, and a job has one task.
MessageIsHeld ==
  /\ \A k \in Workers : task[k].phase # "idle" => broker[task[k].job] = "held"
  /\ \A k, l \in Workers :
       task[k].phase # "idle" /\ task[l].phase # "idle" /\ task[k].job = task[l].job => k = l

\* A message that waits for a worker is that of a job that has not run.
MessageIsFresh ==
  \A j \in Jobs : broker[j] = "ready" => jobStatus[j] \in {"absent", "queued", "cancelled"}

\* How far the task is and what its job's row says; cancel_dispatch does not stop a task.
TaskFollowsJob ==
  \A k \in Workers :
    /\ task[k].phase = "loaded" => jobStatus[task[k].job] \in {"queued", "cancelled"}
    /\ task[k].phase = "running" => jobStatus[task[k].job] \in {"running", "cancelled"}

\* Transactions in progress create different jobs of different batches, and a retry's
\* failed job waits for it.
OpeningIsExclusive ==
  /\ \A o, p \in opening : o.job = p.job \/ o.wip = p.wip => o = p
  /\ \A o \in opening :
       /\ jobStatus[o.job] = "absent"
       /\ ~o.sent => broker[o.job] = "none"
       /\ o.retryOf # None => jobStatus[o.retryOf] = "failed" /\ jobWip[o.retryOf] = o.wip

JobsInv ==
  /\ calls = {}
  /\ MessageIsHeld /\ MessageIsFresh /\ TaskFollowsJob /\ OpeningIsExclusive

-----------------------------------------------------------------------------
(* The steps of a calm laboratory                                          *)

\* A step that neither a dispatch nor a task takes.
TableStep ==
  /\ UNCHANGED <<jobTable, environment>>
  /\ \/ UNCHANGED tables
     \/ \E s \in Samples :
          \/ ReceiveSample(s, sampleStatus[s], sampleWip[s], reqStatus[RequestOf[s]])
          \/ RejectSample(s, sampleStatus[s], reqStatus[RequestOf[s]])
          \/ \E status \in ManualStatuses : UpdateSampleStatus(s, status)
     \/ \E r \in Requests : CancelRequest(r, reqStatus[r]) \/ CloseRequest(r, reqStatus[r])
     \/ \E w \in Wips :
          \/ ~WipLocked(w) /\ LockWip(w, wipStatus[w])
          \/ "cancel_wip" \in Operations /\ CancelWip(w, wipStatus[w])
     \/ \E w \in Wips, S \in SUBSET Samples, recipe \in Recipes : CreateWip(w, S, recipe)
     \/ EquipmentOperations \cap Operations # {} /\ UNCHANGED otherTables

\* A step of a dispatch's caller.
DispatchStep ==
  \/ /\ Cardinality(opening) < MaxOpening
     /\ \/ \E w \in Wips, e \in Equipment, j \in Jobs : BeginDispatch(w, e, j)
        \/ \E i, j \in Jobs : jobStatus[i] # "absent" /\ BeginRetry(i, jobStatus[i], j)
  \/ \E o \in opening : SubmitDispatch(o) \/ CommitDispatch(o) \/ (~o.sent /\ AbortDispatch(o))
  \/ \E j \in Jobs :
       \/ /\ "cancel_dispatch" \in Operations /\ jobStatus[j] # "absent"
          /\ CancelDispatch(j, jobStatus[j], jobConfirmed[j], eqActive[jobEquip[j]])
       \/ FinalConfirm(j)

LEMMA LoadedRow ==
  ASSUME NEW c \in Loadable
  PROVE  /\ c.op \in Operations
         /\ c.op \in {"cancel_request", "close_request"} =>
              c.request \in Requests /\ c.seen = reqStatus[c.request]
         /\ c.op \in {"receive_sample", "reject_sample"} =>
              /\ c.sample \in Samples /\ c.seen = sampleStatus[c.sample]
              /\ c.wip = sampleWip[c.sample] /\ c.req = reqStatus[RequestOf[c.sample]]
         /\ c.op \in {"lock_wip", "cancel_wip"} => c.wip \in Wips /\ c.seen = wipStatus[c.wip]
         /\ c.op \in {"cancel_dispatch", "retry_dispatch"} =>
              /\ c.job \in Jobs /\ jobStatus[c.job] # "absent" /\ c.seen = jobStatus[c.job]
              /\ c.confirmed = jobConfirmed[c.job] /\ c.active = eqActive[jobEquip[c.job]]
         /\ c.op = "update_equipment" => c.equip \in Equipment
<1>1. CASE \E o \in Called({"cancel_request", "close_request"}), r \in Requests :
             c = [op |-> o, request |-> r, seen |-> reqStatus[r]]
  BY <1>1 DEF Called
<1>2. CASE \E o \in Called({"receive_sample", "reject_sample"}), s \in Samples :
             c = [op |-> o, sample |-> s, seen |-> sampleStatus[s], wip |-> sampleWip[s],
                  req |-> reqStatus[RequestOf[s]]]
  BY <1>2 DEF Called
<1>3. CASE \E o \in Called({"lock_wip", "cancel_wip"}), w \in ExistingWips :
             c = [op |-> o, wip |-> w, seen |-> wipStatus[w]]
  BY <1>3 DEF Called, ExistingWips
<1>4. CASE \E o \in Called({"cancel_dispatch", "retry_dispatch"}), j \in ExistingJobs :
             c = [op |-> o, job |-> j, seen |-> jobStatus[j], confirmed |-> jobConfirmed[j],
                  active |-> eqActive[jobEquip[j]]]
  BY <1>4 DEF Called, ExistingJobs
<1>5. CASE \E o \in Called({"update_equipment"}), e \in Equipment :
             c = [op |-> o, equip |-> e, current |-> eqCurrent[e]]
  BY <1>5 DEF Called
<1> QED
  BY <1>1, <1>2, <1>3, <1>4, <1>5 DEF Loadable

LEMMA ServedKinds ==
  ASSUME NEW c \in Loadable, Handle(c)
  PROVE  TableStep \/ DispatchStep
<1> USE LoadedRow DEF TableStep, DispatchStep
<1>1. CASE c.op = "receive_sample" /\ ReceiveSample(c.sample, c.seen, c.wip, c.req) /\ UNCHANGED environment
  <2>1. UNCHANGED jobTable
    BY <1>1 DEF ReceiveSample
  <2> QED
    BY <1>1, <2>1
<1>2. CASE c.op = "reject_sample" /\ RejectSample(c.sample, c.seen, c.req) /\ UNCHANGED environment
  <2>1. UNCHANGED jobTable
    BY <1>2 DEF RejectSample
  <2> QED
    BY <1>2, <2>1
<1>3. CASE c.op = "cancel_request" /\ CancelRequest(c.request, c.seen) /\ UNCHANGED environment
  <2>1. UNCHANGED jobTable
    BY <1>3 DEF CancelRequest
  <2> QED
    BY <1>3, <2>1
<1>4. CASE c.op = "close_request" /\ CloseRequest(c.request, c.seen) /\ UNCHANGED environment
  <2>1. UNCHANGED jobTable
    BY <1>4 DEF CloseRequest
  <2> QED
    BY <1>4, <2>1
<1>5. CASE c.op = "lock_wip" /\ ~WipLocked(c.wip) /\ LockWip(c.wip, c.seen) /\ UNCHANGED environment
  <2>1. UNCHANGED jobTable
    BY <1>5 DEF LockWip
  <2> QED
    BY <1>5, <2>1
<1>6. CASE c.op = "cancel_wip" /\ CancelWip(c.wip, c.seen) /\ UNCHANGED environment
  <2>1. UNCHANGED jobTable
    BY <1>6 DEF CancelWip
  <2> QED
    BY <1>6, <2>1
<1>7. CASE c.op = "cancel_dispatch" /\ CancelDispatch(c.job, c.seen, c.confirmed, c.active)
  BY <1>7
<1>8. CASE /\ c.op = "retry_dispatch" /\ Cardinality(opening) < MaxOpening
           /\ \E j \in Jobs : BeginRetry(c.job, c.seen, j)
  BY <1>8
<1>9. CASE /\ c.op = "update_equipment" /\ UNCHANGED environment
           /\ \E status \in EquipmentStatus, active \in BOOLEAN :
                UpdateEquipment(c.equip, status, c.current, active)
  <2>1. UNCHANGED otherTables /\ "update_equipment" \in EquipmentOperations \cap Operations
    BY <1>9 DEF UpdateEquipment, EquipmentOperations
  <2>2. UNCHANGED <<jobTable, environment>>
    BY <1>9, <2>1
  <2>3. EquipmentOperations \cap Operations # {}
    BY <1>9, <2>1
  <2> QED
    BY <2>1, <2>2, <2>3
<1> QED
  BY <1>1, <1>2, <1>3, <1>4, <1>5, <1>6, <1>7, <1>8, <1>9 DEF Handle

\* In a calm laboratory no call is kept in flight, and a step is one of these.
LEMMA CalmKinds ==
  ASSUME Calm, TypeInv, calls = {}, [Next]_vars
  PROVE  /\ calls' = {}
         /\ TableStep \/ DispatchStep \/ \E k \in Workers : WorkerStep(k)
<1>1. crashes = 0 /\ ~(crashes < MaxCrashes)
  BY DEF Calm, TypeInv, LabTypeOK
<1>2. Cardinality(calls) = 0 /\ ~(Cardinality(calls) < MaxCalls)
  BY FS_EmptySet DEF Calm
<1>3. CASE CallServed
  BY <1>3, ServedKinds DEF CallServed
<1>4. CASE CallLoaded \/ CallHandled \/ CallDropped \/ DispatchCrashed \/ WorkerCrashed
  BY <1>1, <1>2, <1>4 DEF CallLoaded, CallHandled, CallDropped, DispatchCrashed, WorkerCrashed
<1>5. CASE BatchCreated
  <2>1. UNCHANGED jobTable
    BY <1>5 DEF BatchCreated, CreateWip
  <2> QED
    BY <1>5, <2>1 DEF BatchCreated, TableStep
<1>6. CASE DispatchBegun \/ DispatchSubmitted \/ DispatchCommitted \/ DispatchRefused
  BY <1>6 DEF DispatchBegun, DispatchSubmitted, DispatchCommitted, DispatchRefused, DispatchStep
<1>7. CASE ResultConfirmed
  BY <1>7 DEF ResultConfirmed, DispatchStep
<1>8. CASE StatusSetByHand
  <2>1. UNCHANGED jobTable
    BY <1>8 DEF StatusSetByHand, UpdateSampleStatus
  <2> QED
    BY <1>8, <2>1 DEF StatusSetByHand, TableStep
<1>9. CASE EquipmentManaged
  <2>1. UNCHANGED <<otherTables, environment, calls>> /\ EquipmentOperations \cap Operations # {}
    BY <1>9 DEF EquipmentManaged, MarkMaintenance, ActivateEquipment, DeactivateEquipment,
       EquipmentOperations
  <2>2. UNCHANGED <<jobTable, environment>>
    BY <2>1
  <2> QED
    BY <2>1, <2>2 DEF TableStep
<1>10. CASE \E k \in Workers : WorkerStep(k)
  BY <1>10 DEF WorkerStep
<1>11. CASE UNCHANGED vars
  <2>1. UNCHANGED <<tables, jobTable, environment, calls>>
    BY <1>11 DEF vars
  <2> QED
    BY <2>1 DEF TableStep
<1> QED
  BY <1>3, <1>4, <1>5, <1>6, <1>7, <1>8, <1>9, <1>10, <1>11 DEF Next

-----------------------------------------------------------------------------
(* A calm laboratory's jobs                                                *)

LEMMA InitJobs == Init => JobsInv
BY DEF Init, InitTables, InitEnvironment, JobsInv, MessageIsHeld, MessageIsFresh, TaskFollowsJob,
       OpeningIsExclusive, NoTask

LEMMA TableKeepsJobs ==
  ASSUME JobsInv, calls' = {}, TableStep
  PROVE  JobsInv'
<1>1. UNCHANGED <<jobTable, environment>>
  BY DEF TableStep
<1> QED
  BY <1>1 DEF JobsInv, MessageIsHeld, MessageIsFresh, TaskFollowsJob, OpeningIsExclusive

\* A transaction begins with a job and a batch that no other has.
LEMMA OpeningKeepsJobs ==
  ASSUME TypeInv, JobsInv, calls' = {}, NEW o \in Opening, FreeJob(o.job), ~WipLocked(o.wip), ~o.sent,
         o.retryOf # None => jobStatus[o.retryOf] = "failed" /\ jobWip[o.retryOf] = o.wip,
         opening' = opening \cup {o}, UNCHANGED <<tables, broker, task>>
  PROVE  JobsInv'
<1>1. \A p \in opening : p.job # o.job /\ p.wip # o.wip
  BY DEF FreeJob, WipLocked
<1>2. jobStatus[o.job] = "absent" /\ broker[o.job] = "none"
  BY DEF FreeJob
<1>3. OpeningIsExclusive'
  BY <1>1, <1>2 DEF JobsInv, OpeningIsExclusive
<1> QED
  BY <1>3 DEF JobsInv, MessageIsHeld, MessageIsFresh, TaskFollowsJob

\* What create_dispatch and retry_dispatch open.
LEMMA DispatchOpens ==
  ASSUME NEW w \in Wips, NEW e \in Equipment, NEW j \in Jobs, BeginDispatch(w, e, j)
  PROVE  \E o \in Opening :
           /\ o.job = j /\ o.wip = w /\ o.equip = e /\ o.retryOf = None /\ ~o.sent
           /\ FreeJob(j) /\ ~WipLocked(w) /\ wipStatus[w] = "ready_for_dispatch"
           /\ eqStatus[e] = "idle"
           /\ opening' = opening \cup {o} /\ UNCHANGED <<tables, broker, task>>
<1> DEFINE o == [job |-> j, wip |-> w, equip |-> e, retryOf |-> None, sent |-> FALSE]
<1>1. o \in Opening /\ o.job = j /\ o.wip = w /\ o.equip = e /\ o.retryOf = None /\ ~o.sent
  BY DEF Opening
<1>2. /\ FreeJob(j) /\ ~WipLocked(w) /\ wipStatus[w] = "ready_for_dispatch" /\ eqStatus[e] = "idle"
      /\ opening' = opening \cup {o} /\ UNCHANGED <<tables, broker, task>>
  BY DEF BeginDispatch, IdleEquipment
<1> HIDE DEF o
<1> QED
  BY <1>1, <1>2

LEMMA RetryOpens ==
  ASSUME TypeInv, NEW i \in Jobs, NEW j \in Jobs, jobStatus[i] # "absent", BeginRetry(i, jobStatus[i], j)
  PROVE  \E o \in Opening :
           /\ o.job = j /\ o.wip = jobWip[i] /\ o.equip = jobEquip[i] /\ o.retryOf = i /\ ~o.sent
           /\ FreeJob(j) /\ ~WipLocked(o.wip) /\ jobStatus[i] = "failed"
           /\ opening' = opening \cup {o} /\ UNCHANGED <<tables, broker, task>>
<1> DEFINE o == [job |-> j, wip |-> jobWip[i], equip |-> jobEquip[i], retryOf |-> i, sent |-> FALSE]
<1>1. jobWip[i] \in Wips /\ jobEquip[i] \in Equipment
  BY DEF TypeInv, RowsExist, JobRowsExist
<1>2. /\ o \in Opening /\ o.job = j /\ o.wip = jobWip[i] /\ o.equip = jobEquip[i] /\ o.retryOf = i
      /\ ~o.sent
  BY <1>1 DEF Opening
<1>3. /\ FreeJob(j) /\ ~WipLocked(jobWip[i]) /\ jobStatus[i] = "failed"
      /\ opening' = opening \cup {o} /\ UNCHANGED <<tables, broker, task>>
  BY DEF BeginRetry, Retryable
<1> HIDE DEF o
<1> QED
  BY <1>2, <1>3

\* What submitting changes of a transaction.
LEMMA SubmitSends ==
  ASSUME TypeInv, NEW o \in opening, SubmitDispatch(o)
  PROVE  \E p \in Opening :
           /\ p.job = o.job /\ p.wip = o.wip /\ p.equip = o.equip /\ p.retryOf = o.retryOf /\ p.sent
           /\ o \in Opening /\ ~o.sent
           /\ opening' = (opening \ {o}) \cup {p}
           /\ broker' = [broker EXCEPT ![o.job] = "ready"] \/ broker' = broker
           /\ UNCHANGED <<tables, task>>
<1> DEFINE p == [o EXCEPT !.sent = TRUE]
<1>1. o \in Opening
  BY DEF TypeInv, LabTypeOK, EnvironmentTypeOK
<1>2. p \in Opening /\ p.job = o.job /\ p.wip = o.wip /\ p.equip = o.equip /\ p.retryOf = o.retryOf /\ p.sent
  BY <1>1 DEF Opening
<1>3. /\ ~o.sent /\ opening' = (opening \ {o}) \cup {p} /\ UNCHANGED <<tables, task>>
      /\ broker' = [broker EXCEPT ![o.job] = "ready"] \/ broker' = broker
  BY DEF SubmitDispatch
<1> HIDE DEF p
<1> QED
  BY <1>1, <1>2, <1>3

LEMMA SubmitKeepsJobs ==
  ASSUME TypeInv, JobsInv, calls' = {}, NEW o \in opening, SubmitDispatch(o)
  PROVE  JobsInv'
<1> PICK p \in Opening :
      /\ p.job = o.job /\ p.wip = o.wip /\ p.equip = o.equip /\ p.retryOf = o.retryOf /\ p.sent
      /\ o \in Opening /\ ~o.sent
      /\ opening' = (opening \ {o}) \cup {p}
      /\ broker' = [broker EXCEPT ![o.job] = "ready"] \/ broker' = broker
      /\ UNCHANGED <<tables, task>>
  BY SubmitSends
<1>1. o.job \in Jobs /\ jobStatus[o.job] = "absent" /\ broker[o.job] = "none"
  BY DEF Opening, JobsInv, OpeningIsExclusive
<1>2. \A j \in Jobs : j # o.job => broker'[j] = broker[j]
  BY DEF TypeInv, LabTypeOK, EnvironmentTypeOK
<1>3. \A q \in opening \ {o} : q.job # o.job /\ q.wip # o.wip /\ q.job \in Jobs
  BY DEF JobsInv, OpeningIsExclusive, TypeInv, LabTypeOK, EnvironmentTypeOK, Opening
<1>4. OpeningIsExclusive'
  BY <1>1, <1>2, <1>3 DEF JobsInv, OpeningIsExclusive
<1>5. MessageIsFresh'
  BY <1>1, <1>2 DEF JobsInv, MessageIsFresh
<1>6. MessageIsHeld'
  BY <1>1, <1>2 DEF JobsInv, MessageIsHeld, TypeInv, RowsExist, TaskRowsExist
<1> QED
  BY <1>4, <1>5, <1>6 DEF JobsInv, TaskFollowsJob

LEMMA CommitKeepsJobs ==
  ASSUME TypeInv, JobsInv, calls' = {}, NEW o \in opening, CommitDispatch(o)
  PROVE  JobsInv'
<1>1. /\ o \in Opening /\ o.job \in Jobs /\ jobStatus[o.job] = "absent"
      /\ o.retryOf \in Jobs => jobStatus[o.retryOf] = "failed" /\ jobWip[o.retryOf] = o.wip
  BY NullAssumption DEF JobsInv, OpeningIsExclusive, TypeInv, LabTypeOK, EnvironmentTypeOK, Opening
<1>2. /\ opening' = opening \ {o} /\ UNCHANGED <<broker, task, jobConfirmed>>
      /\ \A j \in Jobs : jobStatus'[j] = IF j = o.job THEN "queued" ELSE
                                         IF j = o.retryOf THEN "retrying" ELSE jobStatus[j]
      /\ \A j \in Jobs : j # o.job => jobWip'[j] = jobWip[j]
  BY DEF CommitDispatch
<1>3. \A p \in opening \ {o} :
        /\ p.job \in Jobs /\ p.job # o.job /\ jobStatus[p.job] = "absent"
        /\ p.retryOf # None => /\ p.retryOf \in Jobs /\ p.retryOf # o.retryOf
                               /\ jobStatus[p.retryOf] = "failed" /\ jobWip[p.retryOf] = p.wip
  BY <1>1 DEF JobsInv, OpeningIsExclusive, TypeInv, LabTypeOK, EnvironmentTypeOK, Opening
<1>4. OpeningIsExclusive'
  BY <1>1, <1>2, <1>3 DEF JobsInv, OpeningIsExclusive
<1>5. MessageIsFresh' /\ MessageIsHeld'
  BY <1>1, <1>2 DEF JobsInv, MessageIsFresh, MessageIsHeld
<1>6. TaskFollowsJob'
  BY <1>1, <1>2 DEF JobsInv, TaskFollowsJob, TypeInv, RowsExist, TaskRowsExist
<1> QED
  BY <1>4, <1>5, <1>6 DEF JobsInv

LEMMA AbortKeepsJobs ==
  ASSUME JobsInv, calls' = {}, NEW o \in opening, AbortDispatch(o)
  PROVE  JobsInv'
BY DEF AbortDispatch, JobsInv, MessageIsHeld, MessageIsFresh, TaskFollowsJob, OpeningIsExclusive

LEMMA CancelKeepsJobs ==
  ASSUME TypeInv, JobsInv, calls' = {}, NEW j \in Jobs, jobStatus[j] # "absent",
         CancelDispatch(j, jobStatus[j], jobConfirmed[j], eqActive[jobEquip[j]])
  PROVE  JobsInv'
<1>1. /\ jobStatus[j] \notin {"completed", "failed"} /\ \A o \in opening : o.retryOf # j
      /\ \A i \in Jobs : jobStatus'[i] = IF i = j THEN "cancelled" ELSE jobStatus[i]
      /\ UNCHANGED <<environment, jobWip>>
  BY DEF CancelDispatch, TerminalDispatch, JobLocked, TypeInv, LabTypeOK, TypeOK
<1>2. OpeningIsExclusive'
  BY <1>1 DEF JobsInv, OpeningIsExclusive, TypeInv, LabTypeOK, EnvironmentTypeOK, Opening
<1>3. MessageIsFresh' /\ MessageIsHeld'
  BY <1>1 DEF JobsInv, MessageIsFresh, MessageIsHeld
<1>4. TaskFollowsJob'
  BY <1>1 DEF JobsInv, TaskFollowsJob, TypeInv, RowsExist, TaskRowsExist
<1> QED
  BY <1>2, <1>3, <1>4 DEF JobsInv

LEMMA ConfirmKeepsJobs ==
  ASSUME TypeInv, JobsInv, calls' = {}, NEW j \in Jobs, FinalConfirm(j)
  PROVE  JobsInv'
<1>1. UNCHANGED <<environment, jobWip, jobStatus>>
  BY DEF FinalConfirm
<1> QED
  BY <1>1 DEF JobsInv, MessageIsHeld, MessageIsFresh, TaskFollowsJob, OpeningIsExclusive

LEMMA TakeKeepsJobs ==
  ASSUME TypeInv, JobsInv, calls' = {}, NEW k \in Workers, NEW j \in Jobs, TakeMessage(k, j)
  PROVE  JobsInv'
<1>1. /\ broker[j] = "ready" /\ jobStatus[j] \in {"queued", "cancelled"}
      /\ \A i \in Jobs : broker'[i] = IF i = j THEN "held" ELSE broker[i]
      /\ UNCHANGED <<tables, opening>>
  BY DEF TakeMessage, JobsInv, MessageIsFresh, TypeInv, LabTypeOK, EnvironmentTypeOK
<1>2. /\ task[k].phase = "idle"
      /\ task'[k].phase = "loaded" /\ task'[k].job = j
      /\ \A l \in Workers : l # k => task'[l] = task[l]
  BY <1>1 DEF TakeMessage, TypeInv, LabTypeOK, EnvironmentTypeOK
<1>3. \A l \in Workers : task[l].phase # "idle" => task[l].job \in Jobs /\ task[l].job # j
  BY <1>1 DEF JobsInv, MessageIsHeld, TypeInv, RowsExist, TaskRowsExist
<1>4. MessageIsHeld'
  BY <1>1, <1>2, <1>3 DEF JobsInv, MessageIsHeld
<1>5. TaskFollowsJob'
  BY <1>1, <1>2 DEF JobsInv, TaskFollowsJob
<1>6. OpeningIsExclusive'
  BY <1>1 DEF JobsInv, OpeningIsExclusive, TypeInv, LabTypeOK, EnvironmentTypeOK, Opening
<1>7. MessageIsFresh'
  BY <1>1 DEF JobsInv, MessageIsFresh
<1> QED
  BY <1>4, <1>5, <1>6, <1>7 DEF JobsInv

LEMMA MissKeepsJobs ==
  ASSUME TypeInv, JobsInv, calls' = {}, NEW k \in Workers, NEW j \in Jobs, MissDispatch(k, j)
  PROVE  JobsInv'
<1>1. /\ broker[j] = "ready"
      /\ \A i \in Jobs : broker'[i] = IF i = j THEN "acked" ELSE broker[i]
      /\ UNCHANGED <<tables, opening, task>>
  BY DEF MissDispatch, TypeInv, LabTypeOK, EnvironmentTypeOK
<1>2. MessageIsHeld'
  BY <1>1 DEF JobsInv, MessageIsHeld, TypeInv, RowsExist, TaskRowsExist
<1>3. OpeningIsExclusive'
  BY <1>1 DEF JobsInv, OpeningIsExclusive, TypeInv, LabTypeOK, EnvironmentTypeOK, Opening
<1>4. MessageIsFresh' /\ TaskFollowsJob'
  BY <1>1 DEF JobsInv, MessageIsFresh, TaskFollowsJob
<1> QED
  BY <1>2, <1>3, <1>4 DEF JobsInv

\* What the rows say of the job of a task that is not over.
LEMMA TaskJob ==
  ASSUME TypeInv, JobsInv, NEW k \in Workers, task[k].phase # "idle"
  PROVE  /\ task[k].job \in Jobs /\ jobStatus[task[k].job] # "absent" /\ broker[task[k].job] = "held"
         /\ jobWip[task[k].job] \in Wips /\ jobEquip[task[k].job] \in Equipment
         /\ \A l \in Workers : l # k /\ task[l].phase # "idle" =>
              task[l].job \in Jobs /\ task[l].job # task[k].job
BY DEF TypeInv, RowsExist, TaskRowsExist, JobRowsExist, JobsInv, MessageIsHeld

\* A task's transaction moves its own job on; `status' is what it writes.
LEMMA RunKeepsJobs ==
  ASSUME TypeInv, JobsInv, calls' = {}, NEW k \in Workers, task[k].phase \in {"loaded", "running"},
         NEW phase \in {"running", "reporting", "returning"}, NEW status \in DispatchStatus,
         phase = "running" => status = "running",
         task' = [task EXCEPT ![k].phase = phase],
         jobStatus' = [jobStatus EXCEPT ![task[k].job] = status],
         ~JobLocked(task[k].job), UNCHANGED <<jobWip, broker, opening>>
  PROVE  JobsInv'
<1> DEFINE j == task[k].job
<1>1. /\ j \in Jobs /\ jobStatus[j] # "absent" /\ jobStatus[j] # "completed" /\ broker[j] = "held"
      /\ \A l \in Workers : l # k /\ task[l].phase # "idle" => task[l].job \in Jobs /\ task[l].job # j
  BY TaskJob DEF JobsInv, TaskFollowsJob
<1>2. /\ \A i \in Jobs : i # j => jobStatus'[i] = jobStatus[i]
      /\ jobStatus'[j] = status
  BY <1>1 DEF JobsInv, TypeInv, LabTypeOK, TypeOK
<1>3. /\ task'[k].phase = phase /\ task'[k].job = j
      /\ \A l \in Workers : l # k => task'[l] = task[l]
  BY DEF TypeInv, LabTypeOK, EnvironmentTypeOK, Task
<1> HIDE DEF j
<1>4. MessageIsHeld'
  BY <1>1, <1>3 DEF JobsInv, MessageIsHeld
<1>5. TaskFollowsJob'
  BY <1>1, <1>2, <1>3 DEF JobsInv, TaskFollowsJob
<1>6. OpeningIsExclusive'
  <2>1. \A o \in opening : o.retryOf # j /\ o.job # j /\ o.job \in Jobs /\ o.retryOf \in Jobs \cup {None}
    BY <1>1 DEF j, JobLocked, JobsInv, OpeningIsExclusive, TypeInv, LabTypeOK, EnvironmentTypeOK, Opening
  <2> QED
    BY <1>1, <1>2, <2>1 DEF JobsInv, OpeningIsExclusive
<1>7. MessageIsFresh'
  BY <1>1, <1>2 DEF JobsInv, MessageIsFresh
<1> QED
  BY <1>4, <1>5, <1>6, <1>7 DEF JobsInv

LEMMA StartKeepsJobs ==
  ASSUME TypeInv, JobsInv, calls' = {}, NEW k \in Workers, StartRun(k)
  PROVE  JobsInv'
<1>1. /\ task[k].phase = "loaded" /\ task' = [task EXCEPT ![k].phase = "running"]
      /\ jobStatus' = [jobStatus EXCEPT ![task[k].job] = "running"]
      /\ ~JobLocked(task[k].job) /\ UNCHANGED <<jobWip, broker, opening>>
  BY DEF StartRun
<1> QED
  BY <1>1, RunKeepsJobs DEF DispatchStatus

LEMMA FinishKeepsJobs ==
  ASSUME TypeInv, JobsInv, calls' = {}, NEW k \in Workers, NEW verdict, FinishRun(k, verdict)
  PROVE  JobsInv'
<1>1. /\ task[k].phase = "running" /\ task' = [task EXCEPT ![k].phase = "reporting"]
      /\ jobStatus' = [jobStatus EXCEPT ![task[k].job] = "completed"]
      /\ ~JobLocked(task[k].job) /\ UNCHANGED <<jobWip, broker, opening>>
  BY DEF FinishRun
<1> QED
  BY <1>1, RunKeepsJobs DEF DispatchStatus

LEMMA FailKeepsJobs ==
  ASSUME Calm, TypeInv, JobsInv, calls' = {}, NEW k \in Workers, FailRun(k)
  PROVE  JobsInv'
<1>1. /\ task[k].phase \in {"loaded", "running"} /\ task' = [task EXCEPT ![k].phase = "returning"]
      /\ jobStatus' = [jobStatus EXCEPT ![task[k].job] = "failed"]
      /\ ~JobLocked(task[k].job) /\ UNCHANGED <<jobWip, broker, opening>>
  BY DEF FailRun, Calm
<1> QED
  BY <1>1, RunKeepsJobs DEF DispatchStatus

LEMMA AcknowledgeKeepsJobs ==
  ASSUME TypeInv, JobsInv, calls' = {}, NEW k \in Workers, Acknowledge(k)
  PROVE  JobsInv'
<1> DEFINE j == task[k].job
<1>1. /\ task[k].phase # "idle"
      /\ broker' = [broker EXCEPT ![j] = "acked"]
      /\ UNCHANGED <<tables, opening>>
  BY DEF Acknowledge
<1>2. /\ j \in Jobs /\ broker[j] = "held" /\ jobStatus[j] # "absent"
      /\ \A l \in Workers : l # k /\ task[l].phase # "idle" => task[l].job \in Jobs /\ task[l].job # j
  BY <1>1, TaskJob
<1>3. \A i \in Jobs : broker'[i] = IF i = j THEN "acked" ELSE broker[i]
  BY <1>1 DEF TypeInv, LabTypeOK, EnvironmentTypeOK
<1>4. task'[k].phase = "idle" /\ \A l \in Workers : l # k => task'[l] = task[l]
  BY DEF Acknowledge, NoTask, TypeInv, LabTypeOK, EnvironmentTypeOK
<1> HIDE DEF j
<1>5. MessageIsHeld'
  BY <1>2, <1>3, <1>4 DEF JobsInv, MessageIsHeld
<1>6. OpeningIsExclusive'
  BY <1>1, <1>2, <1>3 DEF JobsInv, OpeningIsExclusive, TypeInv, LabTypeOK, EnvironmentTypeOK, Opening
<1>7. MessageIsFresh' /\ TaskFollowsJob'
  BY <1>1, <1>3, <1>4 DEF JobsInv, MessageIsFresh, TaskFollowsJob
<1> QED
  BY <1>5, <1>6, <1>7 DEF JobsInv

LEMMA StepKeepsJobs ==
  ASSUME Calm, TypeInv, JobsInv, [Next]_vars
  PROVE  JobsInv'
<1>1. calls' = {} /\ (TableStep \/ DispatchStep \/ \E k \in Workers : WorkerStep(k))
  BY CalmKinds DEF JobsInv
<1>2. CASE TableStep
  BY <1>1, <1>2, TableKeepsJobs
<1>3. CASE DispatchStep
  <2>1. ASSUME NEW w \in Wips, NEW e \in Equipment, NEW j \in Jobs, BeginDispatch(w, e, j)
        PROVE  JobsInv'
    BY <1>1, <2>1, DispatchOpens, OpeningKeepsJobs
  <2>2. ASSUME NEW i \in Jobs, NEW j \in Jobs, jobStatus[i] # "absent", BeginRetry(i, jobStatus[i], j)
        PROVE  JobsInv'
    BY <1>1, <2>2, RetryOpens, OpeningKeepsJobs
  <2> QED
    BY <1>1, <1>3, <2>1, <2>2, SubmitKeepsJobs, CommitKeepsJobs, AbortKeepsJobs, CancelKeepsJobs,
       ConfirmKeepsJobs DEF DispatchStep
<1>4. CASE \E k \in Workers : WorkerStep(k)
  BY <1>1, <1>4, TakeKeepsJobs, MissKeepsJobs, StartKeepsJobs, FinishKeepsJobs, FailKeepsJobs,
     AcknowledgeKeepsJobs DEF WorkerStep
<1> QED
  BY <1>1, <1>2, <1>3, <1>4

LEMMA JobsInvInvariant ==
  ASSUME Calm
  PROVE  Spec => [](TypeInv /\ JobsInv)
<1>1. TypeInv /\ JobsInv /\ [Next]_vars => (TypeInv /\ JobsInv)'
  BY StepKeepsJobs, StepType
<1> QED
  BY <1>1, InitType, InitJobs, PTL DEF Spec

-----------------------------------------------------------------------------
(* Batches and their jobs                                                  *)

\* The job, cancelled or not, is still to be run or running.
Before(j) ==
  /\ jobStatus[j] # "absent"
  /\ \/ jobStatus[j] = "queued" \/ broker[j] = "ready"
     \/ \E k \in Workers : task[k].job = j /\ task[k].phase = "loaded"
Amid(j) ==
  \/ jobStatus[j] = "running"
  \/ \E k \in Workers : task[k].job = j /\ task[k].phase = "running"
Outstanding(j) == Before(j) \/ Amid(j)

BatchFollowsJob ==
  \A j \in Jobs :
    /\ Before(j) => wipStatus[jobWip[j]] = "dispatching"
    /\ Amid(j) => wipStatus[jobWip[j]] = "running"
    /\ jobStatus[j] = "failed" => wipStatus[jobWip[j]] = "failed"

OneJobAtATime ==
  \A i, j \in Jobs :
    /\ Outstanding(i) /\ Outstanding(j) /\ jobWip[i] = jobWip[j] => i = j
    /\ jobStatus[i] = "failed" /\ jobStatus[j] = "failed" /\ jobWip[i] = jobWip[j] => i = j

OpeningBatch ==
  \A o \in opening : o.retryOf = None => wipStatus[o.wip] = "ready_for_dispatch"

BatchesInv == BatchFollowsJob /\ OneJobAtATime /\ OpeningBatch

LEMMA InitBatches == Init => BatchesInv
BY DEF Init, InitTables, InitEnvironment, BatchesInv, BatchFollowsJob, OneJobAtATime, OpeningBatch,
       Before, Amid, Outstanding, NoTask

\* Without cancel_wip only a batch that is new or a draft changes beside the tasks' steps.
LEMMA TableMovesBatches ==
  ASSUME TypeInv, "cancel_wip" \notin Operations, TableStep
  PROVE  /\ UNCHANGED <<jobTable, environment>>
         /\ \A w \in Wips : wipStatus'[w] # wipStatus[w] =>
              \/ wipStatus[w] = "absent" /\ wipStatus'[w] = "draft"
              \/ wipStatus[w] = "draft" /\ wipStatus'[w] = "ready_for_dispatch"
<1> USE DEF TypeInv, LabTypeOK, TypeOK
<1>1. UNCHANGED <<jobTable, environment>>
  BY DEF TableStep
<1>2. ASSUME NEW s, ReceiveSample(s, sampleStatus[s], sampleWip[s], reqStatus[RequestOf[s]])
      PROVE  UNCHANGED wipStatus
  BY <1>2 DEF ReceiveSample
<1>3. ASSUME NEW s, NEW status, RejectSample(s, sampleStatus[s], reqStatus[RequestOf[s]])
                                \/ UpdateSampleStatus(s, status)
      PROVE  UNCHANGED wipStatus
  BY <1>3 DEF RejectSample, UpdateSampleStatus
<1>4. ASSUME NEW r, CancelRequest(r, reqStatus[r]) \/ CloseRequest(r, reqStatus[r])
      PROVE  UNCHANGED wipStatus
  BY <1>4 DEF CancelRequest, CloseRequest
<1>5. ASSUME NEW v \in Wips, LockWip(v, wipStatus[v])
      PROVE  /\ \A w \in Wips : wipStatus'[w] # wipStatus[w] =>
                  wipStatus[w] = "draft" /\ wipStatus'[w] = "ready_for_dispatch"
  BY <1>5 DEF LockWip
<1>6. ASSUME NEW v \in Wips, NEW S, NEW recipe, CreateWip(v, S, recipe)
      PROVE  /\ \A w \in Wips : wipStatus'[w] # wipStatus[w] =>
                  wipStatus[w] = "absent" /\ wipStatus'[w] = "draft"
  BY <1>6 DEF CreateWip
<1>7. ASSUME UNCHANGED tables \/ UNCHANGED otherTables
      PROVE  UNCHANGED wipStatus
  BY <1>7
<1> HIDE DEF tables, otherTables, TypeInv, LabTypeOK, TypeOK
<1> QED
  BY <1>1, <1>2, <1>3, <1>4, <1>5, <1>6, <1>7 DEF TableStep

\* A step that leaves no more to run, and no other batch to open.
LEMMA ShrinkKeepsBatches ==
  ASSUME TypeInv, BatchesInv,
         \A j \in Jobs :
           /\ Before(j)' => Before(j)
           /\ Amid(j)' => Amid(j)
           /\ jobStatus'[j] = "failed" => jobStatus[j] = "failed",
         \A j \in Jobs : Before(j) \/ Amid(j) \/ jobStatus[j] = "failed" => jobWip[j] \in Wips,
         \A w \in Wips : wipStatus'[w] = wipStatus[w] \/ wipStatus[w] \in {"absent", "draft"},
         \A o \in opening' : \/ o.wip \in Wips /\ \E p \in opening : p.wip = o.wip /\ p.retryOf = o.retryOf
                             \/ o.retryOf = None => wipStatus'[o.wip] = "ready_for_dispatch",
         UNCHANGED jobWip
  PROVE  BatchesInv'
<1>1. BatchFollowsJob'
  BY DEF BatchesInv, BatchFollowsJob
<1>2. OneJobAtATime'
  BY DEF BatchesInv, OneJobAtATime, Outstanding
<1>3. OpeningBatch'
  BY DEF BatchesInv, OpeningBatch
<1> QED
  BY <1>1, <1>2, <1>3 DEF BatchesInv

\* What is still to run names its batch.
LEMMA OutstandingHasBatch ==
  ASSUME TypeInv, JobsInv, NEW j \in Jobs, Before(j) \/ Amid(j) \/ jobStatus[j] = "failed"
  PROVE  jobStatus[j] # "absent" /\ jobWip[j] \in Wips
BY DEF Before, Amid, TypeInv, RowsExist, JobRowsExist, JobsInv, TaskFollowsJob

LEMMA TableKeepsBatches ==
  ASSUME TypeInv, JobsInv, BatchesInv, "cancel_wip" \notin Operations, TableStep
  PROVE  BatchesInv'
<1>1. UNCHANGED <<jobTable, environment>>
  BY TableMovesBatches
<1>2. \A j \in Jobs : (Before(j)' => Before(j)) /\ (Amid(j)' => Amid(j))
  BY <1>1 DEF Before, Amid
<1>3. \A o \in opening' : o.wip \in Wips /\ o \in opening
  BY <1>1 DEF TypeInv, LabTypeOK, EnvironmentTypeOK, Opening
<1> QED
  BY <1>1, <1>2, <1>3, TableMovesBatches, OutstandingHasBatch, ShrinkKeepsBatches

LEMMA OpeningKeepsBatches ==
  ASSUME TypeInv, JobsInv, BatchesInv, NEW o \in Opening,
         o.retryOf = None => wipStatus[o.wip] = "ready_for_dispatch",
         opening' = opening \cup {o}, UNCHANGED <<tables, broker, task>>
  PROVE  BatchesInv'
<1>1. \A j \in Jobs : (Before(j)' => Before(j)) /\ (Amid(j)' => Amid(j))
  BY DEF Before, Amid
<1>2. \A p \in opening' : p.wip \in Wips /\ (p \in opening \/ p = o)
  BY DEF TypeInv, LabTypeOK, EnvironmentTypeOK, Opening
<1> QED
  BY <1>1, <1>2, OutstandingHasBatch, ShrinkKeepsBatches

LEMMA SubmitKeepsBatches ==
  ASSUME TypeInv, JobsInv, BatchesInv, NEW o \in opening, SubmitDispatch(o)
  PROVE  BatchesInv'
<1> PICK p \in Opening :
      /\ p.job = o.job /\ p.wip = o.wip /\ p.equip = o.equip /\ p.retryOf = o.retryOf /\ p.sent
      /\ o \in Opening /\ ~o.sent
      /\ opening' = (opening \ {o}) \cup {p}
      /\ broker' = [broker EXCEPT ![o.job] = "ready"] \/ broker' = broker
      /\ UNCHANGED <<tables, task>>
  BY SubmitSends
<1>1. o.job \in Jobs /\ jobStatus[o.job] = "absent"
  BY DEF Opening, JobsInv, OpeningIsExclusive
<1>2. \A j \in Jobs : j # o.job => broker'[j] = broker[j]
  BY DEF TypeInv, LabTypeOK, EnvironmentTypeOK
<1>3. \A j \in Jobs : (Before(j)' => Before(j)) /\ (Amid(j)' => Amid(j))
  BY <1>1, <1>2 DEF Before, Amid
<1>4. \A q \in opening' : q.wip \in Wips /\ \E r \in opening : r.wip = q.wip /\ r.retryOf = q.retryOf
  BY DEF TypeInv, LabTypeOK, EnvironmentTypeOK, Opening
<1> QED
  BY <1>3, <1>4, OutstandingHasBatch, ShrinkKeepsBatches

LEMMA CommitKeepsBatches ==
  ASSUME TypeInv, JobsInv, BatchesInv, NEW o \in opening, CommitDispatch(o)
  PROVE  BatchesInv'
<1>1. /\ o \in Opening /\ o.job \in Jobs /\ o.wip \in Wips /\ jobStatus[o.job] = "absent"
      /\ o.retryOf \in Jobs => jobStatus[o.retryOf] = "failed" /\ jobWip[o.retryOf] = o.wip
      /\ o.retryOf \in Jobs \cup {None}
  BY NullAssumption DEF JobsInv, OpeningIsExclusive, TypeInv, LabTypeOK, EnvironmentTypeOK, Opening
<1>2. /\ opening' = opening \ {o} /\ UNCHANGED <<broker, task>>
      /\ \A j \in Jobs : jobStatus'[j] = IF j = o.job THEN "queued" ELSE
                                         IF j = o.retryOf THEN "retrying" ELSE jobStatus[j]
      /\ \A j \in Jobs : jobWip'[j] = IF j = o.job THEN o.wip ELSE jobWip[j]
      /\ \A w \in Wips : wipStatus'[w] = IF w = o.wip THEN "dispatching" ELSE wipStatus[w]
  BY DEF CommitDispatch, TypeInv, LabTypeOK, TypeOK
<1>3. wipStatus[o.wip] \in {"ready_for_dispatch", "failed"}
  BY <1>1 DEF BatchesInv, BatchFollowsJob, OpeningBatch
<1>4. ~Amid(o.job)' /\ \A k \in Workers : task[k].phase # "idle" => task[k].job # o.job
  BY <1>1, <1>2 DEF Amid, TypeInv, RowsExist, TaskRowsExist
<1>5. ASSUME NEW j \in Jobs, j # o.job
      PROVE  /\ Before(j)' => Before(j)
             /\ Amid(j)' => Amid(j)
             /\ jobStatus'[j] = "failed" => jobStatus[j] = "failed" /\ j # o.retryOf
  <2>1. CASE j = o.retryOf
    <3>1. jobStatus[j] = "failed" /\ jobStatus'[j] = "retrying" /\ broker[j] # "ready"
      BY <1>1, <1>2, <1>5, <2>1 DEF JobsInv, MessageIsFresh
    <3>2. \A k \in Workers : task[k].phase \in {"loaded", "running"} => task[k].job # j
      BY <3>1 DEF JobsInv, TaskFollowsJob
    <3> QED
      BY <1>2, <3>1, <3>2 DEF Before, Amid
  <2>2. CASE j # o.retryOf
    BY <1>2, <1>5, <2>2 DEF Before, Amid
  <2> QED
    BY <2>1, <2>2
<1>6. \A j \in Jobs : /\ Before(j) \/ Amid(j) => jobWip[j] # o.wip /\ jobWip[j] \in Wips
                      /\ jobStatus[j] = "failed" /\ j # o.retryOf => jobWip[j] # o.wip /\ jobWip[j] \in Wips
  BY <1>1, <1>3, OutstandingHasBatch DEF BatchesInv, BatchFollowsJob, OneJobAtATime, OpeningBatch
<1>7. BatchFollowsJob'
  BY <1>1, <1>2, <1>4, <1>5, <1>6 DEF BatchesInv, BatchFollowsJob
<1>8. OneJobAtATime'
  BY <1>1, <1>2, <1>4, <1>5, <1>6 DEF BatchesInv, OneJobAtATime, Outstanding
<1>9. OpeningBatch'
  BY <1>1, <1>2 DEF BatchesInv, OpeningBatch, JobsInv, OpeningIsExclusive, TypeInv, LabTypeOK,
     EnvironmentTypeOK, Opening
<1> QED
  BY <1>7, <1>8, <1>9 DEF BatchesInv

LEMMA AsideKeepsBatches ==
  ASSUME TypeInv, JobsInv, BatchesInv, UNCHANGED <<jobWip, wipStatus, broker, task>>,
         opening' \subseteq opening,
         \A j \in Jobs : jobStatus'[j] = jobStatus[j] \/ (jobStatus[j] # "absent" /\ jobStatus'[j] = "cancelled")
  PROVE  BatchesInv'
<1>1. \A j \in Jobs : (Before(j)' => Before(j)) /\ (Amid(j)' => Amid(j))
  BY DEF Before, Amid
<1>2. \A o \in opening' : o \in opening /\ o.wip \in Wips
  BY DEF TypeInv, LabTypeOK, EnvironmentTypeOK, Opening
<1> QED
  BY <1>1, <1>2, OutstandingHasBatch, ShrinkKeepsBatches

LEMMA MessageKeepsBatches ==
  ASSUME TypeInv, JobsInv, BatchesInv, NEW k \in Workers, NEW j \in Jobs,
         TakeMessage(k, j) \/ MissDispatch(k, j) \/ Acknowledge(k)
  PROVE  BatchesInv'
<1>1. /\ UNCHANGED <<tables, opening>>
      /\ \A i \in Jobs : broker'[i] = "ready" => broker[i] = "ready"
      /\ \A l \in Workers : \/ task'[l] = task[l]
                            \/ task'[l].phase = "idle"
                            \/ task'[l].phase = "loaded" /\ task'[l].job = j /\ broker[j] = "ready"
  BY DEF TakeMessage, MissDispatch, Acknowledge, NoTask, TypeInv, LabTypeOK, EnvironmentTypeOK
<1>2. \A i \in Jobs : (Before(i)' => Before(i)) /\ (Amid(i)' => Amid(i))
  BY <1>1 DEF Before, Amid
<1>3. \A o \in opening' : o \in opening /\ o.wip \in Wips
  BY <1>1 DEF TypeInv, LabTypeOK, EnvironmentTypeOK, Opening
<1> QED
  BY <1>1, <1>2, <1>3, OutstandingHasBatch, ShrinkKeepsBatches

\* A task's transaction moves its own job and batch on.
LEMMA RunKeepsBatches ==
  ASSUME TypeInv, JobsInv, BatchesInv, NEW k \in Workers, task[k].phase \in {"loaded", "running"},
         NEW phase, NEW status,
         \/ phase = "running" /\ status = "running" /\ wipStatus'[jobWip[task[k].job]] = "running"
         \/ phase = "reporting" /\ status = "completed"
         \/ phase = "returning" /\ status = "failed" /\ wipStatus'[jobWip[task[k].job]] = "failed",
         task' = [task EXCEPT ![k].phase = phase],
         jobStatus' = [jobStatus EXCEPT ![task[k].job] = status],
         \A w \in Wips : w # jobWip[task[k].job] => wipStatus'[w] = wipStatus[w],
         UNCHANGED <<jobWip, broker, opening>>
  PROVE  BatchesInv'
<1> PICK j \in Jobs, w \in Wips : j = task[k].job /\ w = jobWip[j]
  BY TaskJob
<1>1. /\ jobStatus[j] # "absent" /\ broker[j] = "held"
      /\ \A l \in Workers : l # k /\ task[l].phase # "idle" => task[l].job # j
  BY TaskJob
<1>2. Outstanding(j) /\ wipStatus[w] \in {"dispatching", "running"}
  BY <1>1 DEF Outstanding, Before, Amid, BatchesInv, BatchFollowsJob
<1>3. /\ \A i \in Jobs : i # j => jobStatus'[i] = jobStatus[i]
      /\ jobStatus'[j] = status
      /\ task'[k].phase = phase /\ task'[k].job = j
      /\ \A l \in Workers : l # k => task'[l] = task[l]
  BY <1>1 DEF TypeInv, LabTypeOK, EnvironmentTypeOK, TypeOK, Task
<1>4. UNCHANGED <<jobWip, broker, opening>> /\ \A v \in Wips : v # w => wipStatus'[v] = wipStatus[v]
  OBVIOUS
<1>5. /\ phase \notin {"idle", "loaded"} /\ status \notin {"queued", "absent"}
      /\ phase = "running" <=> status = "running"
      /\ status = "running" => wipStatus'[w] = "running"
      /\ status = "failed" => wipStatus'[w] = "failed"
  OBVIOUS
<1>6. \A i \in Jobs : i # j /\ (Before(i) \/ Amid(i) \/ jobStatus[i] = "failed") =>
        jobWip[i] # w /\ jobWip[i] \in Wips
  BY <1>1, <1>2, OutstandingHasBatch DEF BatchesInv, BatchFollowsJob, OneJobAtATime, Outstanding
<1>7. ~Before(j)' /\ (Amid(j)' => status = "running")
  BY <1>1, <1>3, <1>4, <1>5 DEF Before, Amid
<1>8. \A i \in Jobs : i # j => (Before(i)' => Before(i)) /\ (Amid(i)' => Amid(i))
  BY <1>3, <1>4 DEF Before, Amid
<1>9. BatchFollowsJob'
  BY <1>1, <1>3, <1>4, <1>5, <1>6, <1>7, <1>8 DEF BatchesInv, BatchFollowsJob
<1>10. OneJobAtATime'
  BY <1>1, <1>3, <1>4, <1>5, <1>6, <1>7, <1>8 DEF BatchesInv, OneJobAtATime, Outstanding
<1>11. OpeningBatch'
  BY <1>2, <1>4 DEF BatchesInv, OpeningBatch, TypeInv, LabTypeOK, EnvironmentTypeOK, Opening
<1> QED
  BY <1>9, <1>10, <1>11 DEF BatchesInv

LEMMA RunStepKeepsBatches ==
  ASSUME Calm, TypeInv, JobsInv, BatchesInv, NEW k \in Workers, NEW verdict,
         StartRun(k) \/ FinishRun(k, verdict) \/ FailRun(k)
  PROVE  BatchesInv'
<1> DEFINE w == jobWip[task[k].job]
<1>1. task[k].phase # "idle"
  BY DEF StartRun, FinishRun, FailRun
<1>2. w \in Wips /\ wipStatus \in [Wips -> WipStatus \cup {"absent"}]
  BY <1>1, HeldJob DEF TypeInv, LabTypeOK, TypeOK
<1> HIDE DEF w
<1>3. CASE StartRun(k)
  <2>1. /\ task[k].phase = "loaded" /\ task' = [task EXCEPT ![k].phase = "running"]
        /\ jobStatus' = [jobStatus EXCEPT ![task[k].job] = "running"]
        /\ wipStatus' = [wipStatus EXCEPT ![w] = "running"]
        /\ UNCHANGED <<jobWip, broker, opening>>
    BY <1>3 DEF StartRun, w
  <2> QED
    BY <1>2, <2>1, RunKeepsBatches DEF w
<1>4. CASE FinishRun(k, verdict)
  <2>1. /\ task[k].phase = "running" /\ task' = [task EXCEPT ![k].phase = "reporting"]
        /\ jobStatus' = [jobStatus EXCEPT ![task[k].job] = "completed"]
        /\ wipStatus' = [wipStatus EXCEPT ![w] = Outcome(verdict)] \/ wipStatus' = wipStatus
        /\ UNCHANGED <<jobWip, broker, opening>>
    BY <1>4 DEF FinishRun, SyncCompletion, w
  <2>2. \A v \in Wips : v # w => wipStatus'[v] = wipStatus[v]
    BY <1>2, <2>1
  <2> QED
    BY <1>2, <2>1, <2>2, RunKeepsBatches DEF w
<1>5. CASE FailRun(k)
  <2>1. /\ task[k].phase \in {"loaded", "running"} /\ task' = [task EXCEPT ![k].phase = "returning"]
        /\ jobStatus' = [jobStatus EXCEPT ![task[k].job] = "failed"]
        /\ wipStatus' = [wipStatus EXCEPT ![w] = "failed"]
        /\ UNCHANGED <<jobWip, broker, opening>>
    BY <1>5 DEF FailRun, Calm, w
  <2> QED
    BY <1>2, <2>1, RunKeepsBatches DEF w
<1> QED
  BY <1>3, <1>4, <1>5

LEMMA StepKeepsBatches ==
  ASSUME Calm, "cancel_wip" \notin Operations, TypeInv, JobsInv, BatchesInv, [Next]_vars
  PROVE  BatchesInv'
<1>1. CASE TableStep
  BY <1>1, TableKeepsBatches
<1>2. CASE DispatchStep
  <2>1. ASSUME NEW w \in Wips, NEW e \in Equipment, NEW j \in Jobs, BeginDispatch(w, e, j)
        PROVE  BatchesInv'
    BY <2>1, DispatchOpens, OpeningKeepsBatches
  <2>2. ASSUME NEW i \in Jobs, NEW j \in Jobs, jobStatus[i] # "absent", BeginRetry(i, jobStatus[i], j)
        PROVE  BatchesInv'
    BY <2>2, RetryOpens, OpeningKeepsBatches, NullAssumption
  <2>3. ASSUME NEW o \in opening, AbortDispatch(o)
        PROVE  BatchesInv'
    BY <2>3, AsideKeepsBatches DEF AbortDispatch
  <2>4. ASSUME NEW j \in Jobs, jobStatus[j] # "absent",
               CancelDispatch(j, jobStatus[j], jobConfirmed[j], eqActive[jobEquip[j]])
        PROVE  BatchesInv'
    <3>1. UNCHANGED <<jobWip, wipStatus, broker, task, opening>>
      BY <2>4 DEF CancelDispatch
    <3>2. \A i \in Jobs : jobStatus'[i] = jobStatus[i] \/ (jobStatus[i] # "absent" /\ jobStatus'[i] = "cancelled")
      BY <2>4 DEF CancelDispatch, TypeInv, LabTypeOK, TypeOK
    <3> QED
      BY <3>1, <3>2, AsideKeepsBatches
  <2>5. ASSUME NEW j \in Jobs, FinalConfirm(j)
        PROVE  BatchesInv'
    BY <2>5, AsideKeepsBatches DEF FinalConfirm
  <2> QED
    BY <1>2, <2>1, <2>2, <2>3, <2>4, <2>5, SubmitKeepsBatches, CommitKeepsBatches DEF DispatchStep
<1>3. ASSUME NEW k \in Workers, WorkerStep(k)
      PROVE  BatchesInv'
  <2>1. CASE Acknowledge(k)
    BY <2>1, HeldJob, MessageKeepsBatches DEF Acknowledge
  <2> QED
    BY <1>3, <2>1, MessageKeepsBatches, RunStepKeepsBatches DEF WorkerStep
<1> QED
  BY <1>1, <1>2, <1>3, CalmKinds DEF JobsInv

LEMMA BatchesInvInvariant ==
  ASSUME Calm, "cancel_wip" \notin Operations
  PROVE  Spec => [](TypeInv /\ JobsInv /\ BatchesInv)
<1>1. TypeInv /\ JobsInv /\ BatchesInv /\ [Next]_vars => (TypeInv /\ JobsInv /\ BatchesInv)'
  BY StepKeepsBatches, StepKeepsJobs, StepType
<1> QED
  BY <1>1, InitType, InitJobs, InitBatches, PTL DEF Spec

\* A batch has at most one live job and its status says which stage that job is in, although
\* cancel_dispatch leaves a cancelled job's task running and no transaction locks the jobs of
\* a batch: the batch row that create_dispatch locks is what keeps them apart.
THEOREM BatchesHaveOneLiveJob ==
  ASSUME Calm, "cancel_wip" \notin Operations
  PROVE  Spec => []BatchHasOneLiveJob
<1>1. TypeInv /\ JobsInv /\ BatchesInv => BatchHasOneLiveJob
  BY DEF BatchHasOneLiveJob, Live, BatchesInv, BatchFollowsJob, OneJobAtATime, Outstanding, Before, Amid
<1> QED
  BY <1>1, BatchesInvInvariant, PTL

-----------------------------------------------------------------------------
(* Confirmed results, in every laboratory                                  *)

\* A transaction in progress creates a job that no other one creates and nobody sees yet.
OpeningIsNew ==
  /\ \A o, p \in opening : o.job = p.job => o = p
  /\ \A o \in opening : jobStatus[o.job] = "absent"

\* The row of a job that exists changes its status; a job appears by a commit only.
OnlySeenJobsMove == \A j \in Jobs : jobStatus[j] = "absent" => jobStatus'[j] = "absent"

LEMMA NewStays ==
  ASSUME TypeInv, OpeningIsNew, OnlySeenJobsMove, opening' \subseteq opening
  PROVE  OpeningIsNew'
BY DEF OpeningIsNew, OnlySeenJobsMove, TypeInv, LabTypeOK, EnvironmentTypeOK, Opening

LEMMA OpenedIsNew ==
  ASSUME OpeningIsNew, NEW n, FreeJob(n.job), opening' = opening \cup {n}, UNCHANGED jobStatus
  PROVE  OpeningIsNew'
BY DEF OpeningIsNew, FreeJob

LEMMA HandleKeepsNew ==
  ASSUME TypeInv, OpeningIsNew, NEW c \in Call, CallRowExists(c), Handle(c)
  PROVE  OpeningIsNew'
<1>1. CASE c.op = "cancel_dispatch" /\ CancelDispatch(c.job, c.seen, c.confirmed, c.active)
  <2>1. OnlySeenJobsMove /\ opening' = opening
    BY <1>1 DEF OnlySeenJobsMove, CancelDispatch, CallRowExists, TypeInv, LabTypeOK, TypeOK
  <2> QED
    BY <2>1, NewStays
<1>2. ASSUME NEW j \in Jobs, BeginRetry(c.job, c.seen, j)
      PROVE  OpeningIsNew'
  <2> DEFINE n == [job |-> j, wip |-> jobWip[c.job], equip |-> jobEquip[c.job],
                   retryOf |-> c.job, sent |-> FALSE]
  <2>1. n.job = j
    OBVIOUS
  <2>2. FreeJob(j) /\ opening' = opening \cup {n} /\ UNCHANGED jobStatus
    BY <1>2 DEF BeginRetry
  <2> HIDE DEF n
  <2> QED
    BY <2>1, <2>2, OpenedIsNew
<1>3. CASE UNCHANGED <<jobStatus, opening>>
  BY <1>3 DEF OpeningIsNew
<1> QED
  BY <1>1, <1>2, <1>3 DEF Handle, ReceiveSample, RejectSample, CancelRequest, CloseRequest, LockWip,
     CancelWip, UpdateEquipment

LEMMA CommitKeepsNew ==
  ASSUME TypeInv, OpeningIsNew, NEW o, CommitDispatch(o)
  PROVE  OpeningIsNew'
<1> USE DEF TypeInv, LabTypeOK, EnvironmentTypeOK, Opening, RowsExist, OpeningRowsExist
<1>1. o \in opening /\ opening' = opening \ {o}
  BY DEF CommitDispatch
<1>2. ASSUME NEW p \in opening, p # o
      PROVE  jobStatus'[p.job] = "absent"
  <2>1. p.job \in Jobs /\ p.job # o.job /\ jobStatus[p.job] = "absent"
    BY <1>1, <1>2 DEF OpeningIsNew
  <2>2. p.job # o.retryOf
    BY <1>1, <2>1, NullAssumption
  <2> QED
    BY <2>1, <2>2 DEF CommitDispatch
<1> QED
  BY <1>1, <1>2 DEF OpeningIsNew

LEMMA StepKeepsNew ==
  ASSUME TypeInv, OpeningIsNew, [Next]_vars
  PROVE  OpeningIsNew'
<1> USE DEF OnlySeenJobsMove
<1>1. calls \subseteq Call /\ \A c \in calls : CallRowExists(c)
  BY DEF TypeInv, LabTypeOK, RowsExist
<1>2. CASE CallServed \/ CallHandled
  <2>1. StateInv
    BY DEF TypeInv, LabTypeOK, RowsExist, StateInv
  <2> QED
    BY <1>1, <1>2, <2>1, LoadableIsCall, HandleKeepsNew DEF CallServed, CallHandled
<1>3. CASE DispatchBegun
  <2>1. PICK w \in Wips, e \in Equipment, j \in Jobs : BeginDispatch(w, e, j)
    BY <1>3 DEF DispatchBegun
  <2> DEFINE n == [job |-> j, wip |-> w, equip |-> e, retryOf |-> None, sent |-> FALSE]
  <2>2. n.job = j
    OBVIOUS
  <2>3. FreeJob(j) /\ opening' = opening \cup {n} /\ UNCHANGED jobStatus
    BY <2>1 DEF BeginDispatch
  <2> HIDE DEF n
  <2> QED
    BY <2>2, <2>3, OpenedIsNew
<1>4. CASE DispatchSubmitted
  <2>1. PICK o \in opening : SubmitDispatch(o)
    BY <1>4 DEF DispatchSubmitted
  <2> DEFINE n == [o EXCEPT !.sent = TRUE]
  <2>2. n.job = o.job
    BY DEF TypeInv, LabTypeOK, EnvironmentTypeOK, Opening
  <2>3. opening' = (opening \ {o}) \cup {n} /\ UNCHANGED jobStatus
    BY <2>1 DEF SubmitDispatch
  <2> HIDE DEF n
  <2> QED
    BY <2>2, <2>3 DEF OpeningIsNew
<1>5. CASE DispatchCommitted
  BY <1>5, CommitKeepsNew DEF DispatchCommitted
<1>6. CASE DispatchRefused \/ DispatchCrashed
  <2>1. opening' \subseteq opening /\ UNCHANGED jobStatus
    BY <1>6 DEF DispatchRefused, DispatchCrashed, AbortDispatch
  <2> QED
    BY <2>1, NewStays
<1>7. ASSUME NEW k \in Workers, WorkerStep(k)
      PROVE  OpeningIsNew'
  <2>1. opening' = opening
    BY <1>7 DEF WorkerStep, TakeMessage, MissDispatch, StartRun, FinishRun, FailRun, Acknowledge
  <2>2. task[k].phase # "idle" => jobStatus[task[k].job] # "absent"
    BY DEF TypeInv, RowsExist, TaskRowsExist
  <2>3. OnlySeenJobsMove
    BY <1>7, <2>2 DEF WorkerStep, TakeMessage, MissDispatch, StartRun, FinishRun, FailRun, Acknowledge,
       TypeInv, LabTypeOK, TypeOK
  <2> QED
    BY <2>1, <2>3, NewStays
<1>8. CASE \/ CallLoaded \/ CallDropped \/ BatchCreated \/ ResultConfirmed \/ StatusSetByHand
           \/ EquipmentManaged \/ WorkerCrashed \/ UNCHANGED vars
  <2>1. UNCHANGED <<jobStatus, opening>>
    BY <1>8 DEF CallLoaded, CallDropped, BatchCreated, CreateWip, ResultConfirmed, FinalConfirm,
       StatusSetByHand, UpdateSampleStatus, EquipmentManaged, MarkMaintenance, ActivateEquipment,
       DeactivateEquipment, WorkerCrashed, WorkerDies, PoolProcessDies, vars
  <2> QED
    BY <2>1 DEF OpeningIsNew
<1> QED
  BY <1>2, <1>3, <1>4, <1>5, <1>6, <1>7, <1>8 DEF Next

\* A call leaves a confirmation standing unless it loaded the job before it completed.
LEMMA HandleLeavesConfirmation ==
  ASSUME TypeInv, NEW c, Handle(c), NEW j \in Jobs, Stands(j), ~Stands(j)'
  PROVE  c.op \in {"cancel_dispatch", "retry_dispatch"} /\ c.job = j /\ c.seen # "completed"
<1> USE DEF Stands, JobLocked, TypeInv, LabTypeOK, TypeOK
<1>1. CASE c.op = "cancel_dispatch" /\ CancelDispatch(c.job, c.seen, c.confirmed, c.active)
  <2>1. c.seen # "completed" /\ opening' = opening
    BY <1>1 DEF CancelDispatch, TerminalDispatch
  <2>2. c.job # j => jobStatus'[j] = jobStatus[j] /\ jobConfirmed'[j] = jobConfirmed[j]
    BY <1>1 DEF CancelDispatch
  <2> QED
    BY <1>1, <2>1, <2>2
<1>2. CASE c.op = "retry_dispatch" /\ \E i \in Jobs : BeginRetry(c.job, c.seen, i)
  <2>1. PICK i \in Jobs : BeginRetry(c.job, c.seen, i)
    BY <1>2
  <2>2. c.seen # "completed" /\ UNCHANGED jobTable
    BY <2>1 DEF BeginRetry, Retryable
  <2> DEFINE n == [job |-> i, wip |-> jobWip[c.job], equip |-> jobEquip[c.job],
                   retryOf |-> c.job, sent |-> FALSE]
  <2>3. n.retryOf = c.job
    OBVIOUS
  <2>4. opening' = opening \cup {n}
    BY <2>1 DEF BeginRetry
  <2> HIDE DEF n
  <2> QED
    BY <1>2, <2>2, <2>3, <2>4
<1>3. CASE UNCHANGED <<jobTable, opening>>
  BY <1>3
<1> QED
  BY <1>1, <1>2, <1>3 DEF Handle, ReceiveSample, RejectSample, CancelRequest, CloseRequest, LockWip,
     CancelWip, UpdateEquipment

LEMMA OpeningLeavesConfirmation ==
  ASSUME TypeInv, OpeningIsNew, NEW j \in Jobs, Stands(j),
         \/ \E w \in Wips, e \in Equipment, i \in Jobs : BeginDispatch(w, e, i)
         \/ \E o \in opening : SubmitDispatch(o) \/ CommitDispatch(o) \/ AbortDispatch(o)
  PROVE  Stands(j)'
<1> USE DEF Stands, JobLocked, TypeInv, LabTypeOK, TypeOK
<1>1. ASSUME NEW w \in Wips, NEW e \in Equipment, NEW i \in Jobs, BeginDispatch(w, e, i)
      PROVE  Stands(j)'
  <2> DEFINE n == [job |-> i, wip |-> w, equip |-> e, retryOf |-> None, sent |-> FALSE]
  <2>1. n.retryOf # j
    BY NullAssumption
  <2>2. opening' = opening \cup {n} /\ UNCHANGED jobTable
    BY <1>1 DEF BeginDispatch
  <2> HIDE DEF n
  <2> QED
    BY <2>1, <2>2
<1>2. ASSUME NEW o \in opening, SubmitDispatch(o)
      PROVE  Stands(j)'
  <2> DEFINE n == [o EXCEPT !.sent = TRUE]
  <2>1. n.retryOf = o.retryOf
    BY DEF EnvironmentTypeOK, Opening
  <2>2. opening' = (opening \ {o}) \cup {n} /\ UNCHANGED jobTable
    BY <1>2 DEF SubmitDispatch
  <2> HIDE DEF n
  <2> QED
    BY <2>1, <2>2
<1>3. ASSUME NEW o \in opening, CommitDispatch(o)
      PROVE  Stands(j)'
  <2>1. j # o.job /\ j # o.retryOf
    BY DEF OpeningIsNew
  <2>2. opening' \subseteq opening /\ UNCHANGED jobConfirmed /\ jobStatus'[j] = jobStatus[j]
    BY <1>3, <2>1 DEF CommitDispatch
  <2> QED
    BY <2>2
<1>4. ASSUME NEW o \in opening, AbortDispatch(o)
      PROVE  Stands(j)'
  BY <1>4 DEF AbortDispatch
<1> QED
  BY <1>1, <1>2, <1>3, <1>4

\* What can bring a confirmation down.
LEMMA ConfirmationFalls ==
  ASSUME TypeInv, OpeningIsNew, [Next]_vars, NEW j \in Jobs, Stands(j), ~Stands(j)'
  PROVE  \/ \E c \in calls \ calls' :
              c.op \in {"cancel_dispatch", "retry_dispatch"} /\ c.job = j /\ c.seen # "completed"
         \/ \E k \in Workers : task[k].phase # "idle" /\ task[k].job = j
<1>1. CASE CallServed
  <2>1. PICK c \in Loadable : Handle(c)
    BY <1>1 DEF CallServed
  <2>2. c.op \in {"cancel_dispatch", "retry_dispatch"} /\ c.job = j /\ c.seen # "completed"
    BY <2>1, HandleLeavesConfirmation
  <2> QED
    BY <2>2, LoadedRow DEF Stands
<1>2. CASE CallHandled
  <2>1. PICK c \in calls : Handle(c) /\ calls' = calls \ {c}
    BY <1>2 DEF CallHandled
  <2>2. c.op \in {"cancel_dispatch", "retry_dispatch"} /\ c.job = j /\ c.seen # "completed"
    BY <2>1, HandleLeavesConfirmation
  <2> QED
    BY <2>1, <2>2
<1>3. CASE DispatchBegun \/ DispatchSubmitted \/ DispatchCommitted \/ DispatchRefused \/ DispatchCrashed
  BY <1>3, OpeningLeavesConfirmation DEF DispatchBegun, DispatchSubmitted, DispatchCommitted,
     DispatchRefused, DispatchCrashed
<1>4. CASE ResultConfirmed
  BY <1>4 DEF ResultConfirmed, FinalConfirm, Stands, JobLocked, TypeInv, LabTypeOK, TypeOK
<1>5. ASSUME NEW k \in Workers, WorkerStep(k)
      PROVE  task[k].phase # "idle" /\ task[k].job = j
  <2> USE DEF Stands, JobLocked, TypeInv, LabTypeOK, TypeOK
  <2>1. CASE \E i \in Jobs : TakeMessage(k, i) \/ MissDispatch(k, i)
    BY <2>1 DEF TakeMessage, MissDispatch
  <2>2. CASE StartRun(k) \/ (\E verdict \in {"pass", "fail"} : FinishRun(k, verdict)) \/ FailRun(k)
    BY <2>2 DEF StartRun, FinishRun, FailRun
  <2>3. CASE Acknowledge(k)
    BY <2>3 DEF Acknowledge
  <2> QED
    BY <1>5, <2>1, <2>2, <2>3 DEF WorkerStep
<1>6. CASE \/ CallLoaded \/ CallDropped \/ BatchCreated \/ StatusSetByHand \/ EquipmentManaged
           \/ WorkerCrashed \/ UNCHANGED vars
  <2>1. UNCHANGED <<jobTable, opening>>
    BY <1>6 DEF CallLoaded, CallDropped, BatchCreated, CreateWip, StatusSetByHand, UpdateSampleStatus,
       EquipmentManaged, MarkMaintenance, ActivateEquipment, DeactivateEquipment, WorkerCrashed,
       WorkerDies, PoolProcessDies, vars
  <2> QED
    BY <2>1 DEF Stands, JobLocked
<1> QED
  BY <1>1, <1>2, <1>3, <1>4, <1>5, <1>6 DEF Next

\* In every laboratory a confirmation on record falls only to a call that loaded the job before
\* it completed, or to a task that is still on the job; no call that saw the job as it is, no
\* other job's run, retry or dispatch and no process death takes it back.
THEOREM ConfirmationsAreFinal == Spec => ConfirmationIsFinal
<1>1. Init => OpeningIsNew
  BY DEF Init, InitEnvironment, OpeningIsNew
<1>2. TypeInv /\ OpeningIsNew /\ [Next]_vars => (TypeInv /\ OpeningIsNew)'
  BY StepKeepsNew, StepType
<1>3. TypeInv /\ OpeningIsNew /\ [Next]_vars =>
        [\A j \in Jobs : Stands(j) /\ ~Stands(j)' =>
           \/ \E c \in calls \ calls' :
                c.op \in {"cancel_dispatch", "retry_dispatch"} /\ c.job = j /\ c.seen # "completed"
           \/ \E k \in Workers : task[k].phase # "idle" /\ task[k].job = j]_vars
  BY ConfirmationFalls
<1> QED
  BY <1>1, <1>2, <1>3, InitType, PTL DEF Spec, ConfirmationIsFinal

-----------------------------------------------------------------------------
(* Batches that will not run any more                                      *)

CallsAreOffered == \A c \in calls : c.op \in Operations

Dead == {"completed", "failed", "cancelled"}

LEMMA OfferedStep ==
  ASSUME CallsAreOffered, [Next]_vars
  PROVE  CallsAreOffered'
<1>1. CASE CallLoaded
  BY <1>1, LoadedRow DEF CallLoaded, CallsAreOffered
<1>2. CASE CallHandled \/ CallDropped
  BY <1>2 DEF CallHandled, CallDropped, CallsAreOffered
<1>3. CASE UNCHANGED calls
  BY <1>3 DEF CallsAreOffered
<1> QED
  BY <1>1, <1>2, <1>3 DEF Next, vars, CallServed, BatchCreated, DispatchBegun, DispatchSubmitted,
     DispatchCommitted, DispatchRefused, DispatchCrashed, ResultConfirmed, StatusSetByHand,
     EquipmentManaged, WorkerStep, WorkerCrashed

LEMMA HandleKillsNoBatch ==
  ASSUME TypeInv, NEW c, c.op \in Operations, "cancel_wip" \notin Operations, Handle(c),
         NEW w \in Wips, wipStatus'[w] \in Dead
  PROVE  wipStatus[w] \in Dead
<1> USE DEF TypeInv, LabTypeOK, TypeOK, Dead
<1>1. CASE /\ c.op = "lock_wip" /\ LockWip(c.wip, c.seen)
  BY <1>1 DEF LockWip
<1>2. CASE \/ ReceiveSample(c.sample, c.seen, c.wip, c.req)
           \/ RejectSample(c.sample, c.seen, c.req)
           \/ CancelRequest(c.request, c.seen)
           \/ CloseRequest(c.request, c.seen)
  BY <1>2 DEF ReceiveSample, RejectSample, CancelRequest, CloseRequest
<1>3. CASE \/ CancelDispatch(c.job, c.seen, c.confirmed, c.active)
           \/ \E j \in Jobs : BeginRetry(c.job, c.seen, j)
           \/ \E status \in EquipmentStatus, active \in BOOLEAN :
                UpdateEquipment(c.equip, status, c.current, active)
  BY <1>3 DEF CancelDispatch, BeginRetry, UpdateEquipment
<1> QED
  BY <1>1, <1>2, <1>3 DEF Handle

\* Without cancel_wip a batch dies by the end of one of its runs only.
LEMMA BatchDies ==
  ASSUME TypeInv, CallsAreOffered, "cancel_wip" \notin Operations, [Next]_vars,
         NEW w \in Wips, wipStatus'[w] \in Dead
  PROVE  \/ wipStatus[w] \in Dead
         \/ \E k \in Workers, verdict \in {"pass", "fail"} :
              (FinishRun(k, verdict) \/ FailRun(k)) /\ w = jobWip[task[k].job]
<1> USE DEF TypeInv, LabTypeOK, TypeOK, Dead
<1>1. CASE CallServed \/ CallHandled
  BY <1>1, LoadedRow, HandleKillsNoBatch DEF CallServed, CallHandled, CallsAreOffered
<1>2. CASE CallLoaded \/ CallDropped \/ WorkerCrashed \/ UNCHANGED vars
  BY <1>2 DEF CallLoaded, CallDropped, WorkerCrashed, WorkerDies, PoolProcessDies, vars
<1>3. CASE BatchCreated
  BY <1>3 DEF BatchCreated, CreateWip
<1>4. CASE DispatchBegun \/ DispatchSubmitted \/ DispatchRefused \/ DispatchCrashed
  BY <1>4 DEF DispatchBegun, BeginDispatch, DispatchSubmitted, SubmitDispatch, DispatchRefused,
     DispatchCrashed, AbortDispatch
<1>5. CASE DispatchCommitted
  BY <1>5 DEF DispatchCommitted, CommitDispatch
<1>6. CASE ResultConfirmed \/ StatusSetByHand \/ EquipmentManaged
  BY <1>6 DEF ResultConfirmed, FinalConfirm, StatusSetByHand, UpdateSampleStatus, EquipmentManaged,
     MarkMaintenance, ActivateEquipment, DeactivateEquipment
<1>7. ASSUME NEW k \in Workers, WorkerStep(k)
      PROVE  \/ wipStatus[w] \in Dead
             \/ \E verdict \in {"pass", "fail"} :
                  (FinishRun(k, verdict) \/ FailRun(k)) /\ w = jobWip[task[k].job]
  <2>1. CASE StartRun(k)
    BY <2>1 DEF StartRun
  <2>2. ASSUME NEW verdict \in {"pass", "fail"}, FinishRun(k, verdict)
        PROVE  wipStatus[w] \in Dead \/ w = jobWip[task[k].job]
    BY <2>2 DEF FinishRun, SyncCompletion
  <2>3. CASE FailRun(k)
    <3>1. wipStatus[w] \in Dead \/ w = jobWip[task[k].job]
      BY <2>3 DEF FailRun
    <3> QED
      BY <2>3, <3>1
  <2>4. ASSUME NEW j, TakeMessage(k, j) \/ MissDispatch(k, j) \/ Acknowledge(k)
        PROVE  wipStatus[w] \in Dead
    BY <2>4 DEF TakeMessage, MissDispatch, Acknowledge
  <2> QED
    BY <1>7, <2>1, <2>2, <2>3, <2>4 DEF WorkerStep
<1> QED
  BY <1>1, <1>2, <1>3, <1>4, <1>5, <1>6, <1>7 DEF Next

LEMMA DeadBatchKept ==
  ASSUME LabInv, CallsAreOffered, "cancel_wip" \notin Operations, NoExperimentInADeadBatch, [Next]_vars
  PROVE  NoExperimentInADeadBatch'
<1> SUFFICES ASSUME NEW x \in Experiments, NEW w \in Wips, expWip'[x] = w, wipStatus'[w] \in Dead
             PROVE  FALSE
  <2>1. LabTypeOK'
    BY StepKeepsLabInv DEF LabInv
  <2> QED
    BY <2>1 DEF NoExperimentInADeadBatch, LabTypeOK, TypeOK, Dead
<1>1. TypeInv /\ BatchRunsItsRecipe /\ w # None
  BY NullAssumption DEF LabInv, TypeInv, ExperimentIntegrity
<1>2. CASE wipStatus[w] \in Dead
  <2>1. expWip[x] # w
    BY <1>2, NullAssumption DEF NoExperimentInADeadBatch, Dead
  <2>2. \/ \E S \in SUBSET Samples, recipe \in Recipes : CreateWip(w, S, recipe)
        \/ expWip'[x] # w
    <3> USE <2>1, <1>1 DEF TypeInv, LabTypeOK, TypeOK
    <3>1. ASSUME NEW v \in Wips, NEW S \in SUBSET Samples, NEW recipe \in Recipes, CreateWip(v, S, recipe)
          PROVE  v = w \/ expWip'[x] # w
      BY <3>1 DEF CreateWip, Update
    <3>2. ASSUME NEW o \in opening, CommitDispatch(o)
          PROVE  expWip'[x] # w
      BY <3>2 DEF CommitDispatch
    <3>3. ASSUME NEW k \in Workers, StartRun(k)
          PROVE  expWip'[x] # w
      BY <3>3 DEF StartRun
    <3>4. ASSUME NEW k \in Workers, NEW verdict \in {"pass", "fail"}, FinishRun(k, verdict) \/ FailRun(k)
          PROVE  expWip'[x] # w
      BY <3>4 DEF FinishRun, SyncCompletion, FailRun, Update
    <3>5. CASE Quiet
      BY <3>5 DEF Quiet
    <3> QED
      BY <3>1, <3>2, <3>3, <3>4, <3>5, StepKinds
  <2> QED
    BY <1>2, <2>2 DEF CreateWip, Dead
<1>3. ASSUME NEW k \in Workers, NEW verdict \in {"pass", "fail"}, FinishRun(k, verdict) \/ FailRun(k),
             w = jobWip[task[k].job]
      PROVE  FALSE
  <2>1. Settled(w) = {y \in Experiments : expWip[y] = w}
    BY <1>1, SettledIsBatch
  <2>2. expWip' = Update(expWip, {y \in Experiments : expWip[y] = w}, None)
    BY <1>3, <2>1 DEF FinishRun, SyncCompletion, FailRun
  <2> QED
    BY <1>1, <2>2 DEF Update, TypeInv, LabTypeOK, TypeOK
<1> QED
  BY <1>1, <1>2, <1>3, BatchDies

\* No experiment is left in a batch that is completed, failed or cancelled, whatever is stale,
\* retried, redelivered or lost: cancel_wip alone leaves experiments behind.
THEOREM DeadBatchesAreEmpty ==
  ASSUME "cancel_wip" \notin Operations
  PROVE  Spec => []NoExperimentInADeadBatch
<1>1. Init => CallsAreOffered /\ NoExperimentInADeadBatch
  BY DEF Init, InitTables, CallsAreOffered, NoExperimentInADeadBatch
<1>2. LabInv /\ CallsAreOffered /\ NoExperimentInADeadBatch /\ [Next]_vars =>
        CallsAreOffered' /\ NoExperimentInADeadBatch'
  BY OfferedStep, DeadBatchKept
<1> QED
  BY <1>1, <1>2, LabInvariant, PTL DEF Spec

-----------------------------------------------------------------------------
(* Wafers and their batches                                                *)

HasFailed(s) == \E x \in ExperimentsOf(s) : expStatus[x] = "failed"

\* Nothing is received again once an experiment of the request left the queue.
StartedIsPastReceipt ==
  \A x \in Experiments : expStatus[x] \notin Waiting =>
    reqStatus[RequestOf[SampleOf[x]]] \notin {"approved", "waiting_sample_receive"}

\* A wafer with a failed experiment is in no batch and can not join one.
FailedWaferIsOut ==
  \A s \in Samples : HasFailed(s) => sampleWip[s] = None /\ sampleStatus[s] # "received"

\* A batch that is not settled holds its wafers, but those that failed before a retry.
BatchHoldsWafers ==
  \A w \in Wips, s \in Samples : s \in wipItems[w] =>
    /\ wipStatus[w] \in {"draft", "ready_for_dispatch"} => sampleWip[s] = w
    /\ \A j \in Jobs : jobWip[j] = w =>
         /\ Outstanding(j) /\ JobsOf(w) = {j} => sampleWip[s] = w
         /\ Outstanding(j) => sampleWip[s] = w \/ HasFailed(s)
         /\ jobStatus[j] = "failed" => HasFailed(s)

WafersInv ==
  /\ StartedIsPastReceipt /\ FailedWaferIsOut /\ BatchHoldsWafers
  /\ WaferKnowsItsBatch /\ ResultMatchesExperiments

\* A step leaves nothing to run that was not, but the job that create_dispatch commits.
LEMMA OutstandingStep ==
  ASSUME Calm, TypeInv, JobsInv, [Next]_vars, NEW j \in Jobs, Outstanding(j)'
  PROVE  \/ Outstanding(j)
         \/ \E o \in opening : o.job = j /\ CommitDispatch(o)
<1> USE DEF TypeInv, LabTypeOK, TypeOK, EnvironmentTypeOK
<1>1. CASE TableStep
  <2>1. UNCHANGED <<jobTable, environment>>
    BY <1>1 DEF TableStep
  <2> QED
    BY <2>1 DEF Outstanding, Before, Amid
<1>2. CASE DispatchStep
  <2>1. ASSUME NEW w, NEW e, NEW i, NEW m, BeginDispatch(w, e, i) \/ BeginRetry(i, jobStatus[i], m)
        PROVE  Outstanding(j)
    <3>1. UNCHANGED <<jobStatus, broker, task>>
      BY <2>1 DEF BeginDispatch, BeginRetry
    <3> QED
      BY <3>1 DEF Outstanding, Before, Amid
  <2>2. ASSUME NEW o \in opening, SubmitDispatch(o)
        PROVE  Outstanding(j)
    <3>1. o.job \in Jobs /\ jobStatus[o.job] = "absent" /\ UNCHANGED <<jobStatus, task>>
          /\ \A i \in Jobs : i # o.job => broker'[i] = broker[i]
      BY <2>2, SubmitSends DEF Opening, JobsInv, OpeningIsExclusive
    <3> QED
      BY <3>1 DEF Outstanding, Before, Amid
  <2>3. ASSUME NEW o \in opening, CommitDispatch(o), o.job # j
        PROVE  Outstanding(j)
    <3>1. CASE j = o.retryOf
      <4>1. jobStatus[j] = "failed" /\ jobStatus'[j] = "retrying" /\ UNCHANGED <<broker, task>>
        BY <2>3, <3>1, NullAssumption DEF CommitDispatch, JobsInv, OpeningIsExclusive
      <4>2. broker[j] # "ready" /\ \A k \in Workers : task[k].phase \in {"loaded", "running"} => task[k].job # j
        BY <4>1 DEF JobsInv, MessageIsFresh, TaskFollowsJob
      <4> QED
        BY <4>1, <4>2 DEF Outstanding, Before, Amid
    <3>2. CASE j # o.retryOf
      <4>1. jobStatus'[j] = jobStatus[j] /\ UNCHANGED <<broker, task>>
        BY <2>3, <3>2 DEF CommitDispatch
      <4> QED
        BY <4>1 DEF Outstanding, Before, Amid
    <3> QED
      BY <3>1, <3>2
  <2>4. ASSUME NEW i \in Jobs, jobStatus[i] # "absent",
               CancelDispatch(i, jobStatus[i], jobConfirmed[i], eqActive[jobEquip[i]])
        PROVE  Outstanding(j)
    <3>1. /\ jobStatus'[j] = jobStatus[j] \/ (jobStatus[j] # "absent" /\ jobStatus'[j] = "cancelled")
          /\ UNCHANGED <<broker, task>>
      BY <2>4 DEF CancelDispatch
    <3> QED
      BY <3>1 DEF Outstanding, Before, Amid
  <2>5. ASSUME NEW i, NEW o, FinalConfirm(i) \/ AbortDispatch(o)
        PROVE  Outstanding(j)
    <3>1. UNCHANGED <<jobStatus, broker, task>>
      BY <2>5 DEF FinalConfirm, AbortDispatch
    <3> QED
      BY <3>1 DEF Outstanding, Before, Amid
  <2> QED
    BY <1>2, <2>1, <2>2, <2>3, <2>4, <2>5 DEF DispatchStep
<1>3. ASSUME NEW k \in Workers, WorkerStep(k)
      PROVE  Outstanding(j)
  <2>1. ASSUME NEW i \in Jobs, TakeMessage(k, i) \/ MissDispatch(k, i) \/ Acknowledge(k)
        PROVE  Outstanding(j)
    <3>1. /\ UNCHANGED <<tables, opening>> /\ (broker'[j] = "ready" => broker[j] = "ready")
          /\ \A l \in Workers : \/ task'[l] = task[l]
                                \/ task'[l].phase = "idle"
                                \/ task'[l].phase = "loaded" /\ task'[l].job = i /\ broker[i] = "ready"
      BY <2>1 DEF TakeMessage, MissDispatch, Acknowledge, NoTask
    <3> QED
      BY <3>1 DEF Outstanding, Before, Amid
  <2>2. ASSUME NEW verdict, StartRun(k) \/ FinishRun(k, verdict) \/ FailRun(k)
        PROVE  Outstanding(j)
    <3>1. task[k].phase \in {"loaded", "running"} /\ broker' = broker
      BY <2>2 DEF StartRun, FinishRun, FailRun, Calm
    <3>2. CASE j = task[k].job
      BY <3>1, <3>2, TaskJob DEF Outstanding, Before, Amid
    <3>3. CASE j # task[k].job
      <4>1. jobStatus'[j] = jobStatus[j] /\ \A l \in Workers : task'[l].job = task[l].job
        BY <2>2, <3>3 DEF StartRun, FinishRun, FailRun, Task
      <4>2. \A l \in Workers : l # k => task'[l] = task[l]
        BY <2>2 DEF StartRun, FinishRun, FailRun
      <4> QED
        BY <3>1, <3>3, <4>1, <4>2 DEF Outstanding, Before, Amid
    <3> QED
      BY <3>2, <3>3
  <2> QED
    BY <1>3, <2>1, <2>2, HeldJob DEF WorkerStep, Acknowledge
<1> QED
  BY <1>1, <1>2, <1>3, CalmKinds DEF JobsInv

\* A request that is past the receipt of its wafers never waits for them again.
LEMMA ReceiptIsPast ==
  ASSUME TypeInv, JobsInv, Calm, [Next]_vars, NEW r \in Requests,
         reqStatus'[r] \in {"approved", "waiting_sample_receive"}
  PROVE  reqStatus'[r] = reqStatus[r]
<1> USE DEF TypeInv, LabTypeOK, TypeOK
<1>1. CASE TableStep
  <2>1. ASSUME NEW s, ReceiveSample(s, sampleStatus[s], sampleWip[s], reqStatus[RequestOf[s]])
        PROVE  reqStatus'[r] = reqStatus[r]
    BY <2>1 DEF ReceiveSample
  <2>2. ASSUME NEW s, NEW status, \/ RejectSample(s, sampleStatus[s], reqStatus[RequestOf[s]])
                                  \/ UpdateSampleStatus(s, status)
        PROVE  reqStatus'[r] = reqStatus[r]
    BY <2>2 DEF RejectSample, UpdateSampleStatus
  <2>3. ASSUME NEW q, CancelRequest(q, reqStatus[q]) \/ CloseRequest(q, reqStatus[q])
        PROVE  reqStatus'[r] = reqStatus[r]
    BY <2>3 DEF CancelRequest, CloseRequest
  <2>4. ASSUME NEW w, LockWip(w, wipStatus[w]) \/ CancelWip(w, wipStatus[w])
        PROVE  reqStatus'[r] = reqStatus[r]
    BY <2>4 DEF LockWip, CancelWip
  <2>5. ASSUME NEW w, NEW S, NEW recipe, CreateWip(w, S, recipe)
        PROVE  reqStatus'[r] = reqStatus[r]
    BY <2>5 DEF CreateWip
  <2>6. ASSUME UNCHANGED tables \/ UNCHANGED otherTables
        PROVE  reqStatus'[r] = reqStatus[r]
    BY <2>6
  <2> HIDE DEF tables, otherTables, TypeInv, LabTypeOK, TypeOK
  <2> QED
    BY <1>1, <2>1, <2>2, <2>3, <2>4, <2>5, <2>6 DEF TableStep
<1>2. CASE DispatchStep
  <2>1. ASSUME NEW w, NEW e, NEW i, NEW m, BeginDispatch(w, e, i) \/ BeginRetry(i, jobStatus[i], m)
        PROVE  reqStatus'[r] = reqStatus[r]
    BY <2>1 DEF BeginDispatch, BeginRetry
  <2>2. ASSUME NEW o, SubmitDispatch(o) \/ AbortDispatch(o) \/ CommitDispatch(o)
        PROVE  reqStatus'[r] = reqStatus[r]
    BY <2>2 DEF SubmitDispatch, AbortDispatch, CommitDispatch, Update
  <2>3. ASSUME NEW i, CancelDispatch(i, jobStatus[i], jobConfirmed[i], eqActive[jobEquip[i]])
        PROVE  reqStatus'[r] = reqStatus[r]
    BY <2>3 DEF CancelDispatch
  <2>4. ASSUME NEW i, FinalConfirm(i)
        PROVE  reqStatus'[r] = reqStatus[r]
    BY <2>4 DEF FinalConfirm, StatusAfterFinalCheck
  <2> QED
    BY <1>2, <2>1, <2>2, <2>3, <2>4 DEF DispatchStep
<1>3. ASSUME NEW k \in Workers, WorkerStep(k)
      PROVE  reqStatus'[r] = reqStatus[r]
  <2>1. ASSUME NEW j, TakeMessage(k, j) \/ MissDispatch(k, j) \/ Acknowledge(k) \/ FailRun(k)
        PROVE  reqStatus'[r] = reqStatus[r]
    BY <2>1 DEF TakeMessage, MissDispatch, Acknowledge, FailRun
  <2>2. CASE StartRun(k)
    BY <2>2 DEF StartRun, Update
  <2>3. ASSUME NEW verdict, FinishRun(k, verdict)
        PROVE  reqStatus'[r] = reqStatus[r]
    BY <2>3 DEF FinishRun, SyncCompletion
  <2> QED
    BY <1>3, <2>1, <2>2, <2>3 DEF WorkerStep
<1> QED
  BY <1>1, <1>2, <1>3, CalmKinds DEF JobsInv

LEMMA InitWafers == Init => WafersInv
<1> SUFFICES ASSUME Init PROVE WafersInv
  OBVIOUS
<1>1. StartedIsPastReceipt
  BY DEF Init, InitTables, StartedIsPastReceipt, Waiting
<1>2. FailedWaferIsOut
  BY DEF Init, InitTables, FailedWaferIsOut, HasFailed, ExperimentsOf
<1>3. BatchHoldsWafers
  BY DEF Init, InitTables, BatchHoldsWafers
<1>4. WaferKnowsItsBatch
  BY DEF Init, InitTables, WaferKnowsItsBatch, ExperimentsOf
<1>5. ResultMatchesExperiments
  BY DEF Init, InitTables, ResultMatchesExperiments
<1> QED
  BY <1>1, <1>2, <1>3, <1>4, <1>5 DEF WafersInv

\* A wafer and its experiments name the same batch, or none.
LEMMA WaferAgrees ==
  ASSUME WaferKnowsItsBatch, NEW s \in Samples, NEW w \in Wips
  PROVE  sampleWip[s] = w <=> \E x \in ExperimentsOf(s) : expWip[x] = w
<1>1. w \in {sampleWip[s]} \ {None} <=> w \in {expWip[x] : x \in ExperimentsOf(s)} \ {None}
  BY DEF WaferKnowsItsBatch
<1> QED
  BY <1>1, NullAssumption

\* ... and conversely.
LEMMA WafersAgree ==
  ASSUME NEW sw \in [Samples -> Wips \cup {None}], NEW ew \in [Experiments -> Wips \cup {None}],
         \A s \in Samples, w \in Wips : sw[s] = w <=> \E x \in ExperimentsOf(s) : ew[x] = w
  PROVE  \A s \in Samples : {sw[s]} \ {None} = {ew[x] : x \in ExperimentsOf(s)} \ {None}
<1> SUFFICES ASSUME NEW s \in Samples, NEW v
             PROVE  v \in {sw[s]} \ {None} <=> v \in {ew[x] : x \in ExperimentsOf(s)} \ {None}
  OBVIOUS
<1>1. sw[s] \in Wips \cup {None} /\ \A x \in ExperimentsOf(s) : ew[x] \in Wips \cup {None}
  BY DEF ExperimentsOf
<1> QED
  BY <1>1

\* A batch with a single job keeps it so only if it had no other before.
LEMMA OnlyJobWas ==
  ASSUME NEW w, NEW j \in Jobs, JobsOf(w)' = {j},
         \A i \in Jobs : jobStatus[i] # "absent" => jobStatus'[i] # "absent" /\ jobWip'[i] = jobWip[i],
         jobStatus[j] # "absent", jobWip[j] = w
  PROVE  JobsOf(w) = {j}
BY DEF JobsOf, ExistingJobs

\* A step that moves no wafer into or out of a batch and ends no run.
Still ==
  /\ UNCHANGED <<sampleWip, expWip, wipItems, wipRecipe, jobResult>>
  /\ \A x \in Experiments : \/ expStatus'[x] = expStatus[x]
                            \/ expStatus[x] \in Active /\ expStatus'[x] \in Active
  /\ \A s \in Samples : sampleStatus'[s] = "received" => sampleStatus[s] = "received" \/ ~HasFailed(s)
  /\ \A w \in Wips : wipStatus'[w] \in {"draft", "ready_for_dispatch"} =>
                       wipStatus[w] \in {"draft", "ready_for_dispatch"}
  /\ \A j \in Jobs : /\ jobStatus[j] # "absent" => jobWip'[j] = jobWip[j]
                     /\ jobStatus'[j] \in {"completed", "failed"} => jobStatus'[j] = jobStatus[j]

LEMMA StillFailed ==
  ASSUME Still, NEW s \in Samples
  PROVE  HasFailed(s)' <=> HasFailed(s)
BY DEF Still, HasFailed, ExperimentsOf, Active

LEMMA StillHoldsWafers ==
  ASSUME Calm, TypeInv, JobsInv, BatchesInv, WafersInv, [Next]_vars, RowsKept, Still
  PROVE  BatchHoldsWafers'
<1> SUFFICES ASSUME NEW w \in Wips, NEW s \in Samples, s \in wipItems'[w]
             PROVE  /\ wipStatus'[w] \in {"draft", "ready_for_dispatch"} => sampleWip'[s] = w
                    /\ \A j \in Jobs : jobWip'[j] = w =>
                         /\ Outstanding(j)' /\ JobsOf(w)' = {j} => sampleWip'[s] = w
                         /\ Outstanding(j)' => sampleWip'[s] = w \/ HasFailed(s)'
                         /\ jobStatus'[j] = "failed" => HasFailed(s)'
  BY DEF BatchHoldsWafers
<1>1. s \in wipItems[w] /\ sampleWip'[s] = sampleWip[s] /\ (HasFailed(s)' <=> HasFailed(s))
  BY StillFailed DEF Still
<1>2. wipStatus'[w] \in {"draft", "ready_for_dispatch"} => sampleWip'[s] = w
  BY <1>1 DEF Still, WafersInv, BatchHoldsWafers
<1>3. ASSUME NEW j \in Jobs, jobWip'[j] = w, jobStatus'[j] = "failed"
      PROVE  HasFailed(s)'
  <2>1. jobStatus[j] = "failed" /\ jobWip[j] = w
    BY <1>3 DEF Still
  <2> QED
    BY <1>1, <2>1 DEF WafersInv, BatchHoldsWafers
<1>4. ASSUME NEW j \in Jobs, jobWip'[j] = w, Outstanding(j)'
      PROVE  /\ JobsOf(w)' = {j} => sampleWip'[s] = w
             /\ sampleWip'[s] = w \/ HasFailed(s)'
  <2>1. CASE Outstanding(j)
    <3>1. jobStatus[j] # "absent" /\ jobWip[j] = w
      BY <1>4, <2>1, OutstandingHasBatch DEF Outstanding, Still
    <3>2. JobsOf(w)' = {j} => JobsOf(w) = {j}
      BY <3>1, OnlyJobWas DEF Still, RowsKept
    <3> QED
      BY <1>1, <2>1, <3>1, <3>2 DEF WafersInv, BatchHoldsWafers
  <2>2. ASSUME NEW o \in opening, o.job = j, CommitDispatch(o)
        PROVE  /\ JobsOf(w)' = {j} => sampleWip'[s] = w
               /\ sampleWip'[s] = w \/ HasFailed(s)'
    <3>1. o.wip = w
      BY <1>4, <2>2 DEF CommitDispatch, TypeInv, LabTypeOK, TypeOK
    <3>2. CASE o.retryOf = None
      <4>1. wipStatus[w] = "ready_for_dispatch"
        BY <3>1, <3>2 DEF BatchesInv, OpeningBatch
      <4> QED
        BY <1>1, <4>1 DEF WafersInv, BatchHoldsWafers
    <3>3. CASE o.retryOf # None
      <4>1. /\ o.retryOf \in Jobs /\ jobStatus[o.retryOf] = "failed" /\ jobWip[o.retryOf] = w
            /\ o.retryOf # j
        BY <2>2, <3>1, <3>3 DEF JobsInv, OpeningIsExclusive, TypeInv, LabTypeOK, EnvironmentTypeOK, Opening
      <4>2. HasFailed(s)
        BY <1>1, <4>1 DEF WafersInv, BatchHoldsWafers
      <4>3. o.retryOf \in JobsOf(w)'
        BY <4>1 DEF JobsOf, ExistingJobs, RowsKept, Still
      <4> QED
        BY <1>1, <4>1, <4>2, <4>3
    <3> QED
      BY <3>2, <3>3
  <2> QED
    BY <1>4, <2>1, <2>2, OutstandingStep
<1> QED
  BY <1>2, <1>3, <1>4

LEMMA StillKeepsWafers ==
  ASSUME Calm, LabInv, JobsInv, BatchesInv, WafersInv, [Next]_vars, Still
  PROVE  WafersInv'
<1>1. TypeInv /\ TypeInv' /\ LabTypeOK' /\ RowsKept
  BY StepType DEF LabInv, TypeInv
<1>2. \A x \in Experiments : expStatus'[x] \in {"completed", "failed"} <=>
        expStatus[x] \in {"completed", "failed"} /\ expStatus'[x] = expStatus[x]
  BY DEF Still, Active
<1>3. StartedIsPastReceipt'
  <2>1. \A x \in Experiments : expStatus'[x] \notin Waiting => expStatus[x] \notin Waiting
    BY DEF Still, Active, Waiting
  <2> QED
    BY <1>1, <2>1, ReceiptIsPast, ForeignKeysAssumption DEF WafersInv, StartedIsPastReceipt
<1>4. FailedWaferIsOut'
  BY StillFailed DEF WafersInv, FailedWaferIsOut, Still
<1>5. BatchHoldsWafers'
  BY <1>1, StillHoldsWafers
<1>6. WaferKnowsItsBatch'
  BY DEF WafersInv, WaferKnowsItsBatch, Still
<1>7. ResultMatchesExperiments'
  <2> SUFFICES ASSUME NEW j \in Jobs, jobStatus'[j] = "completed", JobsOf(jobWip[j])' = {j},
                      NEW s \in wipItems'[jobWip'[j]]
               PROVE  \E x \in ExperimentsOf(s) :
                        /\ RecipeOf[x] = wipRecipe'[jobWip'[j]]
                        /\ expStatus'[x] = IF jobResult'[j] = "pass" THEN "completed" ELSE "failed"
    BY DEF ResultMatchesExperiments, ExperimentsOf
  <2>1. jobStatus[j] = "completed" /\ jobWip'[j] = jobWip[j]
    BY DEF Still
  <2>2. JobsOf(jobWip[j]) = {j}
    <3>1. PICK w : w = jobWip[j]
      OBVIOUS
    <3>2. JobsOf(w)' = {j}
      BY <2>1, <3>1 DEF JobsOf
    <3> QED
      BY <1>1, <2>1, <3>1, <3>2, OnlyJobWas DEF Still, RowsKept
  <2>3. PICK x \in ExperimentsOf(s) :
          /\ RecipeOf[x] = wipRecipe[jobWip[j]]
          /\ expStatus[x] = IF jobResult[j] = "pass" THEN "completed" ELSE "failed"
    BY <2>1, <2>2 DEF Still, WafersInv, ResultMatchesExperiments
  <2>4. expStatus'[x] = expStatus[x]
    BY <2>3 DEF Still, Active, ExperimentsOf
  <2> QED
    BY <2>1, <2>3, <2>4 DEF Still
<1> QED
  BY <1>3, <1>4, <1>5, <1>6, <1>7 DEF WafersInv

LEMMA ReceiveIsStill ==
  ASSUME TypeInv, WafersInv, NEW s \in Samples, UNCHANGED jobTable,
         ReceiveSample(s, sampleStatus[s], sampleWip[s], reqStatus[RequestOf[s]])
  PROVE  Still
<1> USE DEF TypeInv, LabTypeOK, TypeOK
<1>1. /\ sampleStatus' = [sampleStatus EXCEPT ![s] = "received"]
      /\ sampleWip' = [sampleWip EXCEPT ![s] = sampleWip[s]]
      /\ reqStatus[RequestOf[s]] \in {"approved", "waiting_sample_receive"}
      /\ UNCHANGED <<experimentTable, wipTable>>
  BY DEF ReceiveSample
<1>2. sampleWip' = sampleWip
  BY <1>1
<1>3. ~HasFailed(s)
  BY <1>1 DEF HasFailed, ExperimentsOf, WafersInv, StartedIsPastReceipt, Waiting
<1>4. \A t \in Samples : sampleStatus'[t] = "received" => sampleStatus[t] = "received" \/ t = s
  BY <1>1
<1> QED
  BY <1>1, <1>2, <1>3, <1>4 DEF Still

LEMMA TableIsStill ==
  ASSUME TypeInv, WafersInv, TableStep, "cancel_wip" \notin Operations, "received" \notin ManualStatuses
  PROVE  \/ Still
         \/ \E w \in Wips, S \in SUBSET Samples, recipe \in Recipes :
              CreateWip(w, S, recipe) /\ UNCHANGED <<jobTable, environment>>
<1> USE DEF TypeInv, LabTypeOK, TypeOK
<1>0. UNCHANGED jobTable
  BY DEF TableStep
<1>1. ASSUME NEW s \in Samples, RejectSample(s, sampleStatus[s], reqStatus[RequestOf[s]])
      PROVE  Still
  BY <1>0, <1>1 DEF RejectSample, Still
<1>2. ASSUME NEW s \in Samples, NEW status \in ManualStatuses, UpdateSampleStatus(s, status)
      PROVE  Still
  BY <1>0, <1>2 DEF UpdateSampleStatus, Still
<1>3. ASSUME NEW r \in Requests, CancelRequest(r, reqStatus[r])
      PROVE  Still
  BY <1>0, <1>3 DEF CancelRequest, Still
<1>4. ASSUME NEW r \in Requests, CloseRequest(r, reqStatus[r])
      PROVE  Still
  BY <1>0, <1>4 DEF CloseRequest, Update, Still
<1>5. ASSUME NEW w \in Wips, LockWip(w, wipStatus[w])
      PROVE  Still
  BY <1>0, <1>5 DEF LockWip, Still
<1>6. ASSUME UNCHANGED tables \/ UNCHANGED otherTables
      PROVE  Still
  BY <1>6 DEF Still
<1>7. ASSUME NEW s \in Samples, ReceiveSample(s, sampleStatus[s], sampleWip[s], reqStatus[RequestOf[s]])
      PROVE  Still
  BY <1>0, <1>7, ReceiveIsStill
<1> HIDE DEF tables, otherTables, TypeInv, LabTypeOK, TypeOK
<1> QED
  BY <1>1, <1>2, <1>3, <1>4, <1>5, <1>6, <1>7 DEF TableStep

\* The experiments of a batch are active, so putting them to RUNNING starts none.
LEMMA BatchedIsActive ==
  ASSUME LabInv, NEW x \in Experiments, expWip[x] \in Wips
  PROVE  expStatus[x] \in Active
BY NullAssumption DEF LabInv, ExperimentIntegrity, ActiveIffBatched

LEMMA CommitIsStill ==
  ASSUME LabInv, JobsInv, NEW o \in opening, CommitDispatch(o)
  PROVE  Still
<1> USE DEF LabInv, LabTypeOK, TypeOK
<1>1. o \in Opening /\ o.wip \in Wips /\ o.job \in Jobs /\ jobStatus[o.job] = "absent"
  BY DEF EnvironmentTypeOK, Opening, JobsInv, OpeningIsExclusive
<1>2. \A x \in Experiments : expStatus'[x] = expStatus[x] \/ (expStatus[x] \in Active /\ expStatus'[x] \in Active)
  <2>1. \A x \in Experiments : expStatus'[x] = IF expWip[x] = o.wip THEN "running" ELSE expStatus[x]
    BY DEF CommitDispatch, Update
  <2>2. "running" \in Active
    BY DEF Active
  <2> QED
    BY <1>1, <2>1, <2>2, BatchedIsActive
<1>3. \A s \in Samples : sampleStatus'[s] = "received" => sampleStatus[s] = "received"
  BY DEF CommitDispatch, Update
<1>4. /\ UNCHANGED <<sampleWip, expWip, wipItems, wipRecipe, jobResult>>
      /\ \A w \in Wips : wipStatus'[w] \in {wipStatus[w], "dispatching"}
      /\ \A j \in Jobs : jobWip'[j] = jobWip[j] \/ j = o.job
      /\ \A j \in Jobs : jobStatus'[j] \in {jobStatus[j], "queued", "retrying"}
  BY <1>1 DEF CommitDispatch
<1>5. /\ \A w \in Wips : wipStatus'[w] \in {"draft", "ready_for_dispatch"} =>
                           wipStatus[w] \in {"draft", "ready_for_dispatch"}
      /\ \A j \in Jobs : /\ jobStatus[j] # "absent" => jobWip'[j] = jobWip[j]
                         /\ jobStatus'[j] \in {"completed", "failed"} => jobStatus'[j] = jobStatus[j]
  BY <1>1, <1>4
<1> QED
  BY <1>2, <1>3, <1>4, <1>5 DEF Still

LEMMA StartIsStill ==
  ASSUME LabInv, NEW k \in Workers, StartRun(k)
  PROVE  Still
<1> USE DEF LabInv, LabTypeOK, TypeOK
<1> DEFINE w == jobWip[task[k].job]
<1>1. w \in Wips
  BY HeldJob DEF StartRun, TypeInv
<1>2. \A x \in Experiments : expStatus'[x] = expStatus[x] \/ (expStatus[x] \in Active /\ expStatus'[x] \in Active)
  <2>1. \A x \in Experiments :
          expStatus'[x] = IF SampleOf[x] \in wipItems[w] /\ expWip[x] = w THEN "running" ELSE expStatus[x]
    BY DEF StartRun, Update
  <2>2. "running" \in Active
    BY DEF Active
  <2> HIDE DEF w
  <2> QED
    BY <1>1, <2>1, <2>2, BatchedIsActive
<1>3. \A s \in Samples : sampleStatus'[s] = "received" => sampleStatus[s] = "received"
  BY DEF StartRun, Update
<1>4. /\ UNCHANGED <<sampleWip, expWip, wipItems, wipRecipe, jobResult, jobWip>>
      /\ \A v \in Wips : wipStatus'[v] \in {wipStatus[v], "running"}
      /\ \A j \in Jobs : jobStatus'[j] \in {jobStatus[j], "running"}
  BY DEF StartRun
<1> QED
  BY <1>2, <1>3, <1>4 DEF Still

LEMMA OtherDispatchIsStill ==
  ASSUME TypeInv, NEW i, NEW m, NEW w, NEW e, NEW o, NEW k, NEW j,
         \/ BeginDispatch(w, e, j) \/ BeginRetry(i, jobStatus[i], m)
         \/ SubmitDispatch(o) \/ AbortDispatch(o)
         \/ CancelDispatch(i, jobStatus[i], jobConfirmed[i], eqActive[jobEquip[i]])
         \/ FinalConfirm(j)
         \/ TakeMessage(k, j) \/ MissDispatch(k, j) \/ Acknowledge(k)
  PROVE  Still
<1>1. CASE BeginDispatch(w, e, j) \/ BeginRetry(i, jobStatus[i], m)
  BY <1>1 DEF BeginDispatch, BeginRetry, Still
<1>2. CASE SubmitDispatch(o) \/ AbortDispatch(o)
  BY <1>2 DEF SubmitDispatch, AbortDispatch, Still
<1>3. CASE CancelDispatch(i, jobStatus[i], jobConfirmed[i], eqActive[jobEquip[i]])
  BY <1>3 DEF CancelDispatch, Still, TypeInv, LabTypeOK, TypeOK
<1>4. CASE FinalConfirm(j)
  BY <1>4 DEF FinalConfirm, Still
<1>5. CASE TakeMessage(k, j) \/ MissDispatch(k, j) \/ Acknowledge(k)
  BY <1>5 DEF TakeMessage, MissDispatch, Acknowledge, Still
<1> QED
  BY <1>1, <1>2, <1>3, <1>4, <1>5

\* What create_wip does to a wafer it takes, and to one it does not.
Takes(w, S) ==
  /\ wipStatus[w] = "absent" /\ wipStatus'[w] = "draft" /\ wipItems'[w] = S
  /\ \A v \in Wips : v # w => /\ wipStatus'[v] = wipStatus[v] /\ wipItems'[v] = wipItems[v]
                              /\ wipRecipe'[v] = wipRecipe[v]
  /\ \A s \in S : /\ sampleStatus[s] = "received" /\ sampleWip[s] = None
                  /\ sampleWip'[s] = w /\ sampleStatus'[s] = "in_wip"
                  /\ reqStatus'[RequestOf[s]] \notin {"approved", "waiting_sample_receive"}
                  /\ \E x \in ExperimentsOf(s) : expWip'[x] = w
  /\ \A s \in Samples \ S : sampleWip'[s] = sampleWip[s] /\ sampleStatus'[s] = sampleStatus[s]
  /\ \A x \in Experiments :
       \/ expStatus'[x] = expStatus[x] /\ expWip'[x] = expWip[x]
       \/ /\ expStatus[x] \in Waiting /\ expStatus'[x] = "in_wip" /\ expWip'[x] = w
          /\ expWip[x] = None /\ SampleOf[x] \in S

LEMMA CreateTakes ==
  ASSUME LabInv, NEW w \in Wips, NEW S \in SUBSET Samples, NEW recipe \in Recipes,
         CreateWip(w, S, recipe)
  PROVE  Takes(w, S)
<1> DEFINE taken == UNION {NextReady(s) : s \in S}
<1> USE DEF LabInv, LabTypeOK, TypeOK
<1>1. \A s \in S : /\ SampleReady(s, recipe)
                   /\ sampleStatus[s] = "received" /\ sampleWip[s] = None
                   /\ reqStatus[RequestOf[s]] \in RequestAllowsWip
                   /\ RequestOf[s] \in Requests
  BY ForeignKeysAssumption DEF CreateWip, SampleReady
<1>2. \A s \in S : reqStatus'[RequestOf[s]] \notin {"approved", "waiting_sample_receive"}
  BY <1>1, ForeignKeysAssumption DEF CreateWip, RequestsIn
<1>3. /\ wipStatus[w] = "absent" /\ wipStatus'[w] = "draft" /\ wipItems'[w] = S
      /\ \A v \in Wips : v # w => /\ wipStatus'[v] = wipStatus[v] /\ wipItems'[v] = wipItems[v]
                                  /\ wipRecipe'[v] = wipRecipe[v]
      /\ \A s \in S : sampleWip'[s] = w /\ sampleStatus'[s] = "in_wip"
      /\ \A s \in Samples \ S : sampleWip'[s] = sampleWip[s] /\ sampleStatus'[s] = sampleStatus[s]
  BY DEF CreateWip, Update
<1>4. \A x \in Experiments :
        /\ expStatus'[x] = IF x \in taken THEN "in_wip" ELSE expStatus[x]
        /\ expWip'[x] = IF x \in taken THEN w ELSE expWip[x]
  BY DEF CreateWip, Update
<1>5. ASSUME NEW x \in taken
      PROVE  /\ x \in Experiments /\ SampleOf[x] \in S /\ expStatus[x] \in Waiting /\ expWip[x] = None
  <2>1. PICK s \in S : x \in NextReady(s)
    OBVIOUS
  <2> QED
    BY <2>1 DEF NextReady, ExperimentsOf
<1>6. \A s \in S : \E x \in ExperimentsOf(s) : x \in taken
  BY <1>1 DEF SampleReady, NextReady
<1> HIDE DEF taken
<1>7. \A s \in S : \E x \in ExperimentsOf(s) : expWip'[x] = w
  BY <1>4, <1>5, <1>6
<1> QED
  BY <1>1, <1>2, <1>3, <1>4, <1>5, <1>7 DEF Takes

LEMMA CreateKeepsWafers ==
  ASSUME LabInv, LabTypeOK', JobsInv, BatchesInv, WafersInv, NEW w \in Wips, NEW S \in SUBSET Samples,
         NEW recipe \in Recipes, CreateWip(w, S, recipe), UNCHANGED <<jobTable, environment>>,
         \A r \in Requests : reqStatus'[r] \in {"approved", "waiting_sample_receive"} =>
           reqStatus'[r] = reqStatus[r]
  PROVE  WafersInv'
<1>0. Takes(w, S)
  BY CreateTakes
<1>1. \A x \in Experiments :
        expStatus[x] \in {"failed", "completed"} => expStatus'[x] = expStatus[x]
  BY <1>0 DEF Takes, Waiting
<1>2. \A s \in Samples : HasFailed(s)' <=> HasFailed(s)
  BY <1>0 DEF Takes, HasFailed, ExperimentsOf, Waiting
<1>3. \A j \in Jobs : jobStatus[j] # "absent" => jobWip[j] \in Wips /\ jobWip[j] # w
  BY <1>0 DEF Takes, LabInv, RowsExist, JobRowsExist
<1>4. \A j \in Jobs : Outstanding(j)' => Outstanding(j) /\ jobStatus[j] # "absent"
  <2>1. \A j \in Jobs : Outstanding(j)' => Outstanding(j)
    BY DEF Outstanding, Before, Amid
  <2> QED
    BY <2>1, OutstandingHasBatch DEF Outstanding, LabInv, TypeInv
<1>5. StartedIsPastReceipt'
  BY <1>0, ForeignKeysAssumption DEF Takes, WafersInv, StartedIsPastReceipt, Waiting
<1>6. FailedWaferIsOut'
  <2>1. \A s \in Samples : HasFailed(s) => s \notin S
    BY <1>0 DEF Takes, WafersInv, FailedWaferIsOut
  <2> QED
    BY <1>2, <2>1, <1>0 DEF Takes, WafersInv, FailedWaferIsOut
<1>7. BatchHoldsWafers'
  <2> SUFFICES ASSUME NEW v \in Wips, NEW s \in Samples, s \in wipItems'[v]
               PROVE  /\ wipStatus'[v] \in {"draft", "ready_for_dispatch"} => sampleWip'[s] = v
                      /\ \A j \in Jobs : jobWip'[j] = v =>
                           /\ Outstanding(j)' /\ JobsOf(v)' = {j} => sampleWip'[s] = v
                           /\ Outstanding(j)' => sampleWip'[s] = v \/ HasFailed(s)'
                           /\ jobStatus'[j] = "failed" => HasFailed(s)'
    BY DEF BatchHoldsWafers
  <2>1. CASE v = w
    BY <1>3, <1>4, <2>1, <1>0 DEF Takes
  <2>2. CASE v # w
    <3>1. s \in wipItems[v] /\ wipStatus'[v] = wipStatus[v] /\ (sampleWip'[s] = sampleWip[s] \/ s \in S)
      BY <2>2, <1>0 DEF Takes
    <3>2. s \in S => sampleWip[s] # v /\ ~HasFailed(s)
      BY <1>0, NullAssumption DEF Takes, WafersInv, FailedWaferIsOut
    <3>3. \A j \in Jobs : JobsOf(v)' = JobsOf(v)
      BY DEF JobsOf, ExistingJobs
    <3> QED
      BY <1>2, <1>4, <3>1, <3>2, <3>3 DEF WafersInv, BatchHoldsWafers
  <2> QED
    BY <2>1, <2>2
<1>8. WaferKnowsItsBatch'
  <2>1. ASSUME NEW s \in Samples, NEW v \in Wips
        PROVE  sampleWip'[s] = v <=> \E x \in ExperimentsOf(s) : expWip'[x] = v
    <3>1. sampleWip[s] = v <=> \E x \in ExperimentsOf(s) : expWip[x] = v
      BY WaferAgrees DEF WafersInv
    <3>2. CASE s \in S
      <4>1. \A x \in ExperimentsOf(s) : expWip[x] # v
        BY <3>1, <3>2, <1>0, NullAssumption DEF Takes
      <4> QED
        BY <3>2, <4>1, <1>0 DEF Takes, ExperimentsOf
    <3>3. CASE s \notin S
      BY <3>1, <3>3, <1>0 DEF Takes, ExperimentsOf
    <3> QED
      BY <3>2, <3>3
  <2>2. /\ sampleWip' \in [Samples -> Wips \cup {None}]
        /\ expWip' \in [Experiments -> Wips \cup {None}]
    BY DEF LabTypeOK, TypeOK
  <2> QED
    BY <2>1, <2>2, WafersAgree DEF WaferKnowsItsBatch
<1>9. ResultMatchesExperiments'
  <2> SUFFICES ASSUME NEW j \in Jobs, jobStatus'[j] = "completed", JobsOf(jobWip[j])' = {j},
                      NEW s \in wipItems'[jobWip'[j]]
               PROVE  \E x \in ExperimentsOf(s) :
                        /\ RecipeOf[x] = wipRecipe'[jobWip'[j]]
                        /\ expStatus'[x] = IF jobResult'[j] = "pass" THEN "completed" ELSE "failed"
    BY DEF ResultMatchesExperiments, ExperimentsOf
  <2>1. JobsOf(jobWip[j]) = {j}
    BY DEF JobsOf, ExistingJobs
  <2>2. s \in wipItems[jobWip[j]] /\ wipRecipe'[jobWip[j]] = wipRecipe[jobWip[j]]
    BY <1>3, <1>0 DEF Takes
  <2>3. PICK x \in ExperimentsOf(s) :
          /\ RecipeOf[x] = wipRecipe[jobWip[j]]
          /\ expStatus[x] = IF jobResult[j] = "pass" THEN "completed" ELSE "failed"
    BY <2>1, <2>2 DEF WafersInv, ResultMatchesExperiments
  <2> QED
    BY <1>1, <2>2, <2>3 DEF ExperimentsOf
<1> QED
  BY <1>5, <1>6, <1>7, <1>8, <1>9 DEF WafersInv

\* What the end of a run does: the batch w of job j is settled with `outcome'.
RunEnds(j, w, outcome) ==
  /\ jobStatus'[j] = outcome \/ (jobStatus'[j] = "completed" /\ outcome = "failed")
  /\ jobStatus'[j] = "completed" => outcome = (IF jobResult'[j] = "pass" THEN "completed" ELSE "failed")
  /\ \A i \in Jobs : i # j => jobStatus'[i] = jobStatus[i] /\ jobResult'[i] = jobResult[i]
  /\ \A x \in Experiments :
       \/ expWip[x] = w /\ expStatus'[x] = outcome /\ expWip'[x] = None
       \/ /\ expWip[x] # w /\ expWip'[x] = expWip[x]
          /\ expStatus'[x] = expStatus[x] \/ (expStatus[x] \in Waiting /\ expStatus'[x] \in Waiting)
  /\ \A s \in Samples :
       IF s \in wipItems[w]
         THEN sampleWip'[s] = None /\ (sampleStatus'[s] = "received" => ~HasFailed(s)')
         ELSE sampleWip'[s] = sampleWip[s] /\ sampleStatus'[s] = sampleStatus[s]
  /\ \A v \in Wips : v # w => wipStatus'[v] = wipStatus[v]
  /\ wipStatus'[w] \notin {"draft", "ready_for_dispatch"}
  /\ UNCHANGED <<jobWip, wipItems, wipRecipe, opening>>

LEMMA EndKeepsWafers ==
  ASSUME Calm, LabInv, LabTypeOK', JobsInv, BatchesInv, WafersInv, [Next]_vars,
         NEW j \in Jobs, NEW w \in Wips, NEW outcome \in {"completed", "failed"},
         jobWip[j] = w, Outstanding(j), ~Outstanding(j)',
         RunEnds(j, w, outcome),
         \A i \in Jobs : i # j /\ Outstanding(i)' => Outstanding(i)
  PROVE  WafersInv'
<1>1. TypeInv /\ BatchRunsItsRecipe /\ jobStatus[j] # "absent" /\ w # None /\ wipStatus[w] \in {"dispatching", "running"}
  BY OutstandingHasBatch, NullAssumption
     DEF Outstanding, LabInv, TypeInv, ExperimentIntegrity, BatchesInv, BatchFollowsJob
<1>2. ASSUME NEW i \in Jobs, i # j, Outstanding(i) \/ jobStatus[i] = "failed"
      PROVE  jobWip[i] # w
  BY <1>1, <1>2 DEF BatchesInv, BatchFollowsJob, OneJobAtATime
<1>3. ASSUME NEW s \in Samples, s \in wipItems[w]
      PROVE  sampleWip[s] = w \/ (HasFailed(s) /\ sampleWip[s] = None)
  BY <1>3 DEF WafersInv, BatchHoldsWafers, FailedWaferIsOut
<1>4. \A x \in Experiments : expWip[x] = w => SampleOf[x] \in wipItems[w] /\ RecipeOf[x] = wipRecipe[w]
  BY <1>1 DEF BatchRunsItsRecipe
<1>5. ASSUME NEW x \in Experiments, expStatus[x] \in {"completed", "failed"}
      PROVE  expStatus'[x] = expStatus[x]
  BY <1>5, StepKeepsLabInv DEF Finished
<1>6. ASSUME NEW s \in Samples, HasFailed(s) PROVE HasFailed(s)'
  BY <1>5, <1>6 DEF HasFailed, ExperimentsOf
<1>7. ASSUME NEW s \in Samples, HasFailed(s)', s \notin wipItems[w] PROVE HasFailed(s)
  BY <1>4, <1>7 DEF HasFailed, ExperimentsOf, RunEnds, Waiting
<1>8. StartedIsPastReceipt'
  <2>1. \A x \in Experiments : expStatus'[x] \notin Waiting => expStatus[x] \notin Waiting
    BY <1>1, BatchedIsActive DEF RunEnds, Waiting, Active
  <2> QED
    BY <1>1, <2>1, ReceiptIsPast, ForeignKeysAssumption DEF WafersInv, StartedIsPastReceipt
<1>9. FailedWaferIsOut'
  BY <1>7 DEF WafersInv, FailedWaferIsOut, RunEnds
<1>10. BatchHoldsWafers'
  <2> SUFFICES ASSUME NEW v \in Wips, NEW s \in Samples, s \in wipItems[v]
               PROVE  /\ wipStatus'[v] \in {"draft", "ready_for_dispatch"} => sampleWip'[s] = v
                      /\ \A i \in Jobs : jobWip[i] = v =>
                           /\ Outstanding(i)' /\ JobsOf(v)' = {i} => sampleWip'[s] = v
                           /\ Outstanding(i)' => sampleWip'[s] = v \/ HasFailed(s)'
                           /\ jobStatus'[i] = "failed" => HasFailed(s)'
    BY DEF BatchHoldsWafers, RunEnds
  <2>1. CASE v = w
    <3>1. ASSUME jobStatus'[j] = "failed" PROVE HasFailed(s)'
      <4>1. outcome = "failed"
        BY <3>1 DEF RunEnds
      <4>2. CASE sampleWip[s] = w
        <5>1. PICK x \in ExperimentsOf(s) : expWip[x] = w
          BY <4>2, WaferAgrees DEF WafersInv
        <5> QED
          BY <1>1, <4>1, <5>1 DEF RunEnds, HasFailed, ExperimentsOf
      <4> QED
        BY <1>3, <1>6, <2>1, <4>2
    <3>2. \A i \in Jobs : jobWip[i] = w /\ i # j => ~Outstanding(i)' /\ jobStatus'[i] # "failed"
      BY <1>2 DEF RunEnds
    <3> QED
      BY <2>1, <3>1, <3>2 DEF RunEnds
  <2>2. CASE v # w
    <3>1. ASSUME NEW i \in Jobs, jobWip[i] = v
          PROVE  /\ i # j /\ jobStatus'[i] = jobStatus[i] /\ (Outstanding(i)' => Outstanding(i))
                 /\ JobsOf(v)' = {i} /\ Outstanding(i)' => JobsOf(v) = {i}
      <4>1. i # j /\ jobStatus'[i] = jobStatus[i] /\ (Outstanding(i)' => Outstanding(i))
        BY <2>2, <3>1 DEF RunEnds
      <4>2. Outstanding(i) => jobStatus[i] # "absent"
        BY <1>1, OutstandingHasBatch DEF Outstanding
      <4>3. \A m \in Jobs : jobStatus[m] # "absent" => jobStatus'[m] # "absent" /\ jobWip'[m] = jobWip[m]
        BY <1>1 DEF RunEnds
      <4> QED
        BY <3>1, <4>1, <4>2, <4>3, OnlyJobWas
    <3>2. sampleWip[s] = v => s \notin wipItems[w]
      BY <1>3, <2>2, NullAssumption
    <3>3. sampleWip[s] = v => sampleWip'[s] = v
      BY <3>2 DEF RunEnds
    <3>4. wipStatus'[v] = wipStatus[v]
      BY <2>2 DEF RunEnds
    <3> QED
      BY <1>6, <3>1, <3>3, <3>4 DEF WafersInv, BatchHoldsWafers
  <2> QED
    BY <2>1, <2>2
<1>11. WaferKnowsItsBatch'
  <2>1. ASSUME NEW s \in Samples, NEW v \in Wips
        PROVE  sampleWip'[s] = v <=> \E x \in ExperimentsOf(s) : expWip'[x] = v
    <3>1. sampleWip[s] = v <=> \E x \in ExperimentsOf(s) : expWip[x] = v
      BY WaferAgrees DEF WafersInv
    <3>2. CASE s \in wipItems[w]
      <4>1. v # w => sampleWip[s] # v
        BY <1>3, <3>2, NullAssumption
      <4> QED
        BY <3>1, <3>2, <4>1, NullAssumption DEF RunEnds, ExperimentsOf
    <3>3. CASE s \notin wipItems[w]
      <4>1. \A x \in ExperimentsOf(s) : expWip'[x] = expWip[x]
        BY <1>4, <3>3 DEF RunEnds, ExperimentsOf
      <4> QED
        BY <3>1, <3>3, <4>1 DEF RunEnds
    <3> QED
      BY <3>2, <3>3
  <2>2. /\ sampleWip' \in [Samples -> Wips \cup {None}]
        /\ expWip' \in [Experiments -> Wips \cup {None}]
    BY DEF LabTypeOK, TypeOK
  <2> QED
    BY <2>1, <2>2, WafersAgree DEF WaferKnowsItsBatch
<1>12. ResultMatchesExperiments'
  <2> SUFFICES ASSUME NEW i \in Jobs, jobStatus'[i] = "completed", JobsOf(jobWip[i])' = {i},
                      NEW s \in wipItems[jobWip[i]]
               PROVE  \E x \in ExperimentsOf(s) :
                        /\ RecipeOf[x] = wipRecipe[jobWip[i]]
                        /\ expStatus'[x] = IF jobResult'[i] = "pass" THEN "completed" ELSE "failed"
    BY DEF ResultMatchesExperiments, ExperimentsOf, RunEnds
  <2>1. PICK v : v = jobWip[i]
    OBVIOUS
  <2>2. JobsOf(v)' = {i}
    BY <2>1 DEF JobsOf, RunEnds
  <2>3. \A m \in Jobs : jobStatus[m] # "absent" => jobStatus'[m] # "absent" /\ jobWip'[m] = jobWip[m]
    BY <1>1 DEF RunEnds
  <2>4. JobsOf(v) = {i}
    BY <1>1, <2>1, <2>2, <2>3, OnlyJobWas DEF RunEnds
  <2>5. CASE i = j
    <3>1. v = w /\ s \in Samples /\ s \in wipItems[w]
      BY <1>1, <2>1, <2>5 DEF TypeInv, LabTypeOK, TypeOK
    <3>2. sampleWip[s] = w
      BY <2>4, <2>5, <3>1 DEF WafersInv, BatchHoldsWafers
    <3>3. PICK x \in ExperimentsOf(s) : expWip[x] = w
      BY <3>1, <3>2, WaferAgrees DEF WafersInv
    <3> QED
      BY <1>4, <2>1, <2>5, <3>1, <3>3 DEF RunEnds, ExperimentsOf
  <2>6. CASE i # j
    <3>1. PICK x \in ExperimentsOf(s) :
            /\ RecipeOf[x] = wipRecipe[jobWip[i]]
            /\ expStatus[x] = IF jobResult[i] = "pass" THEN "completed" ELSE "failed"
      BY <2>1, <2>4, <2>6 DEF WafersInv, ResultMatchesExperiments, RunEnds
    <3> QED
      BY <1>5, <2>6, <3>1 DEF RunEnds, ExperimentsOf
  <2> QED
    BY <2>5, <2>6
<1> QED
  BY <1>8, <1>9, <1>10, <1>11, <1>12 DEF WafersInv


\* A task's last transaction leaves its job, and only that, with nothing to run.
LEMMA RunIsOver ==
  ASSUME Calm, TypeInv, JobsInv, NEW k \in Workers, task[k].phase \in {"loaded", "running"},
         NEW phase \in {"reporting", "returning"}, task' = [task EXCEPT ![k].phase = phase],
         NEW j \in Jobs, j = task[k].job, jobStatus'[j] \in {"completed", "failed"},
         UNCHANGED <<broker, opening>>, [Next]_vars
  PROVE  /\ Outstanding(j) /\ ~Outstanding(j)'
         /\ \A i \in Jobs : Outstanding(i)' => Outstanding(i)
<1>1. /\ broker[j] = "held" /\ jobStatus[j] # "absent"
      /\ \A l \in Workers : l # k /\ task[l].phase # "idle" => task[l].job # j
  BY TaskJob
<1>2. /\ task'[k].phase = phase /\ task'[k].job = j
      /\ \A l \in Workers : l # k => task'[l] = task[l]
  BY DEF TypeInv, LabTypeOK, EnvironmentTypeOK, Task
<1>3. Outstanding(j)
  BY <1>1 DEF Outstanding, Before, Amid
<1>4. ~Outstanding(j)'
  BY <1>1, <1>2 DEF Outstanding, Before, Amid
<1>5. \A o \in opening : ~CommitDispatch(o)
  BY DEF CommitDispatch
<1>6. \A i \in Jobs : Outstanding(i)' => Outstanding(i)
  BY <1>5, OutstandingStep
<1> QED
  BY <1>3, <1>4, <1>6

LEMMA FinishEnds ==
  ASSUME LabInv, JobsInv, BatchesInv, NEW k \in Workers, NEW verdict \in {"pass", "fail"}, FinishRun(k, verdict)
  PROVE  RunEnds(task[k].job, jobWip[task[k].job], Outcome(verdict))
<1> DEFINE exps == Update(expStatus, Settled(jobWip[task[k].job]), Outcome(verdict))
<1> USE DEF LabInv, LabTypeOK, TypeOK
<1>0. TypeInv /\ BatchRunsItsRecipe
  BY DEF TypeInv, ExperimentIntegrity
<1>1. PICK j \in Jobs, w \in Wips : j = task[k].job /\ w = jobWip[j] /\ task[k].phase = "running"
  BY <1>0, TaskJob DEF FinishRun
<1>2. SyncCompletion(w, verdict) /\ exps = Update(expStatus, Settled(w), Outcome(verdict))
  BY <1>1 DEF FinishRun
<1>3. \A x \in Experiments : exps[x] = IF expWip[x] = w THEN Outcome(verdict) ELSE expStatus[x]
  BY <1>0, <1>2, SettledIsBatch DEF Update
<1>4. /\ expStatus' = Update(exps, Promoted(w, verdict, exps), "ready") /\ DOMAIN exps = Experiments
      /\ expWip' = Update(expWip, Settled(w), None)
  BY <1>2 DEF SyncCompletion, Update
<1>5. /\ sampleStatus' = [s \in Samples |->
           IF s \in wipItems[w] THEN SampleOutcome(s, verdict, exps) ELSE sampleStatus[s]]
      /\ sampleWip' = Update(sampleWip, wipItems[w], None)
  BY <1>2 DEF SyncCompletion
<1> HIDE DEF exps
<1>6. \A x \in Experiments :
        expStatus'[x] = exps[x] \/ (exps[x] = "pending" /\ expStatus'[x] = "ready")
  BY <1>4 DEF Update, Promoted
<1>7. \A x \in Experiments :
        \/ expWip[x] = w /\ expStatus'[x] = Outcome(verdict) /\ expWip'[x] = None
        \/ /\ expWip[x] # w /\ expWip'[x] = expWip[x]
           /\ expStatus'[x] = expStatus[x] \/ (expStatus[x] \in Waiting /\ expStatus'[x] \in Waiting)
  <2>1. \A x \in Experiments : expWip'[x] = IF expWip[x] = w THEN None ELSE expWip[x]
    BY <1>0, <1>4, SettledIsBatch DEF Update
  <2>2. Outcome(verdict) # "pending"
    BY DEF Outcome
  <2> QED
    BY <1>3, <1>6, <2>1, <2>2 DEF Waiting
<1>8. \A s \in Samples :
        IF s \in wipItems[w]
          THEN sampleWip'[s] = None /\ (sampleStatus'[s] = "received" => ~HasFailed(s)')
          ELSE sampleWip'[s] = sampleWip[s] /\ sampleStatus'[s] = sampleStatus[s]
  <2>1. ASSUME NEW s \in Samples, SampleOutcome(s, verdict, exps) = "received" PROVE ~HasFailed(s)'
    <3>1. \A x \in ExperimentsOf(s) : exps[x] # "failed"
      BY <2>1 DEF SampleOutcome
    <3> QED
      BY <1>6, <3>1 DEF HasFailed, ExperimentsOf
  <2> QED
    BY <1>5, <2>1 DEF Update
<1>9. /\ \A v \in Wips : v # w => wipStatus'[v] = wipStatus[v]
      /\ wipStatus'[w] \notin {"draft", "ready_for_dispatch"}
  <2>1. wipStatus[w] = "running"
    BY <1>1 DEF BatchesInv, BatchFollowsJob, Amid
  <2> QED
    BY <1>2, <2>1 DEF SyncCompletion, Outcome
<1>10. /\ jobStatus'[j] = "completed" /\ jobResult'[j] = verdict
       /\ \A i \in Jobs : i # j => jobStatus'[i] = jobStatus[i] /\ jobResult'[i] = jobResult[i]
       /\ UNCHANGED <<jobWip, wipItems, wipRecipe, opening>>
  BY <1>1 DEF FinishRun
<1>11. Outcome(verdict) = (IF verdict = "pass" THEN "completed" ELSE "failed")
  BY DEF Outcome
<1> QED
  BY <1>1, <1>7, <1>8, <1>9, <1>10, <1>11 DEF RunEnds

LEMMA FailEnds ==
  ASSUME LabInv, JobsInv, NEW k \in Workers, task[k].phase # "idle", FailRun(k)
  PROVE  RunEnds(task[k].job, jobWip[task[k].job], "failed")
<1> USE DEF LabInv, LabTypeOK, TypeOK
<1>1. PICK j \in Jobs, w \in Wips : j = task[k].job /\ w = jobWip[j]
  BY TaskJob DEF TypeInv
<1>2. \A x \in Experiments :
        \/ expWip[x] = w /\ expStatus'[x] = "failed" /\ expWip'[x] = None
        \/ expWip[x] # w /\ expWip'[x] = expWip[x] /\ expStatus'[x] = expStatus[x]
  BY <1>1 DEF FailRun, Update
<1>3. \A s \in Samples :
        IF s \in wipItems[w]
          THEN sampleWip'[s] = None /\ sampleStatus'[s] # "received"
          ELSE sampleWip'[s] = sampleWip[s] /\ sampleStatus'[s] = sampleStatus[s]
  BY <1>1 DEF FailRun, Update
<1>4. /\ \A v \in Wips : v # w => wipStatus'[v] = wipStatus[v]
      /\ wipStatus'[w] = "failed" /\ jobStatus'[j] = "failed"
      /\ \A i \in Jobs : i # j => jobStatus'[i] = jobStatus[i]
      /\ UNCHANGED <<jobWip, jobResult, wipItems, wipRecipe, opening>>
  BY <1>1 DEF FailRun
<1> QED
  BY <1>1, <1>2, <1>3, <1>4 DEF RunEnds

LEMMA StepKeepsWafers ==
  ASSUME Calm, "cancel_wip" \notin Operations, "received" \notin ManualStatuses,
         LabInv, JobsInv, BatchesInv, WafersInv, [Next]_vars
  PROVE  WafersInv'
<1>0. TypeInv /\ LabTypeOK'
  BY StepKeepsLabInv DEF TypeInv, LabInv
<1>1. CASE TableStep
  <2>1. ASSUME NEW w \in Wips, NEW S \in SUBSET Samples, NEW recipe \in Recipes, CreateWip(w, S, recipe),
               UNCHANGED <<jobTable, environment>>
        PROVE  WafersInv'
    BY <1>0, <2>1, CreateKeepsWafers, ReceiptIsPast
  <2> QED
    BY <1>0, <1>1, <2>1, TableIsStill, StillKeepsWafers
<1>2. CASE DispatchStep
  BY <1>0, <1>2, CommitIsStill, OtherDispatchIsStill, StillKeepsWafers DEF DispatchStep
<1>3. ASSUME NEW k \in Workers, task[k].phase \in {"loaded", "running"},
             NEW phase \in {"reporting", "returning"}, task' = [task EXCEPT ![k].phase = phase],
             NEW outcome \in {"completed", "failed"}, RunEnds(task[k].job, jobWip[task[k].job], outcome),
             UNCHANGED broker
      PROVE  WafersInv'
  <2>1. PICK j \in Jobs, w \in Wips : j = task[k].job /\ w = jobWip[j]
    BY <1>0, <1>3, HeldJob
  <2>2. RunEnds(j, w, outcome)
    BY <1>3, <2>1
  <2>3. jobStatus'[j] \in {"completed", "failed"} /\ UNCHANGED opening
    BY <2>2 DEF RunEnds
  <2>4. /\ Outstanding(j) /\ ~Outstanding(j)'
        /\ \A i \in Jobs : Outstanding(i)' => Outstanding(i)
    BY <1>0, <1>3, <2>1, <2>3, RunIsOver
  <2> QED
    BY <1>0, <2>1, <2>2, <2>4, EndKeepsWafers
<1>4. ASSUME NEW k \in Workers, NEW verdict \in {"pass", "fail"}, FinishRun(k, verdict) \/ FailRun(k)
      PROVE  WafersInv'
  <2>1. CASE FinishRun(k, verdict)
    <3>1. /\ task[k].phase = "running" /\ task' = [task EXCEPT ![k].phase = "reporting"]
          /\ UNCHANGED broker /\ Outcome(verdict) \in {"completed", "failed"}
      BY <2>1 DEF FinishRun, Outcome
    <3> QED
      BY <1>3, <2>1, <3>1, FinishEnds
  <2>2. CASE FailRun(k)
    <3>1. /\ task[k].phase \in {"loaded", "running"} /\ task' = [task EXCEPT ![k].phase = "returning"]
          /\ UNCHANGED broker
      BY <2>2 DEF FailRun, Calm
    <3> QED
      BY <1>3, <2>2, <3>1, FailEnds
  <2> QED
    BY <1>4, <2>1, <2>2
<1>5. ASSUME NEW k \in Workers, WorkerStep(k)
      PROVE  WafersInv'
  BY <1>0, <1>4, <1>5, StartIsStill, OtherDispatchIsStill, StillKeepsWafers DEF WorkerStep
<1> QED
  BY <1>0, <1>1, <1>2, <1>5, CalmKinds DEF JobsInv

LEMMA WafersInvInvariant ==
  ASSUME Calm, "cancel_wip" \notin Operations, "received" \notin ManualStatuses
  PROVE  Spec => [](LabInv /\ JobsInv /\ BatchesInv /\ WafersInv)
<1>1. LabInv => TypeInv
  BY DEF LabInv, TypeInv
<1>2. LabInv /\ JobsInv /\ BatchesInv /\ WafersInv /\ [Next]_vars =>
        (LabInv /\ JobsInv /\ BatchesInv /\ WafersInv)'
  BY <1>1, StepKeepsLabInv, StepKeepsJobs, StepKeepsBatches, StepKeepsWafers
<1> QED
  BY <1>2, InitLabInv, InitJobs, InitBatches, InitWafers, PTL DEF Spec

\* A wafer's row names the batch its experiment is in, and none otherwise: create_wip, the
\* end of a run and the failure of a run move both, and nobody else moves either, as long as
\* no batch is cancelled and no wafer is put back among the received by hand.
THEOREM WafersKnowTheirBatch ==
  ASSUME Calm, "cancel_wip" \notin Operations, "received" \notin ManualStatuses
  PROVE  Spec => []WaferKnowsItsBatch
<1>1. WafersInv => WaferKnowsItsBatch
  BY DEF WafersInv
<1> QED
  BY <1>1, WafersInvInvariant, PTL

\* The verdict on record is what the experiments of the batch carry, for every batch that was
\* run once: a wafer that left its batch before the verdict was written had failed before,
\* which takes an earlier run of the batch.
THEOREM ResultsMatchExperiments ==
  ASSUME Calm, "cancel_wip" \notin Operations, "received" \notin ManualStatuses
  PROVE  Spec => []ResultMatchesExperiments
<1>1. WafersInv => ResultMatchesExperiments
  BY DEF WafersInv
<1> QED
  BY <1>1, WafersInvInvariant, PTL

-----------------------------------------------------------------------------
(* What the pages show                                                     *)

\* The button that locks a batch never meets an empty one: nobody takes wafers out of a draft.
DraftHasWafers == \A w \in Wips : wipStatus[w] = "draft" => wipItems[w] # {}

LEMMA HandleDraftsNoBatch ==
  ASSUME TypeInv, NEW c, Handle(c), NEW w \in Wips, wipStatus'[w] = "draft"
  PROVE  wipStatus[w] = "draft"
<1> USE DEF TypeInv, LabTypeOK, TypeOK
<1>1. CASE LockWip(c.wip, c.seen) \/ CancelWip(c.wip, c.seen)
  BY <1>1 DEF LockWip, CancelWip
<1>2. CASE \/ ReceiveSample(c.sample, c.seen, c.wip, c.req)
           \/ RejectSample(c.sample, c.seen, c.req)
           \/ CancelRequest(c.request, c.seen)
           \/ CloseRequest(c.request, c.seen)
  BY <1>2 DEF ReceiveSample, RejectSample, CancelRequest, CloseRequest
<1>3. CASE \/ CancelDispatch(c.job, c.seen, c.confirmed, c.active)
           \/ \E j \in Jobs : BeginRetry(c.job, c.seen, j)
           \/ \E status \in EquipmentStatus, active \in BOOLEAN :
                UpdateEquipment(c.equip, status, c.current, active)
  BY <1>3 DEF CancelDispatch, BeginRetry, UpdateEquipment
<1> QED
  BY <1>1, <1>2, <1>3 DEF Handle

LEMMA DraftIsNew ==
  ASSUME TypeInv, [Next]_vars, NEW w \in Wips, wipStatus'[w] = "draft"
  PROVE  \/ wipStatus[w] = "draft"
         \/ \E S \in SUBSET Samples, recipe \in Recipes : CreateWip(w, S, recipe)
<1> USE DEF TypeInv, LabTypeOK, TypeOK
<1>1. CASE CallServed \/ CallHandled
  BY <1>1, HandleDraftsNoBatch DEF CallServed, CallHandled
<1>2. CASE CallLoaded \/ CallDropped \/ WorkerCrashed \/ UNCHANGED vars
  BY <1>2 DEF CallLoaded, CallDropped, WorkerCrashed, WorkerDies, PoolProcessDies, vars
<1>3. CASE BatchCreated
  <2>1. PICK v \in Wips, S \in SUBSET Samples, recipe \in Recipes : CreateWip(v, S, recipe)
    BY <1>3 DEF BatchCreated
  <2>2. v # w => wipStatus'[w] = wipStatus[w]
    BY <2>1 DEF CreateWip
  <2> QED
    BY <2>1, <2>2
<1>4. CASE DispatchBegun \/ DispatchSubmitted \/ DispatchRefused \/ DispatchCrashed
  BY <1>4 DEF DispatchBegun, BeginDispatch, DispatchSubmitted, SubmitDispatch, DispatchRefused,
     DispatchCrashed, AbortDispatch
<1>5. CASE DispatchCommitted
  BY <1>5 DEF DispatchCommitted, CommitDispatch
<1>6. CASE ResultConfirmed \/ StatusSetByHand \/ EquipmentManaged
  BY <1>6 DEF ResultConfirmed, FinalConfirm, StatusSetByHand, UpdateSampleStatus, EquipmentManaged,
     MarkMaintenance, ActivateEquipment, DeactivateEquipment
<1>7. ASSUME NEW k \in Workers, WorkerStep(k)
      PROVE  wipStatus[w] = "draft"
  <2>1. CASE StartRun(k) \/ FailRun(k)
    BY <2>1 DEF StartRun, FailRun
  <2>2. ASSUME NEW verdict \in {"pass", "fail"}, FinishRun(k, verdict)
        PROVE  wipStatus[w] = "draft"
    BY <2>2 DEF FinishRun, SyncCompletion, Outcome
  <2>3. ASSUME NEW j, TakeMessage(k, j) \/ MissDispatch(k, j) \/ Acknowledge(k)
        PROVE  wipStatus[w] = "draft"
    BY <2>3 DEF TakeMessage, MissDispatch, Acknowledge
  <2> QED
    BY <1>7, <2>1, <2>2, <2>3 DEF WorkerStep
<1> QED
  BY <1>1, <1>2, <1>3, <1>4, <1>5, <1>6, <1>7 DEF Next

LEMMA DraftKeepsWafers ==
  ASSUME TypeInv, DraftHasWafers, [Next]_vars
  PROVE  DraftHasWafers'
<1> SUFFICES ASSUME NEW w \in Wips, wipStatus'[w] = "draft" PROVE wipItems'[w] # {}
  BY DEF DraftHasWafers
<1> USE DEF TypeInv, LabTypeOK, TypeOK
<1>1. ASSUME NEW S, NEW recipe, CreateWip(w, S, recipe)
      PROVE  wipItems'[w] # {}
  BY <1>1 DEF CreateWip
<1>2. CASE wipStatus[w] = "draft"
  <2>1. ASSUME NEW v, NEW S, NEW recipe, CreateWip(v, S, recipe)
        PROVE  wipItems'[w] = wipItems[w]
    BY <1>2, <2>1 DEF CreateWip
  <2>2. ASSUME NEW o, NEW k, NEW verdict,
               CommitDispatch(o) \/ StartRun(k) \/ FinishRun(k, verdict) \/ FailRun(k)
        PROVE  wipItems' = wipItems
    BY <2>2 DEF CommitDispatch, StartRun, FinishRun, FailRun
  <2>3. wipItems'[w] = wipItems[w]
    BY <2>1, <2>2, StepKinds DEF Quiet
  <2> QED
    BY <1>2, <2>3 DEF DraftHasWafers
<1> QED
  BY <1>1, <1>2, DraftIsNew

\* In every laboratory, a page that shows the row as it is offers none of four calls to a row
\* whose status the service refuses: Abort and Exception only for a job that has not ended,
\* the final confirmation for a completed one that has none, Reject for a wafer that is not in
\* a batch, and, in the list of batches, Lock for a draft, which always has wafers.  It says
\* nothing of Record, Receive and the other buttons of a batch.
THEOREM OffersAreServed == Spec => []OfferIsServed
<1>1. Init => DraftHasWafers
  BY DEF Init, InitTables, DraftHasWafers
<1>2. TypeInv /\ DraftHasWafers => OfferIsServed
  <2> SUFFICES ASSUME TypeInv, DraftHasWafers PROVE OfferIsServed
    OBVIOUS
  <2> USE DEF TypeInv, LabTypeOK, TypeOK
  <2>1. ASSUME NEW j \in ExistingJobs, NEW o \in DispatchOffers(ShownDispatch(j)) \ {"record"}
        PROVE  DispatchServes(j, o)
    <3>1. jobStatus[j] \in DispatchStatus
      BY DEF ExistingJobs
    <3>2. /\ ShownDispatch(j).status = DispatchView(jobStatus[j])
          /\ ShownDispatch(j).confirmed = jobConfirmed[j]
      BY DEF ShownDispatch, DispatchRow
    <3>3. CASE jobStatus[j] \in TerminalDispatch
      BY <2>1, <3>2, <3>3 DEF DispatchOffers, DispatchView, DispatchServes, TerminalDispatch
    <3>4. CASE jobStatus[j] \notin TerminalDispatch
      BY <2>1, <3>1, <3>2, <3>4 DEF DispatchOffers, DispatchView, DispatchServes, TerminalDispatch, DispatchStatus
    <3> QED
      BY <3>3, <3>4
  <2>2. ASSUME NEW s \in Samples, NEW o \in WaferOffers(ShownSample(s))
        PROVE  WaferServes(s, o)
    BY <2>2 DEF WaferOffers, ShownSample, SampleRow, SampleView, WaferServes, SampleStatus
  <2>3. ASSUME NEW w \in ExistingWips, "lock" \in WipListOffers(ShownWip(w))
        PROVE  wipStatus[w] = "draft" /\ wipItems[w] # {}
    BY <2>3 DEF WipListOffers, ShownWip, WipRow, DraftHasWafers, ExistingWips
  <2> QED
    BY <2>1, <2>2, <2>3 DEF OfferIsServed
<1>3. TypeInv /\ DraftHasWafers /\ [Next]_vars => (TypeInv /\ DraftHasWafers)'
  BY DraftKeepsWafers, StepType
<1> QED
  BY <1>1, <1>2, <1>3, InitType, PTL DEF Spec

\* In every laboratory with finitely many wafers and experiments, the progress bar of a request
\* never goes back: it counts outcomes, and those are final.
THEOREM ProgressOnlyGrows ==
  ASSUME IsFiniteSet(Experiments)
  PROVE  Spec => ProgressNeverDrops
<1> DEFINE Counted(r, outcome) ==
             {x \in {y \in Experiments : RequestOf[SampleOf[y]] = r} : expStatus[x] \in {outcome}}
<1>1. ASSUME LabInv, [Next]_vars, NEW r \in Requests, NEW outcome \in {"completed", "failed"}
      PROVE  Cardinality(Counted(r, outcome)') >= Cardinality(Counted(r, outcome))
  <2>1. Counted(r, outcome) \subseteq Counted(r, outcome)' /\ IsFiniteSet(Counted(r, outcome)')
    <3>1. Counted(r, outcome) \subseteq Counted(r, outcome)'
      BY <1>1, StepKeepsLabInv DEF Finished
    <3>2. Counted(r, outcome)' \subseteq Experiments
      OBVIOUS
    <3> QED
      BY <3>1, <3>2, FS_Subset
  <2> QED
    BY <2>1, FS_Subset, FS_CardinalityType
<1>2. ASSUME LabInv, [Next]_vars, NEW r \in Requests
      PROVE  /\ ShownProgress(r)'.completed >= ShownProgress(r).completed
             /\ ShownProgress(r)'.failed >= ShownProgress(r).failed
  <2>1. /\ ShownProgress(r).completed = Cardinality(Counted(r, "completed"))
        /\ ShownProgress(r).failed = Cardinality(Counted(r, "failed"))
    BY DEF ShownProgress, Progress
  <2>2. /\ ShownProgress(r)'.completed = Cardinality(Counted(r, "completed")')
        /\ ShownProgress(r)'.failed = Cardinality(Counted(r, "failed")')
    BY DEF ShownProgress, Progress
  <2> QED
    BY <1>1, <1>2, <2>1, <2>2
<1>3. LabInv /\ [Next]_vars =>
        [\A r \in Requests : /\ ShownProgress(r)'.completed >= ShownProgress(r).completed
                             /\ ShownProgress(r)'.failed >= ShownProgress(r).failed]_vars
  BY <1>2
<1> QED
  BY <1>3, LabInvariant, PTL DEF Spec, ProgressNeverDrops

\* No request is stored as completed (only closed), and a wafer that is has nothing to wait for.
DoneInv ==
  /\ \A r \in Requests : reqStatus[r] # "completed"
  /\ \A s \in Samples : sampleStatus[s] = "completed" =>
       \A x \in ExperimentsOf(s) : expStatus[x] \in Finished

LEMMA RequestCompletes ==
  ASSUME Calm, TypeInv, JobsInv, [Next]_vars, NEW r \in Requests, reqStatus'[r] = "completed"
  PROVE  reqStatus[r] = "completed"
<1> USE DEF TypeInv, LabTypeOK, TypeOK
<1>1. CASE TableStep
  <2>1. ASSUME NEW s, NEW status, \/ ReceiveSample(s, sampleStatus[s], sampleWip[s], reqStatus[RequestOf[s]])
                                  \/ RejectSample(s, sampleStatus[s], reqStatus[RequestOf[s]])
                                  \/ UpdateSampleStatus(s, status)
        PROVE  reqStatus[r] = "completed"
    BY <2>1 DEF ReceiveSample, RejectSample, UpdateSampleStatus
  <2>2. ASSUME NEW q, CancelRequest(q, reqStatus[q]) \/ CloseRequest(q, reqStatus[q])
        PROVE  reqStatus[r] = "completed"
    BY <2>2 DEF CancelRequest, CloseRequest
  <2>3. ASSUME NEW w, NEW S, NEW recipe, \/ LockWip(w, wipStatus[w]) \/ CancelWip(w, wipStatus[w])
                                         \/ CreateWip(w, S, recipe)
        PROVE  reqStatus[r] = "completed"
    BY <2>3 DEF LockWip, CancelWip, CreateWip
  <2>4. ASSUME UNCHANGED tables \/ UNCHANGED otherTables
        PROVE  reqStatus[r] = "completed"
    BY <2>4
  <2> HIDE DEF tables, otherTables, TypeInv, LabTypeOK, TypeOK
  <2> QED
    BY <1>1, <2>1, <2>2, <2>3, <2>4 DEF TableStep
<1>2. CASE DispatchStep
  <2>1. ASSUME NEW w, NEW e, NEW i, NEW m, NEW o,
               \/ BeginDispatch(w, e, i) \/ BeginRetry(i, jobStatus[i], m)
               \/ SubmitDispatch(o) \/ AbortDispatch(o) \/ CommitDispatch(o)
        PROVE  reqStatus[r] = "completed"
    BY <2>1 DEF BeginDispatch, BeginRetry, SubmitDispatch, AbortDispatch, CommitDispatch, Update
  <2>2. ASSUME NEW i, \/ CancelDispatch(i, jobStatus[i], jobConfirmed[i], eqActive[jobEquip[i]])
                      \/ FinalConfirm(i)
        PROVE  reqStatus[r] = "completed"
    BY <2>2 DEF CancelDispatch, FinalConfirm, StatusAfterFinalCheck
  <2> QED
    BY <1>2, <2>1, <2>2 DEF DispatchStep
<1>3. ASSUME NEW k \in Workers, WorkerStep(k)
      PROVE  reqStatus[r] = "completed"
  <2>1. ASSUME NEW j, TakeMessage(k, j) \/ MissDispatch(k, j) \/ Acknowledge(k) \/ FailRun(k)
        PROVE  reqStatus[r] = "completed"
    BY <2>1 DEF TakeMessage, MissDispatch, Acknowledge, FailRun
  <2>2. CASE StartRun(k)
    BY <2>2 DEF StartRun, Update
  <2>3. ASSUME NEW verdict, FinishRun(k, verdict)
        PROVE  reqStatus[r] = "completed"
    BY <2>3 DEF FinishRun, SyncCompletion
  <2> QED
    BY <1>3, <2>1, <2>2, <2>3 DEF WorkerStep
<1> QED
  BY <1>1, <1>2, <1>3, CalmKinds DEF JobsInv

LEMMA WaferCompletes ==
  ASSUME Calm, TypeInv, JobsInv, [Next]_vars, "completed" \notin ManualStatuses,
         NEW s \in Samples, sampleStatus'[s] = "completed"
  PROVE  \/ sampleStatus[s] = "completed"
         \/ AllExperimentsComplete(RequestOf[s])
         \/ \E k \in Workers, verdict \in {"pass", "fail"} :
              FinishRun(k, verdict) /\ s \in wipItems[jobWip[task[k].job]]
<1> USE DEF TypeInv, LabTypeOK, TypeOK
<1>1. CASE TableStep
  <2>1. ASSUME NEW t, \/ ReceiveSample(t, sampleStatus[t], sampleWip[t], reqStatus[RequestOf[t]])
                      \/ RejectSample(t, sampleStatus[t], reqStatus[RequestOf[t]])
        PROVE  sampleStatus[s] = "completed"
    BY <2>1 DEF ReceiveSample, RejectSample
  <2>2. ASSUME NEW t, NEW status \in ManualStatuses, UpdateSampleStatus(t, status)
        PROVE  sampleStatus[s] = "completed"
    BY <2>2 DEF UpdateSampleStatus
  <2>3. ASSUME NEW q, CancelRequest(q, reqStatus[q])
        PROVE  sampleStatus[s] = "completed"
    BY <2>3 DEF CancelRequest
  <2>4. ASSUME NEW q, CloseRequest(q, reqStatus[q])
        PROVE  sampleStatus[s] = "completed" \/ AllExperimentsComplete(RequestOf[s])
    BY <2>4 DEF CloseRequest, Update, SamplesOf
  <2>5. ASSUME NEW w, NEW S, NEW recipe, \/ LockWip(w, wipStatus[w]) \/ CancelWip(w, wipStatus[w])
                                         \/ CreateWip(w, S, recipe)
        PROVE  sampleStatus[s] = "completed"
    BY <2>5 DEF LockWip, CancelWip, CreateWip, Update
  <2>6. ASSUME UNCHANGED tables \/ UNCHANGED otherTables
        PROVE  sampleStatus[s] = "completed"
    BY <2>6
  <2> HIDE DEF tables, otherTables, TypeInv, LabTypeOK, TypeOK
  <2> QED
    BY <1>1, <2>1, <2>2, <2>3, <2>4, <2>5, <2>6 DEF TableStep
<1>2. CASE DispatchStep
  <2>1. ASSUME NEW w, NEW e, NEW i, NEW m, NEW o,
               \/ BeginDispatch(w, e, i) \/ BeginRetry(i, jobStatus[i], m)
               \/ SubmitDispatch(o) \/ AbortDispatch(o) \/ CommitDispatch(o)
        PROVE  sampleStatus[s] = "completed"
    BY <2>1 DEF BeginDispatch, BeginRetry, SubmitDispatch, AbortDispatch, CommitDispatch, Update
  <2>2. ASSUME NEW i, \/ CancelDispatch(i, jobStatus[i], jobConfirmed[i], eqActive[jobEquip[i]])
                      \/ FinalConfirm(i)
        PROVE  sampleStatus[s] = "completed"
    BY <2>2 DEF CancelDispatch, FinalConfirm
  <2> QED
    BY <1>2, <2>1, <2>2 DEF DispatchStep
<1>3. ASSUME NEW k \in Workers, WorkerStep(k)
      PROVE  \/ sampleStatus[s] = "completed"
             \/ \E verdict \in {"pass", "fail"} :
                  FinishRun(k, verdict) /\ s \in wipItems[jobWip[task[k].job]]
  <2>1. ASSUME NEW j, TakeMessage(k, j) \/ MissDispatch(k, j) \/ Acknowledge(k)
        PROVE  sampleStatus[s] = "completed"
    BY <2>1 DEF TakeMessage, MissDispatch, Acknowledge
  <2>2. CASE StartRun(k) \/ FailRun(k)
    BY <2>2 DEF StartRun, FailRun, Update
  <2>3. ASSUME NEW verdict \in {"pass", "fail"}, FinishRun(k, verdict)
        PROVE  sampleStatus[s] = "completed" \/ s \in wipItems[jobWip[task[k].job]]
    BY <2>3 DEF FinishRun, SyncCompletion
  <2> QED
    BY <1>3, <2>1, <2>2, <2>3 DEF WorkerStep
<1> QED
  BY <1>1, <1>2, <1>3, CalmKinds DEF JobsInv

\* The run that completes a wafer finishes the one experiment the wafer has in a batch: the
\* wafer is still in the batch of the run, or it has failed before.
LEMMA RunCompletesWafer ==
  ASSUME LabInv, JobsInv, WafersInv, NEW k \in Workers, NEW verdict \in {"pass", "fail"},
         FinishRun(k, verdict), NEW s \in Samples, s \in wipItems[jobWip[task[k].job]],
         sampleStatus'[s] = "completed", NEW x \in ExperimentsOf(s)
  PROVE  expStatus'[x] \in Finished
<1> DEFINE exps == Update(expStatus, Settled(jobWip[task[k].job]), Outcome(verdict))
<1> USE DEF LabInv, LabTypeOK, TypeOK
<1>0. TypeInv /\ BatchRunsItsRecipe
  BY DEF TypeInv, ExperimentIntegrity
<1>1. PICK j \in Jobs, w \in Wips : /\ j = task[k].job /\ w = jobWip[j] /\ task[k].phase = "running"
                                    /\ s \in wipItems[w]
  BY <1>0, TaskJob DEF FinishRun
<1>2. SyncCompletion(w, verdict) /\ exps = Update(expStatus, Settled(w), Outcome(verdict))
  BY <1>1 DEF FinishRun
<1>3. \A y \in Experiments : exps[y] = IF expWip[y] = w THEN Outcome(verdict) ELSE expStatus[y]
  BY <1>0, <1>2, SettledIsBatch DEF Update
<1>4. /\ expStatus' = Update(exps, Promoted(w, verdict, exps), "ready") /\ DOMAIN exps = Experiments
      /\ sampleStatus'[s] = SampleOutcome(s, verdict, exps)
  BY <1>1, <1>2 DEF SyncCompletion, Update
<1> HIDE DEF exps
<1>5. \A y \in ExperimentsOf(s) : exps[y] # "failed" /\ exps[y] \notin Waiting
  BY <1>4 DEF SampleOutcome
<1>6. expStatus'[x] = exps[x] /\ x \in Experiments /\ SampleOf[x] = s
  BY <1>4, <1>5 DEF Update, Promoted, ExperimentsOf, Waiting
<1>7. CASE expWip[x] = w
  BY <1>3, <1>6, <1>7 DEF Outcome, Finished
<1>8. CASE expWip[x] # w
  <2>1. exps[x] = expStatus[x]
    BY <1>3, <1>6, <1>8
  <2>2. ~HasFailed(s)
    <3>1. \A y \in ExperimentsOf(s) : expStatus[y] = "failed" => expWip[y] # w
      BY <1>1, BatchedIsActive DEF ExperimentsOf, Active
    <3> QED
      BY <1>3, <1>5, <3>1 DEF HasFailed, ExperimentsOf
  <2>3. sampleWip[s] = w
    BY <1>1, <2>2 DEF WafersInv, BatchHoldsWafers, Outstanding, Amid
  <2>4. PICK y \in ExperimentsOf(s) : expWip[y] = w
    BY <2>3, WaferAgrees DEF WafersInv
  <2>5. expStatus[y] \in Active /\ y # x
    BY <1>8, <2>4, BatchedIsActive DEF ExperimentsOf
  <2>6. expStatus[x] \notin Active
    BY <1>6, <2>4, <2>5 DEF ExperimentIntegrity, OneExperimentPerWafer, ExperimentsOf
  <2> QED
    BY <1>5, <1>6, <2>1, <2>6 DEF Active, Waiting, Finished, ExperimentStatus
<1> QED
  BY <1>7, <1>8

LEMMA StepKeepsDone ==
  ASSUME Calm, "completed" \notin ManualStatuses,
         LabInv, JobsInv, WafersInv, DoneInv, [Next]_vars
  PROVE  DoneInv'
<1>1. TypeInv
  BY DEF LabInv, TypeInv
<1>2. ASSUME NEW s \in Samples, sampleStatus'[s] = "completed", NEW x \in ExperimentsOf(s)
      PROVE  expStatus'[x] \in Finished
  <2>1. expStatus[x] \in Finished => expStatus'[x] \in Finished
    BY StepKeepsLabInv DEF ExperimentsOf
  <2>2. CASE sampleStatus[s] = "completed"
    BY <2>1, <2>2 DEF DoneInv
  <2>3. CASE AllExperimentsComplete(RequestOf[s])
    BY <2>1, <2>3 DEF AllExperimentsComplete, ExperimentsOf, Finished
  <2> QED
    BY <1>1, <1>2, <2>2, <2>3, WaferCompletes, RunCompletesWafer
<1>3. \A r \in Requests : reqStatus'[r] # "completed"
  BY <1>1, RequestCompletes DEF DoneInv
<1> QED
  BY <1>2, <1>3 DEF DoneInv, ExperimentsOf

\* A wafer that some page shows as done waits for none of its experiments, as long as no batch
\* is cancelled and nobody sets a wafer to received or completed by hand.
THEOREM ShownDoneIsDone ==
  ASSUME Calm, "cancel_wip" \notin Operations, ManualStatuses \cap {"received", "completed"} = {}
  PROVE  Spec => []DoneMeansDone
<1>1. Init => DoneInv
  BY DEF Init, InitTables, DoneInv
<1>2. LabInv /\ DoneInv => DoneMeansDone
  <2> SUFFICES ASSUME LabInv, DoneInv, NEW s \in Samples, NEW x \in ExperimentsOf(s),
                      expStatus[x] \notin Finished,
                      NEW r, r = RequestOf[s],
                      \/ phaseIndexFor(ShownSample(s), ShownRequest(r)) = 4
                      \/ stepFromRequest(ShownRequest(r)) = 3
                      \/ ActivityVerb[ActivityOf({reqStatus[r]}, ShownRequest(r))] = "Completed"
                      \/ WaferStage(ShownSample(s)) = 3
               PROVE  FALSE
    BY DEF DoneMeansDone
  <2>1. x \in Experiments /\ SampleOf[x] = s /\ r \in Requests /\ s \in SamplesOf(r)
    BY ForeignKeysAssumption DEF ExperimentsOf, SamplesOf
  <2>2. reqStatus[r] \notin {"completed", "closed"} /\ sampleStatus[s] # "completed"
    BY <2>1 DEF DoneInv, LabInv, ClosedRequestIsDone
  <2>3. /\ ShownRequest(r).status = RequestView(reqStatus[r]) /\ ShownRequest(r).raw = reqStatus[r]
        /\ ShownRequest(r).samples = {ShownSample(t) : t \in SamplesOf(r)}
    BY DEF ShownRequest, RequestRow
  <2>4. ShownSample(s).status = SampleView(sampleStatus[s])
    BY DEF ShownSample, SampleRow
  <2>5. SampleView(sampleStatus[s]) # "completed"
    BY <2>2 DEF SampleView
  <2>6. RequestView(reqStatus[r]) \notin {"completed", "closed"}
    BY <2>2 DEF RequestView
  <2>7. phaseIndexFor(ShownSample(s), ShownRequest(r)) # 4
    BY <2>3, <2>4, <2>5, <2>6 DEF phaseIndexFor
  <2>8. stepFromRequest(ShownRequest(r)) # 3
    BY <2>1, <2>2, <2>3, <2>4, <2>5 DEF stepFromRequest, Aborted, AwaitingApproval
  <2>9. ActivityVerb[ActivityOf({reqStatus[r]}, ShownRequest(r))] # "Completed"
    BY <2>2, <2>3, <2>6 DEF ActivityOf, ActivityVerb
  <2>10. WaferStage(ShownSample(s)) # 3
    BY <2>4, <2>5 DEF WaferStage
  <2> QED
    BY <2>7, <2>8, <2>9, <2>10
<1>3. LabInv /\ JobsInv /\ BatchesInv /\ WafersInv /\ DoneInv /\ [Next]_vars => DoneInv'
  BY StepKeepsDone
<1>4. "received" \notin ManualStatuses
  OBVIOUS
<1>5. Spec => [](LabInv /\ JobsInv /\ BatchesInv /\ WafersInv)
  BY <1>4, WafersInvInvariant
<1> QED
  BY <1>1, <1>2, <1>3, <1>5, PTL DEF Spec
=============================================================================
