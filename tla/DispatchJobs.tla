---------------------------- MODULE DispatchJobs ---------------------------
(***************************************************************************)
(* Dispatch jobs (apps/dispatch): a locked batch is given a machine and a   *)
(* Celery message, a worker runs the job and writes the outcome back to     *)
(* every table, a lab user confirms the result.                             *)
(*                                                                          *)
(* create_dispatch is three steps here: BeginDispatch locks the batch and   *)
(* chooses a machine it does not lock, SubmitDispatch inserts the job and    *)
(* hands its message to the broker, CommitDispatch makes the rows visible.  *)
(* A worker task is one step per transaction; a Celery message stays with   *)
(* the broker until the task returns (CELERY_TASK_ACKS_LATE) and is          *)
(* delivered again when its worker dies.                                    *)
(***************************************************************************)
EXTENDS LabData

CONSTANTS
  Workers,       \* Celery worker processes
  BrokerMayFail  \* whether apply_async may fail (its exception is swallowed)

ASSUME BrokerAssumption == BrokerMayFail \in BOOLEAN

VARIABLES
  broker,   \* the message of a job: "none", "ready", "held" (unacknowledged), "acked"
  opening,  \* create_dispatch transactions that have not committed
  task      \* what each worker process is doing

environment == <<broker, opening, task>>

NoTask == [phase |-> "idle", job |-> None, confirmed |-> FALSE, active |-> FALSE]

Task ==
  [phase : {"idle", "loaded", "running", "reporting", "returning"}, job : Jobs \cup {None},
   confirmed : BOOLEAN, active : BOOLEAN]
Opening == [job : Jobs, wip : Wips, equip : Equipment, retryOf : Jobs \cup {None}, sent : BOOLEAN]

EnvironmentTypeOK ==
  /\ broker \in [Jobs -> {"none", "ready", "held", "acked"}]
  /\ opening \subseteq Opening
  /\ task \in [Workers -> Task]

InitEnvironment ==
  /\ broker = [j \in Jobs |-> "none"]
  /\ opening = {}
  /\ task = [k \in Workers |-> NoTask]

TerminalDispatch == {"completed", "failed", "cancelled"}

\* Defect variants: retry also accepts a completed job, or one that is still queued.
RetryableOrCompleted == {"failed", "completed"}
RetryableOrQueued == {"failed", "queued"}

\* What retry_dispatch accepts.
Retryable == {"failed"}

\* create_dispatch holds its WIP row (select_for_update), retry_dispatch its job row too:
\* another transaction that writes the row waits for the commit.
WipLocked(w) == \E o \in opening : o.wip = w
JobLocked(j) == \E o \in opening : o.retryOf = j

-----------------------------------------------------------------------------
(* create_dispatch and retry_dispatch                                      *)

\* Defect variant: the filter on the machine's status is missing.
AnyActiveEquipment(recipe) == {e \in Capable[recipe] : eqActive[e]}

\* _choose_equipment reads without a lock.
IdleEquipment(recipe) == {e \in Capable[recipe] : eqActive[e] /\ eqStatus[e] = "idle"}

\* The identifier a new job row will take.
FreeJob(j) == jobStatus[j] = "absent" /\ broker[j] = "none" /\ \A o \in opening : o.job # j

BeginDispatch(w, e, j) ==
  /\ wipStatus[w] = "ready_for_dispatch" /\ ~WipLocked(w)
  /\ wipItems[w] # {}
  /\ e \in IdleEquipment(wipRecipe[w])
  /\ FreeJob(j)
  /\ opening' = opening \cup {[job |-> j, wip |-> w, equip |-> e, retryOf |-> None, sent |-> FALSE]}
  /\ UNCHANGED <<tables, broker, task>>

\* retry_dispatch of the failed job j0: it puts the batch back to READY_FOR_DISPATCH and
\* the machine back to IDLE, then opens a dispatch of the batch on the same machine.
BeginRetry(j0, seen, j) ==
  LET w == jobWip[j0]
      e == jobEquip[j0]
  IN  /\ seen \in Retryable
      /\ ~WipLocked(w)
      /\ wipItems[w] # {}
      /\ eqActive[e]
      /\ e \in Capable[wipRecipe[w]]
      /\ FreeJob(j)
      /\ opening' = opening \cup {[job |-> j, wip |-> w, equip |-> e, retryOf |-> j0, sent |-> FALSE]}
      /\ UNCHANGED <<tables, broker, task>>

\* The job is inserted and apply_async called.  dispatch_no is unique and counted from the
\* committed rows: a second insert waits for the first transaction that holds the number.
SubmitDispatch(o) ==
  /\ o \in opening /\ ~o.sent
  /\ \A p \in opening : ~p.sent
  /\ opening' = (opening \ {o}) \cup {[o EXCEPT !.sent = TRUE]}
  /\ \/ broker' = [broker EXCEPT ![o.job] = "ready"]
     \/ BrokerMayFail /\ UNCHANGED broker
  /\ UNCHANGED <<tables, task>>

\* The rows create_dispatch writes: the job, the machine (a full save of the row it read
\* as active), the samples, the requests, and mark_wip_dispatched.
CommitDispatch(o) ==
  /\ o \in opening /\ o.sent
  /\ opening' = opening \ {o}
  /\ jobStatus' = [j \in Jobs |-> IF j = o.job THEN "queued"
                                 ELSE IF j = o.retryOf THEN "retrying"
                                 ELSE jobStatus[j]]
  /\ jobWip' = [jobWip EXCEPT ![o.job] = o.wip]
  /\ jobEquip' = [jobEquip EXCEPT ![o.job] = o.equip]
  /\ eqStatus' = [eqStatus EXCEPT ![o.equip] = "working"]
  /\ eqCurrent' = [eqCurrent EXCEPT ![o.equip] = o.job]
  /\ eqActive' = [eqActive EXCEPT ![o.equip] = TRUE]
  /\ sampleStatus' = Update(sampleStatus, wipItems[o.wip], "queued")
  /\ reqStatus' = Update(reqStatus, RequestsIn(wipItems[o.wip]), "queued")
  /\ wipStatus' = [wipStatus EXCEPT ![o.wip] = "dispatching"]
  /\ expStatus' = Update(expStatus, {x \in Experiments : expWip[x] = o.wip}, "running")
  /\ UNCHANGED <<sampleWip, expWip, wipItems, wipRecipe, jobConfirmed, jobResult,
                 broker, task>>

\* The transaction rolls back: the insert is refused (the number is taken), or the process
\* dies.  A message that was handed to the broker stays there.
AbortDispatch(o) ==
  /\ o \in opening
  /\ opening' = opening \ {o}
  /\ UNCHANGED <<tables, broker, task>>

-----------------------------------------------------------------------------
(* cancel_dispatch and final_confirm_dispatch                              *)

\* cancel_dispatch saves the loaded job row and the loaded machine row in full; the Celery
\* task is not revoked and the batch is not touched.
CancelDispatch(j, seen, seenConfirmed, seenActive) ==
  /\ seen \notin TerminalDispatch
  /\ ~JobLocked(j)
  /\ jobStatus' = [jobStatus EXCEPT ![j] = "cancelled"]
  /\ jobConfirmed' = [jobConfirmed EXCEPT ![j] = seenConfirmed]
  /\ eqStatus' = [eqStatus EXCEPT ![jobEquip[j]] = "idle"]
  /\ eqCurrent' = [eqCurrent EXCEPT ![jobEquip[j]] = None]
  /\ eqActive' = [eqActive EXCEPT ![jobEquip[j]] = seenActive]
  /\ UNCHANGED <<requestTable, sampleTable, experimentTable, wipTable, jobWip, jobEquip,
                 jobResult, environment>>

\* Defect variant: experiments that wait for a batch are not counted as open.
StartedExperiments(r) ==
  {x \in Experiments : RequestOf[SampleOf[x]] = r /\ expStatus[x] \in Active}

OpenExperiments(r) ==
  {x \in Experiments : RequestOf[SampleOf[x]] = r /\ expStatus[x] \in Waiting \cup Active}

\* _sync_request_after_final_check; `confirmed' is the column as this transaction sees it.
StatusAfterFinalCheck(r, confirmed) ==
  LET statuses == {sampleStatus[s] : s \in SamplesOf(r)}
  IN  IF "running" \in statuses THEN "running"
      ELSE IF "queued" \in statuses THEN "queued"
      ELSE IF "in_wip" \in statuses THEN "in_wip"
      ELSE IF OpenExperiments(r) # {} \/ ~(statuses \subseteq {"completed", "failed"}) THEN "received"
      ELSE IF \E j \in ExistingJobs : /\ jobStatus[j] = "completed" /\ ~confirmed[j]
                                      /\ r \in RequestsIn(wipItems[jobWip[j]])
        THEN "final_check"
      ELSE "closed"

FinalConfirm(j) ==
  /\ jobStatus[j] = "completed" /\ ~JobLocked(j)
  /\ ~jobConfirmed[j]
  /\ jobConfirmed' = [jobConfirmed EXCEPT ![j] = TRUE]
  /\ reqStatus' = [r \in Requests |->
       IF r \in RequestsIn(wipItems[jobWip[j]])
         THEN StatusAfterFinalCheck(r, jobConfirmed') ELSE reqStatus[r]]
  /\ UNCHANGED <<sampleTable, experimentTable, wipTable, jobStatus, jobWip, jobEquip,
                 jobResult, equipmentTable, environment>>
=============================================================================
