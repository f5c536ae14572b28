--------------------------- MODULE DispatchTasks ---------------------------
(***************************************************************************)
(* run_dispatch_job, the Celery task of apps/dispatch/tasks.py, with        *)
(* sync_request_completion, the part of the services it calls.  The         *)
(* simulation loop between the two transactions only moves the progress     *)
(* columns, which nothing here reads.                                       *)
(***************************************************************************)
EXTENDS DispatchJobs

CONSTANTS
  ReportMayFail,  \* whether the calls after the completion's commit (log, notify) may raise
  PoolMayDie      \* whether a child of the worker's prefork pool may be killed on its own

ASSUME FaultsAssumption == ReportMayFail \in BOOLEAN /\ PoolMayDie \in BOOLEAN

\* A worker takes a message and loads the job and its machine.  `confirmed' and `active'
\* are the loaded columns that a later full save writes back.
TakeMessage(k, j) ==
  /\ task[k].phase = "idle"
  /\ broker[j] = "ready"
  /\ jobStatus[j] # "absent"
  /\ broker' = [broker EXCEPT ![j] = "held"]
  /\ task' = [task EXCEPT ![k] = [phase |-> "loaded", job |-> j, confirmed |-> jobConfirmed[j],
                                  active |-> eqActive[jobEquip[j]]]]
  /\ UNCHANGED <<tables, opening>>

\* Defect variant: the row is missed whether it is visible or not.
MissAnyDispatch(k, j) ==
  /\ task[k].phase = "idle"
  /\ broker[j] = "ready"
  /\ broker' = [broker EXCEPT ![j] = "acked"]
  /\ UNCHANGED <<tables, opening, task>>

\* The row is not visible (its transaction has not committed, or rolled back): get()
\* raises outside the task's try block, the task fails and its message is gone.
MissDispatch(k, j) ==
  /\ task[k].phase = "idle"
  /\ broker[j] = "ready"
  /\ jobStatus[j] = "absent"
  /\ broker' = [broker EXCEPT ![j] = "acked"]
  /\ UNCHANGED <<tables, opening, task>>

\* The first transaction.  Nothing is re-read: the loaded rows are saved whatever the job
\* has become in the meantime.
StartRun(k) ==
  LET j == task[k].job
      w == jobWip[j]
      e == jobEquip[j]
  IN  /\ task[k].phase = "loaded"
      /\ ~WipLocked(w) /\ ~JobLocked(j)
      /\ task' = [task EXCEPT ![k].phase = "running"]
      /\ jobStatus' = [jobStatus EXCEPT ![j] = "running"]
      /\ jobConfirmed' = [jobConfirmed EXCEPT ![j] = task[k].confirmed]
      /\ wipStatus' = [wipStatus EXCEPT ![w] = "running"]
      /\ sampleStatus' = Update(sampleStatus, wipItems[w], "running")
      /\ expStatus' = Update(expStatus,
                        {x \in Experiments : SampleOf[x] \in wipItems[w] /\ expWip[x] = w}, "running")
      /\ reqStatus' = Update(reqStatus, RequestsIn(wipItems[w]), "running")
      /\ eqStatus' = [eqStatus EXCEPT ![e] = "working"]
      /\ eqCurrent' = [eqCurrent EXCEPT ![e] = j]
      /\ eqActive' = [eqActive EXCEPT ![e] = task[k].active]
      /\ UNCHANGED <<sampleWip, expWip, wipItems, wipRecipe, jobWip, jobEquip, jobResult,
                     broker, opening>>

-----------------------------------------------------------------------------
(* sync_request_completion(w, verdict)                                     *)

\* Defect variants: the update's filter also asks for IN_WIP; or forgets current_wip.
SettledIfInWip(w) ==
  {x \in Experiments : SampleOf[x] \in wipItems[w] /\ expWip[x] = w /\ expStatus[x] = "in_wip"}
SettledWholeWafer(w) == {x \in Experiments : SampleOf[x] \in wipItems[w]}

\* The batch's experiments take the verdict and leave the batch.
Settled(w) == {x \in Experiments : SampleOf[x] \in wipItems[w] /\ expWip[x] = w}

\* Defect variant: the verdict is ignored.
OutcomeIgnoresVerdict(verdict) == "completed"

Outcome(verdict) == IF verdict = "pass" THEN "completed" ELSE "failed"

SampleOutcome(s, verdict, exps) ==
  IF verdict # "pass" \/ \E x \in ExperimentsOf(s) : exps[x] = "failed" THEN "failed"
  ELSE IF \E x \in ExperimentsOf(s) : exps[x] \in Waiting THEN "received"
  ELSE "completed"

\* The pending experiment with the lowest sequence of each wafer that goes on.
Promoted(w, verdict, exps) ==
  {x \in Experiments :
     /\ SampleOf[x] \in wipItems[w]
     /\ SampleOutcome(SampleOf[x], verdict, exps) = "received"
     /\ exps[x] = "pending"
     /\ \A y \in ExperimentsOf(SampleOf[x]) : exps[y] = "pending" => SeqNo[x] <= SeqNo[y]}

SyncCompletion(w, verdict) ==
  LET exps == Update(expStatus, Settled(w), Outcome(verdict))
  IN  /\ expStatus' = Update(exps, Promoted(w, verdict, exps), "ready")
      /\ expWip' = Update(expWip, Settled(w), None)
      /\ sampleStatus' = [s \in Samples |->
           IF s \in wipItems[w] THEN SampleOutcome(s, verdict, exps) ELSE sampleStatus[s]]
      /\ sampleWip' = Update(sampleWip, wipItems[w], None)
      /\ IF \A j \in JobsOf(w) : jobStatus'[j] = "completed"
           THEN ~WipLocked(w) /\ wipStatus' = [wipStatus EXCEPT ![w] = Outcome(verdict)]
           ELSE UNCHANGED wipStatus
      /\ reqStatus' = [r \in Requests |->
           IF r \notin RequestsIn(wipItems[w]) THEN reqStatus[r]
           ELSE IF \A s \in SamplesOf(r) : sampleStatus'[s] \in {"completed", "failed"} THEN "final_check"
           ELSE IF \E s \in SamplesOf(r) : sampleStatus'[s] = "received" THEN "received"
           ELSE reqStatus[r]]

\* The second transaction: the result is stored, the job completes, the machine is freed.
FinishRun(k, verdict) ==
  LET j == task[k].job
      w == jobWip[j]
      e == jobEquip[j]
  IN  /\ task[k].phase = "running"
      /\ ~JobLocked(j)
      /\ task' = [task EXCEPT ![k].phase = "reporting"]
      /\ jobStatus' = [jobStatus EXCEPT ![j] = "completed"]
      /\ jobResult' = [jobResult EXCEPT ![j] = verdict]
      /\ eqStatus' = [eqStatus EXCEPT ![e] = "idle"]
      /\ eqCurrent' = [eqCurrent EXCEPT ![e] = None]
      /\ SyncCompletion(w, verdict)
      /\ UNCHANGED <<wipItems, wipRecipe, jobWip, jobEquip, jobConfirmed, eqActive, broker, opening>>

\* The except branch: an equipment fault, an error of either transaction, or an error of
\* the log and notification calls that follow the second one inside the same try.
FailRun(k) ==
  LET j == task[k].job
      w == jobWip[j]
      e == jobEquip[j]
      lost == {x \in Experiments : expWip[x] = w}
  IN  /\ \/ task[k].phase \in {"loaded", "running"}
         \/ task[k].phase = "reporting" /\ ReportMayFail
      /\ ~WipLocked(w) /\ ~JobLocked(j)
      /\ task' = [task EXCEPT ![k].phase = "returning"]
      /\ jobStatus' = [jobStatus EXCEPT ![j] = "failed"]
      /\ eqStatus' = [eqStatus EXCEPT ![e] = "faulty"]
      /\ eqCurrent' = [eqCurrent EXCEPT ![e] = None]
      /\ wipStatus' = [wipStatus EXCEPT ![w] = "failed"]
      /\ expStatus' = Update(expStatus, lost, "failed")
      /\ expWip' = Update(expWip, lost, None)
      /\ sampleStatus' = Update(sampleStatus, wipItems[w], "failed")
      /\ sampleWip' = Update(sampleWip, wipItems[w], None)
      /\ UNCHANGED <<requestTable, wipItems, wipRecipe, jobWip, jobEquip, jobConfirmed,
                     jobResult, eqActive, broker, opening>>

\* The task returns and Celery acknowledges its message.
Acknowledge(k) ==
  /\ task[k].phase \in {"reporting", "returning"}
  /\ broker' = [broker EXCEPT ![task[k].job] = "acked"]
  /\ task' = [task EXCEPT ![k] = NoTask]
  /\ UNCHANGED <<tables, opening>>

\* The process that runs the task is killed and the rest of the worker lives:
\* task_reject_on_worker_lost is not set, so Celery acknowledges the message.
PoolProcessDies(k) ==
  /\ task[k].phase # "idle"
  /\ broker' = [broker EXCEPT ![task[k].job] = "acked"]
  /\ task' = [task EXCEPT ![k] = NoTask]
  /\ UNCHANGED <<tables, opening>>

\* The whole worker dies, anywhere in the task; the broker delivers the message again.
WorkerDies(k) ==
  /\ task[k].phase # "idle"
  /\ broker' = [broker EXCEPT ![task[k].job] = "ready"]
  /\ task' = [task EXCEPT ![k] = NoTask]
  /\ UNCHANGED <<tables, opening>>
=============================================================================
