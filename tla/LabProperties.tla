--------------------------- MODULE LabProperties ---------------------------
(***************************************************************************)
(* What the laboratory workflow must keep true.  The first group holds in   *)
(* every instance: with stale reads, crashes and redelivered messages.  The *)
(* second holds when calls are served one at a time and nothing dies; each  *)
(* of its properties names the locking or ordering the code leaves out.     *)
(***************************************************************************)
EXTENDS LabWorkflow

LabTypeOK == TypeOK /\ EnvironmentTypeOK /\ calls \subseteq Call /\ crashes \in 0..MaxCrashes

-----------------------------------------------------------------------------
(* Whatever the interleaving                                               *)

\* An experiment has a current WIP exactly while it is IN_WIP or RUNNING: every writer of
\* one column writes the other, a redelivered or cancelled run included.
ActiveIffBatched == \A x \in Experiments : expStatus[x] \in Active <=> expWip[x] # None

\* An experiment in a batch belongs to a wafer of that batch and is the one its recipe runs.
BatchRunsItsRecipe ==
  \A x \in Experiments : expWip[x] # None =>
    /\ SampleOf[x] \in wipItems[expWip[x]]
    /\ RecipeOf[x] = wipRecipe[expWip[x]]
    /\ wipStatus[expWip[x]] # "absent"

\* A wafer is in at most one batch at a time, for one experiment: the row locks that
\* create_wip takes on the wafer and its experiments are enough.
OneExperimentPerWafer ==
  \A x, y \in Experiments :
    SampleOf[x] = SampleOf[y] /\ expStatus[x] \in Active /\ expStatus[y] \in Active => x = y

\* A wafer's experiments are done in the order they were asked for.
InSequence ==
  \A x, y \in Experiments :
    /\ SampleOf[x] = SampleOf[y] /\ SeqNo[y] < SeqNo[x]
    /\ expStatus[x] \in Active \cup {"completed", "failed"}
    => expStatus[y] \in Finished

ExperimentIntegrity ==
  ActiveIffBatched /\ BatchRunsItsRecipe /\ OneExperimentPerWafer /\ InSequence

\* An experiment that completed or failed keeps its outcome: a message delivered twice, a
\* retry or a cancelled job that runs on does not rewrite it.
OutcomeIsFinal ==
  [][\A x \in Experiments : expStatus[x] \in Finished => expStatus'[x] = expStatus[x]]_vars

\* A job that completed or failed left no experiment of its batch behind.
EndedJobSettledItsBatch ==
  \A j \in Jobs, x \in Experiments :
    jobStatus[j] \in {"completed", "failed"} => expWip[x] # jobWip[j] \/ expWip[x] = None

\* A closed request has no experiment left to do, and none is ever opened again.
ClosedRequestIsDone ==
  \A x \in Experiments : reqStatus[RequestOf[SampleOf[x]]] = "closed" => expStatus[x] \in Finished

\* The confirmation of a completed job stands while no retry has opened a dispatch over it.
Stands(j) == jobStatus[j] = "completed" /\ jobConfirmed[j] /\ ~JobLocked(j)

\* A confirmation that stands falls only to a call that was loaded before the job completed
\* (its service trusts the loaded status), or to a task that is still on the job: a message
\* that was delivered again, or the failure transaction after a call that reports failed.
\* No call that loaded the job as it is cancels or retries it.
ConfirmationIsFinal ==
  [][\A j \in Jobs : Stands(j) /\ ~Stands(j)' =>
       \/ \E c \in calls \ calls' :
            c.op \in {"cancel_dispatch", "retry_dispatch"} /\ c.job = j /\ c.seen # "completed"
       \/ \E k \in Workers : task[k].phase # "idle" /\ task[k].job = j]_vars

\* Every foreign key that a job, a transaction, a task or a call in flight relies on names
\* a row that exists: rows are created before they are referred to and never deleted.
CallRowExists(c) ==
  /\ c.op \in {"cancel_dispatch", "retry_dispatch"} => jobStatus[c.job] # "absent"
  /\ c.op \in {"lock_wip", "cancel_wip"} => wipStatus[c.wip] # "absent"

JobRowsExist ==
  \A j \in Jobs : jobStatus[j] # "absent" =>
    jobWip[j] \in Wips /\ wipStatus[jobWip[j]] # "absent" /\ jobEquip[j] \in Equipment
OpeningRowsExist ==
  \A o \in opening :
    wipStatus[o.wip] # "absent" /\ (o.retryOf # None => jobStatus[o.retryOf] # "absent")
TaskRowsExist ==
  \A k \in Workers : task[k].phase # "idle" =>
    task[k].job \in Jobs /\ jobStatus[task[k].job] # "absent"

RowsExist ==
  JobRowsExist /\ OpeningRowsExist /\ TaskRowsExist /\ \A c \in calls : CallRowExists(c)

\* The inductive invariant of the proofs.
LabInv ==
  LabTypeOK /\ RowsExist /\ ExperimentIntegrity /\ EndedJobSettledItsBatch /\ ClosedRequestIsDone

\* The workflow keeps the promise of ExperimentLifecycle.
Lifecycle == INSTANCE ExperimentLifecycle WITH status <- expStatus, batch <- expWip
KeepsLifecycle == Lifecycle!Spec

-----------------------------------------------------------------------------
(* With calls served one at a time and no crash                            *)

Live == {"queued", "running"}

\* Two live jobs never share a machine, and a machine knows its live job.
MachineRunsOneJob ==
  /\ \A j, k \in Jobs :
       jobStatus[j] \in Live /\ jobStatus[k] \in Live /\ jobEquip[j] = jobEquip[k] => j = k
  /\ \A j \in Jobs : jobStatus[j] \in Live =>
       eqStatus[jobEquip[j]] = "working" /\ eqCurrent[jobEquip[j]] = j

\* A batch has at most one live job, and only a batch that is out has one.
BatchHasOneLiveJob ==
  \A j, k \in Jobs :
    jobStatus[j] \in Live /\ jobWip[k] = jobWip[j] =>
      /\ jobStatus[k] \in Live => j = k
      /\ wipStatus[jobWip[j]] = (IF jobStatus[j] = "queued" THEN "dispatching" ELSE "running")

\* A wafer points at the batch its experiment is in, and at none otherwise.
WaferKnowsItsBatch ==
  \A s \in Samples :
    {sampleWip[s]} \ {None} = {expWip[x] : x \in ExperimentsOf(s)} \ {None}

\* No experiment waits for a batch that will not run any more.
NoExperimentInADeadBatch ==
  \A x \in Experiments : expWip[x] # None =>
    wipStatus[expWip[x]] \notin {"completed", "failed", "cancelled"}

\* The verdict on record is the one the batch's experiments carry, unless the batch was
\* run more than once: a retry finds its experiments failed already.
ResultMatchesExperiments ==
  \A j \in Jobs : jobStatus[j] = "completed" /\ JobsOf(jobWip[j]) = {j} =>
    \A s \in wipItems[jobWip[j]] : \E x \in ExperimentsOf(s) :
      /\ RecipeOf[x] = wipRecipe[jobWip[j]]
      /\ expStatus[x] = IF jobResult[j] = "pass" THEN "completed" ELSE "failed"

-----------------------------------------------------------------------------
(* Liveness.  Celery keeps a worker taking and finishing tasks, and a       *)
(* create_dispatch transaction goes on to its commit unless it is refused   *)
(* or its process dies.  Nothing is assumed of users.                       *)

Fairness ==
  /\ \A k \in Workers : WF_vars(WorkerStep(k))
  /\ WF_vars(DispatchSubmitted) /\ WF_vars(DispatchCommitted)

FairSpec == Spec /\ Fairness

\* A job that started running ends, even when its worker dies: the message is
\* acknowledged only when the task returns, so another worker runs it again.
RunningJobEnds == \A j \in Jobs : jobStatus[j] = "running" ~> jobStatus[j] # "running"

\* A queued job whose message is still with the broker is run to an end.
VisibleMessageIsServed ==
  \A j \in Jobs : jobStatus[j] = "queued" /\ broker[j] = "ready"
                   ~> jobStatus[j] \in TerminalDispatch \cup {"retrying"}

=============================================================================
