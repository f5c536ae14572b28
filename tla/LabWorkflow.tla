---------------------------- MODULE LabWorkflow ----------------------------
(***************************************************************************)
(* The laboratory workflow: commissions, WIP batches, dispatch, workers and *)
(* equipment over the same tables, driven by users and Celery workers.      *)
(*                                                                          *)
(* An endpoint loads its row and then calls a service that trusts the row   *)
(* in its guards.  A call is therefore the record of what was loaded; it is *)
(* either served with nothing in between (CallServed) or kept in flight     *)
(* while others run (CallLoaded, then CallHandled).                         *)
(***************************************************************************)
EXTENDS Commissions, WipBatches, DispatchTasks, EquipmentAdmin

CONSTANTS
  Operations,      \* the endpoints users call in this instance
  ManualStatuses,  \* the statuses lab users set by hand
  MaxCalls,        \* bound on calls in flight at once
  MaxOpening,      \* bound on create_dispatch transactions open at once
  MaxCrashes       \* bound on process deaths (workers and API processes)

ASSUME BoundsAssumption ==
  /\ MaxCalls \in Nat /\ MaxOpening \in Nat /\ MaxCrashes \in Nat
  /\ ManualStatuses \subseteq SampleStatus

VARIABLES
  calls,    \* calls in flight
  crashes   \* process deaths so far

vars == <<tables, environment, calls, crashes>>

-----------------------------------------------------------------------------
(* Calls: the rows the endpoints load                                      *)

RequestCall == [op : {"cancel_request", "close_request"}, request : Requests, seen : RequestStatus]
SampleCall  == [op : {"receive_sample", "reject_sample"}, sample : Samples, seen : SampleStatus,
                wip : Wips \cup {None}, req : RequestStatus]
WipCall     == [op : {"lock_wip", "cancel_wip"}, wip : Wips, seen : WipStatus]
JobCall     == [op : {"cancel_dispatch", "retry_dispatch"}, job : Jobs, seen : DispatchStatus,
                confirmed : BOOLEAN, active : BOOLEAN]
EquipCall   == [op : {"update_equipment"}, equip : Equipment, current : Jobs \cup {None}]
Call == RequestCall \cup SampleCall \cup WipCall \cup JobCall \cup EquipCall

Called(ops) == ops \cap Operations

\* What each endpoint would load now.
Loadable ==
  {[op |-> o, request |-> r, seen |-> reqStatus[r]] :
      o \in Called({"cancel_request", "close_request"}), r \in Requests}
  \cup
  {[op |-> o, sample |-> s, seen |-> sampleStatus[s], wip |-> sampleWip[s],
    req |-> reqStatus[RequestOf[s]]] :
      o \in Called({"receive_sample", "reject_sample"}), s \in Samples}
  \cup
  {[op |-> o, wip |-> w, seen |-> wipStatus[w]] :
      o \in Called({"lock_wip", "cancel_wip"}), w \in ExistingWips}
  \cup
  {[op |-> o, job |-> j, seen |-> jobStatus[j], confirmed |-> jobConfirmed[j],
    active |-> eqActive[jobEquip[j]]] :
      o \in Called({"cancel_dispatch", "retry_dispatch"}), j \in ExistingJobs}
  \cup
  {[op |-> o, equip |-> e, current |-> eqCurrent[e]] :
      o \in Called({"update_equipment"}), e \in Equipment}

\* The service acts on the loaded row.  A WIP row that a create_dispatch holds is waited for.
Handle(c) ==
  \/ /\ c.op = "receive_sample" /\ ReceiveSample(c.sample, c.seen, c.wip, c.req)
     /\ UNCHANGED environment
  \/ /\ c.op = "reject_sample" /\ RejectSample(c.sample, c.seen, c.req)
     /\ UNCHANGED environment
  \/ c.op = "cancel_request" /\ CancelRequest(c.request, c.seen) /\ UNCHANGED environment
  \/ c.op = "close_request" /\ CloseRequest(c.request, c.seen) /\ UNCHANGED environment
  \/ /\ c.op = "lock_wip" /\ ~WipLocked(c.wip) /\ LockWip(c.wip, c.seen)
     /\ UNCHANGED environment
  \/ /\ c.op = "cancel_wip" /\ (c.seen = "cancelled" \/ ~WipLocked(c.wip)) /\ CancelWip(c.wip, c.seen)
     /\ UNCHANGED environment
  \/ c.op = "cancel_dispatch" /\ CancelDispatch(c.job, c.seen, c.confirmed, c.active)
  \/ /\ c.op = "retry_dispatch" /\ Cardinality(opening) < MaxOpening
     /\ \E j \in Jobs : BeginRetry(c.job, c.seen, j)
  \/ /\ c.op = "update_equipment"
     /\ \E status \in EquipmentStatus, active \in BOOLEAN :
          UpdateEquipment(c.equip, status, c.current, active)
     /\ UNCHANGED environment

CallServed == \E c \in Loadable : Handle(c) /\ UNCHANGED <<calls, crashes>>

CallLoaded ==
  /\ Cardinality(calls) < MaxCalls
  /\ \E c \in Loadable : calls' = calls \cup {c}
  /\ UNCHANGED <<tables, environment, crashes>>

CallHandled ==
  /\ \E c \in calls : Handle(c) /\ calls' = calls \ {c}
  /\ UNCHANGED crashes

\* The service raises DomainError, or the client goes away: nothing is written.
CallDropped ==
  /\ \E c \in calls : calls' = calls \ {c}
  /\ UNCHANGED <<tables, environment, crashes>>

-----------------------------------------------------------------------------
(* Handlers that read their rows under a lock, and those with no guard      *)

BatchCreated ==
  /\ \E w \in Wips, S \in SUBSET Samples, recipe \in Recipes : CreateWip(w, S, recipe)
  /\ UNCHANGED <<environment, calls, crashes>>

DispatchBegun ==
  /\ Cardinality(opening) < MaxOpening
  /\ \E w \in Wips, e \in Equipment, j \in Jobs : BeginDispatch(w, e, j)
  /\ UNCHANGED <<calls, crashes>>

DispatchSubmitted == \E o \in opening : SubmitDispatch(o) /\ UNCHANGED <<calls, crashes>>

DispatchCommitted == \E o \in opening : CommitDispatch(o) /\ UNCHANGED <<calls, crashes>>

DispatchRefused == \E o \in opening : ~o.sent /\ AbortDispatch(o) /\ UNCHANGED <<calls, crashes>>

DispatchCrashed ==
  /\ crashes < MaxCrashes /\ crashes' = crashes + 1
  /\ \E o \in opening : o.sent /\ AbortDispatch(o)
  /\ UNCHANGED calls

ResultConfirmed == \E j \in Jobs : FinalConfirm(j) /\ UNCHANGED <<calls, crashes>>

StatusSetByHand ==
  /\ \E s \in Samples, status \in ManualStatuses : UpdateSampleStatus(s, status)
  /\ UNCHANGED <<environment, calls, crashes>>

EquipmentManaged ==
  /\ \E e \in Equipment :
       \/ "maintenance" \in Operations /\ MarkMaintenance(e)
       \/ "activate" \in Operations /\ ActivateEquipment(e)
       \/ "deactivate" \in Operations /\ DeactivateEquipment(e)
  /\ UNCHANGED <<environment, calls, crashes>>

WorkerStep(k) ==
  /\ \/ \E j \in Jobs : TakeMessage(k, j) \/ MissDispatch(k, j)
     \/ StartRun(k)
     \/ \E verdict \in {"pass", "fail"} : FinishRun(k, verdict)
     \/ FailRun(k)
     \/ Acknowledge(k)
  /\ UNCHANGED <<calls, crashes>>

WorkerCrashed ==
  /\ crashes < MaxCrashes /\ crashes' = crashes + 1
  /\ \E k \in Workers : WorkerDies(k) \/ (PoolMayDie /\ PoolProcessDies(k))
  /\ UNCHANGED calls

Init ==
  /\ InitTables
  /\ InitEnvironment
  /\ calls = {}
  /\ crashes = 0

Next ==
  \/ CallServed \/ CallLoaded \/ CallHandled \/ CallDropped
  \/ BatchCreated
  \/ DispatchBegun \/ DispatchSubmitted \/ DispatchCommitted \/ DispatchRefused \/ DispatchCrashed
  \/ ResultConfirmed \/ StatusSetByHand \/ EquipmentManaged
  \/ \E k \in Workers : WorkerStep(k)
  \/ WorkerCrashed

Spec == Init /\ [][Next]_vars
=============================================================================
