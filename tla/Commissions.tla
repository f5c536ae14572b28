---------------------------- MODULE Commissions ----------------------------
(***************************************************************************)
(* The request and sample handlers of apps/commissions that run once a      *)
(* request is approved: receiving and rejecting wafers, cancelling and      *)
(* closing the request, and the lab's manual status change.  An endpoint    *)
(* loads its row before the service opens a transaction; the row it loaded  *)
(* is a parameter (`seen...'), which a guard reads and a full save writes   *)
(* back.                                                                    *)
(***************************************************************************)
EXTENDS LabData

\* RECEIVED, FINAL_CHECK, ... are open; nothing follows these by intent.
TerminalRequest == {"completed", "closed", "rejected", "cancelled"}

\* receive_sample: sample.save() writes every column of the row that was loaded, so
\* current_wip goes back to what the endpoint saw; the siblings are read afresh.
ReceiveSample(s, seen, seenWip, seenReq) ==
  /\ seenReq \in {"approved", "waiting_sample_receive"}
  /\ seen = "pending_receive"
  /\ sampleStatus' = [sampleStatus EXCEPT ![s] = "received"]
  /\ sampleWip' = [sampleWip EXCEPT ![s] = seenWip]
  /\ reqStatus' =
       IF \A t \in SamplesOf(RequestOf[s]) : sampleStatus'[t] = "received"
         THEN [reqStatus EXCEPT ![RequestOf[s]] = "received"]
         ELSE reqStatus
  /\ UNCHANGED <<experimentTable, wipTable, jobTable, equipmentTable>>

\* reject_sample: allowed for an incoming or a received wafer; the request follows when
\* it has no other wafer left, unless the loaded row already said REJECTED.
RejectSample(s, seen, seenReq) ==
  /\ seen \in {"pending_receive", "received"}
  /\ sampleStatus' = [sampleStatus EXCEPT ![s] = "rejected"]
  /\ reqStatus' =
       IF /\ \A t \in SamplesOf(RequestOf[s]) : sampleStatus'[t] = "rejected"
          /\ seenReq # "rejected"
         THEN [reqStatus EXCEPT ![RequestOf[s]] = "rejected"]
         ELSE reqStatus
  /\ UNCHANGED <<sampleWip, experimentTable, wipTable, jobTable, equipmentTable>>

\* cancel_request: wafers that have not finished are rejected, whatever batch they are in.
CancelRequest(r, seen) ==
  /\ seen \notin TerminalRequest
  /\ reqStatus' = [reqStatus EXCEPT ![r] = "cancelled"]
  /\ sampleStatus' = [s \in Samples |->
       IF s \in SamplesOf(r) /\ sampleStatus[s] \notin {"completed", "failed"}
         THEN "rejected" ELSE sampleStatus[s]]
  /\ UNCHANGED <<sampleWip, experimentTable, wipTable, jobTable, equipmentTable>>

AllExperimentsComplete(r) ==
  LET xs == {x \in Experiments : RequestOf[SampleOf[x]] = r}
  IN  xs # {} /\ \A x \in xs : expStatus[x] = "completed"

\* close_request: a manager closes a request all of whose experiments completed.
CloseRequest(r, seen) ==
  /\ seen \notin TerminalRequest \/ seen = "completed"
  /\ AllExperimentsComplete(r)
  /\ reqStatus' = [reqStatus EXCEPT ![r] = "closed"]
  /\ sampleStatus' = Update(sampleStatus, SamplesOf(r), "completed")
  /\ UNCHANGED <<sampleWip, experimentTable, wipTable, jobTable, equipmentTable>>

\* update_sample_status: PATCH /samples/{id}/status stores any status it is given.
UpdateSampleStatus(s, status) ==
  /\ sampleStatus' = [sampleStatus EXCEPT ![s] = status]
  /\ UNCHANGED <<requestTable, sampleWip, experimentTable, wipTable, jobTable, equipmentTable>>
=============================================================================
