----------------------------- MODULE StatusViews -----------------------------
(***************************************************************************)
(* What the pages make of the rows the server sends: the API client maps    *)
(* the statuses of requests, wafers and jobs to fewer names of its own, and *)
(* the lists, tabs, pipelines and buttons are chosen by those names.        *)
(* No state: a row is a record, a page's choice is an operator.             *)
(***************************************************************************)
EXTENDS Integers, FiniteSets

-----------------------------------------------------------------------------
(* lib/lims/api.ts: the maps and the rows                                   *)

RequestView(raw) ==
  CASE raw \in {"submitted", "waiting_approval"} -> "submitted"
    [] raw \in {"approved", "waiting_sample_receive"} -> "waiting_sample_receive"
    [] raw \in {"received", "in_wip", "queued", "running", "final_check"} -> "in_progress"
    [] OTHER -> raw

SampleView(raw) ==
  CASE raw = "pending_receive" -> "incoming"
    [] raw \in {"in_wip", "queued", "running"} -> "in_wip"
    [] raw = "failed" -> "rejected"
    [] OTHER -> raw

\* Defect variant: a failed job is shown as one that still runs.
DispatchViewFailedRunning(raw) ==
  CASE raw = "queued" -> "ready_for_dispatch"
    [] raw = "assigned" -> "dispatched"
    [] raw \in {"paused", "failed"} -> "running"
    [] raw = "retrying" -> "exception"
    [] raw = "cancelled" -> "aborted"
    [] OTHER -> raw

DispatchView(raw) ==
  CASE raw = "queued" -> "ready_for_dispatch"
    [] raw = "assigned" -> "dispatched"
    [] raw = "paused" -> "running"
    [] raw \in {"failed", "retrying"} -> "exception"
    [] raw = "cancelled" -> "aborted"
    [] OTHER -> raw

ExperimentView(raw) ==
  CASE raw = "completed" -> "done"
    [] raw \in {"in_wip", "running"} -> "running"
    [] raw = "failed" -> "failed"
    [] OTHER -> "pending"

SampleRow(raw, hasWip) == [status |-> SampleView(raw), raw |-> raw, hasWip |-> hasWip]
RequestRow(raw, samples) == [status |-> RequestView(raw), raw |-> raw, samples |-> samples]
WipRow(status, samples, dispatches) ==
  [status |-> status, samples |-> samples, dispatches |-> dispatches]
DispatchRow(raw, confirmed) ==
  [status |-> DispatchView(raw), raw |-> raw, confirmed |-> confirmed]

\* Defect variant: an experiment that is running counts as completed.
ProgressEarly(X, status) ==
  LET in(S) == Cardinality({x \in X : status[x] \in S})
  IN  [total |-> Cardinality(X), completed |-> in({"completed", "in_wip", "running"}),
       failed |-> in({"failed"}), active |-> in({"in_wip", "running"}),
       pending |-> in({"pending", "ready", "cancelled"}),
       allDone |-> X # {} /\ in({"completed"}) = Cardinality(X)]

\* normalizeProgress over the experiments X of a row.
Progress(X, status) ==
  LET in(S) == Cardinality({x \in X : status[x] \in S})
  IN  [total |-> Cardinality(X), completed |-> in({"completed"}),
       failed |-> in({"failed"}), active |-> in({"in_wip", "running"}),
       pending |-> in({"pending", "ready", "cancelled"}),
       allDone |-> X # {} /\ in({"completed"}) = Cardinality(X)]

\* normalizeWaferProgress counts the wafers whose experiments are all confirmed.
WaferProgress(S, safeToClose) ==
  LET done == Cardinality({s \in S : safeToClose[s]})
  IN  [total |-> Cardinality(S), completed |-> done, pending |-> Cardinality(S) - done]

urgencyFromPriority(p) ==
  CASE p = "urgent" -> "3d" [] p = "high" -> "1w" [] OTHER -> "2w"
priorityFromUrgency(u) ==
  CASE u = "3d" -> "urgent" [] u = "1w" -> "high" [] OTHER -> "normal"

-----------------------------------------------------------------------------
(* The requester's pages (fab.tsx)                                          *)

Aborted == -2
AwaitingApproval == -1

\* stepFromRequest: the dot of the workflow Approved (0), Shipped, In Progress, Done (3).
stepFromRequest(r) ==
  IF r.status \in {"draft", "cancelled", "rejected", "returned"} THEN Aborted
  ELSE IF r.raw \in {"submitted", "pending_approval"} THEN AwaitingApproval
  ELSE IF \/ r.raw \in {"completed", "closed"}
          \/ r.samples # {} /\ \A s \in r.samples : s.status = "completed" THEN 3
  ELSE IF \E s \in r.samples : s.status \in {"in_wip", "completed"} THEN 2
  ELSE IF \E s \in r.samples : s.status = "received" THEN 1
  ELSE 0

\* Defect variant: a wafer that is received again counts as done.
phaseIndexForReceived(s, r) ==
  IF r.raw = "draft" THEN -1
  ELSE IF r.status \in {"completed", "closed"} \/ s.status \in {"completed", "received"} THEN 4
  ELSE 3

\* phaseIndexFor: Submitted (0), Approved, Received, Processing, Done (4).
phaseIndexFor(s, r) ==
  IF r.raw = "draft" THEN -1
  ELSE IF r.status \in {"completed", "closed"} \/ s.status = "completed" THEN 4
  ELSE IF r.raw \in {"in_wip", "queued", "running", "final_check"} \/ s.status = "in_wip" THEN 3
  ELSE IF r.raw = "received" \/ s.status = "received" THEN 2
  ELSE IF r.raw \in {"approved", "waiting_sample_receive"} \/ s.status = "incoming" THEN 1
  ELSE IF r.status = "submitted" THEN 0 ELSE 1

\* InProgressRow: the wafer that is furthest behind speaks for the request.
OverallPhase(r) ==
  LET phases == {phaseIndexFor(s, r) : s \in r.samples}
  IN  CHOOSE p \in phases : \A q \in phases : p <= q

FabTabs == {"all", "in_progress", "completed", "returned", "rejected", "cancelled"}
InFabTab(t, r) == IF t = "all" THEN r.status # "draft" ELSE r.status = t
InFabList(drafts, t, r) == IF drafts THEN r.status = "draft"
                           ELSE t \in FabTabs => InFabTab(t, r)

\* The lists of the dashboard: in progress, drafts, needing attention, waiting for approval.
DashboardList(name, r) ==
  CASE name = "attention" -> r.status \in {"returned", "rejected"}
    [] name = "waitingApproval" -> r.status = "submitted"
    [] OTHER -> r.status = name

\* normalizeAction: an event of the history is named by both statuses, the old and the new one,
\* and by what its request has become meanwhile; the first rule that matches decides.
ActivityOf(statuses, r) ==
  LET names(S) == statuses \cap S # {}
  IN  IF names({"cancelled"}) THEN "none"
      ELSE IF names({"rejected"}) THEN "REJECT"
      ELSE IF names({"returned"}) THEN "RETURN"
      ELSE IF names({"completed", "closed"}) \/ r.status \in {"completed", "closed"} THEN "COMPLETED"
      ELSE IF names({"approved", "waiting_sample_receive"})
        THEN IF r.status = "in_progress" THEN "APPROVE_DISPATCH" ELSE "APPROVE"
      ELSE IF names({"received", "in_wip", "queued", "running", "final_check"}) THEN "RECEIVE"
      ELSE IF names({"submitted"}) THEN "SUBMIT" ELSE "none"

\* What the dashboard calls it in its list of recent activity.
ActivityVerb ==
  [APPROVE |-> "Approved", APPROVE_DISPATCH |-> "Dispatched", RETURN |-> "Returned",
   REJECT |-> "Rejected", RECEIVE |-> "Received", COMPLETED |-> "Completed",
   SUBMIT |-> "Submitted", none |-> "nothing"]

-----------------------------------------------------------------------------
(* The manager's pages (mgr.tsx)                                            *)

MgrTabs == {"pending", "all", "in_progress", "completed", "returned", "rejected"}
InMgrTab(t, r) == CASE t = "pending" -> r.status = "submitted"
                    [] t = "completed" -> r.status \in {"completed", "closed"}
                    [] t \in {"in_progress", "returned", "rejected"} -> r.status = t
                    [] OTHER -> TRUE

-----------------------------------------------------------------------------
(* The laboratory's pages (lab.tsx)                                         *)

SampleTabs == {"all", "incoming", "received", "in_wip", "completed", "rejected"}
InSampleTab(t, s) == t = "all" \/ s.status = t

\* computeRemaining: a deadline runs for a wafer that arrived and was not turned away.
HasDeadline(s, arrived) == arrived /\ s.status \notin {"incoming", "rejected"}
\* formatRemaining, in days; less than a day is `due' whatever the hours.
DeadlineLevel(days) == CASE days < 0 -> "overdue" [] days \in {0, 1} -> "critical"
                         [] days \in {2, 3} -> "warning" [] OTHER -> "normal"

\* The row of a wafer and its own page offer the same two actions.
WaferOffers(s) == IF s.status = "incoming" THEN {"receive", "reject"} ELSE {}

\* The lifecycle on the page of a wafer: arrived (0), received, processing, done (3).
WaferStage(s) ==
  CASE s.status \in {"received", "rejected", "cancelled", "returned"} -> 1
    [] s.status \in {"in_wip", "processing"} -> 2
    [] s.status = "completed" -> 3
    [] OTHER -> 0

WipTabs == {"drafts", "running", "completed", "cancelled", "all"}
InWipTab(t, w) == CASE t = "drafts" -> w.status \in {"draft", "ready_for_dispatch"}
                    [] t = "running" -> w.status \in {"dispatching", "running"}
                    [] t = "completed" -> w.status = "completed"
                    [] t = "cancelled" -> w.status \in {"cancelled", "failed"}
                    [] OTHER -> TRUE
WipListOffers(w) == IF w.status = "draft" THEN {"lock"} ELSE {}

\* The page of a batch: abort it while it has an open dispatch, else create one.
OpenDispatch(w) == \E d \in w.dispatches : d.status \notin {"completed", "aborted"}
WipDetailOffers(w) ==
  IF w.status = "completed" THEN {}
  ELSE IF OpenDispatch(w) THEN {"abort-wip"} ELSE {"create-dispatch"}

\* The list of dispatches: waiting for confirmation, closed, and everything else.
WaitingConfirmation(d) == d.status = "completed" /\ ~d.confirmed
ClosedDispatch(d) == (d.status = "completed" /\ d.confirmed) \/ d.status = "aborted"
InDispatchTab(t, d) == CASE t = "confirm" -> WaitingConfirmation(d)
                         [] t = "done" -> ClosedDispatch(d)
                         [] t = "active" -> ~WaitingConfirmation(d) /\ ~ClosedDispatch(d)
                         [] OTHER -> TRUE
\* The equipment groups of the list: a group runs when one of its dispatches does.
GroupRuns(D) == \E d \in D : d.status = "running"

\* The page of a dispatch.  `start' and `unload' only read the job again.
DispatchOffers(d) ==
  CASE d.status \in {"ready_for_dispatch", "dispatched", "pending"} -> {"abort", "start"}
    [] d.status = "running" -> {"exception", "unload"}
    [] d.status = "exception" -> {"record"}
    [] d.status = "completed" -> {"export"} \cup (IF d.confirmed THEN {} ELSE {"final-confirm"})
    [] OTHER -> {}

\* The lifecycle bar: a failed job holds the line, a completed one lights every dot.
LitSteps(d) ==
  LET flow == <<"ready_for_dispatch", "running", "unloaded", "completed">>
  IN  IF d.status = "completed" THEN 1..4
      ELSE IF d.status \in {"aborted", "exception"} THEN {}
      ELSE {i \in 1..4 : \E k \in 1..4 : flow[k] = d.status /\ i <= k}
=============================================================================
