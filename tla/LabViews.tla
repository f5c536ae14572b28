------------------------------ MODULE LabViews ------------------------------
(***************************************************************************)
(* The pages over the laboratory's tables: every row the server holds, as a *)
(* page that has just loaded it shows it, and the calls its buttons make.   *)
(***************************************************************************)
EXTENDS LabProperties, StatusViews

ShownSample(s) == SampleRow(sampleStatus[s], sampleWip[s] # None)
ShownRequest(r) == RequestRow(reqStatus[r], {ShownSample(s) : s \in SamplesOf(r)})
ShownDispatch(j) == DispatchRow(jobStatus[j], jobConfirmed[j])
ShownWip(w) == WipRow(wipStatus[w], {ShownSample(s) : s \in wipItems[w]},
                      {ShownDispatch(j) : j \in JobsOf(w)})
ShownProgress(r) == Progress({x \in Experiments : RequestOf[SampleOf[x]] = r}, expStatus)

\* The service behind a button would do what the button says.
DispatchServes(j, offer) ==
  CASE offer \in {"abort", "exception"} -> jobStatus[j] \notin TerminalDispatch
    [] offer = "final-confirm" -> jobStatus[j] = "completed" /\ ~jobConfirmed[j]
    [] OTHER -> TRUE
WaferServes(s, offer) ==
  offer = "reject" => sampleStatus[s] \in {"pending_receive", "received"}

\* A page that shows the row as it is offers no call that the service refuses for the row's
\* status: the names the client gives the statuses never hide a difference the services' guards
\* make.  Left out are `record' (of a failed job), `receive', and the buttons of a batch but
\* `lock' in the list, whose guards the pages do not know; and what else a service asks for,
\* like the reason of a rejection, which the pages leave empty.
OfferIsServed ==
  /\ \A j \in ExistingJobs : \A o \in DispatchOffers(ShownDispatch(j)) \ {"record"} :
       DispatchServes(j, o)
  /\ \A s \in Samples : \A o \in WaferOffers(ShownSample(s)) : WaferServes(s, o)
  /\ \A w \in ExistingWips : "lock" \in WipListOffers(ShownWip(w)) =>
       wipStatus[w] = "draft" /\ wipItems[w] # {}

\* A wafer that is shown as done, to the requester in the list, in the pipeline or by the news
\* that its request is completed, to the laboratory on its own page, need not wait for any of
\* its experiments.
DoneMeansDone ==
  \A s \in Samples :
    \/ phaseIndexFor(ShownSample(s), ShownRequest(RequestOf[s])) = 4
    \/ stepFromRequest(ShownRequest(RequestOf[s])) = 3
    \/ LET r == RequestOf[s]
       IN  ActivityVerb[ActivityOf({reqStatus[r]}, ShownRequest(r))] = "Completed"
    \/ WaferStage(ShownSample(s)) = 3
    => \A x \in ExperimentsOf(s) : expStatus[x] \in Finished

\* The progress bar of a request never goes back, over retries, cancelled batches and lost
\* workers.
ProgressNeverDrops ==
  [][\A r \in Requests : /\ ShownProgress(r)'.completed >= ShownProgress(r).completed
                         /\ ShownProgress(r)'.failed >= ShownProgress(r).failed]_vars
=============================================================================
