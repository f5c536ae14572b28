------------------------ MODULE ExperimentLifecycle ------------------------
(***************************************************************************)
(* What the laboratory promises about the experiments of a wafer, without  *)
(* requests, jobs, machines, messages or workers: experiments are taken    *)
(* into batches in their order, one per wafer at a time; a batch starts; a *)
(* batch is settled as a whole, with one outcome for all its experiments;  *)
(* an outcome is never rewritten.  LabWorkflow implements it               *)
(* (KeepsLifecycle).                                                       *)
(***************************************************************************)
EXTENDS Naturals

CONSTANTS Experiments, Wips, None, SampleOf, SeqNo

VARIABLES
  status,  \* the status of each experiment
  batch    \* the batch it is in, None outside

Busy == {"in_wip", "running"}
Done == {"completed", "failed", "cancelled"}
Unstarted == {"pending", "ready"}

SameWafer(x) == {y \in Experiments : SampleOf[y] = SampleOf[x]}
Earlier(x) == {y \in SameWafer(x) : SeqNo[y] < SeqNo[x]}
In(w) == {x \in Experiments : batch[x] = w}

Init ==
  /\ status = [x \in Experiments |-> IF Earlier(x) = {} THEN "ready" ELSE "pending"]
  /\ batch = [x \in Experiments |-> None]

\* Experiments of different wafers, each the next of its wafer, are taken into a new batch.
Assign(w, X) ==
  /\ X # {} /\ In(w) = {}
  /\ \A x \in X : /\ status[x] \in Unstarted
                  /\ \A y \in Earlier(x) : status[y] \in Done
                  /\ \A y \in SameWafer(x) : status[y] \notin Busy /\ (y \in X => y = x)
  /\ status' = [x \in Experiments |-> IF x \in X THEN "in_wip" ELSE status[x]]
  /\ batch' = [x \in Experiments |-> IF x \in X THEN w ELSE batch[x]]

Start(w) ==
  /\ status' = [x \in Experiments |-> IF x \in In(w) THEN "running" ELSE status[x]]
  /\ UNCHANGED batch

\* All experiments of the batch take one outcome; some pending ones become ready.
Settle(w, outcome, P) ==
  /\ P \subseteq {x \in Experiments : status[x] = "pending"}
  /\ status' = [x \in Experiments |-> IF x \in In(w) THEN outcome
                                      ELSE IF x \in P THEN "ready" ELSE status[x]]
  /\ batch' = [x \in Experiments |-> IF x \in In(w) THEN None ELSE batch[x]]

Next ==
  \E w \in Wips :
    \/ \E X \in SUBSET Experiments : Assign(w, X)
    \/ Start(w)
    \/ \E outcome \in {"completed", "failed"}, P \in SUBSET Experiments : Settle(w, outcome, P)

Spec == Init /\ [][Next]_<<status, batch>>
=============================================================================
