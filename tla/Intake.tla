------------------------------- MODULE Intake -------------------------------
(***************************************************************************)
(* From the form to the laboratory's shelf: a requester, a manager and a    *)
(* laboratory user at their pages, the network between them and the         *)
(* server, and the server's handlers.                                       *)
(***************************************************************************)
EXTENDS RequestPages

intakeVars == <<tables, call, pages, losses>>

\* The network loses a call on its way, or the answer to it: the page sees an error.
Lose(c) ==
  /\ losses < MaxLosses
  /\ call[c].phase = "sent" \/ (call[c].phase = "answered" /\ call[c].ok)
  /\ call' = [call EXCEPT ![c].phase = "answered", ![c].ok = FALSE]
  /\ losses' = losses + 1
  /\ UNCHANGED <<tables, pages>>

ServerStep(c) == Serve(c) /\ UNCHANGED <<pages, losses>>
Answer(c) == UserAnswer(c) \/ MgrAnswer(c) \/ DeskAnswer(c)

AuthorStep ==
  \/ OpenForm("new", None) \/ DraftPollFails
  \/ \E r \in Opened : OpenForm("edit", r)
  \/ \E c \in Slots, publish \in BOOLEAN : Press(c, publish)
OwnerStep ==
  \/ DetailPoll \/ OpenCancel
  \/ \E r \in Opened : OpenDetail(r)
  \/ \E c \in Slots : ConfirmCancel(c)
MgrStep ==
  \/ MgrPoll \/ CloseModal
  \/ \E r \in Opened : MgrOpen(r)
  \/ \E op \in {"approve", "reject", "more_info", "close"} :
       OpenModal(op) \/ \E c \in Slots : MgrAct(c, op)
DeskStep ==
  \/ DeskPoll \/ BulkReceive
  \/ \E c \in Slots, w \in Wafers, op \in {"receive", "reject_sample"} : DeskAct(c, op, w)
LabStep == \E r \in Requests : Process(r) /\ UNCHANGED <<pages, losses>>

IntakeInit == ServiceInit /\ PagesInit
IntakeNext ==
  \/ Leave
  \/ "author" \in atWork /\ AuthorStep
  \/ "owner" \in atWork /\ OwnerStep
  \/ "manager" \in atWork /\ MgrStep
  \/ "laboratory" \in atWork /\ (DeskStep \/ LabStep)
  \/ \E c \in Slots : ServerStep(c) \/ Answer(c) \/ Lose(c)

IntakeSpec == IntakeInit /\ [][IntakeNext]_intakeVars

-----------------------------------------------------------------------------
(* Properties                                                               *)

\* One form submits one request, however often its buttons are pressed and its chain of calls
\* is broken, except for a submission whose answer was lost on the way: then a second press
\* creates and submits the request again.
OneSubmissionPerForm ==
  \A m \in 1..MaxMounts :
    Cardinality({r \in Requests : submittedBy[r] = m}) <= 1 + losses

\* A wafer arrives once, unless two calls were served on the wafer itself at once: two calls
\* that both loaded it as pending both record an arrival.  Receipts of sibling wafers, a
\* cancellation or an approval of the request under the receipt, pages that show old rows,
\* repeated presses and lost answers never do.
WaferArrivesOnce == \A w \in Wafers \ raced : receipts[w] <= 1

\* When the last wafer of a request has arrived the request has too.
AllWafersReceived(r) == WafersOf(r) # {} /\ \A w \in WafersOf(r) : wafer[w] = "received"
PastReceipt(r) == request[r] \notin {"absent", "draft", "waiting_approval", "waiting_sample_receive"}
ArrivedRequestIsReceived == \A r \in Requests : AllWafersReceived(r) => PastReceipt(r)

\* So it is with calls under way on other requests at the same time: only calls that overlap
\* on the request itself, like the receipts of a bulk receipt, can leave it waiting for wafers
\* that are there.
ArrivalNeedsARace == \A r \in Requests \ raced : AllWafersReceived(r) => PastReceipt(r)

Stage(status) ==
  CASE status = "absent" -> 0 [] status = "draft" -> 1 [] status = "waiting_approval" -> 2
    [] status = "waiting_sample_receive" -> 3 [] status = "received" -> 4
    [] status = "final_check" -> 5 [] OTHER -> 6

\* A request only advances, and what ended it stays, unless two calls were served on it at
\* once (an approval that commits after a cancellation, a draft saved over its submission):
\* neither a page that still shows an earlier stage, nor a press that another's call
\* overtakes, nor calls that overlap on other requests take it back.
RequestOnlyAdvances ==
  [][\A r \in Requests \ raced : request'[r] # request[r] =>
       Stage(request[r]) < Stage(request'[r])]_intakeVars

\* A page that is busy waits for a call that is under way: whatever is refused or lost, and
\* however the answers of a bulk receipt are ordered, no button stays grey for ever.
BusyPageAwaitsACall ==
  /\ user.busy => \E c \in Slots : call[c].phase # "idle" /\ StillMounted(c)
  /\ mgr.busy => \E c \in mgr.calls : call[c].phase # "idle" /\ call[c].from = "mgr"
  /\ \A w \in desk.busy : \E c \in Slots : call[c].phase # "idle" /\ w \in call[c].group
=============================================================================
