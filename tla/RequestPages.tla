---------------------------- MODULE RequestPages ----------------------------
(***************************************************************************)
(* The pages that move a request: the requester's form and detail page, the *)
(* manager's detail page, the laboratory's list of samples.  A page shows   *)
(* rows it fetched some time ago, and a handler that awaits a call goes on  *)
(* when the answer arrives, also when its component is mounted no more.     *)
(***************************************************************************)
EXTENDS RequestService, StatusViews, Functions

CONSTANTS
  Teams,     \* who may be at work together: sets of "author" (the requester at the form),
             \* "owner" (the requester at the detail page), "manager", "laboratory"
  Opened,    \* bound on the requests whose own pages are opened
  MaxMounts, \* bound on the forms and dialogs the requester opens
  MaxLosses  \* bound on the requests and answers the network loses

ASSUME PagesAssumption ==
  Opened \subseteq Requests /\ MaxMounts \in Nat /\ MaxLosses \in Nat

VARIABLES
  atWork, \* the team of this behaviour
  user,   \* the requester: page, its request, what it offers, component instance, busy or not
  mounts, \* component instances so far
  mgr,    \* the manager's page: request, what it offers, dialog, busy or not, its calls
  desk,   \* the samples page: the wafers it shows as incoming, those it is busy with
  losses  \* calls the network lost so far

pages == <<atWork, user, mounts, mgr, desk>>

Away == [page |-> "away", on |-> None, shows |-> {}, mount |-> 0, busy |-> FALSE]
NoRow == [page |-> "away", on |-> None, shows |-> {}, modal |-> None, busy |-> FALSE, calls |-> {}]

PagesInit ==
  /\ atWork \in Teams
  /\ \A r \in Requests \ Opened : request[r] = "absent"
  /\ user = Away /\ mounts = 0 /\ mgr = NoRow
  /\ desk = [shows |-> {}, busy |-> {}]
  /\ losses = 0

\* The buttons of the two detail pages, from the status the client shows for the row.
UserOffers(r) ==
  IF RequestView(request[r]) \in {"in_progress", "submitted"} THEN {"cancel"} ELSE {}
MgrOffers(r) ==
  (IF RequestView(request[r]) = "submitted" THEN {"approve", "reject", "more_info"} ELSE {})
    \cup (IF AllExperimentsComplete(r) THEN {"close"} ELSE {})
\* The samples page shows every wafer of every request, drafts included.
DeskShows == {w \in Wafers : /\ request[RequestOf[w]] # "absent"
                             /\ SampleView(wafer[w]) = "incoming"}

-----------------------------------------------------------------------------
(* The requester: FabNewRequest, FabDraftEdit, FabRequestDetail             *)

Mount(page, r) ==
  /\ mounts < MaxMounts
  /\ mounts' = mounts + 1
  /\ user' = [Away EXCEPT !.page = page, !.on = r, !.mount = mounts + 1,
                          !.shows = IF page = "cancel" THEN user.shows ELSE {}]

\* "New Request", or "Continue" on a draft: the editor does not look at the status.
OpenForm(page, r) ==
  /\ user.page = "away"
  /\ IF page = "new" THEN r = None ELSE r # None /\ request[r] # "absent"
  /\ Mount(page, r) /\ UNCHANGED <<tables, call, atWork, mgr, desk, losses>>

\* A poll of the draft that fails puts "Draft not found" in the form's place; the next one
\* mounts a new form, which knows nothing of what the old one is doing.
DraftPollFails ==
  /\ user.page = "edit"
  /\ Mount("edit", user.on) /\ UNCHANGED <<tables, call, atWork, mgr, desk, losses>>

\* The bound on the requests there may be.
RoomForDraft ==
  Cardinality({c \in Slots : call[c].op = "draft" /\ call[c].phase = "sent"})
    < Cardinality({r \in Requests : request[r] = "absent"})

\* Defect variant: a second press while the first is being served.
PressTwice(c, publish) ==
  /\ user.page \in {"new", "edit"} /\ (user.page = "new" => RoomForDraft)
  /\ user' = [user EXCEPT !.busy = TRUE]
  /\ Send(c, [Sent(IF user.page = "new" THEN "draft" ELSE "update", user.on, user.page)
                EXCEPT !.mount = user.mount, !.publish = publish])
  /\ UNCHANGED <<tables, atWork, mounts, mgr, desk, losses>>

\* handle: save, or save and then submit.
Press(c, publish) ==
  /\ user.page \in {"new", "edit"} /\ (user.page = "new" => RoomForDraft)
  /\ ~user.busy
  /\ user' = [user EXCEPT !.busy = TRUE]
  /\ Send(c, [Sent(IF user.page = "new" THEN "draft" ELSE "update", user.on, user.page)
                EXCEPT !.mount = user.mount, !.publish = publish])
  /\ UNCHANGED <<tables, atWork, mounts, mgr, desk, losses>>

\* The detail page, its poll, and the dialog that cancels.
OpenDetail(r) ==
  /\ user.page = "away" /\ request[r] # "absent"
  /\ user' = [Away EXCEPT !.page = "detail", !.on = r, !.shows = UserOffers(r)]
  /\ UNCHANGED <<tables, call, atWork, mounts, mgr, desk, losses>>
DetailPoll ==
  /\ user.page \in {"detail", "cancel"}
  /\ user' = [user EXCEPT !.shows = UserOffers(user.on)]
  /\ UNCHANGED <<tables, call, atWork, mounts, mgr, desk, losses>>
OpenCancel ==
  /\ user.page = "detail" /\ "cancel" \in user.shows
  /\ Mount("cancel", user.on) /\ UNCHANGED <<tables, call, atWork, mgr, desk, losses>>
ConfirmCancel(c) ==
  /\ user.page = "cancel" /\ ~user.busy
  /\ user' = [user EXCEPT !.busy = TRUE]
  /\ Send(c, [Sent("cancel", user.on, "cancel") EXCEPT !.mount = user.mount])
  /\ UNCHANGED <<tables, atWork, mounts, mgr, desk, losses>>

\* A link, the form's "Cancel", a click beside the dialog: busy or not.
Leave ==
  /\ user.page # "away"
  /\ user' = IF user.page = "cancel"
               THEN [Away EXCEPT !.page = "detail", !.on = user.on, !.shows = user.shows]
               ELSE Away
  /\ UNCHANGED <<tables, call, atWork, mounts, mgr, desk, losses>>

StillMounted(c) == user.page = call[c].from /\ user.mount = call[c].mount

\* The answer of a call of the requester's pages: after the draft comes the submission;
\* the last answer navigates, wherever the user is by then; an error frees the form.
UserAnswer(c) ==
  LET it == call[c] IN
  /\ it.phase = "answered" /\ it.from \in {"new", "edit", "cancel"}
  /\ IF it.ok /\ it.publish /\ it.op # "submit"
       THEN /\ call' = [call EXCEPT ![c] = [Sent("submit", it.on, it.from)
                                              EXCEPT !.mount = it.mount, !.publish = TRUE]]
            /\ UNCHANGED user
       ELSE /\ call' = [call EXCEPT ![c] = Idle]
            /\ user' = IF it.ok /\ it.from = "cancel"
                         THEN IF user.page = "cancel"
                                THEN [Away EXCEPT !.page = "detail", !.on = user.on,
                                                  !.shows = user.shows]
                                ELSE user
                       ELSE IF it.ok THEN Away
                       ELSE IF StillMounted(c) THEN [user EXCEPT !.busy = FALSE] ELSE user
  /\ UNCHANGED <<tables, atWork, mounts, mgr, desk, losses>>

-----------------------------------------------------------------------------
(* The manager: MgrRequestDetail and its ApprovalModal                      *)

MgrOpen(r) ==
  /\ request[r] # "absent"
  /\ mgr' = [NoRow EXCEPT !.page = "detail", !.on = r, !.shows = MgrOffers(r)]
  /\ UNCHANGED <<tables, call, atWork, user, mounts, desk, losses>>
MgrPoll ==
  /\ mgr.page = "detail"
  /\ mgr' = [mgr EXCEPT !.shows = MgrOffers(mgr.on)]
  /\ UNCHANGED <<tables, call, atWork, user, mounts, desk, losses>>
\* Approve and Mark Complete act at once; Reject and Return ask for a reason first, in a
\* dialog that stays while the page behind it is refreshed.  Their buttons are given
\* `disabled' while the page is busy, but the manager's SecondaryBtn does not take it.
OpenModal(op) ==
  /\ mgr.page = "detail" /\ mgr.modal = None
  /\ op \in mgr.shows \cap {"reject", "more_info"}
  /\ mgr' = [mgr EXCEPT !.modal = op]
  /\ UNCHANGED <<tables, call, atWork, user, mounts, desk, losses>>
CloseModal ==
  /\ mgr.modal # None
  /\ mgr' = [mgr EXCEPT !.modal = None]
  /\ UNCHANGED <<tables, call, atWork, user, mounts, desk, losses>>
MgrAct(c, op) ==
  /\ mgr.page = "detail"
  /\ IF op \in {"reject", "more_info"} THEN mgr.modal = op
     ELSE ~mgr.busy /\ mgr.modal = None /\ op \in mgr.shows
  /\ mgr' = [mgr EXCEPT !.busy = TRUE, !.calls = @ \cup {c}, !.modal = None]
  /\ Send(c, Sent(op, mgr.on, "mgr"))
  /\ UNCHANGED <<tables, atWork, user, mounts, desk, losses>>

\* runAction: with the first answer or error the buttons come back.
MgrAnswer(c) ==
  /\ call[c].phase = "answered" /\ call[c].from = "mgr"
  /\ call' = [call EXCEPT ![c] = Idle]
  /\ mgr' = IF c \in mgr.calls THEN [mgr EXCEPT !.busy = FALSE, !.calls = @ \ {c}] ELSE mgr
  /\ UNCHANGED <<tables, atWork, user, mounts, desk, losses>>

-----------------------------------------------------------------------------
(* The laboratory: LabSamples                                               *)

DeskPoll ==
  /\ desk' = [desk EXCEPT !.shows = DeskShows]
  /\ UNCHANGED <<tables, call, atWork, user, mounts, mgr, losses>>

DeskOffers == desk.shows \ desk.busy

\* Receive, or reject, one wafer of the list.
DeskAct(c, op, w) ==
  /\ w \in DeskOffers
  /\ desk' = [desk EXCEPT !.busy = @ \cup {w}]
  /\ Send(c, [Sent(op, w, "desk") EXCEPT !.group = {w}])
  /\ UNCHANGED <<tables, atWork, user, mounts, mgr, losses>>

\* Bulk Receive: all that are offered, at once.
BulkReceive ==
  LET free == {c \in Slots : call[c].phase = "idle"}
      W == DeskOffers IN
  /\ Cardinality(W) \in 2..Cardinality(free)
  /\ LET at == CHOOSE f \in [W -> free] : IsInjective(f) IN
     call' = [c \in Slots |->
       IF c \in Range(at) THEN [Sent("receive", Inverse(at, W, free)[c], "desk")
                                   EXCEPT !.group = W]
                          ELSE call[c]]
  /\ desk' = [desk EXCEPT !.busy = @ \cup W]
  /\ UNCHANGED <<tables, atWork, user, mounts, mgr, losses>>

\* Defect variant: the wafers stay busy when a call fails.
DeskAnswerOk(c) ==
  LET W == call[c].group
      rest == {d \in Slots \ {c} : call[d].from = "desk" /\ call[d].group = W /\ W # {}} IN
  /\ call[c].phase = "answered" /\ call[c].from = "desk"
  /\ call' = [d \in Slots |-> IF d = c THEN Idle
                              ELSE IF d \in rest /\ ~call[c].ok THEN [call[d] EXCEPT !.group = {}]
                              ELSE call[d]]
  /\ desk' = IF call[c].ok /\ rest = {} THEN [desk EXCEPT !.busy = @ \ W] ELSE desk
  /\ UNCHANGED <<tables, atWork, user, mounts, mgr, losses>>

\* Promise.all: the wafers are free after the last answer, or after the first error, which
\* nobody who is still under way waits for.
DeskAnswer(c) ==
  LET W == call[c].group
      rest == {d \in Slots \ {c} : call[d].from = "desk" /\ call[d].group = W /\ W # {}} IN
  /\ call[c].phase = "answered" /\ call[c].from = "desk"
  /\ call' = [d \in Slots |-> IF d = c THEN Idle
                              ELSE IF d \in rest /\ ~call[c].ok THEN [call[d] EXCEPT !.group = {}]
                              ELSE call[d]]
  /\ desk' = IF ~call[c].ok \/ rest = {} THEN [desk EXCEPT !.busy = @ \ W] ELSE desk
  /\ UNCHANGED <<tables, atWork, user, mounts, mgr, losses>>
=============================================================================
