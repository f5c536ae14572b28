----------------------------- MODULE PageActions -----------------------------
(***************************************************************************)
(* The buttons of the pages that act on the server.  A button sends a call  *)
(* and greys out, by a flag of the page, by the id of the one row it works  *)
(* on, by a flag of its dialog, or not at all, until the call has answered. *)
(* Dialogs close when the user says so, whatever is under way; answers come *)
(* late, in any order, or as errors.                                        *)
(***************************************************************************)
EXTENDS ClientValues, Naturals

CONSTANTS
  Rows,       \* what the buttons act on
  MaxSends,   \* bound on the calls in flight
  MaxVisits   \* bound on the times a page, or a dialog of it, is opened

ASSUME ActionsAssumption == None \notin Rows /\ Rows # {} /\ MaxSends \in Nat /\ MaxVisits \in Nat

VARIABLES
  page,    \* the buttons of the page shown
  marks,   \* the page's busy marks: the row that set them, None when clear
  dialog,  \* the dialog that is open
  sends,   \* the calls in flight
  visit    \* the mounts of the page and the openings of its dialogs so far

actionsVars == <<page, marks, dialog, sends, visit>>

Flags == {"busy", "autoBusy", "creating", "dialogBusy"}
RowMarks == {"confirmingId", "cancelingId", "lockingId", "busyDeleteId"}
Marks == Flags \cup RowMarks

-----------------------------------------------------------------------------
(* The buttons                                                              *)

\* A button: the call it makes, the mark it sets, the marks that disable it, and its dialog:
\* "none", "first" (closed by the press), "kept" (mounted all the time, reset when it opens),
\* "mounted" (anew for each opening), "inside" (the button is in another button's dialog).
Button(call, mark, disabledBy, kind) ==
  [call |-> call, mark |-> mark, disabledBy |-> disabledBy, dialog |-> kind, opener |-> {}]
OpenedBy(button, disabledBy) == [button EXCEPT !.opener = disabledBy]
Unmarked(call) == Button(call, None, {}, "none")
RunAction(call) == Button(call, "busy", {"busy"}, "none")

autoArrange == Button("wips.autoPropose", "autoBusy", {"autoBusy"}, "none")
confirmProposal == Button("wips.confirmProposal", "confirmingId", {"confirmingId"}, "none")
cancelProposal == Button("wips.cancelProposal", "cancelingId", {"cancelingId", "confirmingId"}, "none")
lockWip == Button("wips.lock", "lockingId", {"lockingId"}, "none")
createWip == Button("wips.create", "dialogBusy", {"dialogBusy"}, "mounted")

abortWip == RunAction("wips.cancel")
createDispatch == OpenedBy(Button("wips.createDispatch", "dialogBusy", {"dialogBusy"}, "mounted"), {"busy"})

\* `start' and `unload' fetch the job; `abort' and `exception' cancel it; `record' confirms it.
abortDispatch == RunAction("dispatches.cancel")
startDispatch == RunAction("dispatches.get")
exportResults == RunAction("reports.downloadCsv")
finalConfirm == RunAction("dispatches.finalConfirm")
recordResult == OpenedBy(Button("dispatches.finalConfirm", "busy", {}, "first"), {"busy"})

saveEquipment == Button("equipment.update", "dialogBusy", {"dialogBusy"}, "kept")
saveRecipe == OpenedBy(Button("recipes.update", "dialogBusy", {"dialogBusy"}, "kept"), {"busyDeleteId"})
addType == Button("experimentTypes.create", None, {}, "inside")
deleteRecipe == Button("recipes.remove", "busyDeleteId", {"busyDeleteId"}, "none")
generateReport == RunAction("reports.equipmentUtilization")

readAll == RunAction("notifications.markAllRead")
markRead == Unmarked("notifications.markRead")
dismissNotifications == Unmarked("notifications.markRead")
createUser == Button("users.create", "creating", {"creating"}, "none")
updateUser == Unmarked("users.update")
resetPassword == Unmarked("users.resetPassword")
cancelRequest == Button("requests.cancel", "dialogBusy", {"dialogBusy"}, "mounted")

proposalButtons == {confirmProposal, cancelProposal}
wipListPage == proposalButtons \cup {autoArrange, lockWip, createWip}
wipDetailPage == {abortWip, createDispatch}
dispatchPage == {abortDispatch, startDispatch, exportResults, finalConfirm, recordResult}
equipmentPage == {saveEquipment}
recipesPage == {saveRecipe, addType, deleteRecipe}
reportCard == {generateReport}
inboxPage == {readAll, markRead}
dashboardInbox == {dismissNotifications}
accountsPage == {createUser, updateUser, resetPassword}
requestPage == {cancelRequest}

ActionPages == {wipListPage, wipDetailPage, dispatchPage, equipmentPage, recipesPage, reportCard,
                inboxPage, dashboardInbox, accountsPage, requestPage}
Buttons == UNION ActionPages

ASSUME ButtonsAssumption == None \notin Marks /\ None \notin Buttons

-----------------------------------------------------------------------------
Sends == 1..MaxSends
Closed == [button |-> None, row |-> None, opening |-> 0]
NoSend == [phase |-> "idle", button |-> None, row |-> None, visit |-> 0, opening |-> 0]

ActionsInit ==
  /\ page \in ActionPages
  /\ marks = [m \in Marks |-> None]
  /\ dialog = Closed
  /\ sends = [s \in Sends |-> NoSend]
  /\ visit = [page |-> 1, dialog |-> 0]

\* disabled={...}: a flag disables every row, an id only its own.
Disabled(by, r) == \E m \in by : IF m \in Flags THEN marks[m] # None ELSE marks[m] = r

\* The dialog is mounted, or its effect resets it; only the flag of the dialog itself.
Open(b, r) ==
  /\ b.dialog \in {"first", "kept", "mounted"} /\ dialog = Closed /\ ~Disabled(b.opener, r)
  /\ visit.dialog < MaxVisits
  /\ visit' = [visit EXCEPT !.dialog = @ + 1]
  /\ dialog' = [button |-> b, row |-> r, opening |-> visit.dialog + 1]
  /\ marks' = IF b.dialog = "first" THEN marks ELSE [marks EXCEPT !["dialogBusy"] = None]
  /\ UNCHANGED <<page, sends>>

\* The backdrop and the cross close it, busy or not.
Close ==
  /\ dialog # Closed /\ dialog' = Closed
  /\ marks' = IF dialog.button.dialog = "mounted" THEN [marks EXCEPT !["dialogBusy"] = None] ELSE marks
  /\ UNCHANGED <<page, sends, visit>>

\* Where the button is: on the page, which an open dialog covers, or in its dialog.
InReach(b, r) ==
  CASE b.dialog = "none" -> dialog = Closed
    [] b.dialog = "inside" -> dialog # Closed
    [] OTHER -> dialog.button = b /\ dialog.row = r

\* Defect variant: the button does not look at its mark.
PressAgain(b, r, s) ==
  /\ InReach(b, r) /\ sends[s] = NoSend
  /\ sends' = [sends EXCEPT ![s] = [phase |-> "sent", button |-> b, row |-> r,
                                    visit |-> visit.page, opening |-> dialog.opening]]
  /\ marks' = IF b.mark = None THEN marks ELSE [marks EXCEPT ![b.mark] = r]
  /\ dialog' = IF b.dialog = "first" THEN Closed ELSE dialog
  /\ UNCHANGED <<page, visit>>

PressButton(b, r, s) ==
  /\ InReach(b, r) /\ ~Disabled(b.disabledBy, r) /\ sends[s] = NoSend
  /\ sends' = [sends EXCEPT ![s] = [phase |-> "sent", button |-> b, row |-> r,
                                    visit |-> visit.page, opening |-> dialog.opening]]
  /\ marks' = IF b.mark = None THEN marks ELSE [marks EXCEPT ![b.mark] = r]
  /\ dialog' = IF b.dialog = "first" THEN Closed ELSE dialog
  /\ UNCHANGED <<page, visit>>

\* The server does what it is asked or refuses; a call that is lost fails like a refused one.
Served(s, outcome) ==
  /\ sends[s].phase = "sent"
  /\ sends' = [sends EXCEPT ![s].phase = outcome]
  /\ UNCHANGED <<page, marks, dialog, visit>>

\* Whether what sent the call is still there to hear the answer.
Hears(s) ==
  /\ sends[s].visit = visit.page
  /\ sends[s].button.dialog = "mounted" => dialog.opening = sends[s].opening

\* Defect variant: the mark is cleared on success only.
AnsweredOk(s) ==
  /\ sends[s].phase \in {"done", "refused"}
  /\ sends' = [sends EXCEPT ![s] = NoSend]
  /\ LET b == sends[s].button
     IN  /\ dialog' = IF sends[s].phase = "done" /\ sends[s].visit = visit.page
                         /\ b.dialog \in {"kept", "mounted"} THEN Closed ELSE dialog
         /\ marks' = IF b.mark # None /\ Hears(s) /\ sends[s].phase = "done"
                       THEN [marks EXCEPT ![b.mark] = None] ELSE marks
  /\ UNCHANGED <<page, visit>>

\* The handler goes on.  A saved dialog is closed by its page, which does not ask whether the
\* one that is open now is the one that was saved; `finally' clears the mark.
Answered(s) ==
  /\ sends[s].phase \in {"done", "refused"}
  /\ sends' = [sends EXCEPT ![s] = NoSend]
  /\ LET b == sends[s].button
         saved == sends[s].phase = "done" /\ sends[s].visit = visit.page
                  /\ b.dialog \in {"kept", "mounted"}
         cleared == (IF saved /\ b.dialog = "mounted" THEN {"dialogBusy"} ELSE {})
                    \cup (IF Hears(s) THEN {b.mark} ELSE {})
     IN  /\ dialog' = IF saved THEN Closed ELSE dialog
         /\ marks' = [m \in Marks |-> IF m \in cleared THEN None ELSE marks[m]]
  /\ UNCHANGED <<page, visit>>

\* The user leaves the page and comes back: its state is new, its calls are still under way.
LeavePage ==
  /\ visit.page < MaxVisits
  /\ visit' = [visit EXCEPT !.page = @ + 1]
  /\ marks' = [m \in Marks |-> None] /\ dialog' = Closed
  /\ UNCHANGED <<page, sends>>

ActionsNext ==
  \/ \E b \in page, r \in Rows : Open(b, r) \/ \E s \in Sends : PressButton(b, r, s)
  \/ Close \/ LeavePage
  \/ \E s \in Sends : Answered(s) \/ \E outcome \in {"done", "refused"} : Served(s, outcome)
ActionsSpec == ActionsInit /\ [][ActionsNext]_actionsVars

-----------------------------------------------------------------------------
(* Properties                                                               *)

InFlight(s) == sends[s].phase # "idle"

\* A button that is grey is grey for a call that is under way, and that the page still hears:
\* whatever fails, overtakes, or is closed and opened again, no button stays grey for good.
GreyButtonWaits ==
  \A m \in Marks : marks[m] # None =>
    \/ \E s \in Sends : InFlight(s) /\ Hears(s) /\ sends[s].button.mark = m /\ sends[s].row = marks[m]
    \/ m = "dialogBusy" /\ dialog = Closed

\* The flag of a page lets one call through per visit, and the flag of a dialog that is
\* mounted anew one per opening.  An id does not: the next row's press frees the last row's
\* button; neither does the flag of a dialog that is kept, which a late answer clears.
PressSendsOnce ==
  \A s, t \in Sends :
    /\ InFlight(s) /\ InFlight(t) /\ s # t
    /\ sends[s].button.mark \in Flags /\ sends[s].button.mark = sends[t].button.mark
    /\ sends[s].visit = sends[t].visit
    => /\ sends[s].button.mark = "dialogBusy"
       /\ sends[s].button.dialog = "kept" \/ sends[s].opening # sends[t].opening
=============================================================================
