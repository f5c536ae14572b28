---------------------------- MODULE PagesProofs ----------------------------
(***************************************************************************)
(* Proofs about what every page of the browser client uses: the data hooks, *)
(* for any keys, any number of open fetches and any number of changes of a  *)
(* row, and the buttons that act on the server, for any rows, any number of *)
(* calls in flight and any number of visits to a page.                      *)
(***************************************************************************)
EXTENDS PolledViews, PageActions, TLAPS

-----------------------------------------------------------------------------
(* The data hooks                                                           *)


Fetch == [phase : {"idle", "sent", "answered"}, key : Keys \cup {None},
          version : 0..LastVersion, dropped : BOOLEAN, guarded : BOOLEAN]
HookType == [polls : {"always", "open", "never"}, guarded : BOOLEAN, keyed : BOOLEAN,
             spins : BOOLEAN]

\* The one fact about the hooks that are there: a view whose key can change, and that drops
\* the answers to its old keys, does not poll (a poll's answer is never dropped).
LEMMA GuardedKeyedHooksNeverPoll ==
  ASSUME NEW h \in Hooks
  PROVE  h \in HookType /\ (h.guarded /\ h.keyed => h.polls = "never")
<1>1. \/ h \in {Hook("never", FALSE, FALSE, TRUE), Hook("always", FALSE, FALSE, TRUE),
                Hook("always", FALSE, FALSE, FALSE), Hook("never", TRUE, FALSE, TRUE),
                Hook("always", TRUE, FALSE, FALSE), Hook("open", TRUE, FALSE, TRUE)}
      \/ h \in {Hook("open", FALSE, FALSE, FALSE), Hook("always", TRUE, FALSE, TRUE),
                Hook("never", FALSE, TRUE, TRUE), Hook("never", TRUE, TRUE, TRUE)}
  BY DEF Hooks, Once, Always, AlwaysQuietly, fabExperimentTypes, fabRequests, fabRequestSummary,
         fabInProgressRequests, fabUnreadNotifications, fabRequestDetail, fabSampleExperiments,
         unreadCount, labDispatchCreationData, labWipCreationData, labExperimentTypes,
         labEquipment, labDispatchDetail, labDispatches, labWipDetail, labWips, labWipProposals,
         labWaferDetail, labDashboardData, labSamples, mgrRequests, mgrDashboardData,
         mgrDashboardStats, mgrDashboardChart, mgrRecentActivity, mgrEquipmentAlerts,
         mgrExperimentTypes, mgrRecipes, mgrRequestDetail, mgrReports, sharedUseData
<1>2. ASSUME NEW p \in {"always", "open", "never"}, NEW g \in BOOLEAN, NEW k \in BOOLEAN,
             NEW s \in BOOLEAN, h = Hook(p, g, k, s), g /\ k => p = "never"
      PROVE  h \in HookType /\ (h.guarded /\ h.keyed => h.polls = "never")
  <2>1. h \in HookType
    BY <1>2 DEF Hook, HookType
  <2>2. h.guarded = g /\ h.keyed = k /\ h.polls = p
    BY <1>2 DEF Hook
  <2> QED
    BY <1>2, <2>1, <2>2
<1> QED
  BY <1>1, <1>2

\* What is still to come may be shown: it is for the key the page asks for now; and while the
\* key can change, every open fetch is one that a change drops.
FetchesFollowTheKey ==
  /\ hook.guarded => \A s \in Slots :
       fetches[s].phase # "idle" /\ ~fetches[s].dropped => fetches[s].key = key
  /\ hook.guarded /\ hook.keyed => \A s \in Slots :
       fetches[s].phase # "idle" => fetches[s].guarded
  /\ \A s \in Slots : fetches[s].phase # "idle" => fetches[s].key \in Keys

ViewsInv == ViewsTypeOK /\ FetchesFollowTheKey /\ GuardedViewShowsItsKey

LEMMA FetchTypes ==
  ASSUME NEW k \in Keys, NEW b \in BOOLEAN
  PROVE  NoFetch \in Fetch /\ Sent(k, b) \in Fetch
<1>1. NoFetch \in Fetch
  BY ViewsAssumption DEF NoFetch, Fetch
<1> QED
  BY <1>1 DEF Sent, Fetch

LEMMA ViewsInvInit == ViewsInit => ViewsInv
<1> SUFFICES ASSUME ViewsInit PROVE ViewsInv
  OBVIOUS
<1>1. hook \in HookType
  BY GuardedKeyedHooksNeverPoll DEF ViewsInit
<1>2. fetches \in [Slots -> Fetch]
  BY <1>1, FetchTypes DEF ViewsInit, HookType
<1>3. ViewsTypeOK
  <2>1. server \in [Keys -> 0..LastVersion]
    BY ViewsAssumption DEF ViewsInit
  <2> QED
    BY <1>2, <2>1 DEF ViewsInit, ViewsTypeOK, Fetch
<1>4. FetchesFollowTheKey
  BY DEF ViewsInit, FetchesFollowTheKey, NoFetch, Sent
<1> QED
  BY <1>3, <1>4 DEF ViewsInv, GuardedViewShowsItsKey, ViewsInit

LEMMA ViewsInvStep == ViewsInv /\ [ViewsNext]_viewsVars => ViewsInv'
<1> SUFFICES ASSUME ViewsInv, [ViewsNext]_viewsVars PROVE ViewsInv'
  OBVIOUS
<1> USE DEF ViewsInv
<1>t. hook \in Hooks /\ hook \in HookType /\ (hook.guarded /\ hook.keyed => hook.polls = "never")
  BY GuardedKeyedHooksNeverPoll DEF ViewsTypeOK
<1>f. fetches \in [Slots -> Fetch]
  BY DEF ViewsTypeOK, Fetch
<1>1. ASSUME NEW k \in Keys, RowChanges(k) PROVE ViewsInv'
  <2>1. ViewsTypeOK'
    BY <1>1, ViewsAssumption DEF RowChanges, ViewsTypeOK
  <2> QED
    BY <1>1, <2>1 DEF RowChanges, FetchesFollowTheKey, GuardedViewShowsItsKey
<1>2. ASSUME NEW s \in Slots, Poll(s) PROVE ViewsInv'
  <2>1. fetches' \in [Slots -> Fetch]
    BY <1>2, <1>f, FetchTypes DEF Poll, ViewsTypeOK
  <2>2. ViewsTypeOK'
    BY <1>2, <1>t, <2>1 DEF Poll, ViewsTypeOK, Fetch, HookType
  <2>3. FetchesFollowTheKey'
    <3>1. hook.polls # "never" /\ ~(hook.guarded /\ hook.keyed)
      BY <1>2, <1>t DEF Poll, Polls
    <3>2. Sent(key, FALSE).key = key
      BY DEF Sent, NoFetch
    <3> QED
      BY <1>2, <1>f, <3>1, <3>2 DEF Poll, FetchesFollowTheKey, ViewsTypeOK
  <2> QED
    BY <1>2, <2>2, <2>3 DEF Poll, GuardedViewShowsItsKey
<1>3. ASSUME NEW s \in Slots, NEW k \in Keys, ChangeKey(s, k) PROVE ViewsInv'
  <2> DEFINE others == [t \in Slots |-> IF t = s THEN Sent(k, hook.guarded)
                                        ELSE [fetches[t] EXCEPT !.dropped = fetches[t].guarded]]
  <2>1. \A t \in Slots : others[t] \in Fetch
    BY <1>t, <1>f, FetchTypes DEF Fetch, HookType
  <2>2. ViewsTypeOK'
    BY <1>3, <2>1 DEF ChangeKey, ViewsTypeOK, Fetch
  \* Every fetch that was open is guarded, so it is dropped; the new one is for the new key.
  <2>3. hook.guarded => \A t \in Slots : others[t].phase # "idle" =>
          others[t].guarded /\ (~others[t].dropped => others[t].key = k)
    BY <1>3, <1>f DEF ChangeKey, FetchesFollowTheKey, Sent, NoFetch, Fetch
  <2>4. FetchesFollowTheKey'
    <3>1. \A t \in Slots : others[t].phase # "idle" => others[t].key \in Keys
      BY <1>3, <1>f DEF ChangeKey, FetchesFollowTheKey, Sent, NoFetch, Fetch
    <3>2. hook' = hook /\ key' = k /\ fetches' = others
      BY <1>3 DEF ChangeKey
    <3> HIDE DEF others
    <3> QED
      BY <2>3, <3>1, <3>2 DEF FetchesFollowTheKey
  <2> QED
    BY <1>3, <2>2, <2>4 DEF ChangeKey, GuardedViewShowsItsKey
<1>4. ASSUME NEW s \in Slots, ServerAnswers(s) PROVE ViewsInv'
  <2>1. fetches' \in [Slots -> Fetch]
    <3> DEFINE f == [fetches[s] EXCEPT !.phase = "answered", !.version = server[fetches[s].key]]
    <3>1. fetches[s] \in Fetch /\ fetches[s].key \in Keys
      BY <1>4, <1>f DEF ServerAnswers, FetchesFollowTheKey
    <3>2. server[fetches[s].key] \in 0..LastVersion
      BY <3>1 DEF ViewsTypeOK
    <3>3. f \in Fetch
      BY <3>1, <3>2 DEF Fetch
    <3>4. fetches' = [fetches EXCEPT ![s] = f]
      BY <1>4 DEF ServerAnswers
    <3> HIDE DEF f
    <3> QED
      BY <1>f, <3>3, <3>4
  <2>2. ViewsTypeOK'
    BY <1>4, <2>1 DEF ServerAnswers, ViewsTypeOK, Fetch
  <2>3. FetchesFollowTheKey'
    BY <1>4, <1>f DEF ServerAnswers, FetchesFollowTheKey, Fetch
  <2> QED
    BY <1>4, <2>2, <2>3 DEF ServerAnswers, GuardedViewShowsItsKey
<1>5. ASSUME NEW s \in Slots, Arrive(s) PROVE ViewsInv'
  <2>1. fetches' \in [Slots -> Fetch]
    BY <1>5, <1>f, FetchTypes DEF Arrive, ViewsTypeOK
  <2>2. ViewsTypeOK'
    <3>1. fetches[s].key \in Keys /\ fetches[s].version \in 0..LastVersion
      BY <1>5, <1>f DEF Arrive, FetchesFollowTheKey, Fetch
    <3>2. shown' \in [key : Keys, version : 0..LastVersion] \cup {None}
      BY <1>5, <3>1 DEF Arrive, ViewsTypeOK
    <3> QED
      BY <1>5, <2>1, <3>2 DEF Arrive, ViewsTypeOK, Fetch
  <2>3. FetchesFollowTheKey'
    BY <1>5, <1>f DEF Arrive, FetchesFollowTheKey, NoFetch
  <2>4. GuardedViewShowsItsKey'
    <3>1. CASE fetches[s].dropped
      BY <1>5, <3>1 DEF Arrive, GuardedViewShowsItsKey
    <3>2. CASE ~fetches[s].dropped
      <4>1. hook.guarded => fetches[s].key = key
        BY <1>5, <3>2 DEF Arrive, FetchesFollowTheKey
      <4>2. shown'.key = fetches[s].key /\ shown' # None
        <5>1. shown' = [key |-> fetches[s].key, version |-> fetches[s].version]
          BY <1>5, <3>2 DEF Arrive
        <5>2. shown' \in [key : Keys, version : 0..LastVersion]
          BY <1>5, <5>1, <1>f DEF Arrive, FetchesFollowTheKey, Fetch
        <5> QED
          BY <5>1, <5>2, ViewsAssumption
      <4> QED
        BY <1>5, <4>1, <4>2 DEF Arrive, GuardedViewShowsItsKey
    <3> QED
      BY <3>1, <3>2
  <2> QED
    BY <2>2, <2>3, <2>4
<1>6. ASSUME NEW s \in Slots, FetchFails(s) PROVE ViewsInv'
  <2>1. fetches' \in [Slots -> Fetch]
    BY <1>6, <1>f, FetchTypes DEF FetchFails, ViewsTypeOK
  <2>2. ViewsTypeOK'
    BY <1>6, <2>1 DEF FetchFails, ViewsTypeOK, Fetch
  <2>3. FetchesFollowTheKey'
    BY <1>6, <1>f DEF FetchFails, FetchesFollowTheKey, NoFetch
  <2> QED
    BY <1>6, <2>2, <2>3 DEF FetchFails, GuardedViewShowsItsKey
<1>7. CASE UNCHANGED viewsVars
  BY <1>7 DEF viewsVars, ViewsTypeOK, FetchesFollowTheKey, GuardedViewShowsItsKey
<1> QED
  BY <1>1, <1>2, <1>3, <1>4, <1>5, <1>6, <1>7 DEF ViewsNext

\* A view that has loaded shows the key asked for last, however many fetches are open and in
\* whatever order they are answered or fail (useData and the hooks of the pages).
THEOREM LoadedViewShowsItsKey == ViewsSpec => []GuardedViewShowsItsKey
<1>1. ViewsInv => GuardedViewShowsItsKey
  BY DEF ViewsInv
<1> QED
  BY <1>1, ViewsInvInit, ViewsInvStep, PTL DEF ViewsSpec


-----------------------------------------------------------------------------
(* What the pages' buttons have in common                                   *)

\* The flags of pages, which are not reset by a dialog.
PageFlags == Flags \ {"dialogBusy"}

\* A button greys itself, or is in a dialog that opens only while it is not grey; a dialog's
\* own flag belongs to the button that saves it.
ButtonOK(b) ==
  /\ b.mark \in Marks \cup {None} /\ b.disabledBy \subseteq Marks /\ b.opener \subseteq Marks
  /\ b.dialog \in {"none", "first", "kept", "mounted", "inside"}
  /\ b.mark \in PageFlags => b.dialog \in {"none", "first"}
  /\ b.mark \in PageFlags =>
       b.mark \in b.disabledBy \/ (b.dialog = "first" /\ b.mark \in b.opener)
  /\ b.mark = "dialogBusy" => b.dialog \in {"kept", "mounted"}
  /\ b.dialog = "mounted" => b.mark = "dialogBusy" /\ "dialogBusy" \in b.disabledBy
  /\ b.dialog = "inside" => b.mark = None

\* A page's dialogs are all kept, all mounted, or closed by the press.
PageOK(p) ==
  /\ \A b \in p : ButtonOK(b)
  /\ \A b, c \in p : b.dialog = "kept" => c.dialog # "mounted"
  /\ \A b, c \in p : b.dialog = "first" => c.mark # "dialogBusy"

LEMMA ButtonFields ==
  ASSUME NEW call, NEW mark, NEW by, NEW kind
  PROVE  LET b == Button(call, mark, by, kind)
         IN  b.mark = mark /\ b.disabledBy = by /\ b.dialog = kind /\ b.opener = {}
BY DEF Button

LEMMA OpenedFields ==
  ASSUME NEW call, NEW mark, NEW by, NEW kind, NEW opener
  PROVE  LET b == OpenedBy(Button(call, mark, by, kind), opener)
         IN  b.mark = mark /\ b.disabledBy = by /\ b.dialog = kind /\ b.opener = opener
BY DEF Button, OpenedBy

\* The three kinds of buttons that no dialog has.
LEMMA PlainButtonOK ==
  ASSUME NEW call
  PROVE  /\ ButtonOK(RunAction(call)) /\ RunAction(call).dialog = "none"
         /\ RunAction(call).mark # "dialogBusy"
         /\ ButtonOK(Unmarked(call)) /\ Unmarked(call).dialog = "none"
         /\ Unmarked(call).mark # "dialogBusy"
<1>1. None \notin Marks /\ "dialogBusy" \in Marks /\ "busy" \in Marks
  BY ButtonsAssumption DEF Marks, Flags
<1>2. ButtonOK(RunAction(call)) /\ RunAction(call).dialog = "none" /\ RunAction(call).mark = "busy"
  BY <1>1, ButtonFields DEF RunAction, ButtonOK
<1>3. ButtonOK(Unmarked(call)) /\ Unmarked(call).dialog = "none" /\ Unmarked(call).mark = None
  BY <1>1, ButtonFields DEF Unmarked, ButtonOK, PageFlags, Flags, Marks
<1> QED
  BY <1>1, <1>2, <1>3

\* A page of buttons without a dialog.
LEMMA PlainPageOK ==
  ASSUME NEW p, \A b \in p : ButtonOK(b) /\ b.dialog = "none" /\ b.mark # "dialogBusy"
  PROVE  PageOK(p)
BY DEF PageOK

LEMMA WipListOK == PageOK(wipListPage)
<1> USE ButtonFields DEF ButtonOK, PageFlags, Flags, RowMarks, Marks
<1>1. ButtonOK(autoArrange) /\ autoArrange.dialog = "none"
  BY DEF autoArrange
<1>2. ButtonOK(confirmProposal) /\ confirmProposal.dialog = "none"
  BY DEF confirmProposal
<1>3. ButtonOK(cancelProposal) /\ cancelProposal.dialog = "none"
  BY DEF cancelProposal
<1>4. ButtonOK(lockWip) /\ lockWip.dialog = "none"
  BY DEF lockWip
<1>5. ButtonOK(createWip) /\ createWip.dialog = "mounted"
  BY DEF createWip
<1> HIDE DEF ButtonOK
<1> QED
  BY <1>1, <1>2, <1>3, <1>4, <1>5 DEF PageOK, wipListPage, proposalButtons

LEMMA WipDetailOK == PageOK(wipDetailPage)
<1>1. ButtonOK(abortWip) /\ abortWip.dialog = "none"
  BY PlainButtonOK DEF abortWip
<1>2. ButtonOK(createDispatch) /\ createDispatch.dialog = "mounted"
  BY OpenedFields DEF createDispatch, ButtonOK, PageFlags, Flags, Marks
<1> QED
  BY <1>1, <1>2 DEF PageOK, wipDetailPage

LEMMA DispatchOK == PageOK(dispatchPage)
<1>1. ASSUME NEW b \in {abortDispatch, startDispatch, exportResults, finalConfirm}
      PROVE  ButtonOK(b) /\ b.dialog = "none" /\ b.mark # "dialogBusy"
  BY <1>1, PlainButtonOK DEF abortDispatch, startDispatch, exportResults, finalConfirm
<1>2. ButtonOK(recordResult) /\ recordResult.dialog = "first" /\ recordResult.mark = "busy"
  BY OpenedFields DEF recordResult, ButtonOK, PageFlags, Flags, Marks
<1> QED
  BY <1>1, <1>2 DEF PageOK, dispatchPage

LEMMA RecipesOK == PageOK(recipesPage)
<1>1. ButtonOK(saveRecipe) /\ saveRecipe.dialog = "kept"
  BY OpenedFields DEF saveRecipe, ButtonOK, PageFlags, Flags, RowMarks, Marks
<1>2. ButtonOK(addType) /\ addType.dialog = "inside"
  BY ButtonFields, ButtonsAssumption DEF addType, ButtonOK, PageFlags, Flags, RowMarks, Marks
<1>3. ButtonOK(deleteRecipe) /\ deleteRecipe.dialog = "none"
  BY ButtonFields DEF deleteRecipe, ButtonOK, PageFlags, Flags, RowMarks, Marks
<1> QED
  BY <1>1, <1>2, <1>3 DEF PageOK, recipesPage

LEMMA AccountsOK == PageOK(accountsPage)
<1>1. ButtonOK(createUser) /\ createUser.dialog = "none" /\ createUser.mark # "dialogBusy"
  BY ButtonFields DEF createUser, ButtonOK, PageFlags, Flags, Marks
<1>2. ASSUME NEW b \in {updateUser, resetPassword}
      PROVE  ButtonOK(b) /\ b.dialog = "none" /\ b.mark # "dialogBusy"
  BY <1>2, PlainButtonOK DEF updateUser, resetPassword
<1> QED
  BY <1>1, <1>2 DEF PageOK, accountsPage

LEMMA PagesAreOK == \A p \in ActionPages : PageOK(p)
<1>1. PageOK(equipmentPage)
  <2>1. ButtonOK(saveEquipment) /\ saveEquipment.dialog = "kept"
    BY ButtonFields DEF saveEquipment, ButtonOK, PageFlags, Flags, Marks
  <2> QED
    BY <2>1 DEF PageOK, equipmentPage
<1>2. PageOK(requestPage)
  <2>1. ButtonOK(cancelRequest) /\ cancelRequest.dialog = "mounted"
    BY ButtonFields DEF cancelRequest, ButtonOK, PageFlags, Flags, Marks
  <2> QED
    BY <2>1 DEF PageOK, requestPage
<1>3. PageOK(reportCard)
  BY PlainButtonOK, PlainPageOK DEF reportCard, generateReport
<1>4. PageOK(inboxPage)
  BY PlainButtonOK, PlainPageOK DEF inboxPage, readAll, markRead
<1>5. PageOK(dashboardInbox)
  BY PlainButtonOK, PlainPageOK DEF dashboardInbox, dismissNotifications
<1> QED
  BY <1>1, <1>2, <1>3, <1>4, <1>5, WipListOK, WipDetailOK, DispatchOK, RecipesOK, AccountsOK
  DEF ActionPages

-----------------------------------------------------------------------------
(* The invariant                                                            *)

SendRec == [phase : {"idle", "sent", "done", "refused"}, button : Buttons \cup {None},
            row : Rows \cup {None}, visit : Nat, opening : Nat]

ActionsType ==
  /\ page \in ActionPages
  /\ marks \in [Marks -> Rows \cup {None}]
  /\ dialog \in [button : page \cup {None}, row : Rows \cup {None}, opening : Nat]
  /\ sends \in [Sends -> SendRec]
  /\ visit \in [page : Nat, dialog : Nat]

\* A dialog is open for a button of the page, which was not grey when it opened and is not yet.
DialogOK ==
  dialog # Closed =>
    /\ dialog.button \in page /\ dialog.button.dialog \in {"first", "kept", "mounted"}
    /\ 0 < dialog.opening /\ dialog.opening <= visit.dialog
    /\ \A m \in dialog.button.opener \cap PageFlags : marks[m] = None

\* A call in flight is one of a button of this page, of a visit and an opening so far.
SendsOK ==
  \A s \in Sends : InFlight(s) =>
    /\ sends[s].button \in page /\ sends[s].row \in Rows
    /\ sends[s].visit <= visit.page /\ sends[s].opening <= visit.dialog
    /\ sends[s].button.dialog = "mounted" => sends[s].opening # 0

\* The flag of a page is up while a call of this visit is in flight.
FlagsHeld ==
  \A s \in Sends :
    InFlight(s) /\ sends[s].button.mark \in PageFlags /\ sends[s].visit = visit.page
      => marks[sends[s].button.mark] # None

\* The flag of a mounted dialog is up while a call of this opening is in flight.
DialogHeld ==
  \A s \in Sends :
    InFlight(s) /\ sends[s].button.dialog = "mounted" /\ Hears(s) => marks["dialogBusy"] # None

\* Only a button of the page sets a mark.
MarksBelong == \A m \in Marks : marks[m] # None => \E b \in page : b.mark = m

ActionsInv ==
  /\ ActionsType /\ DialogOK /\ SendsOK /\ FlagsHeld /\ DialogHeld /\ MarksBelong
  /\ GreyButtonWaits /\ PressSendsOnce

-----------------------------------------------------------------------------
(* Facts the steps share                                                    *)

\* The buttons of the page, and the names of the marks.
LEMMA PageFacts ==
  ASSUME ActionsType
  PROVE  /\ \A b \in page : ButtonOK(b) /\ b \in Buttons /\ b # None
         /\ \A b, c \in page : b.dialog = "kept" => c.dialog # "mounted"
         /\ \A b, c \in page : b.dialog = "first" => c.mark # "dialogBusy"
         /\ "dialogBusy" \in Marks /\ "dialogBusy" \notin PageFlags
         /\ PageFlags \subseteq Marks /\ PageFlags \subseteq Flags
         /\ Flags = PageFlags \cup {"dialogBusy"} /\ None \notin Marks /\ None \notin Rows
<1>1. PageOK(page)
  BY PagesAreOK DEF ActionsType
<1>2. page \subseteq Buttons /\ None \notin Buttons /\ None \notin Marks /\ None \notin Rows
  BY ButtonsAssumption, ActionsAssumption DEF ActionsType, Buttons
<1> QED
  BY <1>1, <1>2 DEF PageOK, PageFlags, Flags, Marks

\* A button that can be pressed: where it is, and what is clear.
LEMMA PressFacts ==
  ASSUME ActionsType, DialogOK, NEW b \in page, NEW r \in Rows,
         InReach(b, r), ~Disabled(b.disabledBy, r)
  PROVE  /\ b.dialog = "none" => dialog = Closed
         /\ b.dialog \in {"first", "kept", "mounted"} => dialog # Closed /\ dialog.button = b
         /\ b.mark \in PageFlags => marks[b.mark] = None
         /\ b.dialog = "mounted" => marks["dialogBusy"] = None
<1> USE PageFacts
<1>1. ButtonOK(b) /\ b # None
  OBVIOUS
<1>2. b.dialog = "none" => dialog = Closed
  BY DEF InReach
<1>3. ASSUME b.dialog \in {"first", "kept", "mounted"}
      PROVE  dialog # Closed /\ dialog.button = b
  <2>1. dialog.button = b
    BY <1>3 DEF InReach
  <2> QED
    BY <2>1, <1>1 DEF Closed
<1>4. \A m \in b.disabledBy \cap Flags : marks[m] = None
  BY DEF Disabled
<1>5. ASSUME b.mark \in PageFlags  PROVE marks[b.mark] = None
  <2>1. CASE b.mark \in b.disabledBy
    BY <2>1, <1>4, <1>5
  <2>2. CASE b.dialog = "first" /\ b.mark \in b.opener
    BY <2>2, <1>3, <1>5 DEF DialogOK
  <2> QED
    BY <1>1, <1>5, <2>1, <2>2 DEF ButtonOK
<1>6. b.dialog = "mounted" => marks["dialogBusy"] = None
  BY <1>1, <1>4 DEF ButtonOK
<1> QED
  BY <1>2, <1>3, <1>5, <1>6

\* A call of a mounted dialog is not heard while no dialog is open.
LEMMA ClosedHearsNoMounted ==
  ASSUME ActionsType, SendsOK, NEW s \in Sends, InFlight(s), Hears(s), dialog.opening = 0
  PROVE  sends[s].button.dialog # "mounted"
BY DEF SendsOK, Hears

-----------------------------------------------------------------------------
(* The steps                                                                *)

LEMMA PressKeeps ==
  ASSUME ActionsInv, NEW b \in page, NEW r \in Rows, NEW s \in Sends, PressButton(b, r, s)
  PROVE  ActionsInv'
<1> USE PageFacts DEF ActionsInv
<1>1. ButtonOK(b) /\ b # None /\ b \in Buttons /\ r # None
  OBVIOUS
<1>2. /\ b.dialog = "none" => dialog = Closed
      /\ b.dialog \in {"first", "kept", "mounted"} => dialog # Closed /\ dialog.button = b
      /\ b.mark \in PageFlags => marks[b.mark] = None
      /\ b.dialog = "mounted" => marks["dialogBusy"] = None
  BY PressFacts DEF PressButton
<1>3. /\ sends'[s].phase = "sent" /\ sends'[s].button = b /\ sends'[s].row = r
      /\ sends'[s].visit = visit.page /\ sends'[s].opening = dialog.opening
      /\ \A t \in Sends : t # s => sends'[t] = sends[t]
      /\ ~InFlight(s) /\ InFlight(s)'
      /\ \A t \in Sends : t # s => (InFlight(t)' <=> InFlight(t))
  BY DEF PressButton, ActionsType, SendRec, InFlight, NoSend
<1>4. /\ page' = page /\ visit' = visit
      /\ dialog' = dialog \/ dialog' = Closed
      /\ dialog' = IF b.dialog = "first" THEN Closed ELSE dialog
      /\ \A m \in Marks : marks'[m] = IF m = b.mark THEN r ELSE marks[m]
  BY <1>1 DEF PressButton, ActionsType, ButtonOK
<1>5. ActionsType'
  <2>1. dialog' \in [button : page \cup {None}, row : Rows \cup {None}, opening : Nat]
    BY <1>4 DEF ActionsType, Closed
  <2>2. marks' \in [Marks -> Rows \cup {None}]
    BY <1>1 DEF ActionsType, PressButton, ButtonOK
  <2>3. sends' \in [Sends -> SendRec]
    BY <1>1 DEF ActionsType, PressButton, SendRec
  <2> QED
    BY <1>4, <2>1, <2>2, <2>3 DEF ActionsType
<1>6. DialogOK'
  <2>1. SUFFICES ASSUME dialog' # Closed, NEW m \in dialog'.button.opener \cap PageFlags
                 PROVE  m # b.mark
    BY <1>4, <2>1 DEF DialogOK
  <2>2. dialog' = dialog /\ b.dialog # "first"
    BY <1>4, <2>1
  <2> QED
    BY <1>1, <1>2, <2>1, <2>2 DEF ButtonOK
<1>7. SendsOK'
  <2>1. dialog.opening <= visit.dialog
    BY DEF DialogOK, Closed, ActionsType
  <2>2. b.dialog = "mounted" => dialog.opening # 0
    BY <1>2 DEF DialogOK, ActionsType
  <2> QED
    BY <1>3, <1>4, <2>1, <2>2 DEF SendsOK, ActionsType
<1>8. FlagsHeld'
  BY <1>1, <1>3, <1>4 DEF FlagsHeld
<1>9. DialogHeld'
  <2>1. SUFFICES ASSUME NEW t \in Sends, InFlight(t)', sends'[t].button.dialog = "mounted", Hears(t)'
                 PROVE  marks'["dialogBusy"] # None
    BY DEF DialogHeld
  <2>2. CASE t = s
    BY <1>1, <1>3, <1>4, <2>1, <2>2 DEF ButtonOK
  <2>3. CASE t # s
    <3>1. InFlight(t) /\ sends[t].button.dialog = "mounted" /\ sends'[t] = sends[t]
      BY <1>3, <2>1, <2>3
    <3>2. dialog' = dialog
      <4>1. dialog'.opening # 0
        BY <2>1, <3>1 DEF Hears, SendsOK
      <4> QED
        BY <1>4, <4>1 DEF Closed
    <3>3. Hears(t)
      BY <1>4, <2>1, <3>1, <3>2 DEF Hears
    <3> QED
      BY <1>1, <1>4, <3>1, <3>3 DEF DialogHeld
  <2> QED
    BY <2>2, <2>3
<1>10. MarksBelong'
  BY <1>4 DEF MarksBelong
<1>11. GreyButtonWaits'
  <2>1. SUFFICES ASSUME NEW m \in Marks, marks'[m] # None
                 PROVE \/ \E t \in Sends : /\ InFlight(t)' /\ Hears(t)' /\ sends'[t].button.mark = m
                                           /\ sends'[t].row = marks'[m]
                       \/ m = "dialogBusy" /\ dialog' = Closed
    BY DEF GreyButtonWaits
  <2>2. CASE m = b.mark
    <3>1. Hears(s)'
      BY <1>3, <1>4 DEF Hears
    <3> QED
      BY <1>3, <1>4, <2>2, <3>1
  <2>3. CASE m # b.mark
    <3>1. marks'[m] = marks[m] /\ marks[m] # None
      BY <1>4, <2>1, <2>3
    <3>2. CASE m = "dialogBusy" /\ dialog = Closed
      BY <1>4, <3>2
    <3>3. ASSUME NEW t \in Sends, InFlight(t), Hears(t), sends[t].button.mark = m,
                 sends[t].row = marks[m]
          PROVE  Hears(t)' \/ (m = "dialogBusy" /\ dialog' = Closed)
      <4>1. t # s /\ sends'[t] = sends[t]
        BY <1>3, <3>3
      <4>2. sends[t].button.dialog = "mounted" => m = "dialogBusy"
        BY <3>3 DEF SendsOK, ButtonOK
      <4> QED
        BY <1>4, <3>3, <4>1, <4>2 DEF Hears
    <3> QED
      BY <1>3, <3>1, <3>2, <3>3 DEF GreyButtonWaits
  <2> QED
    BY <2>2, <2>3
<1>12. PressSendsOnce'
  <2>1. ASSUME NEW t \in Sends, t # s, InFlight(t), sends[t].button.mark = b.mark,
               b.mark \in Flags, sends[t].visit = visit.page
        PROVE  /\ b.mark = "dialogBusy"
               /\ \/ b.dialog = "kept" /\ sends[t].button.dialog = "kept"
                  \/ sends[t].opening # dialog.opening
    <3>1. b.mark = "dialogBusy"
      BY <1>2, <2>1 DEF FlagsHeld
    <3>2. b.dialog \in {"kept", "mounted"} /\ sends[t].button \in page
          /\ sends[t].button.dialog \in {"kept", "mounted"}
      BY <1>1, <2>1, <3>1 DEF SendsOK, ButtonOK
    <3>3. ASSUME b.dialog = "mounted", sends[t].opening = dialog.opening PROVE FALSE
      <4>1. sends[t].button.dialog = "mounted"
        BY <3>2, <3>3
      <4>2. Hears(t)
        BY <2>1, <3>3 DEF Hears
      <4> QED
        BY <1>2, <2>1, <3>3, <4>1, <4>2 DEF DialogHeld
    <3> QED
      BY <3>1, <3>2, <3>3
  <2> QED
    BY <1>3, <2>1 DEF PressSendsOnce
<1> QED
  BY <1>5, <1>6, <1>7, <1>8, <1>9, <1>10, <1>11, <1>12

LEMMA OpenKeeps ==
  ASSUME ActionsInv, NEW b \in page, NEW r \in Rows, Open(b, r)
  PROVE  ActionsInv'
<1> USE PageFacts DEF ActionsInv
<1>1. ButtonOK(b) /\ b # None /\ b.dialog \in {"first", "kept", "mounted"}
  BY DEF Open
<1>2. /\ page' = page /\ sends' = sends /\ dialog = Closed
      /\ visit'.page = visit.page /\ visit'.dialog = visit.dialog + 1
      /\ dialog'.button = b /\ dialog'.opening = visit.dialog + 1
      /\ \A m \in PageFlags : marks'[m] = marks[m]
      /\ \A m \in Marks : m # "dialogBusy" => marks'[m] = marks[m]
      /\ marks'["dialogBusy"] = None
  <2>1. b.dialog = "first" => marks["dialogBusy"] = None
    BY DEF MarksBelong
  <2> QED
    BY <2>1 DEF Open, ActionsType
<1>3. visit.page \in Nat /\ visit.dialog \in Nat
  BY DEF ActionsType
<1>4. ActionsType'
  BY <1>2 DEF ActionsType, Open
<1>5. DialogOK'
  <2>1. \A m \in b.opener \cap PageFlags : marks[m] = None
    BY DEF Open, Disabled
  <2> QED
    BY <1>1, <1>2, <1>3, <2>1 DEF DialogOK
<1>6. SendsOK'
  BY <1>2, <1>3 DEF SendsOK, InFlight, ActionsType, SendRec
<1>7. FlagsHeld'
  BY <1>2 DEF FlagsHeld, InFlight
<1>8. \A t \in Sends : InFlight(t) => sends[t].opening \in Nat /\ sends[t].opening <= visit.dialog
  BY DEF SendsOK, ActionsType, SendRec
<1>9. DialogHeld'
  BY <1>2, <1>3, <1>8 DEF DialogHeld, Hears, InFlight
<1>10. MarksBelong'
  BY <1>2 DEF MarksBelong
<1>11. GreyButtonWaits'
  <2>1. SUFFICES ASSUME NEW m \in Marks, marks'[m] # None
                 PROVE \E t \in Sends : /\ InFlight(t)' /\ Hears(t)' /\ sends'[t].button.mark = m
                                        /\ sends'[t].row = marks'[m]
    BY DEF GreyButtonWaits
  <2>2. m # "dialogBusy" /\ marks'[m] = marks[m]
    BY <1>2, <2>1
  <2>3. PICK t \in Sends : InFlight(t) /\ Hears(t) /\ sends[t].button.mark = m
                           /\ sends[t].row = marks[m]
    BY <2>1, <2>2 DEF GreyButtonWaits
  <2>4. sends[t].button.dialog # "mounted"
    BY <2>2, <2>3 DEF SendsOK, ButtonOK
  <2> QED
    BY <1>2, <2>2, <2>3, <2>4 DEF Hears, InFlight
<1>12. PressSendsOnce'
  BY <1>2 DEF PressSendsOnce, InFlight
<1> QED
  BY <1>4, <1>5, <1>6, <1>7, <1>9, <1>10, <1>11, <1>12

LEMMA CloseKeeps ==
  ASSUME ActionsInv, Close
  PROVE  ActionsInv'
<1> USE PageFacts DEF ActionsInv
<1>1. /\ page' = page /\ sends' = sends /\ visit' = visit /\ dialog' = Closed
      /\ \A m \in Marks : m # "dialogBusy" => marks'[m] = marks[m]
      /\ marks'["dialogBusy"] \in {marks["dialogBusy"], None}
  BY DEF Close, ActionsType
<1>2. ActionsType'
  BY DEF ActionsType, Close, Closed
<1>3. DialogOK' /\ SendsOK' /\ FlagsHeld' /\ MarksBelong' /\ PressSendsOnce'
  BY <1>1 DEF DialogOK, SendsOK, FlagsHeld, MarksBelong, PressSendsOnce, InFlight
<1>4. DialogHeld'
  BY <1>1 DEF DialogHeld, SendsOK, InFlight, Hears, Closed
<1>5. GreyButtonWaits'
  <2>1. SUFFICES ASSUME NEW m \in Marks, marks'[m] # None, m # "dialogBusy"
                 PROVE \E t \in Sends : /\ InFlight(t)' /\ Hears(t)' /\ sends'[t].button.mark = m
                                        /\ sends'[t].row = marks'[m]
    BY <1>1 DEF GreyButtonWaits
  <2>2. PICK t \in Sends : InFlight(t) /\ Hears(t) /\ sends[t].button.mark = m
                           /\ sends[t].row = marks[m]
    BY <1>1, <2>1 DEF GreyButtonWaits
  <2>3. sends[t].button.dialog # "mounted"
    BY <2>1, <2>2 DEF SendsOK, ButtonOK
  <2> QED
    BY <1>1, <2>1, <2>2, <2>3 DEF Hears, InFlight
<1> QED
  BY <1>2, <1>3, <1>4, <1>5

LEMMA LeaveKeeps ==
  ASSUME ActionsInv, LeavePage
  PROVE  ActionsInv'
<1> USE PageFacts DEF ActionsInv
<1>1. /\ page' = page /\ sends' = sends /\ dialog' = Closed
      /\ visit'.page = visit.page + 1 /\ visit'.dialog = visit.dialog
      /\ visit.page \in Nat /\ visit.dialog \in Nat
      /\ \A m \in Marks : marks'[m] = None
  BY DEF LeavePage, ActionsType
<1>2. ActionsType'
  BY DEF ActionsType, LeavePage, Closed
<1>3. \A s \in Sends : InFlight(s) => sends[s].visit \in Nat /\ sends[s].visit <= visit.page
  BY DEF SendsOK, ActionsType, SendRec
<1>4. SendsOK'
  BY <1>1, <1>3 DEF SendsOK, InFlight
<1>5. FlagsHeld' /\ DialogHeld'
  BY <1>1, <1>3 DEF FlagsHeld, DialogHeld, Hears, InFlight
<1>6. DialogOK' /\ MarksBelong' /\ GreyButtonWaits' /\ PressSendsOnce'
  BY <1>1 DEF DialogOK, MarksBelong, GreyButtonWaits, PressSendsOnce, InFlight
<1> QED
  BY <1>2, <1>4, <1>5, <1>6

LEMMA ServedKeeps ==
  ASSUME ActionsInv, NEW s \in Sends, NEW outcome \in {"done", "refused"}, Served(s, outcome)
  PROVE  ActionsInv'
<1> USE DEF ActionsInv
<1>1. /\ page' = page /\ marks' = marks /\ dialog' = dialog /\ visit' = visit
      /\ \A t \in Sends : /\ sends'[t].button = sends[t].button /\ sends'[t].row = sends[t].row
                          /\ sends'[t].visit = sends[t].visit
                          /\ sends'[t].opening = sends[t].opening
                          /\ InFlight(t)' <=> InFlight(t)
  BY DEF Served, ActionsType, SendRec, InFlight
<1>2. ActionsType'
  BY DEF ActionsType, Served, SendRec
<1>3. \A t \in Sends : Hears(t)' <=> Hears(t)
  BY <1>1 DEF Hears
<1>4. DialogOK' /\ SendsOK' /\ MarksBelong'
  BY <1>1 DEF DialogOK, SendsOK, MarksBelong
<1>5. FlagsHeld' /\ DialogHeld'
  BY <1>1, <1>3 DEF FlagsHeld, DialogHeld
<1>6. GreyButtonWaits' /\ PressSendsOnce'
  BY <1>1, <1>3 DEF GreyButtonWaits, PressSendsOnce
<1> QED
  BY <1>2, <1>4, <1>5, <1>6

LEMMA AnsweredKeeps ==
  ASSUME ActionsInv, NEW s \in Sends, Answered(s)
  PROVE  ActionsInv'
<1> USE PageFacts DEF ActionsInv
<1> DEFINE b == sends[s].button
           saved == sends[s].phase = "done" /\ sends[s].visit = visit.page
                    /\ b.dialog \in {"kept", "mounted"}
           cleared == (IF saved /\ b.dialog = "mounted" THEN {"dialogBusy"} ELSE {})
                      \cup (IF Hears(s) THEN {b.mark} ELSE {})
<1>1. /\ page' = page /\ visit' = visit /\ dialog' = IF saved THEN Closed ELSE dialog
      /\ \A m \in Marks : marks'[m] = IF m \in cleared THEN None ELSE marks[m]
      /\ marks' = [m \in Marks |-> IF m \in cleared THEN None ELSE marks[m]]
      /\ InFlight(s) /\ ~InFlight(s)' /\ sends' = [sends EXCEPT ![s] = NoSend]
      /\ \A t \in Sends : t # s => sends'[t] = sends[t]
      /\ \A t \in Sends : InFlight(t)' => t # s /\ InFlight(t)
  BY DEF Answered, ActionsType, SendRec, InFlight, NoSend
<1>2. b \in page /\ ButtonOK(b)
  BY <1>1 DEF SendsOK
<1> HIDE DEF saved, b
<1>3. ActionsType'
  <2>1. dialog' \in [button : page \cup {None}, row : Rows \cup {None}, opening : Nat]
    BY <1>1 DEF ActionsType, Closed
  <2>2. marks' \in [Marks -> Rows \cup {None}]
    BY <1>1 DEF ActionsType
  <2>3. sends' \in [Sends -> SendRec]
    BY <1>1 DEF ActionsType, SendRec, NoSend
  <2> QED
    BY <1>1, <2>1, <2>2, <2>3 DEF ActionsType
<1>4. DialogOK' /\ SendsOK' /\ MarksBelong' /\ PressSendsOnce'
  BY <1>1 DEF DialogOK, SendsOK, MarksBelong, PressSendsOnce
<1>5. FlagsHeld'
  <2>1. SUFFICES ASSUME NEW t \in Sends, InFlight(t), t # s, sends[t].button.mark \in PageFlags,
                        sends[t].visit = visit.page
                 PROVE  sends[t].button.mark \notin cleared
    BY <1>1, <2>1 DEF FlagsHeld
  <2>2. sends[t].button.mark # "dialogBusy"
    BY <2>1
  <2>3. Hears(s) => b.mark # sends[t].button.mark
    BY <1>1, <2>1, <2>2 DEF PressSendsOnce, Hears, b
  <2> QED
    BY <2>2, <2>3
<1>6. DialogHeld'
  <2>1. SUFFICES ASSUME NEW t \in Sends, InFlight(t), t # s, sends[t].button.dialog = "mounted",
                        Hears(t)'
                 PROVE  marks'["dialogBusy"] # None
    BY <1>1, <2>1 DEF DialogHeld
  <2>2. sends[t].opening # 0 /\ sends[t].button \in page /\ sends[t].button.mark = "dialogBusy"
    BY <2>1 DEF SendsOK, ButtonOK
  <2>3. dialog' = dialog /\ ~saved
    BY <1>1, <2>1, <2>2 DEF Hears, Closed
  <2>4. Hears(t)
    BY <1>1, <2>1, <2>3 DEF Hears
  <2>5. ASSUME Hears(s), b.mark = "dialogBusy"  PROVE FALSE
    <3>1. b.dialog = "mounted"
      BY <1>2, <2>1, <2>2, <2>5 DEF ButtonOK
    <3>2. sends[s].opening = sends[t].opening /\ sends[s].visit = sends[t].visit
      BY <2>1, <2>4, <2>5, <3>1 DEF Hears, b
    <3> QED
      BY <1>1, <2>1, <2>2, <2>5, <3>1, <3>2 DEF PressSendsOnce, b
  <2>6. "dialogBusy" \notin cleared
    BY <2>3, <2>5
  <2>7. marks["dialogBusy"] # None
    BY <2>1, <2>4 DEF DialogHeld
  <2> QED
    BY <1>1, <2>6, <2>7
<1>7. GreyButtonWaits'
  <2>1. SUFFICES ASSUME NEW m \in Marks, marks'[m] # None
                 PROVE \/ \E t \in Sends : /\ InFlight(t)' /\ Hears(t)' /\ sends'[t].button.mark = m
                                           /\ sends'[t].row = marks'[m]
                       \/ m = "dialogBusy" /\ dialog' = Closed
    BY DEF GreyButtonWaits
  <2>2. m \notin cleared /\ marks'[m] = marks[m]
    BY <1>1, <2>1
  <2>3. CASE m = "dialogBusy" /\ dialog = Closed
    BY <1>1, <2>3
  <2>4. ASSUME NEW t \in Sends, InFlight(t), Hears(t), sends[t].button.mark = m,
               sends[t].row = marks[m]
        PROVE  /\ t # s
               /\ Hears(t)' \/ (m = "dialogBusy" /\ dialog' = Closed)
    <3>1. t # s
      BY <2>2, <2>4 DEF b
    <3>2. sends[t].button.dialog = "mounted" => m = "dialogBusy"
      BY <2>4 DEF SendsOK, ButtonOK
    <3> QED
      BY <1>1, <2>4, <3>1, <3>2 DEF Hears
  <2>5. \A t \in Sends : t # s /\ InFlight(t) => InFlight(t)' /\ sends'[t] = sends[t]
    BY <1>1 DEF InFlight
  <2> QED
    BY <2>1, <2>2, <2>3, <2>4, <2>5 DEF GreyButtonWaits
<1> QED
  BY <1>3, <1>4, <1>5, <1>6, <1>7

-----------------------------------------------------------------------------
(* The theorems                                                             *)

LEMMA ActionsInvInductive == ActionsSpec => []ActionsInv
<1>1. ActionsInit => ActionsInv
  <2>1. SUFFICES ASSUME ActionsInit PROVE ActionsInv
    OBVIOUS
  <2>2. \A s \in Sends : ~InFlight(s)
    BY <2>1 DEF ActionsInit, InFlight, NoSend
  <2>3. \A m \in Marks : marks[m] = None
    BY <2>1 DEF ActionsInit
  <2>4. ActionsType
    BY <2>1 DEF ActionsInit, ActionsType, Closed, NoSend, SendRec
  <2>5. DialogOK
    BY <2>1 DEF ActionsInit, DialogOK
  <2> QED
    BY <2>2, <2>3, <2>4, <2>5
    DEF ActionsInv, SendsOK, FlagsHeld, DialogHeld, MarksBelong, GreyButtonWaits, PressSendsOnce
<1>2. ActionsInv /\ [ActionsNext]_actionsVars => ActionsInv'
  <2>1. SUFFICES ASSUME ActionsInv, [ActionsNext]_actionsVars PROVE ActionsInv'
    OBVIOUS
  <2>2. CASE UNCHANGED actionsVars
    BY <2>1, <2>2
    DEF actionsVars, ActionsInv, ActionsType, DialogOK, SendsOK, FlagsHeld, DialogHeld,
        MarksBelong, GreyButtonWaits, PressSendsOnce, InFlight, Hears
  <2>3. CASE \E b \in page, r \in Rows : Open(b, r)
    BY <2>1, <2>3, OpenKeeps
  <2>4. CASE \E b \in page, r \in Rows, s \in Sends : PressButton(b, r, s)
    BY <2>1, <2>4, PressKeeps
  <2>5. CASE Close
    BY <2>1, <2>5, CloseKeeps
  <2>6. CASE LeavePage
    BY <2>1, <2>6, LeaveKeeps
  <2>7. CASE \E s \in Sends : Answered(s)
    BY <2>1, <2>7, AnsweredKeeps
  <2>8. CASE \E s \in Sends, outcome \in {"done", "refused"} : Served(s, outcome)
    BY <2>1, <2>8, ServedKeeps
  <2> QED
    BY <2>1, <2>2, <2>3, <2>4, <2>5, <2>6, <2>7, <2>8 DEF ActionsNext
<1> QED
  BY <1>1, <1>2, PTL DEF ActionsSpec

\* However dialogs are closed and opened again, pages left and answers delayed, the flag of a
\* page lets one call of a visit through, and the flag of a dialog that is mounted anew one
\* call of an opening (RunButton of lab.tsx, the `busy' of its dialogs).
THEOREM FlagsLetOneCallThrough == ActionsSpec => []PressSendsOnce
BY ActionsInvInductive, PTL DEF ActionsInv

\* No button stays grey for a call that has answered, whatever failed, was closed or came
\* late (the `finally' of every handler, the reset of a dialog that opens).
THEOREM GreyButtonsAwaitACall == ActionsSpec => []GreyButtonWaits
BY ActionsInvInductive, PTL DEF ActionsInv

=============================================================================
