----------------------------- MODULE PolledViews -----------------------------
(***************************************************************************)
(* The data hooks of the pages.  A hook fetches when its page is mounted    *)
(* and when its key changes, some fetch again every few seconds; several    *)
(* fetches can be open at once, and their answers arrive in any order or    *)
(* not at all.  A row the server holds is reduced to a version: it grows    *)
(* while the row is open and the last one is the row's end.                 *)
(***************************************************************************)
EXTENDS ClientValues, Naturals

CONSTANTS
  Keys,        \* what a keyed view can be asked for
  LastVersion, \* bound on the changes of a row; the version of a row that has ended
  MaxOpen      \* bound on the fetches open at once

ASSUME ViewsAssumption ==
  /\ Keys # {} /\ LastVersion \in Nat /\ MaxOpen \in Nat \ {0}
  /\ None \notin Keys \cup [key : Keys, version : 0..LastVersion]

VARIABLES
  hook,    \* what kind of view it is
  server,  \* the version of each key's row
  key,     \* the key the page asks for
  fetches, \* the open fetches
  shown,   \* what the page shows, None before the first answer
  waiting,
  error

viewsVars == <<hook, server, key, fetches, shown, waiting, error>>

-----------------------------------------------------------------------------
(* The hooks                                                                *)

\* When the view fetches again: "always", "open" (only while it shows an open row), "never";
\* whether the answer to a key that is no longer asked for is dropped; whether the key can
\* change under a mounted page; whether every fetch shows the spinner.
Hook(polls, guarded, keyed, spins) ==
  [polls |-> polls, guarded |-> guarded, keyed |-> keyed, spins |-> spins]
Once == Hook("never", FALSE, FALSE, TRUE)
Always == Hook("always", FALSE, FALSE, TRUE)
AlwaysQuietly == Hook("always", FALSE, FALSE, FALSE)

fabExperimentTypes == Once
fabRequests == Always
fabRequestSummary == Always
fabInProgressRequests == Always
fabUnreadNotifications == Always
fabRequestDetail == Always
fabSampleExperiments == Hook("never", TRUE, FALSE, TRUE)
unreadCount == Hook("always", TRUE, FALSE, FALSE)

labDispatchCreationData == Once
labWipCreationData == Once
labExperimentTypes == Once
labEquipment == AlwaysQuietly
labDispatchDetail == Hook("open", TRUE, FALSE, TRUE)
labDispatches == Hook("open", FALSE, FALSE, FALSE)
labWipDetail == Once
labWips == Always
labWipProposals == Always
labWaferDetail == Hook("always", TRUE, FALSE, TRUE)
labDashboardData == AlwaysQuietly
labSamples == Always

mgrRequests == Always
mgrDashboardData == AlwaysQuietly
mgrDashboardStats == Always
mgrDashboardChart == Hook("never", FALSE, TRUE, TRUE)
mgrRecentActivity == Always
mgrEquipmentAlerts == Always
mgrExperimentTypes == Once
mgrRecipes == Once
mgrRequestDetail == Always
mgrReports == Hook("never", TRUE, TRUE, TRUE)

\* hooks.tsx: notifications and accounts.
sharedUseData == Once

Hooks == {fabExperimentTypes, fabRequests, fabRequestSummary, fabInProgressRequests,
          fabUnreadNotifications, fabRequestDetail, fabSampleExperiments, unreadCount,
          labDispatchCreationData, labWipCreationData, labExperimentTypes, labEquipment,
          labDispatchDetail, labDispatches, labWipDetail, labWips, labWipProposals,
          labWaferDetail, labDashboardData, labSamples, mgrRequests, mgrDashboardData,
          mgrDashboardStats, mgrDashboardChart, mgrRecentActivity, mgrEquipmentAlerts,
          mgrExperimentTypes, mgrRecipes, mgrRequestDetail, mgrReports, sharedUseData}

-----------------------------------------------------------------------------
Slots == 1..MaxOpen
NoFetch == [phase |-> "idle", key |-> None, version |-> 0, dropped |-> FALSE, guarded |-> FALSE]
Sent(k, guarded) == [NoFetch EXCEPT !.phase = "sent", !.key = k, !.guarded = guarded]

ViewsTypeOK ==
  /\ hook \in Hooks
  /\ server \in [Keys -> 0..LastVersion]
  /\ key \in Keys
  /\ fetches \in [Slots -> [phase : {"idle", "sent", "answered"}, key : Keys \cup {None},
                            version : 0..LastVersion, dropped : BOOLEAN, guarded : BOOLEAN]]
  /\ shown \in [key : Keys, version : 0..LastVersion] \cup {None}
  /\ waiting \in BOOLEAN /\ error \in BOOLEAN

ViewsInit ==
  /\ hook \in Hooks
  /\ server = [k \in Keys |-> 0]
  /\ key \in Keys
  /\ fetches = [s \in Slots |-> IF s = 1 THEN Sent(key, hook.guarded) ELSE NoFetch]
  /\ shown = None /\ waiting = TRUE /\ error = FALSE

\* The row changes: another user, a worker.
RowChanges(k) ==
  /\ server[k] < LastVersion
  /\ server' = [server EXCEPT ![k] = @ + 1]
  /\ UNCHANGED <<hook, key, fetches, shown, waiting, error>>

\* Defect variant: polling stops with the first change of the row.
PollsAtFirst ==
  \/ hook.polls = "always"
  \/ hook.polls = "open" /\ shown # None /\ shown.version = 0

\* The interval is there: always, or while what is shown is open.
Polls ==
  \/ hook.polls = "always"
  \/ hook.polls = "open" /\ shown # None /\ shown.version < LastVersion

\* A tick of the interval: a fetch of its own, whose answer is never dropped.
Poll(s) ==
  /\ Polls /\ fetches[s].phase = "idle"
  /\ fetches' = [fetches EXCEPT ![s] = Sent(key, FALSE)]
  /\ waiting' = (waiting \/ hook.spins \/ shown = None)
  /\ UNCHANGED <<hook, server, key, shown, error>>

\* The user chooses another key: the effect's clean-up drops the fetch it started before.
ChangeKey(s, k) ==
  /\ hook.keyed /\ k # key /\ fetches[s].phase = "idle"
  /\ key' = k
  /\ fetches' = [t \in Slots |-> IF t = s THEN Sent(k, hook.guarded)
                                 ELSE [fetches[t] EXCEPT !.dropped = fetches[t].guarded]]
  /\ waiting' = TRUE
  /\ UNCHANGED <<hook, server, shown, error>>

\* The server reads the row and answers.
ServerAnswers(s) ==
  /\ fetches[s].phase = "sent"
  /\ fetches' = [fetches EXCEPT ![s].phase = "answered", ![s].version = server[fetches[s].key]]
  /\ UNCHANGED <<hook, server, key, shown, waiting, error>>

\* Defect variant: the answer to a fetch that was given up is shown.
ArriveAnyway(s) ==
  /\ fetches[s].phase = "answered"
  /\ fetches' = [fetches EXCEPT ![s] = NoFetch]
  /\ shown' = [key |-> fetches[s].key, version |-> fetches[s].version]
  /\ waiting' = FALSE /\ error' = FALSE
  /\ UNCHANGED <<hook, server, key>>

\* The answer that arrives is shown, whichever was asked for last.
Arrive(s) ==
  /\ fetches[s].phase = "answered"
  /\ fetches' = [fetches EXCEPT ![s] = NoFetch]
  /\ IF fetches[s].dropped THEN UNCHANGED <<shown, waiting, error>>
     ELSE /\ shown' = [key |-> fetches[s].key, version |-> fetches[s].version]
          /\ waiting' = FALSE /\ error' = FALSE
  /\ UNCHANGED <<hook, server, key>>

\* The fetch fails: what is shown stays, with an error.
FetchFails(s) ==
  /\ fetches[s].phase \in {"sent", "answered"}
  /\ fetches' = [fetches EXCEPT ![s] = NoFetch]
  /\ IF fetches[s].dropped THEN UNCHANGED <<waiting, error>>
                           ELSE waiting' = FALSE /\ error' = TRUE
  /\ UNCHANGED <<hook, server, key, shown>>

ViewsNext ==
  \/ \E k \in Keys : RowChanges(k)
  \/ \E s \in Slots : \/ Poll(s) \/ ServerAnswers(s) \/ Arrive(s) \/ FetchFails(s)
                      \/ \E k \in Keys : ChangeKey(s, k)

\* The interval ticks, the server answers, and a fetch that is repeated succeeds in the end.
ViewsFairness ==
  /\ WF_viewsVars(\E s \in Slots : Poll(s))
  /\ \A s \in Slots : SF_viewsVars(ServerAnswers(s)) /\ SF_viewsVars(Arrive(s))
ViewsSpec == ViewsInit /\ [][ViewsNext]_viewsVars /\ ViewsFairness

-----------------------------------------------------------------------------
(* Properties                                                               *)

\* A keyed view with a clean-up, once it has loaded, shows the key that was asked for last:
\* the answers to the keys chosen before are late but never shown.
GuardedViewShowsItsKey ==
  hook.guarded /\ ~waiting /\ ~error => shown # None /\ shown.key = key

\* A view that polls catches up with the server for good, although old answers overtake new
\* ones, and although the views of jobs stop polling when what they show has ended: an old
\* answer that reopens the row also starts the interval again.
PolledViewCatchesUp ==
  <>[](hook.polls # "never" /\ shown # None => shown.version = server[key])
=============================================================================
