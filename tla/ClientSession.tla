--------------------------- MODULE ClientSession ---------------------------
(***************************************************************************)
(* One browser tab's session: the tokens in sessionStorage, the fetch       *)
(* wrapper that answers a 401 with one shared token refresh and one retry,  *)
(* login, logout, the session check when the page mounts, and reloads; on   *)
(* the other side the server that issues, rotates and revokes the tokens.   *)
(* A pair of tokens is one number: its access half expires, its refresh     *)
(* half is a row of the server.                                             *)
(***************************************************************************)
EXTENDS Naturals, FiniteSets

CONSTANTS
  Users,        \* accounts
  DataCalls,    \* calls the pages make at the same time
  None,         \* nobody; no call
  MaxTokens,    \* bound on the pairs the server issues
  MaxReloads,   \* bound on the page loads after the first
  NetworkFails  \* whether a request or its answer can be lost

ASSUME SessionAssumption ==
  /\ None \notin Users \cup DataCalls \cup {"me", "login", "logout"}
  /\ DataCalls \cap {"me", "login", "logout"} = {}
  /\ MaxTokens \in Nat /\ MaxReloads \in Nat
  /\ NetworkFails \in BOOLEAN

VARIABLES
  issued,     \* pairs issued so far
  owner,      \* whom a pair was issued to
  live,       \* pairs whose refresh token the server knows
  fresh,      \* pairs whose access token has not expired
  store,      \* `lims.access' and `lims.refresh', 0 when absent
  calls,      \* the API calls of the page
  refreshes,  \* doRefresh, by the call that started it
  inflight,   \* refreshInflight: the call whose refresh is awaited
  orphans,    \* refresh tokens presented by pages that are gone
  shown,      \* the user of the AuthProvider
  loading,    \* its `loading'
  reloads,
  hurt        \* history: the last session granted ended otherwise than by its own logout

serverVars == <<issued, owner, live, fresh>>
pageVars == <<calls, refreshes, inflight, shown, loading>>
vars == <<issued, owner, live, fresh, store, calls, refreshes, inflight, orphans, shown,
          loading, reloads, hurt>>

Slots == DataCalls \cup {"me", "login", "logout"}
Tokens == 1..MaxTokens
NoPair == 0
\* Defect variant: what is cleared is set to null.
NulledStore == [access |-> None, refresh |-> None]
EmptyStore == [access |-> NoPair, refresh |-> NoPair]
IdleCall == [phase |-> "idle", access |-> NoPair, who |-> None, body |-> NoPair,
             retried |-> FALSE, on |-> None]
NoRefresh == [phase |-> "none", token |-> NoPair, new |-> NoPair]

SessionTypeOK ==
  /\ issued \in 0..MaxTokens
  /\ owner \in [Tokens -> Users \cup {None}]
  /\ live \subseteq 1..issued /\ fresh \subseteq 1..issued
  /\ store \in [access : 0..issued, refresh : 0..issued]
  /\ calls \in [Slots ->
       [phase : {"idle", "sent", "accepted", "unauthorized", "failed", "waiting"},
        access : 0..issued, who : Users \cup {None}, body : 0..issued,
        retried : BOOLEAN, on : Slots \cup {None}]]
  /\ refreshes \in [Slots -> [phase : {"none", "sent", "found", "rotated", "refused"},
                              token : 0..issued, new : 0..issued]]
  /\ inflight \in Slots \cup {None}
  /\ orphans \subseteq 1..issued
  /\ shown \in Users \cup {None} /\ loading \in BOOLEAN
  /\ reloads \in 0..MaxReloads /\ hurt \in BOOLEAN

Init ==
  /\ issued = 0 /\ owner = [t \in Tokens |-> None] /\ live = {} /\ fresh = {}
  /\ store = EmptyStore
  /\ calls = [c \in Slots |-> IdleCall]
  /\ refreshes = [c \in Slots |-> NoRefresh]
  /\ inflight = None /\ orphans = {}
  /\ shown = None /\ loading = FALSE /\ reloads = 0 /\ hurt = FALSE

Open(c) == calls[c].phase # "idle"
LoginGranted == calls["login"].phase = "accepted"

-----------------------------------------------------------------------------
(* The page calls                                                           *)

\* rawFetch: the access token is the one stored when the request leaves.
Sent(who, body) ==
  [phase |-> "sent", access |-> store.access, who |-> who, body |-> body,
   retried |-> FALSE, on |-> None]

\* A page of a signed-in user fetches.
Fetch(c) ==
  /\ shown # None /\ ~Open(c)
  /\ calls' = [calls EXCEPT ![c] = Sent(None, NoPair)]
  /\ UNCHANGED <<serverVars, store, refreshes, inflight, orphans, shown, loading, reloads, hurt>>

\* The login form, which is shown to nobody else and disabled while it is busy. The calls of
\* the session before may still be open.
SubmitLogin(u) ==
  /\ shown = None /\ ~loading /\ ~Open("login")
  /\ calls' = [calls EXCEPT !["login"] = Sent(u, NoPair)]
  /\ UNCHANGED <<serverVars, store, refreshes, inflight, orphans, shown, loading, reloads, hurt>>

\* AuthProvider.logout does not wait for the call: the login page is shown at once. (Bound:
\* one logout call at a time.)
Logout ==
  /\ shown # None /\ ~Open("logout")
  /\ shown' = None
  /\ IF store.refresh = NoPair
       THEN store' = EmptyStore /\ UNCHANGED calls
       ELSE calls' = [calls EXCEPT !["logout"] = Sent(None, store.refresh)] /\ UNCHANGED store
  /\ UNCHANGED <<serverVars, refreshes, inflight, orphans, loading, reloads, hurt>>

\* A reload forgets the page and its calls; what it sent may still reach the server (of a
\* logout under way, that is an EndSession).
\* loadSession then asks who is signed in, if anything is stored.
Reload ==
  /\ reloads < MaxReloads
  /\ reloads' = reloads + 1
  /\ orphans' = orphans \cup
       {refreshes[c].token : c \in {d \in Slots : refreshes[d].phase \in {"sent", "found"}}}
  /\ hurt' = (hurt \/ Open("login") \/ Open("logout") \/ inflight # None)
  /\ calls' = [c \in Slots |->
       IF c = "me" /\ store # EmptyStore THEN Sent(None, NoPair) ELSE IdleCall]
  /\ refreshes' = [c \in Slots |-> NoRefresh]
  /\ inflight' = None /\ shown' = None /\ loading' = (store # EmptyStore)
  /\ UNCHANGED <<serverVars, store>>

-----------------------------------------------------------------------------
(* The server answers                                                       *)

\* create_access_token, create_refresh_token.
Issue(u) ==
  /\ issued < MaxTokens
  /\ issued' = issued + 1
  /\ owner' = [owner EXCEPT ![issued + 1] = u]
  /\ fresh' = fresh \cup {issued + 1}

\* JWTAuth, then the endpoint; logout deletes the row of the token in the body.
Serve(c) ==
  /\ c # "login" /\ calls[c].phase = "sent"
  /\ IF calls[c].access \in fresh
       THEN /\ calls' = [calls EXCEPT ![c].phase = "accepted"]
            /\ live' = live \ {t \in Tokens : /\ c = "logout" /\ t = calls[c].body
                                              /\ owner[t] = owner[calls[c].access]}
       ELSE /\ calls' = [calls EXCEPT ![c].phase = "unauthorized"]
            /\ UNCHANGED live
  /\ UNCHANGED <<issued, owner, fresh, store, refreshes, inflight, orphans, shown, loading,
                 reloads, hurt>>

\* login_view with good credentials; the new pair is what the answer carries.
GrantLogin ==
  /\ calls["login"].phase = "sent"
  /\ Issue(calls["login"].who)
  /\ live' = live \cup {issued'}
  /\ calls' = [calls EXCEPT !["login"].phase = "accepted", !["login"].body = issued']
  /\ hurt' = FALSE
  /\ UNCHANGED <<store, refreshes, inflight, orphans, shown, loading, reloads>>

\* login_view with bad credentials answers 401, as an expired token does.
RefuseLogin ==
  /\ calls["login"].phase = "sent"
  /\ calls' = [calls EXCEPT !["login"].phase = "unauthorized"]
  /\ UNCHANGED <<serverVars, store, refreshes, inflight, orphans, shown, loading, reloads, hurt>>

\* refresh_view looks the token up ...
LookUpToken(c) ==
  /\ refreshes[c].phase = "sent"
  /\ refreshes' = [refreshes EXCEPT ![c].phase =
                     IF refreshes[c].token \in live THEN "found" ELSE "refused"]
  /\ UNCHANGED <<serverVars, store, calls, inflight, orphans, shown, loading, reloads, hurt>>

\* ... and rotates it, whether or not the row is still there.
Rotate(c) ==
  /\ refreshes[c].phase = "found"
  /\ Issue(owner[refreshes[c].token])
  /\ live' = (live \ {refreshes[c].token}) \cup {issued'}
  /\ refreshes' = [refreshes EXCEPT ![c].phase = "rotated", ![c].new = issued']
  /\ UNCHANGED <<store, calls, inflight, orphans, shown, loading, reloads, hurt>>

\* The same for a page that no longer waits for the answer.
RotateOrphan(t) ==
  /\ t \in orphans
  /\ orphans' = orphans \ {t}
  /\ IF t \in live THEN Issue(owner[t]) /\ live' = (live \ {t}) \cup {issued'}
                   ELSE UNCHANGED serverVars
  /\ UNCHANGED <<store, pageVars, reloads, hurt>>

ExpireAccess(t) ==
  /\ t \in fresh
  /\ fresh' = fresh \ {t}
  /\ UNCHANGED <<issued, owner, live, store, pageVars, orphans, reloads, hurt>>

\* A refresh token expires, or the account is deactivated.
EndSession(t) ==
  /\ t \in live
  /\ live' = live \ {t} /\ hurt' = TRUE
  /\ UNCHANGED <<issued, owner, fresh, store, pageVars, orphans, reloads>>

-----------------------------------------------------------------------------
(* The page continues                                                       *)

\* Defect variant: only an answer takes the spinner away.
EndedSpinning(c) ==
  /\ store' = IF c \in {"me", "logout"} THEN EmptyStore ELSE store
  /\ UNCHANGED loading

\* What an error does to the caller: loadSession and logout clear the store, the others
\* only show it.
EndedWithError(c) ==
  /\ store' = IF c \in {"me", "logout"} THEN EmptyStore ELSE store
  /\ loading' = (loading /\ c # "me")

\* Defect variant: every call refreshes for itself.
RetryAlone(c) ==
  /\ calls[c].phase = "unauthorized" /\ ~calls[c].retried /\ store.refresh # NoPair
  /\ inflight' = c
  /\ calls' = [calls EXCEPT ![c].phase = "waiting", ![c].on = c]
  /\ refreshes' = [refreshes EXCEPT ![c] = [NoRefresh EXCEPT !.phase = "sent", !.token = store.refresh]]
  /\ UNCHANGED <<serverVars, store, orphans, shown, loading, reloads, hurt>>

\* call: the first 401 of a call starts the refresh or joins the one in flight.
Retry(c) ==
  /\ calls[c].phase = "unauthorized" /\ ~calls[c].retried /\ store.refresh # NoPair
  /\ LET starter == IF inflight = None THEN c ELSE inflight
     IN  /\ inflight' = starter
         /\ calls' = [calls EXCEPT ![c].phase = "waiting", ![c].on = starter]
         /\ refreshes' = IF inflight # None THEN refreshes
              ELSE [refreshes EXCEPT ![c] = [NoRefresh EXCEPT !.phase = "sent", !.token = store.refresh]]
  /\ UNCHANGED <<serverVars, store, orphans, shown, loading, reloads, hurt>>

\* A login or a logout has replaced the pair whose refresh this is (what a granted login is
\* about to store comes after it).
Overtaken(c) == refreshes[c].token # store.refresh /\ ~LoginGranted

\* Defect variant: the refresh token of the answer is not kept.
RefreshEndsKeepingToken(c) ==
  /\ refreshes[c].phase \in {"rotated", "refused"}
  /\ LET ok == refreshes[c].phase = "rotated"
         pair == [access |-> refreshes[c].new, refresh |-> refreshes[c].token]
         waits(d) == calls[d].phase = "waiting" /\ calls[d].on = c
     IN  /\ store' = IF ok THEN pair ELSE EmptyStore
         /\ calls' = [d \in Slots |-> IF waits(d) THEN IdleCall ELSE calls[d]]
         /\ loading' = (loading /\ ~waits("me"))
  /\ refreshes' = [refreshes EXCEPT ![c] = NoRefresh]
  /\ inflight' = None /\ hurt' = (hurt \/ Overtaken(c))
  /\ UNCHANGED <<serverVars, orphans, shown, reloads>>

\* The awaited promise resolves: doRefresh stores the new pair, or clears the store, and
\* every call that waits goes on, to its retry or to its error.
RefreshEnds(c) ==
  /\ refreshes[c].phase \in {"rotated", "refused"}
  /\ LET ok == refreshes[c].phase = "rotated"
         pair == [access |-> refreshes[c].new, refresh |-> refreshes[c].new]
         waits(d) == calls[d].phase = "waiting" /\ calls[d].on = c
     IN  /\ store' = IF ok THEN pair ELSE EmptyStore
         /\ calls' = [d \in Slots |->
              IF ~waits(d) THEN calls[d]
              ELSE IF ok THEN [calls[d] EXCEPT !.phase = "sent", !.access = pair.access,
                                               !.retried = TRUE, !.on = None]
              ELSE IdleCall]
         /\ loading' = (loading /\ (ok \/ ~waits("me")))
  /\ refreshes' = [refreshes EXCEPT ![c] = NoRefresh]
  /\ inflight' = None /\ hurt' = (hurt \/ Overtaken(c))
  /\ UNCHANGED <<serverVars, orphans, shown, reloads>>

\* A logout that ends when somebody has signed in again clears their tokens.
LateLogout(c) == c = "logout" /\ shown # None

\* The answer of a call that succeeded.
Succeed(c) ==
  /\ calls[c].phase = "accepted"
  /\ calls' = [calls EXCEPT ![c] = IdleCall]
  /\ store' = CASE c = "login" -> [access |-> calls[c].body, refresh |-> calls[c].body]
                [] c = "logout" -> EmptyStore
                [] OTHER -> store
  /\ shown' = CASE c = "login" -> calls[c].who
                [] c = "me" -> owner[calls[c].access]
                [] OTHER -> shown
  /\ loading' = (loading /\ c # "me")
  /\ hurt' = (hurt \/ LateLogout(c))
  /\ UNCHANGED <<serverVars, refreshes, inflight, orphans, reloads>>

\* The answer of a call that did not, or none at all.
Fail(c) ==
  /\ \/ calls[c].phase = "failed"
     \/ calls[c].phase = "unauthorized" /\ (calls[c].retried \/ store.refresh = NoPair)
  /\ calls' = [calls EXCEPT ![c] = IdleCall]
  /\ EndedWithError(c)
  /\ hurt' = (hurt \/ LateLogout(c))
  /\ UNCHANGED <<serverVars, refreshes, inflight, orphans, shown, reloads>>

\* fetch rejects: the request or its answer is lost.
LoseCall(c) ==
  /\ NetworkFails /\ calls[c].phase \in {"sent", "accepted", "unauthorized"}
  /\ calls' = [calls EXCEPT ![c].phase = "failed"]
  /\ hurt' = (hurt \/ (c = "login" /\ calls[c].phase = "accepted"))
  /\ UNCHANGED <<serverVars, store, refreshes, inflight, orphans, shown, loading, reloads>>

LoseRefresh(c) ==
  /\ NetworkFails /\ refreshes[c].phase \in {"sent", "found", "rotated"}
  /\ refreshes' = [refreshes EXCEPT ![c].phase = "refused"]
  /\ hurt' = (hurt \/ shown # None)
  /\ UNCHANGED <<serverVars, store, calls, inflight, orphans, shown, loading, reloads>>

-----------------------------------------------------------------------------
ServerStep == \/ \E c \in Slots : Serve(c) \/ LookUpToken(c) \/ Rotate(c)
              \/ GrantLogin \/ RefuseLogin \/ \E t \in Tokens : RotateOrphan(t)
PageStep == \E c \in Slots : Retry(c) \/ RefreshEnds(c) \/ Succeed(c) \/ Fail(c)

Next ==
  \/ \E c \in DataCalls : Fetch(c)
  \/ \E u \in Users : SubmitLogin(u)
  \/ Logout \/ Reload
  \/ ServerStep \/ PageStep
  \/ \E c \in Slots : LoseCall(c) \/ LoseRefresh(c)
  \/ \E t \in Tokens : ExpireAccess(t) \/ EndSession(t)

Spec == Init /\ [][Next]_vars

\* The server answers what reaches it and the page's continuations run, each in its turn;
\* users, the clock and the network do as they like.
FairSpec ==
  /\ Spec
  /\ \A c \in Slots : /\ WF_vars(Serve(c)) /\ WF_vars(LookUpToken(c)) /\ WF_vars(Rotate(c))
                      /\ WF_vars(Retry(c)) /\ WF_vars(RefreshEnds(c))
                      /\ WF_vars(Succeed(c)) /\ WF_vars(Fail(c))
  /\ WF_vars(GrantLogin \/ RefuseLogin)

-----------------------------------------------------------------------------
(* Properties                                                               *)

\* The calls that meet an expired access token share one refresh (refreshInflight), which
\* is the one they wait for: a second one would present a token that was just rotated.
RefreshIsShared ==
  /\ \A c \in Slots : refreshes[c].phase # "none" <=> inflight = c
  /\ \A c \in Slots : calls[c].phase = "waiting" => inflight = calls[c].on

\* Who is shown as signed in holds a refresh token that the server knows and that is theirs,
\* or a rotation is under way. The exceptions are the events of `hurt': the server ended the
\* session; the answer to the login or to a rotation was lost, by the network or a reload; a
\* logout of the session before ended after the login (hooks.tsx does not wait for it); a
\* refresh of the session before did. Nothing else does it: neither concurrent 401s of both
\* sessions' calls, nor retries, the login's own 401 or a failed session check.
ShownSessionIsUsable ==
  shown # None /\ ~hurt /\ inflight = None =>
    store.refresh \in live /\ owner[store.refresh] = shown

\* The bound on the server's pairs holds a rotation up.
AtBound == issued = MaxTokens /\ \E c \in Slots : refreshes[c].phase = "found"

\* No call waits for ever, whatever its 401s, the shared refresh and the network do: each comes
\* back to the page; and the spinner of the session check disappears.
CallsEnd ==
  /\ \A c \in Slots : Open(c) ~> ~Open(c) \/ AtBound
  /\ loading ~> ~loading \/ AtBound
=============================================================================
