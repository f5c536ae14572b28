--------------------------- MODULE SessionProofs ---------------------------
(***************************************************************************)
(* Proofs about a browser tab's session, for any number of accounts, data   *)
(* calls, pairs of tokens and page loads, with or without a network that    *)
(* loses requests and answers.                                              *)
(***************************************************************************)
EXTENDS ClientSession, TLAPS

\* The tuples of variables are only a way to write UNCHANGED.
USE DEF serverVars, pageVars

CallPhases == {"idle", "sent", "accepted", "unauthorized", "failed", "waiting"}
CallType == [phase : CallPhases, access : 0..issued, who : Users \cup {None}, body : 0..issued,
             retried : BOOLEAN, on : Slots \cup {None}]
RefreshPhases == {"none", "sent", "found", "rotated", "refused"}
RefreshType == [phase : RefreshPhases, token : 0..issued, new : 0..issued]

\* The pairs that calls, refreshes and answers name were issued.
PairsAreIssued ==
  /\ \A c \in Slots : calls[c].phase = "accepted" /\ c # "login" => calls[c].access \in 1..issued
  /\ calls["login"].phase = "accepted" => calls["login"].body \in 1..issued
  /\ Open("login") => calls["login"].who \in Users
  /\ \A c \in Slots : refreshes[c].phase # "none" => refreshes[c].token \in 1..issued
  /\ \A c \in Slots : refreshes[c].phase = "rotated" => refreshes[c].new \in 1..issued

SessionTypeInv == SessionTypeOK /\ PairsAreIssued

-----------------------------------------------------------------------------
(* What a step does to the fields of a call or of a refresh                *)

\* Only the phase of the call of c changes.
CallMoves(c, p) ==
  /\ calls' \in [Slots -> CallType]
  /\ calls'[c].phase = p
  /\ calls'[c].access = calls[c].access /\ calls'[c].who = calls[c].who
  /\ calls'[c].body = calls[c].body /\ calls'[c].retried = calls[c].retried
  /\ calls'[c].on = calls[c].on
  /\ \A d \in Slots \ {c} : calls'[d] = calls[d]

\* Only the phase of the refresh of c changes.
RefreshMoves(c, p) ==
  /\ refreshes' \in [Slots -> RefreshType]
  /\ refreshes'[c].phase = p
  /\ refreshes'[c].token = refreshes[c].token /\ refreshes'[c].new = refreshes[c].new
  /\ \A d \in Slots \ {c} : refreshes'[d] = refreshes[d]

LEMMA SlotNames ==
  /\ None \notin Slots /\ None \notin Users
  /\ "me" \in Slots /\ "login" \in Slots /\ "logout" \in Slots
  /\ DataCalls \subseteq Slots \ {"me", "login", "logout"}
BY SessionAssumption DEF Slots

LEMMA TypesOfCalls ==
  SessionTypeOK => calls \in [Slots -> CallType] /\ refreshes \in [Slots -> RefreshType]
BY DEF SessionTypeOK, CallType, RefreshType, CallPhases, RefreshPhases

LEMMA CallAnswered ==
  ASSUME SessionTypeOK, NEW c \in Slots, NEW p \in CallPhases,
         calls' = [calls EXCEPT ![c].phase = p]
  PROVE  CallMoves(c, p)
<1> DEFINE new == [calls[c] EXCEPT !.phase = p]
<1>1. new \in CallType /\ new.phase = p /\ new.access = calls[c].access /\ new.who = calls[c].who
      /\ new.body = calls[c].body /\ new.retried = calls[c].retried /\ new.on = calls[c].on
  BY TypesOfCalls DEF CallType
<1>2. calls' = [calls EXCEPT ![c] = new]
  OBVIOUS
<1> HIDE DEF new
<1> QED
  BY <1>1, <1>2, TypesOfCalls DEF CallMoves

LEMMA RefreshAnswered ==
  ASSUME SessionTypeOK, NEW c \in Slots, NEW p \in RefreshPhases,
         refreshes' = [refreshes EXCEPT ![c].phase = p]
  PROVE  RefreshMoves(c, p)
<1> DEFINE new == [refreshes[c] EXCEPT !.phase = p]
<1>1. new \in RefreshType /\ new.phase = p /\ new.token = refreshes[c].token /\ new.new = refreshes[c].new
  BY TypesOfCalls DEF RefreshType
<1>2. refreshes' = [refreshes EXCEPT ![c] = new]
  OBVIOUS
<1> HIDE DEF new
<1> QED
  BY <1>1, <1>2, TypesOfCalls DEF RefreshMoves

LEMMA ServeMoves ==
  ASSUME SessionTypeOK, NEW c \in Slots, Serve(c)
  PROVE  /\ calls[c].access \in fresh => CallMoves(c, "accepted")
         /\ calls[c].access \notin fresh => CallMoves(c, "unauthorized")
BY CallAnswered DEF Serve, CallPhases

LEMMA RefuseLoginMoves ==
  SessionTypeOK /\ RefuseLogin => CallMoves("login", "unauthorized")
BY CallAnswered, SlotNames DEF RefuseLogin, CallPhases

LEMMA LoseCallMoves ==
  ASSUME SessionTypeOK, NEW c \in Slots, LoseCall(c)
  PROVE  CallMoves(c, "failed")
BY CallAnswered DEF LoseCall, CallPhases

LEMMA LookUpTokenMoves ==
  ASSUME SessionTypeOK, NEW c \in Slots, LookUpToken(c)
  PROVE  /\ refreshes[c].token \in live => RefreshMoves(c, "found")
         /\ refreshes[c].token \notin live => RefreshMoves(c, "refused")
BY RefreshAnswered DEF LookUpToken, RefreshPhases

LEMMA LoseRefreshMoves ==
  ASSUME SessionTypeOK, NEW c \in Slots, LoseRefresh(c)
  PROVE  RefreshMoves(c, "refused")
BY RefreshAnswered DEF LoseRefresh, RefreshPhases

\* The pair just issued is new, and everything that named a pair still names one.
LEMMA IssueGrows ==
  ASSUME SessionTypeOK, NEW u \in Users \cup {None}, Issue(u)
  PROVE  /\ issued \in Nat /\ issued' = issued + 1 /\ issued' \in 0..MaxTokens /\ issued' \in Tokens
         /\ issued' \notin 0..issued /\ 0..issued \subseteq 0..issued' /\ 1..issued \subseteq 1..issued'
         /\ owner' \in [Tokens -> Users \cup {None}]
         /\ owner'[issued'] = u /\ \A t \in 1..issued : owner'[t] = owner[t]
         /\ fresh' \subseteq 1..issued'
BY SessionAssumption DEF SessionTypeOK, Issue, Tokens

LEMMA GrantLoginMoves ==
  ASSUME SessionTypeOK, GrantLogin
  PROVE  /\ calls' \in [Slots -> CallType']
         /\ calls'["login"].phase = "accepted" /\ calls'["login"].body = issued'
         /\ calls'["login"].who = calls["login"].who
         /\ \A d \in Slots \ {"login"} : calls'[d] = calls[d]
<1> DEFINE new == [calls["login"] EXCEPT !.phase = "accepted", !.body = issued']
<1>1. calls["login"] \in CallType /\ calls["login"].who \in Users \cup {None}
  BY TypesOfCalls, SlotNames DEF CallType
<1>2. issued' \in 0..issued' /\ 0..issued \subseteq 0..issued'
  BY <1>1, IssueGrows, SessionAssumption DEF GrantLogin
<1>3. new \in CallType' /\ new.phase = "accepted" /\ new.body = issued' /\ new.who = calls["login"].who
  BY <1>1, <1>2 DEF CallType, CallPhases
<1>4. calls' = [calls EXCEPT !["login"] = new]
  BY DEF GrantLogin
<1>5. calls \in [Slots -> CallType']
  BY <1>2, TypesOfCalls DEF CallType
<1> HIDE DEF new
<1> QED
  BY <1>3, <1>4, <1>5, SlotNames

LEMMA RotateMoves ==
  ASSUME SessionTypeInv, NEW c \in Slots, Rotate(c)
  PROVE  /\ Issue(owner[refreshes[c].token]) /\ owner[refreshes[c].token] \in Users \cup {None}
         /\ refreshes' \in [Slots -> RefreshType']
         /\ refreshes'[c].phase = "rotated" /\ refreshes'[c].new = issued'
         /\ refreshes'[c].token = refreshes[c].token
         /\ \A d \in Slots \ {c} : refreshes'[d] = refreshes[d]
<1> DEFINE new == [refreshes[c] EXCEPT !.phase = "rotated", !.new = issued']
<1>1. refreshes[c] \in RefreshType /\ SessionTypeOK
  BY TypesOfCalls DEF SessionTypeInv
<1>2. Issue(owner[refreshes[c].token]) /\ owner[refreshes[c].token] \in Users \cup {None}
  BY SessionAssumption DEF Rotate, SessionTypeInv, SessionTypeOK, PairsAreIssued, Tokens
<1>3. issued' \in 0..issued' /\ 0..issued \subseteq 0..issued'
  BY <1>1, <1>2, IssueGrows, SessionAssumption
<1>4. new \in RefreshType' /\ new.phase = "rotated" /\ new.new = issued' /\ new.token = refreshes[c].token
  BY <1>1, <1>3 DEF RefreshType, RefreshPhases
<1>5. refreshes' = [refreshes EXCEPT ![c] = new]
  BY DEF Rotate
<1>6. refreshes \in [Slots -> RefreshType']
  BY <1>1, <1>3, TypesOfCalls DEF RefreshType
<1> HIDE DEF new
<1> QED
  BY <1>2, <1>4, <1>5, <1>6

\* The call that starts a refresh, or joins the one in flight.
LEMMA RetryMoves ==
  ASSUME SessionTypeOK, NEW c \in Slots, Retry(c)
  PROVE  /\ inflight' = IF inflight = None THEN c ELSE inflight
         /\ CallType' = CallType /\ RefreshType' = RefreshType
         /\ calls' \in [Slots -> CallType]
         /\ calls'[c].phase = "waiting" /\ calls'[c].on = inflight'
         /\ calls'[c].access = calls[c].access /\ calls'[c].who = calls[c].who
         /\ calls'[c].body = calls[c].body
         /\ \A d \in Slots \ {c} : calls'[d] = calls[d]
         /\ inflight # None => refreshes' = refreshes
         /\ inflight = None =>
              /\ refreshes' \in [Slots -> RefreshType]
              /\ refreshes'[c].phase = "sent" /\ refreshes'[c].token = store.refresh
              /\ \A d \in Slots \ {c} : refreshes'[d] = refreshes[d]
<1> DEFINE starter == IF inflight = None THEN c ELSE inflight
           new == [calls[c] EXCEPT !.phase = "waiting", !.on = starter]
           asks == [NoRefresh EXCEPT !.phase = "sent", !.token = store.refresh]
<1>1. inflight' = starter /\ starter \in Slots
  BY DEF Retry, SessionTypeOK
<1>2. new \in CallType /\ new.phase = "waiting" /\ new.on = starter /\ new.access = calls[c].access
      /\ new.who = calls[c].who /\ new.body = calls[c].body
  BY <1>1, TypesOfCalls DEF CallType, CallPhases
<1>3. asks \in RefreshType /\ asks.phase = "sent" /\ asks.token = store.refresh
  <2>1. store.refresh \in 0..issued /\ 0 \in 0..issued
    BY SessionAssumption DEF SessionTypeOK
  <2>2. NoRefresh \in RefreshType
    BY <2>1 DEF NoRefresh, RefreshType, RefreshPhases, NoPair
  <2> QED
    BY <2>1, <2>2 DEF RefreshType, RefreshPhases
<1>4. /\ calls' = [calls EXCEPT ![c] = new]
      /\ refreshes' = IF inflight # None THEN refreshes ELSE [refreshes EXCEPT ![c] = asks]
      /\ issued' = issued
  BY DEF Retry
<1>5. CallType' = CallType /\ RefreshType' = RefreshType
  BY <1>4 DEF CallType, RefreshType
<1> HIDE DEF new, asks
<1> QED
  BY <1>1, <1>2, <1>3, <1>4, <1>5, TypesOfCalls

\* The end of a refresh: who waited for it retries with the new pair, or is told the error.
RetriesWith(pair, d) ==
  /\ calls'[d].phase = "sent" /\ calls'[d].access = pair
  /\ calls'[d].who = calls[d].who /\ calls'[d].body = calls[d].body

LEMMA RefreshEndsMoves ==
  ASSUME SessionTypeInv, NEW c \in Slots, RefreshEnds(c)
  PROVE  /\ CallType' = CallType /\ RefreshType' = RefreshType
         /\ calls' \in [Slots -> CallType] /\ refreshes' \in [Slots -> RefreshType]
         /\ refreshes'[c].phase = "none" /\ \A d \in Slots \ {c} : refreshes'[d] = refreshes[d]
         /\ inflight' = None
         /\ refreshes[c].phase = "rotated" =>
              store' = [access |-> refreshes[c].new, refresh |-> refreshes[c].new]
         /\ refreshes[c].phase = "refused" => store' = EmptyStore
         /\ \A d \in Slots :
              IF calls[d].phase = "waiting" /\ calls[d].on = c
                THEN IF refreshes[c].phase = "rotated" THEN RetriesWith(refreshes[c].new, d)
                                                       ELSE calls'[d] = IdleCall
                ELSE calls'[d] = calls[d]
         /\ loading' = (loading /\ (refreshes[c].phase = "rotated" \/ ~(calls["me"].phase = "waiting" /\ calls["me"].on = c)))
<1> DEFINE ok == refreshes[c].phase = "rotated"
           waits(d) == calls[d].phase = "waiting" /\ calls[d].on = c
           retry(d) == [calls[d] EXCEPT !.phase = "sent", !.access = refreshes[c].new,
                                        !.retried = TRUE, !.on = None]
<1>1. issued' = issued /\ SessionTypeOK
  BY DEF RefreshEnds, SessionTypeInv
<1>2. CallType' = CallType /\ RefreshType' = RefreshType
  BY <1>1 DEF CallType, RefreshType
<1>3. refreshes[c].new \in 0..issued
  BY <1>1, TypesOfCalls DEF RefreshType
<1>4. ASSUME NEW d \in Slots
      PROVE  /\ retry(d) \in CallType /\ retry(d).phase = "sent" /\ retry(d).access = refreshes[c].new
             /\ retry(d).who = calls[d].who /\ retry(d).body = calls[d].body
  BY <1>1, <1>3, TypesOfCalls DEF CallType, CallPhases
<1>5. IdleCall \in CallType
  BY SessionAssumption, <1>1 DEF IdleCall, CallType, CallPhases, NoPair, SessionTypeOK
<1>6. NoRefresh \in RefreshType /\ NoRefresh.phase = "none"
  BY SessionAssumption, <1>1 DEF NoRefresh, RefreshType, RefreshPhases, NoPair, SessionTypeOK
<1>7. calls' = [d \in Slots |-> IF ~waits(d) THEN calls[d] ELSE IF ok THEN retry(d) ELSE IdleCall]
  BY DEF RefreshEnds
<1> HIDE DEF retry
<1>8. calls' \in [Slots -> CallType] /\ \A d \in Slots :
        IF waits(d) THEN IF ok THEN RetriesWith(refreshes[c].new, d) ELSE calls'[d] = IdleCall
                    ELSE calls'[d] = calls[d]
  BY <1>1, <1>4, <1>5, <1>7, TypesOfCalls DEF RetriesWith
<1>9. refreshes' = [refreshes EXCEPT ![c] = NoRefresh] /\ inflight' = None
  BY DEF RefreshEnds
<1>10. refreshes' \in [Slots -> RefreshType] /\ refreshes'[c].phase = "none"
       /\ \A d \in Slots \ {c} : refreshes'[d] = refreshes[d]
  BY <1>1, <1>6, <1>9, TypesOfCalls
<1>11. loading' = (loading /\ (ok \/ ~waits("me")))
  BY DEF RefreshEnds
<1>12. (ok => store' = [access |-> refreshes[c].new, refresh |-> refreshes[c].new])
       /\ (refreshes[c].phase = "refused" => store' = EmptyStore)
  BY DEF RefreshEnds
<1> QED
  BY <1>2, <1>8, <1>9, <1>10, <1>11, <1>12

-----------------------------------------------------------------------------
(* Type correctness                                                        *)

\* The types of the variables that few actions touch, and the types of the two tables.
LEMMA TypesFromTables ==
  ASSUME calls' \in [Slots -> CallType'], refreshes' \in [Slots -> RefreshType'],
         issued' \in 0..MaxTokens, owner' \in [Tokens -> Users \cup {None}],
         live' \subseteq 1..issued', fresh' \subseteq 1..issued', orphans' \subseteq 1..issued',
         store' \in [access : 0..issued', refresh : 0..issued'],
         inflight' \in Slots \cup {None}, shown' \in Users \cup {None}, loading' \in BOOLEAN,
         reloads' \in 0..MaxReloads, hurt' \in BOOLEAN
  PROVE  SessionTypeOK'
BY DEF SessionTypeOK, CallType, RefreshType, CallPhases, RefreshPhases

\* What was a type before a pair was issued is one still.
LEMMA TablesGrow ==
  ASSUME SessionTypeOK, 0..issued \subseteq 0..issued'
  PROVE  calls \in [Slots -> CallType'] /\ refreshes \in [Slots -> RefreshType']
BY TypesOfCalls DEF CallType, RefreshType

LEMMA InitType == Init => SessionTypeInv
<1> SUFFICES ASSUME Init PROVE SessionTypeInv
  OBVIOUS
<1>1. issued = 0 /\ 0 \in 0..issued /\ 0 \in 0..MaxTokens /\ 0 \in 0..MaxReloads
  BY SessionAssumption DEF Init
<1>2. IdleCall \in CallType /\ IdleCall.phase = "idle"
  BY <1>1, SlotNames DEF IdleCall, CallType, CallPhases, NoPair
<1>3. NoRefresh \in RefreshType /\ NoRefresh.phase = "none"
  BY <1>1 DEF NoRefresh, RefreshType, RefreshPhases, NoPair
<1>4. \A c \in Slots : calls[c] = IdleCall /\ refreshes[c] = NoRefresh
  BY DEF Init
<1>5. calls \in [Slots -> CallType] /\ refreshes \in [Slots -> RefreshType]
  BY <1>2, <1>3 DEF Init
<1>6. SessionTypeOK
  BY <1>1, <1>5 DEF Init, SessionTypeOK, CallType, RefreshType, CallPhases, RefreshPhases, EmptyStore,
                    NoPair
<1>7. PairsAreIssued
  BY <1>2, <1>3, <1>4, SlotNames DEF PairsAreIssued, Open
<1> QED
  BY <1>6, <1>7 DEF SessionTypeInv

LEMMA FetchType ==
  ASSUME SessionTypeInv, NEW c \in DataCalls, Fetch(c) PROVE SessionTypeInv'
BY SessionAssumption, SlotNames
   DEF Fetch, Sent, NoPair, SessionTypeInv, SessionTypeOK, PairsAreIssued, Open, Slots

LEMMA SubmitLoginType ==
  ASSUME SessionTypeInv, NEW u \in Users, SubmitLogin(u) PROVE SessionTypeInv'
BY SessionAssumption, SlotNames
   DEF SubmitLogin, Sent, NoPair, SessionTypeInv, SessionTypeOK, PairsAreIssued, Open

LEMMA LogoutType ==
  ASSUME SessionTypeInv, Logout PROVE SessionTypeInv'
<1>1. CASE store.refresh = NoPair
  BY <1>1, SessionAssumption DEF Logout, NoPair, EmptyStore, SessionTypeInv, SessionTypeOK, PairsAreIssued, Open
<1>2. CASE store.refresh # NoPair
  <2> DEFINE new == Sent(None, store.refresh)
  <2>1. calls' = [calls EXCEPT !["logout"] = new] /\ UNCHANGED <<issued, refreshes>>
    BY <1>2 DEF Logout
  <2>2. new \in CallType /\ new.phase = "sent"
    BY SlotNames, SessionAssumption
       DEF Sent, NoPair, CallType, CallPhases, SessionTypeInv, SessionTypeOK
  <2> HIDE DEF new
  <2>3. calls' \in [Slots -> CallType'] /\ refreshes' \in [Slots -> RefreshType']
    BY <2>1, <2>2, TypesOfCalls DEF CallType, RefreshType, SessionTypeInv
  <2>4. SessionTypeOK'
    BY <1>2, <2>3, TypesFromTables DEF Logout, SessionTypeInv, SessionTypeOK
  <2>5. PairsAreIssued'
    BY <2>1, <2>2, SlotNames, TypesOfCalls DEF PairsAreIssued, SessionTypeInv, Open
  <2> QED
    BY <2>4, <2>5 DEF SessionTypeInv
<1> QED
  BY <1>1, <1>2

LEMMA ReloadType ==
  ASSUME SessionTypeInv, Reload PROVE SessionTypeInv'
<1>1. issued' = issued /\ 0 \in 0..issued /\ SessionTypeOK
  BY SessionAssumption DEF Reload, SessionTypeInv, SessionTypeOK
<1>2. IdleCall \in CallType /\ IdleCall.phase = "idle"
  BY <1>1, SlotNames DEF IdleCall, CallType, CallPhases, NoPair
<1>3. Sent(None, NoPair) \in CallType /\ Sent(None, NoPair).phase = "sent"
  BY <1>1, SlotNames DEF Sent, NoPair, CallType, CallPhases, SessionTypeOK
<1>4. NoRefresh \in RefreshType /\ NoRefresh.phase = "none"
  BY <1>1 DEF NoRefresh, RefreshType, RefreshPhases, NoPair
<1>5. /\ calls' = [c \in Slots |-> IF c = "me" /\ store # EmptyStore THEN Sent(None, NoPair) ELSE IdleCall]
      /\ refreshes' = [c \in Slots |-> NoRefresh]
  BY DEF Reload
<1>6. calls' \in [Slots -> CallType'] /\ refreshes' \in [Slots -> RefreshType']
  BY <1>1, <1>2, <1>3, <1>4, <1>5 DEF CallType, RefreshType
<1>7. orphans' \subseteq 1..issued'
  <2>1. \A d \in Slots : refreshes[d].phase \in {"sent", "found"} => refreshes[d].token \in 1..issued
    BY DEF SessionTypeInv, PairsAreIssued
  <2>2. {refreshes[d].token : d \in {e \in Slots : refreshes[e].phase \in {"sent", "found"}}} \subseteq 1..issued
    BY <2>1
  <2>3. orphans \subseteq 1..issued
    BY <1>1 DEF SessionTypeOK
  <2> QED
    BY <1>1, <2>2, <2>3 DEF Reload
<1>8. reloads' \in 0..MaxReloads
  BY <1>1, SessionAssumption DEF Reload, SessionTypeOK
<1>9. SessionTypeOK'
  BY <1>1, <1>6, <1>7, <1>8, TypesFromTables DEF Reload, SessionTypeOK
<1>10. PairsAreIssued'
  BY <1>2, <1>3, <1>4, <1>5, SlotNames DEF PairsAreIssued, Open
<1> QED
  BY <1>9, <1>10 DEF SessionTypeInv

LEMMA ServeType ==
  ASSUME SessionTypeInv, NEW c \in Slots, Serve(c) PROVE SessionTypeInv'
<1>1. \E p \in {"accepted", "unauthorized"} :
        CallMoves(c, p) /\ (p = "accepted" => calls[c].access \in fresh)
  BY ServeMoves DEF SessionTypeInv
<1>2. c # "login" /\ calls[c].phase = "sent" /\ UNCHANGED <<issued, refreshes>>
  BY DEF Serve
<1>3. calls' \in [Slots -> CallType'] /\ refreshes' \in [Slots -> RefreshType']
  BY <1>1, <1>2, TypesOfCalls DEF CallMoves, CallType, RefreshType, SessionTypeInv
<1>4. SessionTypeOK'
  BY <1>3, TypesFromTables DEF Serve, SessionTypeInv, SessionTypeOK
<1>5. fresh \subseteq 1..issued /\ PairsAreIssued
  BY DEF SessionTypeInv, SessionTypeOK
<1>6. \A d \in Slots : calls'[d].phase = "accepted" /\ d # "login" => calls'[d].access \in 1..issued'
  BY <1>1, <1>2, <1>5 DEF CallMoves, PairsAreIssued
<1>7. PairsAreIssued'
  BY <1>1, <1>2, <1>5, <1>6, SlotNames DEF CallMoves, PairsAreIssued, Open
<1> QED
  BY <1>4, <1>7 DEF SessionTypeInv

LEMMA GrantLoginType ==
  ASSUME SessionTypeInv, GrantLogin PROVE SessionTypeInv'
<1>1. SessionTypeOK /\ Issue(calls["login"].who) /\ calls["login"].who \in Users
  BY DEF SessionTypeInv, GrantLogin, PairsAreIssued, Open
<1>2. /\ calls' \in [Slots -> CallType'] /\ calls'["login"].body = issued'
      /\ calls'["login"].who = calls["login"].who /\ \A d \in Slots \ {"login"} : calls'[d] = calls[d]
  BY <1>1, GrantLoginMoves
<1>3. /\ issued \in Nat /\ issued' \in 0..MaxTokens /\ issued' = issued + 1
      /\ owner' \in [Tokens -> Users \cup {None}] /\ fresh' \subseteq 1..issued'
      /\ 0..issued \subseteq 0..issued' /\ 1..issued \subseteq 1..issued'
  BY <1>1, IssueGrows
<1>4. refreshes' = refreshes /\ refreshes' \in [Slots -> RefreshType']
  BY <1>1, <1>3, TablesGrow DEF GrantLogin
<1>5. live' \subseteq 1..issued' /\ orphans' \subseteq 1..issued'
  BY <1>1, <1>3 DEF GrantLogin, SessionTypeOK
<1>6. store' \in [access : 0..issued', refresh : 0..issued']
  BY <1>1, <1>3 DEF GrantLogin, SessionTypeOK
<1>7. SessionTypeOK'
  BY <1>1, <1>2, <1>3, <1>4, <1>5, <1>6, TypesFromTables DEF GrantLogin, SessionTypeOK
<1>8. PairsAreIssued'
  BY <1>1, <1>2, <1>3, <1>4 DEF PairsAreIssued, SessionTypeInv, Open
<1> QED
  BY <1>7, <1>8 DEF SessionTypeInv

LEMMA RefuseLoginType ==
  ASSUME SessionTypeInv, RefuseLogin PROVE SessionTypeInv'
<1>1. CallMoves("login", "unauthorized") /\ UNCHANGED <<issued, refreshes>>
  BY RefuseLoginMoves DEF SessionTypeInv, RefuseLogin
<1>2. calls' \in [Slots -> CallType'] /\ refreshes' \in [Slots -> RefreshType']
  BY <1>1, TypesOfCalls DEF CallMoves, CallType, RefreshType, SessionTypeInv
<1>3. SessionTypeOK'
  BY <1>2, TypesFromTables DEF RefuseLogin, SessionTypeInv, SessionTypeOK
<1>4. PairsAreIssued'
  BY <1>1 DEF RefuseLogin, CallMoves, PairsAreIssued, SessionTypeInv, Open
<1> QED
  BY <1>3, <1>4 DEF SessionTypeInv

LEMMA LoseCallType ==
  ASSUME SessionTypeInv, NEW c \in Slots, LoseCall(c) PROVE SessionTypeInv'
<1>1. CallMoves(c, "failed") /\ UNCHANGED <<issued, refreshes>>
  BY LoseCallMoves DEF SessionTypeInv, LoseCall
<1>2. calls' \in [Slots -> CallType'] /\ refreshes' \in [Slots -> RefreshType']
  BY <1>1, TypesOfCalls DEF CallMoves, CallType, RefreshType, SessionTypeInv
<1>3. SessionTypeOK'
  BY <1>2, TypesFromTables DEF LoseCall, SessionTypeInv, SessionTypeOK
<1>4. PairsAreIssued'
  BY <1>1 DEF LoseCall, CallMoves, PairsAreIssued, SessionTypeInv, Open
<1> QED
  BY <1>3, <1>4 DEF SessionTypeInv

LEMMA LookUpTokenType ==
  ASSUME SessionTypeInv, NEW c \in Slots, LookUpToken(c) PROVE SessionTypeInv'
<1>1. (\E p \in {"found", "refused"} : RefreshMoves(c, p)) /\ UNCHANGED <<issued, calls>>
  BY LookUpTokenMoves DEF SessionTypeInv, LookUpToken
<1>2. calls' \in [Slots -> CallType'] /\ refreshes' \in [Slots -> RefreshType']
  BY <1>1, TypesOfCalls DEF RefreshMoves, CallType, RefreshType, SessionTypeInv
<1>3. SessionTypeOK'
  BY <1>2, TypesFromTables DEF LookUpToken, SessionTypeInv, SessionTypeOK
<1>4. PairsAreIssued'
  BY <1>1 DEF LookUpToken, RefreshMoves, PairsAreIssued, SessionTypeInv, Open
<1> QED
  BY <1>3, <1>4 DEF SessionTypeInv

LEMMA LoseRefreshType ==
  ASSUME SessionTypeInv, NEW c \in Slots, LoseRefresh(c) PROVE SessionTypeInv'
<1>1. RefreshMoves(c, "refused") /\ UNCHANGED <<issued, calls>>
  BY LoseRefreshMoves DEF SessionTypeInv, LoseRefresh
<1>2. calls' \in [Slots -> CallType'] /\ refreshes' \in [Slots -> RefreshType']
  BY <1>1, TypesOfCalls DEF RefreshMoves, CallType, RefreshType, SessionTypeInv
<1>3. SessionTypeOK'
  BY <1>2, TypesFromTables DEF LoseRefresh, SessionTypeInv, SessionTypeOK
<1>4. PairsAreIssued'
  BY <1>1 DEF LoseRefresh, RefreshMoves, PairsAreIssued, SessionTypeInv, Open
<1> QED
  BY <1>3, <1>4 DEF SessionTypeInv

LEMMA RotateType ==
  ASSUME SessionTypeInv, NEW c \in Slots, Rotate(c) PROVE SessionTypeInv'
<1>1. /\ Issue(owner[refreshes[c].token]) /\ owner[refreshes[c].token] \in Users \cup {None}
      /\ refreshes' \in [Slots -> RefreshType'] /\ refreshes'[c].new = issued'
      /\ refreshes'[c].token = refreshes[c].token /\ \A d \in Slots \ {c} : refreshes'[d] = refreshes[d]
  BY RotateMoves
<1>2. SessionTypeOK /\ PairsAreIssued
  BY DEF SessionTypeInv
<1>3. /\ issued \in Nat /\ issued' \in 0..MaxTokens /\ issued' = issued + 1
      /\ owner' \in [Tokens -> Users \cup {None}] /\ fresh' \subseteq 1..issued'
      /\ 0..issued \subseteq 0..issued' /\ 1..issued \subseteq 1..issued'
  BY <1>1, <1>2, IssueGrows
<1>4. calls' = calls /\ calls' \in [Slots -> CallType']
  BY <1>2, <1>3, TablesGrow DEF Rotate
<1>5. live' \subseteq 1..issued' /\ orphans' \subseteq 1..issued'
  BY <1>2, <1>3 DEF Rotate, SessionTypeOK
<1>6. store' \in [access : 0..issued', refresh : 0..issued']
  BY <1>2, <1>3 DEF Rotate, SessionTypeOK
<1>7. SessionTypeOK'
  BY <1>1, <1>2, <1>3, <1>4, <1>5, <1>6, TypesFromTables DEF Rotate, SessionTypeOK
<1>8. PairsAreIssued'
  BY <1>1, <1>2, <1>3, <1>4 DEF Rotate, PairsAreIssued, Open
<1> QED
  BY <1>7, <1>8 DEF SessionTypeInv

LEMMA RotateOrphanType ==
  ASSUME SessionTypeInv, NEW t \in Tokens, RotateOrphan(t) PROVE SessionTypeInv'
<1>1. SessionTypeOK /\ PairsAreIssued /\ UNCHANGED <<store, pageVars, reloads, hurt>>
  BY DEF SessionTypeInv, RotateOrphan
<1>2. CASE t \in live
  <2>1. Issue(owner[t]) /\ owner[t] \in Users \cup {None}
    BY <1>1, <1>2 DEF RotateOrphan, SessionTypeOK
  <2>2. /\ issued \in Nat /\ issued' \in 0..MaxTokens /\ issued' = issued + 1
        /\ owner' \in [Tokens -> Users \cup {None}] /\ fresh' \subseteq 1..issued'
        /\ 0..issued \subseteq 0..issued' /\ 1..issued \subseteq 1..issued'
    BY <1>1, <2>1, IssueGrows
  <2>3. calls' \in [Slots -> CallType'] /\ refreshes' \in [Slots -> RefreshType']
    BY <1>1, <2>2, TablesGrow
  <2>4. live' \subseteq 1..issued' /\ orphans' \subseteq 1..issued'
    <3>1. live' = (live \ {t}) \cup {issued'} /\ orphans' = orphans \ {t}
      BY <1>2 DEF RotateOrphan
    <3>2. live \subseteq 1..issued /\ orphans \subseteq 1..issued
      BY <1>1 DEF SessionTypeOK
    <3>3. issued' \in 1..issued' /\ 1..issued \subseteq 1..issued'
      BY <2>2
    <3> QED
      BY <3>1, <3>2, <3>3
  <2>5. store' \in [access : 0..issued', refresh : 0..issued']
    BY <1>1, <2>2 DEF SessionTypeOK
  <2>6. SessionTypeOK'
    BY <1>1, <2>1, <2>2, <2>3, <2>4, <2>5, TypesFromTables DEF SessionTypeOK
  <2>7. PairsAreIssued'
    BY <1>1, <2>2 DEF PairsAreIssued, Open
  <2> QED
    BY <2>6, <2>7 DEF SessionTypeInv
<1>3. CASE t \notin live
  BY <1>1, <1>3 DEF RotateOrphan, SessionTypeInv, SessionTypeOK, PairsAreIssued, Open
<1> QED
  BY <1>2, <1>3

LEMMA ExpireAccessType ==
  ASSUME SessionTypeInv, NEW t \in Tokens, ExpireAccess(t) PROVE SessionTypeInv'
BY DEF ExpireAccess, SessionTypeInv, SessionTypeOK, PairsAreIssued, Open

LEMMA EndSessionType ==
  ASSUME SessionTypeInv, NEW t \in Tokens, EndSession(t) PROVE SessionTypeInv'
BY DEF EndSession, SessionTypeInv, SessionTypeOK, PairsAreIssued, Open

LEMMA RetryType ==
  ASSUME SessionTypeInv, NEW c \in Slots, Retry(c) PROVE SessionTypeInv'
<1>1. SessionTypeOK /\ PairsAreIssued
  BY DEF SessionTypeInv
<1>2. /\ CallType' = CallType /\ RefreshType' = RefreshType /\ calls' \in [Slots -> CallType]
      /\ refreshes' \in [Slots -> RefreshType]
      /\ inflight' \in Slots
  BY <1>1, RetryMoves, TypesOfCalls DEF SessionTypeOK
<1>3. SessionTypeOK'
  BY <1>1, <1>2, TypesFromTables DEF Retry, SessionTypeOK
<1>4. store.refresh \in 1..issued
  BY <1>1, SessionAssumption DEF Retry, NoPair, SessionTypeOK
<1>5. issued' = issued /\ calls[c].phase = "unauthorized"
  BY DEF Retry
<1>6. ASSUME NEW d \in Slots
      PROVE  /\ calls'[d] = calls[d]
                  \/ (calls'[d].phase = "waiting" /\ calls'[d].who = calls[d].who /\ Open(d))
             /\ refreshes'[d] = refreshes[d]
                  \/ (refreshes'[d].phase = "sent" /\ refreshes'[d].token = store.refresh)
  <2>1. CASE d = c
    BY <2>1, <1>1, <1>5, RetryMoves DEF Open
  <2>2. CASE d # c
    BY <2>2, <1>1, RetryMoves
  <2> QED
    BY <2>1, <2>2
<1>7. PairsAreIssued'
  BY <1>1, <1>4, <1>5, <1>6, SlotNames DEF PairsAreIssued, Open
<1> QED
  BY <1>3, <1>7 DEF SessionTypeInv

LEMMA RefreshEndsType ==
  ASSUME SessionTypeInv, NEW c \in Slots, RefreshEnds(c) PROVE SessionTypeInv'
<1>1. SessionTypeOK /\ PairsAreIssued /\ refreshes[c].phase \in {"rotated", "refused"}
      /\ UNCHANGED <<serverVars, orphans, shown, reloads>> /\ hurt' \in BOOLEAN
  BY DEF SessionTypeInv, SessionTypeOK, RefreshEnds
<1>2. /\ CallType' = CallType /\ RefreshType' = RefreshType /\ calls' \in [Slots -> CallType]
      /\ refreshes' \in [Slots -> RefreshType] /\ inflight' = None /\ loading' \in BOOLEAN
  BY <1>1, RefreshEndsMoves
<1>3. store' \in [access : 0..issued, refresh : 0..issued]
  BY <1>1, RefreshEndsMoves, SessionAssumption
     DEF PairsAreIssued, EmptyStore, NoPair, SessionTypeOK
<1>4. SessionTypeOK'
  BY <1>1, <1>2, <1>3, TypesFromTables DEF SessionTypeOK
<1>5. IdleCall.phase = "idle"
  BY DEF IdleCall
<1>6. ASSUME NEW d \in Slots
      PROVE  \/ calls'[d] = calls[d] \/ calls'[d] = IdleCall
             \/ calls[d].phase = "waiting" /\ calls'[d].phase = "sent" /\ calls'[d].who = calls[d].who
  BY RefreshEndsMoves DEF RetriesWith
<1>7. ASSUME NEW d \in Slots
      PROVE  refreshes'[d] = refreshes[d] \/ refreshes'[d].phase = "none"
  BY RefreshEndsMoves
<1>8. PairsAreIssued'
  BY <1>1, <1>5, <1>6, <1>7, SlotNames DEF PairsAreIssued, Open
<1> QED
  BY <1>4, <1>8 DEF SessionTypeInv

LEMMA SucceedType ==
  ASSUME SessionTypeInv, NEW c \in Slots, Succeed(c) PROVE SessionTypeInv'
<1>1. SessionTypeOK /\ PairsAreIssued /\ calls' = [calls EXCEPT ![c] = IdleCall]
      /\ UNCHANGED <<serverVars, refreshes, inflight, orphans, reloads>> /\ hurt' \in BOOLEAN
  BY DEF SessionTypeInv, SessionTypeOK, Succeed
<1>2. 0 \in 0..issued
  BY <1>1, SessionAssumption DEF SessionTypeOK
<1>3. IdleCall \in CallType /\ IdleCall.phase = "idle"
  BY <1>2, SlotNames DEF IdleCall, CallType, CallPhases, NoPair
<1>4. calls' \in [Slots -> CallType'] /\ refreshes' \in [Slots -> RefreshType']
  BY <1>1, <1>3, TypesOfCalls DEF CallType, RefreshType
<1>5. store' \in [access : 0..issued, refresh : 0..issued]
  BY <1>1, <1>2 DEF Succeed, EmptyStore, NoPair, SessionTypeOK
<1>6. shown' \in Users \cup {None} /\ loading' \in BOOLEAN
  BY <1>1, SessionAssumption DEF Succeed, SessionTypeOK, PairsAreIssued, Tokens
<1>7. SessionTypeOK'
  BY <1>1, <1>4, <1>5, <1>6, TypesFromTables DEF SessionTypeOK
<1>8. PairsAreIssued'
  BY <1>1, <1>3, SlotNames, TypesOfCalls DEF PairsAreIssued, Open
<1> QED
  BY <1>7, <1>8 DEF SessionTypeInv

LEMMA FailType ==
  ASSUME SessionTypeInv, NEW c \in Slots, Fail(c) PROVE SessionTypeInv'
<1>1. SessionTypeOK /\ PairsAreIssued /\ calls' = [calls EXCEPT ![c] = IdleCall]
      /\ UNCHANGED <<serverVars, refreshes, inflight, orphans, shown, reloads>> /\ hurt' \in BOOLEAN
  BY DEF SessionTypeInv, SessionTypeOK, Fail
<1>2. 0 \in 0..issued
  BY <1>1, SessionAssumption DEF SessionTypeOK
<1>3. IdleCall \in CallType /\ IdleCall.phase = "idle"
  BY <1>2, SlotNames DEF IdleCall, CallType, CallPhases, NoPair
<1>4. calls' \in [Slots -> CallType'] /\ refreshes' \in [Slots -> RefreshType']
  BY <1>1, <1>3, TypesOfCalls DEF CallType, RefreshType
<1>5. store' \in [access : 0..issued, refresh : 0..issued] /\ loading' \in BOOLEAN
  BY <1>1, <1>2 DEF Fail, EndedWithError, EmptyStore, NoPair, SessionTypeOK
<1>6. SessionTypeOK'
  BY <1>1, <1>4, <1>5, TypesFromTables DEF SessionTypeOK
<1>7. PairsAreIssued'
  BY <1>1, <1>3, SlotNames, TypesOfCalls DEF PairsAreIssued, Open
<1> QED
  BY <1>6, <1>7 DEF SessionTypeInv

LEMMA StutterType ==
  ASSUME SessionTypeInv, UNCHANGED vars PROVE SessionTypeInv'
BY DEF vars, SessionTypeInv, SessionTypeOK, PairsAreIssued, Open

LEMMA StepType == SessionTypeInv /\ [Next]_vars => SessionTypeInv'
BY FetchType, SubmitLoginType, LogoutType, ReloadType, ServeType, GrantLoginType, RefuseLoginType,
   LookUpTokenType, RotateType, RotateOrphanType, ExpireAccessType, EndSessionType, RetryType,
   RefreshEndsType, SucceedType, FailType, LoseCallType, LoseRefreshType, StutterType
   DEF Next, ServerStep, PageStep

\* The session's state always has its types, and calls, refreshes and answers name pairs that
\* were issued: an access token that the server accepts and a refresh token it is asked to
\* rotate always have an owner.
THEOREM SessionTypeCorrect == Spec => []SessionTypeOK
<1>1. Init => SessionTypeInv
  BY InitType
<1>2. SessionTypeInv /\ [Next]_vars => SessionTypeInv'
  BY StepType
<1>3. SessionTypeInv => SessionTypeOK
  BY DEF SessionTypeInv
<1> QED
  BY <1>1, <1>2, <1>3, PTL DEF Spec

-----------------------------------------------------------------------------
(* The shared refresh                                                      *)

\* A refresh is in flight exactly while the call that started it waits.
SharedInv ==
  /\ SessionTypeInv
  /\ RefreshIsShared
  /\ inflight # None => calls[inflight].phase = "waiting"
  /\ \A c \in Slots : calls[c].phase = "waiting" => inflight # None

LEMMA SharedFrame ==
  ASSUME SharedInv, SessionTypeInv', inflight' = inflight,
         \A d \in Slots : \/ calls'[d] = calls[d]
                          \/ calls[d].phase # "waiting" /\ calls'[d].phase # "waiting",
         \A d \in Slots : refreshes'[d].phase = "none" <=> refreshes[d].phase = "none"
  PROVE  SharedInv'
BY DEF SharedInv, RefreshIsShared, SessionTypeInv, SessionTypeOK

LEMMA FetchShared ==
  ASSUME SharedInv, NEW c \in DataCalls, Fetch(c) PROVE SharedInv'
<1>1. SessionTypeInv /\ SessionTypeOK /\ SessionTypeInv' /\ inflight' = inflight
  BY FetchType DEF SharedInv, SessionTypeInv, Fetch
<1>2. calls \in [Slots -> CallType] /\ refreshes \in [Slots -> RefreshType]
  BY <1>1, TypesOfCalls
<1>3. ASSUME NEW d \in Slots
      PROVE  /\ \/ calls'[d] = calls[d]
                \/ calls[d].phase # "waiting" /\ calls'[d].phase # "waiting"
             /\ refreshes'[d].phase = "none" <=> refreshes[d].phase = "none"
  BY <1>1, <1>2, SlotNames DEF Fetch, Sent, Open
<1> QED
  BY <1>1, <1>3, SharedFrame

LEMMA SubmitLoginShared ==
  ASSUME SharedInv, NEW u \in Users, SubmitLogin(u) PROVE SharedInv'
<1>1. SessionTypeInv /\ SessionTypeOK /\ SessionTypeInv' /\ inflight' = inflight
  BY SubmitLoginType DEF SharedInv, SessionTypeInv, SubmitLogin
<1>2. calls \in [Slots -> CallType] /\ refreshes \in [Slots -> RefreshType]
  BY <1>1, TypesOfCalls
<1>3. ASSUME NEW d \in Slots
      PROVE  /\ \/ calls'[d] = calls[d]
                \/ calls[d].phase # "waiting" /\ calls'[d].phase # "waiting"
             /\ refreshes'[d].phase = "none" <=> refreshes[d].phase = "none"
  BY <1>1, <1>2, SlotNames DEF SubmitLogin, Sent, Open
<1> QED
  BY <1>1, <1>3, SharedFrame

LEMMA LogoutShared ==
  ASSUME SharedInv, Logout PROVE SharedInv'
<1>1. SessionTypeInv /\ SessionTypeOK /\ SessionTypeInv' /\ inflight' = inflight
  BY LogoutType DEF SharedInv, SessionTypeInv, Logout
<1>2. calls \in [Slots -> CallType] /\ refreshes \in [Slots -> RefreshType]
  BY <1>1, TypesOfCalls
<1>3. ASSUME NEW d \in Slots
      PROVE  /\ \/ calls'[d] = calls[d]
                \/ calls[d].phase # "waiting" /\ calls'[d].phase # "waiting"
             /\ refreshes'[d].phase = "none" <=> refreshes[d].phase = "none"
  BY <1>1, <1>2, SlotNames DEF Logout, Sent, Open
<1> QED
  BY <1>1, <1>3, SharedFrame

LEMMA ServeShared ==
  ASSUME SharedInv, NEW c \in Slots, Serve(c) PROVE SharedInv'
<1>1. SessionTypeInv /\ SessionTypeOK /\ SessionTypeInv' /\ inflight' = inflight
  BY ServeType DEF SharedInv, SessionTypeInv, Serve
<1>2. calls \in [Slots -> CallType] /\ refreshes \in [Slots -> RefreshType]
  BY <1>1, TypesOfCalls
<1>3. ASSUME NEW d \in Slots
      PROVE  /\ \/ calls'[d] = calls[d]
                \/ calls[d].phase # "waiting" /\ calls'[d].phase # "waiting"
             /\ refreshes'[d].phase = "none" <=> refreshes[d].phase = "none"
  BY <1>1, <1>2, SlotNames, ServeMoves DEF Serve, CallMoves, Open
<1> QED
  BY <1>1, <1>3, SharedFrame

LEMMA GrantLoginShared ==
  ASSUME SharedInv, GrantLogin PROVE SharedInv'
<1>1. SessionTypeInv /\ SessionTypeOK /\ SessionTypeInv' /\ inflight' = inflight
  BY GrantLoginType DEF SharedInv, SessionTypeInv, GrantLogin
<1>2. calls \in [Slots -> CallType] /\ refreshes \in [Slots -> RefreshType]
  BY <1>1, TypesOfCalls
<1>3. ASSUME NEW d \in Slots
      PROVE  /\ \/ calls'[d] = calls[d]
                \/ calls[d].phase # "waiting" /\ calls'[d].phase # "waiting"
             /\ refreshes'[d].phase = "none" <=> refreshes[d].phase = "none"
  BY <1>1, <1>2, SlotNames, GrantLoginMoves DEF GrantLogin, Open
<1> QED
  BY <1>1, <1>3, SharedFrame

LEMMA RefuseLoginShared ==
  ASSUME SharedInv, RefuseLogin PROVE SharedInv'
<1>1. SessionTypeInv /\ SessionTypeOK /\ SessionTypeInv' /\ inflight' = inflight
  BY RefuseLoginType DEF SharedInv, SessionTypeInv, RefuseLogin
<1>2. calls \in [Slots -> CallType] /\ refreshes \in [Slots -> RefreshType]
  BY <1>1, TypesOfCalls
<1>3. ASSUME NEW d \in Slots
      PROVE  /\ \/ calls'[d] = calls[d]
                \/ calls[d].phase # "waiting" /\ calls'[d].phase # "waiting"
             /\ refreshes'[d].phase = "none" <=> refreshes[d].phase = "none"
  BY <1>1, <1>2, SlotNames, RefuseLoginMoves DEF RefuseLogin, CallMoves, Open
<1> QED
  BY <1>1, <1>3, SharedFrame

LEMMA LookUpTokenShared ==
  ASSUME SharedInv, NEW c \in Slots, LookUpToken(c) PROVE SharedInv'
<1>1. SessionTypeInv /\ SessionTypeOK /\ SessionTypeInv' /\ inflight' = inflight
  BY LookUpTokenType DEF SharedInv, SessionTypeInv, LookUpToken
<1>2. calls \in [Slots -> CallType] /\ refreshes \in [Slots -> RefreshType]
  BY <1>1, TypesOfCalls
<1>3. ASSUME NEW d \in Slots
      PROVE  /\ \/ calls'[d] = calls[d]
                \/ calls[d].phase # "waiting" /\ calls'[d].phase # "waiting"
             /\ refreshes'[d].phase = "none" <=> refreshes[d].phase = "none"
  BY <1>1, <1>2, SlotNames, LookUpTokenMoves DEF LookUpToken, RefreshMoves, Open
<1> QED
  BY <1>1, <1>3, SharedFrame

LEMMA RotateShared ==
  ASSUME SharedInv, NEW c \in Slots, Rotate(c) PROVE SharedInv'
<1>1. SessionTypeInv /\ SessionTypeOK /\ SessionTypeInv' /\ inflight' = inflight
  BY RotateType DEF SharedInv, SessionTypeInv, Rotate
<1>2. calls \in [Slots -> CallType] /\ refreshes \in [Slots -> RefreshType]
  BY <1>1, TypesOfCalls
<1>3. ASSUME NEW d \in Slots
      PROVE  /\ \/ calls'[d] = calls[d]
                \/ calls[d].phase # "waiting" /\ calls'[d].phase # "waiting"
             /\ refreshes'[d].phase = "none" <=> refreshes[d].phase = "none"
  BY <1>1, <1>2, SlotNames, RotateMoves DEF Rotate, Open
<1> QED
  BY <1>1, <1>3, SharedFrame

LEMMA RotateOrphanShared ==
  ASSUME SharedInv, NEW t \in Tokens, RotateOrphan(t) PROVE SharedInv'
<1>1. SessionTypeInv /\ SessionTypeOK /\ SessionTypeInv' /\ inflight' = inflight
  BY RotateOrphanType DEF SharedInv, SessionTypeInv, RotateOrphan
<1>2. calls \in [Slots -> CallType] /\ refreshes \in [Slots -> RefreshType]
  BY <1>1, TypesOfCalls
<1>3. ASSUME NEW d \in Slots
      PROVE  /\ \/ calls'[d] = calls[d]
                \/ calls[d].phase # "waiting" /\ calls'[d].phase # "waiting"
             /\ refreshes'[d].phase = "none" <=> refreshes[d].phase = "none"
  BY <1>1, <1>2, SlotNames DEF RotateOrphan, Open
<1> QED
  BY <1>1, <1>3, SharedFrame

LEMMA ExpireAccessShared ==
  ASSUME SharedInv, NEW t \in Tokens, ExpireAccess(t) PROVE SharedInv'
<1>1. SessionTypeInv /\ SessionTypeOK /\ SessionTypeInv' /\ inflight' = inflight
  BY ExpireAccessType DEF SharedInv, SessionTypeInv, ExpireAccess
<1>2. calls \in [Slots -> CallType] /\ refreshes \in [Slots -> RefreshType]
  BY <1>1, TypesOfCalls
<1>3. ASSUME NEW d \in Slots
      PROVE  /\ \/ calls'[d] = calls[d]
                \/ calls[d].phase # "waiting" /\ calls'[d].phase # "waiting"
             /\ refreshes'[d].phase = "none" <=> refreshes[d].phase = "none"
  BY <1>1, <1>2, SlotNames DEF ExpireAccess, Open
<1> QED
  BY <1>1, <1>3, SharedFrame

LEMMA EndSessionShared ==
  ASSUME SharedInv, NEW t \in Tokens, EndSession(t) PROVE SharedInv'
<1>1. SessionTypeInv /\ SessionTypeOK /\ SessionTypeInv' /\ inflight' = inflight
  BY EndSessionType DEF SharedInv, SessionTypeInv, EndSession
<1>2. calls \in [Slots -> CallType] /\ refreshes \in [Slots -> RefreshType]
  BY <1>1, TypesOfCalls
<1>3. ASSUME NEW d \in Slots
      PROVE  /\ \/ calls'[d] = calls[d]
                \/ calls[d].phase # "waiting" /\ calls'[d].phase # "waiting"
             /\ refreshes'[d].phase = "none" <=> refreshes[d].phase = "none"
  BY <1>1, <1>2, SlotNames DEF EndSession, Open
<1> QED
  BY <1>1, <1>3, SharedFrame

LEMMA SucceedShared ==
  ASSUME SharedInv, NEW c \in Slots, Succeed(c) PROVE SharedInv'
<1>1. SessionTypeInv /\ SessionTypeOK /\ SessionTypeInv' /\ inflight' = inflight
  BY SucceedType DEF SharedInv, SessionTypeInv, Succeed
<1>2. calls \in [Slots -> CallType] /\ refreshes \in [Slots -> RefreshType]
  BY <1>1, TypesOfCalls
<1>3. ASSUME NEW d \in Slots
      PROVE  /\ \/ calls'[d] = calls[d]
                \/ calls[d].phase # "waiting" /\ calls'[d].phase # "waiting"
             /\ refreshes'[d].phase = "none" <=> refreshes[d].phase = "none"
  BY <1>1, <1>2, SlotNames DEF Succeed, IdleCall, Open
<1> QED
  BY <1>1, <1>3, SharedFrame

LEMMA FailShared ==
  ASSUME SharedInv, NEW c \in Slots, Fail(c) PROVE SharedInv'
<1>1. SessionTypeInv /\ SessionTypeOK /\ SessionTypeInv' /\ inflight' = inflight
  BY FailType DEF SharedInv, SessionTypeInv, Fail
<1>2. calls \in [Slots -> CallType] /\ refreshes \in [Slots -> RefreshType]
  BY <1>1, TypesOfCalls
<1>3. ASSUME NEW d \in Slots
      PROVE  /\ \/ calls'[d] = calls[d]
                \/ calls[d].phase # "waiting" /\ calls'[d].phase # "waiting"
             /\ refreshes'[d].phase = "none" <=> refreshes[d].phase = "none"
  BY <1>1, <1>2, SlotNames DEF Fail, IdleCall, EndedWithError, Open
<1> QED
  BY <1>1, <1>3, SharedFrame

LEMMA LoseCallShared ==
  ASSUME SharedInv, NEW c \in Slots, LoseCall(c) PROVE SharedInv'
<1>1. SessionTypeInv /\ SessionTypeOK /\ SessionTypeInv' /\ inflight' = inflight
  BY LoseCallType DEF SharedInv, SessionTypeInv, LoseCall
<1>2. calls \in [Slots -> CallType] /\ refreshes \in [Slots -> RefreshType]
  BY <1>1, TypesOfCalls
<1>3. ASSUME NEW d \in Slots
      PROVE  /\ \/ calls'[d] = calls[d]
                \/ calls[d].phase # "waiting" /\ calls'[d].phase # "waiting"
             /\ refreshes'[d].phase = "none" <=> refreshes[d].phase = "none"
  BY <1>1, <1>2, SlotNames, LoseCallMoves DEF LoseCall, CallMoves, Open
<1> QED
  BY <1>1, <1>3, SharedFrame

LEMMA LoseRefreshShared ==
  ASSUME SharedInv, NEW c \in Slots, LoseRefresh(c) PROVE SharedInv'
<1>1. SessionTypeInv /\ SessionTypeOK /\ SessionTypeInv' /\ inflight' = inflight
  BY LoseRefreshType DEF SharedInv, SessionTypeInv, LoseRefresh
<1>2. calls \in [Slots -> CallType] /\ refreshes \in [Slots -> RefreshType]
  BY <1>1, TypesOfCalls
<1>3. ASSUME NEW d \in Slots
      PROVE  /\ \/ calls'[d] = calls[d]
                \/ calls[d].phase # "waiting" /\ calls'[d].phase # "waiting"
             /\ refreshes'[d].phase = "none" <=> refreshes[d].phase = "none"
  BY <1>1, <1>2, SlotNames, LoseRefreshMoves DEF LoseRefresh, RefreshMoves, Open
<1> QED
  BY <1>1, <1>3, SharedFrame

LEMMA ReloadShared ==
  ASSUME SharedInv, Reload PROVE SharedInv'
<1>1. SessionTypeInv' /\ inflight' = None
  BY ReloadType DEF SharedInv, Reload
<1>2. \A d \in Slots : calls'[d].phase # "waiting" /\ refreshes'[d].phase = "none"
  BY DEF Reload, Sent, IdleCall, NoRefresh
<1> QED
  BY <1>1, <1>2, SlotNames DEF SharedInv, RefreshIsShared

LEMMA RetryShared ==
  ASSUME SharedInv, NEW c \in Slots, Retry(c) PROVE SharedInv'
<1>1. SessionTypeInv' /\ SessionTypeOK /\ c # None /\ calls[c].phase = "unauthorized"
  BY RetryType, SlotNames DEF SharedInv, SessionTypeInv, Retry
<1>2. /\ inflight' \in Slots /\ inflight' = IF inflight = None THEN c ELSE inflight
      /\ calls'[c].phase = "waiting" /\ calls'[c].on = inflight'
      /\ \A d \in Slots \ {c} : calls'[d] = calls[d]
  BY <1>1, RetryMoves, SlotNames DEF SessionTypeOK
<1>3. CASE inflight # None
  <2>1. refreshes' = refreshes /\ inflight' = inflight
    BY <1>1, <1>2, <1>3, RetryMoves
  <2>2. \A d \in Slots : calls'[d].phase = "waiting" => inflight' = calls'[d].on
    BY <1>2, <1>3, <2>1 DEF SharedInv, RefreshIsShared
  <2>3. calls'[inflight'].phase = "waiting"
    BY <1>2, <1>3, <2>1 DEF SharedInv
  <2> QED
    BY <1>1, <2>1, <1>2, <1>3, <2>2, <2>3 DEF SharedInv, RefreshIsShared
<1>4. CASE inflight = None
  <2>1. inflight' = c /\ refreshes'[c].phase = "sent" /\ \A d \in Slots \ {c} : refreshes'[d] = refreshes[d]
    BY <1>1, <1>2, <1>4, RetryMoves
  <2>2. \A d \in Slots : refreshes'[d].phase # "none" <=> inflight' = d
    BY <1>4, <2>1, SlotNames DEF SharedInv, RefreshIsShared
  <2>3. \A d \in Slots \ {c} : calls'[d].phase # "waiting"
    BY <1>2, <1>4 DEF SharedInv
  <2>4. \A d \in Slots : calls'[d].phase = "waiting" => inflight' = calls'[d].on
    BY <1>2, <2>1, <2>3
  <2> QED
    BY <1>1, <1>2, <2>1, <2>2, <2>4, SlotNames DEF SharedInv, RefreshIsShared
<1> QED
  BY <1>3, <1>4

LEMMA RefreshEndsShared ==
  ASSUME SharedInv, NEW c \in Slots, RefreshEnds(c) PROVE SharedInv'
<1>1. SessionTypeInv /\ SessionTypeInv' /\ inflight' = None /\ refreshes[c].phase # "none"
  BY RefreshEndsType DEF SharedInv, RefreshEnds
<1>2. inflight = c
  BY <1>1 DEF SharedInv, RefreshIsShared
<1>3. \A d \in Slots : calls'[d].phase # "waiting"
  BY <1>1, <1>2, RefreshEndsMoves DEF SharedInv, RefreshIsShared, RetriesWith, IdleCall
<1>4. \A d \in Slots : refreshes'[d].phase = "none"
  BY <1>1, <1>2, RefreshEndsMoves DEF SharedInv, RefreshIsShared
<1> QED
  BY <1>1, <1>3, <1>4, SlotNames DEF SharedInv, RefreshIsShared

LEMMA StutterShared ==
  ASSUME SharedInv, UNCHANGED vars PROVE SharedInv'
BY StutterType DEF SharedInv, RefreshIsShared, vars

LEMMA InitShared == Init => SharedInv
BY InitType, SlotNames DEF Init, SharedInv, RefreshIsShared, IdleCall, NoRefresh

LEMMA StepShared == SharedInv /\ [Next]_vars => SharedInv'
BY FetchShared, SubmitLoginShared, LogoutShared, ReloadShared, ServeShared, GrantLoginShared,
   RefuseLoginShared, LookUpTokenShared, RotateShared, RotateOrphanShared, ExpireAccessShared,
   EndSessionShared, RetryShared, RefreshEndsShared, SucceedShared, FailShared, LoseCallShared,
   LoseRefreshShared, StutterShared
   DEF Next, ServerStep, PageStep

\* However many calls of the page meet an expired token, while the user logs in and out and the
\* page reloads, they share one refresh (refreshInflight), the one each of them waits for: no
\* second one presents a token that was just rotated. Holds whoever signs in when.
THEOREM OneRefreshInFlight == Spec => []RefreshIsShared
<1>1. Init => SharedInv
  BY InitShared
<1>2. SharedInv /\ [Next]_vars => SharedInv'
  BY StepShared
<1>3. SharedInv => RefreshIsShared
  BY DEF SharedInv
<1> QED
  BY <1>1, <1>2, <1>3, PTL DEF Spec

-----------------------------------------------------------------------------
(* The session shown                                                       *)

\* While a call of this kind is open nobody is shown and nothing else is open.
Alone(c) == Open(c) => shown = None /\ \A d \in Slots \ {c} : ~Open(d)

\* The two halves of the stored pair belong together; the spinner is the session check's, which
\* runs alone and carries the stored pair; the login form is shown to nobody who is signed in.
PageIsOrderly ==
  /\ store.access = store.refresh
  /\ loading <=> Open("me")
  /\ Alone("me") /\ (Open("login") => shown = None)
  /\ Open("me") /\ calls["me"].phase # "waiting" => calls["me"].access = store.access

\* A pair on its way to the page is not one the page already uses: neither the pair a login was
\* granted nor the one a rotation issued is stored, being refreshed or being logged out; and a
\* logout that is late names a pair other than the one stored since.
PairsAreApart ==
  /\ Open("logout") => /\ calls["logout"].body # NoPair
                       /\ shown # None => calls["logout"].body # store.refresh
  /\ LoginGranted =>
       /\ calls["login"].body # store.refresh
       /\ Open("logout") => calls["logout"].body # calls["login"].body
       /\ \A c \in Slots : /\ refreshes[c].phase # "none" => refreshes[c].token # calls["login"].body
                           /\ refreshes[c].phase = "rotated" => refreshes[c].new # calls["login"].body
  /\ \A c \in Slots : refreshes[c].phase = "rotated" =>
       /\ refreshes[c].new # store.refresh
       /\ Open("logout") => calls["logout"].body # refreshes[c].new

\* The server knows the token, and no page that is gone will rotate it.
Sound == live \ orphans

\* The stored pair was rotated, and the new one is on its way.
Renewed(c) == refreshes[c].phase = "rotated" /\ refreshes[c].token = store.refresh

\* Between refreshes the stored pair is sound, unless a logout or a login is replacing it; while
\* a user is shown it is sound and theirs until the rotation of just this pair.
StoredPairIsSound ==
  ~hurt =>
    /\ inflight = None /\ ~Open("logout") /\ ~LoginGranted /\ store.refresh # NoPair =>
         store.refresh \in Sound
    /\ shown # None /\ (\A c \in Slots : ~Renewed(c)) =>
         store.refresh \in Sound /\ owner[store.refresh] = shown

\* Then the new pair is; a refusal of the stored pair reaches a page that shows nobody. Of a
\* refresh of an earlier pair nothing is claimed.
RefreshIsSound ==
  ~hurt => \A c \in Slots : refreshes[c].token = store.refresh =>
    /\ refreshes[c].phase = "rotated" /\ ~LoginGranted =>
         refreshes[c].new \in Sound /\ (shown # None => owner[refreshes[c].new] = shown)
    /\ refreshes[c].phase = "refused" => shown = None

\* The pair a login was granted is sound and belongs to who signs in.
GrantIsSound ==
  ~hurt /\ LoginGranted =>
    calls["login"].body \in Sound /\ owner[calls["login"].body] = calls["login"].who

ShownInv ==
  /\ SharedInv /\ PageIsOrderly /\ PairsAreApart
  /\ StoredPairIsSound /\ RefreshIsSound /\ GrantIsSound

LEMMA ShownFacts ==
  ASSUME ShownInv
  PROVE  /\ SharedInv /\ SessionTypeInv /\ SessionTypeOK /\ PairsAreIssued
         /\ calls \in [Slots -> CallType] /\ refreshes \in [Slots -> RefreshType]
         /\ issued \in Nat /\ store.refresh \in 0..issued /\ shown \in Users \cup {None}
         /\ live \subseteq 1..issued /\ orphans \subseteq 1..issued /\ hurt \in BOOLEAN
         /\ PageIsOrderly /\ Alone("me") /\ PairsAreApart
         /\ \A c \in Slots : refreshes[c].phase # "none" <=> inflight = c
         /\ \A c \in Slots : calls[c].phase = "waiting" => inflight # None /\ inflight = calls[c].on
         /\ inflight # None => inflight \in Slots /\ calls[inflight].phase = "waiting"
BY TypesOfCalls, SessionAssumption
   DEF ShownInv, SharedInv, RefreshIsShared, SessionTypeInv, SessionTypeOK, PageIsOrderly

\* A rotation spends one token and issues a sound one; every other sound pair stays as it was.
LEMMA RotationIsSound ==
  ASSUME SessionTypeOK, NEW u \in Users \cup {None}, Issue(u), NEW t,
         live' = (live \ {t}) \cup {issued'}, orphans' \subseteq orphans
  PROVE  /\ issued' \in Sound' /\ owner'[issued'] = u /\ issued' \notin 0..issued
         /\ Sound \subseteq 1..issued /\ Sound \ {t} \subseteq Sound'
         /\ \A x \in Sound : owner'[x] = owner[x]
<1>1. /\ issued' \notin 0..issued /\ owner'[issued'] = u /\ \A x \in 1..issued : owner'[x] = owner[x]
      /\ issued \in Nat
  BY IssueGrows
<1>2. live \subseteq 1..issued /\ orphans \subseteq 1..issued /\ 1..issued \subseteq 0..issued
  BY <1>1 DEF SessionTypeOK
<1>3. issued' \notin orphans'
  BY <1>1, <1>2
<1> QED
  BY <1>1, <1>2, <1>3 DEF Sound

\* A step that opens no logout, grants no login and leaves the store, the refreshes and the
\* user alone: the pairs stay apart.
LEMMA ApartFrame ==
  ASSUME ShownInv, UNCHANGED <<store, refreshes, shown>>,
         Open("logout")' => Open("logout") /\ calls'["logout"].body = calls["logout"].body,
         LoginGranted' => LoginGranted /\ calls'["login"].body = calls["login"].body
  PROVE  PairsAreApart'
BY ShownFacts, SlotNames DEF PairsAreApart

\* ... and so does what is said of their soundness, if no sound pair was lost.
LEMMA SoundFrame ==
  ASSUME ShownInv, UNCHANGED <<store, refreshes, shown, inflight>>, hurt' <=> hurt,
         Sound \subseteq Sound', \A x \in Sound : owner'[x] = owner[x],
         Open("logout")' <=> Open("logout"),
         LoginGranted' <=> LoginGranted,
         LoginGranted => calls'["login"].body = calls["login"].body /\ calls'["login"].who = calls["login"].who
  PROVE  StoredPairIsSound' /\ RefreshIsSound' /\ GrantIsSound'
<1>1. \A c \in Slots : Renewed(c)' <=> Renewed(c)
  BY DEF Renewed
<1>2. StoredPairIsSound'
  BY <1>1 DEF ShownInv, StoredPairIsSound
<1>3. RefreshIsSound'
  BY DEF ShownInv, RefreshIsSound
<1>4. GrantIsSound'
  BY DEF ShownInv, GrantIsSound
<1> QED
  BY <1>2, <1>3, <1>4

LEMMA FetchShown ==
  ASSUME ShownInv, NEW c \in DataCalls, Fetch(c) PROVE ShownInv'
<1>1. SharedInv'
  BY FetchShared DEF ShownInv
<1>2. /\ UNCHANGED <<store, refreshes, shown, inflight, hurt, owner, live, orphans, loading>>
      /\ Open("logout")' <=> Open("logout")
      /\ calls'["logout"].body = calls["logout"].body
      /\ LoginGranted' <=> LoginGranted
      /\ LoginGranted => calls'["login"] = calls["login"]
  BY ShownFacts, SlotNames DEF Fetch, Sent, LoginGranted, Open
<1>3. PageIsOrderly'
  BY ShownFacts, SlotNames DEF PageIsOrderly, Alone, Open, Fetch, Sent
<1>4. PairsAreApart'
  BY <1>2, ApartFrame
<1>5. StoredPairIsSound' /\ RefreshIsSound' /\ GrantIsSound'
  BY <1>2, SoundFrame DEF Sound
<1> QED
  BY <1>1, <1>3, <1>4, <1>5 DEF ShownInv

LEMMA SubmitLoginShown ==
  ASSUME ShownInv, NEW u \in Users, SubmitLogin(u) PROVE ShownInv'
<1>1. SharedInv'
  BY SubmitLoginShared DEF ShownInv
<1>2. /\ UNCHANGED <<store, refreshes, shown, inflight, hurt, owner, live, orphans, loading>>
      /\ Open("logout")' <=> Open("logout")
      /\ calls'["logout"].body = calls["logout"].body
      /\ LoginGranted' <=> LoginGranted
      /\ LoginGranted => calls'["login"] = calls["login"]
  BY ShownFacts, SlotNames DEF SubmitLogin, Sent, LoginGranted, Open
<1>3. PageIsOrderly'
  BY ShownFacts, SlotNames DEF PageIsOrderly, Alone, Open, SubmitLogin, Sent
<1>4. PairsAreApart'
  BY <1>2, ApartFrame
<1>5. StoredPairIsSound' /\ RefreshIsSound' /\ GrantIsSound'
  BY <1>2, SoundFrame DEF Sound
<1> QED
  BY <1>1, <1>3, <1>4, <1>5 DEF ShownInv

LEMMA LogoutShown ==
  ASSUME ShownInv, Logout PROVE ShownInv'
<1>1. SharedInv'
  BY LogoutShared DEF ShownInv
<1>2. /\ shown' = None /\ shown # None /\ ~Open("logout") /\ ~Open("me") /\ ~Open("login")
      /\ UNCHANGED <<refreshes, inflight, hurt, owner, live, orphans, loading>>
      /\ \A d \in Slots \ {"logout"} : calls'[d] = calls[d]
      /\ store.refresh = NoPair => store' = EmptyStore /\ calls' = calls
      /\ store.refresh # NoPair => /\ store' = store /\ calls'["logout"].body = store.refresh
                                   /\ calls'["logout"].phase = "sent"
  BY ShownFacts, SlotNames DEF Logout, Sent, PageIsOrderly, Alone
<1>3. ~LoginGranted' /\ ~Open("me")' /\ ~Open("login")'
  BY <1>2, SlotNames DEF LoginGranted, Open
<1>4. store'.refresh = store.refresh /\ store'.access = store'.refresh
  BY <1>2, ShownFacts DEF PageIsOrderly, EmptyStore
<1>5. PageIsOrderly'
  BY <1>2, <1>3, <1>4, ShownFacts DEF PageIsOrderly, Alone
<1>6. Open("logout")' => store.refresh # NoPair /\ calls'["logout"].body = store.refresh
  BY <1>2 DEF Open
<1>7. PairsAreApart'
  BY <1>2, <1>3, <1>4, <1>6, ShownFacts DEF PairsAreApart
<1>8. StoredPairIsSound'
  BY <1>2, <1>3, <1>4 DEF StoredPairIsSound, Open
<1>9. RefreshIsSound'
  <2>1. ~LoginGranted
    BY <1>2 DEF LoginGranted, Open
  <2> QED
    BY <1>2, <1>4, <2>1 DEF ShownInv, RefreshIsSound, Sound
<1>10. GrantIsSound'
  BY <1>3 DEF GrantIsSound
<1> QED
  BY <1>1, <1>5, <1>7, <1>8, <1>9, <1>10 DEF ShownInv

LEMMA ReloadShown ==
  ASSUME ShownInv, Reload PROVE ShownInv'
<1>1. SharedInv'
  BY ReloadShared DEF ShownInv
<1>2. /\ calls' = [c \in Slots |-> IF c = "me" /\ store # EmptyStore THEN Sent(None, NoPair) ELSE IdleCall]
      /\ refreshes' = [c \in Slots |-> NoRefresh]
      /\ inflight' = None /\ shown' = None /\ loading' = (store # EmptyStore)
      /\ hurt' = (hurt \/ Open("login") \/ Open("logout") \/ inflight # None)
      /\ UNCHANGED <<live, store, owner>>
  BY DEF Reload
<1>3. \A c \in Slots : (Open(c)' => c = "me") /\ calls'[c].phase # "accepted" /\ calls'[c].phase # "waiting"
                       /\ refreshes'[c].phase = "none"
  BY <1>2 DEF Open, Sent, IdleCall, NoRefresh
<1>4. store # EmptyStore => calls'["me"].phase = "sent" /\ calls'["me"].access = store.access
  BY <1>2, SlotNames DEF Sent
<1>5. store = EmptyStore => calls'["me"].phase = "idle"
  BY <1>2, SlotNames DEF IdleCall
<1>6. PageIsOrderly' /\ PairsAreApart'
  BY <1>2, <1>3, <1>4, <1>5, SlotNames, ShownFacts DEF PageIsOrderly, PairsAreApart, LoginGranted, Alone, Open
<1>7. ASSUME ~hurt', store.refresh # NoPair PROVE store.refresh \in Sound'
  <2>1. inflight = None /\ ~Open("login") /\ ~Open("logout") /\ ~hurt
    BY <1>2, <1>7
  <2>2. store.refresh \in Sound
    BY <1>7, <2>1 DEF ShownInv, StoredPairIsSound, LoginGranted, Open
  <2>3. \A c \in Slots : refreshes[c].phase = "none"
    BY <2>1, SlotNames, ShownFacts
  <2>4. orphans' = orphans
    BY <2>3 DEF Reload
  <2> QED
    BY <1>2, <2>2, <2>4 DEF Sound
<1>8. StoredPairIsSound'
  BY <1>2, <1>7 DEF StoredPairIsSound
<1>9. RefreshIsSound' /\ GrantIsSound'
  BY <1>3, SlotNames DEF RefreshIsSound, GrantIsSound, LoginGranted
<1> QED
  BY <1>1, <1>6, <1>8, <1>9 DEF ShownInv

LEMMA ServeShown ==
  ASSUME ShownInv, NEW c \in Slots, Serve(c) PROVE ShownInv'
<1>1. SharedInv'
  BY ServeShared DEF ShownInv
<1>2. /\ calls[c].phase = "sent" /\ c # "login" /\ calls'["login"] = calls["login"]
      /\ UNCHANGED <<store, refreshes, shown, inflight, hurt, owner, orphans, loading>>
      /\ \A d \in Slots : (Open(d)' <=> Open(d)) /\ calls'[d].body = calls[d].body
                           /\ calls'[d].access = calls[d].access
                           /\ (calls'[d].phase = "waiting" <=> calls[d].phase = "waiting")
  BY ShownFacts, SlotNames, ServeMoves DEF Serve, CallMoves, Open
<1>3. PageIsOrderly'
  BY <1>2, SlotNames, ShownFacts DEF PageIsOrderly, Alone
<1>4. LoginGranted' <=> LoginGranted
  BY <1>2 DEF LoginGranted
<1>5. PairsAreApart'
  BY <1>2, <1>4, SlotNames, ApartFrame
<1>6. CASE live' = live
  BY <1>1, <1>2, <1>3, <1>4, <1>5, <1>6, SlotNames, SoundFrame DEF ShownInv, Sound
<1>7. CASE live' # live
  <2>1. Open("logout") /\ live \ {calls["logout"].body} \subseteq live'
    BY <1>2, <1>7, SlotNames DEF Serve, Open
  <2>2. Sound \ {calls["logout"].body} \subseteq Sound'
    BY <1>2, <2>1 DEF Sound
  <2>3. \A d \in Slots : Renewed(d)' <=> Renewed(d)
    BY <1>2 DEF Renewed
  <2>4. StoredPairIsSound'
    BY <1>2, <2>1, <2>2, <2>3, SlotNames, ShownFacts DEF ShownInv, StoredPairIsSound, PairsAreApart
  <2>5. RefreshIsSound'
    BY <1>2, <1>4, <2>1, <2>2, ShownFacts DEF ShownInv, RefreshIsSound, PairsAreApart
  <2>6. GrantIsSound'
    BY <1>2, <1>4, <2>1, <2>2, ShownFacts DEF ShownInv, GrantIsSound, PairsAreApart
  <2> QED
    BY <1>1, <1>3, <1>5, <2>4, <2>5, <2>6 DEF ShownInv
<1> QED
  BY <1>6, <1>7

LEMMA GrantLoginShown ==
  ASSUME ShownInv, GrantLogin PROVE ShownInv'
<1>1. SharedInv' /\ SessionTypeOK /\ Issue(calls["login"].who) /\ calls["login"].who \in Users
  BY GrantLoginShared, ShownFacts DEF ShownInv, GrantLogin, PairsAreIssued, Open
<1>2. /\ calls'["login"].phase = "accepted" /\ calls'["login"].body = issued'
      /\ calls'["login"].who = calls["login"].who
      /\ \A d \in Slots \ {"login"} : calls'[d] = calls[d]
      /\ UNCHANGED <<store, refreshes, inflight, shown, loading, orphans>> /\ Open("login")
  BY <1>1, GrantLoginMoves DEF GrantLogin, Open
<1>3. shown = None /\ LoginGranted' /\ ~Open("me")
  BY <1>2, SlotNames, ShownFacts DEF PageIsOrderly, LoginGranted, Alone
<1>4. PageIsOrderly'
  BY <1>2, <1>3, SlotNames, ShownFacts DEF PageIsOrderly, Alone, Open
<1>5. issued' \notin 0..issued /\ owner'[issued'] = calls["login"].who
  BY <1>1, IssueGrows
<1>6. /\ store.refresh \in 0..issued /\ calls["logout"].body \in 0..issued
      /\ \A c \in Slots : refreshes[c].token \in 0..issued /\ refreshes[c].new \in 0..issued
  BY ShownFacts, SlotNames DEF CallType, RefreshType
<1>7. PairsAreApart'
  <2>1. calls'["logout"] = calls["logout"]
    BY <1>2, SlotNames
  <2> QED
    BY <1>2, <1>3, <1>5, <1>6, <2>1, ShownFacts DEF PairsAreApart, Open
<1>8. StoredPairIsSound'
  BY <1>2, <1>3 DEF StoredPairIsSound
<1>9. RefreshIsSound'
  BY <1>2, <1>3 DEF RefreshIsSound
<1>10. orphans \subseteq 0..issued
  BY ShownFacts
<1>11. issued' \in Sound'
  BY <1>2, <1>5, <1>10 DEF GrantLogin, Sound
<1>12. GrantIsSound'
  BY <1>2, <1>5, <1>11 DEF GrantIsSound
<1> QED
  BY <1>1, <1>4, <1>7, <1>8, <1>9, <1>12 DEF ShownInv

LEMMA RefuseLoginShown ==
  ASSUME ShownInv, RefuseLogin PROVE ShownInv'
<1>1. SharedInv'
  BY RefuseLoginShared DEF ShownInv
<1>2. /\ UNCHANGED <<store, refreshes, shown, inflight, hurt, owner, live, orphans, loading>>
      /\ Open("logout")' <=> Open("logout")
      /\ calls'["logout"].body = calls["logout"].body
      /\ LoginGranted' <=> LoginGranted
      /\ LoginGranted => calls'["login"] = calls["login"]
  BY ShownFacts, SlotNames, RefuseLoginMoves DEF RefuseLogin, CallMoves, LoginGranted, Open
<1>3. PageIsOrderly'
  BY ShownFacts, SlotNames, RefuseLoginMoves DEF PageIsOrderly, Alone, Open, RefuseLogin, CallMoves
<1>4. PairsAreApart'
  BY <1>2, ApartFrame
<1>5. StoredPairIsSound' /\ RefreshIsSound' /\ GrantIsSound'
  BY <1>2, SoundFrame DEF Sound
<1> QED
  BY <1>1, <1>3, <1>4, <1>5 DEF ShownInv

LEMMA LookUpTokenShown ==
  ASSUME ShownInv, NEW c \in Slots, LookUpToken(c) PROVE ShownInv'
<1> DEFINE t == refreshes[c].token
<1>1. SharedInv'
  BY LookUpTokenShared DEF ShownInv
<1>2. /\ refreshes[c].phase = "sent"
      /\ t \in live => refreshes'[c].phase = "found"
      /\ t \notin live => refreshes'[c].phase = "refused"
      /\ \A d \in Slots \ {c} : refreshes'[d] = refreshes[d]
      /\ \A d \in Slots : refreshes'[d].token = refreshes[d].token
      /\ UNCHANGED <<store, calls, shown, inflight, hurt, owner, live, orphans, loading>>
  BY ShownFacts, LookUpTokenMoves DEF LookUpToken, RefreshMoves
<1>3. PageIsOrderly'
  BY <1>2, ShownFacts DEF PageIsOrderly, Alone, Open
<1>4. \A d \in Slots : /\ refreshes'[d].phase = "rotated" => refreshes'[d] = refreshes[d]
                       /\ refreshes'[d].phase # "none" => refreshes[d].phase # "none"
  BY <1>2
<1>5. LoginGranted' <=> LoginGranted
  BY <1>2 DEF LoginGranted
<1>6. PairsAreApart'
  BY <1>2, <1>4, <1>5, ShownFacts DEF PairsAreApart, Open
<1>7. \A d \in Slots : Renewed(d)' <=> Renewed(d)
  BY <1>2 DEF Renewed
<1>8. StoredPairIsSound'
  BY <1>2, <1>5, <1>7 DEF ShownInv, StoredPairIsSound, Sound, Open
<1>9. ASSUME ~hurt, t = store.refresh, t \notin live PROVE shown = None
  <2>1. \A d \in Slots : ~Renewed(d)
    BY <1>2, SlotNames, ShownFacts DEF Renewed
  <2> QED
    BY <1>9, <2>1 DEF ShownInv, StoredPairIsSound, Sound
<1>10. RefreshIsSound'
  BY <1>2, <1>5, <1>9 DEF ShownInv, RefreshIsSound, Sound
<1>11. GrantIsSound'
  BY <1>2, <1>5 DEF ShownInv, GrantIsSound, Sound
<1> QED
  BY <1>1, <1>3, <1>6, <1>8, <1>10, <1>11 DEF ShownInv

LEMMA RotateShown ==
  ASSUME ShownInv, NEW c \in Slots, Rotate(c) PROVE ShownInv'
<1> DEFINE t == refreshes[c].token
<1>1. SharedInv' /\ SessionTypeOK /\ SessionTypeInv
  BY RotateShared, ShownFacts DEF ShownInv
<1>2. /\ Issue(owner[t]) /\ owner[t] \in Users \cup {None}
      /\ refreshes'[c].phase = "rotated" /\ refreshes'[c].new = issued'
      /\ refreshes'[c].token = t
      /\ \A d \in Slots \ {c} : refreshes'[d] = refreshes[d]
  BY <1>1, RotateMoves
<1>3. /\ refreshes[c].phase = "found" /\ live' = (live \ {t}) \cup {issued'}
      /\ UNCHANGED <<store, calls, inflight, orphans, shown, loading, hurt>>
  BY DEF Rotate
<1>4. /\ issued' \in Sound' /\ owner'[issued'] = owner[t] /\ issued' \notin 0..issued
      /\ Sound \ {t} \subseteq Sound' /\ \A x \in Sound : owner'[x] = owner[x]
  BY <1>1, <1>2, <1>3, RotationIsSound
<1>5. inflight = c /\ c # None /\ \A d \in Slots : refreshes[d].phase # "rotated"
  BY <1>3, ShownFacts, SlotNames
<1>6. PageIsOrderly'
  BY <1>3, ShownFacts DEF PageIsOrderly, Alone, Open
<1>7. (LoginGranted' <=> LoginGranted) /\ (Open("logout")' <=> Open("logout"))
  BY <1>3 DEF LoginGranted, Open
<1>8. \A d \in Slots \ {c} : refreshes'[d].phase = "none"
  BY <1>2, <1>5, ShownFacts
<1>9. store.refresh # issued' /\ calls["logout"].body # issued' /\ calls["login"].body # issued'
  BY <1>4, ShownFacts, SlotNames DEF CallType
<1>10. PairsAreApart'
  BY <1>2, <1>3, <1>7, <1>8, <1>9, ShownFacts DEF PairsAreApart
<1>11. \A d \in Slots : ~Renewed(d)
  BY <1>5 DEF Renewed
<1>12. StoredPairIsSound'
  <2>1. t = store.refresh => Renewed(c)'
    BY <1>2, <1>3 DEF Renewed
  <2> QED
    BY <1>3, <1>4, <1>5, <1>11, <2>1 DEF ShownInv, StoredPairIsSound
<1>13. ~hurt /\ shown # None /\ t = store.refresh => owner[t] = shown
  BY <1>11 DEF ShownInv, StoredPairIsSound
<1>14. RefreshIsSound'
  BY <1>2, <1>3, <1>4, <1>8, <1>13 DEF RefreshIsSound
<1>15. GrantIsSound'
  BY <1>3, <1>4, <1>7, ShownFacts DEF ShownInv, GrantIsSound, PairsAreApart
<1> QED
  BY <1>1, <1>6, <1>10, <1>12, <1>14, <1>15 DEF ShownInv

LEMMA RotateOrphanShown ==
  ASSUME ShownInv, NEW t \in Tokens, RotateOrphan(t) PROVE ShownInv'
<1>1. SharedInv' /\ SessionTypeOK /\ t \in orphans /\ orphans' = orphans \ {t}
      /\ UNCHANGED <<store, calls, refreshes, inflight, shown, loading, hurt>>
  BY RotateOrphanShared, ShownFacts DEF ShownInv, RotateOrphan
<1>2. Sound \subseteq Sound' /\ \A x \in Sound : owner'[x] = owner[x]
  <2>1. CASE t \in live
    <3>1. Issue(owner[t]) /\ owner[t] \in Users \cup {None} /\ live' = (live \ {t}) \cup {issued'}
      BY <1>1, <2>1 DEF RotateOrphan, SessionTypeOK
    <3>2. Sound \ {t} \subseteq Sound' /\ \A x \in Sound : owner'[x] = owner[x]
      BY <1>1, <3>1, RotationIsSound
    <3> QED
      BY <1>1, <3>2 DEF Sound
  <2>2. CASE t \notin live
    BY <1>1, <2>2 DEF RotateOrphan, Sound
  <2> QED
    BY <2>1, <2>2
<1>3. PageIsOrderly'
  BY <1>1, ShownFacts DEF PageIsOrderly, Alone, Open
<1>4. PairsAreApart'
  BY <1>1, ApartFrame DEF LoginGranted, Open
<1>5. StoredPairIsSound' /\ RefreshIsSound' /\ GrantIsSound'
  BY <1>1, <1>2, SoundFrame DEF LoginGranted, Open
<1> QED
  BY <1>1, <1>3, <1>4, <1>5 DEF ShownInv

LEMMA ExpireAccessShown ==
  ASSUME ShownInv, NEW t \in Tokens, ExpireAccess(t) PROVE ShownInv'
<1>1. SharedInv'
  BY ExpireAccessShared DEF ShownInv
<1>2. /\ UNCHANGED <<store, refreshes, shown, inflight, hurt, owner, live, orphans, loading>>
      /\ Open("logout")' <=> Open("logout")
      /\ calls'["logout"].body = calls["logout"].body
      /\ LoginGranted' <=> LoginGranted
      /\ LoginGranted => calls'["login"] = calls["login"]
  BY ShownFacts, SlotNames DEF ExpireAccess, LoginGranted, Open
<1>3. PageIsOrderly'
  BY ShownFacts, SlotNames DEF PageIsOrderly, Alone, Open, ExpireAccess
<1>4. PairsAreApart'
  BY <1>2, ApartFrame
<1>5. StoredPairIsSound' /\ RefreshIsSound' /\ GrantIsSound'
  BY <1>2, SoundFrame DEF Sound
<1> QED
  BY <1>1, <1>3, <1>4, <1>5 DEF ShownInv

LEMMA EndSessionShown ==
  ASSUME ShownInv, NEW t \in Tokens, EndSession(t) PROVE ShownInv'
<1>1. SharedInv'
  BY EndSessionShared DEF ShownInv
<1>2. hurt' /\ UNCHANGED <<store, calls, refreshes, shown, loading>>
  BY DEF EndSession
<1>3. PageIsOrderly'
  BY <1>2, ShownFacts DEF PageIsOrderly, Alone, Open
<1>4. PairsAreApart'
  BY <1>2, ApartFrame DEF LoginGranted, Open
<1>5. StoredPairIsSound' /\ RefreshIsSound' /\ GrantIsSound'
  BY <1>2 DEF StoredPairIsSound, RefreshIsSound, GrantIsSound
<1> QED
  BY <1>1, <1>3, <1>4, <1>5 DEF ShownInv

LEMMA RetryShown ==
  ASSUME ShownInv, NEW c \in Slots, Retry(c) PROVE ShownInv'
<1>1. SharedInv' /\ SessionTypeOK /\ calls[c].phase = "unauthorized" /\ store.refresh # NoPair
      /\ UNCHANGED <<owner, live, store, orphans, shown, loading, hurt>>
  BY RetryShared, ShownFacts DEF ShownInv, Retry
<1>2. /\ inflight' = IF inflight = None THEN c ELSE inflight
      /\ calls'[c].phase = "waiting" /\ calls'[c].body = calls[c].body
      /\ \A d \in Slots \ {c} : calls'[d] = calls[d]
      /\ inflight # None => refreshes' = refreshes
      /\ inflight = None => /\ refreshes'[c].phase = "sent" /\ refreshes'[c].token = store.refresh
                            /\ \A d \in Slots \ {c} : refreshes'[d] = refreshes[d]
  BY <1>1, RetryMoves
<1>3. inflight' # None
  BY <1>2, SlotNames
<1>4. \A d \in Slots : /\ Open(d)' <=> Open(d) 
                       /\ calls'[d].phase = "waiting" \/ calls'[d] = calls[d]
                       /\ calls'[d].body = calls[d].body
  BY <1>1, <1>2 DEF Open
<1>5. PageIsOrderly'
  BY <1>1, <1>4, SlotNames, ShownFacts DEF PageIsOrderly, Alone
<1>6. /\ LoginGranted' <=> LoginGranted
      /\ LoginGranted => calls'["login"] = calls["login"]
  BY <1>1, <1>2, SlotNames DEF LoginGranted
<1>7. ASSUME inflight # None PROVE PairsAreApart' /\ StoredPairIsSound' /\ RefreshIsSound' /\ GrantIsSound'
  <2>1. inflight' = inflight /\ refreshes' = refreshes
    BY <1>2, <1>7
  <2> QED
    BY <1>1, <1>4, <1>6, <2>1, SlotNames, ApartFrame, SoundFrame DEF Sound
<1>8. ASSUME inflight = None PROVE PairsAreApart' /\ StoredPairIsSound' /\ RefreshIsSound' /\ GrantIsSound'
  <2>1. \A d \in Slots : refreshes[d].phase = "none"
    BY <1>8, SlotNames, ShownFacts
  <2>2. \A d \in Slots : /\ refreshes'[d].phase \in {"none", "sent"}
                         /\ refreshes'[d].phase # "none" => refreshes'[d].token = store.refresh
    BY <1>2, <1>8, <2>1
  <2>3. \A d \in Slots : ~Renewed(d) /\ ~Renewed(d)'
    BY <2>1, <2>2 DEF Renewed
  <2>4. PairsAreApart'
    BY <1>1, <1>4, <1>6, <2>2, SlotNames, ShownFacts DEF PairsAreApart
  <2>5. StoredPairIsSound'
    BY <1>1, <1>3, <2>3 DEF ShownInv, StoredPairIsSound, Sound
  <2>6. RefreshIsSound'
    BY <2>2 DEF RefreshIsSound
  <2>7. GrantIsSound'
    BY <1>1, <1>6 DEF ShownInv, GrantIsSound, Sound
  <2> QED
    BY <2>4, <2>5, <2>6, <2>7
<1> QED
  BY <1>1, <1>5, <1>7, <1>8 DEF ShownInv

LEMMA RefreshEndsShown ==
  ASSUME ShownInv, NEW c \in Slots, RefreshEnds(c) PROVE ShownInv'
<1> DEFINE ok == refreshes[c].phase = "rotated"
           waits(d) == calls[d].phase = "waiting" /\ calls[d].on = c
<1>1. SharedInv' /\ SessionTypeInv /\ refreshes[c].phase \in {"rotated", "refused"}
      /\ hurt' = (hurt \/ Overtaken(c))
      /\ UNCHANGED <<owner, live, orphans, shown>>
  BY RefreshEndsShared, ShownFacts DEF ShownInv, RefreshEnds
<1>2. inflight = c /\ calls[c].phase = "waiting" /\ calls[c].on = c /\ c # None
  BY <1>1, SlotNames, ShownFacts
<1>3. /\ \A d \in Slots : refreshes'[d].phase = "none"
      /\ ok => store' = [access |-> refreshes[c].new, refresh |-> refreshes[c].new]
      /\ ~ok => store' = EmptyStore
      /\ loading' = (loading /\ (ok \/ ~waits("me")))
  BY <1>1, <1>2, RefreshEndsMoves, ShownFacts
<1>4. ASSUME NEW d \in Slots
      PROVE  /\ ~waits(d) => calls'[d] = calls[d]
             /\ waits(d) => Open(d) /\ calls'[d].phase \in {"sent", "idle"} /\ (Open(d)' <=> ok)
             /\ waits(d) /\ ok => calls'[d].access = refreshes[c].new /\ calls'[d].body = calls[d].body
             /\ calls[d].phase = "waiting" => waits(d)
  BY <1>1, <1>2, RefreshEndsMoves, ShownFacts DEF RetriesWith, IdleCall, Open
<1>5. \A d \in Slots : Open(d)' => Open(d) /\ calls'[d].body = calls[d].body
  BY <1>4 DEF Open
<1>6. /\ LoginGranted' <=> LoginGranted
      /\ LoginGranted => calls'["login"] = calls["login"]
  BY <1>4, SlotNames DEF LoginGranted
<1> HIDE DEF waits
<1>7. store'.access = store'.refresh /\ (~ok => store'.refresh = NoPair)
  BY <1>1, <1>3 DEF EmptyStore
<1>8. loading' <=> Open("me")'
  BY <1>3, <1>4, SlotNames, ShownFacts DEF PageIsOrderly, Open
<1>9. ASSUME Open("me")' PROVE ok /\ waits("me")
  <2>1. Open("me") /\ \A d \in Slots \ {"me"} : ~Open(d)
    BY <1>5, <1>9, SlotNames, ShownFacts DEF Alone
  <2>2. c = "me"
    BY <1>2, <2>1 DEF Open
  <2> QED
    BY <1>2, <1>4, <1>9, <2>2, SlotNames DEF waits
<1>10. Open("me")' => calls'["me"].access = store'.access
  BY <1>3, <1>4, <1>9, SlotNames
<1>11. PageIsOrderly'
  BY <1>1, <1>5, <1>7, <1>8, <1>10, SlotNames, ShownFacts DEF PageIsOrderly, Alone
<1>12. PairsAreApart'
  <2>1. ok => store'.refresh = refreshes[c].new
    BY <1>3
  <2>2. LoginGranted => calls["login"].body \in 1..issued
    BY ShownFacts DEF PairsAreIssued, LoginGranted
  <2>3. Open("logout")' => Open("logout") /\ calls'["logout"].body = calls["logout"].body
    BY <1>5, SlotNames
  <2> QED
    BY <1>1, <1>3, <1>6, <1>7, <2>1, <2>2, <2>3, ShownFacts DEF PairsAreApart, NoPair
<1>13. ASSUME ~hurt', ~LoginGranted PROVE ~hurt /\ refreshes[c].token = store.refresh
  BY <1>1, <1>13 DEF Overtaken
<1>14. StoredPairIsSound'
  <2>1. LoginGranted => shown = None
    BY ShownFacts DEF PageIsOrderly, LoginGranted, Open
  <2>2. ASSUME ~hurt', ~LoginGranted, ok
        PROVE store'.refresh \in Sound' /\ (shown # None => owner[store'.refresh] = shown)
    BY <1>1, <1>3, <1>13, <2>2 DEF ShownInv, RefreshIsSound, Sound
  <2>3. ASSUME ~hurt', ~LoginGranted, ~ok PROVE shown = None
    BY <1>1, <1>13, <2>3 DEF ShownInv, RefreshIsSound
  <2> QED
    BY <1>1, <1>6, <1>7, <2>1, <2>2, <2>3 DEF StoredPairIsSound
<1>15. RefreshIsSound'
  BY <1>3 DEF RefreshIsSound
<1>16. GrantIsSound'
  BY <1>1, <1>6 DEF ShownInv, GrantIsSound, Sound
<1> QED
  BY <1>1, <1>11, <1>12, <1>14, <1>15, <1>16 DEF ShownInv

\* The end of a logout, however it ends.
LEMMA LogoutEndsShown ==
  ASSUME ShownInv, ~Open("logout")', store'.refresh = NoPair, shown' = shown,
         UNCHANGED <<owner, live, refreshes, inflight, orphans>>,
         hurt' = (hurt \/ LateLogout("logout")),
         LoginGranted' => LoginGranted /\ calls'["login"] = calls["login"]
  PROVE  PairsAreApart' /\ StoredPairIsSound' /\ RefreshIsSound' /\ GrantIsSound'
<1>1. /\ LoginGranted => calls["login"].body # NoPair
      /\ \A c \in Slots : /\ refreshes[c].phase # "none" => refreshes[c].token # NoPair
                          /\ refreshes[c].phase = "rotated" => refreshes[c].new # NoPair
  BY ShownFacts DEF PairsAreIssued, LoginGranted, NoPair
<1>2. ~hurt' => ~hurt /\ shown = None
  BY DEF LateLogout
<1>3. PairsAreApart'
  BY <1>1, ShownFacts DEF PairsAreApart
<1>4. StoredPairIsSound'
  BY <1>2 DEF StoredPairIsSound
<1>5. RefreshIsSound'
  BY <1>1, <1>2 DEF RefreshIsSound
<1>6. GrantIsSound'
  BY <1>2 DEF ShownInv, GrantIsSound, Sound
<1> QED
  BY <1>3, <1>4, <1>5, <1>6

LEMMA SucceedShown ==
  ASSUME ShownInv, NEW c \in Slots, Succeed(c) PROVE ShownInv'
<1>1. SharedInv' /\ calls[c].phase = "accepted"
      /\ UNCHANGED <<owner, live, refreshes, inflight, orphans>> /\ hurt' = (hurt \/ LateLogout(c))
  BY SucceedShared DEF ShownInv, Succeed
<1>2. calls'[c].phase = "idle" /\ \A d \in Slots \ {c} : calls'[d] = calls[d]
  BY ShownFacts DEF Succeed, IdleCall
<1>3. ~Open(c)' /\ Open(c) /\ \A d \in Slots : Open(d)' => Open(d) /\ calls'[d] = calls[d]
  BY <1>1, <1>2 DEF Open
<1>4. LoginGranted' => LoginGranted /\ c # "login" /\ calls'["login"] = calls["login"]
  BY <1>2, SlotNames DEF LoginGranted
<1>5. PageIsOrderly'
  BY <1>1, <1>2, <1>3, SlotNames, ShownFacts DEF Succeed, PageIsOrderly, Alone, EmptyStore, Open
<1>6. CASE c = "login"
  <2>1. store'.refresh = calls[c].body /\ shown' = calls[c].who /\ LoginGranted /\ (hurt' <=> hurt)
    BY <1>1, <1>6 DEF Succeed, LateLogout, LoginGranted
  <2>2. ~LoginGranted'
    BY <1>4, <1>6
  <2>3. Open("logout")' => Open("logout") /\ calls'["logout"] = calls["logout"]
    BY <1>3, SlotNames
  <2>4. PairsAreApart'
    BY <1>1, <1>6, <2>1, <2>2, <2>3, ShownFacts DEF PairsAreApart
  <2>5. StoredPairIsSound'
    BY <1>1, <1>6, <2>1 DEF ShownInv, StoredPairIsSound, GrantIsSound, Sound
  <2>6. \A d \in Slots : refreshes[d].phase # "none" => refreshes[d].token # store'.refresh
    BY <1>6, <2>1, ShownFacts DEF PairsAreApart
  <2>7. RefreshIsSound' /\ GrantIsSound'
    BY <1>1, <2>2, <2>6 DEF RefreshIsSound, GrantIsSound
  <2> QED
    BY <1>1, <1>5, <2>4, <2>5, <2>7 DEF ShownInv
<1>7. CASE c = "me"
  <2>1. store' = store /\ shown' = owner[calls[c].access] /\ (hurt' <=> hurt)
    BY <1>1, <1>7 DEF Succeed, LateLogout
  <2>2. inflight = None /\ \A d \in Slots \ {c} : ~Open(d)
    BY <1>1, <1>3, <1>7, ShownFacts DEF Alone, Open
  <2>3. calls[c].access = store.refresh /\ store.refresh # NoPair
    BY <1>1, <1>3, <1>7, ShownFacts DEF PageIsOrderly, PairsAreIssued, NoPair
  <2>4. ~LoginGranted /\ ~LoginGranted' /\ ~Open("logout") /\ ~Open("logout")'
    BY <1>3, <1>4, <1>7, <2>2, SlotNames DEF LoginGranted, Open
  <2>5. \A d \in Slots : refreshes[d].phase = "none"
    BY <2>2, SlotNames, ShownFacts
  <2>6. PairsAreApart'
    BY <1>1, <2>4, <2>5 DEF PairsAreApart
  <2>7. StoredPairIsSound'
    BY <1>1, <2>1, <2>2, <2>3, <2>4 DEF ShownInv, StoredPairIsSound, Sound
  <2>8. RefreshIsSound' /\ GrantIsSound'
    BY <1>1, <2>4, <2>5 DEF RefreshIsSound, GrantIsSound
  <2> QED
    BY <1>1, <1>5, <2>6, <2>7, <2>8 DEF ShownInv
<1>8. CASE c = "logout"
  <2>1. store' = EmptyStore /\ store'.refresh = NoPair /\ shown' = shown
    BY <1>8 DEF Succeed, EmptyStore
  <2> QED
    BY <1>1, <1>3, <1>4, <1>5, <1>8, <2>1, LogoutEndsShown DEF ShownInv
<1>9. CASE c \notin {"login", "me", "logout"}
  <2>1. store' = store /\ shown' = shown /\ (hurt' <=> hurt)
    BY <1>1, <1>9 DEF Succeed, LateLogout
  <2>2. calls'["login"] = calls["login"] /\ calls'["logout"] = calls["logout"]
    BY <1>2, <1>9, SlotNames
  <2> QED
    BY <1>1, <1>5, <2>1, <2>2, ApartFrame, SoundFrame DEF ShownInv, LoginGranted, Open, Sound
<1> QED
  BY <1>6, <1>7, <1>8, <1>9

LEMMA FailShown ==
  ASSUME ShownInv, NEW c \in Slots, Fail(c) PROVE ShownInv'
<1>1. SharedInv' /\ calls[c].phase \in {"failed", "unauthorized"}
      /\ UNCHANGED <<owner, live, refreshes, inflight, orphans, shown>>
      /\ hurt' = (hurt \/ LateLogout(c))
  BY FailShared DEF ShownInv, Fail
<1>2. calls'[c].phase = "idle" /\ \A d \in Slots \ {c} : calls'[d] = calls[d]
  BY ShownFacts DEF Fail, IdleCall
<1>3. ~Open(c)' /\ Open(c) /\ \A d \in Slots : Open(d)' => Open(d) /\ calls'[d] = calls[d]
  BY <1>1, <1>2 DEF Open
<1>4. store' = IF c \in {"me", "logout"} THEN EmptyStore ELSE store
  BY DEF Fail, EndedWithError
<1>5. PageIsOrderly'
  BY <1>1, <1>2, <1>3, SlotNames, ShownFacts DEF Fail, EndedWithError, PageIsOrderly, Alone, EmptyStore, Open
<1>6. LoginGranted' => LoginGranted /\ c # "login" /\ calls'["login"] = calls["login"]
  BY <1>2, SlotNames DEF LoginGranted
<1>7. CASE c = "logout"
  <2>1. store' = EmptyStore /\ store'.refresh = NoPair
    BY <1>4, <1>7 DEF EmptyStore
  <2> QED
    BY <1>1, <1>3, <1>5, <1>6, <1>7, <2>1, LogoutEndsShown DEF ShownInv
<1>8. CASE c = "me"
  <2>1. shown = None /\ \A d \in Slots : ~Open(d)'
    BY <1>3, <1>8, ShownFacts DEF Alone
  <2>2. inflight = None
    BY <1>1, <1>3, <1>8, ShownFacts DEF Alone, Open
  <2>3. \A d \in Slots : refreshes[d].phase = "none"
    BY <2>2, SlotNames, ShownFacts
  <2>4. ~LoginGranted' /\ store'.refresh = NoPair
    BY <1>4, <1>8, <2>1, SlotNames DEF LoginGranted, Open, EmptyStore
  <2>5. PairsAreApart'
    BY <1>1, <2>1, <2>3, <2>4, SlotNames DEF PairsAreApart
  <2>6. StoredPairIsSound' /\ RefreshIsSound' /\ GrantIsSound'
    BY <1>1, <2>1, <2>3, <2>4 DEF StoredPairIsSound, RefreshIsSound, GrantIsSound
  <2> QED
    BY <1>1, <1>5, <2>5, <2>6 DEF ShownInv
<1>9. CASE c \notin {"me", "logout"}
  <2>1. store' = store /\ (hurt' <=> hurt)
    BY <1>1, <1>4, <1>9 DEF LateLogout
  <2>2. calls'["logout"] = calls["logout"]
    BY <1>2, <1>9, SlotNames
  <2>3. LoginGranted => c # "login"
    BY <1>1 DEF LoginGranted
  <2>4. LoginGranted => LoginGranted'
    BY <1>2, <2>3, SlotNames DEF LoginGranted
  <2> QED
    BY <1>1, <1>5, <1>6, <2>1, <2>2, <2>4, ApartFrame, SoundFrame DEF ShownInv, Open, Sound
<1> QED
  BY <1>7, <1>8, <1>9

LEMMA LoseCallShown ==
  ASSUME ShownInv, NEW c \in Slots, LoseCall(c) PROVE ShownInv'
<1>1. SharedInv' /\ calls[c].phase \in {"sent", "accepted", "unauthorized"}
      /\ UNCHANGED <<owner, live, store, refreshes, inflight, orphans, shown, loading>>
      /\ hurt' = (hurt \/ (c = "login" /\ calls[c].phase = "accepted"))
  BY LoseCallShared DEF ShownInv, LoseCall
<1>2. CallMoves(c, "failed")
  BY LoseCallMoves, ShownFacts
<1>3. \A d \in Slots : /\ Open(d)' <=> Open(d)
                       /\ calls'[d].access = calls[d].access /\ calls'[d].body = calls[d].body
                       /\ calls'[d].phase = "failed" \/ calls'[d] = calls[d]
  BY <1>1, <1>2 DEF Open, CallMoves
<1>4. PageIsOrderly'
  BY <1>1, <1>2, <1>3, SlotNames, ShownFacts DEF PageIsOrderly, Alone, CallMoves
<1>5. LoginGranted' => LoginGranted /\ calls'["login"] = calls["login"]
  BY <1>1, <1>2, SlotNames DEF LoginGranted, CallMoves
<1>6. PairsAreApart'
  BY <1>1, <1>3, <1>5, SlotNames, ApartFrame
<1>7. ASSUME ~hurt' PROVE (hurt' <=> hurt) /\ (LoginGranted' <=> LoginGranted)
  BY <1>1, <1>2, <1>7, SlotNames DEF LoginGranted, CallMoves
<1>8. ASSUME ~hurt' PROVE StoredPairIsSound' /\ RefreshIsSound' /\ GrantIsSound'
  BY <1>1, <1>3, <1>5, <1>7, <1>8, SlotNames, SoundFrame DEF Sound
<1>9. ASSUME hurt' PROVE StoredPairIsSound' /\ RefreshIsSound' /\ GrantIsSound'
  BY <1>9 DEF StoredPairIsSound, RefreshIsSound, GrantIsSound
<1> QED
  BY <1>1, <1>4, <1>6, <1>8, <1>9 DEF ShownInv

LEMMA LoseRefreshShown ==
  ASSUME ShownInv, NEW c \in Slots, LoseRefresh(c) PROVE ShownInv'
<1>1. SharedInv' /\ refreshes[c].phase # "none"
      /\ UNCHANGED <<owner, live, store, calls, inflight, orphans, shown, loading>>
      /\ hurt' = (hurt \/ shown # None)
  BY LoseRefreshShared DEF ShownInv, LoseRefresh
<1>2. /\ refreshes'[c].phase = "refused"
      /\ \A d \in Slots \ {c} : refreshes'[d] = refreshes[d]
      /\ \A d \in Slots : refreshes'[d].token = refreshes[d].token
  BY ShownFacts, LoseRefreshMoves DEF RefreshMoves
<1>3. PageIsOrderly'
  BY <1>1, ShownFacts DEF PageIsOrderly, Alone, Open
<1>4. (LoginGranted' <=> LoginGranted) /\ inflight # None
  BY <1>1, SlotNames, ShownFacts DEF LoginGranted
<1>5. PairsAreApart'
  BY <1>1, <1>2, <1>4, ShownFacts DEF PairsAreApart, Open
<1>6. StoredPairIsSound'
  BY <1>1, <1>4 DEF StoredPairIsSound
<1>7. RefreshIsSound'
  BY <1>1, <1>2, <1>4 DEF ShownInv, RefreshIsSound, Sound
<1>8. GrantIsSound'
  BY <1>1, <1>4 DEF ShownInv, GrantIsSound, Sound
<1> QED
  BY <1>1, <1>3, <1>5, <1>6, <1>7, <1>8 DEF ShownInv

LEMMA InitShown == Init => ShownInv
<1> SUFFICES ASSUME Init PROVE ShownInv
  OBVIOUS
<1>1. SharedInv
  BY InitShared
<1>2. /\ \A c \in Slots : ~Open(c) /\ calls[c].phase = "idle" /\ refreshes[c].phase = "none"
      /\ store.access = 0 /\ store.refresh = 0 /\ shown = None /\ loading = FALSE
  BY DEF Init, IdleCall, NoRefresh, EmptyStore, NoPair, Open
<1> QED
  BY <1>1, <1>2, SlotNames
     DEF ShownInv, PageIsOrderly, Alone, PairsAreApart, StoredPairIsSound, RefreshIsSound,
         GrantIsSound, LoginGranted, NoPair

LEMMA StutterShown ==
  ASSUME ShownInv, UNCHANGED vars PROVE ShownInv'
BY StutterShared
   DEF ShownInv, PageIsOrderly, Alone, PairsAreApart, StoredPairIsSound, RefreshIsSound,
       GrantIsSound, LoginGranted, Renewed, Sound, Open, vars

LEMMA StepShown == ShownInv /\ [Next]_vars => ShownInv'
BY FetchShown, SubmitLoginShown, LogoutShown, ReloadShown, ServeShown, GrantLoginShown,
   RefuseLoginShown, LookUpTokenShown, RotateShown, RotateOrphanShown, ExpireAccessShown,
   EndSessionShown, RetryShown, RefreshEndsShown, SucceedShown, FailShown, LoseCallShown,
   LoseRefreshShown, StutterShown
   DEF Next, ServerStep, PageStep

\* Whoever is shown as signed in holds a refresh token that the server knows and that is theirs,
\* or is about to: through expiries, concurrent 401s of the calls of this session and of the one
\* before, retries, failed session checks, logins while calls are open and reloads. Only what
\* `hurt' counts breaks it: the server ends the session, the answer to its login or rotation is
\* lost, or the logout or a refresh of the session before ends after the login.
THEOREM ShownSessionHolds == Spec => []ShownSessionIsUsable
<1>1. Init => ShownInv
  BY InitShown
<1>2. ShownInv /\ [Next]_vars => ShownInv'
  BY StepShown
<1>3. ASSUME ShownInv PROVE ShownSessionIsUsable
  <2>1. inflight = None => \A c \in Slots : ~Renewed(c)
    BY <1>3, SlotNames, ShownFacts DEF Renewed
  <2> QED
    BY <1>3, <2>1 DEF ShownInv, StoredPairIsSound, ShownSessionIsUsable, Sound
<1> QED
  BY <1>1, <1>2, <1>3, PTL DEF Spec

=============================================================================
