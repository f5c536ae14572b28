---------------------------- MODULE IntakeProofs ----------------------------
(***************************************************************************)
(* Proofs about the pages that move a request and the service behind them,  *)
(* for any number of requests, wafers, calls in flight, forms opened and    *)
(* calls lost, and for any team at work.                                    *)
(***************************************************************************)
EXTENDS Intake, FiniteSetTheorems, FunctionTheorems, TLAPS

\* The tuples of variables are only a way to write UNCHANGED.
USE DEF tables, pages

FormOps == {"draft", "update", "submit"}
MgrOps == {"approve", "reject", "more_info", "close"}
DeskOps == {"receive", "reject_sample"}
Ops == FormOps \cup {"cancel"} \cup MgrOps \cup DeskOps

CallType == [phase : {"idle", "sent", "serving", "answered"}, op : Ops \cup {None},
             on : Requests \cup Wafers \cup {None},
             from : {"new", "edit", "cancel", "mgr", "desk", None}, mount : Nat,
             publish : BOOLEAN, group : SUBSET Wafers, last : BOOLEAN, ok : BOOLEAN]
UserType == [page : {"away", "new", "edit", "detail", "cancel"}, on : Requests \cup {None},
             shows : SUBSET {"cancel"}, mount : Nat, busy : BOOLEAN]
MgrType == [page : {"away", "detail"}, on : Requests \cup {None}, shows : SUBSET MgrOps,
            modal : MgrOps \cup {None}, busy : BOOLEAN, calls : SUBSET Slots]
DeskType == [shows : SUBSET Wafers, busy : SUBSET Wafers]

IntakeTypeOK ==
  /\ request \in [Requests -> RequestStatuses] /\ wafer \in [Wafers -> WaferStatuses]
  /\ receipts \in [Wafers -> Nat] /\ submittedBy \in [Requests -> Nat]
  /\ raced \subseteq Requests \cup Wafers
  /\ call \in [Slots -> CallType]
  /\ user \in UserType /\ mounts \in 0..MaxMounts
  /\ mgr \in MgrType /\ desk \in DeskType /\ losses \in 0..MaxLosses

\* What a page sends: who sends what about which row, and when an answer carries something.
Made(k) ==
  /\ k.phase # "idle" =>
       \/ k.from \in {"new", "edit"} /\ k.op \in FormOps
       \/ k.from = "cancel" /\ k.op = "cancel" /\ ~k.publish
       \/ k.from = "mgr" /\ k.op \in MgrOps
       \/ k.from = "desk" /\ k.op \in DeskOps
  /\ k.phase # "idle" /\ k.op \in DeskOps => k.on \in Wafers
  /\ k.phase # "idle" /\ k.op \notin DeskOps \cup {"draft"} => k.on \in Requests
  /\ k.ok => k.phase = "answered" /\ (k.op = "draft" => k.on \in Requests)
  /\ k.phase = "serving" => k.op # "draft"
  /\ k.group # {} => k.phase # "idle" /\ k.from = "desk"

CallsAreMade == \A c \in Slots : Made(call[c])

\* A page that is about a request knows which.
PagesAreOpen ==
  /\ user.page \in {"edit", "detail", "cancel"} => user.on \in Requests
  /\ user.busy => user.page \in {"new", "edit", "cancel"}
  /\ mgr.page = "detail" => mgr.on \in Requests

PageInv == IntakeTypeOK /\ CallsAreMade /\ PagesAreOpen

-----------------------------------------------------------------------------
(* Lemmas about the records                                                *)

LEMMA NoneIsNoRow == None \notin Requests /\ None \notin Wafers
BY ServiceAssumption

LEMMA IdleIsMade == Idle \in CallType /\ Idle.phase = "idle" /\ Idle.group = {} /\ Made(Idle)
BY DEF Idle, CallType, Made

LEMMA SentIsACall ==
  ASSUME NEW op \in Ops, NEW on \in Requests \cup Wafers \cup {None},
         NEW from \in {"new", "edit", "cancel", "mgr", "desk"}
  PROVE  /\ Sent(op, on, from) \in CallType
         /\ Sent(op, on, from).phase = "sent" /\ Sent(op, on, from).op = op
         /\ Sent(op, on, from).on = on /\ Sent(op, on, from).from = from
         /\ ~Sent(op, on, from).publish /\ ~Sent(op, on, from).ok
         /\ Sent(op, on, from).group = {}
<1>1. Idle \in CallType
  BY IdleIsMade
<1>2. ~Idle.publish /\ ~Idle.ok /\ Idle.group = {}
  BY DEF Idle
<1> QED
  BY <1>1, <1>2 DEF Sent, CallType

\* What the buttons send, and the calls of a bulk receipt: the terms of the pages' actions.
FormCall(op, on, from, m, p) == [Sent(op, on, from) EXCEPT !.mount = m, !.publish = p]
CancelCall(r, m) == [Sent("cancel", r, "cancel") EXCEPT !.mount = m]
DeskCall(op, w, W) == [Sent(op, w, "desk") EXCEPT !.group = W]
Assignment(W, F) == CHOOSE f \in [W -> F] : IsInjective(f)

LEMMA FormCallIsACall ==
  ASSUME NEW op \in FormOps, NEW on \in Requests \cup {None}, NEW from \in {"new", "edit"},
         NEW m \in Nat, NEW p \in BOOLEAN, op # "draft" => on \in Requests
  PROVE  LET k == FormCall(op, on, from, m, p) IN
         /\ k \in CallType /\ Made(k) /\ k.phase = "sent" /\ k.op = op /\ k.on = on
         /\ k.from = from /\ k.mount = m /\ k.publish = p /\ ~k.ok /\ k.group = {}
<1> DEFINE k == FormCall(op, on, from, m, p)
           s == Sent(op, on, from)
<1>1. /\ s \in CallType /\ s.phase = "sent" /\ s.op = op /\ s.on = on /\ s.from = from
      /\ ~s.ok /\ s.group = {}
  BY SentIsACall DEF Ops
<1> HIDE DEF s
<1>2. k = [s EXCEPT !.mount = m, !.publish = p]
  BY DEF s, FormCall
<1>3. /\ k \in CallType /\ k.phase = "sent" /\ k.op = op /\ k.on = on
      /\ k.from = from /\ k.mount = m /\ k.publish = p /\ ~k.ok /\ k.group = {}
  BY <1>1, <1>2 DEF CallType
<1>4. Made(k)
  BY <1>3 DEF Made, FormOps, DeskOps
<1> QED
  BY <1>3, <1>4

LEMMA CancelCallIsACall ==
  ASSUME NEW r \in Requests, NEW m \in Nat
  PROVE  LET k == CancelCall(r, m) IN
         /\ k \in CallType /\ Made(k) /\ k.phase = "sent" /\ k.op = "cancel" /\ k.on = r
         /\ k.from = "cancel" /\ k.mount = m /\ ~k.publish /\ ~k.ok /\ k.group = {}
<1> DEFINE k == CancelCall(r, m)
           s == Sent("cancel", r, "cancel")
<1>1. /\ s \in CallType /\ s.phase = "sent" /\ s.op = "cancel" /\ s.on = r /\ s.from = "cancel"
      /\ ~s.ok /\ s.group = {} /\ ~s.publish
  BY SentIsACall DEF Ops
<1> HIDE DEF s
<1>2. k = [s EXCEPT !.mount = m]
  BY DEF s, CancelCall
<1>3. /\ k \in CallType /\ k.phase = "sent" /\ k.op = "cancel" /\ k.on = r
      /\ k.from = "cancel" /\ k.mount = m /\ ~k.publish /\ ~k.ok /\ k.group = {}
  BY <1>1, <1>2 DEF CallType
<1>4. Made(k)
  BY <1>3 DEF Made, DeskOps, FormOps, MgrOps
<1> QED
  BY <1>3, <1>4

LEMMA MgrCallIsACall ==
  ASSUME NEW op \in MgrOps, NEW r \in Requests, NEW k, k = Sent(op, r, "mgr")
  PROVE  /\ k \in CallType /\ Made(k) /\ k.phase = "sent" /\ k.op = op /\ k.on = r
         /\ k.from = "mgr" /\ ~k.publish /\ ~k.ok /\ k.group = {}
<1>1. /\ k \in CallType /\ k.phase = "sent" /\ k.op = op /\ k.on = r
      /\ k.from = "mgr" /\ ~k.publish /\ ~k.ok /\ k.group = {}
  BY SentIsACall DEF Ops
<1>2. Made(k)
  BY <1>1 DEF Made, DeskOps, FormOps, MgrOps
<1> QED
  BY <1>1, <1>2

LEMMA DeskCallIsACall ==
  ASSUME NEW op \in DeskOps, NEW w \in Wafers, NEW W \in SUBSET Wafers
  PROVE  LET k == DeskCall(op, w, W) IN
         /\ k \in CallType /\ Made(k) /\ k.phase = "sent" /\ k.op = op /\ k.on = w
         /\ k.from = "desk" /\ ~k.publish /\ ~k.ok /\ k.group = W
<1> DEFINE k == DeskCall(op, w, W)
           s == Sent(op, w, "desk")
<1>1. /\ s \in CallType /\ s.phase = "sent" /\ s.op = op /\ s.on = w /\ s.from = "desk"
      /\ ~s.ok /\ ~s.publish
  BY SentIsACall DEF Ops
<1> HIDE DEF s
<1>2. k = [s EXCEPT !.group = W]
  BY DEF s, DeskCall
<1>3. /\ k \in CallType /\ k.phase = "sent" /\ k.op = op /\ k.on = w
      /\ k.from = "desk" /\ ~k.publish /\ ~k.ok /\ k.group = W
  BY <1>1, <1>2 DEF CallType
<1>4. Made(k)
  BY <1>3 DEF Made, DeskOps, FormOps, MgrOps
<1> QED
  BY <1>3, <1>4

\* The rows the page of a bulk receipt assigns its calls to: one call for each wafer.
LEMMA BulkAssignment ==
  ASSUME NEW W, NEW F, IsFiniteSet(W), IsFiniteSet(F), Cardinality(W) \in 2..Cardinality(F)
  PROVE  /\ Assignment(W, F) \in [W -> F]
         /\ Range(Assignment(W, F)) # {} /\ Range(Assignment(W, F)) \subseteq F
         /\ \A c \in Range(Assignment(W, F)) : Inverse(Assignment(W, F), W, F)[c] \in W
<1> DEFINE at == Assignment(W, F)
<1>1. PICK f : f \in Bijection(1..Cardinality(W), W)
  BY FS_CardinalityType, Fun_ExistsBij
<1>2. PICK g : g \in Bijection(1..Cardinality(F), F)
  BY FS_CardinalityType, Fun_ExistsBij
<1>3. /\ Cardinality(W) \in Nat /\ Cardinality(F) \in Nat
      /\ Cardinality(W) <= Cardinality(F) /\ 2 <= Cardinality(W)
  BY FS_CardinalityType
<1> DEFINE i == Inverse(f, 1..Cardinality(W), W)
           h == [w \in W |-> g[i[w]]]
<1>4. i \in [W -> 1..Cardinality(W)] /\ \A a, b \in W : i[a] = i[b] => a = b
  BY <1>1, Fun_BijInverse, Fun_BijectionProperties
<1>5. g \in [1..Cardinality(F) -> F] /\ \A a, b \in 1..Cardinality(F) : g[a] = g[b] => a = b
  BY <1>2, Fun_BijectionProperties
<1>6. 1..Cardinality(W) \subseteq 1..Cardinality(F)
  BY <1>3
<1> HIDE DEF i
<1>7. h \in [W -> F] /\ IsInjective(h)
  BY <1>4, <1>5, <1>6 DEF IsInjective
<1> HIDE DEF h
<1>8. at \in [W -> F]
  BY <1>7 DEF Assignment
<1>9. W # {}
  BY <1>3, FS_EmptySet
<1>10. Range(at) # {} /\ Range(at) \subseteq F
  BY <1>8, <1>9 DEF Range
<1>11. F # {}
  BY <1>8, <1>9
<1>12. Inverse(at, W, F) \in [F -> W]
  BY <1>8, <1>9, Fun_InverseProperties
<1> QED
  BY <1>8, <1>10, <1>12

-----------------------------------------------------------------------------
(* What the steps do to the calls in flight                                *)

\* One call is replaced; the others stay.
Becomes(c, k) == call'[c] = k /\ \A d \in Slots \ {c} : call'[d] = call[d]

LEMMA SlotReplaced ==
  ASSUME IntakeTypeOK, CallsAreMade, NEW c \in Slots, NEW k, k \in CallType, Made(k),
         call' = [call EXCEPT ![c] = k]
  PROVE  call' \in [Slots -> CallType] /\ Becomes(c, k) /\ CallsAreMade'
<1>1. call' \in [Slots -> CallType] /\ Becomes(c, k)
  BY DEF IntakeTypeOK, Becomes
<1> QED
  BY <1>1 DEF CallsAreMade, Becomes

\* A call goes on with the same sender, purpose and press.
GoesOn(c) ==
  /\ call'[c].op = call[c].op /\ call'[c].from = call[c].from /\ call'[c].mount = call[c].mount
  /\ call'[c].publish = call[c].publish /\ call'[c].group = call[c].group
  /\ call[c].phase # "idle" /\ call'[c].phase # "idle"
  /\ \A d \in Slots \ {c} : call'[d] = call[d]

LEMMA BeginMoves ==
  ASSUME PageInv, NEW c \in Slots, Begin(c)
  PROVE  /\ call' \in [Slots -> CallType] /\ CallsAreMade' /\ GoesOn(c)
         /\ call'[c].on = call[c].on /\ ~call'[c].ok /\ ~call[c].ok
         /\ call'[c].phase = IF Accepts(call[c].op, call[c].on) THEN "serving" ELSE "answered"
         /\ Accepts(call[c].op, call[c].on) => call'[c].last = IsLast(call[c].op, call[c].on)
<1> DEFINE op == call[c].op
           on == call[c].on
           l == IsLast(op, on)
           refused == [call[c] EXCEPT !.phase = "answered"]
           taken == [call[c] EXCEPT !.phase = "serving", !.last = l]
           k == IF Accepts(op, on) THEN taken ELSE refused
<1>1. IntakeTypeOK /\ CallsAreMade /\ call[c] \in CallType /\ Made(call[c]) /\ l \in BOOLEAN
  BY DEF PageInv, IntakeTypeOK, CallsAreMade, IsLast
<1>2. call[c].phase = "sent" /\ call[c].op # "draft" /\ ~call[c].ok
  BY <1>1 DEF Begin, Made
<1>3. call' = [call EXCEPT ![c] = k]
  BY DEF Begin
<1> HIDE DEF l
<1>4. /\ refused \in CallType /\ refused.phase = "answered" /\ refused.op = op /\ refused.on = on
      /\ refused.from = call[c].from /\ refused.mount = call[c].mount /\ refused.ok = call[c].ok
      /\ refused.publish = call[c].publish /\ refused.group = call[c].group
  BY <1>1 DEF CallType
<1>5. /\ taken \in CallType /\ taken.phase = "serving" /\ taken.op = op /\ taken.on = on
      /\ taken.from = call[c].from /\ taken.mount = call[c].mount /\ taken.ok = call[c].ok
      /\ taken.publish = call[c].publish /\ taken.group = call[c].group /\ taken.last = l
  BY <1>1 DEF CallType
<1>6. Made(refused) /\ Made(taken)
  BY <1>1, <1>2, <1>4, <1>5 DEF Made
<1> HIDE DEF refused, taken
<1>7. call' \in [Slots -> CallType] /\ Becomes(c, k) /\ CallsAreMade'
  BY <1>1, <1>3, <1>4, <1>5, <1>6, SlotReplaced
<1> QED
  BY <1>2, <1>4, <1>5, <1>7 DEF Becomes, GoesOn, l

LEMMA CreateDraftMoves ==
  ASSUME PageInv, NEW c \in Slots, NEW r \in Requests, CreateDraft(c, r)
  PROVE  /\ call' \in [Slots -> CallType] /\ CallsAreMade' /\ GoesOn(c)
         /\ call[c].op = "draft" /\ call'[c].phase = "answered" /\ call'[c].ok /\ call'[c].on = r
<1> DEFINE k == [call[c] EXCEPT !.phase = "answered", !.on = r, !.ok = TRUE]
<1>1. IntakeTypeOK /\ CallsAreMade /\ call[c] \in CallType /\ Made(call[c])
      /\ call[c].op = "draft" /\ call[c].phase = "sent"
  BY DEF PageInv, IntakeTypeOK, CallsAreMade, CreateDraft
<1>2. call' = [call EXCEPT ![c] = k]
  BY DEF CreateDraft
<1>3. /\ k \in CallType /\ k.phase = "answered" /\ k.op = "draft" /\ k.on = r
      /\ k.from = call[c].from /\ k.mount = call[c].mount /\ k.ok
      /\ k.publish = call[c].publish /\ k.group = call[c].group
  BY <1>1 DEF CallType
<1> HIDE DEF k
<1>4. Made(k)
  BY <1>1, <1>3 DEF Made, DeskOps
<1>5. call' \in [Slots -> CallType] /\ Becomes(c, k) /\ CallsAreMade'
  BY <1>1, <1>2, <1>3, <1>4, SlotReplaced
<1> QED
  BY <1>1, <1>3, <1>5 DEF Becomes, GoesOn

LEMMA CommitMoves ==
  ASSUME PageInv, NEW c \in Slots, Commit(c)
  PROVE  /\ call' \in [Slots -> CallType] /\ CallsAreMade' /\ GoesOn(c)
         /\ call[c].op # "draft" /\ call'[c].phase = "answered" /\ call'[c].ok
         /\ call'[c].on = call[c].on
<1> DEFINE k == [call[c] EXCEPT !.phase = "answered", !.ok = TRUE, !.last = FALSE]
<1>1. IntakeTypeOK /\ CallsAreMade /\ call[c] \in CallType /\ Made(call[c])
      /\ call[c].phase = "serving" /\ call[c].op # "draft"
  BY DEF PageInv, IntakeTypeOK, CallsAreMade, Commit, Serving, Made
<1>2. call' = [call EXCEPT ![c] = k]
  BY DEF Commit
<1>3. /\ k \in CallType /\ k.phase = "answered" /\ k.op = call[c].op /\ k.on = call[c].on
      /\ k.from = call[c].from /\ k.mount = call[c].mount /\ k.ok
      /\ k.publish = call[c].publish /\ k.group = call[c].group
  BY <1>1 DEF CallType
<1> HIDE DEF k
<1>4. Made(k)
  BY <1>1, <1>3 DEF Made
<1>5. call' \in [Slots -> CallType] /\ Becomes(c, k) /\ CallsAreMade'
  BY <1>1, <1>2, <1>3, <1>4, SlotReplaced
<1> QED
  BY <1>1, <1>3, <1>5 DEF Becomes, GoesOn

LEMMA LoseMoves ==
  ASSUME PageInv, NEW c \in Slots, Lose(c)
  PROVE  /\ call' \in [Slots -> CallType] /\ CallsAreMade' /\ GoesOn(c)
         /\ call'[c].phase = "answered" /\ ~call'[c].ok /\ call'[c].on = call[c].on
<1> DEFINE k == [call[c] EXCEPT !.phase = "answered", !.ok = FALSE]
<1>1. IntakeTypeOK /\ CallsAreMade /\ call[c] \in CallType /\ Made(call[c])
      /\ call[c].phase \in {"sent", "answered"}
  BY DEF PageInv, IntakeTypeOK, CallsAreMade, Lose
<1>2. call' = [call EXCEPT ![c] = k]
  BY DEF Lose
<1>3. /\ k \in CallType /\ k.phase = "answered" /\ k.op = call[c].op /\ k.on = call[c].on
      /\ k.from = call[c].from /\ k.mount = call[c].mount /\ ~k.ok
      /\ k.publish = call[c].publish /\ k.group = call[c].group
  BY <1>1 DEF CallType
<1> HIDE DEF k
<1>4. Made(k)
  BY <1>1, <1>3 DEF Made
<1>5. call' \in [Slots -> CallType] /\ Becomes(c, k) /\ CallsAreMade'
  BY <1>1, <1>2, <1>3, <1>4, SlotReplaced
<1> QED
  BY <1>1, <1>3, <1>5 DEF Becomes, GoesOn

\* A call that leaves takes the place of none.
Leaves(c, k) == call[c].phase = "idle" /\ Becomes(c, k) /\ k.phase = "sent" /\ ~k.ok

LEMMA PressMoves ==
  ASSUME PageInv, NEW c \in Slots, NEW publish \in BOOLEAN, Press(c, publish)
  PROVE  /\ call' \in [Slots -> CallType] /\ CallsAreMade'
         /\ Leaves(c, call'[c]) /\ call'[c].group = {} /\ call'[c].from = user.page
         /\ call'[c].mount = user.mount /\ user.page \in {"new", "edit"} /\ ~user.busy
         /\ user' \in UserType /\ user'.busy /\ user'.page = user.page /\ user'.on = user.on
         /\ user'.mount = user.mount
<1> DEFINE op == IF user.page = "new" THEN "draft" ELSE "update"
           on == IF user.page = "new" THEN None ELSE user.on
           k == FormCall(op, user.on, user.page, user.mount, publish)
           u == [user EXCEPT !.busy = TRUE]
<1>1. IntakeTypeOK /\ CallsAreMade /\ user \in UserType /\ user.page \in {"new", "edit"} /\ ~user.busy
      /\ call[c].phase = "idle"
  BY DEF PageInv, IntakeTypeOK, Press, Send, Free
<1>2. user.page = "edit" => user.on \in Requests
  BY DEF PageInv, PagesAreOpen
<1>3. op \in FormOps /\ (op # "draft" => user.on \in Requests) /\ user.on \in Requests \cup {None}
      /\ user.mount \in Nat
  BY <1>1, <1>2 DEF FormOps, UserType
<1>4. k \in CallType /\ Made(k) /\ k.phase = "sent" /\ k.from = user.page
      /\ k.mount = user.mount /\ ~k.ok /\ k.group = {}
  <2> HIDE DEF op
  <2> QED
    BY <1>1, <1>3, FormCallIsACall
<1>5. call' = [call EXCEPT ![c] = k]
  BY DEF Press, Send, FormCall
<1>6. u \in UserType /\ u.busy /\ u.page = user.page /\ u.on = user.on /\ u.mount = user.mount
  BY <1>1 DEF UserType
<1>7. user' = u
  BY DEF Press
<1> HIDE DEF op, k, u
<1>8. call' \in [Slots -> CallType] /\ Becomes(c, k) /\ CallsAreMade'
  BY <1>1, <1>4, <1>5, SlotReplaced
<1> QED
  BY <1>1, <1>4, <1>6, <1>7, <1>8 DEF Becomes, Leaves

LEMMA ConfirmCancelMoves ==
  ASSUME PageInv, NEW c \in Slots, ConfirmCancel(c)
  PROVE  /\ call' \in [Slots -> CallType] /\ CallsAreMade'
         /\ Leaves(c, call'[c]) /\ call'[c].group = {} /\ call'[c].from = "cancel"
         /\ call'[c].mount = user.mount /\ user.page = "cancel" /\ ~user.busy
         /\ user' \in UserType /\ user'.busy /\ user'.page = user.page /\ user'.on = user.on
         /\ user'.mount = user.mount
<1> DEFINE k == CancelCall(user.on, user.mount)
           u == [user EXCEPT !.busy = TRUE]
<1>1. IntakeTypeOK /\ CallsAreMade /\ user \in UserType /\ user.page = "cancel" /\ ~user.busy
      /\ call[c].phase = "idle"
  BY DEF PageInv, IntakeTypeOK, ConfirmCancel, Send, Free
<1>2. user.on \in Requests /\ user.mount \in Nat
  BY <1>1 DEF PageInv, PagesAreOpen, UserType
<1>3. k \in CallType /\ Made(k) /\ k.phase = "sent" /\ k.from = "cancel"
      /\ k.mount = user.mount /\ ~k.ok /\ k.group = {}
  BY <1>2, CancelCallIsACall
<1>4. call' = [call EXCEPT ![c] = k]
  BY DEF ConfirmCancel, Send, CancelCall
<1>5. u \in UserType /\ u.busy /\ u.page = user.page /\ u.on = user.on /\ u.mount = user.mount
  BY <1>1 DEF UserType
<1>6. user' = u
  BY DEF ConfirmCancel
<1> HIDE DEF k, u
<1>7. call' \in [Slots -> CallType] /\ Becomes(c, k) /\ CallsAreMade'
  BY <1>1, <1>3, <1>4, SlotReplaced
<1> QED
  BY <1>1, <1>3, <1>5, <1>6, <1>7 DEF Becomes, Leaves

LEMMA MgrActMoves ==
  ASSUME PageInv, NEW c \in Slots, NEW op \in MgrOps, MgrAct(c, op)
  PROVE  /\ call' \in [Slots -> CallType] /\ CallsAreMade'
         /\ Leaves(c, call'[c]) /\ call'[c].group = {} /\ call'[c].from = "mgr"
         /\ mgr' \in MgrType /\ mgr'.busy /\ mgr'.calls = mgr.calls \cup {c}
         /\ mgr'.page = mgr.page /\ mgr'.on = mgr.on
<1> DEFINE k == Sent(op, mgr.on, "mgr")
           m == [mgr EXCEPT !.busy = TRUE, !.calls = @ \cup {c}, !.modal = None]
<1>1. IntakeTypeOK /\ CallsAreMade /\ mgr \in MgrType /\ mgr.on \in Requests /\ call[c].phase = "idle"
  BY DEF PageInv, PagesAreOpen, IntakeTypeOK, MgrAct, Send, Free
<1>2. k \in CallType /\ Made(k) /\ k.phase = "sent" /\ k.from = "mgr" /\ ~k.ok /\ k.group = {}
  BY <1>1, MgrCallIsACall
<1>3. call' = [call EXCEPT ![c] = k]
  BY DEF MgrAct, Send
<1>4. m \in MgrType /\ m.busy /\ m.calls = mgr.calls \cup {c} /\ m.page = mgr.page /\ m.on = mgr.on
  BY <1>1 DEF MgrType
<1>5. mgr' = m
  BY DEF MgrAct
<1> HIDE DEF k, m
<1>6. call' \in [Slots -> CallType] /\ Becomes(c, k) /\ CallsAreMade'
  BY <1>1, <1>2, <1>3, SlotReplaced
<1> QED
  BY <1>1, <1>2, <1>4, <1>5, <1>6 DEF Becomes, Leaves

LEMMA DeskActMoves ==
  ASSUME PageInv, NEW c \in Slots, NEW op \in DeskOps, NEW w \in Wafers, DeskAct(c, op, w)
  PROVE  /\ call' \in [Slots -> CallType] /\ CallsAreMade'
         /\ Leaves(c, call'[c]) /\ call'[c].group = {w} /\ call'[c].from = "desk"
         /\ desk' \in DeskType /\ desk'.busy = desk.busy \cup {w}
<1> DEFINE k == DeskCall(op, w, {w})
           m == [desk EXCEPT !.busy = @ \cup {w}]
<1>1. IntakeTypeOK /\ CallsAreMade /\ desk \in DeskType /\ call[c].phase = "idle" /\ {w} \in SUBSET Wafers
  BY DEF PageInv, IntakeTypeOK, DeskAct, Send, Free
<1>2. k \in CallType /\ Made(k) /\ k.phase = "sent" /\ k.from = "desk" /\ ~k.ok /\ k.group = {w}
  BY <1>1, DeskCallIsACall
<1>3. call' = [call EXCEPT ![c] = k]
  BY DEF DeskAct, Send, DeskCall
<1>4. m \in DeskType /\ m.busy = desk.busy \cup {w}
  BY <1>1 DEF DeskType
<1>5. desk' = m
  BY DEF DeskAct
<1> HIDE DEF k, m
<1>6. call' \in [Slots -> CallType] /\ Becomes(c, k) /\ CallsAreMade'
  BY <1>1, <1>2, <1>3, SlotReplaced
<1> QED
  BY <1>1, <1>2, <1>4, <1>5, <1>6 DEF Becomes, Leaves

LEMMA BulkReceiveMoves ==
  ASSUME PageInv, BulkReceive
  PROVE  /\ call' \in [Slots -> CallType] /\ CallsAreMade'
         /\ desk' \in DeskType /\ desk'.busy = desk.busy \cup DeskOffers
         /\ \A c \in Slots :
              \/ call'[c] = call[c]
              \/ /\ call[c].phase = "idle" /\ call'[c].phase = "sent" /\ ~call'[c].ok
                 /\ call'[c].group = DeskOffers /\ call'[c].from = "desk"
         /\ \E c \in Slots : call'[c].phase = "sent" /\ call'[c].group = DeskOffers
<1> DEFINE W == DeskOffers
           free == {c \in Slots : call[c].phase = "idle"}
           at == Assignment(W, free)
           on == Inverse(at, W, free)
           k(c) == DeskCall("receive", on[c], W)
           m == [desk EXCEPT !.busy = @ \cup W]
<1>1. IntakeTypeOK /\ CallsAreMade /\ desk \in DeskType /\ W \in SUBSET Wafers
  BY DEF PageInv, IntakeTypeOK, DeskOffers, DeskType
<1>2. IsFiniteSet(W) /\ IsFiniteSet(free)
  <2>1. IsFiniteSet(Slots)
    BY ServiceAssumption, FS_Interval DEF Slots
  <2> QED
    BY <1>1, <2>1, FS_Subset, ServiceAssumption
<1>3. Cardinality(W) \in 2..Cardinality(free)
  BY DEF BulkReceive
<1>4. /\ at \in [W -> free] /\ Range(at) # {} /\ Range(at) \subseteq free
      /\ \A c \in Range(at) : on[c] \in W
  <2> HIDE DEF W, free
  <2> QED
    BY <1>2, <1>3, BulkAssignment
<1>5. call' = [c \in Slots |-> IF c \in Range(at) THEN k(c) ELSE call[c]]
  BY DEF BulkReceive, DeskCall, Assignment
<1> HIDE DEF at, on
<1>6. ASSUME NEW c \in Range(at)
      PROVE  k(c) \in CallType /\ Made(k(c)) /\ k(c).phase = "sent" /\ k(c).from = "desk"
             /\ ~k(c).ok /\ k(c).group = W
  <2>1. on[c] \in Wafers
    BY <1>1, <1>4
  <2> HIDE DEF W
  <2> QED
    BY <1>1, <2>1, DeskCallIsACall DEF DeskOps
<1> HIDE DEF k
<1>7. Range(at) \subseteq Slots /\ \A c \in Range(at) : call[c].phase = "idle"
  BY <1>4
<1>8. \A c \in Slots : call'[c] = IF c \in Range(at) THEN k(c) ELSE call[c]
  BY <1>5
<1>9. call \in [Slots -> CallType] /\ \A c \in Slots : Made(call[c])
  BY <1>1 DEF IntakeTypeOK, CallsAreMade
<1>10. call' \in [Slots -> CallType]
  BY <1>5, <1>6, <1>9
<1>11. CallsAreMade'
  BY <1>6, <1>8, <1>9 DEF CallsAreMade
<1>12. desk' \in DeskType /\ desk'.busy = desk.busy \cup W
  <2>1. desk' = m
    BY DEF BulkReceive
  <2>2. m \in DeskType /\ m.busy = desk.busy \cup W
    BY <1>1 DEF DeskType
  <2> QED
    BY <2>1, <2>2
<1>13. ASSUME NEW c \in Slots
       PROVE  \/ call'[c] = call[c]
              \/ /\ call[c].phase = "idle" /\ call'[c].phase = "sent" /\ ~call'[c].ok
                 /\ call'[c].group = W /\ call'[c].from = "desk"
  BY <1>6, <1>7, <1>8
<1>14. \E c \in Slots : call'[c].phase = "sent" /\ call'[c].group = W
  BY <1>4, <1>6, <1>7, <1>8
<1> QED
  BY <1>10, <1>11, <1>12, <1>13, <1>14

\* The answer of a call of the requester's pages: the submission follows, or the call is over
\* and the page is told.
LEMMA UserAnswerMoves ==
  ASSUME PageInv, NEW c \in Slots, UserAnswer(c)
  PROVE  /\ call' \in [Slots -> CallType] /\ CallsAreMade' /\ user' \in UserType /\ PagesAreOpen'
         /\ \A d \in Slots \ {c} : call'[d] = call[d]
         /\ call[c].phase = "answered" /\ call[c].from \in {"new", "edit", "cancel"}
         /\ \/ /\ user' = user /\ call'[c].phase = "sent" /\ call'[c].op = "submit" /\ ~call'[c].ok
               /\ call[c].op # "submit" /\ call[c].from \in {"new", "edit"}
               /\ call'[c].from = call[c].from /\ call'[c].mount = call[c].mount
               /\ call'[c].group = {} /\ call[c].group = {}
            \/ /\ call'[c] = Idle
               /\ \/ ~user'.busy /\ user'.page \in {"away", "detail"} /\ user'.mount = 0 /\ call[c].ok
                  \/ user' = user /\ call[c].ok /\ call[c].from = "cancel" /\ user.page # "cancel"
                  \/ user' = user /\ ~StillMounted(c) /\ ~call[c].ok
                  \/ /\ ~user'.busy /\ user'.page = user.page /\ user'.mount = user.mount
                     /\ StillMounted(c) /\ ~call[c].ok
<1> DEFINE it == call[c]
           next == FormCall("submit", it.on, it.from, it.mount, it.publish)
           back == [Away EXCEPT !.page = "detail", !.on = user.on, !.shows = user.shows]
           freed == [user EXCEPT !.busy = FALSE]
<1>1. /\ IntakeTypeOK /\ CallsAreMade /\ PagesAreOpen /\ user \in UserType
      /\ it \in CallType /\ Made(it)
      /\ it.phase = "answered" /\ it.from \in {"new", "edit", "cancel"}
  BY DEF PageInv, IntakeTypeOK, CallsAreMade, UserAnswer
<1>2. it.group = {} /\ it.mount \in Nat
  BY <1>1 DEF Made, CallType
<1>2a. it.publish \in BOOLEAN
  BY <1>1 DEF CallType
<1>3. CASE it.ok /\ it.publish /\ it.op # "submit"
  <2>1. it.from \in {"new", "edit"} /\ it.op \in {"draft", "update"} /\ it.on \in Requests
    BY <1>1, <1>3 DEF Made, FormOps, DeskOps
  <2>2. call' = [call EXCEPT ![c] = next] /\ user' = user /\ mgr' = mgr
    <3>1. it.publish = TRUE
      BY <1>1, <1>3 DEF CallType
    <3> QED
      BY <1>3, <3>1 DEF UserAnswer, FormCall
  <2>3. next \in CallType /\ Made(next) /\ next.phase = "sent" /\ next.op = "submit" /\ ~next.ok
        /\ next.from = it.from /\ next.mount = it.mount /\ next.group = {}
    BY <1>2, <1>2a, <2>1, FormCallIsACall DEF FormOps
  <2> HIDE DEF next
  <2>4. call' \in [Slots -> CallType] /\ Becomes(c, next) /\ CallsAreMade'
    BY <1>1, <2>2, <2>3, SlotReplaced
  <2>5. PagesAreOpen'
    BY <1>1, <2>2 DEF PagesAreOpen
  <2> QED
    BY <1>1, <1>2, <1>3, <2>1, <2>2, <2>3, <2>4, <2>5 DEF Becomes
<1>4. CASE ~(it.ok /\ it.publish /\ it.op # "submit")
  <2>1. call' = [call EXCEPT ![c] = Idle] /\ mgr' = mgr
    BY <1>4 DEF UserAnswer
  <2>2. call' \in [Slots -> CallType] /\ Becomes(c, Idle) /\ CallsAreMade'
    BY <1>1, <2>1, SlotReplaced, IdleIsMade
  <2>3. /\ it.ok /\ it.from = "cancel" /\ user.page = "cancel" => user' = back
        /\ it.ok /\ it.from = "cancel" /\ user.page # "cancel" => user' = user
        /\ it.ok /\ it.from # "cancel" => user' = Away
        /\ ~it.ok /\ StillMounted(c) => user' = freed
        /\ ~it.ok /\ ~StillMounted(c) => user' = user
    BY <1>4 DEF UserAnswer
  <2>4. Away \in UserType /\ ~Away.busy /\ Away.page = "away" /\ Away.mount = 0
    BY DEF Away, UserType
  <2>5. back \in UserType /\ ~back.busy /\ back.page = "detail" /\ back.mount = 0 /\ back.on = user.on
    BY <1>1, <2>4 DEF UserType
  <2>6. freed \in UserType /\ ~freed.busy /\ freed.page = user.page /\ freed.mount = user.mount
        /\ freed.on = user.on
    BY <1>1 DEF UserType
  <2> HIDE DEF back, freed
  <2>7. user' \in UserType
    BY <1>1, <2>3, <2>4, <2>5, <2>6
  <2>8. PagesAreOpen'
    BY <1>1, <2>1, <2>3, <2>4, <2>5, <2>6 DEF PagesAreOpen
  <2>9. \/ ~user'.busy /\ user'.page \in {"away", "detail"} /\ user'.mount = 0 /\ it.ok
        \/ user' = user /\ it.ok /\ it.from = "cancel" /\ user.page # "cancel"
        \/ user' = user /\ ~StillMounted(c) /\ ~it.ok
        \/ ~user'.busy /\ user'.page = user.page /\ user'.mount = user.mount /\ StillMounted(c) /\ ~it.ok
    BY <2>3, <2>4, <2>5, <2>6
  <2> QED
    BY <1>1, <2>2, <2>7, <2>8, <2>9 DEF Becomes
<1> QED
  BY <1>3, <1>4

LEMMA MgrAnswerMoves ==
  ASSUME PageInv, NEW c \in Slots, MgrAnswer(c)
  PROVE  /\ call' \in [Slots -> CallType] /\ CallsAreMade' /\ mgr' \in MgrType
         /\ Becomes(c, Idle) /\ call[c].from = "mgr" /\ call[c].phase = "answered"
         /\ mgr'.page = mgr.page /\ mgr'.on = mgr.on
         /\ c \notin mgr.calls => mgr' = mgr
         /\ c \in mgr.calls => ~mgr'.busy
<1> DEFINE m == [mgr EXCEPT !.busy = FALSE, !.calls = @ \ {c}]
<1>1. IntakeTypeOK /\ CallsAreMade /\ mgr \in MgrType /\ call[c].phase = "answered" /\ call[c].from = "mgr"
  BY DEF PageInv, IntakeTypeOK, MgrAnswer
<1>2. call' = [call EXCEPT ![c] = Idle]
  BY DEF MgrAnswer
<1>3. call' \in [Slots -> CallType] /\ Becomes(c, Idle) /\ CallsAreMade'
  BY <1>1, <1>2, SlotReplaced, IdleIsMade
<1>4. m \in MgrType /\ ~m.busy /\ m.page = mgr.page /\ m.on = mgr.on
  BY <1>1 DEF MgrType
<1>5. mgr' = IF c \in mgr.calls THEN m ELSE mgr
  BY DEF MgrAnswer
<1> HIDE DEF m
<1> QED
  BY <1>1, <1>3, <1>4, <1>5

LEMMA DeskAnswerMoves ==
  ASSUME PageInv, NEW c \in Slots, DeskAnswer(c)
  PROVE  /\ call' \in [Slots -> CallType] /\ CallsAreMade' /\ desk' \in DeskType
         /\ call[c].phase = "answered" /\ call[c].from = "desk" /\ call'[c] = Idle
         /\ \A d \in Slots \ {c} :
              /\ call'[d].phase = call[d].phase /\ call'[d].op = call[d].op
              /\ call'[d].from = call[d].from /\ call'[d].mount = call[d].mount
              /\ call'[d].ok = call[d].ok
              /\ (call[d].from # "desk" \/ call[d].group # call[c].group) => call'[d] = call[d]
              /\ call[d].phase = "serving" => call'[d].on = call[d].on /\ call'[d].last = call[d].last
         /\ \/ desk' = desk /\ call[c].ok /\ (\A d \in Slots \ {c} : call'[d] = call[d])
               /\ call[c].group # {}
               /\ \E d \in Slots \ {c} : call[d].group = call[c].group
            \/ desk'.busy = desk.busy \ call[c].group
<1> DEFINE W == call[c].group
           rest == {d \in Slots \ {c} : call[d].from = "desk" /\ call[d].group = W /\ W # {}}
           left(d) == [call[d] EXCEPT !.group = {}]
           m == [desk EXCEPT !.busy = @ \ W]
<1>1. /\ IntakeTypeOK /\ CallsAreMade /\ desk \in DeskType /\ call[c].phase = "answered"
      /\ call[c].from = "desk" /\ call \in [Slots -> CallType]
  BY DEF PageInv, IntakeTypeOK, DeskAnswer
<1>2. call' = [d \in Slots |-> IF d = c THEN Idle
                               ELSE IF d \in rest /\ ~call[c].ok THEN left(d) ELSE call[d]]
  BY DEF DeskAnswer
<1>3. desk' = IF ~call[c].ok \/ rest = {} THEN m ELSE desk
  BY DEF DeskAnswer
<1>4. m \in DeskType /\ m.busy = desk.busy \ W
  BY <1>1 DEF DeskType
<1>5. ASSUME NEW d \in Slots
      PROVE  /\ left(d) \in CallType /\ Made(left(d))
             /\ left(d).phase = call[d].phase /\ left(d).op = call[d].op
             /\ left(d).from = call[d].from /\ left(d).mount = call[d].mount
             /\ left(d).ok = call[d].ok /\ left(d).on = call[d].on /\ left(d).last = call[d].last
  <2>1. call[d] \in CallType /\ Made(call[d])
    BY <1>1 DEF CallsAreMade
  <2>2. /\ left(d) \in CallType /\ left(d).group = {} /\ left(d).publish = call[d].publish
        /\ left(d).phase = call[d].phase /\ left(d).op = call[d].op
        /\ left(d).from = call[d].from /\ left(d).mount = call[d].mount
        /\ left(d).ok = call[d].ok /\ left(d).on = call[d].on /\ left(d).last = call[d].last
    BY <2>1 DEF CallType
  <2> HIDE DEF left
  <2> QED
    BY <2>1, <2>2 DEF Made
<1> HIDE DEF left, m
<1>6. call' \in [Slots -> CallType]
  BY <1>1, <1>2, <1>5, IdleIsMade
<1>7. CallsAreMade'
  BY <1>1, <1>2, <1>5, IdleIsMade DEF CallsAreMade
<1>8. /\ call'[c] = Idle
      /\ \A d \in Slots \ {c} : call'[d] = IF d \in rest /\ ~call[c].ok THEN left(d) ELSE call[d]
  BY <1>2
<1>9. ASSUME NEW d \in Slots \ {c}
      PROVE  /\ call'[d].phase = call[d].phase /\ call'[d].op = call[d].op
             /\ call'[d].from = call[d].from /\ call'[d].mount = call[d].mount
             /\ call'[d].ok = call[d].ok
             /\ (call[d].from # "desk" \/ call[d].group # call[c].group) => call'[d] = call[d]
             /\ call[d].phase = "serving" => call'[d].on = call[d].on /\ call'[d].last = call[d].last
  BY <1>5, <1>8
<1>10. desk' \in DeskType
  BY <1>1, <1>3, <1>4
<1>11. \/ desk' = desk /\ call[c].ok /\ (\A d \in Slots \ {c} : call'[d] = call[d])
          /\ call[c].group # {}
          /\ \E d \in Slots \ {c} : call[d].group = call[c].group
       \/ desk'.busy = desk.busy \ call[c].group
  <2>1. CASE ~call[c].ok \/ rest = {}
    BY <1>3, <1>4, <2>1
  <2>2. CASE call[c].ok /\ rest # {}
    BY <1>3, <1>8, <2>2
  <2> QED
    BY <2>1, <2>2
<1> QED
  BY <1>1, <1>6, <1>7, <1>8, <1>9, <1>10, <1>11

-----------------------------------------------------------------------------
(* Type correctness                                                        *)

LEMMA InitPages == IntakeInit => PageInv
<1> SUFFICES ASSUME IntakeInit PROVE PageInv
  OBVIOUS
<1>1. Idle \in CallType /\ Made(Idle)
  BY IdleIsMade
<1>2. Away \in UserType /\ Away.page = "away" /\ ~Away.busy
  BY DEF Away, UserType
<1>3. NoRow \in MgrType /\ NoRow.page = "away"
  BY DEF NoRow, MgrType
<1>4. [shows |-> {}, busy |-> {}] \in DeskType
  BY DEF DeskType
<1>5. IntakeTypeOK
  BY <1>1, <1>2, <1>3, <1>4, PagesAssumption
     DEF IntakeInit, ServiceInit, PagesInit, IntakeTypeOK, RequestStatuses, WaferStatuses
<1>6. CallsAreMade
  BY <1>1 DEF IntakeInit, ServiceInit, CallsAreMade
<1>7. PagesAreOpen
  BY <1>2, <1>3 DEF IntakeInit, PagesInit, PagesAreOpen
<1> QED
  BY <1>5, <1>6, <1>7 DEF PageInv

\* Steps of the requester between calls.
LEMMA MountMoves ==
  ASSUME IntakeTypeOK, NEW page \in {"new", "edit", "cancel"}, NEW r \in Requests \cup {None},
         Mount(page, r)
  PROVE  /\ mounts' \in 0..MaxMounts /\ mounts' = mounts + 1 /\ mounts \in Nat
         /\ user' \in UserType /\ user'.page = page /\ user'.on = r /\ user'.mount = mounts + 1
         /\ ~user'.busy
<1> DEFINE s == IF page = "cancel" THEN user.shows ELSE {}
           u == [Away EXCEPT !.page = page, !.on = r, !.mount = mounts + 1, !.shows = s]
<1>1. mounts' = mounts + 1 /\ user' = u /\ mounts \in 0..MaxMounts /\ mounts < MaxMounts
  BY DEF Mount, IntakeTypeOK
<1>2. s \in SUBSET {"cancel"} /\ mounts + 1 \in Nat
  BY <1>1, PagesAssumption DEF IntakeTypeOK, UserType
<1> HIDE DEF s
<1>3. Away \in UserType /\ ~Away.busy
  BY DEF Away, UserType
<1>4. u \in UserType /\ u.page = page /\ u.on = r /\ u.mount = mounts + 1 /\ ~u.busy
  BY <1>2, <1>3 DEF UserType
<1> HIDE DEF u
<1> QED
  BY <1>1, <1>4, PagesAssumption

LEMMA UserStepPage ==
  ASSUME PageInv, user' \in UserType, mounts' \in 0..MaxMounts,
         user'.page \in {"edit", "detail", "cancel"} => user'.on \in Requests,
         user'.busy => user'.page \in {"new", "edit", "cancel"},
         UNCHANGED <<tables, call, mgr, desk, losses>>
  PROVE  PageInv'
BY DEF PageInv, IntakeTypeOK, CallsAreMade, PagesAreOpen

LEMMA LeaveMoves ==
  ASSUME PageInv, Leave
  PROVE  /\ user' \in UserType /\ user'.page \in {"away", "detail"} /\ user'.mount = 0 /\ ~user'.busy
         /\ user'.page = "detail" => user'.on \in Requests
<1> DEFINE back == [Away EXCEPT !.page = "detail", !.on = user.on, !.shows = user.shows]
<1>1. user \in UserType /\ (user.page = "cancel" => user.on \in Requests)
  BY DEF PageInv, IntakeTypeOK, PagesAreOpen
<1>2. Away \in UserType /\ Away.page = "away" /\ Away.mount = 0 /\ ~Away.busy
  BY DEF Away, UserType
<1>3. back \in UserType /\ back.page = "detail" /\ back.on = user.on /\ back.mount = 0 /\ ~back.busy
  BY <1>1, <1>2 DEF UserType
<1>4. user' = IF user.page = "cancel" THEN back ELSE Away
  BY DEF Leave
<1> HIDE DEF back
<1> QED
  BY <1>1, <1>2, <1>3, <1>4

LEMMA OpenDetailMoves ==
  ASSUME PageInv, NEW r \in Requests, OpenDetail(r)
  PROVE  user' \in UserType /\ user'.page = "detail" /\ user'.on = r /\ user'.mount = 0 /\ ~user'.busy
<1> DEFINE s == UserOffers(r)
           u == [Away EXCEPT !.page = "detail", !.on = r, !.shows = s]
<1>1. user' = u
  BY DEF OpenDetail
<1>2. s \in SUBSET {"cancel"}
  BY DEF UserOffers
<1> HIDE DEF s
<1>3. Away \in UserType /\ ~Away.busy /\ Away.mount = 0
  BY DEF Away, UserType
<1>4. u \in UserType /\ u.page = "detail" /\ u.on = r /\ u.mount = 0 /\ ~u.busy
  BY <1>2, <1>3 DEF UserType
<1> HIDE DEF u
<1> QED
  BY <1>1, <1>4

LEMMA DetailPollMoves ==
  ASSUME PageInv, DetailPoll
  PROVE  /\ user' \in UserType /\ user'.page = user.page /\ user'.on = user.on
         /\ user'.mount = user.mount /\ user'.busy = user.busy
<1> DEFINE s == UserOffers(user.on)
           u == [user EXCEPT !.shows = s]
<1>1. user' = u /\ user \in UserType
  BY DEF DetailPoll, PageInv, IntakeTypeOK
<1>2. s \in SUBSET {"cancel"}
  BY DEF UserOffers
<1> HIDE DEF s
<1>3. u \in UserType /\ u.page = user.page /\ u.on = user.on /\ u.mount = user.mount /\ u.busy = user.busy
  BY <1>1, <1>2 DEF UserType
<1> HIDE DEF u
<1> QED
  BY <1>1, <1>3

LEMMA LeavePage ==
  ASSUME PageInv, Leave PROVE PageInv'
BY LeaveMoves, UserStepPage DEF Leave, PageInv, IntakeTypeOK

LEMMA OpenFormMoves ==
  ASSUME PageInv, NEW page \in {"new", "edit"}, NEW r \in Opened \cup {None}, OpenForm(page, r)
  PROVE  /\ mounts' \in 0..MaxMounts /\ mounts' = mounts + 1 /\ mounts \in Nat
         /\ user' \in UserType /\ user'.page = page /\ user'.on = r /\ user'.mount = mounts + 1
         /\ ~user'.busy /\ (page = "edit" => r \in Requests)
<1>1. IntakeTypeOK /\ Mount(page, r) /\ (page = "edit" => r # None) /\ r \in Requests \cup {None}
  BY PagesAssumption DEF PageInv, OpenForm
<1> QED
  BY <1>1, MountMoves

LEMMA OpenFormPage ==
  ASSUME PageInv, NEW page \in {"new", "edit"}, NEW r \in Opened \cup {None}, OpenForm(page, r)
  PROVE  PageInv'
BY OpenFormMoves, UserStepPage DEF OpenForm

LEMMA DraftPollFailsMoves ==
  ASSUME PageInv, DraftPollFails
  PROVE  /\ mounts' \in 0..MaxMounts /\ mounts' = mounts + 1 /\ mounts \in Nat
         /\ user' \in UserType /\ user'.page = "edit" /\ user'.on \in Requests
         /\ user'.mount = mounts + 1 /\ ~user'.busy
<1>1. IntakeTypeOK /\ user.on \in Requests /\ Mount("edit", user.on)
  BY DEF PageInv, PagesAreOpen, DraftPollFails
<1> QED
  BY <1>1, MountMoves

LEMMA DraftPollFailsPage ==
  ASSUME PageInv, DraftPollFails PROVE PageInv'
BY DraftPollFailsMoves, UserStepPage DEF DraftPollFails

LEMMA OpenDetailPage ==
  ASSUME PageInv, NEW r \in Opened, OpenDetail(r) PROVE PageInv'
BY OpenDetailMoves, UserStepPage, PagesAssumption DEF OpenDetail, PageInv, IntakeTypeOK

LEMMA DetailPollPage ==
  ASSUME PageInv, DetailPoll PROVE PageInv'
BY DetailPollMoves, UserStepPage DEF DetailPoll, PageInv, IntakeTypeOK, PagesAreOpen

LEMMA OpenCancelMoves ==
  ASSUME PageInv, OpenCancel
  PROVE  /\ mounts' \in 0..MaxMounts /\ mounts' = mounts + 1 /\ mounts \in Nat
         /\ user' \in UserType /\ user'.page = "cancel" /\ user'.on \in Requests
         /\ user'.mount = mounts + 1 /\ ~user'.busy
<1>1. IntakeTypeOK /\ user.on \in Requests /\ Mount("cancel", user.on)
  BY DEF PageInv, PagesAreOpen, OpenCancel
<1> QED
  BY <1>1, MountMoves

LEMMA OpenCancelPage ==
  ASSUME PageInv, OpenCancel PROVE PageInv'
BY OpenCancelMoves, UserStepPage DEF OpenCancel

LEMMA PressPage ==
  ASSUME PageInv, NEW c \in Slots, NEW publish \in BOOLEAN, Press(c, publish) PROVE PageInv'
BY PressMoves DEF Press, PageInv, IntakeTypeOK, PagesAreOpen

LEMMA ConfirmCancelPage ==
  ASSUME PageInv, NEW c \in Slots, ConfirmCancel(c) PROVE PageInv'
BY ConfirmCancelMoves DEF ConfirmCancel, PageInv, IntakeTypeOK, PagesAreOpen

LEMMA UserAnswerPage ==
  ASSUME PageInv, NEW c \in Slots, UserAnswer(c) PROVE PageInv'
BY UserAnswerMoves DEF UserAnswer, PageInv, IntakeTypeOK

\* Steps of the manager between calls.
LEMMA MgrStepPage ==
  ASSUME PageInv, mgr' \in MgrType, mgr'.page = "detail" => mgr'.on \in Requests,
         UNCHANGED <<tables, call, user, mounts, desk, losses>>
  PROVE  PageInv'
BY DEF PageInv, IntakeTypeOK, CallsAreMade, PagesAreOpen

LEMMA MgrOpenMoves ==
  ASSUME NEW r \in Requests, MgrOpen(r)
  PROVE  mgr' \in MgrType /\ mgr'.on = r /\ ~mgr'.busy
<1> DEFINE s == MgrOffers(r)
           m == [NoRow EXCEPT !.page = "detail", !.on = r, !.shows = s]
<1>1. mgr' = m
  BY DEF MgrOpen
<1>2. s \in SUBSET MgrOps
  BY DEF MgrOffers, MgrOps
<1> HIDE DEF s
<1>3. NoRow \in MgrType /\ ~NoRow.busy
  BY DEF NoRow, MgrType
<1>4. m \in MgrType /\ m.on = r /\ ~m.busy
  BY <1>2, <1>3 DEF MgrType
<1> HIDE DEF m
<1> QED
  BY <1>1, <1>4

LEMMA MgrPollMoves ==
  ASSUME PageInv, MgrPoll
  PROVE  mgr' \in MgrType /\ mgr'.page = mgr.page /\ mgr'.on = mgr.on /\ mgr'.busy = mgr.busy
         /\ mgr'.calls = mgr.calls
<1> DEFINE s == MgrOffers(mgr.on)
           m == [mgr EXCEPT !.shows = s]
<1>1. mgr' = m /\ mgr \in MgrType
  BY DEF MgrPoll, PageInv, IntakeTypeOK
<1>2. s \in SUBSET MgrOps
  BY DEF MgrOffers, MgrOps
<1> HIDE DEF s
<1>3. m \in MgrType /\ m.page = mgr.page /\ m.on = mgr.on /\ m.busy = mgr.busy /\ m.calls = mgr.calls
  BY <1>1, <1>2 DEF MgrType
<1> HIDE DEF m
<1> QED
  BY <1>1, <1>3

LEMMA ModalMoves ==
  ASSUME PageInv, NEW op \in MgrOps \cup {None}, mgr' = [mgr EXCEPT !.modal = op]
  PROVE  mgr' \in MgrType /\ mgr'.page = mgr.page /\ mgr'.on = mgr.on /\ mgr'.busy = mgr.busy
         /\ mgr'.calls = mgr.calls
BY DEF PageInv, IntakeTypeOK, MgrType

LEMMA MgrOpenPage ==
  ASSUME PageInv, NEW r \in Opened, MgrOpen(r) PROVE PageInv'
BY MgrOpenMoves, MgrStepPage, PagesAssumption DEF MgrOpen

LEMMA MgrPollPage ==
  ASSUME PageInv, MgrPoll PROVE PageInv'
BY MgrPollMoves, MgrStepPage DEF MgrPoll, PageInv, PagesAreOpen

LEMMA OpenModalPage ==
  ASSUME PageInv, NEW op \in MgrOps, OpenModal(op) PROVE PageInv'
BY ModalMoves, MgrStepPage DEF OpenModal, PageInv, PagesAreOpen

LEMMA CloseModalPage ==
  ASSUME PageInv, CloseModal PROVE PageInv'
BY ModalMoves, MgrStepPage DEF CloseModal, PageInv, PagesAreOpen

LEMMA MgrActPage ==
  ASSUME PageInv, NEW c \in Slots, NEW op \in MgrOps, MgrAct(c, op) PROVE PageInv'
BY MgrActMoves DEF MgrAct, PageInv, IntakeTypeOK, PagesAreOpen

LEMMA MgrAnswerPage ==
  ASSUME PageInv, NEW c \in Slots, MgrAnswer(c) PROVE PageInv'
BY MgrAnswerMoves DEF MgrAnswer, PageInv, IntakeTypeOK, PagesAreOpen

\* Steps of the laboratory.
LEMMA DeskPollMoves ==
  ASSUME PageInv, DeskPoll
  PROVE  desk' \in DeskType /\ desk'.busy = desk.busy
<1> DEFINE s == DeskShows
           m == [desk EXCEPT !.shows = s]
<1>1. desk' = m /\ desk \in DeskType
  BY DEF DeskPoll, PageInv, IntakeTypeOK
<1>2. s \in SUBSET Wafers
  BY DEF DeskShows
<1> HIDE DEF s
<1>3. m \in DeskType /\ m.busy = desk.busy
  BY <1>1, <1>2 DEF DeskType
<1> HIDE DEF m
<1> QED
  BY <1>1, <1>3

LEMMA DeskPollPage ==
  ASSUME PageInv, DeskPoll PROVE PageInv'
BY DeskPollMoves DEF DeskPoll, PageInv, IntakeTypeOK, CallsAreMade, PagesAreOpen

LEMMA DeskActPage ==
  ASSUME PageInv, NEW c \in Slots, NEW op \in DeskOps, NEW w \in Wafers, DeskAct(c, op, w)
  PROVE  PageInv'
BY DeskActMoves DEF DeskAct, PageInv, IntakeTypeOK, PagesAreOpen

LEMMA BulkReceivePage ==
  ASSUME PageInv, BulkReceive PROVE PageInv'
BY BulkReceiveMoves DEF BulkReceive, PageInv, IntakeTypeOK, PagesAreOpen

LEMMA DeskAnswerPage ==
  ASSUME PageInv, NEW c \in Slots, DeskAnswer(c) PROVE PageInv'
BY DeskAnswerMoves DEF DeskAnswer, PageInv, IntakeTypeOK, PagesAreOpen

\* Steps of the server and the network.
\* A call being served writes a request, and perhaps a wafer of it.
LEMMA ServedRows ==
  ASSUME PageInv, NEW c \in Slots, Serving(c)
  PROVE  /\ call[c].op \in Ops \ {"draft"} /\ RequestAt(c) \in Requests
         /\ OnWafer(call[c].op) => call[c].on \in Wafers /\ RequestAt(c) = RequestOf[call[c].on]
         /\ ~OnWafer(call[c].op) => call[c].on \in Requests /\ RequestAt(c) = call[c].on
         /\ Touches(c) \subseteq Requests \cup Wafers
<1>1. call[c] \in CallType /\ Made(call[c]) /\ call[c].phase = "serving"
  BY DEF PageInv, IntakeTypeOK, CallsAreMade, Serving
<1>2. RequestOf \in [Wafers -> Requests]
  BY ServiceAssumption
<1>3. call[c].op \in Ops \ {"draft"}
  BY <1>1 DEF Made, Ops
<1>4. /\ OnWafer(call[c].op) => call[c].on \in Wafers
      /\ ~OnWafer(call[c].op) => call[c].on \in Requests
  BY <1>1, <1>3 DEF Made, OnWafer, DeskOps
<1> QED
  BY <1>2, <1>3, <1>4 DEF RequestAt, Touches

LEMMA BeginPage ==
  ASSUME PageInv, NEW c \in Slots, Begin(c), UNCHANGED <<pages, losses>> PROVE PageInv'
<1>1. Contested(c) \subseteq Requests \cup Wafers
  BY ServedRows DEF Contested
<1>2. raced' \subseteq Requests \cup Wafers /\ UNCHANGED <<request, wafer, receipts, submittedBy>>
  BY <1>1 DEF Begin, PageInv, IntakeTypeOK
<1> QED
  BY <1>2, BeginMoves DEF PageInv, IntakeTypeOK, PagesAreOpen

LEMMA CreateDraftPage ==
  ASSUME PageInv, NEW c \in Slots, NEW r \in Requests, CreateDraft(c, r), UNCHANGED <<pages, losses>>
  PROVE  PageInv'
BY CreateDraftMoves DEF CreateDraft, PageInv, IntakeTypeOK, PagesAreOpen, RequestStatuses

LEMMA CommitPage ==
  ASSUME PageInv, NEW c \in Slots, Commit(c), UNCHANGED <<pages, losses>> PROVE PageInv'
<1>1. IntakeTypeOK /\ PagesAreOpen /\ call[c] \in CallType /\ Made(call[c]) /\ call[c].phase = "serving"
  BY DEF PageInv, IntakeTypeOK, CallsAreMade, Commit, Serving
<1>2. call' \in [Slots -> CallType] /\ CallsAreMade'
  BY CommitMoves
<1>3. \A l : RequestAfter(call[c].op, l) \in RequestStatuses \cup {None}
  BY DEF RequestAfter, RequestStatuses
<1>4. request' \in [Requests -> RequestStatuses] /\ raced' = raced
  BY <1>1, <1>3 DEF Commit, IntakeTypeOK
<1>5. \A w \in Wafers : WaferAfter(call[c].op, call[c].on, w) \in WaferStatuses
  BY <1>1 DEF WaferAfter, IntakeTypeOK, WaferStatuses
<1>6. wafer' \in [Wafers -> WaferStatuses]
  BY <1>5 DEF Commit
<1>7. receipts' \in [Wafers -> Nat]
  BY <1>1 DEF Commit, IntakeTypeOK, Made, DeskOps
<1>8. submittedBy' \in [Requests -> Nat]
  BY <1>1 DEF Commit, IntakeTypeOK, CallType
<1> QED
  BY <1>1, <1>2, <1>4, <1>6, <1>7, <1>8 DEF PageInv, IntakeTypeOK, PagesAreOpen

LEMMA ProcessPage ==
  ASSUME PageInv, NEW r \in Requests, Process(r), UNCHANGED <<pages, losses>> PROVE PageInv'
BY DEF Process, PageInv, IntakeTypeOK, CallsAreMade, PagesAreOpen, RequestStatuses, WaferStatuses

LEMMA LosePage ==
  ASSUME PageInv, NEW c \in Slots, Lose(c) PROVE PageInv'
<1>1. losses' \in 0..MaxLosses
  BY PagesAssumption DEF Lose, PageInv, IntakeTypeOK
<1> QED
  BY <1>1, LoseMoves DEF Lose, PageInv, IntakeTypeOK, PagesAreOpen

LEMMA StutterPage ==
  ASSUME PageInv, UNCHANGED intakeVars PROVE PageInv'
BY DEF intakeVars, PageInv, IntakeTypeOK, CallsAreMade, PagesAreOpen

LEMMA StepPage == PageInv /\ [IntakeNext]_intakeVars => PageInv'
BY LeavePage, OpenFormPage, DraftPollFailsPage, OpenDetailPage, DetailPollPage, OpenCancelPage,
   PressPage, ConfirmCancelPage, UserAnswerPage, MgrOpenPage, MgrPollPage, OpenModalPage,
   CloseModalPage, MgrActPage, MgrAnswerPage, DeskPollPage, DeskActPage, BulkReceivePage,
   DeskAnswerPage, BeginPage, CreateDraftPage, CommitPage, ProcessPage, LosePage, StutterPage
   DEF IntakeNext, AuthorStep, OwnerStep, MgrStep, DeskStep, LabStep, ServerStep, Serve, Answer,
       MgrOps, DeskOps

\* The tables, the calls and the pages hold what the code writes there.
THEOREM IntakeTypeCorrect == IntakeSpec => []IntakeTypeOK
<1>1. IntakeSpec => []PageInv
  BY InitPages, StepPage, PTL DEF IntakeSpec
<1>2. PageInv => IntakeTypeOK
  BY DEF PageInv
<1> QED
  BY <1>1, <1>2, PTL

-----------------------------------------------------------------------------
(* The service: what a call that shares its rows with no other can rely on  *)

\* Two calls that are served at once and write a common row are remembered there.
RacesAreKnown ==
  \A c, d \in Slots : Serving(c) /\ Serving(d) /\ c # d => Touches(c) \cap Touches(d) \subseteq raced

\* What an endpoint checked, and what it read of the sibling wafers, still holds for the commit.
Stands(c) ==
  /\ Accepts(call[c].op, call[c].on)
  /\ call[c].last <=> IsLast(call[c].op, call[c].on)
GuardsHold == \A c \in Slots : Serving(c) /\ RequestAt(c) \notin raced => Stands(c)

\* A receipt being served is the first of its wafer: also when other calls meet it on the
\* request.
FirstReceipt ==
  \A c \in Slots : Serving(c) /\ call[c].op = "receive" /\ call[c].on \notin raced =>
    receipts[call[c].on] = 0

\* A wafer that waits to be received never was.
PendingIsNew == \A w \in Wafers : wafer[w] = "pending_receive" => receipts[w] = 0

ReceiptsInv == FirstReceipt /\ PendingIsNew /\ WaferArrivesOnce
CallsInv == RacesAreKnown /\ GuardsHold
ServiceInv == PageInv /\ CallsInv /\ ReceiptsInv /\ ArrivalNeedsARace

\* The calls being served go on, with what they loaded; perhaps some are served no more.
ServedStay(K) ==
  \A c \in Slots : Serving(c)' /\ c \notin K =>
    /\ Serving(c) /\ call'[c].op = call[c].op /\ call'[c].on = call[c].on
    /\ call'[c].last = call[c].last

\* The steps of the pages and of the network leave the tables and the call being served alone.
Quiet == UNCHANGED tables /\ ServedStay({})

LEMMA IdleIsNotServed == Idle.phase # "serving"
BY DEF Idle

LEMMA SentIsQuiet ==
  ASSUME NEW c \in Slots, UNCHANGED tables, call'[c].phase # "serving",
         \A d \in Slots \ {c} : call'[d] = call[d]
  PROVE  Quiet
BY DEF Quiet, ServedStay, Serving

LEMMA StepsOfTheService ==
  ASSUME PageInv, [IntakeNext]_intakeVars
  PROVE  \/ \E c \in Slots : Begin(c) \/ Commit(c) \/ \E r \in Requests : CreateDraft(c, r)
         \/ \E r \in Requests : Process(r)
         \/ Quiet
<1>1. ASSUME UNCHANGED <<tables, call>> PROVE Quiet
  BY <1>1 DEF Quiet, ServedStay, Serving
<1>2. ASSUME NEW c \in Slots, NEW publish \in BOOLEAN, Press(c, publish) PROVE Quiet
  BY <1>2, PressMoves, SentIsQuiet DEF Leaves, Becomes, Press
<1>3. ASSUME NEW c \in Slots, ConfirmCancel(c) PROVE Quiet
  BY <1>3, ConfirmCancelMoves, SentIsQuiet DEF Leaves, Becomes, ConfirmCancel
<1>4. ASSUME NEW c \in Slots, NEW op \in MgrOps, MgrAct(c, op) PROVE Quiet
  BY <1>4, MgrActMoves, SentIsQuiet DEF Leaves, Becomes, MgrAct
<1>5. ASSUME NEW c \in Slots, NEW op \in DeskOps, NEW w \in Wafers, DeskAct(c, op, w) PROVE Quiet
  BY <1>5, DeskActMoves, SentIsQuiet DEF Leaves, Becomes, DeskAct
<1>6. ASSUME BulkReceive PROVE Quiet
  BY <1>6, BulkReceiveMoves DEF Quiet, ServedStay, Serving, BulkReceive
<1>7. ASSUME NEW c \in Slots, UserAnswer(c) PROVE Quiet
  BY <1>7, UserAnswerMoves, SentIsQuiet, IdleIsNotServed DEF UserAnswer
<1>8. ASSUME NEW c \in Slots, MgrAnswer(c) PROVE Quiet
  BY <1>8, MgrAnswerMoves, SentIsQuiet, IdleIsNotServed DEF MgrAnswer, Becomes
<1>9. ASSUME NEW c \in Slots, DeskAnswer(c) PROVE Quiet
  BY <1>9, DeskAnswerMoves, IdleIsNotServed DEF DeskAnswer, Quiet, ServedStay, Serving
<1>10. ASSUME NEW c \in Slots, Lose(c) PROVE Quiet
  BY <1>10, LoseMoves, SentIsQuiet DEF Lose, GoesOn
<1>11. ASSUME Leave \/ DraftPollFails \/ DetailPoll \/ OpenCancel \/ MgrPoll \/ CloseModal \/ DeskPoll
       PROVE  UNCHANGED <<tables, call>>
  BY <1>11 DEF Leave, DraftPollFails, DetailPoll, OpenCancel, MgrPoll, CloseModal, DeskPoll
<1>12. ASSUME NEW r, OpenForm("new", r) \/ OpenForm("edit", r) \/ OpenDetail(r) \/ MgrOpen(r)
       PROVE  UNCHANGED <<tables, call>>
  BY <1>12 DEF OpenForm, OpenDetail, MgrOpen
<1>13. ASSUME NEW op, OpenModal(op) PROVE UNCHANGED <<tables, call>>
  BY <1>13 DEF OpenModal
<1>14. CASE UNCHANGED intakeVars
  BY <1>1, <1>14 DEF intakeVars
<1>15. CASE IntakeNext
  BY <1>1, <1>2, <1>3, <1>4, <1>5, <1>6, <1>7, <1>8, <1>9, <1>10, <1>11, <1>12, <1>13, <1>15
     DEF IntakeNext, AuthorStep, OwnerStep, MgrStep, DeskStep, LabStep, ServerStep, Serve, Answer,
         MgrOps, DeskOps
<1> QED
  BY <1>14, <1>15

\* A call whose request and wafers nothing wrote finds them as they were.
LEMMA RowsUntouched ==
  ASSUME PageInv, NEW c \in Slots, Serving(c), call'[c].op = call[c].op, call'[c].on = call[c].on,
         request'[RequestAt(c)] = request[RequestAt(c)],
         \A w \in WafersOf(RequestAt(c)) : wafer'[w] = wafer[w]
  PROVE  /\ Accepts(call[c].op, call[c].on)' <=> Accepts(call[c].op, call[c].on)
         /\ IsLast(call[c].op, call[c].on)' <=> IsLast(call[c].op, call[c].on)
<1>1. /\ call[c].op \in Ops \ {"draft"} /\ RequestAt(c) \in Requests
      /\ OnWafer(call[c].op) => call[c].on \in Wafers /\ RequestAt(c) = RequestOf[call[c].on]
      /\ ~OnWafer(call[c].op) => call[c].on \in Requests /\ RequestAt(c) = call[c].on
  BY ServedRows
<1>2. CASE OnWafer(call[c].op)
  <2>1. call[c].on \in WafersOf(RequestAt(c)) /\ Siblings(call[c].on) \subseteq WafersOf(RequestAt(c))
    BY <1>1, <1>2 DEF WafersOf, Siblings
  <2>2. IsLast(call[c].op, call[c].on)' <=> IsLast(call[c].op, call[c].on)
    BY <2>1 DEF IsLast, Siblings, WafersOf
  <2>3. Accepts(call[c].op, call[c].on)' <=> Accepts(call[c].op, call[c].on)
    BY <1>1, <1>2, <2>1 DEF Accepts, Receivable, ReasonGiven, OnWafer
  <2> QED
    BY <2>2, <2>3
<1>3. CASE ~OnWafer(call[c].op)
  <2>1. Accepts(call[c].op, call[c].on)' <=> Accepts(call[c].op, call[c].on)
    BY <1>1, <1>3
       DEF Accepts, AwaitsApproval, AllExperimentsComplete, WafersOf, OnWafer, Ops, FormOps, MgrOps,
           DeskOps
  <2> QED
    BY <1>3, <2>1 DEF IsLast, OnWafer
<1> QED
  BY <1>2, <1>3

\* When no call comes to be served, the meetings of those that are served are still known.
LEMMA RacesStayKnown ==
  ASSUME RacesAreKnown, ServedStay({}), raced' = raced PROVE RacesAreKnown'
BY DEF RacesAreKnown, ServedStay, Touches, RequestAt

LEMMA ReceiptsStay ==
  ASSUME ReceiptsInv, ServedStay({}), raced' = raced, receipts' = receipts,
         \A w \in Wafers : wafer'[w] = "pending_receive" => wafer[w] = "pending_receive"
  PROVE  ReceiptsInv'
BY DEF ReceiptsInv, FirstReceipt, PendingIsNew, WaferArrivesOnce, ServedStay

LEMMA QuietService ==
  ASSUME ServiceInv, Quiet
  PROVE  CallsInv' /\ ReceiptsInv' /\ ArrivalNeedsARace'
<1>1. UNCHANGED tables /\ ServedStay({}) /\ PageInv /\ RacesAreKnown /\ GuardsHold /\ ReceiptsInv
      /\ ArrivalNeedsARace
  BY DEF Quiet, ServiceInv, CallsInv
<1>2. RacesAreKnown' /\ ReceiptsInv'
  BY <1>1, RacesStayKnown, ReceiptsStay
<1>3. ArrivalNeedsARace'
  BY <1>1 DEF ArrivalNeedsARace, AllWafersReceived, PastReceipt, WafersOf
<1>4. GuardsHold'
  <2> SUFFICES ASSUME NEW c \in Slots, Serving(c)', RequestAt(c)' \notin raced'
               PROVE  Stands(c)'
    BY DEF GuardsHold
  <2>1. /\ Serving(c) /\ call'[c].op = call[c].op /\ call'[c].on = call[c].on
        /\ call'[c].last = call[c].last
    BY <1>1 DEF ServedStay
  <2>2. Stands(c)
    BY <1>1, <2>1 DEF GuardsHold, RequestAt
  <2> QED
    BY <1>1, <2>1, <2>2, RowsUntouched DEF Stands
<1> QED
  BY <1>2, <1>3, <1>4 DEF CallsInv

LEMMA BeginService ==
  ASSUME ServiceInv, NEW c \in Slots, Begin(c)
  PROVE  CallsInv' /\ ReceiptsInv' /\ ArrivalNeedsARace'
<1>1. /\ UNCHANGED <<request, wafer, receipts>>
      /\ PageInv /\ RacesAreKnown /\ GuardsHold /\ ReceiptsInv /\ ArrivalNeedsARace
  BY DEF Begin, ServiceInv, CallsInv
<1>2. /\ GoesOn(c) /\ call'[c].on = call[c].on
      /\ call'[c].phase = IF Accepts(call[c].op, call[c].on) THEN "serving" ELSE "answered"
      /\ Accepts(call[c].op, call[c].on) => call'[c].last = IsLast(call[c].op, call[c].on)
  BY <1>1, BeginMoves
<1>3. ServedStay({c}) /\ call'[c].op = call[c].op
  BY <1>2 DEF ServedStay, GoesOn, Serving
<1>4. raced \subseteq raced' /\ (Serving(c)' => Contested(c) \subseteq raced')
  BY <1>2 DEF Begin, Serving
<1>5. Serving(c)' => Accepts(call[c].op, call[c].on)
  BY <1>2 DEF Serving
<1>6. \A d \in Slots : Serving(d)' => Touches(d)' = Touches(d) /\ RequestAt(d)' = RequestAt(d)
  BY <1>2, <1>3 DEF ServedStay, Touches, RequestAt
<1>7. RacesAreKnown'
  <2> SUFFICES ASSUME NEW a \in Slots, NEW b \in Slots, Serving(a)', Serving(b)', a # b
               PROVE  Touches(a) \cap Touches(b) \subseteq raced'
    BY <1>6 DEF RacesAreKnown
  <2>1. CASE a = c
    BY <1>3, <1>4, <2>1 DEF ServedStay, Contested
  <2>2. CASE b = c
    BY <1>3, <1>4, <2>2 DEF ServedStay, Contested
  <2>3. CASE a # c /\ b # c
    BY <1>1, <1>3, <1>4, <2>3 DEF ServedStay, RacesAreKnown
  <2> QED
    BY <2>1, <2>2, <2>3
<1>8. GuardsHold'
  <2> SUFFICES ASSUME NEW d \in Slots, Serving(d)', RequestAt(d)' \notin raced'
               PROVE  Stands(d)'
    BY DEF GuardsHold
  <2>1. Accepts(call[d].op, call[d].on)' <=> Accepts(call[d].op, call[d].on)
    BY <1>1, <1>2, <1>3
       DEF ServedStay, Accepts, AwaitsApproval, AllExperimentsComplete, WafersOf, Receivable, ReasonGiven
  <2>2. IsLast(call[d].op, call[d].on)' <=> IsLast(call[d].op, call[d].on)
    BY <1>1, <1>2, <1>3 DEF ServedStay, IsLast, Siblings, WafersOf
  <2>3. CASE d = c
    BY <1>2, <1>5, <2>1, <2>2, <2>3 DEF Stands
  <2>4. CASE d # c
    <3>1. Stands(d)
      BY <1>1, <1>3, <1>4, <1>6, <2>4 DEF ServedStay, GuardsHold
    <3> QED
      BY <1>3, <2>1, <2>2, <2>4, <3>1 DEF ServedStay, Stands
  <2> QED
    BY <2>3, <2>4
<1>9. ReceiptsInv'
  <2>1. ASSUME Serving(c)', call[c].op = "receive" PROVE receipts[call[c].on] = 0
    <3>1. wafer[call[c].on] = "pending_receive"
      BY <1>5, <2>1 DEF Accepts, Receivable
    <3>2. call[c].on \in Wafers
      <4>1. Made(call[c]) /\ call[c].phase = "sent"
        BY <1>1 DEF Begin, PageInv, CallsAreMade
      <4> QED
        BY <2>1, <4>1 DEF Made, DeskOps
    <3> QED
      BY <1>1, <3>1, <3>2 DEF ReceiptsInv, PendingIsNew
  <2>2. FirstReceipt'
    BY <1>1, <1>2, <1>3, <1>4, <2>1 DEF ServedStay, ReceiptsInv, FirstReceipt
  <2> QED
    BY <1>1, <1>4, <2>2 DEF ReceiptsInv, PendingIsNew, WaferArrivesOnce
<1>10. ArrivalNeedsARace'
  BY <1>1, <1>4 DEF ArrivalNeedsARace, AllWafersReceived, PastReceipt, WafersOf
<1> QED
  BY <1>7, <1>8, <1>9, <1>10 DEF CallsInv

LEMMA CreateDraftService ==
  ASSUME ServiceInv, NEW c \in Slots, NEW r \in Requests, CreateDraft(c, r)
  PROVE  CallsInv' /\ ReceiptsInv' /\ ArrivalNeedsARace'
<1>1. /\ request[r] = "absent" /\ request' = [request EXCEPT ![r] = "draft"]
      /\ UNCHANGED <<wafer, receipts, submittedBy, raced>>
      /\ request \in [Requests -> RequestStatuses]
      /\ PageInv /\ RacesAreKnown /\ GuardsHold /\ ReceiptsInv /\ ArrivalNeedsARace
  BY DEF CreateDraft, ServiceInv, CallsInv, PageInv, IntakeTypeOK
<1>2. /\ request'[r] = "draft" /\ \A s \in Requests \ {r} : request'[s] = request[s]
  BY <1>1
<1>3. GoesOn(c) /\ call'[c].phase = "answered"
  BY <1>1, CreateDraftMoves
<1>4. \A d \in Slots : Serving(d)' => Serving(d) /\ call'[d] = call[d]
  BY <1>3 DEF GoesOn, Serving
<1>5. ServedStay({})
  BY <1>4 DEF ServedStay
<1>6. RacesAreKnown' /\ ReceiptsInv'
  BY <1>1, <1>5, RacesStayKnown, ReceiptsStay
<1>7. ArrivalNeedsARace'
  BY <1>1, <1>2 DEF ArrivalNeedsARace, AllWafersReceived, PastReceipt, WafersOf
<1>8. GuardsHold'
  <2> SUFFICES ASSUME NEW d \in Slots, Serving(d)', RequestAt(d)' \notin raced'
               PROVE  Stands(d)'
    BY DEF GuardsHold
  <2>1. Serving(d) /\ call'[d] = call[d] /\ Stands(d)
    BY <1>1, <1>4 DEF GuardsHold, RequestAt
  <2>2. CASE RequestAt(d) # r
    <3>1. request'[RequestAt(d)] = request[RequestAt(d)]
      BY <1>1, <1>2, <2>1, <2>2, ServedRows
    <3> QED
      BY <1>1, <2>1, <3>1, RowsUntouched DEF Stands
  <2>3. CASE RequestAt(d) = r
    <3>1. /\ call[d].op \in Ops \ {"draft"}
          /\ OnWafer(call[d].op) => request[RequestOf[call[d].on]] = "absent"
          /\ ~OnWafer(call[d].op) => call[d].on = r
      BY <1>1, <2>1, <2>3, ServedRows
    <3>2. call[d].op \in {"cancel", "close"} /\ call[d].on = r
      BY <1>1, <2>1, <3>1
         DEF Stands, Accepts, AwaitsApproval, Receivable, ReasonGiven, OnWafer, Ops, FormOps, MgrOps,
             DeskOps
    <3>3. request'[r] \notin Terminal /\ (AllExperimentsComplete(r)' <=> AllExperimentsComplete(r))
      BY <1>1, <1>2 DEF Terminal, AllExperimentsComplete, WafersOf
    <3>4. CASE call[d].op = "cancel"
      BY <2>1, <3>2, <3>3, <3>4 DEF Stands, Accepts, IsLast, Terminal
    <3>5. CASE call[d].op = "close"
      <4>1. AllExperimentsComplete(r)
        BY <2>1, <3>2, <3>5 DEF Stands, Accepts
      <4> QED
        BY <2>1, <3>2, <3>3, <3>5, <4>1 DEF Stands, Accepts, IsLast, Terminal
    <3> QED
      BY <3>2, <3>4, <3>5
  <2> QED
    BY <2>2, <2>3
<1> QED
  BY <1>6, <1>7, <1>8 DEF CallsInv

\* What a commit writes and what it leaves, whoever it meets.
LEMMA CommitWrites ==
  ASSUME PageInv, NEW c \in Slots, Commit(c)
  PROVE  LET op == call[c].op on == call[c].on IN
         /\ Serving(c) /\ RequestAt(c) \in Requests /\ raced' = raced
         /\ \A s \in Requests \ {RequestAt(c)} : request'[s] = request[s]
         /\ \A w \in Wafers \ WafersOf(RequestAt(c)) : wafer'[w] = wafer[w]
         /\ \A w \in Wafers : wafer'[w] = "pending_receive" =>
              wafer[w] = "pending_receive" /\ ~(op = "receive" /\ w = on)
         /\ \A w \in Wafers : wafer'[w] = "received" =>
              wafer[w] = "received" \/ (op = "receive" /\ w = on)
         /\ \A w \in Wafers :
              receipts'[w] = IF op = "receive" /\ w = on THEN receipts[w] + 1 ELSE receipts[w]
         /\ ServedStay({c}) /\ ~Serving(c)'
<1> DEFINE op == call[c].op
           on == call[c].on
           r == RequestAt(c)
<1>1. /\ Serving(c) /\ raced' = raced
      /\ wafer' = [w \in Wafers |-> WaferAfter(op, on, w)]
      /\ receipts' = IF op = "receive" THEN [receipts EXCEPT ![on] = @ + 1] ELSE receipts
      /\ \E l : request' = IF l = None THEN request ELSE [request EXCEPT ![r] = l]
  BY DEF Commit
<1>2. /\ r \in Requests /\ (OnWafer(op) => on \in Wafers /\ r = RequestOf[on])
      /\ ~OnWafer(op) => r = on
  BY <1>1, ServedRows
<1>3. request \in [Requests -> RequestStatuses] /\ receipts \in [Wafers -> Nat]
  BY DEF PageInv, IntakeTypeOK
<1>4. \A s \in Requests \ {r} : request'[s] = request[s]
  BY <1>1, <1>3
<1>5. OnWafer(op) => on \in WafersOf(r)
  BY <1>2 DEF WafersOf
<1>6. \A w \in Wafers : wafer'[w] = WaferAfter(op, on, w)
  BY <1>1
<1>7. ASSUME NEW w \in Wafers
      PROVE  /\ w \notin WafersOf(r) => WaferAfter(op, on, w) = wafer[w]
             /\ WaferAfter(op, on, w) = "pending_receive" =>
                  wafer[w] = "pending_receive" /\ ~(op = "receive" /\ w = on)
             /\ WaferAfter(op, on, w) = "received" =>
                  wafer[w] = "received" \/ (op = "receive" /\ w = on)
  BY <1>2, <1>5 DEF WaferAfter, OnWafer
<1>8. \A w \in Wafers :
        receipts'[w] = IF op = "receive" /\ w = on THEN receipts[w] + 1 ELSE receipts[w]
  BY <1>1, <1>3
<1>9. ServedStay({c}) /\ ~Serving(c)'
  BY CommitMoves DEF GoesOn, ServedStay, Serving
<1> QED
  BY <1>1, <1>2, <1>4, <1>6, <1>7, <1>8, <1>9

\* A commit that no other call met: its request, before and after.
LEMMA CommitAdvances ==
  ASSUME PageInv, GuardsHold, NEW c \in Slots, Commit(c), RequestAt(c) \notin raced
  PROVE  LET op == call[c].op
             on == call[c].on
             r == RequestAt(c) IN
         \/ op \in {"update", "more_info"} /\ request'[r] = request[r]
         \/ op = "submit" /\ request[r] = "draft" /\ request'[r] = "waiting_approval"
         \/ op = "approve" /\ request[r] = "waiting_approval"
            /\ request'[r] = "waiting_sample_receive"
         \/ op = "reject" /\ request[r] = "waiting_approval" /\ request'[r] = "rejected"
         \/ op = "cancel" /\ request[r] \notin Terminal /\ request'[r] = "cancelled"
         \/ op = "close" /\ request[r] \notin Terminal /\ request'[r] = "closed"
         \/ /\ op = "receive" /\ request[r] = "waiting_sample_receive"
            /\ on \in Wafers /\ r = RequestOf[on]
            /\ request'[r] = IF \A w \in Siblings(on) : wafer[w] = "received"
                               THEN "received" ELSE request[r]
<1> DEFINE op == call[c].op
           on == call[c].on
           r == RequestAt(c)
           l == IsLast(op, on)
<1>1. Serving(c)
  BY DEF Commit
<1>2. Accepts(op, on) /\ (call[c].last <=> l)
  BY <1>1 DEF GuardsHold, Stands
<1>3. call[c].last \in BOOLEAN /\ request \in [Requests -> RequestStatuses]
  BY DEF PageInv, IntakeTypeOK, CallType
<1>4. l \in BOOLEAN
  BY DEF IsLast
<1>5. l = call[c].last
  BY <1>2, <1>3, <1>4
<1>6. request' = IF RequestAfter(op, l) = None THEN request
                 ELSE [request EXCEPT ![r] = RequestAfter(op, l)]
  BY <1>5 DEF Commit
<1>7. /\ r \in Requests /\ op \in Ops \ {"draft"}
      /\ OnWafer(op) => on \in Wafers /\ r = RequestOf[on]
      /\ ~OnWafer(op) => r = on
  BY <1>1, ServedRows
<1>8. request'[r] = IF RequestAfter(op, l) = None THEN request[r] ELSE RequestAfter(op, l)
  BY <1>3, <1>6, <1>7
<1>9. op = "receive" => (l <=> \A w \in Siblings(on) : wafer[w] = "received")
  BY DEF IsLast
<1>10. /\ op \in {"update", "submit", "cancel", "approve", "reject", "more_info", "close", "receive"}
       /\ op \in {"update", "submit"} => request[r] = "draft"
       /\ op \in {"approve", "reject", "more_info"} => request[r] = "waiting_approval"
       /\ op \in {"cancel", "close"} => request[r] \notin Terminal
       /\ op = "receive" => request[r] = "waiting_sample_receive"
  BY <1>2, <1>7
     DEF Accepts, AwaitsApproval, Receivable, ReasonGiven, OnWafer, Ops, FormOps, MgrOps, DeskOps
<1>11. /\ op = "update" => RequestAfter(op, l) = "draft"
       /\ op = "submit" => RequestAfter(op, l) = "waiting_approval"
       /\ op = "approve" => RequestAfter(op, l) = "waiting_sample_receive"
       /\ op = "reject" => RequestAfter(op, l) = "rejected"
       /\ op = "cancel" => RequestAfter(op, l) = "cancelled"
       /\ op = "close" => RequestAfter(op, l) = "closed"
       /\ op = "more_info" => RequestAfter(op, l) = None
       /\ op = "receive" => RequestAfter(op, l) = IF l THEN "received" ELSE None
  BY DEF RequestAfter
<1>12. /\ None \notin RequestStatuses
       /\ {"draft", "waiting_approval", "waiting_sample_receive", "rejected", "cancelled", "closed",
           "received"} \subseteq RequestStatuses
  BY ServiceAssumption DEF RequestStatuses
<1> HIDE DEF l, r, op, on
<1>13. \/ op \in {"update", "more_info"} /\ request'[r] = request[r]
       \/ op = "submit" /\ request[r] = "draft" /\ request'[r] = "waiting_approval"
       \/ op = "approve" /\ request[r] = "waiting_approval"
          /\ request'[r] = "waiting_sample_receive"
       \/ op = "reject" /\ request[r] = "waiting_approval" /\ request'[r] = "rejected"
       \/ op = "cancel" /\ request[r] \notin Terminal /\ request'[r] = "cancelled"
       \/ op = "close" /\ request[r] \notin Terminal /\ request'[r] = "closed"
       \/ /\ op = "receive" /\ request[r] = "waiting_sample_receive"
          /\ request'[r] = IF l THEN "received" ELSE request[r]
  BY <1>8, <1>10, <1>11, <1>12
<1> QED
  BY <1>7, <1>9, <1>13 DEF OnWafer, l, r, op, on

LEMMA CommitService ==
  ASSUME ServiceInv, NEW c \in Slots, Commit(c)
  PROVE  CallsInv' /\ ReceiptsInv' /\ ArrivalNeedsARace'
<1> DEFINE op == call[c].op
           on == call[c].on
           r == RequestAt(c)
<1>1. PageInv /\ RacesAreKnown /\ GuardsHold /\ FirstReceipt /\ PendingIsNew /\ WaferArrivesOnce
      /\ ArrivalNeedsARace
  BY DEF ServiceInv, CallsInv, ReceiptsInv
<1>2. /\ Serving(c) /\ r \in Requests /\ raced' = raced
      /\ \A s \in Requests \ {r} : request'[s] = request[s]
      /\ \A w \in Wafers \ WafersOf(r) : wafer'[w] = wafer[w]
      /\ \A w \in Wafers : wafer'[w] = "pending_receive" =>
           wafer[w] = "pending_receive" /\ ~(op = "receive" /\ w = on)
      /\ \A w \in Wafers : wafer'[w] = "received" =>
           wafer[w] = "received" \/ (op = "receive" /\ w = on)
      /\ \A w \in Wafers :
           receipts'[w] = IF op = "receive" /\ w = on THEN receipts[w] + 1 ELSE receipts[w]
      /\ ServedStay({c}) /\ ~Serving(c)'
  BY <1>1, CommitWrites
<1>3. ServedStay({})
  BY <1>2 DEF ServedStay
<1>4. RacesAreKnown'
  BY <1>1, <1>2, <1>3, RacesStayKnown
<1>5. GuardsHold'
  <2> SUFFICES ASSUME NEW d \in Slots, Serving(d)', RequestAt(d)' \notin raced'
               PROVE  Stands(d)'
    BY DEF GuardsHold
  <2>1. /\ d # c /\ Serving(d) /\ call'[d].op = call[d].op /\ call'[d].on = call[d].on
        /\ call'[d].last = call[d].last
    BY <1>2, <1>3 DEF ServedStay
  <2>2. RequestAt(d) \notin raced /\ Stands(d)
    BY <1>1, <1>2, <2>1 DEF GuardsHold, RequestAt
  <2>3. RequestAt(d) # r
    BY <1>1, <1>2, <2>1, <2>2 DEF RacesAreKnown, Touches
  <2>4. RequestAt(d) \in Requests
    BY <1>1, <2>1, ServedRows
  <2>5. \A w \in WafersOf(RequestAt(d)) : w \in Wafers \ WafersOf(r)
    BY <2>3 DEF WafersOf
  <2>6. /\ request'[RequestAt(d)] = request[RequestAt(d)]
        /\ \A w \in WafersOf(RequestAt(d)) : wafer'[w] = wafer[w]
    BY <1>2, <2>3, <2>4, <2>5
  <2> QED
    BY <1>1, <2>1, <2>2, <2>6, RowsUntouched DEF Stands
<1>6. op = "receive" => on \in Wafers /\ r = RequestOf[on]
  BY <1>1, <1>2, ServedRows DEF OnWafer
<1>7. receipts \in [Wafers -> Nat]
  BY <1>1 DEF PageInv, IntakeTypeOK
<1>8. PendingIsNew'
  BY <1>1, <1>2 DEF PendingIsNew
<1>9. WaferArrivesOnce'
  <2> SUFFICES ASSUME NEW w \in Wafers, w \notin raced PROVE receipts'[w] <= 1
    BY <1>2 DEF WaferArrivesOnce
  <2>1. CASE op = "receive" /\ w = on
    <3>1. receipts[w] = 0
      BY <1>1, <1>2, <2>1 DEF FirstReceipt
    <3> QED
      BY <1>2, <2>1, <3>1
  <2>2. CASE ~(op = "receive" /\ w = on)
    BY <1>1, <1>2, <2>2 DEF WaferArrivesOnce
  <2> QED
    BY <2>1, <2>2
<1>10. FirstReceipt'
  <2> SUFFICES ASSUME NEW d \in Slots, Serving(d)', call'[d].op = "receive",
                      call'[d].on \notin raced
               PROVE  receipts'[call'[d].on] = 0
    BY <1>2 DEF FirstReceipt
  <2>1. d # c /\ Serving(d) /\ call'[d].op = call[d].op /\ call'[d].on = call[d].on
    BY <1>2, <1>3 DEF ServedStay
  <2>2. call[d].on \in Wafers /\ receipts[call[d].on] = 0
    BY <1>1, <2>1, ServedRows DEF FirstReceipt, OnWafer
  <2>3. call[d].on # on
    BY <1>1, <1>2, <2>1 DEF RacesAreKnown, Touches
  <2> QED
    BY <1>2, <2>1, <2>2, <2>3
<1>11. ArrivalNeedsARace'
  <2> SUFFICES ASSUME NEW s \in Requests, s \notin raced, WafersOf(s) # {},
                      \A w \in WafersOf(s) : wafer'[w] = "received"
               PROVE  PastReceipt(s)'
    BY <1>2 DEF ArrivalNeedsARace, AllWafersReceived, WafersOf
  <2>1. \A w \in WafersOf(s) : w \in Wafers /\ RequestOf[w] = s
    BY DEF WafersOf
  <2>2. \A w \in WafersOf(s) : wafer[w] = "received" \/ (op = "receive" /\ w = on)
    BY <1>2, <2>1
  <2>3. CASE s # r
    <3>1. \A w \in WafersOf(s) : wafer[w] = "received"
      BY <1>6, <2>1, <2>2, <2>3
    <3>2. PastReceipt(s)
      BY <1>1, <3>1 DEF ArrivalNeedsARace, AllWafersReceived
    <3> QED
      BY <1>2, <2>3, <3>2 DEF PastReceipt
  <2>4. CASE s = r /\ op = "receive"
    <3>1. on \in Wafers /\ r = RequestOf[on]
      BY <1>6, <2>4
    <3>2. Siblings(on) = WafersOf(s) \ {on}
      BY <2>4, <3>1 DEF Siblings
    <3>3. \A w \in Siblings(on) : wafer[w] = "received"
      BY <2>2, <3>2
    <3>4. request'[r] = "received"
      BY <1>1, <2>4, <3>3, CommitAdvances
    <3> QED
      BY <2>4, <3>4 DEF PastReceipt
  <2>5. CASE s = r /\ op # "receive"
    <3>1. PastReceipt(s)
      BY <1>1, <2>2, <2>5 DEF ArrivalNeedsARace, AllWafersReceived
    <3>2. \/ request'[r] = request[r] \/ request'[r] \in Terminal
          \/ request[r] \in {"draft", "waiting_approval"}
      BY <1>1, <2>5, CommitAdvances DEF Terminal
    <3> QED
      BY <2>5, <3>1, <3>2 DEF PastReceipt, Terminal
  <2> QED
    BY <2>3, <2>4, <2>5
<1> QED
  BY <1>4, <1>5, <1>8, <1>9, <1>10, <1>11 DEF CallsInv, ReceiptsInv

LEMMA ProcessService ==
  ASSUME ServiceInv, NEW r \in Requests, Process(r)
  PROVE  CallsInv' /\ ReceiptsInv' /\ ArrivalNeedsARace'
<1>1. /\ request[r] = "received" /\ request' = [request EXCEPT ![r] = "final_check"]
      /\ UNCHANGED <<receipts, raced, call>> /\ request \in [Requests -> RequestStatuses]
      /\ PageInv /\ RacesAreKnown /\ GuardsHold /\ ReceiptsInv /\ ArrivalNeedsARace
  BY DEF Process, ServiceInv, CallsInv, PageInv, IntakeTypeOK
<1>2. request'[r] = "final_check" /\ \A s \in Requests \ {r} : request'[s] = request[s]
  BY <1>1
<1>3. \A w \in Wafers : wafer'[w] = IF w \in WafersOf(r) /\ wafer[w] = "received"
                                     THEN "completed" ELSE wafer[w]
  BY DEF Process
<1>4. ServedStay({})
  BY <1>1 DEF ServedStay, Serving
<1>5. RacesAreKnown' /\ ReceiptsInv'
  BY <1>1, <1>3, <1>4, RacesStayKnown, ReceiptsStay
<1>6. GuardsHold'
  <2> SUFFICES ASSUME NEW d \in Slots, Serving(d)', RequestAt(d)' \notin raced'
               PROVE  Stands(d)'
    BY DEF GuardsHold
  <2>1. Serving(d) /\ call'[d] = call[d] /\ Stands(d)
    BY <1>1 DEF GuardsHold, RequestAt, Serving
  <2>2. CASE RequestAt(d) # r
    <3>1. \A w \in WafersOf(RequestAt(d)) : w \in Wafers \ WafersOf(r)
      BY <2>2 DEF WafersOf
    <3>2. /\ request'[RequestAt(d)] = request[RequestAt(d)]
          /\ \A w \in WafersOf(RequestAt(d)) : wafer'[w] = wafer[w]
      BY <1>1, <1>2, <1>3, <2>1, <2>2, <3>1, ServedRows
    <3> QED
      BY <1>1, <2>1, <3>2, RowsUntouched DEF Stands
  <2>3. CASE RequestAt(d) = r
    <3>1. /\ call[d].op \in Ops \ {"draft"}
          /\ OnWafer(call[d].op) => request[RequestOf[call[d].on]] = "received"
          /\ ~OnWafer(call[d].op) => call[d].on = r
      BY <1>1, <2>1, <2>3, ServedRows
    <3>2. call[d].op \in {"cancel", "close"} /\ call[d].on = r
      BY <1>1, <2>1, <3>1
         DEF Stands, Accepts, AwaitsApproval, Receivable, ReasonGiven, OnWafer, Ops, FormOps, MgrOps,
             DeskOps
    <3>3. request'[r] \notin Terminal /\ (AllExperimentsComplete(r) => AllExperimentsComplete(r)')
      BY <1>2, <1>3 DEF Terminal, AllExperimentsComplete, WafersOf
    <3>4. CASE call[d].op = "cancel"
      BY <2>1, <3>2, <3>3, <3>4 DEF Stands, Accepts, IsLast, Terminal
    <3>5. CASE call[d].op = "close"
      <4>1. AllExperimentsComplete(r)
        BY <2>1, <3>2, <3>5 DEF Stands, Accepts
      <4> QED
        BY <2>1, <3>2, <3>3, <3>5, <4>1 DEF Stands, Accepts, IsLast, Terminal
    <3> QED
      BY <3>2, <3>4, <3>5
  <2> QED
    BY <2>2, <2>3
<1>7. ArrivalNeedsARace'
  <2> SUFFICES ASSUME NEW s \in Requests, s \notin raced, WafersOf(s) # {},
                      \A w \in WafersOf(s) : wafer'[w] = "received"
               PROVE  PastReceipt(s)'
    BY <1>1 DEF ArrivalNeedsARace, AllWafersReceived, WafersOf
  <2>1. \A w \in WafersOf(s) : wafer[w] = "received"
    BY <1>3 DEF WafersOf
  <2>2. PastReceipt(s)
    BY <1>1, <2>1 DEF ArrivalNeedsARace, AllWafersReceived
  <2> QED
    BY <1>2, <2>2 DEF PastReceipt
<1> QED
  BY <1>5, <1>6, <1>7 DEF CallsInv

LEMMA InitService == IntakeInit => ServiceInv
<1> SUFFICES ASSUME IntakeInit PROVE ServiceInv
  OBVIOUS
<1>1. \A c \in Slots : ~Serving(c)
  BY IdleIsNotServed DEF IntakeInit, ServiceInit, Serving
<1>2. \A w \in Wafers : wafer[w] = "pending_receive" /\ receipts[w] = 0
  BY DEF IntakeInit, ServiceInit
<1>3. CallsInv
  BY <1>1 DEF CallsInv, RacesAreKnown, GuardsHold
<1>4. ReceiptsInv
  BY <1>1, <1>2 DEF ReceiptsInv, FirstReceipt, PendingIsNew, WaferArrivesOnce
<1>5. ArrivalNeedsARace
  BY <1>2 DEF ArrivalNeedsARace, AllWafersReceived, WafersOf
<1> QED
  BY <1>3, <1>4, <1>5, InitPages DEF ServiceInv

LEMMA StepService == ServiceInv /\ [IntakeNext]_intakeVars => ServiceInv'
<1> SUFFICES ASSUME ServiceInv, [IntakeNext]_intakeVars PROVE ServiceInv'
  OBVIOUS
<1>1. PageInv /\ PageInv'
  BY StepPage DEF ServiceInv
<1>2. CallsInv' /\ ReceiptsInv' /\ ArrivalNeedsARace'
  BY <1>1, StepsOfTheService, QuietService, BeginService, CommitService, CreateDraftService,
     ProcessService
<1> QED
  BY <1>1, <1>2 DEF ServiceInv

LEMMA ServiceIsInvariant == IntakeSpec => []ServiceInv
BY InitService, StepService, PTL DEF IntakeSpec

\* Whatever overlaps, a wafer arrives once, unless two calls that write its row were served at
\* once: receive_sample looks at a row that nobody locks, and a receipt of a sibling, or a
\* cancellation under it, leaves that row's count alone.
THEOREM WafersArriveOnce == IntakeSpec => []WaferArrivesOnce
<1>1. ServiceInv => WaferArrivesOnce
  BY DEF ServiceInv, ReceiptsInv
<1> QED
  BY <1>1, ServiceIsInvariant, PTL

\* The last of a request's wafers takes its request along, unless calls that write the request
\* were served at once: what receive_sample reads of the siblings is then what they are when
\* it commits, whatever happens to other requests.
THEOREM RequestsArriveWithTheirWafers == IntakeSpec => []ArrivalNeedsARace
<1>1. ServiceInv => ArrivalNeedsARace
  BY DEF ServiceInv
<1> QED
  BY <1>1, ServiceIsInvariant, PTL

LEMMA StepAdvances ==
  ASSUME ServiceInv, [IntakeNext]_intakeVars, NEW r \in Requests \ raced,
         request'[r] # request[r]
  PROVE  Stage(request[r]) < Stage(request'[r])
<1>0. /\ PageInv /\ GuardsHold
      /\ request[r] \in RequestStatuses /\ request \in [Requests -> RequestStatuses]
  BY DEF ServiceInv, CallsInv, PageInv, IntakeTypeOK
<1>1. ASSUME NEW c \in Slots, Begin(c) PROVE FALSE
  BY <1>1 DEF Begin
<1>2. ASSUME NEW c \in Slots, NEW s \in Requests, CreateDraft(c, s)
      PROVE  Stage(request[r]) < Stage(request'[r])
  BY <1>0, <1>2 DEF CreateDraft, Stage
<1>3. ASSUME NEW s \in Requests, Process(s) PROVE Stage(request[r]) < Stage(request'[r])
  BY <1>0, <1>3 DEF Process, Stage
<1>4. ASSUME NEW c \in Slots, Commit(c) PROVE Stage(request[r]) < Stage(request'[r])
  <2>0. \A s \in Requests \ {RequestAt(c)} : request'[s] = request[s]
    BY <1>0, <1>4, CommitWrites
  <2>1. RequestAt(c) = r
    BY <2>0
  <2>2. \/ request[r] = "draft" /\ request'[r] = "waiting_approval"
        \/ request[r] = "waiting_approval" /\ request'[r] \in {"waiting_sample_receive", "rejected"}
        \/ request[r] \notin Terminal /\ request'[r] \in Terminal
        \/ request[r] = "waiting_sample_receive" /\ request'[r] = "received"
    BY <1>0, <1>4, <2>1, CommitAdvances DEF Terminal
  <2> QED
    BY <1>0, <2>2 DEF Stage, Terminal, RequestStatuses
<1>5. ASSUME Quiet PROVE FALSE
  BY <1>5 DEF Quiet
<1>6. \/ \E c \in Slots : Begin(c) \/ Commit(c) \/ \E s \in Requests : CreateDraft(c, s)
      \/ \E s \in Requests : Process(s)
      \/ Quiet
  BY <1>0, StepsOfTheService
<1> QED
  BY <1>1, <1>2, <1>3, <1>4, <1>5, <1>6

\* A request on which no two calls were served at once only advances, whatever is served at the
\* same time on others: the handlers' guards suffice against every old page and every press
\* that comes late, and only a save over another's save takes a request back.
THEOREM RequestsOnlyAdvance == IntakeSpec => RequestOnlyAdvances
<1>1. ServiceInv /\ [IntakeNext]_intakeVars =>
        [\A r \in Requests \ raced : request'[r] # request[r] =>
           Stage(request[r]) < Stage(request'[r])]_intakeVars
  BY StepAdvances
<1> QED
  BY <1>1, ServiceIsInvariant, PTL DEF IntakeSpec, RequestOnlyAdvances

-----------------------------------------------------------------------------
(* Busy pages                                                              *)

UserWaits == user.busy => \E c \in Slots : call[c].phase # "idle" /\ StillMounted(c)
MgrWaits == mgr.busy => \E c \in mgr.calls : call[c].phase # "idle" /\ call[c].from = "mgr"
DeskWaits == \A w \in desk.busy : \E c \in Slots : call[c].phase # "idle" /\ w \in call[c].group

Waits == UserWaits /\ MgrWaits /\ DeskWaits

\* A call under way stays under way, for the page that sent it and for the same wafers.
Kept(d) ==
  call[d].phase # "idle" =>
    /\ call'[d].phase # "idle" /\ call'[d].from = call[d].from
    /\ call'[d].mount = call[d].mount /\ call'[d].group = call[d].group

LEMMA UserGoesOnWaiting ==
  ASSUME UserWaits, user'.busy => user.busy, user'.page = user.page, user'.mount = user.mount,
         \A d \in Slots : StillMounted(d) => Kept(d)
  PROVE  UserWaits'
BY DEF UserWaits, StillMounted, Kept

LEMMA MgrGoesOnWaiting ==
  ASSUME PageInv, MgrWaits, mgr'.busy = mgr.busy, mgr'.calls = mgr.calls,
         \A d \in Slots : call[d].from = "mgr" => Kept(d)
  PROVE  MgrWaits'
<1>1. mgr.calls \subseteq Slots
  BY DEF PageInv, IntakeTypeOK, MgrType
<1> QED
  BY <1>1 DEF MgrWaits, Kept

LEMMA DeskGoesOnWaiting ==
  ASSUME DeskWaits, desk'.busy = desk.busy, \A d \in Slots : call[d].group # {} => Kept(d)
  PROVE  DeskWaits'
BY DEF DeskWaits, Kept

LEMMA CallsGoOn ==
  ASSUME NEW c \in Slots, GoesOn(c) PROVE \A d \in Slots : Kept(d)
BY DEF GoesOn, Kept

LEMMA CallsLeave ==
  ASSUME NEW c \in Slots, NEW k, Leaves(c, k) PROVE \A d \in Slots : Kept(d)
BY DEF Leaves, Becomes, Kept

\* Steps that leave the calls alone.
LEMMA StillWaits ==
  ASSUME PageInv, Waits, call' = call, ~user'.busy \/ UNCHANGED <<user>> \/ DetailPoll,
         ~mgr'.busy \/ (mgr'.busy = mgr.busy /\ mgr'.calls = mgr.calls), desk'.busy = desk.busy
  PROVE  Waits'
<1>1. \A d \in Slots : Kept(d)
  BY DEF Kept
<1>2. UserWaits'
  <2>1. CASE ~user'.busy
    BY <2>1 DEF UserWaits
  <2>2. CASE user' = user
    BY <1>1, <2>2, UserGoesOnWaiting DEF Waits
  <2>3. CASE DetailPoll
    BY <1>1, <2>3, DetailPollMoves, UserGoesOnWaiting DEF Waits
  <2> QED
    BY <2>1, <2>2, <2>3
<1>3. MgrWaits'
  <2>1. CASE ~mgr'.busy
    BY <2>1 DEF MgrWaits
  <2>2. CASE mgr'.busy = mgr.busy /\ mgr'.calls = mgr.calls
    BY <1>1, <2>2, MgrGoesOnWaiting DEF Waits
  <2> QED
    BY <2>1, <2>2
<1>4. DeskWaits'
  BY <1>1, DeskGoesOnWaiting DEF Waits
<1> QED
  BY <1>2, <1>3, <1>4 DEF Waits

LEMMA GoingOnWaits ==
  ASSUME PageInv, Waits, NEW c \in Slots, GoesOn(c), UNCHANGED pages
  PROVE  Waits'
<1>1. \A d \in Slots : Kept(d)
  BY CallsGoOn
<1> QED
  BY <1>1, UserGoesOnWaiting, MgrGoesOnWaiting, DeskGoesOnWaiting DEF Waits

\* A button of the requester is pressed.
LEMMA UserSendWaits ==
  ASSUME PageInv, Waits, NEW c \in Slots, Leaves(c, call'[c]),
         call'[c].from = user.page, call'[c].mount = user.mount,
         user'.page = user.page, user'.mount = user.mount, UNCHANGED <<mgr, desk>>
  PROVE  Waits'
<1>1. \A d \in Slots : Kept(d)
  BY CallsLeave
<1>2. UserWaits'
  BY DEF UserWaits, StillMounted, Leaves
<1> QED
  BY <1>1, <1>2, MgrGoesOnWaiting, DeskGoesOnWaiting DEF Waits

LEMMA MgrActWaits ==
  ASSUME PageInv, Waits, NEW c \in Slots, NEW op \in MgrOps, MgrAct(c, op) PROVE Waits'
<1>1. Leaves(c, call'[c]) /\ call'[c].from = "mgr" /\ mgr'.calls = mgr.calls \cup {c}
  BY MgrActMoves
<1>2. UNCHANGED <<user, desk>>
  BY DEF MgrAct
<1>3. \A d \in Slots : Kept(d)
  BY <1>1, CallsLeave
<1>4. MgrWaits'
  BY <1>1 DEF MgrWaits, Leaves
<1> QED
  BY <1>2, <1>3, <1>4, UserGoesOnWaiting, DeskGoesOnWaiting DEF Waits

LEMMA DeskActWaits ==
  ASSUME PageInv, Waits, NEW c \in Slots, NEW op \in DeskOps, NEW w \in Wafers, DeskAct(c, op, w)
  PROVE  Waits'
<1>1. Leaves(c, call'[c]) /\ call'[c].group = {w} /\ desk'.busy = desk.busy \cup {w}
  BY DeskActMoves
<1>2. UNCHANGED <<user, mgr>>
  BY DEF DeskAct
<1>3. \A d \in Slots : Kept(d)
  BY <1>1, CallsLeave
<1>4. DeskWaits'
  BY <1>1, <1>3 DEF Waits, DeskWaits, Leaves, Kept
<1> QED
  BY <1>2, <1>3, <1>4, UserGoesOnWaiting, MgrGoesOnWaiting DEF Waits

LEMMA BulkReceiveWaits ==
  ASSUME PageInv, Waits, BulkReceive PROVE Waits'
<1>1. /\ desk'.busy = desk.busy \cup DeskOffers
      /\ \A d \in Slots : call'[d] = call[d] \/ call[d].phase = "idle"
      /\ \E c \in Slots : call'[c].phase = "sent" /\ call'[c].group = DeskOffers
  BY BulkReceiveMoves
<1>2. UNCHANGED <<user, mgr>>
  BY DEF BulkReceive
<1>3. \A d \in Slots : Kept(d)
  BY <1>1 DEF Kept
<1>4. DeskWaits'
  BY <1>1, <1>3 DEF Waits, DeskWaits, Kept
<1> QED
  BY <1>2, <1>3, <1>4, UserGoesOnWaiting, MgrGoesOnWaiting DEF Waits

LEMMA UserAnswerWaits ==
  ASSUME PageInv, Waits, NEW c \in Slots, UserAnswer(c) PROVE Waits'
<1>1. call[c] \in CallType /\ Made(call[c]) /\ UNCHANGED <<mgr, desk>>
  BY DEF PageInv, IntakeTypeOK, CallsAreMade, UserAnswer
<1>2. /\ \A d \in Slots \ {c} : call'[d] = call[d]
      /\ call[c].phase = "answered" /\ call[c].from \in {"new", "edit", "cancel"}
      /\ \/ /\ user' = user /\ call'[c].phase = "sent"
            /\ call'[c].from = call[c].from /\ call'[c].mount = call[c].mount
            /\ call'[c].group = {} /\ call[c].group = {}
         \/ /\ call'[c] = Idle
            /\ \/ ~user'.busy
               \/ user' = user /\ call[c].from = "cancel" /\ user.page # "cancel"
               \/ user' = user /\ ~StillMounted(c)
  BY UserAnswerMoves
<1>3. \A d \in Slots \ {c} : Kept(d)
  BY <1>2 DEF Kept
<1>4. MgrWaits' /\ DeskWaits'
  BY <1>1, <1>2, <1>3, MgrGoesOnWaiting, DeskGoesOnWaiting DEF Waits, Made
<1>5. UserWaits'
  <2>1. CASE ~user'.busy
    BY <2>1 DEF UserWaits
  <2>2. CASE user' = user /\ Kept(c)
    BY <1>3, <2>2, UserGoesOnWaiting DEF Waits
  <2>3. CASE user' = user /\ ~StillMounted(c)
    BY <1>3, <2>3, UserGoesOnWaiting DEF Waits
  <2> QED
    BY <1>2, <2>1, <2>2, <2>3 DEF StillMounted, Kept
<1> QED
  BY <1>4, <1>5 DEF Waits

LEMMA MgrAnswerWaits ==
  ASSUME PageInv, Waits, NEW c \in Slots, MgrAnswer(c) PROVE Waits'
<1>1. /\ Becomes(c, Idle) /\ call[c].from = "mgr" /\ call[c].phase = "answered"
      /\ c \notin mgr.calls => mgr' = mgr
      /\ c \in mgr.calls => ~mgr'.busy
  BY MgrAnswerMoves
<1>2. /\ Made(call[c]) /\ user \in UserType /\ mgr.calls \subseteq Slots /\ UNCHANGED <<user, desk>>
  BY DEF PageInv, IntakeTypeOK, CallsAreMade, MgrAnswer, MgrType
<1>3. \A d \in Slots \ {c} : Kept(d)
  BY <1>1 DEF Becomes, Kept
<1>4. call[c].group = {} /\ ~StillMounted(c)
  BY <1>1, <1>2 DEF Made, StillMounted, UserType
<1>5. UserWaits' /\ DeskWaits'
  BY <1>2, <1>3, <1>4, UserGoesOnWaiting, DeskGoesOnWaiting DEF Waits
<1>6. MgrWaits'
  BY <1>1, <1>2, <1>3 DEF Waits, MgrWaits, Kept
<1> QED
  BY <1>5, <1>6 DEF Waits

LEMMA DeskAnswerWaits ==
  ASSUME PageInv, Waits, NEW c \in Slots, DeskAnswer(c) PROVE Waits'
<1>1. /\ call[c].phase = "answered" /\ call[c].from = "desk" /\ call'[c] = Idle
      /\ \A d \in Slots \ {c} :
           /\ call'[d].phase = call[d].phase /\ call'[d].from = call[d].from
           /\ call'[d].mount = call[d].mount
           /\ (call[d].from # "desk" \/ call[d].group # call[c].group) => call'[d] = call[d]
      /\ \/ /\ desk' = desk /\ (\A d \in Slots \ {c} : call'[d] = call[d])
            /\ call[c].group # {} /\ \E d \in Slots \ {c} : call[d].group = call[c].group
         \/ desk'.busy = desk.busy \ call[c].group
  BY DeskAnswerMoves
<1>2. user \in UserType /\ CallsAreMade /\ UNCHANGED <<user, mgr>>
  BY DEF PageInv, IntakeTypeOK, DeskAnswer
<1>3. ~StillMounted(c) /\ \A d \in Slots : call[d].from # "desk" => Kept(d)
  BY <1>1, <1>2 DEF StillMounted, UserType, Kept
<1>4. \A d \in Slots : StillMounted(d) => Kept(d)
  BY <1>2, <1>3 DEF StillMounted, UserType
<1>5. UserWaits' /\ MgrWaits'
  BY <1>2, <1>3, <1>4, UserGoesOnWaiting, MgrGoesOnWaiting DEF Waits
<1>6. DeskWaits'
  <2> SUFFICES ASSUME NEW w \in desk'.busy
               PROVE  \E d \in Slots : call'[d].phase # "idle" /\ w \in call'[d].group
    BY DEF DeskWaits
  <2>1. w \in desk.busy
    BY <1>1
  <2>2. PICK e \in Slots : call[e].phase # "idle" /\ w \in call[e].group
    BY <2>1 DEF Waits, DeskWaits
  <2>3. CASE w \notin call[c].group
    <3>1. e # c /\ call[e].group # call[c].group
      BY <2>2, <2>3
    <3> QED
      BY <1>1, <2>2, <3>1
  <2>4. CASE w \in call[c].group
    <3>1. PICK d \in Slots \ {c} : call[d].group = call[c].group /\ call'[d] = call[d]
      BY <1>1, <2>4
    <3>2. call[d].phase # "idle"
      BY <1>2, <2>4, <3>1 DEF CallsAreMade, Made
    <3> QED
      BY <2>4, <3>1, <3>2
  <2> QED
    BY <2>3, <2>4
<1> QED
  BY <1>5, <1>6 DEF Waits

LEMMA QuietPagesWait ==
  ASSUME PageInv, Waits,
         \/ Leave \/ DraftPollFails \/ DetailPoll \/ OpenCancel \/ MgrPoll \/ CloseModal \/ DeskPoll
         \/ UNCHANGED intakeVars
  PROVE  Waits'
<1>1. ASSUME Leave \/ DraftPollFails \/ OpenCancel PROVE Waits'
  <2>1. ~user'.busy
    BY <1>1, LeaveMoves, DraftPollFailsMoves, OpenCancelMoves
  <2> QED
    BY <1>1, <2>1, StillWaits DEF Leave, DraftPollFails, OpenCancel
<1>2. ASSUME DetailPoll PROVE Waits'
  BY <1>2, StillWaits DEF DetailPoll
<1>3. ASSUME MgrPoll PROVE Waits'
  BY <1>3, StillWaits, MgrPollMoves DEF MgrPoll
<1>4. ASSUME CloseModal PROVE Waits'
  BY <1>4, StillWaits, ModalMoves DEF CloseModal
<1>5. ASSUME DeskPoll PROVE Waits'
  BY <1>5, StillWaits, DeskPollMoves DEF DeskPoll
<1>6. ASSUME UNCHANGED intakeVars PROVE Waits'
  BY <1>6, StillWaits DEF intakeVars
<1> QED
  BY <1>1, <1>2, <1>3, <1>4, <1>5, <1>6

LEMMA OpenedPagesWait ==
  ASSUME PageInv, Waits, NEW r \in Opened \cup {None},
         \/ OpenForm("new", r) \/ OpenForm("edit", r)
         \/ r # None /\ (OpenDetail(r) \/ MgrOpen(r))
  PROVE  Waits'
<1>1. ASSUME NEW page \in {"new", "edit"}, OpenForm(page, r) PROVE Waits'
  <2>1. ~user'.busy
    BY <1>1, OpenFormMoves
  <2> QED
    BY <1>1, <2>1, StillWaits DEF OpenForm
<1>2. ASSUME r # None, OpenDetail(r) PROVE Waits'
  BY <1>2, StillWaits, OpenDetailMoves, PagesAssumption DEF OpenDetail
<1>3. ASSUME r # None, MgrOpen(r) PROVE Waits'
  BY <1>3, StillWaits, MgrOpenMoves, PagesAssumption DEF MgrOpen
<1> QED
  BY <1>1, <1>2, <1>3

LEMMA ModalWaits ==
  ASSUME PageInv, Waits, NEW op \in MgrOps, OpenModal(op) PROVE Waits'
BY StillWaits, ModalMoves DEF OpenModal

LEMMA PressesWait ==
  ASSUME PageInv, Waits, NEW c \in Slots,
         (\E publish \in BOOLEAN : Press(c, publish)) \/ ConfirmCancel(c)
  PROVE  Waits'
<1>1. ASSUME NEW publish \in BOOLEAN, Press(c, publish) PROVE Waits'
  BY <1>1, PressMoves, UserSendWaits DEF Press
<1>2. ASSUME ConfirmCancel(c) PROVE Waits'
  BY <1>2, ConfirmCancelMoves, UserSendWaits DEF ConfirmCancel
<1> QED
  BY <1>1, <1>2

LEMMA ServedCallsWait ==
  ASSUME PageInv, Waits, NEW c \in Slots,
         Lose(c) \/ (UNCHANGED pages /\ (Begin(c) \/ Commit(c) \/ \E r \in Requests : CreateDraft(c, r)))
  PROVE  Waits'
<1>1. GoesOn(c) /\ UNCHANGED pages
  BY LoseMoves, BeginMoves, CommitMoves, CreateDraftMoves DEF Lose
<1> QED
  BY <1>1, GoingOnWaits

LEMMA ProcessWaits ==
  ASSUME PageInv, Waits, NEW r \in Requests, Process(r), UNCHANGED pages PROVE Waits'
BY StillWaits DEF Process

LEMMA InitWaits == IntakeInit => Waits
BY DEF IntakeInit, PagesInit, Waits, UserWaits, MgrWaits, DeskWaits, Away, NoRow

LEMMA StepWaits == PageInv /\ Waits /\ [IntakeNext]_intakeVars => Waits'
BY QuietPagesWait, OpenedPagesWait, ModalWaits, PressesWait, UserAnswerWaits, MgrActWaits,
   MgrAnswerWaits, DeskActWaits, BulkReceiveWaits, DeskAnswerWaits, ServedCallsWait, ProcessWaits,
   NoneIsNoRow, PagesAssumption
   DEF IntakeNext, AuthorStep, OwnerStep, MgrStep, DeskStep, LabStep, ServerStep, Serve, Answer,
       MgrOps, DeskOps

\* No button stays grey for ever: whoever is busy awaits a call that is under way.
THEOREM BusyPagesAwaitTheirCalls == IntakeSpec => []BusyPageAwaitsACall
<1>1. PageInv /\ Waits => BusyPageAwaitsACall
  BY DEF Waits, UserWaits, MgrWaits, DeskWaits, BusyPageAwaitsACall
<1> QED
  BY <1>1, InitPages, StepPage, InitWaits, StepWaits, PTL DEF IntakeSpec

-----------------------------------------------------------------------------
(* Forms and their submissions                                             *)

Forms == {"new", "edit"}
OpenFormCall(c) == call[c].phase # "idle" /\ call[c].from \in Forms
ToldCall(c) == OpenFormCall(c) /\ call[c].op = "submit" /\ call[c].ok

\* A form has one call on its way, and while it is mounted it is busy with it.
FormsAreBusy ==
  /\ \A c \in Slots : OpenFormCall(c) =>
       /\ call[c].mount \in 1..mounts
       /\ user.page \in Forms /\ user.mount = call[c].mount => user.busy /\ user.page = call[c].from
       /\ \A d \in Slots : OpenFormCall(d) /\ call[d].mount = call[c].mount => d = c
  /\ user.mount \in 0..mounts /\ (user.page \in Forms => user.mount # 0)
  /\ \A r \in Requests : submittedBy[r] \in 0..mounts

Submitted(m) == {r \in Requests : submittedBy[r] = m}
Told(m) == \E c \in Slots : ToldCall(c) /\ call[c].mount = m

\* The form has not learnt that its request is submitted, and is there or has a call on its way.
MaySubmit(m) ==
  /\ ~Told(m)
  /\ \/ user.page \in Forms /\ user.mount = m
     \/ \E c \in Slots : OpenFormCall(c) /\ call[c].mount = m

\* What a form submitted twice it was not told of, and only a lost answer leaves it untold.
SubmissionsAreCounted ==
  \A m \in 1..MaxMounts :
    /\ Cardinality(Submitted(m)) <= 1 + losses
    /\ MaySubmit(m) => Cardinality(Submitted(m)) <= losses

FormsInv == FormsAreBusy /\ SubmissionsAreCounted

LEMMA SubmittedIsFinite ==
  ASSUME NEW m PROVE IsFiniteSet(Submitted(m)) /\ Cardinality(Submitted(m)) \in Nat
<1>1. IsFiniteSet(Submitted(m))
  BY ServiceAssumption, FS_Subset DEF Submitted
<1> QED
  BY <1>1, FS_CardinalityType

\* The calls of the forms go on as they were, or end before they told anything.
SameFormCalls ==
  \A d \in Slots :
    /\ OpenFormCall(d)' => OpenFormCall(d) /\ call'[d].from = call[d].from
                           /\ call'[d].mount = call[d].mount
    /\ ToldCall(d) => ToldCall(d)' /\ call'[d].mount = call[d].mount

LEMMA CountsStay ==
  ASSUME SubmissionsAreCounted, submittedBy' = submittedBy, losses' = losses,
         \A m \in 1..MaxMounts : MaySubmit(m)' => MaySubmit(m)
  PROVE  SubmissionsAreCounted'
<1>1. \A m : Submitted(m)' = Submitted(m)
  BY DEF Submitted
<1> QED
  BY <1>1 DEF SubmissionsAreCounted

LEMMA FormsGoOn ==
  ASSUME PageInv, FormsInv, SameFormCalls, UNCHANGED <<submittedBy, mounts, losses>>,
         \/ /\ user'.page = user.page /\ user'.mount = user.mount
            /\ user'.busy = user.busy \/ user.page \notin Forms
         \/ user'.page \notin Forms /\ user'.mount = 0
  PROVE  FormsInv'
<1>1. mounts \in Nat
  BY PagesAssumption DEF PageInv, IntakeTypeOK
<1>2. FormsAreBusy'
  <2>1. ASSUME NEW c \in Slots, OpenFormCall(c)'
        PROVE  /\ call'[c].mount \in 1..mounts
               /\ user'.page \in Forms /\ user'.mount = call'[c].mount =>
                    user'.busy /\ user'.page = call'[c].from
               /\ \A d \in Slots : OpenFormCall(d)' /\ call'[d].mount = call'[c].mount => d = c
    BY <2>1 DEF FormsInv, FormsAreBusy, SameFormCalls
  <2>2. user'.mount \in 0..mounts /\ (user'.page \in Forms => user'.mount # 0)
    BY <1>1 DEF FormsInv, FormsAreBusy
  <2> QED
    BY <2>1, <2>2 DEF FormsInv, FormsAreBusy
<1>3. ASSUME NEW m \in 1..MaxMounts, MaySubmit(m)' PROVE MaySubmit(m)
  <2>1. ~Told(m)
    BY <1>3 DEF MaySubmit, Told, SameFormCalls
  <2>2. \/ user'.page \in Forms /\ user'.mount = m
        \/ \E c \in Slots : OpenFormCall(c)' /\ call'[c].mount = m
    BY <1>3 DEF MaySubmit
  <2> QED
    BY <2>1, <2>2 DEF MaySubmit, SameFormCalls
<1>4. SubmissionsAreCounted'
  BY <1>3, CountsStay DEF FormsInv
<1> QED
  BY <1>2, <1>4 DEF FormsInv

LEMMA SameCallsSameForms == ASSUME call' = call PROVE SameFormCalls
BY DEF SameFormCalls, OpenFormCall, ToldCall

\* A call of another page leaves, goes on or is over.
LEMMA OtherCalls ==
  ASSUME NEW c \in Slots, \A d \in Slots \ {c} : call'[d] = call[d],
         ~OpenFormCall(c), ~OpenFormCall(c)'
  PROVE  SameFormCalls
BY DEF SameFormCalls, OpenFormCall, ToldCall

LEMMA FormCallsGoOn ==
  ASSUME NEW c \in Slots, GoesOn(c), call[c].op = "submit" /\ call[c].ok => call'[c].ok
  PROVE  SameFormCalls
BY DEF SameFormCalls, GoesOn, OpenFormCall, ToldCall

\* A component mounts: a form that no call is about and that submitted nothing yet, or a dialog.
LEMMA MountForms ==
  ASSUME FormsInv, mounts \in Nat, losses \in Nat, mounts' = mounts + 1, user'.mount = mounts + 1,
         UNCHANGED <<call, submittedBy, losses>>
  PROVE  FormsInv'
<1>1. FormsAreBusy'
  BY DEF FormsInv, FormsAreBusy, OpenFormCall
<1>2. \A m : Submitted(m)' = Submitted(m)
  BY DEF Submitted
<1>3. ASSUME NEW m \in 1..MaxMounts
      PROVE  /\ Cardinality(Submitted(m)) <= 1 + losses
             /\ MaySubmit(m)' => Cardinality(Submitted(m)) <= losses
  <2>1. Cardinality(Submitted(m)) <= 1 + losses
    BY DEF FormsInv, SubmissionsAreCounted
  <2>2. CASE m = mounts + 1
    <3>1. Submitted(m) = {}
      BY <2>2 DEF Submitted, FormsInv, FormsAreBusy
    <3> QED
      BY <2>1, <3>1, FS_EmptySet
  <2>3. CASE m # mounts + 1
    <3>1. MaySubmit(m)' => MaySubmit(m)
      BY <2>3 DEF MaySubmit, Told, ToldCall, OpenFormCall
    <3> QED
      BY <2>1, <3>1 DEF FormsInv, SubmissionsAreCounted
  <2> QED
    BY <2>2, <2>3
<1>4. SubmissionsAreCounted'
  BY <1>2, <1>3 DEF SubmissionsAreCounted
<1> QED
  BY <1>1, <1>4 DEF FormsInv

\* A button of the form: it was free, so it has no call on its way.
LEMMA PressForms ==
  ASSUME PageInv, FormsInv, NEW c \in Slots, NEW publish \in BOOLEAN, Press(c, publish)
  PROVE  FormsInv'
<1>1. /\ Leaves(c, call'[c]) /\ call'[c].from = user.page /\ call'[c].mount = user.mount
      /\ user.page \in Forms /\ ~user.busy /\ user'.busy /\ user'.page = user.page
      /\ user'.mount = user.mount
  BY PressMoves DEF Forms
<1>2. UNCHANGED <<submittedBy, mounts, losses>>
  BY DEF Press
<1>3. \A d \in Slots : OpenFormCall(d) => call[d].mount # user.mount
  BY <1>1 DEF FormsInv, FormsAreBusy
<1>4. /\ \A d \in Slots \ {c} : call'[d] = call[d]
      /\ call[c].phase = "idle" /\ call'[c].phase = "sent" /\ ~call'[c].ok
  BY <1>1 DEF Leaves, Becomes
<1>5. user.mount \in 1..mounts
  BY <1>1 DEF FormsInv, FormsAreBusy
<1>6. FormsAreBusy'
  <2>1. ASSUME NEW d \in Slots, OpenFormCall(d)'
        PROVE  /\ call'[d].mount \in 1..mounts
               /\ user'.page \in Forms /\ user'.mount = call'[d].mount =>
                    user'.busy /\ user'.page = call'[d].from
               /\ \A e \in Slots : OpenFormCall(e)' /\ call'[e].mount = call'[d].mount => e = d
    BY <1>1, <1>3, <1>4, <1>5, <2>1 DEF FormsInv, FormsAreBusy, OpenFormCall
  <2> QED
    BY <1>1, <1>2, <2>1 DEF FormsInv, FormsAreBusy
<1>7. ASSUME NEW m \in 1..MaxMounts, MaySubmit(m)' PROVE MaySubmit(m)
  <2>1. ~Told(m)
    <3> SUFFICES ASSUME NEW d \in Slots, ToldCall(d), call[d].mount = m PROVE FALSE
      BY DEF Told
    <3>1. d # c
      BY <1>4 DEF ToldCall, OpenFormCall
    <3> QED
      BY <1>4, <1>7, <3>1 DEF MaySubmit, Told, ToldCall, OpenFormCall
  <2>2. \/ user.page \in Forms /\ user.mount = m
        \/ \E d \in Slots : OpenFormCall(d) /\ call[d].mount = m
    BY <1>1, <1>4, <1>7 DEF MaySubmit, OpenFormCall
  <2> QED
    BY <2>1, <2>2 DEF MaySubmit
<1>8. SubmissionsAreCounted'
  BY <1>2, <1>7, CountsStay DEF FormsInv
<1> QED
  BY <1>6, <1>8 DEF FormsInv

\* The submission is committed: its form was not told of another, and its answer will tell it.
LEMMA SubmitForms ==
  ASSUME PageInv, FormsInv, NEW c \in Slots, Commit(c), call[c].op = "submit",
         UNCHANGED <<pages, losses>>
  PROVE  FormsInv'
<1> DEFINE n == call[c].mount
           on == call[c].on
<1>1. /\ IntakeTypeOK /\ Made(call[c]) /\ call[c].phase = "serving" /\ on \in Requests
      /\ call[c].from \in Forms /\ ~call[c].ok /\ losses \in Nat
  BY PagesAssumption
     DEF PageInv, IntakeTypeOK, CallsAreMade, Commit, Serving, Made, Forms, MgrOps, DeskOps
<1>2. GoesOn(c) /\ call'[c].phase = "answered" /\ call'[c].ok
  BY CommitMoves
<1>3. OpenFormCall(c) /\ n \in 1..mounts
  BY <1>1 DEF OpenFormCall, FormsInv, FormsAreBusy
<1>4. submittedBy' = [submittedBy EXCEPT ![on] = n] /\ submittedBy \in [Requests -> Nat]
  BY <1>1 DEF Commit, IntakeTypeOK
<1>5. submittedBy'[on] = n /\ \A r \in Requests \ {on} : submittedBy'[r] = submittedBy[r]
  BY <1>1, <1>4
<1>6. \A d \in Slots : /\ OpenFormCall(d)' <=> OpenFormCall(d)
                       /\ call'[d].mount = call[d].mount /\ call'[d].from = call[d].from
  BY <1>2 DEF GoesOn, OpenFormCall
<1>7. UNCHANGED <<user, mounts, losses>>
  OBVIOUS
<1>8. FormsAreBusy'
  BY <1>3, <1>5, <1>6, <1>7 DEF FormsInv, FormsAreBusy
<1>9. ~Told(n) /\ MaySubmit(n)
  <2>1. \A d \in Slots : OpenFormCall(d) /\ call[d].mount = n => d = c
    BY <1>3 DEF FormsInv, FormsAreBusy
  <2> QED
    BY <1>1, <1>3, <2>1 DEF Told, ToldCall, MaySubmit
<1>10. Told(n)'
  BY <1>2, <1>3, <1>6 DEF Told, ToldCall, GoesOn
<1>11. ASSUME NEW m \in 1..MaxMounts
       PROVE  /\ Cardinality(Submitted(m))' <= 1 + losses
              /\ MaySubmit(m)' => Cardinality(Submitted(m))' <= losses
  <2>1. CASE m = n
    <3>1. Cardinality(Submitted(m)) <= losses
      BY <1>9, <2>1 DEF FormsInv, SubmissionsAreCounted
    <3>2. IsFiniteSet(Submitted(m) \cup {on}) /\ Cardinality(Submitted(m) \cup {on}) \in Nat
          /\ Cardinality(Submitted(m) \cup {on}) <= Cardinality(Submitted(m)) + 1
      BY SubmittedIsFinite, FS_AddElement, FS_CardinalityType
    <3>3. Submitted(m)' \subseteq Submitted(m) \cup {on}
      BY <1>5 DEF Submitted
    <3>4. Cardinality(Submitted(m)') \in Nat
          /\ Cardinality(Submitted(m)') <= Cardinality(Submitted(m) \cup {on})
      BY <3>2, <3>3, FS_Subset, FS_CardinalityType
    <3>5. Cardinality(Submitted(m)) \in Nat
      BY SubmittedIsFinite
    <3>6. Cardinality(Submitted(m)') <= 1 + losses
      BY <1>1, <3>1, <3>2, <3>4, <3>5
    <3>7. Told(m)'
      BY <1>6, <1>10, <2>1 DEF Told
    <3> QED
      BY <3>6, <3>7 DEF MaySubmit
  <2>2. CASE m # n
    <3>1. Submitted(m)' \subseteq Submitted(m)
      BY <1>5, <2>2 DEF Submitted
    <3>2. /\ Cardinality(Submitted(m)') \in Nat /\ Cardinality(Submitted(m)) \in Nat
          /\ Cardinality(Submitted(m)') <= Cardinality(Submitted(m))
      BY <3>1, SubmittedIsFinite, FS_Subset, FS_CardinalityType
    <3>3. ASSUME MaySubmit(m)' PROVE MaySubmit(m)
      <4>1. ~Told(m)
        BY <1>2, <1>6, <2>2, <3>3 DEF MaySubmit, Told, ToldCall, GoesOn
      <4> QED
        BY <1>6, <1>7, <3>3, <4>1 DEF MaySubmit
    <3> QED
      BY <1>1, <3>2, <3>3 DEF FormsInv, SubmissionsAreCounted
  <2> QED
    BY <2>1, <2>2
<1>12. SubmissionsAreCounted'
  BY <1>7, <1>11 DEF SubmissionsAreCounted
<1> QED
  BY <1>8, <1>12 DEF FormsInv

LEMMA LoseForms ==
  ASSUME PageInv, FormsInv, NEW c \in Slots, Lose(c) PROVE FormsInv'
<1>0. GoesOn(c)
  BY LoseMoves
<1>1. GoesOn(c) /\ losses \in Nat /\ losses' = losses + 1 /\ UNCHANGED <<user, mounts, submittedBy>>
  BY <1>0, PagesAssumption DEF Lose, PageInv, IntakeTypeOK
<1>2. \A d \in Slots : /\ OpenFormCall(d)' <=> OpenFormCall(d)
                       /\ call'[d].mount = call[d].mount /\ call'[d].from = call[d].from
  BY <1>1 DEF GoesOn, OpenFormCall
<1>3. FormsAreBusy'
  BY <1>1, <1>2 DEF FormsInv, FormsAreBusy
<1>4. \A m \in 1..MaxMounts : Cardinality(Submitted(m))' <= 1 + losses
  BY <1>1 DEF FormsInv, SubmissionsAreCounted, Submitted
<1>5. ASSUME NEW m \in 1..MaxMounts
      PROVE  /\ Cardinality(Submitted(m))' <= 1 + losses'
             /\ Cardinality(Submitted(m))' <= losses'
  <2>1. Submitted(m)' = Submitted(m) /\ Cardinality(Submitted(m)) \in Nat
    BY <1>1, SubmittedIsFinite DEF Submitted
  <2> QED
    BY <1>1, <1>4, <2>1
<1>6. SubmissionsAreCounted'
  BY <1>5 DEF SubmissionsAreCounted
<1> QED
  BY <1>3, <1>6 DEF FormsInv

\* The answer of the last call takes the form away; an error frees the form it came to.
LEMMA UserAnswerForms ==
  ASSUME PageInv, FormsInv, NEW c \in Slots, UserAnswer(c) PROVE FormsInv'
<1>1. UNCHANGED <<submittedBy, mounts, losses>>
  BY DEF UserAnswer
<1>2. /\ \A d \in Slots \ {c} : call'[d] = call[d]
      /\ call[c].phase = "answered" /\ call[c].from \in {"new", "edit", "cancel"}
      /\ \/ /\ user' = user /\ call'[c].phase = "sent" /\ call'[c].op = "submit" /\ ~call'[c].ok
            /\ call[c].op # "submit" /\ call[c].from \in {"new", "edit"}
            /\ call'[c].from = call[c].from /\ call'[c].mount = call[c].mount
         \/ /\ call'[c] = Idle
            /\ \/ user'.page \in {"away", "detail"} /\ user'.mount = 0 /\ call[c].ok
               \/ user' = user /\ call[c].ok /\ call[c].from = "cancel"
               \/ user' = user /\ ~StillMounted(c) /\ ~call[c].ok
               \/ /\ ~user'.busy /\ user'.page = user.page /\ user'.mount = user.mount
                  /\ StillMounted(c) /\ ~call[c].ok
  BY UserAnswerMoves
<1>3. CASE user' = user /\ call'[c].phase = "sent"
  <2>1. SameFormCalls
    BY <1>2, <1>3, IdleIsMade DEF SameFormCalls, OpenFormCall, ToldCall, Forms
  <2> QED
    BY <1>1, <1>3, <2>1, FormsGoOn
<1>4. CASE call'[c] = Idle /\ (~call[c].ok \/ call[c].from = "cancel")
           /\ (user' = user \/ (user'.page \in {"away", "detail"} /\ user'.mount = 0))
  <2>1. SameFormCalls
    BY <1>2, <1>4, IdleIsMade DEF SameFormCalls, OpenFormCall, ToldCall, Forms
  <2> QED
    BY <1>1, <1>4, <2>1, FormsGoOn DEF Forms
<1>5. CASE call'[c] = Idle /\ ~call[c].ok /\ StillMounted(c) /\ ~user'.busy
           /\ user'.page = user.page /\ user'.mount = user.mount
  <2>1. SameFormCalls
    BY <1>2, <1>5, IdleIsMade DEF SameFormCalls, OpenFormCall, ToldCall, Forms
  <2>2. CASE user.page \notin Forms
    BY <1>1, <1>5, <2>1, <2>2, FormsGoOn
  <2>3. CASE user.page \in Forms
    <3>1. OpenFormCall(c) /\ call[c].mount = user.mount
      BY <1>2, <1>5, <2>3 DEF OpenFormCall, StillMounted
    <3>2. \A d \in Slots : OpenFormCall(d)' => call'[d].mount # user.mount
      BY <1>2, <1>5, <3>1, IdleIsMade DEF FormsInv, FormsAreBusy, OpenFormCall
    <3>3. FormsAreBusy'
      BY <1>1, <1>5, <2>1, <3>2 DEF FormsInv, FormsAreBusy, SameFormCalls
    <3>4. ASSUME NEW m \in 1..MaxMounts, MaySubmit(m)' PROVE MaySubmit(m)
      BY <1>5, <2>1, <3>4 DEF MaySubmit, Told, SameFormCalls
    <3> QED
      BY <1>1, <3>3, <3>4, CountsStay DEF FormsInv
  <2> QED
    BY <2>2, <2>3
<1>6. CASE call'[c] = Idle /\ call[c].ok /\ call[c].from \in Forms
           /\ user'.page \in {"away", "detail"} /\ user'.mount = 0
  <2>1. OpenFormCall(c) /\ ~OpenFormCall(c)' /\ user'.page \notin Forms
    BY <1>2, <1>6, IdleIsMade DEF OpenFormCall, Forms
  <2>2. \A d \in Slots : OpenFormCall(d)' =>
          /\ OpenFormCall(d) /\ d # c /\ call'[d] = call[d] /\ call[d].mount # call[c].mount
    BY <1>2, <2>1 DEF FormsInv, FormsAreBusy, OpenFormCall
  <2>3. FormsAreBusy'
    <3>1. mounts \in Nat
      BY PagesAssumption DEF PageInv, IntakeTypeOK
    <3> QED
      BY <1>1, <1>6, <2>1, <2>2, <3>1 DEF FormsInv, FormsAreBusy
  <2>4. ASSUME NEW m \in 1..MaxMounts, MaySubmit(m)' PROVE MaySubmit(m)
    <3>1. PICK d \in Slots : OpenFormCall(d)' /\ call'[d].mount = m
      BY <2>1, <2>4 DEF MaySubmit
    <3>2. OpenFormCall(d) /\ call[d].mount = m /\ m # call[c].mount
      BY <2>2, <3>1
    <3>3. ~Told(m)
      BY <1>2, <2>4, <3>2 DEF MaySubmit, Told, ToldCall, OpenFormCall
    <3> QED
      BY <3>2, <3>3 DEF MaySubmit
  <2> QED
    BY <1>1, <2>3, <2>4, CountsStay DEF FormsInv
<1> QED
  BY <1>2, <1>3, <1>4, <1>5, <1>6 DEF Forms

\* The steps of the other pages.
LEMMA OtherSendForms ==
  ASSUME PageInv, FormsInv, NEW c \in Slots, Leaves(c, call'[c]), call'[c].from \notin Forms,
         UNCHANGED <<submittedBy, mounts, losses>>,
         /\ user'.page = user.page /\ user'.mount = user.mount
         /\ user'.busy = user.busy \/ user.page \notin Forms
  PROVE  FormsInv'
<1>1. SameFormCalls
  BY OtherCalls DEF Leaves, Becomes, OpenFormCall
<1> QED
  BY <1>1, FormsGoOn

LEMMA SendsForms ==
  ASSUME PageInv, FormsInv, NEW c \in Slots,
         \/ ConfirmCancel(c) \/ (\E op \in MgrOps : MgrAct(c, op))
         \/ \E op \in DeskOps, w \in Wafers : DeskAct(c, op, w)
  PROVE  FormsInv'
<1>1. ASSUME ConfirmCancel(c) PROVE FormsInv'
  BY <1>1, ConfirmCancelMoves, OtherSendForms DEF ConfirmCancel, Forms
<1>2. ASSUME NEW op \in MgrOps, MgrAct(c, op) PROVE FormsInv'
  BY <1>2, MgrActMoves, OtherSendForms DEF MgrAct, Forms
<1>3. ASSUME NEW op \in DeskOps, NEW w \in Wafers, DeskAct(c, op, w) PROVE FormsInv'
  BY <1>3, DeskActMoves, OtherSendForms DEF DeskAct, Forms
<1> QED
  BY <1>1, <1>2, <1>3

LEMMA AnswersForms ==
  ASSUME PageInv, FormsInv, NEW c \in Slots, MgrAnswer(c) \/ DeskAnswer(c) PROVE FormsInv'
<1>1. ASSUME MgrAnswer(c) PROVE SameFormCalls /\ UNCHANGED <<submittedBy, mounts, losses, user>>
  <2>1. ~OpenFormCall(c) /\ ~OpenFormCall(c)' /\ \A d \in Slots \ {c} : call'[d] = call[d]
    BY <1>1, MgrAnswerMoves, IdleIsMade DEF OpenFormCall, Forms, Becomes
  <2> QED
    BY <1>1, <2>1, OtherCalls DEF MgrAnswer
<1>2. ASSUME DeskAnswer(c) PROVE SameFormCalls /\ UNCHANGED <<submittedBy, mounts, losses, user>>
  <2>1. ~OpenFormCall(c) /\ ~OpenFormCall(c)'
    BY <1>2, DeskAnswerMoves, IdleIsMade DEF OpenFormCall, Forms
  <2>2. \A d \in Slots \ {c} :
           /\ call'[d].phase = call[d].phase /\ call'[d].op = call[d].op
           /\ call'[d].from = call[d].from /\ call'[d].mount = call[d].mount
           /\ call'[d].ok = call[d].ok
    BY <1>2, DeskAnswerMoves
  <2> QED
    BY <1>2, <2>1, <2>2 DEF DeskAnswer, SameFormCalls, OpenFormCall, ToldCall
<1> QED
  BY <1>1, <1>2, FormsGoOn

LEMMA BulkReceiveForms ==
  ASSUME PageInv, FormsInv, BulkReceive PROVE FormsInv'
<1>1. SameFormCalls
  BY BulkReceiveMoves DEF SameFormCalls, OpenFormCall, ToldCall, Forms
<1> QED
  BY <1>1, FormsGoOn DEF BulkReceive

LEMMA ServedForms ==
  ASSUME PageInv, FormsInv, NEW c \in Slots, UNCHANGED <<pages, losses>>,
         Begin(c) \/ Commit(c) \/ \E r \in Requests : CreateDraft(c, r)
  PROVE  FormsInv'
<1>1. ASSUME Begin(c) PROVE FormsInv'
  BY <1>1, BeginMoves, FormCallsGoOn, FormsGoOn DEF Begin
<1>2. ASSUME NEW r \in Requests, CreateDraft(c, r) PROVE FormsInv'
  BY <1>2, CreateDraftMoves, FormCallsGoOn, FormsGoOn DEF CreateDraft
<1>3. ASSUME Commit(c), call[c].op # "submit" PROVE FormsInv'
  BY <1>3, CommitMoves, FormCallsGoOn, FormsGoOn DEF Commit
<1> QED
  BY <1>1, <1>2, <1>3, SubmitForms

LEMMA CallFreeForms ==
  ASSUME PageInv, FormsInv, UNCHANGED <<call, submittedBy, losses>>,
         \/ UNCHANGED <<user, mounts>> \/ Leave \/ DetailPoll \/ DraftPollFails \/ OpenCancel
         \/ \E r \in Opened \cup {None} : OpenForm("new", r) \/ OpenForm("edit", r)
         \/ \E r \in Opened : OpenDetail(r)
  PROVE  FormsInv'
<1>1. SameFormCalls /\ losses \in Nat
  BY SameCallsSameForms, PagesAssumption DEF PageInv, IntakeTypeOK
<1>2. ASSUME Leave PROVE FormsInv'
  BY <1>1, <1>2, LeaveMoves, FormsGoOn DEF Leave, Forms
<1>3. ASSUME DetailPoll PROVE FormsInv'
  BY <1>1, <1>3, DetailPollMoves, FormsGoOn DEF DetailPoll
<1>4. ASSUME NEW r \in Opened, OpenDetail(r) PROVE FormsInv'
  BY <1>1, <1>4, OpenDetailMoves, FormsGoOn, PagesAssumption DEF OpenDetail, Forms
<1>5. ASSUME DraftPollFails \/ OpenCancel PROVE FormsInv'
  BY <1>1, <1>5, DraftPollFailsMoves, OpenCancelMoves, MountForms
<1>6. ASSUME NEW r \in Opened \cup {None}, NEW page \in {"new", "edit"}, OpenForm(page, r)
      PROVE  FormsInv'
  BY <1>1, <1>6, OpenFormMoves, MountForms
<1>7. ASSUME UNCHANGED <<user, mounts>> PROVE FormsInv'
  BY <1>1, <1>7, FormsGoOn
<1> QED
  BY <1>2, <1>3, <1>4, <1>5, <1>6, <1>7

LEMMA PageStepForms ==
  ASSUME PageInv, FormsInv,
         \/ Leave \/ DetailPoll \/ DraftPollFails \/ OpenCancel \/ MgrPoll \/ CloseModal \/ DeskPoll
         \/ (\E r \in Opened \cup {None} : OpenForm("new", r) \/ OpenForm("edit", r))
         \/ (\E r \in Opened : OpenDetail(r) \/ MgrOpen(r)) \/ (\E op \in MgrOps : OpenModal(op))
         \/ LabStep \/ UNCHANGED intakeVars
  PROVE  FormsInv'
<1>1. UNCHANGED <<call, submittedBy, losses>>
  BY DEF Leave, DetailPoll, DraftPollFails, OpenCancel, MgrPoll, CloseModal, DeskPoll, OpenForm,
         OpenDetail, MgrOpen, OpenModal, LabStep, Process, intakeVars
<1>2. MgrPoll \/ CloseModal \/ DeskPoll \/ (\E r \in Opened : MgrOpen(r))
      \/ (\E op \in MgrOps : OpenModal(op)) \/ LabStep \/ UNCHANGED intakeVars
        => UNCHANGED <<user, mounts>>
  BY DEF MgrPoll, CloseModal, DeskPoll, MgrOpen, OpenModal, LabStep, Process, intakeVars
<1> QED
  BY <1>1, <1>2, CallFreeForms

LEMMA InitForms == IntakeInit => FormsInv
<1> SUFFICES ASSUME IntakeInit PROVE FormsInv
  OBVIOUS
<1>1. /\ \A c \in Slots : ~OpenFormCall(c)
      /\ user.mount = 0 /\ user.page = "away" /\ mounts = 0 /\ losses = 0
      /\ \A r \in Requests : submittedBy[r] = 0
  BY IdleIsMade DEF IntakeInit, ServiceInit, PagesInit, OpenFormCall, Away
<1>2. FormsAreBusy
  BY <1>1 DEF FormsAreBusy, Forms
<1>3. ASSUME NEW m \in 1..MaxMounts PROVE Cardinality(Submitted(m)) = 0
  <2>1. Submitted(m) = {}
    BY <1>1, PagesAssumption DEF Submitted
  <2> QED
    BY <2>1, FS_EmptySet
<1> QED
  BY <1>1, <1>2, <1>3 DEF FormsInv, SubmissionsAreCounted

LEMMA StepForms == PageInv /\ FormsInv /\ [IntakeNext]_intakeVars => FormsInv'
BY PageStepForms, PressForms, SendsForms, AnswersForms, UserAnswerForms, BulkReceiveForms,
   ServedForms, LoseForms
   DEF IntakeNext, AuthorStep, OwnerStep, MgrStep, DeskStep, ServerStep, Serve, Answer,
       MgrOps, DeskOps

\* One form submits one request, and one more for each answer the network loses.
THEOREM FormsSubmitOnce == IntakeSpec => []OneSubmissionPerForm
<1>1. FormsInv => OneSubmissionPerForm
  BY DEF FormsInv, SubmissionsAreCounted, OneSubmissionPerForm, Submitted
<1> QED
  BY <1>1, InitPages, StepPage, InitForms, StepForms, PTL DEF IntakeSpec

=============================================================================
