--------------------------- MODULE RequestService ---------------------------
(***************************************************************************)
(* The server's side of a commission request up to its closing: the tables  *)
(* of requests and wafers and the handlers the browser calls.  An endpoint  *)
(* loads its row first, the service writes and looks at the sibling wafers  *)
(* inside a transaction, and the commit publishes what it wrote.  No row is *)
(* locked and several processes serve the calls, so the phases of two calls *)
(* interleave.  What the laboratory does with a request it received is one  *)
(* step, Process.                                                           *)
(***************************************************************************)
EXTENDS Naturals, FiniteSets

CONSTANTS
  Requests,   \* the requests that may be created
  Wafers,
  RequestOf,  \* the request each wafer belongs to
  MaxCalls,   \* bound on the calls in flight at once
  None

\* The statuses a row has here; those it has in the laboratory are passed within Process.
RequestStatuses == {"absent", "draft", "waiting_approval", "waiting_sample_receive", "received",
                    "final_check", "closed", "rejected", "cancelled"}
WaferStatuses == {"pending_receive", "received", "rejected", "completed"}

ASSUME ServiceAssumption ==
  /\ None \notin Requests \cup Wafers \cup RequestStatuses
  /\ IsFiniteSet(Requests) /\ IsFiniteSet(Wafers) /\ Requests \cap Wafers = {}
  /\ RequestOf \in [Wafers -> Requests]
  /\ MaxCalls \in Nat \ {0}

VARIABLES
  request,  \* status of each request; "absent" before it is created
  wafer,    \* status of each wafer
  receipts, \* history: how often each wafer was received
  submittedBy, \* history: the form that submitted each request
  raced,    \* history: the rows that two calls which both passed their guards were served on at once
  call      \* the calls in flight

Slots == 1..MaxCalls
tables == <<request, wafer, receipts, submittedBy, raced>>

Terminal == {"closed", "rejected", "cancelled"}
WafersOf(r) == {w \in Wafers : RequestOf[w] = r}

\* Defect variant: the wafer itself, not written yet, is among those that must have arrived.
SiblingsAndSelf(w) == WafersOf(RequestOf[w])

Siblings(w) == WafersOf(RequestOf[w]) \ {w}

Idle == [phase |-> "idle", op |-> None, on |-> None, from |-> None, mount |-> 0,
         publish |-> FALSE, group |-> {}, last |-> FALSE, ok |-> FALSE]

OnWafer(op) == op \in {"receive", "reject_sample"}
RequestAt(c) == IF OnWafer(call[c].op) THEN RequestOf[call[c].on] ELSE call[c].on

-----------------------------------------------------------------------------
(* What the services ask of the rows their endpoints loaded                 *)

AllExperimentsComplete(r) ==
  WafersOf(r) # {} /\ \A w \in WafersOf(r) : wafer[w] = "completed"

\* Defect variant: the decision does not ask whether the request still waits for one.
ExistsAtAll(r) == request[r] # "absent"
AwaitsApproval(r) == request[r] = "waiting_approval"

\* Defect variant: a wafer that arrived already is received again.
RequestApproved(w) == request[RequestOf[w]] = "waiting_sample_receive"
Receivable(w) ==
  request[RequestOf[w]] = "waiting_sample_receive" /\ wafer[w] = "pending_receive"

\* Both pages that reject a wafer send an empty reason, and reject_sample asks for one.
ReasonGiven == FALSE

Accepts(op, on) ==
  CASE op \in {"update", "submit"} -> request[on] = "draft"
    [] op \in {"approve", "reject", "more_info"} -> AwaitsApproval(on)
    [] op = "cancel" -> request[on] \notin Terminal
    [] op = "close" -> request[on] \notin Terminal /\ AllExperimentsComplete(on)
    [] op = "receive" -> Receivable(on)
    [] op = "reject_sample" ->
           ReasonGiven /\ wafer[on] \in {"pending_receive", "received"}

\* The status a handler gives its request; the last wafer takes its request with it, and an
\* update saves every column of the draft that its endpoint loaded.
RequestAfter(op, last) ==
  CASE op = "update" -> "draft"
    [] op = "submit" -> "waiting_approval"
    [] op = "approve" -> "waiting_sample_receive"
    [] op = "reject" -> "rejected"
    [] op = "cancel" -> "cancelled"
    [] op = "close" -> "closed"
    [] op = "receive" /\ last -> "received"
    [] op = "reject_sample" /\ last -> "rejected"
    [] OTHER -> None

WaferAfter(op, on, w) ==
  CASE op = "receive" /\ w = on -> "received"
    [] op = "reject_sample" /\ w = on -> "rejected"
    [] op = "cancel" /\ w \in WafersOf(on) /\ wafer[w] # "completed" -> "rejected"
    [] op = "close" /\ w \in WafersOf(on) -> "completed"
    [] OTHER -> wafer[w]

-----------------------------------------------------------------------------
(* A call on its way                                                        *)

Free(c) == /\ call[c].phase = "idle"
           /\ \A d \in Slots : call[d].phase = "idle" => c <= d
Send(c, what) == Free(c) /\ call' = [call EXCEPT ![c] = what]
Sent(op, on, from) ==
  [Idle EXCEPT !.phase = "sent", !.op = op, !.on = on, !.from = from]

Serving(c) == call[c].phase = "serving"

\* The rows a call writes.
Touches(c) == {call[c].on, RequestAt(c)}
Contested(c) == UNION {Touches(c) \cap Touches(d) : d \in {d \in Slots \ {c} : Serving(d)}}

\* No sibling of the wafer is still to come, or was kept.
IsLast(op, on) ==
  \/ op = "receive" /\ \A w \in Siblings(on) : wafer[w] = "received"
  \/ op = "reject_sample" /\ \A w \in Siblings(on) : wafer[w] = "rejected"

\* The endpoint loads its row, and the service refuses or goes on.
Begin(c) ==
  /\ call[c].phase = "sent" /\ call[c].op # "draft"
  /\ IF Accepts(call[c].op, call[c].on)
       THEN /\ call' = [call EXCEPT ![c].phase = "serving",
                                   ![c].last = IsLast(call[c].op, call[c].on)]
            /\ raced' = raced \cup Contested(c)
       ELSE call' = [call EXCEPT ![c].phase = "answered"] /\ UNCHANGED raced
  /\ UNCHANGED <<request, wafer, receipts, submittedBy>>

\* create_draft: the request and its wafers are one transaction.
CreateDraft(c, r) ==
  /\ call[c].phase = "sent" /\ call[c].op = "draft" /\ request[r] = "absent"
  /\ request' = [request EXCEPT ![r] = "draft"]
  /\ call' = [call EXCEPT ![c].phase = "answered", ![c].on = r, ![c].ok = TRUE]
  /\ UNCHANGED <<wafer, receipts, submittedBy, raced>>

\* A receipt reads the sibling wafers some time between its first read and its commit: what
\* other transactions have not committed by then it does not see.
Commit(c) ==
  \E last \in {call[c].last, IsLast(call[c].op, call[c].on)} :
  LET op == call[c].op on == call[c].on
      status == RequestAfter(op, last) IN
  /\ Serving(c)
  /\ request' = IF status = None THEN request
                ELSE [request EXCEPT ![RequestAt(c)] = status]
  /\ wafer' = [w \in Wafers |-> WaferAfter(op, on, w)]
  /\ receipts' = IF op = "receive" THEN [receipts EXCEPT ![on] = @ + 1] ELSE receipts
  /\ submittedBy' = IF op = "submit" THEN [submittedBy EXCEPT ![on] = call[c].mount]
                                     ELSE submittedBy
  /\ call' = [call EXCEPT ![c].phase = "answered", ![c].ok = TRUE, ![c].last = FALSE]
  /\ UNCHANGED raced

Serve(c) == Begin(c) \/ Commit(c) \/ \E r \in Requests : CreateDraft(c, r)

\* The laboratory runs and confirms the experiments of a request it received: LabWorkflow's
\* steps, taken at once.
Process(r) ==
  /\ request[r] = "received"
  /\ request' = [request EXCEPT ![r] = "final_check"]
  /\ wafer' = [w \in Wafers |-> IF w \in WafersOf(r) /\ wafer[w] = "received"
                                 THEN "completed" ELSE wafer[w]]
  /\ UNCHANGED <<receipts, submittedBy, raced, call>>

ServiceInit ==
  /\ request \in [Requests -> {"absent", "waiting_approval", "waiting_sample_receive"}]
  /\ wafer = [w \in Wafers |-> "pending_receive"]
  /\ receipts = [w \in Wafers |-> 0]
  /\ submittedBy = [r \in Requests |-> 0]
  /\ raced = {}
  /\ call = [c \in Slots |-> Idle]
=============================================================================
