--------------------------- MODULE BatchPlanning ---------------------------
(***************************************************************************)
(* How automatic batching cuts a queue of wafers that wait for the same     *)
(* recipe into batches (auto_create_wip_batches and                         *)
(* auto_propose_dispatch_queue use the same loop).                          *)
(***************************************************************************)
EXTENDS Integers, Sequences, FiniteSets

Smaller(m, n) == IF m <= n THEN m ELSE n
Larger(m, n) == IF m >= n THEN m ELSE n

\* _effective_batch_size: the recipe's limit, capped by the largest machine; a machine
\* without a capacity does not count, and a batch holds at least one wafer.
EffectiveBatchSize(maxSize, capacities) ==
  IF capacities \subseteq {0} THEN Larger(maxSize, 1)
  ELSE LET largest == CHOOSE c \in capacities : \A d \in capacities : d <= c
       IN  Larger(Smaller(maxSize, largest), 1)

\* range(0, len(queue), step): where the chunks of a queue of n wafers start.  The step is the
\* effective batch size.
Starts(n, step) == {start \in 0..(n - 1) : start % step = 0}

\* queue[start : start + size], of a queue that is ordered by rank.  The size is the recipe's
\* own limit.
Place(queue, rank, s) == Cardinality({t \in queue : rank[t] < rank[s]})
Slice(queue, rank, start, size) ==
  {s \in queue : Place(queue, rank, s) \in start..(start + size - 1)}
=============================================================================
