-------------------------- MODULE ProposalsProofs --------------------------
(***************************************************************************)
(* Proofs about the dispatch queue, for any number of wafers, recipes,      *)
(* machines, proposals, edits in flight and deaths.                         *)
(***************************************************************************)
EXTENDS QueueProposals, SequenceTheorems, FiniteSetTheorems, TLAPS

\* What a batch took is batched, and stays so.
TakenIsBatched == \A w \in DOMAIN wips : \A s \in wips[w].items : sample[s] = "batched"

\* A row belongs to a proposal that exists; a deleted row, and every row of a confirmed
\* proposal, is empty.
RowsAreAccounted ==
  \A b \in DOMAIN rows :
    /\ proposal[rows[b].proposal] # "absent"
    /\ ~rows[b].live \/ proposal[rows[b].proposal] = "confirmed" => rows[b].items = {}

\* An edit knows a row that is there, perhaps deleted.
EditsNameRows == \A c \in edits : c.batch \in DOMAIN rows

\* A batch that a lab user made needs no telling.
DraftsAreTold == \A w \in DOMAIN wips : wips[w].status = "draft" => wips[w].told

ProposalsInv ==
  /\ ProposalsTypeOK
  /\ TakenIsBatched /\ WaferBatchedOnce
  /\ RowsAreAccounted /\ EditsNameRows
  /\ DraftsAreTold /\ LockedBatchIsFollowedUp
-----------------------------------------------------------------------------
(* Sequences as functions, and the operators of the model                   *)

LEMMA FunctionIsSeq ==
  ASSUME NEW S, NEW n \in Nat, NEW f \in [1..n -> S]
  PROVE  f \in Seq(S) /\ Len(f) = n
<1>1. f \in Seq(S)
  BY SeqDef
<1>2. Len(f) \in Nat /\ DOMAIN f = 1..Len(f)
  BY <1>1, LenProperties
<1> QED
  BY <1>1, <1>2

LEMMA SeqIsFunction ==
  ASSUME NEW S, NEW s \in Seq(S)
  PROVE  Len(s) \in Nat /\ s \in [1..Len(s) -> S] /\ DOMAIN s = 1..Len(s)
BY LenProperties

LEMMA Appended ==
  ASSUME NEW S, NEW s \in Seq(S), NEW n \in Nat, NEW f \in [1..n -> S]
  PROVE  /\ s \o f \in Seq(S) /\ Len(s \o f) = Len(s) + n
         /\ DOMAIN (s \o f) = 1..(Len(s) + n)
         /\ \A i \in 1..Len(s) : (s \o f)[i] = s[i]
         /\ \A i \in (Len(s) + 1)..(Len(s) + n) : (s \o f)[i] = f[i - Len(s)]
<1>1. f \in Seq(S) /\ Len(f) = n
  BY FunctionIsSeq
<1>2. Len(s) \in Nat
  BY LenProperties
<1>3. /\ s \o f \in Seq(S)
      /\ Len(s \o f) = Len(s) + Len(f)
      /\ \A i \in 1..(Len(s) + Len(f)) :
           (s \o f)[i] = IF i <= Len(s) THEN s[i] ELSE f[i - Len(s)]
  BY <1>1, ConcatProperties
<1>4. DOMAIN (s \o f) = 1..Len(s \o f)
  BY <1>3, LenProperties
<1> QED
  BY <1>1, <1>2, <1>3, <1>4

LEMMA Rewritten ==
  ASSUME NEW S, NEW s \in Seq(S), NEW f \in [DOMAIN s -> S]
  PROVE  f \in Seq(S) /\ Len(f) = Len(s)
BY SeqIsFunction, FunctionIsSeq

LEMMA EnumerationsAreSequences ==
  ASSUME NEW S, IsFiniteSet(S), NEW s \in SetToSeqs(S)
  PROVE  /\ s \in Seq(S) /\ Len(s) = Cardinality(S) /\ DOMAIN s = 1..Len(s)
         /\ \A i, j \in DOMAIN s : i # j => s[i] # s[j]
<1>1. Cardinality(S) \in Nat
  BY FS_CardinalityType
<1>2. s \in [1..Cardinality(S) -> S] /\ \A i, j \in 1..Cardinality(S) : i # j => s[i] # s[j]
  BY DEF SetToSeqs
<1> QED
  BY <1>1, <1>2, FunctionIsSeq

\* An enumeration without repetition names every element.
LEMMA EnumerationsAreComplete ==
  ASSUME NEW S, IsFiniteSet(S), NEW s \in SetToSeqs(S)
  PROVE  \A x \in S : \E i \in DOMAIN s : s[i] = x
<1> SUFFICES ASSUME NEW x \in S, \A i \in DOMAIN s : s[i] # x PROVE FALSE
  OBVIOUS
<1> DEFINE n == Cardinality(S)
<1>1. n \in Nat /\ s \in [1..n -> S] /\ \A i, j \in 1..n : i # j => s[i] # s[j]
  BY FS_CardinalityType DEF SetToSeqs
<1>2. IsFiniteSet(S \ {x}) /\ Cardinality(S \ {x}) = n - 1
  BY FS_RemoveElement
<1>3. IsFiniteSet(1..n) /\ Cardinality(1..n) = n
  BY <1>1, FS_Interval
<1>4. s \in [1..n -> S \ {x}]
  BY <1>1
<1>5. Cardinality(S \ {x}) < Cardinality(1..n)
  BY <1>1, <1>2, <1>3
<1> DEFINE T == S \ {x}
           K == 1..n
<1>6. IsFiniteSet(T) /\ IsFiniteSet(K) /\ Cardinality(T) < Cardinality(K) /\ s \in [K -> T]
  BY <1>2, <1>3, <1>4, <1>5
<1> HIDE DEF n, T, K
<1>7. \E i, j \in K : i # j /\ s[i] = s[j]
  BY <1>6, FS_PigeonHole
<1> QED
  BY <1>1, <1>7 DEF K

LEMMA ChunksTyped ==
  ASSUME NEW recipes, NEW limit \in Nat, NEW chunks \in PlannedChunks(recipes, limit)
  PROVE  \E n \in Nat : chunks \in [1..n -> [recipe : Recipes, items : SUBSET Samples]]
<1> DEFINE cuts == {c \in (DOMAIN RecipeOrder) \X (0..Cardinality(Samples)) :
                     RecipeOrder[c[1]] \in recipes /\ c[2] \in Cuts(RecipeOrder[c[1]])}
           chunk(c) == LET r == RecipeOrder[c[1]]
                       IN  [recipe |-> r, items |-> Slice(QueueOf(r), Rank, c[2], MaxBatchSize[r])]
<1>1. IsFiniteSet(cuts)
  <2>1. IsFiniteSet(DOMAIN RecipeOrder)
    <3>1. Len(RecipeOrder) \in Nat /\ DOMAIN RecipeOrder = 1..Len(RecipeOrder)
      BY PlanningAssumption, LenProperties
    <3> QED
      BY <3>1, FS_Interval
  <2>2. IsFiniteSet(0..Cardinality(Samples))
    BY PlanningAssumption, FS_CardinalityType, FS_Interval
  <2>3. IsFiniteSet((DOMAIN RecipeOrder) \X (0..Cardinality(Samples)))
    BY <2>1, <2>2, FS_Product
  <2> QED
    BY <2>3, FS_Subset
<1>2. PICK all \in SetToSeqs(cuts) :
        chunks = [k \in 1..Smaller(limit, Cardinality(cuts)) |-> chunk(all[k])]
  BY DEF PlannedChunks
<1>3. /\ Cardinality(cuts) \in Nat
      /\ \A k \in 1..Cardinality(cuts) : all[k] \in cuts
  BY <1>1, FS_CardinalityType DEF SetToSeqs
<1>4. /\ Smaller(limit, Cardinality(cuts)) \in Nat
      /\ Smaller(limit, Cardinality(cuts)) <= Cardinality(cuts)
  BY <1>3 DEF Smaller
<1>5. ASSUME NEW c \in cuts
      PROVE  chunk(c) \in [recipe : Recipes, items : SUBSET Samples]
  BY DEF Recipes, Slice, QueueOf
<1> HIDE DEF cuts, chunk
<1>6. \A k \in 1..Smaller(limit, Cardinality(cuts)) :
        chunk(all[k]) \in [recipe : Recipes, items : SUBSET Samples]
  BY <1>3, <1>4, <1>5
<1> QED
  BY <1>2, <1>4, <1>6

\* Machines have codes, and a set of machines has a first one.
LEMMA FirstByCode ==
  ASSUME NEW M \in SUBSET Equipment, M # {}
  PROVE  \E e \in M : \A f \in M : CodeOf[e] <= CodeOf[f]
<1> DEFINE codes == {CodeOf[e] : e \in M}
<1>1. codes \subseteq Nat /\ codes # {}
  BY PlanningAssumption
<1>2. PICK n \in codes : \A m \in codes : ~(m < n)
  <2> DEFINE less == OpToRel(<, Nat)
  <2>1. \A m, n \in Nat : m < n => <<m, n>> \in less
    BY DEF OpToRel
  <2>2. IsWellFoundedOn(less, Nat)
    BY NatLessThanWellFounded
  <2> HIDE DEF codes, less
  <2>3. \E n \in codes : \A m \in codes : ~(<<m, n>> \in less)
    BY <1>1, <2>2, WFMin
  <2> QED
    BY <1>1, <2>1, <2>3
<1>3. \A m \in codes : n <= m
  BY <1>1, <1>2
<1> QED
  BY <1>3

LEMMA FirstIdleTyped ==
  ASSUME NEW r \in Recipes, NEW reserved
  PROVE  /\ FirstIdle(r, reserved) \in Equipment \cup {None}
         /\ FirstIdle(r, reserved) # None => \E e \in Capable[r] : machine[e] = "idle"
<1> DEFINE free == {e \in Capable[r] \ reserved : machine[e] = "idle"}
<1>1. free \in SUBSET Equipment
  BY PlanningAssumption
<1>2. CASE free = {}
  BY <1>2 DEF FirstIdle
<1>3. CASE free # {}
  <2>1. \E e \in free : \A f \in free : CodeOf[e] <= CodeOf[f]
    <3> HIDE DEF free
    <3> QED
      BY <1>1, <1>3, FirstByCode
  <2>2. FirstIdle(r, reserved) = CHOOSE e \in free : \A f \in free : CodeOf[e] <= CodeOf[f]
    BY <1>3 DEF FirstIdle
  <2>3. FirstIdle(r, reserved) \in free
    <3> HIDE DEF free
    <3> QED
      BY <2>1, <2>2
  <2> QED
    BY <1>1, <2>3
<1> QED
  BY <1>2, <1>3
-----------------------------------------------------------------------------
(* Rows                                                                     *)

\* A row that is pruned or deleted keeps its proposal and its recipe, and loses wafers only;
\* one that goes is empty.
Shrunk(old, new) ==
  /\ new \in Row /\ new.proposal = old.proposal /\ new.recipe = old.recipe
  /\ new.items \subseteq old.items
  /\ new.live => old.live /\ new.equip = old.equip
  /\ ~new.live => ~old.live \/ new.items = {}

LEMMA DeletedShrinks ==
  ASSUME NEW row \in Row
  PROVE  Shrunk(row, Deleted(row)) /\ ~Deleted(row).live /\ Deleted(row).items = {}
BY DEF Deleted, Shrunk, Row

LEMMA RowShrinksToItself == \A row \in Row : Shrunk(row, row)
BY DEF Shrunk

LEMMA WithoutEmptyShrinks ==
  ASSUME NEW p, NEW table \in Seq(Row)
  PROVE  /\ WithoutEmptyBatches(p, table) \in [DOMAIN table -> Row]
         /\ \A b \in DOMAIN table : Shrunk(table[b], WithoutEmptyBatches(p, table)[b])
<1>1. \A b \in DOMAIN table : table[b] \in Row
  BY SeqIsFunction
<1>2. ASSUME NEW b \in DOMAIN table
      PROVE  Shrunk(table[b], WithoutEmptyBatches(p, table)[b])
  BY <1>1, DeletedShrinks, RowShrinksToItself DEF WithoutEmptyBatches
<1> QED
  BY <1>1, <1>2, DeletedShrinks DEF WithoutEmptyBatches, Shrunk

LEMMA PrunedShrinks ==
  ASSUME rows \in Seq(Row), NEW p
  PROVE  /\ Pruned(p) \in Seq(Row) /\ Len(Pruned(p)) = Len(rows) /\ DOMAIN Pruned(p) = DOMAIN rows
         /\ \A b \in DOMAIN rows : Shrunk(rows[b], Pruned(p)[b])
<1>1. \A b \in DOMAIN rows : rows[b] \in Row
  BY SeqIsFunction
<1> DEFINE stale == {s \in Samples : sample[s] # "received"}
           left == [b \in DOMAIN rows |-> IF b \in BatchesOf(p)
                      THEN [rows[b] EXCEPT !.items = @ \ stale] ELSE rows[b]]
<1>2. /\ left \in Seq(Row) /\ DOMAIN left = DOMAIN rows
      /\ \A b \in DOMAIN rows : /\ left[b] \in Row /\ left[b].items \subseteq rows[b].items
                                /\ left[b].proposal = rows[b].proposal
                                /\ left[b].recipe = rows[b].recipe
                                /\ left[b].live = rows[b].live /\ left[b].equip = rows[b].equip
  <2>1. ASSUME NEW row \in Row
        PROVE  LET new == [row EXCEPT !.items = @ \ stale]
               IN  /\ new \in Row /\ new.items \subseteq row.items
                   /\ new.proposal = row.proposal /\ new.recipe = row.recipe
                   /\ new.live = row.live /\ new.equip = row.equip
    BY DEF Row
  <2>2. ASSUME NEW b \in DOMAIN rows
        PROVE  /\ left[b] \in Row /\ left[b].items \subseteq rows[b].items
               /\ left[b].proposal = rows[b].proposal /\ left[b].recipe = rows[b].recipe
               /\ left[b].live = rows[b].live /\ left[b].equip = rows[b].equip
    <3>1. CASE b \in BatchesOf(p)
      <4>1. left[b] = [rows[b] EXCEPT !.items = @ \ stale]
        BY <3>1
      <4> QED
        BY <1>1, <2>1, <4>1
    <3>2. CASE b \notin BatchesOf(p)
      BY <1>1, <3>2
    <3> QED
      BY <3>1, <3>2
  <2>3. left \in [DOMAIN rows -> Row]
    BY <2>2
  <2> QED
    BY <2>2, <2>3, Rewritten
<1>3. CASE \A b \in BatchesOf(p) : rows[b].items \cap stale = {}
  BY <1>1, <1>3, RowShrinksToItself DEF Pruned
<1>4. CASE ~(\A b \in BatchesOf(p) : rows[b].items \cap stale = {})
  <2> DEFINE W == WithoutEmptyBatches(p, left)
  <2>1. Pruned(p) = W
    BY <1>4 DEF Pruned
  <2> HIDE DEF left
  <2>2. W \in [DOMAIN rows -> Row] /\ \A b \in DOMAIN rows : Shrunk(left[b], W[b])
    BY <1>2, WithoutEmptyShrinks
  <2>3. \A b \in DOMAIN rows : Shrunk(rows[b], W[b])
    BY <1>2, <2>2 DEF Shrunk
  <2>4. W \in Seq(Row) /\ Len(W) = Len(rows)
    BY <2>2, Rewritten
  <2> HIDE DEF W
  <2> QED
    BY <2>1, <2>2, <2>3, <2>4
<1> QED
  BY <1>3, <1>4

\* A step that prunes, deletes or leaves rows, and nothing else.
LEMMA RowsShrink ==
  ASSUME ProposalsInv, NEW R \in [DOMAIN rows -> Row], \A b \in DOMAIN rows : Shrunk(rows[b], R[b]),
         rows' = R, edits' \in SUBSET edits,
         UNCHANGED <<sample, machine, proposal, wips, plans, crashes>>
  PROVE  ProposalsInv'
<1>1. R \in Seq(Row) /\ Len(R) = Len(rows) /\ DOMAIN R = DOMAIN rows
  BY Rewritten DEF ProposalsInv, ProposalsTypeOK
<1>2. RowsAreAccounted'
  BY <1>1 DEF ProposalsInv, RowsAreAccounted, Shrunk
<1>3. ProposalsTypeOK'
  BY <1>1 DEF ProposalsInv, ProposalsTypeOK
<1>4. EditsNameRows'
  BY <1>1 DEF ProposalsInv, EditsNameRows
<1> QED
  BY <1>2, <1>3, <1>4 DEF ProposalsInv, TakenIsBatched, WaferBatchedOnce, DraftsAreTold,
                         LockedBatchIsFollowedUp
-----------------------------------------------------------------------------
(* Batches                                                                  *)

\* New batches of waiting wafers, which are no batch's yet.
LEMMA BatchesTaken ==
  ASSUME ProposalsInv, NEW n \in Nat, NEW new \in [1..n -> Wip],
         Len(wips) + n <= MaxWips,
         Batchable([k \in 1..n |-> new[k].items]),
         wips' = wips \o new, sample' = Taken([k \in 1..n |-> new[k].items])
  PROVE  /\ sample' \in [Samples -> {"incoming", "received", "batched", "gone"}]
         /\ wips' \in Seq(Wip) /\ Len(wips') <= MaxWips
         /\ DOMAIN wips' = 1..(Len(wips) + n) /\ Len(wips) \in Nat /\ DOMAIN wips = 1..Len(wips)
         /\ \A w \in 1..Len(wips) : wips'[w] = wips[w]
         /\ \A w \in (Len(wips) + 1)..(Len(wips) + n) : wips'[w] = new[w - Len(wips)]
         /\ TakenIsBatched' /\ WaferBatchedOnce'
<1> DEFINE batches == [k \in 1..n |-> new[k].items]
<1>1. /\ wips' \in Seq(Wip) /\ Len(wips') = Len(wips) + n
      /\ DOMAIN wips' = 1..(Len(wips) + n)
      /\ \A w \in 1..Len(wips) : wips'[w] = wips[w]
      /\ \A w \in (Len(wips) + 1)..(Len(wips) + n) : wips'[w] = new[w - Len(wips)]
  BY Appended DEF ProposalsInv, ProposalsTypeOK
<1>2. /\ Len(wips) \in Nat /\ DOMAIN wips = 1..Len(wips)
      /\ \A w \in 1..Len(wips) : wips[w].items \in SUBSET Samples
  <2>1. wips \in Seq(Wip)
    BY DEF ProposalsInv, ProposalsTypeOK
  <2>2. Len(wips) \in Nat /\ DOMAIN wips = 1..Len(wips) /\ \A w \in 1..Len(wips) : wips[w] \in Wip
    BY <2>1, SeqIsFunction
  <2> QED
    BY <2>2 DEF Wip
<1>3. \A k \in 1..n : new[k].items \in SUBSET Samples
  BY DEF Wip
<1>4. \A k \in 1..n : \A s \in new[k].items : sample[s] = "received" /\ sample'[s] = "batched"
  BY <1>3 DEF Batchable, Taken
<1>5. \A j, k \in 1..n : j # k => new[j].items \cap new[k].items = {}
  BY DEF Batchable
<1>6. \A s \in Samples : sample'[s] \in {"batched", sample[s]}
  BY DEF Taken
<1>7. \A w \in 1..Len(wips) : \A s \in wips[w].items : sample[s] = "batched" /\ sample'[s] = "batched"
  BY <1>2, <1>6 DEF ProposalsInv, TakenIsBatched
<1>8. TakenIsBatched'
  <2> SUFFICES ASSUME NEW w \in DOMAIN wips', NEW s \in wips'[w].items
               PROVE  sample'[s] = "batched"
    BY DEF TakenIsBatched
  <2>1. CASE w <= Len(wips)
    BY <1>1, <1>2, <1>7, <2>1
  <2>2. CASE w > Len(wips)
    <3>1. w - Len(wips) \in 1..n /\ wips'[w] = new[w - Len(wips)]
      BY <1>1, <1>2, <2>2
    <3> QED
      BY <1>4, <3>1
  <2> QED
    BY <1>1, <1>2, <2>1, <2>2
<1>9. WaferBatchedOnce'
  <2> SUFFICES ASSUME NEW v \in 1..(Len(wips) + n), NEW w \in 1..(Len(wips) + n), v < w
               PROVE  wips'[v].items \cap wips'[w].items = {}
    <3>1. \A v, w \in 1..(Len(wips) + n) : v # w => v < w \/ w < v
      BY <1>2
    <3> QED
      BY <1>1, <3>1 DEF WaferBatchedOnce
  <2>1. CASE w <= Len(wips)
    <3>1. v \in 1..Len(wips) /\ w \in 1..Len(wips) /\ v # w
      BY <1>2, <2>1
    <3>2. v \in DOMAIN wips /\ w \in DOMAIN wips /\ wips'[v] = wips[v] /\ wips'[w] = wips[w]
      BY <1>1, <1>2, <3>1
    <3>3. wips[v].items \cap wips[w].items = {}
      BY <3>1, <3>2 DEF ProposalsInv, WaferBatchedOnce
    <3> QED
      BY <3>2, <3>3
  \* An old batch and a new one: the wafers of the one are batched, those of the other wait.
  <2>2. CASE v <= Len(wips) /\ w > Len(wips)
    <3>1. v \in 1..Len(wips) /\ w - Len(wips) \in 1..n /\ wips'[w] = new[w - Len(wips)]
      BY <1>1, <1>2, <2>2
    <3> QED
      BY <1>1, <1>4, <1>7, <3>1
  <2>3. CASE v > Len(wips)
    <3>1. /\ v - Len(wips) \in 1..n /\ wips'[v] = new[v - Len(wips)]
          /\ w - Len(wips) \in 1..n /\ wips'[w] = new[w - Len(wips)]
          /\ v - Len(wips) # w - Len(wips)
      BY <1>1, <1>2, <2>3
    <3> QED
      BY <1>5, <3>1
  <2> QED
    BY <1>1, <1>2, <2>1, <2>2, <2>3
<1>10. sample' \in [Samples -> {"incoming", "received", "batched", "gone"}]
  BY DEF Taken, ProposalsInv, ProposalsTypeOK
<1> QED
  BY <1>1, <1>2, <1>8, <1>9, <1>10
-----------------------------------------------------------------------------
(* The steps                                                                *)

LEMMA AutoCreateKeeps ==
  ASSUME ProposalsInv, NEW limit \in Limits, AutoCreate(limit)
  PROVE  ProposalsInv'
<1>1. limit \in Nat
  BY PlanningAssumption, FS_CardinalityType DEF Limits
<1>2. PICK chunks \in PlannedChunks(Recipes, limit) :
        LET batches == [k \in DOMAIN chunks |-> chunks[k].items]
        IN  /\ Len(wips) + Len(chunks) <= MaxWips
            /\ Batchable(batches)
            /\ wips' = wips \o [k \in DOMAIN chunks |->
                 [recipe |-> chunks[k].recipe, items |-> batches[k], status |-> "draft", told |-> TRUE]]
            /\ sample' = Taken(batches)
            /\ UNCHANGED <<machine, proposal, rows, plans, edits, crashes>>
  BY DEF AutoCreate
<1>3. PICK n \in Nat : chunks \in [1..n -> [recipe : Recipes, items : SUBSET Samples]]
  BY <1>1, ChunksTyped
<1>4. Len(chunks) = n /\ DOMAIN chunks = 1..n
  BY <1>3, FunctionIsSeq
<1> DEFINE new == [k \in 1..n |-> [recipe |-> chunks[k].recipe, items |-> chunks[k].items,
                                   status |-> "draft", told |-> TRUE]]
<1>5. /\ new \in [1..n -> Wip]
      /\ \A k \in 1..n : new[k].items = chunks[k].items /\ new[k].told
  BY <1>3 DEF Wip
<1>6. wips' = wips \o new
  BY <1>2, <1>4
<1>7. [k \in 1..n |-> new[k].items] = [k \in 1..n |-> chunks[k].items]
  BY <1>5
<1>8. /\ Batchable([k \in 1..n |-> new[k].items])
      /\ sample' = Taken([k \in 1..n |-> new[k].items])
      /\ Len(wips) + n <= MaxWips
  BY <1>2, <1>4, <1>7
<1> HIDE DEF new
<1>9. /\ sample' \in [Samples -> {"incoming", "received", "batched", "gone"}]
      /\ wips' \in Seq(Wip) /\ Len(wips') <= MaxWips
      /\ DOMAIN wips' = 1..(Len(wips) + n) /\ Len(wips) \in Nat /\ DOMAIN wips = 1..Len(wips)
      /\ \A w \in 1..Len(wips) : wips'[w] = wips[w]
      /\ \A w \in (Len(wips) + 1)..(Len(wips) + n) : wips'[w] = new[w - Len(wips)]
      /\ TakenIsBatched' /\ WaferBatchedOnce'
  BY <1>5, <1>6, <1>8, BatchesTaken
<1>10. \A w \in DOMAIN wips' : (w \in DOMAIN wips /\ wips'[w] = wips[w]) \/ wips'[w].told
  <2> SUFFICES ASSUME NEW w \in DOMAIN wips', w > Len(wips) PROVE wips'[w].told
    BY <1>9
  <2>1. w - Len(wips) \in 1..n /\ wips'[w] = new[w - Len(wips)]
    BY <1>9
  <2> QED
    BY <1>5, <2>1
<1>11. ProposalsTypeOK' /\ RowsAreAccounted' /\ EditsNameRows'
  BY <1>2, <1>9 DEF ProposalsInv, ProposalsTypeOK, RowsAreAccounted, EditsNameRows
<1>12. DraftsAreTold' /\ LockedBatchIsFollowedUp'
  BY <1>2, <1>10 DEF ProposalsInv, DraftsAreTold, LockedBatchIsFollowedUp
<1> QED
  BY <1>9, <1>11, <1>12 DEF ProposalsInv

LEMMA AutoProposeKeeps ==
  ASSUME ProposalsInv, NEW p \in Proposals, NEW limit \in Limits, AutoPropose(p, limit)
  PROVE  ProposalsInv'
<1>1. limit \in Nat
  BY PlanningAssumption, FS_CardinalityType DEF Limits
<1>a. PICK chunks \in PlannedChunks({r \in Recipes : Capable[r] # {}}, limit) :
        \E given \in [DOMAIN chunks -> Equipment \cup {None}] :
          /\ proposal[p] = "absent" /\ Len(rows) + Len(chunks) <= MaxRows
          /\ proposal' = [proposal EXCEPT ![p] = "draft"]
          /\ rows' = rows \o [k \in DOMAIN chunks |->
               [proposal |-> p, recipe |-> chunks[k].recipe, equip |-> given[k],
                items |-> chunks[k].items, live |-> TRUE]]
          /\ UNCHANGED <<sample, machine, wips, plans, edits, crashes>>
  BY DEF AutoPropose
<1>2. PICK given \in [DOMAIN chunks -> Equipment \cup {None}] :
        /\ proposal[p] = "absent" /\ Len(rows) + Len(chunks) <= MaxRows
        /\ proposal' = [proposal EXCEPT ![p] = "draft"]
        /\ rows' = rows \o [k \in DOMAIN chunks |->
             [proposal |-> p, recipe |-> chunks[k].recipe, equip |-> given[k],
              items |-> chunks[k].items, live |-> TRUE]]
        /\ UNCHANGED <<sample, machine, wips, plans, edits, crashes>>
  BY <1>a
<1>3. PICK n \in Nat : chunks \in [1..n -> [recipe : Recipes, items : SUBSET Samples]]
  BY <1>1, ChunksTyped
<1>4. Len(chunks) = n /\ DOMAIN chunks = 1..n
  BY <1>3, FunctionIsSeq
<1> DEFINE new == [k \in 1..n |-> [proposal |-> p, recipe |-> chunks[k].recipe, equip |-> given[k],
                                   items |-> chunks[k].items, live |-> TRUE]]
<1>5. new \in [1..n -> Row] /\ \A k \in 1..n : new[k].proposal = p /\ new[k].live
  BY <1>2, <1>3, <1>4 DEF Row
<1>6. rows' = rows \o new
  BY <1>2, <1>4
<1> HIDE DEF new
<1>7. rows \in Seq(Row) /\ Len(rows) \in Nat /\ DOMAIN rows = 1..Len(rows)
  BY SeqIsFunction DEF ProposalsInv, ProposalsTypeOK
<1>8. /\ rows' \in Seq(Row) /\ Len(rows') = Len(rows) + n
      /\ DOMAIN rows' = 1..(Len(rows) + n)
      /\ \A b \in 1..Len(rows) : rows'[b] = rows[b]
      /\ \A b \in (Len(rows) + 1)..(Len(rows) + n) : rows'[b] = new[b - Len(rows)]
  BY <1>5, <1>6, <1>7, Appended
<1>9. ProposalsTypeOK'
  BY <1>2, <1>4, <1>8 DEF ProposalsInv, ProposalsTypeOK
<1>10. RowsAreAccounted'
  <2> SUFFICES ASSUME NEW b \in DOMAIN rows'
               PROVE  /\ proposal'[rows'[b].proposal] # "absent"
                      /\ ~rows'[b].live \/ proposal'[rows'[b].proposal] = "confirmed" =>
                           rows'[b].items = {}
    BY DEF RowsAreAccounted
  <2>1. proposal' = [proposal EXCEPT ![p] = "draft"] /\ DOMAIN proposal = Proposals
    BY <1>2 DEF ProposalsInv, ProposalsTypeOK
  <2>2. CASE b \in 1..Len(rows)
    \* A proposal that was absent had no rows.
    <3>1. rows'[b] = rows[b] /\ rows[b].proposal # p
      BY <1>2, <1>7, <1>8, <2>2 DEF ProposalsInv, RowsAreAccounted
    <3>2. rows[b] \in Row
      BY <1>7, <2>2, SeqIsFunction
    <3>3. proposal'[rows[b].proposal] = proposal[rows[b].proposal]
      BY <2>1, <3>1, <3>2 DEF Row
    <3> QED
      BY <1>7, <2>2, <3>1, <3>3 DEF ProposalsInv, RowsAreAccounted
  <2>3. CASE b \notin 1..Len(rows)
    <3>1. b - Len(rows) \in 1..n /\ rows'[b] = new[b - Len(rows)]
      BY <1>7, <1>8, <2>3
    <3>2. rows'[b].proposal = p /\ rows'[b].live
      BY <1>5, <3>1
    <3> QED
      BY <2>1, <3>2
  <2> QED
    BY <2>2, <2>3
<1>11. EditsNameRows'
  BY <1>2, <1>7, <1>8 DEF ProposalsInv, EditsNameRows
<1> QED
  BY <1>2, <1>9, <1>10, <1>11
     DEF ProposalsInv, TakenIsBatched, WaferBatchedOnce, DraftsAreTold, LockedBatchIsFollowedUp

\* What a confirmation does: the rows it sends, with their machines, in their order; the rows
\* it leaves; and the batches it creates.
ConfirmedAs(p, sent, given, n, chosen, left, new) ==
  /\ proposal[p] = "draft" /\ Len(wips) + n <= MaxWips /\ n # 0
  /\ \A b \in sent : given[b] # None /\ ShownReady(b)
  /\ \A b \in DOMAIN rows :
       /\ left[b].proposal = rows[b].proposal /\ left[b].items \subseteq rows[b].items
       /\ ~left[b].live => ~rows[b].live \/ left[b].items = {}
       /\ left[b].live => rows[b].live /\ b \notin sent
  /\ rows' = left
  /\ \A i \in 1..n : /\ new[i].items \subseteq rows[chosen[i]].items
                     /\ new[i].status = "ready_for_dispatch"
  /\ Batchable([i \in 1..n |-> new[i].items])
  /\ wips' = wips \o new /\ sample' = Taken([i \in 1..n |-> new[i].items])
  /\ \/ UNCHANGED proposal
     \/ /\ proposal' = [proposal EXCEPT ![p] = "confirmed"]
        /\ \A b \in DOMAIN rows : left[b].proposal = p => ~left[b].live
  /\ plans' = plans \cup
       {[todo |-> [i \in 1..n |-> [wip |-> Len(wips) + i, equip |-> given[chosen[i]]]],
         failed |-> {}]}
  /\ UNCHANGED <<machine, edits, crashes>>

LEMMA Confirmed ==
  ASSUME ProposalsInv, NEW p \in Proposals, ConfirmProposal(p)
  PROVE  \E sent \in SUBSET BatchesOf(p), given \in [DOMAIN rows -> Equipment \cup {None}],
            n \in Nat :
           \E chosen \in [1..n -> sent], left \in [DOMAIN rows -> Row], new \in [1..n -> Wip] :
             ConfirmedAs(p, sent, given, n, chosen, left, new)
<1> DEFINE pruned == Pruned(p)
           planned == {b \in BatchesOf(p) : pruned[b].live}
           Sent(given) == {b \in planned : TakesPart(given[b], pruned[b].items)}
           Batches(chosen) == [i \in DOMAIN chosen |-> pruned[chosen[i]].items]
<1>1. PICK order \in SetToSeqs(planned), given \in [planned -> Equipment \cup {None}] :
        \E chosen \in SetToSeqs(Sent(given)) :
          /\ proposal[p] = "draft"
          /\ Assigned(pruned, order, given)
          /\ Sent(given) # {} /\ Len(wips) + Len(chosen) <= MaxWips
          /\ Batchable(Batches(chosen))
          /\ rows' = [b \in DOMAIN rows |->
               CASE b \in Sent(given) -> Deleted(pruned[b])
                 [] b \in planned \ Sent(given) -> [pruned[b] EXCEPT !.equip = given[b]]
                 [] b \notin planned -> pruned[b]]
          /\ proposal' = IF Sent(given) = planned THEN [proposal EXCEPT ![p] = "confirmed"]
                         ELSE proposal
          /\ wips' = wips \o [i \in DOMAIN chosen |->
               [recipe |-> rows[chosen[i]].recipe, items |-> Batches(chosen)[i],
                status |-> "ready_for_dispatch", told |-> FALSE]]
          /\ sample' = Taken(Batches(chosen))
          /\ plans' = plans \cup
               {[todo |-> [i \in DOMAIN chosen |->
                   [wip |-> Len(wips) + i, equip |-> given[chosen[i]]]],
                 failed |-> {}]}
          /\ UNCHANGED <<machine, edits, crashes>>
  BY DEF ConfirmProposal
<1>2. /\ rows \in Seq(Row) /\ DOMAIN rows = 1..Len(rows) /\ Len(rows) \in Nat
      /\ \A b \in DOMAIN rows : rows[b] \in Row
  BY SeqIsFunction DEF ProposalsInv, ProposalsTypeOK
<1>3. \A b \in DOMAIN rows : pruned[b] \in Row /\ Shrunk(rows[b], pruned[b])
  BY <1>2, PrunedShrinks DEF Shrunk
<1> HIDE DEF pruned
<1>4. planned \subseteq BatchesOf(p) /\ planned \subseteq DOMAIN rows /\ IsFiniteSet(planned)
  <2>1. planned \subseteq BatchesOf(p) /\ planned \subseteq 1..Len(rows)
    BY <1>2 DEF BatchesOf
  <2> HIDE DEF planned
  <2>2. IsFiniteSet(1..Len(rows))
    BY <1>2, FS_Interval
  <2> QED
    BY <1>2, <2>1, <2>2, FS_Subset
<1>5. order \in Seq(planned) /\ \A b \in planned : \E i \in DOMAIN order : order[i] = b
  <2>1. order \in SetToSeqs(planned)
    BY <1>1
  <2> HIDE DEF planned
  <2> QED
    BY <1>4, <2>1, EnumerationsAreSequences, EnumerationsAreComplete
<1> DEFINE sent == Sent(given)
           given2 == [b \in DOMAIN rows |-> IF b \in planned THEN given[b] ELSE None]
<1>6. PICK chosen \in SetToSeqs(sent) :
          /\ proposal[p] = "draft"
          /\ Assigned(pruned, order, given)
          /\ sent # {} /\ Len(wips) + Len(chosen) <= MaxWips
          /\ Batchable(Batches(chosen))
          /\ rows' = [b \in DOMAIN rows |->
               CASE b \in sent -> Deleted(pruned[b])
                 [] b \in planned \ sent -> [pruned[b] EXCEPT !.equip = given[b]]
                 [] b \notin planned -> pruned[b]]
          /\ proposal' = IF sent = planned THEN [proposal EXCEPT ![p] = "confirmed"]
                         ELSE proposal
          /\ wips' = wips \o [i \in DOMAIN chosen |->
               [recipe |-> rows[chosen[i]].recipe, items |-> Batches(chosen)[i],
                status |-> "ready_for_dispatch", told |-> FALSE]]
          /\ sample' = Taken(Batches(chosen))
          /\ plans' = plans \cup
               {[todo |-> [i \in DOMAIN chosen |->
                   [wip |-> Len(wips) + i, equip |-> given[chosen[i]]]],
                 failed |-> {}]}
          /\ UNCHANGED <<machine, edits, crashes>>
  BY <1>1
<1>7. sent \subseteq planned /\ IsFiniteSet(sent)
  BY <1>4, FS_Subset
<1> DEFINE n == Cardinality(sent)
<1>8. /\ n \in Nat /\ n # 0 /\ Len(chosen) = n
      /\ chosen \in [1..n -> sent] /\ DOMAIN chosen = 1..n
  BY <1>6, <1>7, EnumerationsAreSequences, SeqIsFunction, FS_CardinalityType, FS_EmptySet
<1>9. given2 \in [DOMAIN rows -> Equipment \cup {None}]
  BY <1>1
<1>10. \A b \in sent : given2[b] = given[b] /\ given2[b] # None
  BY <1>4, <1>7 DEF TakesPart
\* The machine of a batch that is sent is its own or the first idle one.
<1>11. ASSUME NEW b \in sent PROVE ShownReady(b)
  <2>1. PICK i \in DOMAIN order : order[i] = b
    BY <1>5, <1>7
  <2>2. /\ b \in DOMAIN rows /\ pruned[b].live /\ given[b] # None
        /\ pruned[b].equip = rows[b].equip /\ pruned[b].recipe = rows[b].recipe
        /\ rows[b].recipe \in Recipes
    BY <1>2, <1>3, <1>4, <1>7 DEF TakesPart, Shrunk, Row
  <2>3. given[b] = IF rows[b].equip # None /\ machine[rows[b].equip] = "idle" THEN rows[b].equip
                   ELSE FirstIdle(rows[b].recipe, {given[order[j]] : j \in 1..(i - 1)})
    BY <1>6, <2>1, <2>2 DEF Assigned
  <2> QED
    BY <2>2, <2>3, FirstIdleTyped DEF ShownReady
<1> DEFINE R == [b \in DOMAIN rows |->
                  CASE b \in sent -> Deleted(pruned[b])
                    [] b \in planned \ sent -> [pruned[b] EXCEPT !.equip = given[b]]
                    [] b \notin planned -> pruned[b]]
<1>12. ASSUME NEW b \in DOMAIN rows
       PROVE  /\ R[b] \in Row
              /\ R[b].proposal = rows[b].proposal /\ R[b].items \subseteq rows[b].items
              /\ ~R[b].live => ~rows[b].live \/ R[b].items = {}
              /\ R[b].live => rows[b].live /\ b \notin sent
              /\ b \in planned \/ R[b] = pruned[b]
  <2>1. CASE b \in sent
    <3>1. R[b] = Deleted(pruned[b])
      BY <2>1
    <3> HIDE DEF R
    <3> QED
      BY <1>3, <1>7, <2>1, <3>1, DeletedShrinks DEF Shrunk
  <2>2. CASE b \in planned /\ b \notin sent
    <3>1. R[b] = [pruned[b] EXCEPT !.equip = given[b]]
      BY <2>2
    <3>2. given[b] \in Equipment \cup {None} /\ pruned[b].live
      BY <2>2
    <3> HIDE DEF R
    <3> QED
      BY <1>3, <2>2, <3>1, <3>2 DEF Shrunk, Row
  <2>3. CASE b \notin planned
    <3>1. R[b] = pruned[b] /\ b \notin sent
      BY <1>7, <2>3
    <3> HIDE DEF R
    <3> QED
      BY <1>3, <2>3, <3>1 DEF Shrunk
  <2> QED
    BY <2>1, <2>2, <2>3
<1>13. R \in [DOMAIN rows -> Row] /\ rows' = R
  BY <1>6, <1>12
\* All of them are sent: no row of the proposal is left.
<1>14. sent = planned => \A b \in DOMAIN rows : R[b].proposal = p => ~R[b].live
  <2> SUFFICES ASSUME sent = planned, NEW b \in DOMAIN rows, R[b].proposal = p, R[b].live
               PROVE  FALSE
    OBVIOUS
  <2> HIDE DEF R, sent
  <2>1. b \notin planned /\ R[b] = pruned[b] /\ rows[b].live /\ rows[b].proposal = p
    BY <1>12
  <2> QED
    BY <2>1 DEF BatchesOf
<1> DEFINE new == [i \in 1..n |-> [recipe |-> rows[chosen[i]].recipe, items |-> pruned[chosen[i]].items,
                                   status |-> "ready_for_dispatch", told |-> FALSE]]
<1>15. ASSUME NEW i \in 1..n
       PROVE  /\ new[i] \in Wip /\ new[i].items = pruned[chosen[i]].items
              /\ new[i].items \subseteq rows[chosen[i]].items
              /\ new[i].status = "ready_for_dispatch"
  <2>1. chosen[i] \in DOMAIN rows
    BY <1>4, <1>7, <1>8
  <2>2. /\ rows[chosen[i]].recipe \in Recipes /\ pruned[chosen[i]].items \in SUBSET Samples
        /\ pruned[chosen[i]].items \subseteq rows[chosen[i]].items
    BY <1>2, <1>3, <2>1 DEF Row, Shrunk
  <2> QED
    BY <2>2 DEF Wip
<1>16. new \in [1..n -> Wip] /\ wips' = wips \o new
  BY <1>6, <1>8, <1>15
<1>17. [i \in 1..n |-> new[i].items] = Batches(chosen)
  BY <1>8, <1>15
<1>18. plans' = plans \cup
         {[todo |-> [i \in 1..n |-> [wip |-> Len(wips) + i, equip |-> given2[chosen[i]]]],
           failed |-> {}]}
  BY <1>6, <1>8, <1>10
<1>19. sent \in SUBSET BatchesOf(p)
  BY <1>4, <1>7
<1>20. /\ Batchable([i \in 1..n |-> new[i].items])
       /\ sample' = Taken([i \in 1..n |-> new[i].items])
       /\ UNCHANGED <<machine, edits, crashes>> /\ proposal[p] = "draft" /\ Len(wips) + n <= MaxWips
       /\ proposal' = IF sent = planned THEN [proposal EXCEPT ![p] = "confirmed"] ELSE proposal
  <2> HIDE DEF sent, planned, new, n, Batches
  <2> QED
    BY <1>6, <1>8, <1>17
<1> HIDE DEF sent, planned, given2, R, new, n, Sent, Batches
<1>21. ConfirmedAs(p, sent, given2, n, chosen, R, new)
  BY <1>8, <1>10, <1>11, <1>12, <1>13, <1>14, <1>15, <1>16, <1>18, <1>20 DEF ConfirmedAs
<1> QED
  BY <1>8, <1>9, <1>13, <1>16, <1>19, <1>21

LEMMA ConfirmKeeps ==
  ASSUME ProposalsInv, NEW p \in Proposals, ConfirmProposal(p)
  PROVE  ProposalsInv'
<1>a. PICK sent \in SUBSET BatchesOf(p), given \in [DOMAIN rows -> Equipment \cup {None}],
           n \in Nat :
        \E chosen \in [1..n -> sent], left \in [DOMAIN rows -> Row], new \in [1..n -> Wip] :
          ConfirmedAs(p, sent, given, n, chosen, left, new)
  BY Confirmed
<1>b. PICK chosen \in [1..n -> sent], left \in [DOMAIN rows -> Row], new \in [1..n -> Wip] :
        ConfirmedAs(p, sent, given, n, chosen, left, new)
  BY <1>a
<1> DEFINE plan == [todo |-> [i \in 1..n |-> [wip |-> Len(wips) + i, equip |-> given[chosen[i]]]],
                    failed |-> {}]
<1>1. /\ Len(wips) + n <= MaxWips
      /\ wips' = wips \o new /\ sample' = Taken([i \in 1..n |-> new[i].items])
      /\ Batchable([i \in 1..n |-> new[i].items])
  BY <1>b DEF ConfirmedAs
<1>2. /\ sample' \in [Samples -> {"incoming", "received", "batched", "gone"}]
      /\ wips' \in Seq(Wip) /\ Len(wips') <= MaxWips
      /\ DOMAIN wips' = 1..(Len(wips) + n) /\ Len(wips) \in Nat /\ DOMAIN wips = 1..Len(wips)
      /\ \A w \in 1..Len(wips) : wips'[w] = wips[w]
      /\ \A w \in (Len(wips) + 1)..(Len(wips) + n) : wips'[w] = new[w - Len(wips)]
      /\ TakenIsBatched' /\ WaferBatchedOnce'
  BY <1>1, BatchesTaken
<1>3. \A w \in DOMAIN wips' : (w \in DOMAIN wips /\ wips'[w] = wips[w])
                               \/ (w - Len(wips) \in 1..n /\ wips'[w] = new[w - Len(wips)])
  BY <1>2
<1>4. rows' = left /\ left \in Seq(Row) /\ Len(left) = Len(rows) /\ DOMAIN left = DOMAIN rows
  BY <1>b, Rewritten DEF ConfirmedAs, ProposalsInv, ProposalsTypeOK
<1>5. \A b \in DOMAIN rows : rows[b] \in Row
  BY SeqIsFunction DEF ProposalsInv, ProposalsTypeOK
<1>6. /\ proposal' \in [Proposals -> {"absent", "draft", "confirmed", "cancelled"}]
      /\ \A q \in Proposals : proposal'[q] = proposal[q] \/ (q = p /\ proposal'[q] = "confirmed")
  BY <1>b DEF ConfirmedAs, ProposalsInv, ProposalsTypeOK
\* A row that is not live any more is empty; a confirmed proposal has live rows no longer.
<1>7. RowsAreAccounted'
  <2> SUFFICES ASSUME NEW b \in DOMAIN rows
               PROVE  /\ proposal'[left[b].proposal] # "absent"
                      /\ ~left[b].live => left[b].items = {}
                      /\ proposal'[left[b].proposal] = "confirmed" => left[b].items = {}
    BY <1>4 DEF RowsAreAccounted
  <2>1. /\ left[b].proposal = rows[b].proposal /\ left[b].items \subseteq rows[b].items
        /\ ~left[b].live => ~rows[b].live \/ left[b].items = {}
        /\ rows[b].proposal \in Proposals
    BY <1>b, <1>5 DEF ConfirmedAs, Row
  <2>2. /\ proposal[rows[b].proposal] # "absent"
        /\ ~rows[b].live => rows[b].items = {}
        /\ proposal[rows[b].proposal] = "confirmed" => rows[b].items = {}
    BY DEF ProposalsInv, RowsAreAccounted
  <2>3. ~left[b].live => left[b].items = {}
    BY <2>1, <2>2
  <2>4. CASE proposal'[left[b].proposal] = proposal[left[b].proposal]
    BY <2>1, <2>2, <2>3, <2>4
  <2>5. CASE proposal'[left[b].proposal] # proposal[left[b].proposal]
    <3>1. left[b].proposal = p /\ ~left[b].live /\ proposal'[p] = "confirmed"
      BY <1>b, <1>6, <2>1, <2>5 DEF ConfirmedAs
    <3> QED
      BY <2>3, <3>1
  <2> QED
    BY <2>4, <2>5
<1>8. EditsNameRows'
  BY <1>b, <1>4 DEF ConfirmedAs, ProposalsInv, EditsNameRows
\* The plan of the confirmation names the new batches, each with the machine it was given.
<1>9. plan \in Plan /\ DOMAIN plan.todo = 1..n
      /\ \A i \in 1..n : plan.todo[i].wip = Len(wips) + i
  <2>1. ASSUME NEW i \in 1..n
        PROVE  [wip |-> Len(wips) + i, equip |-> given[chosen[i]]] \in PlanEntry
    <3>1. given[chosen[i]] \in Equipment \cup {None} /\ given[chosen[i]] # None
      BY <1>b DEF ConfirmedAs, BatchesOf
    <3>2. Len(wips) + i \in 1..MaxWips
      BY <1>1, <1>2, PlanningAssumption
    <3> QED
      BY <3>1, <3>2 DEF PlanEntry
  <2>2. plan.todo \in [1..n -> PlanEntry] /\ plan.failed = {}
    BY <2>1
  <2>3. plan.todo \in Seq(PlanEntry)
    BY <2>2, FunctionIsSeq
  <2> QED
    BY <2>2, <2>3 DEF Plan
<1>10. plans' = plans \cup {plan} /\ UNCHANGED <<machine, edits, crashes>>
  BY <1>b DEF ConfirmedAs
<1> HIDE DEF plan
<1>11. ProposalsTypeOK'
  BY <1>2, <1>4, <1>6, <1>9, <1>10 DEF ProposalsInv, ProposalsTypeOK
<1>12. \A i \in 1..n : new[i].status = "ready_for_dispatch"
  BY <1>b DEF ConfirmedAs
<1>13. DraftsAreTold'
  BY <1>3, <1>12 DEF ProposalsInv, DraftsAreTold
<1>14. LockedBatchIsFollowedUp'
  <2> SUFFICES ASSUME crashes = 0, NEW w \in DOMAIN wips',
                      wips'[w].status = "ready_for_dispatch", ~wips'[w].told
               PROVE  \E q \in plans' :
                        w \in q.failed \/ \E i \in DOMAIN q.todo : q.todo[i].wip = w
    BY <1>10 DEF LockedBatchIsFollowedUp
  <2>1. CASE w \in DOMAIN wips /\ wips'[w] = wips[w]
    BY <1>10, <2>1 DEF ProposalsInv, LockedBatchIsFollowedUp
  <2>2. CASE w - Len(wips) \in 1..n
    <3>1. plan.todo[w - Len(wips)].wip = w
      BY <1>2, <1>9, <2>2
    <3> QED
      BY <1>9, <1>10, <2>2, <3>1
  <2> QED
    BY <1>3, <2>1, <2>2
<1> QED
  BY <1>2, <1>7, <1>8, <1>11, <1>13, <1>14 DEF ProposalsInv
-----------------------------------------------------------------------------
(* The other actions                                                        *)

LEMMA LoadEditKeeps ==
  ASSUME ProposalsInv, LoadEdit
  PROVE  ProposalsInv'
<1>1. PICK b \in DOMAIN rows :
        /\ rows[b].live /\ proposal[rows[b].proposal] = "draft"
        /\ \/ edits' = edits \cup {[op |-> "update_batch", batch |-> b, equip |-> rows[b].equip]}
           \/ \E s \in rows[b].items :
                edits' = edits \cup {[op |-> "remove_item", batch |-> b, sample |-> s]}
  BY DEF LoadEdit
<1>2. b \in 1..MaxRows /\ rows[b] \in Row
  BY PlanningAssumption, SeqIsFunction DEF ProposalsInv, ProposalsTypeOK
<1>3. \E c \in Edit : c.batch = b /\ edits' = edits \cup {c}
  <2>1. CASE edits' = edits \cup {[op |-> "update_batch", batch |-> b, equip |-> rows[b].equip]}
    <3>1. [op |-> "update_batch", batch |-> b, equip |-> rows[b].equip] \in Edit
      BY <1>2 DEF Edit, Row
    <3> QED
      BY <2>1, <3>1
  <2>2. ASSUME NEW s \in rows[b].items,
               edits' = edits \cup {[op |-> "remove_item", batch |-> b, sample |-> s]}
        PROVE  \E c \in Edit : c.batch = b /\ edits' = edits \cup {c}
    <3>1. [op |-> "remove_item", batch |-> b, sample |-> s] \in Edit
      BY <1>2 DEF Edit, Row
    <3> QED
      BY <2>2, <3>1
  <2> QED
    BY <1>1, <2>1, <2>2
<1>4. ProposalsTypeOK' /\ EditsNameRows'
  BY <1>3 DEF LoadEdit, ProposalsInv, ProposalsTypeOK, EditsNameRows
<1> QED
  BY <1>4 DEF LoadEdit, ProposalsInv, TakenIsBatched, WaferBatchedOnce, RowsAreAccounted,
              DraftsAreTold, LockedBatchIsFollowedUp

\* The one step that brings a row back: it brings no wafers.
LEMMA UpdateBatchKeeps ==
  ASSUME ProposalsInv, NEW c \in edits, UpdateBatch(c)
  PROVE  ProposalsInv'
<1> DEFINE b == c.batch
<1>1. b \in DOMAIN rows /\ rows \in Seq(Row) /\ rows[b] \in Row /\ c \in Edit
  BY SeqIsFunction DEF ProposalsInv, ProposalsTypeOK, EditsNameRows
<1>2. PICK e \in {c.equip, None} \cup {f \in Capable[rows[b].recipe] : machine[f] # "offline"} :
        rows' = [rows EXCEPT ![b].equip = e, ![b].live = TRUE]
  BY DEF UpdateBatch
<1>3. c.equip \in Equipment \cup {None}
  BY <1>1 DEF UpdateBatch, Edit
<1>4. e \in Equipment \cup {None}
  BY <1>1, <1>2, <1>3, PlanningAssumption DEF Row
<1> DEFINE new == [[rows[b] EXCEPT !.equip = e] EXCEPT !.live = TRUE]
<1>5. /\ new \in Row /\ new.proposal = rows[b].proposal /\ new.items = rows[b].items
      /\ new.live
  BY <1>1, <1>4 DEF Row
<1>6. rows' = [rows EXCEPT ![b] = new]
  BY <1>1, <1>2
<1> HIDE DEF b, new
<1>7. /\ rows' \in [DOMAIN rows -> Row] /\ rows'[b] = new
      /\ \A d \in DOMAIN rows : d # b => rows'[d] = rows[d]
  BY <1>1, <1>5, <1>6, SeqIsFunction
<1>8. rows' \in Seq(Row) /\ Len(rows') = Len(rows) /\ DOMAIN rows' = DOMAIN rows
  BY <1>1, <1>7, Rewritten
<1>9. RowsAreAccounted'
  <2>1. ASSUME NEW d \in DOMAIN rows
        PROVE  /\ rows'[d].proposal = rows[d].proposal /\ rows'[d].items = rows[d].items
               /\ ~rows'[d].live => ~rows[d].live
    BY <1>5, <1>7
  <2> QED
    BY <1>8, <2>1 DEF UpdateBatch, ProposalsInv, RowsAreAccounted
<1>10. ProposalsTypeOK' /\ EditsNameRows'
  BY <1>8 DEF UpdateBatch, ProposalsInv, ProposalsTypeOK, EditsNameRows
<1> QED
  BY <1>9, <1>10 DEF UpdateBatch, ProposalsInv, TakenIsBatched, WaferBatchedOnce,
                     DraftsAreTold, LockedBatchIsFollowedUp

LEMMA RemoveItemKeeps ==
  ASSUME ProposalsInv, NEW c \in edits, RemoveItem(c)
  PROVE  ProposalsInv'
<1> DEFINE b == c.batch
           new == [rows[b] EXCEPT !.items = @ \ {c.sample}]
           table == [rows EXCEPT ![b] = new]
           R == WithoutEmptyBatches(rows[b].proposal, table)
<1>1. b \in DOMAIN rows /\ rows \in Seq(Row) /\ \A d \in DOMAIN rows : rows[d] \in Row
  BY SeqIsFunction DEF ProposalsInv, ProposalsTypeOK, EditsNameRows
<1>2. Shrunk(rows[b], new)
  BY <1>1 DEF Shrunk, Row
<1>3. rows' = R /\ edits' = edits \ {c}
  BY <1>1 DEF RemoveItem
<1> HIDE DEF b, new
<1>4. /\ table \in [DOMAIN rows -> Row]
      /\ \A d \in DOMAIN rows : Shrunk(rows[d], table[d])
  BY <1>1, <1>2, RowShrinksToItself DEF Shrunk
<1>5. table \in Seq(Row) /\ DOMAIN table = DOMAIN rows
  BY <1>1, <1>4, Rewritten
<1> HIDE DEF table
<1>6. R \in [DOMAIN rows -> Row] /\ \A d \in DOMAIN rows : Shrunk(table[d], R[d])
  BY <1>5, WithoutEmptyShrinks
<1> HIDE DEF R
<1>7. \A d \in DOMAIN rows : Shrunk(rows[d], R[d])
  BY <1>4, <1>6 DEF Shrunk
<1> QED
  BY <1>3, <1>6, <1>7, RowsShrink DEF RemoveItem

LEMMA PruneProposalKeeps ==
  ASSUME ProposalsInv, NEW p \in Proposals, PruneProposal(p)
  PROVE  ProposalsInv'
<1>1. rows \in Seq(Row) /\ rows' = Pruned(p)
  BY DEF ProposalsInv, ProposalsTypeOK, PruneProposal
<1>2. /\ Pruned(p) \in Seq(Row) /\ DOMAIN Pruned(p) = DOMAIN rows
      /\ \A b \in DOMAIN rows : Shrunk(rows[b], Pruned(p)[b])
  BY <1>1, PrunedShrinks
<1>3. Pruned(p) \in [DOMAIN rows -> Row]
  BY <1>2, SeqIsFunction
<1> QED
  BY <1>1, <1>2, <1>3, RowsShrink DEF PruneProposal

LEMMA CancelProposalKeeps ==
  ASSUME ProposalsInv, NEW p \in Proposals, CancelProposal(p)
  PROVE  ProposalsInv'
<1>1. ProposalsTypeOK'
  BY DEF CancelProposal, ProposalsInv, ProposalsTypeOK
<1>2. RowsAreAccounted'
  <2>a. rows \in Seq(Row)
    BY DEF ProposalsInv, ProposalsTypeOK
  <2>b. \A b \in DOMAIN rows : rows[b] \in Row
    BY <2>a, SeqIsFunction
  <2>1. \A b \in DOMAIN rows : rows[b].proposal \in Proposals
    BY <2>b DEF Row
  <2>2. \A q \in Proposals : proposal'[q] = proposal[q] \/ proposal'[q] = "cancelled"
    BY DEF CancelProposal, ProposalsInv, ProposalsTypeOK
  <2> QED
    BY <2>1, <2>2 DEF CancelProposal, ProposalsInv, RowsAreAccounted
<1> QED
  BY <1>1, <1>2 DEF CancelProposal, ProposalsInv, TakenIsBatched, WaferBatchedOnce,
                    EditsNameRows, DraftsAreTold, LockedBatchIsFollowedUp

\* A step that changes the state of batches, never their wafers.
LEMMA BatchesRewritten ==
  ASSUME ProposalsInv, NEW W \in [DOMAIN wips -> Wip], wips' = W,
         \A w \in DOMAIN wips : W[w].items = wips[w].items, UNCHANGED <<sample, rows>>
  PROVE  /\ wips' \in Seq(Wip) /\ Len(wips') = Len(wips) /\ DOMAIN wips' = DOMAIN wips
         /\ TakenIsBatched' /\ WaferBatchedOnce'
<1>1. W \in Seq(Wip) /\ Len(W) = Len(wips) /\ DOMAIN W = DOMAIN wips
  BY Rewritten DEF ProposalsInv, ProposalsTypeOK
<1> QED
  BY <1>1 DEF ProposalsInv, TakenIsBatched, WaferBatchedOnce

LEMMA BatchByHandKeeps ==
  ASSUME ProposalsInv, NEW w \in DOMAIN wips, BatchByHand(w)
  PROVE  ProposalsInv'
<1>1. /\ wips \in Seq(Wip) /\ \A v \in DOMAIN wips : wips[v] \in Wip
      /\ machine \in [Equipment -> {"idle", "working", "faulty", "offline"}]
  BY SeqIsFunction DEF ProposalsInv, ProposalsTypeOK
<1>2. PICK status \in {"cancelled", "ready_for_dispatch", "dispatching"} :
        /\ wips' = [wips EXCEPT ![w].status = status]
        /\ status = "ready_for_dispatch" => wips[w].status = "draft"
  BY DEF BatchByHand
<1> DEFINE new == [wips[w] EXCEPT !.status = status]
<1>3. /\ new \in Wip /\ new.items = wips[w].items /\ new.told = wips[w].told
      /\ new.status = status
  BY <1>1, <1>2 DEF Wip
<1> DEFINE W == [wips EXCEPT ![w] = new]
<1>4. wips' = W
  BY <1>1, <1>2
<1> HIDE DEF new
<1>5. W \in [DOMAIN wips -> Wip] /\ W[w] = new /\ \A v \in DOMAIN wips : v # w => W[v] = wips[v]
  BY <1>1, <1>3, SeqIsFunction
<1> HIDE DEF W
<1>6. \A v \in DOMAIN wips : W[v].items = wips[v].items
  BY <1>3, <1>5
<1>7. /\ wips' \in Seq(Wip) /\ Len(wips') = Len(wips) /\ DOMAIN wips' = DOMAIN wips
      /\ TakenIsBatched' /\ WaferBatchedOnce'
  BY <1>4, <1>5, <1>6, BatchesRewritten DEF BatchByHand
<1>8. machine' \in [Equipment -> {"idle", "working", "faulty", "offline"}]
  BY <1>1 DEF BatchByHand
<1>9. ProposalsTypeOK'
  BY <1>7, <1>8 DEF BatchByHand, ProposalsInv, ProposalsTypeOK
\* A batch that a lab user locks was a draft: the lab knows of it.
<1>10. DraftsAreTold' /\ LockedBatchIsFollowedUp'
  <2>1. \A v \in DOMAIN wips :
          v # w => wips'[v] = wips[v]
    BY <1>4, <1>5
  <2>2. wips'[w].status = "ready_for_dispatch" => wips'[w].told
    BY <1>2, <1>3, <1>4, <1>5 DEF ProposalsInv, DraftsAreTold
  <2>3. wips'[w].status # "draft"
    BY <1>2, <1>3, <1>4, <1>5
  <2> QED
    BY <1>7, <2>1, <2>2, <2>3 DEF BatchByHand, ProposalsInv, DraftsAreTold, LockedBatchIsFollowedUp
<1> QED
  BY <1>7, <1>9, <1>10 DEF BatchByHand, ProposalsInv, RowsAreAccounted, EditsNameRows

\* A plan whose next batch is done with follows the batches it followed, but for that one.
LEMMA PlanGoesOn ==
  ASSUME NEW plan \in Plan, plan.todo # <<>>
  PROVE  /\ Head(plan.todo) \in PlanEntry
         /\ \A failed \in SUBSET (1..MaxWips) :
              [plan EXCEPT !.todo = Tail(@), !.failed = failed] \in Plan
         /\ DOMAIN Tail(plan.todo) = 1..(Len(plan.todo) - 1)
         /\ \A i \in DOMAIN plan.todo :
              plan.todo[i] = Head(plan.todo)
              \/ (i - 1 \in DOMAIN Tail(plan.todo) /\ Tail(plan.todo)[i - 1] = plan.todo[i])
<1> DEFINE todo == plan.todo
<1>1. todo \in Seq(PlanEntry) /\ todo # <<>>
  BY DEF Plan
<1> HIDE DEF todo
<1>2. /\ Head(todo) \in PlanEntry /\ Tail(todo) \in Seq(PlanEntry) /\ Len(Tail(todo)) = Len(todo) - 1
      /\ \A i \in 1..Len(Tail(todo)) : Tail(todo)[i] = todo[i + 1]
  BY <1>1, HeadTailProperties
<1>3. Len(todo) \in Nat /\ DOMAIN todo = 1..Len(todo) /\ DOMAIN Tail(todo) = 1..(Len(todo) - 1)
  BY <1>1, <1>2, LenProperties
<1>4. ASSUME NEW i \in DOMAIN todo, i # 1
      PROVE  i - 1 \in DOMAIN Tail(todo) /\ Tail(todo)[i - 1] = todo[i]
  <2>1. i - 1 \in 1..Len(Tail(todo)) /\ (i - 1) + 1 = i
    BY <1>2, <1>3, <1>4
  <2> QED
    BY <1>2, <1>3, <2>1
<1>5. Head(todo) = todo[1]
  BY <1>1
<1>6. \A failed \in SUBSET (1..MaxWips) :
        [plan EXCEPT !.todo = Tail(@), !.failed = failed] \in Plan
  BY <1>2 DEF Plan, todo
<1> QED
  BY <1>2, <1>3, <1>4, <1>5, <1>6 DEF todo

LEMMA QueueDispatchKeeps ==
  ASSUME ProposalsInv, NEW plan \in plans, QueueDispatch(plan)
  PROVE  ProposalsInv'
<1> DEFINE entry == Head(plan.todo)
           further == [plan EXCEPT !.todo = Tail(@)]
           stepped == /\ wips[entry.wip].status = "ready_for_dispatch"
                      /\ wips' = [wips EXCEPT ![entry.wip].status = "dispatching"]
                      /\ machine' = [machine EXCEPT ![entry.equip] = "working"]
                      /\ plans' = (plans \ {plan}) \cup {further}
           refused == /\ plans' = (plans \ {plan}) \cup {Refused(plan)}
                      /\ UNCHANGED <<wips, machine>>
<1>1. plan \in Plan /\ plan.todo # <<>> /\ (stepped \/ refused)
  BY DEF QueueDispatch, ProposalsInv, ProposalsTypeOK
<1>2. /\ entry \in PlanEntry
      /\ \A failed \in SUBSET (1..MaxWips) :
           [plan EXCEPT !.todo = Tail(@), !.failed = failed] \in Plan
      /\ \A i \in DOMAIN plan.todo :
           plan.todo[i] = entry
           \/ (i - 1 \in DOMAIN Tail(plan.todo) /\ Tail(plan.todo)[i - 1] = plan.todo[i])
  BY <1>1, PlanGoesOn
<1>3. /\ further \in Plan /\ further.todo = Tail(plan.todo) /\ further.failed = plan.failed
  <2>1. further = [plan EXCEPT !.todo = Tail(@), !.failed = plan.failed] /\ plan.failed \in SUBSET (1..MaxWips)
    BY <1>1 DEF Plan
  <2> QED
    BY <1>1, <1>2, <2>1 DEF Plan
<1>4. /\ Refused(plan) \in Plan /\ Refused(plan).todo = Tail(plan.todo)
      /\ Refused(plan).failed = plan.failed \cup {entry.wip}
  <2>1. Refused(plan) = [plan EXCEPT !.todo = Tail(@), !.failed = plan.failed \cup {entry.wip}]
    BY <1>1 DEF Refused, Plan
  <2>2. plan.failed \cup {entry.wip} \in SUBSET (1..MaxWips)
    BY <1>1, <1>2 DEF Plan, PlanEntry
  <2> QED
    BY <1>1, <1>2, <2>1, <2>2 DEF Plan
<1>5. /\ wips \in Seq(Wip) /\ \A v \in DOMAIN wips : wips[v] \in Wip
      /\ machine \in [Equipment -> {"idle", "working", "faulty", "offline"}]
  BY SeqIsFunction DEF ProposalsInv, ProposalsTypeOK
\* The batches as they were, but for the one that is dispatched.
<1>6. PICK W \in [DOMAIN wips -> Wip] :
        /\ wips' = W
        /\ \A v \in DOMAIN wips : \/ W[v] = wips[v]
                                  \/ W[v].items = wips[v].items /\ W[v].status = "dispatching"
        /\ refused \/ (\A v \in DOMAIN wips : v = entry.wip => W[v].status = "dispatching")
  <2>1. CASE stepped
    <3> DEFINE new == [wips[entry.wip] EXCEPT !.status = "dispatching"]
    <3>1. wips' = [wips EXCEPT ![entry.wip] = new]
      BY <2>1
    <3>2. entry.wip \in DOMAIN wips =>
            new \in Wip /\ new.items = wips[entry.wip].items /\ new.status = "dispatching"
      BY <1>5 DEF Wip
    <3> HIDE DEF new, entry
    <3>3. /\ [wips EXCEPT ![entry.wip] = new] \in [DOMAIN wips -> Wip]
          /\ \A v \in DOMAIN wips :
               [wips EXCEPT ![entry.wip] = new][v] = IF v = entry.wip THEN new ELSE wips[v]
      BY <1>5, <3>2, SeqIsFunction
    <3> HIDE DEF stepped, refused
    <3> QED
      BY <3>1, <3>2, <3>3
  <2>2. CASE refused
    BY <1>5, <2>2, SeqIsFunction
  <2> QED
    BY <1>1, <2>1, <2>2
<1>7. \A v \in DOMAIN wips : W[v].items = wips[v].items
  BY <1>6
<1>8. /\ wips' \in Seq(Wip) /\ Len(wips') = Len(wips) /\ DOMAIN wips' = DOMAIN wips
      /\ TakenIsBatched' /\ WaferBatchedOnce'
  BY <1>6, <1>7, BatchesRewritten DEF QueueDispatch
<1>9. ProposalsTypeOK'
  <2>1. machine' \in [Equipment -> {"idle", "working", "faulty", "offline"}]
    BY <1>1, <1>5
  <2>2. plans' \subseteq Plan
    BY <1>1, <1>3, <1>4 DEF ProposalsInv, ProposalsTypeOK
  <2> QED
    BY <1>8, <2>1, <2>2 DEF QueueDispatch, ProposalsInv, ProposalsTypeOK
<1>10. DraftsAreTold'
  BY <1>6, <1>8 DEF ProposalsInv, DraftsAreTold
<1>11. LockedBatchIsFollowedUp'
  <2> SUFFICES ASSUME crashes = 0, NEW w \in DOMAIN wips,
                      wips'[w].status = "ready_for_dispatch", ~wips'[w].told
               PROVE  \E q \in plans' :
                        w \in q.failed \/ \E i \in DOMAIN q.todo : q.todo[i].wip = w
    BY <1>8 DEF QueueDispatch, LockedBatchIsFollowedUp
  <2>1. wips'[w] = wips[w] /\ (refused \/ w # entry.wip)
    BY <1>6
  <2>2. PICK q \in plans : w \in q.failed \/ \E i \in DOMAIN q.todo : q.todo[i].wip = w
    BY <2>1 DEF ProposalsInv, LockedBatchIsFollowedUp
  <2>3. CASE q # plan
    BY <1>1, <2>2, <2>3
  <2>4. PICK next \in {further, Refused(plan)} :
          /\ next \in plans' /\ next.todo = Tail(plan.todo) /\ plan.failed \subseteq next.failed
          /\ w = entry.wip => w \in next.failed
    BY <1>1, <1>3, <1>4, <2>1
  <2>5. CASE q = plan
    <3> HIDE DEF entry, further
    <3> QED
      BY <1>2, <2>2, <2>4, <2>5
  <2> QED
    BY <2>3, <2>5
<1> QED
  BY <1>8, <1>9, <1>10, <1>11 DEF QueueDispatch, ProposalsInv, RowsAreAccounted, EditsNameRows

LEMMA ReportPlanKeeps ==
  ASSUME ProposalsInv, NEW plan \in plans, ReportPlan(plan)
  PROVE  ProposalsInv'
<1> DEFINE W == [w \in DOMAIN wips |-> IF w \in plan.failed THEN [wips[w] EXCEPT !.told = TRUE]
                                        ELSE wips[w]]
<1>1. wips \in Seq(Wip) /\ \A v \in DOMAIN wips : wips[v] \in Wip
  BY SeqIsFunction DEF ProposalsInv, ProposalsTypeOK
<1>2. ASSUME NEW w \in DOMAIN wips
      PROVE  /\ W[w] \in Wip /\ W[w].items = wips[w].items /\ W[w].status = wips[w].status
             /\ wips[w].told => W[w].told
             /\ w \in plan.failed => W[w].told
  BY <1>1 DEF Wip
<1>3. wips' = W /\ plans' = plans \ {plan} /\ plan.todo = <<>>
  BY DEF ReportPlan
<1>4. W \in [DOMAIN wips -> Wip]
  BY <1>2
<1> HIDE DEF W
<1>5. /\ wips' \in Seq(Wip) /\ Len(wips') = Len(wips) /\ DOMAIN wips' = DOMAIN wips
      /\ TakenIsBatched' /\ WaferBatchedOnce'
  BY <1>2, <1>3, <1>4, BatchesRewritten DEF ReportPlan
<1>6. ProposalsTypeOK'
  BY <1>3, <1>5 DEF ReportPlan, ProposalsInv, ProposalsTypeOK
<1>7. DraftsAreTold'
  BY <1>2, <1>3, <1>5 DEF ProposalsInv, DraftsAreTold
\* The plan is done: what it follows is what failed, and the managers are told of it.
<1>8. LockedBatchIsFollowedUp'
  <2> SUFFICES ASSUME crashes = 0, NEW w \in DOMAIN wips,
                      wips'[w].status = "ready_for_dispatch", ~wips'[w].told
               PROVE  \E q \in plans' :
                        w \in q.failed \/ \E i \in DOMAIN q.todo : q.todo[i].wip = w
    BY <1>5 DEF ReportPlan, LockedBatchIsFollowedUp
  <2>1. wips[w].status = "ready_for_dispatch" /\ ~wips[w].told /\ w \notin plan.failed
    BY <1>2, <1>3
  <2>2. PICK q \in plans : w \in q.failed \/ \E i \in DOMAIN q.todo : q.todo[i].wip = w
    BY <2>1 DEF ProposalsInv, LockedBatchIsFollowedUp
  <2>3. q # plan
    BY <1>3, <2>1, <2>2
  <2> QED
    BY <1>3, <2>2, <2>3
<1> QED
  BY <1>5, <1>6, <1>7, <1>8 DEF ReportPlan, ProposalsInv, RowsAreAccounted, EditsNameRows

LEMMA LosePlanKeeps ==
  ASSUME ProposalsInv, NEW plan \in plans, LosePlan(plan)
  PROVE  ProposalsInv'
<1>1. crashes' \in 0..MaxCrashes /\ crashes' # 0
  BY PlanningAssumption DEF LosePlan, ProposalsInv, ProposalsTypeOK
<1> QED
  BY <1>1 DEF LosePlan, ProposalsInv, ProposalsTypeOK, TakenIsBatched, WaferBatchedOnce,
              RowsAreAccounted, EditsNameRows, DraftsAreTold, LockedBatchIsFollowedUp

\* A wafer that is received, rejected or batched elsewhere was in no batch from here.
LEMMA SampleChangesKeeps ==
  ASSUME ProposalsInv, NEW s \in Samples, SampleChanges(s)
  PROVE  ProposalsInv'
<1>1. /\ sample' \in [Samples -> {"incoming", "received", "batched", "gone"}]
      /\ \A t \in Samples : sample[t] = "batched" => sample'[t] = "batched"
  BY DEF SampleChanges, ProposalsInv, ProposalsTypeOK
<1>2. wips \in Seq(Wip) /\ \A w \in DOMAIN wips : wips[w].items \in SUBSET Samples
  <2>1. wips \in Seq(Wip) /\ \A w \in DOMAIN wips : wips[w] \in Wip
    BY SeqIsFunction DEF ProposalsInv, ProposalsTypeOK
  <2> QED
    BY <2>1 DEF Wip
<1>3. TakenIsBatched'
  BY <1>1, <1>2 DEF SampleChanges, ProposalsInv, TakenIsBatched
<1> QED
  BY <1>1, <1>3 DEF SampleChanges, ProposalsInv, ProposalsTypeOK, WaferBatchedOnce,
              RowsAreAccounted, EditsNameRows, DraftsAreTold, LockedBatchIsFollowedUp

LEMMA RestKeeps ==
  ASSUME ProposalsInv,
         \/ \E c \in edits : DropEdit(c)
         \/ \E e \in Equipment : MachineChanges(e)
         \/ UNCHANGED vars
  PROVE  ProposalsInv'
<1>1. CASE \E c \in edits : DropEdit(c)
  BY <1>1 DEF DropEdit, ProposalsInv, ProposalsTypeOK, TakenIsBatched, WaferBatchedOnce,
              RowsAreAccounted, EditsNameRows, DraftsAreTold, LockedBatchIsFollowedUp
<1>2. CASE \E e \in Equipment : MachineChanges(e)
  BY <1>2 DEF MachineChanges, ProposalsInv, ProposalsTypeOK, TakenIsBatched, WaferBatchedOnce,
              RowsAreAccounted, EditsNameRows, DraftsAreTold, LockedBatchIsFollowedUp
<1>3. CASE UNCHANGED vars
  BY <1>3 DEF vars, ProposalsInv, ProposalsTypeOK, TakenIsBatched, WaferBatchedOnce,
              RowsAreAccounted, EditsNameRows, DraftsAreTold, LockedBatchIsFollowedUp
<1> QED
  BY <1>1, <1>2, <1>3
-----------------------------------------------------------------------------
(* The invariant                                                            *)

LEMMA ProposalsInvInit == Init => ProposalsInv
<1> SUFFICES ASSUME Init PROVE ProposalsInv
  OBVIOUS
<1>1. /\ rows \in Seq(Row) /\ Len(rows) = 0 /\ DOMAIN rows = {}
      /\ wips \in Seq(Wip) /\ Len(wips) = 0 /\ DOMAIN wips = {}
  BY DEF Init
<1> QED
  BY <1>1, PlanningAssumption
     DEF Init, ProposalsInv, ProposalsTypeOK, TakenIsBatched, WaferBatchedOnce, RowsAreAccounted,
         EditsNameRows, DraftsAreTold, LockedBatchIsFollowedUp

LEMMA ProposalsInvStep == ProposalsInv /\ [Next]_vars => ProposalsInv'
<1> SUFFICES ASSUME ProposalsInv, [Next]_vars PROVE ProposalsInv'
  OBVIOUS
<1>1. CASE \E limit \in Limits : AutoCreate(limit) \/ \E p \in Proposals : AutoPropose(p, limit)
  BY <1>1, AutoCreateKeeps, AutoProposeKeeps
<1>2. CASE LoadEdit
  BY <1>2, LoadEditKeeps
<1>3. CASE \E c \in edits : UpdateBatch(c) \/ RemoveItem(c)
  BY <1>3, UpdateBatchKeeps, RemoveItemKeeps
<1>4. CASE \E p \in Proposals : PruneProposal(p) \/ CancelProposal(p) \/ ConfirmProposal(p)
  BY <1>4, PruneProposalKeeps, CancelProposalKeeps, ConfirmKeeps
<1>5. CASE \E plan \in plans : QueueDispatch(plan) \/ ReportPlan(plan) \/ LosePlan(plan)
  BY <1>5, QueueDispatchKeeps, ReportPlanKeeps, LosePlanKeeps
<1>6. CASE \E s \in Samples : SampleChanges(s)
  BY <1>6, SampleChangesKeeps
<1>7. CASE \E w \in DOMAIN wips : BatchByHand(w)
  BY <1>7, BatchByHandKeeps
<1>8. CASE \/ \E c \in edits : DropEdit(c)
           \/ \E e \in Equipment : MachineChanges(e)
           \/ UNCHANGED vars
  BY <1>8, RestKeeps
<1> QED
  BY <1>1, <1>2, <1>3, <1>4, <1>5, <1>6, <1>7, <1>8 DEF Next

LEMMA ProposalsInvAlways == Spec => []ProposalsInv
BY ProposalsInvInit, ProposalsInvStep, PTL DEF Spec
-----------------------------------------------------------------------------
(* Theorems                                                                 *)

\* Every table keeps its type and its bound: the proposals, their rows and items, the batches,
\* the plans of the callbacks, the edits.
THEOREM ProposalsTypeCorrect == Spec => []ProposalsTypeOK
<1>1. ProposalsInv => ProposalsTypeOK
  BY DEF ProposalsInv
<1> QED
  BY <1>1, ProposalsInvAlways, PTL

\* A wafer is in at most one batch: create_wip refuses a wafer that does not wait, and a wafer
\* of a batch never waits again.
THEOREM WafersAreBatchedOnce == Spec => []WaferBatchedOnce
<1>1. ProposalsInv => WaferBatchedOnce
  BY DEF ProposalsInv
<1> QED
  BY <1>1, ProposalsInvAlways, PTL

\* A confirmed proposal has no wafer left: update_proposal_batch brings a deleted row back,
\* but its items went with it (on_delete=CASCADE).
THEOREM ConfirmedProposalsAreEmpty == Spec => []ConfirmedProposalHasNoWafer
<1>1. ProposalsInv => ConfirmedProposalHasNoWafer
  BY DEF ProposalsInv, RowsAreAccounted, ConfirmedProposalHasNoWafer, BatchesOf
<1> QED
  BY <1>1, ProposalsInvAlways, PTL

\* As long as no process died in queue_dispatches, a batch that confirm_proposal locked is
\* dispatched, cancelled, still in a plan or reported to the managers.
THEOREM LockedBatchesAreFollowedUp == Spec => []LockedBatchIsFollowedUp
<1>1. ProposalsInv => LockedBatchIsFollowedUp
  BY DEF ProposalsInv
<1> QED
  BY <1>1, ProposalsInvAlways, PTL

\* Only a confirmation starts a plan and takes wafers.
LEMMA OnlyConfirmationTakes ==
  ASSUME ProposalsInv, [Next]_vars, NEW s \in Samples,
         plans' \ plans # {}, sample[s] # "batched", sample'[s] = "batched"
  PROVE  \E p \in Proposals : ConfirmProposal(p)
<1>1. CASE \E limit \in Limits : AutoCreate(limit) \/ \E p \in Proposals : AutoPropose(p, limit)
  BY <1>1 DEF AutoCreate, AutoPropose
<1>2. CASE \/ LoadEdit \/ \E c \in edits : UpdateBatch(c) \/ RemoveItem(c) \/ DropEdit(c)
  BY <1>2 DEF LoadEdit, UpdateBatch, RemoveItem, DropEdit
<1>3. CASE \E p \in Proposals : PruneProposal(p) \/ CancelProposal(p)
  BY <1>3 DEF PruneProposal, CancelProposal
<1>4. CASE \E plan \in plans : QueueDispatch(plan) \/ ReportPlan(plan) \/ LosePlan(plan)
  BY <1>4 DEF QueueDispatch, ReportPlan, LosePlan
<1>5. CASE \/ \E t \in Samples : SampleChanges(t)
           \/ \E e \in Equipment : MachineChanges(e)
           \/ \E w \in DOMAIN wips : BatchByHand(w)
           \/ UNCHANGED vars
  BY <1>5 DEF SampleChanges, MachineChanges, BatchByHand, vars
<1> QED
  BY <1>1, <1>2, <1>3, <1>4, <1>5 DEF Next

\* A confirmation takes only wafers of rows that the page showed as ready, of a draft: the
\* machine it gives a row is the row's own or one that is idle and supports its recipe.
THEOREM ConfirmationsTakeWhatIsReady == Spec => ConfirmTakesWhatIsReady
<1> DEFINE A == \A s \in Samples :
                  plans' \ plans # {} /\ sample[s] # "batched" /\ sample'[s] = "batched" =>
                    \E b \in DOMAIN rows : /\ rows[b].live /\ s \in rows[b].items /\ ShownReady(b)
                                          /\ proposal[rows[b].proposal] = "draft"
<1>1. ProposalsInv /\ [Next]_vars => A
  <2> SUFFICES ASSUME ProposalsInv, [Next]_vars, NEW s \in Samples,
                      plans' \ plans # {}, sample[s] # "batched", sample'[s] = "batched"
               PROVE  \E b \in DOMAIN rows :
                        /\ rows[b].live /\ s \in rows[b].items /\ ShownReady(b)
                        /\ proposal[rows[b].proposal] = "draft"
    OBVIOUS
  <2>1. PICK p \in Proposals : ConfirmProposal(p)
    BY OnlyConfirmationTakes
  <2>2. PICK sent \in SUBSET BatchesOf(p), given \in [DOMAIN rows -> Equipment \cup {None}],
             n \in Nat :
          \E chosen \in [1..n -> sent], left \in [DOMAIN rows -> Row], new \in [1..n -> Wip] :
            ConfirmedAs(p, sent, given, n, chosen, left, new)
    BY <2>1, Confirmed
  <2>3. PICK chosen \in [1..n -> sent], left \in [DOMAIN rows -> Row], new \in [1..n -> Wip] :
          ConfirmedAs(p, sent, given, n, chosen, left, new)
    BY <2>2
  <2>4. PICK i \in 1..n : s \in rows[chosen[i]].items
    BY <2>3 DEF ConfirmedAs, Taken
  <2>5. chosen[i] \in sent /\ chosen[i] \in BatchesOf(p)
    OBVIOUS
  <2>6. proposal[p] = "draft" /\ ShownReady(chosen[i])
    BY <2>3, <2>5 DEF ConfirmedAs
  <2> QED
    BY <2>4, <2>5, <2>6 DEF BatchesOf
<1>2. ProposalsInv /\ [Next]_vars => [A]_vars
  BY <1>1
<1> HIDE DEF A
<1>3. Spec => [][A]_vars
  BY <1>2, ProposalsInvAlways, PTL DEF Spec
<1> QED
  BY <1>3 DEF A, ConfirmTakesWhatIsReady
=============================================================================
