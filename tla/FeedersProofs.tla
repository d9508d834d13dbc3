---------------------------- MODULE FeedersProofs ----------------------------
(***************************************************************************)
(* Proofs about Feeders: what the lanes bring is true of the chain, so is  *)
(* what the writer makes of it, also when it is cut off between two writes;*)
(* and what the feeders report is accounted for.                           *)
(***************************************************************************)
EXTENDS Feeders, SlotIngestProofs, FiniteSetTheorems

-----------------------------------------------------------------------------
(* Sequences, as sets of elements. *)

\* Taking the first element of a queue.
LEMMA TailFacts ==
  ASSUME NEW T, NEW q \in Seq(T), q # <<>>
  PROVE  /\ Tail(q) \in Seq(T) /\ Len(Tail(q)) = Len(q) - 1
         /\ Head(q) \in T
         /\ Range(q) = {Head(q)} \cup Range(Tail(q))
<1>1. Tail(q) \in Seq(T) /\ Len(Tail(q)) = Len(q) - 1 /\ Len(q) > 0
  OBVIOUS
<1>2. \A i \in DOMAIN Tail(q) : i + 1 \in DOMAIN q /\ Tail(q)[i] = q[i + 1]
  OBVIOUS
<1>3. Head(q) \in T /\ 1 \in DOMAIN q /\ Head(q) = q[1]
  OBVIOUS
<1>4. \A i \in DOMAIN q : i = 1 \/ (i - 1 \in DOMAIN Tail(q) /\ Tail(q)[i - 1] = q[i])
  OBVIOUS
<1>5. ASSUME NEW x \in Range(q) PROVE x \in {Head(q)} \cup Range(Tail(q))
  BY <1>3, <1>4 DEF Range
<1>6. ASSUME NEW x \in {Head(q)} \cup Range(Tail(q)) PROVE x \in Range(q)
  BY <1>2, <1>3 DEF Range
<1> QED BY <1>1, <1>3, <1>5, <1>6

\* Adding an element to a queue.
LEMMA AppendFacts ==
  ASSUME NEW T, NEW q \in Seq(T), NEW x \in T
  PROVE  /\ Append(q, x) \in Seq(T) /\ Len(Append(q, x)) = Len(q) + 1
         /\ Range(Append(q, x)) = Range(q) \cup {x}
<1>1. Append(q, x) \in Seq(T) /\ Len(Append(q, x)) = Len(q) + 1
  OBVIOUS
<1>2. \A i \in DOMAIN Append(q, x) :
        \/ i \in DOMAIN q /\ Append(q, x)[i] = q[i]
        \/ i = Len(q) + 1 /\ Append(q, x)[i] = x
  OBVIOUS
<1>3. /\ \A i \in DOMAIN q : i \in DOMAIN Append(q, x) /\ Append(q, x)[i] = q[i]
      /\ Len(q) + 1 \in DOMAIN Append(q, x) /\ Append(q, x)[Len(q) + 1] = x
  OBVIOUS
<1>4. ASSUME NEW y \in Range(Append(q, x)) PROVE y \in Range(q) \cup {x}
  BY <1>2 DEF Range
<1>5. ASSUME NEW y \in Range(q) \cup {x} PROVE y \in Range(Append(q, x))
  BY <1>3 DEF Range
<1> QED BY <1>1, <1>4, <1>5

\* The empty queue.
LEMMA EmptyFacts == Range(<<>>) = {} /\ Len(<<>>) = 0 /\ \A T : <<>> \in Seq(T)
BY DEF Range

\* A queue holds elements of its type.
LEMMA RangeType ==
  ASSUME NEW T, NEW q \in Seq(T)
  PROVE  Range(q) \subseteq T
BY DEF Range

\* The community modules' sequence of a finite set.
LEMMA SetToSeqFacts ==
  ASSUME NEW S, IsFiniteSet(S)
  PROVE  SetToSeq(S) \in Seq(S) /\ Len(SetToSeq(S)) = Cardinality(S)
<1>1. Cardinality(S) \in Nat /\ ExistsBijection(1..Cardinality(S), S)
  BY FS_CardinalityType
<1>2. PICK f \in Bijection(1..Cardinality(S), S) : TRUE
  BY <1>1 DEF ExistsBijection
<1>3. f \in [1..Cardinality(S) -> S] /\ IsInjective(f)
  BY <1>2 DEF Bijection, Injection, Surjection, IsInjective
<1>4. SetToSeq(S) \in [1..Cardinality(S) -> S]
  BY <1>3 DEF SetToSeq
<1> QED BY <1>1, <1>4

-----------------------------------------------------------------------------
(* The order in which a pass visits its slots. *)

\* Division of a number by the number of threads.
LEMMA DivFacts ==
  ASSUME NEW T \in Nat \ {0}, NEW k \in Nat
  PROVE  /\ k \div T \in Nat /\ k % T \in 0 .. T - 1
         /\ \A m \in Nat : k < m * T => k \div T < m
OBVIOUS

\* Every pair of quotient and remainder comes from one number.
LEMMA DivBack ==
  ASSUME NEW T \in Nat \ {0}, NEW a \in Nat, NEW b \in 0 .. T - 1
  PROVE  /\ a * T + b \in Nat
         /\ (a * T + b) \div T = a /\ (a * T + b) % T = b
         /\ \A m \in Nat : a < m => a * T + b < m * T
<1>1. (a * T + b) \div T = a /\ (a * T + b) % T = b /\ a * T + b \in Nat
  OBVIOUS
<1>2. ASSUME NEW m \in Nat, a < m PROVE a * T + b < m * T
  <2>1. (a + 1) * T <= m * T
    BY <1>2
  <2>2. (a + 1) * T = a * T + T
    OBVIOUS
  <2> QED BY <2>1, <2>2
<1> QED BY <1>1, <1>2

Between(lo, hi) == {s \in Slots : lo <= s[1] /\ s[1] <= hi}

\* Downward visits each slot of the periods, and no other.
LEMMA DownwardFacts ==
  ASSUME NEW lo \in Nat, NEW hi \in 0 .. MaxPeriod
  PROVE  Downward(lo, hi) \in Seq(Slots) /\ Range(Downward(lo, hi)) = Between(lo, hi)
<1> DEFINE T == ThreadCount
           n == (hi - lo + 1) * T
           d == Downward(lo, hi)
<1>0. T \in Nat \ {0} /\ MaxPeriod \in Nat /\ n \in Int
  BY StoreAssumption
<1>1. d = [i \in 1 .. n |-> <<hi - (i - 1) \div T, (i - 1) % T>>]
  BY DEF Downward
<1>2. CASE hi < lo
  <2>1. n <= 0
    BY <1>0, <1>2
  <2>2. 1 .. n = {}
    BY <1>0, <2>1
  <2>3. d = <<>>
    BY <1>1, <2>2
  <2>4. Between(lo, hi) = {}
    BY <1>0, <1>2 DEF Between, Slots
  <2> QED BY <2>3, <2>4, EmptyFacts
<1>3. CASE lo <= hi
  <2> DEFINE m == hi - lo + 1
  <2>1. n \in Nat /\ m \in Nat /\ n = m * T
    BY <1>0, <1>3
  <2> HIDE DEF n, d, m
  <2>2. ASSUME NEW i \in 1 .. n
        PROVE  /\ (i - 1) \div T \in 0 .. (m - 1)
               /\ (i - 1) % T \in 0 .. T - 1
    <3>1. i - 1 \in Nat /\ i - 1 < m * T
      BY <2>1
    <3>2. ASSUME NEW k \in Nat, k < m * T
          PROVE  k \div T \in 0 .. (m - 1) /\ k % T \in 0 .. T - 1
      <4>1. k \div T \in Nat /\ k % T \in 0 .. T - 1 /\ k \div T < m
        BY <1>0, <2>1, <3>2, DivFacts
      <4> HIDE DEF T
      <4> QED BY <2>1, <4>1
    <3> HIDE DEF T
    <3> QED BY <3>1, <3>2
  <2>3. ASSUME NEW i \in 1 .. n
        PROVE  d[i] \in Between(lo, hi)
    <3>1. hi - (i - 1) \div T \in 0 .. MaxPeriod /\ lo <= hi - (i - 1) \div T
          /\ hi - (i - 1) \div T <= hi
      BY <1>0, <1>3, <2>2 DEF m
    <3>2. d[i] = <<hi - (i - 1) \div T, (i - 1) % T>>
      BY <1>1
    <3>3. (hi - (i - 1) \div T) \in 0 .. MaxPeriod /\ ((i - 1) % T) \in 0 .. T - 1
      BY <2>2, <3>1
    <3>4. d[i] \in Slots /\ d[i][1] = hi - (i - 1) \div T
      BY <3>2, <3>3 DEF Slots, Threads
    <3> QED BY <3>1, <3>4 DEF Between
  <2>4. d \in [1 .. n -> Slots]
    BY <1>1, <2>3 DEF Between
  <2>5. d \in Seq(Slots)
    <3> HIDE DEF T
    <3> QED BY <2>1, <2>4
  <2>6. ASSUME NEW s \in Between(lo, hi)
        PROVE  s \in Range(d)
    <3> DEFINE a == hi - s[1]
               k == a * T + s[2]
    <3>1. s = <<s[1], s[2]>> /\ s[1] \in 0 .. MaxPeriod /\ s[2] \in 0 .. T - 1
          /\ lo <= s[1] /\ s[1] <= hi
      BY DEF Between, Slots, Threads
    <3>2. a \in Nat /\ a < m
      BY <1>0, <1>3, <3>1 DEF m
    <3>3. k \in Nat /\ k \div T = a /\ k % T = s[2] /\ k < m * T
      <4> HIDE DEF a
      <4> QED BY <1>0, <2>1, <3>1, <3>2, DivBack
    <3>4. k + 1 \in 1 .. n /\ (k + 1) - 1 = k
      <4> HIDE DEF k
      <4> QED BY <2>1, <3>3
    <3>5. d[k + 1] = <<hi - k \div T, k % T>>
      <4> HIDE DEF k
      <4> QED BY <1>1, <3>4
    <3>6. d[k + 1] = s
      <4>1. hi - a = s[1]
        BY <1>0, <3>1
      <4> HIDE DEF k, a
      <4> QED BY <3>1, <3>3, <3>5, <4>1
    <3> HIDE DEF k
    <3> QED BY <2>4, <3>4, <3>6 DEF Range
  <2>7. Range(d) \subseteq Between(lo, hi)
    BY <2>3, <2>4 DEF Range
  <2> QED BY <2>5, <2>6, <2>7 DEF d
<1> QED BY <1>0, <1>2, <1>3

-----------------------------------------------------------------------------
(* What the rows say is true of the chain. *)

\* The row r of s, with the events of s and the block rows.
RowTold(r, s, evs, blocks) ==
  /\ RowShape(r, s)
  /\ r.status = "Final" => VerdictOf(r) = Chain[s]
  /\ r.exec_final =>
       /\ r.status = "Final" /\ evs[s] = Chain[s]
       /\ \A b \in r.candidates : blocks[b] # "SeenCandidate"

StatusTold(b, status) ==
  /\ status = "Final" => Chain[BlockSlot[b]] = b
  /\ status = "Discarded" => Chain[BlockSlot[b]] # b

RowsTrue   == \A s \in Slots : row[s] # None => RowTold(row[s], s, events, block)
BlocksTrue == \A b \in Blocks : StatusTold(b, block[b])

TruthInv == TypeOK /\ RowsTrue /\ BlocksTrue

\* What a FINAL row keeps when its slot is written again.
Keeps(r, q) ==
  /\ q.status = "Final" /\ q.is_miss = r.is_miss /\ q.final = r.final
  /\ r.body => q.body
  /\ r.exec_final => q.exec_final
  /\ r.transfers => q.transfers
  /\ r.trail \in {None, q.trail}
  /\ r.executed # {} => q.executed = r.executed

KeptAt(s) ==
  IsFinal(row, s) => /\ row'[s] # None /\ Keeps(row[s], row'[s])
                     /\ transfers[s] # {} => transfers'[s] # {}

Grows == \A s \in Slots : KeptAt(s)

\* A FINAL row keeps all it has when nothing is written.
LEMMA KeepsItself == \A r \in SlotRow : r.status = "Final" => Keeps(r, r)
BY DEF Keeps

\* Only the events, transfers and blocks of s are written.
OnlyAt(s) ==
  /\ \A x \in Slots : x # s => events'[x] = events[x] /\ transfers'[x] = transfers[x]
  /\ OthersKept(block, block', s)

\* A row of another slot is told as before.
LEMMA OthersTold ==
  ASSUME TruthInv, NEW s \in Slots, NEW x \in Slots, x # s, OnlyAt(s), row[x] # None
  PROVE  RowTold(row[x], x, events', block')
<1>1. RowTold(row[x], x, events, block) /\ row[x] \in SlotRow
  BY DEF TruthInv, RowsTrue, TypeOK
<1>2. \A b \in row[x].candidates : b \in Blocks /\ BlockSlot[b] = x
  BY <1>1 DEF RowTold, RowShape, SlotRow
<1>3. \A b \in row[x].candidates : block'[b] = block[b]
  BY <1>2 DEF OnlyAt, OthersKept
<1> QED BY <1>1, <1>3 DEF RowTold, OnlyAt

(***************************************************************************)
(* A step that writes a true row at s, perhaps stubs the parent slot, and  *)
(* leaves true statuses of the blocks of s, keeps everything true.         *)
(***************************************************************************)
LEMMA TruthStep ==
  ASSUME TruthInv, NEW s \in Slots, NEW q \in SlotRow, Written(s, q), OnlyAt(s),
         RowTold(q, s, events', block'),
         \A b \in Blocks : BlockSlot[b] = s => StatusTold(b, block'[b]),
         IsFinal(row, s) => /\ Keeps(row[s], q)
                            /\ transfers[s] # {} => transfers'[s] # {}
  PROVE  RowsTrue' /\ BlocksTrue' /\ Grows
<1>1. TypeOK
  BY DEF TruthInv
<1>2. PICK p \in Slots : \A x \in Slots :
        x # s => row'[x] = IF x = p /\ row[x] = None THEN FreshRow ELSE row[x]
  BY <1>1, RowsAfter
<1>3. row'[s] = q /\ q # None
  BY <1>1, RowsAfter, AbsentAssumption
<1>4. \A x \in Slots : RowTold(FreshRow, x, events', block')
  BY DEF RowTold, RowShape, FreshRow
<1>5. RowsTrue'
  <2> SUFFICES ASSUME NEW x \in Slots, row'[x] # None
               PROVE  RowTold(row'[x], x, events', block')
    BY DEF RowsTrue
  <2>1. CASE x = s
    BY <1>3, <2>1
  <2>2. CASE x # s /\ row[x] # None
    BY <1>2, <2>2, OthersTold
  <2>3. CASE x # s /\ row[x] = None
    BY <1>2, <1>4, <2>3
  <2> QED BY <2>1, <2>2, <2>3
<1>6. BlocksTrue'
  BY DEF BlocksTrue, TruthInv, OnlyAt, OthersKept
<1>7. Grows
  <2> SUFFICES ASSUME NEW x \in Slots, IsFinal(row, x) PROVE KeptAt(x)
    BY DEF Grows, KeptAt
  <2>1. CASE x = s
    BY <1>3, <2>1 DEF KeptAt
  <2>2. CASE x # s
    <3>1. row'[x] = row[x] /\ row[x] # None /\ row[x] \in SlotRow /\ row[x].status = "Final"
      BY <1>1, <1>2, <2>2 DEF IsFinal, TypeOK
    <3> QED BY <2>2, <3>1, KeepsItself DEF KeptAt, OnlyAt
  <2> QED BY <2>1, <2>2
<1> QED BY <1>5, <1>6, <1>7

\* The row before a handler, or a fresh one, is true.
LEMMA TruthAt ==
  ASSUME TruthInv, NEW s \in Slots
  PROVE  /\ Row(s) \in SlotRow
         /\ RowTold(Row(s), s, events, block)
         /\ \A b \in Row(s).candidates : b \in Blocks /\ BlockSlot[b] = s
         /\ IsFinal(row, s) <=> Row(s).status = "Final"
         /\ IsFinal(row, s) => Row(s) = row[s]
<1>1. Row(s) \in SlotRow
  BY RowType DEF TruthInv
<1>2. RowTold(FreshRow, s, events, block)
  BY DEF RowTold, RowShape, FreshRow
<1>3. RowTold(Row(s), s, events, block)
  BY <1>2 DEF TruthInv, RowsTrue, Row, RowOrFresh
<1>4. \A b \in Row(s).candidates : b \in Blocks /\ BlockSlot[b] = s
  BY <1>1, <1>3 DEF RowTold, RowShape, SlotRow
<1>5. /\ IsFinal(row, s) <=> Row(s).status = "Final"
      /\ IsFinal(row, s) => Row(s) = row[s]
  BY DEF IsFinal, Row, RowOrFresh, FreshRow
<1> QED BY <1>1, <1>3, <1>4, <1>5

\* apply_finality_to_blocks by a true verdict leaves true statuses.
LEMMA SettledTrue ==
  ASSUME NEW blocks \in Bodies, NEW s \in Slots, NEW q \in SlotRow, RowShape(q, s),
         q.status = "Final", VerdictOf(q) = Chain[s],
         \A b \in Blocks : BlockSlot[b] = s =>
           StatusTold(b, blocks[b]) \/ b \in q.candidates \/ b = q.final
  PROVE  LET n == SettleBlocks(blocks, q.final, q.candidates) IN
         /\ OthersKept(blocks, n, s)
         /\ \A b \in Blocks : BlockSlot[b] = s => StatusTold(b, n[b])
         /\ \A b \in q.candidates : n[b] # "SeenCandidate"
<1> DEFINE n == SettleBlocks(blocks, q.final, q.candidates)
<1>1. /\ q.final \in Blocks \cup {None} /\ q.candidates \subseteq Blocks
      /\ \A b \in q.candidates : BlockSlot[b] = s
      /\ q.final # None => BlockSlot[q.final] = s
      /\ None \notin Blocks /\ Miss \notin Blocks
  BY StoreAssumption DEF SlotRow, RowShape
<1>2. \A b \in Blocks : n[b] = IF blocks[b] = None THEN None
                               ELSE IF b = q.final THEN "Final"
                               ELSE IF b \in q.candidates THEN "Discarded" ELSE blocks[b]
  BY DEF SettleBlocks
<1> HIDE DEF n
<1>3. OthersKept(blocks, n, s)
  BY <1>1, <1>2 DEF OthersKept
<1>4. q.final # None => Chain[s] = q.final
  BY DEF VerdictOf, RowShape
<1>5. q.final = None => Chain[s] \notin Blocks
  BY <1>1 DEF VerdictOf, RowShape
<1>6. None \notin BlockStatus
  BY StoreAssumption
<1>7. ASSUME NEW b \in Blocks, BlockSlot[b] = s
      PROVE  StatusTold(b, n[b])
  <2>1. CASE blocks[b] = None
    BY <1>2, <1>6, <2>1 DEF StatusTold, BlockStatus
  <2>2. CASE blocks[b] # None /\ b = q.final
    BY <1>2, <1>4, <1>1, <1>7, <2>2 DEF StatusTold
  <2>3. CASE blocks[b] # None /\ b # q.final /\ b \in q.candidates
    BY <1>2, <1>4, <1>5, <1>7, <2>3 DEF StatusTold
  <2>4. CASE blocks[b] # None /\ b # q.final /\ b \notin q.candidates
    BY <1>2, <1>7, <2>4
  <2> QED BY <2>1, <2>2, <2>3, <2>4
<1>8. \A b \in q.candidates : n[b] # "SeenCandidate"
  BY <1>1, <1>2, <1>6 DEF BlockStatus
<1> QED BY <1>3, <1>7, <1>8 DEF n

-----------------------------------------------------------------------------
(* Every handler keeps the rows true and what is FINAL settled. *)

\* The arrival of a body gives a true status, and a settled one at a FINAL slot.
LEMMA ArrivedTrue ==
  ASSUME TruthInv, NEW b \in Blocks
  PROVE  LET n == Arrived(block[b], Row(BlockSlot[b]), b) IN
         /\ StatusTold(b, n)
         /\ Row(BlockSlot[b]).status = "Final" => n # "SeenCandidate"
<1> DEFINE s == BlockSlot[b]
           r == Row(s)
           n == Arrived(block[b], r, b)
<1>1. s \in Slots
  BY StoreAssumption
<1>2. r \in SlotRow /\ RowTold(r, s, events, block)
  BY <1>1, TruthAt
<1>3. StatusTold(b, block[b]) /\ block[b] \in BlockStatus \cup {None}
  BY DEF TruthInv, BlocksTrue, TypeOK
<1>4. None \notin Blocks /\ Miss \notin Blocks
  BY StoreAssumption
<1> HIDE DEF r, s
<1>5. r.status = "Final" => (r.final = b <=> Chain[s] = b)
  BY <1>2, <1>4 DEF RowTold, VerdictOf, RowShape
<1>6. /\ block[b] \notin {None, "SeenCandidate"} => n = block[b]
      /\ block[b] \in {None, "SeenCandidate"} =>
           n = IF r.status # "Final" THEN "SeenCandidate"
               ELSE IF r.final = b THEN "Final" ELSE "Discarded"
  BY DEF Arrived, ArrivalStatus
<1> HIDE DEF n
<1>7. StatusTold(b, n) /\ (r.status = "Final" => n # "SeenCandidate")
  BY <1>3, <1>5, <1>6 DEF StatusTold, s
<1> QED BY <1>7 DEF n, r, s

\* What handle_block makes of the slot row.
BodySeen(r, b) ==
  [r EXCEPT !.candidates = @ \cup {b},
            !.body = TRUE,
            !.status = IF @ = "Unknown" THEN "Candidate" ELSE @]

LEMMA BodySeenFacts ==
  ASSUME NEW r \in SlotRow, NEW b \in Blocks
  PROVE  /\ BodySeen(r, b) \in SlotRow
         /\ BodySeen(r, b).status = "Final" <=> r.status = "Final"
         /\ BodySeen(r, b).is_miss = r.is_miss /\ BodySeen(r, b).final = r.final
         /\ BodySeen(r, b).candidates = r.candidates \cup {b}
         /\ BodySeen(r, b).body /\ BodySeen(r, b).exec_final = r.exec_final
         /\ BodySeen(r, b).transfers = r.transfers
         /\ BodySeen(r, b).trail = r.trail /\ BodySeen(r, b).executed = r.executed
BY DEF BodySeen, SlotRow, SlotStatus

\* The slot row and the block row of a body, whole or cut off before the stub.
LEMMA TruthBody ==
  ASSUME TruthInv, NEW b \in Blocks,
         block' = [block EXCEPT ![b] = Arrived(@, Row(BlockSlot[b]), b)],
         Written(BlockSlot[b], BodySeen(Row(BlockSlot[b]), b)),
         UNCHANGED <<events, transfers>>
  PROVE  RowsTrue' /\ BlocksTrue' /\ Grows
<1> DEFINE s == BlockSlot[b]
           r == Row(s)
           q == BodySeen(r, b)
<1>1. s \in Slots
  BY StoreAssumption
<1>2. /\ r \in SlotRow /\ RowTold(r, s, events, block)
      /\ \A c \in r.candidates : c \in Blocks /\ BlockSlot[c] = s
      /\ IsFinal(row, s) <=> r.status = "Final"
      /\ IsFinal(row, s) => r = row[s]
  BY <1>1, TruthAt
<1>3. \A c \in Blocks : c # b => block'[c] = block[c]
  BY DEF TruthInv, TypeOK
<1>4. StatusTold(b, block'[b]) /\ (r.status = "Final" => block'[b] # "SeenCandidate")
  BY ArrivedTrue DEF TruthInv, TypeOK
<1>5. OnlyAt(s)
  BY <1>3 DEF OnlyAt, OthersKept
<1>6. /\ q \in SlotRow
      /\ q.status = "Final" <=> r.status = "Final"
      /\ q.is_miss = r.is_miss /\ q.final = r.final
      /\ q.candidates = r.candidates \cup {b}
      /\ q.body /\ q.exec_final = r.exec_final /\ q.transfers = r.transfers
      /\ q.trail = r.trail /\ q.executed = r.executed
  BY <1>2, BodySeenFacts
<1>7. Written(s, q)
  OBVIOUS
<1> HIDE DEF q, r
<1>8. RowShape(q, s)
  BY <1>2, <1>6 DEF RowTold, RowShape, s
<1>9. RowTold(q, s, events', block')
  BY <1>2, <1>3, <1>4, <1>6, <1>8 DEF RowTold, VerdictOf
<1>10. \A c \in Blocks : BlockSlot[c] = s => StatusTold(c, block'[c])
  BY <1>3, <1>4 DEF TruthInv, BlocksTrue
<1>11. IsFinal(row, s) => Keeps(row[s], q) /\ (transfers[s] # {} => transfers'[s] # {})
  BY <1>2, <1>6 DEF Keeps
<1> HIDE DEF s
<1> QED BY <1>1, <1>5, <1>6, <1>7, <1>9, <1>10, <1>11, TruthStep

\* handle_block
LEMMA TruthHandleBlock ==
  ASSUME TruthInv, NEW b \in Blocks, HandleBlock(b)
  PROVE  TruthInv' /\ Grows
<1>1. TypeOK'
  BY TypeHandleBlock DEF TruthInv
<1>2. RowsTrue' /\ BlocksTrue' /\ Grows
  BY TruthBody DEF HandleBlock, BodySeen, Written
<1> QED BY <1>1, <1>2 DEF TruthInv

\* handle_exec, CANDIDATE frame
LEMMA TruthHandleExecCandidate ==
  ASSUME TruthInv, NEW f \in ExecFrames, HandleExecCandidate(f)
  PROVE  TruthInv' /\ Grows
<1> DEFINE s == f.slot
           r == Row(s)
           q == [r EXCEPT !.status = "Candidate",
                          !.trail = TrailOr(f.trail, @),
                          !.executed = FirstExecuted(@, ExecutedOps(f)),
                          !.exec_cand = TRUE]
<1>1. TypeOK'
  BY TypeHandleExecCandidate DEF TruthInv
<1>2. s \in Slots
  BY MessageFacts DEF ExecFrame
<1>3. /\ r \in SlotRow /\ RowTold(r, s, events, block)
      /\ IsFinal(row, s) <=> r.status = "Final"
  BY <1>2, TruthAt
<1>4. row' = [row EXCEPT ![s] = q] /\ r.status # "Final" /\ block' = block
      /\ transfers' = transfers /\ events' = [events EXCEPT ![s] = FrameVerdict(f)]
  BY DEF HandleExecCandidate, Open
<1>5. q.status = "Candidate" /\ q.is_miss = r.is_miss /\ q.final = r.final
      /\ q.candidates = r.candidates /\ q.exec_final = r.exec_final
  BY <1>3 DEF SlotRow
<1>6. q \in SlotRow
  <2>1. f.trail \in Trails \cup {None} /\ r.trail \in Trails \cup {None}
        /\ r.executed \in SUBSET Ops /\ ExecutedOps(f) \in SUBSET Ops
    BY <1>3, MessageFacts DEF SlotRow, ExecutedOps, ExecFrame
  <2>2. TrailOr(f.trail, r.trail) \in Trails \cup {None}
        /\ FirstExecuted(r.executed, ExecutedOps(f)) \in SUBSET Ops
    BY <2>1, TrailOrType, FirstExecutedType
  <2> QED BY <1>3, <2>2 DEF SlotRow, SlotStatus
<1> HIDE DEF q, r
<1>7. RowTold(q, s, events', block')
  BY <1>3, <1>4, <1>5 DEF RowTold, RowShape
<1>8. OnlyAt(s) /\ Written(s, q)
  BY <1>2, <1>4 DEF OnlyAt, OthersKept, Written, TruthInv, TypeOK
<1>9. \A c \in Blocks : BlockSlot[c] = s => StatusTold(c, block'[c])
  BY <1>4 DEF TruthInv, BlocksTrue
<1> HIDE DEF s
<1>10. RowsTrue' /\ BlocksTrue' /\ Grows
  BY <1>2, <1>3, <1>4, <1>6, <1>7, <1>8, <1>9, TruthStep
<1> QED BY <1>1, <1>10 DEF TruthInv

\* A step that writes no row, at an open slot, and leaves true statuses.
LEMMA TruthUnwritten ==
  ASSUME TruthInv, NEW s \in Slots, Row(s).status # "Final", OnlyAt(s), row' = row,
         \A b \in Blocks : BlockSlot[b] = s => StatusTold(b, block'[b])
  PROVE  RowsTrue' /\ BlocksTrue' /\ Grows
<1>1. RowsTrue'
  <2> SUFFICES ASSUME NEW x \in Slots, row[x] # None
               PROVE  RowTold(row[x], x, events', block')
    BY DEF RowsTrue
  <2>1. CASE x = s
    BY <2>1, TruthAt DEF RowTold, Row, RowOrFresh
  <2>2. CASE x # s
    BY <2>2, OthersTold
  <2> QED BY <2>1, <2>2
<1>2. BlocksTrue'
  BY DEF BlocksTrue, TruthInv, OnlyAt, OthersKept
<1>3. Grows
  <2> SUFFICES ASSUME NEW x \in Slots, IsFinal(row, x) PROVE KeptAt(x)
    BY DEF Grows, KeptAt
  <2>1. x # s
    BY TruthAt
  <2>2. row[x] # None /\ row[x] \in SlotRow /\ row[x].status = "Final"
    BY DEF IsFinal, TruthInv, TypeOK
  <2> QED BY <2>1, <2>2, KeepsItself DEF KeptAt, OnlyAt
<1> QED BY <1>1, <1>2, <1>3

\* What the first FINAL frame makes of the slot row.
Settled(r, f) ==
  [r EXCEPT !.status = "Final",
            !.is_miss = f.block = None,
            !.final = IF f.block = None THEN @ ELSE f.block,
            !.trail = TrailOr(f.trail, @),
            !.executed = FirstExecuted(@, ExecutedOps(f)),
            !.exec_final = TRUE]

\* It is the row of the chain's verdict, and settles the blocks truly.
LEMMA SettledFacts ==
  ASSUME TruthInv, NEW f \in ExecFrames, f.final, Row(f.slot).status # "Final"
  PROVE  LET s == f.slot
             q == Settled(Row(s), f)
             n == SettleBlocks(block, q.final, q.candidates)
         IN  /\ s \in Slots /\ q \in SlotRow /\ RowShape(q, s)
             /\ q.status = "Final" /\ VerdictOf(q) = Chain[s]
             /\ FrameVerdict(f) = Chain[s]
             /\ n \in Bodies /\ OthersKept(block, n, s)
             /\ \A b \in Blocks : BlockSlot[b] = s => StatusTold(b, n[b])
             /\ \A b \in q.candidates : n[b] # "SeenCandidate"
<1> DEFINE s == f.slot
           r == Row(s)
           q == Settled(r, f)
<1>1. s \in Slots /\ f.block \in Blocks \cup {None} /\ (f.block # None => BlockSlot[f.block] = s)
  BY MessageAssumption, MessageFacts DEF ExecFrame
<1>2. r \in SlotRow /\ RowTold(r, s, events, block) /\ r.status # "Final"
  BY <1>1, TruthAt
<1>3. q \in SlotRow
  <2>1. f.trail \in Trails \cup {None} /\ r.trail \in Trails \cup {None}
        /\ r.executed \in SUBSET Ops /\ ExecutedOps(f) \in SUBSET Ops
    BY <1>2, MessageFacts DEF SlotRow, ExecutedOps, ExecFrame
  <2>2. TrailOr(f.trail, r.trail) \in Trails \cup {None}
        /\ FirstExecuted(r.executed, ExecutedOps(f)) \in SUBSET Ops
    BY <2>1, TrailOrType, FirstExecutedType
  <2> QED BY <1>1, <1>2, <2>2 DEF SlotRow, SlotStatus, Settled
<1>4. /\ q.status = "Final" /\ q.candidates = r.candidates
      /\ q.is_miss = (f.block = None)
      /\ q.final = IF f.block = None THEN r.final ELSE f.block
  BY <1>2 DEF SlotRow, Settled
<1>5. FrameVerdict(f) = Chain[s]
  BY SourcesAgree
<1> HIDE DEF q, r
<1>6. RowShape(q, s)
  BY <1>1, <1>2, <1>4 DEF RowTold, RowShape
<1>7. VerdictOf(q) = Chain[s]
  BY <1>4, <1>5 DEF VerdictOf, FrameVerdict
<1>8. block \in Bodies /\ (\A b \in Blocks : StatusTold(b, block[b]))
  BY DEF TruthInv, TypeOK, Bodies, BlocksTrue
<1> HIDE DEF s
<1>9. LET n == SettleBlocks(block, q.final, q.candidates)
      IN  /\ n \in Bodies /\ OthersKept(block, n, s)
          /\ \A b \in Blocks : BlockSlot[b] = s => StatusTold(b, n[b])
          /\ \A b \in q.candidates : n[b] # "SeenCandidate"
  BY <1>1, <1>3, <1>4, <1>6, <1>7, <1>8, SettledTrue, SettleBlocksType
<1> QED BY <1>1, <1>3, <1>4, <1>5, <1>6, <1>7, <1>9 DEF q, r, s

\* The row, the blocks and the events of a FINAL frame, with or without the stub.
LEMMA TruthSettled ==
  ASSUME TruthInv, NEW f \in ExecFrames, f.final, Row(f.slot).status # "Final",
         Written(f.slot, Settled(Row(f.slot), f)),
         block' = SettleBlocks(block, Settled(Row(f.slot), f).final,
                                      Settled(Row(f.slot), f).candidates),
         events' = [events EXCEPT ![f.slot] = FrameVerdict(f)],
         transfers' = transfers
  PROVE  RowsTrue' /\ BlocksTrue' /\ Grows
<1> DEFINE s == f.slot
           q == Settled(Row(s), f)
<1>1. /\ s \in Slots /\ q \in SlotRow /\ RowShape(q, s)
      /\ q.status = "Final" /\ VerdictOf(q) = Chain[s]
      /\ FrameVerdict(f) = Chain[s]
      /\ OthersKept(block, block', s)
      /\ \A b \in Blocks : BlockSlot[b] = s => StatusTold(b, block'[b])
      /\ \A b \in q.candidates : block'[b] # "SeenCandidate"
  BY SettledFacts
<1> HIDE DEF q
<1>2. OnlyAt(s) /\ events'[s] = Chain[s]
  BY <1>1 DEF OnlyAt, TruthInv, TypeOK
<1>3. RowTold(q, s, events', block')
  BY <1>1, <1>2 DEF RowTold
<1>4. ~IsFinal(row, s)
  BY <1>1, TruthAt
<1>5. Written(s, q)
  BY DEF q
<1> HIDE DEF s
<1> QED BY <1>1, <1>2, <1>3, <1>4, <1>5, TruthStep

\* handle_exec, FINAL frame on an open slot
LEMMA TruthHandleExecFinal ==
  ASSUME TruthInv, NEW f \in ExecFrames, HandleExecFinal(f)
  PROVE  TruthInv' /\ Grows
<1>1. TypeOK'
  BY TypeHandleExecFinal DEF TruthInv
<1>2. RowsTrue' /\ BlocksTrue' /\ Grows
  BY TruthSettled DEF HandleExecFinal, Settled, Written, Open
<1> QED BY <1>1, <1>2 DEF TruthInv

\* handle_exec, FINAL frame on a FINAL slot
LEMMA TruthCompleteFinalExec ==
  ASSUME TruthInv, NEW f \in ExecFrames, CompleteFinalExec(f)
  PROVE  TruthInv' /\ Grows
<1> DEFINE s == f.slot
           r == row[s]
           q == [r EXCEPT !.trail = TrailOr(@, f.trail),
                          !.executed = FirstExecuted(@, ExecutedOps(f)),
                          !.exec_final = TRUE]
<1>1. TypeOK'
  BY TypeCompleteFinalExec DEF TruthInv
<1>2. s \in Slots
  BY MessageFacts DEF ExecFrame
<1>3. /\ IsFinal(row, s) /\ VerdictOf(r) = FrameVerdict(f)
      /\ row' = [row EXCEPT ![s] = q] /\ transfers' = transfers
      /\ events' = [events EXCEPT ![s] = FrameVerdict(f)]
      /\ block' = SettleBlocks(block, r.final, r.candidates)
  BY DEF CompleteFinalExec
<1>4. r \in SlotRow /\ RowTold(r, s, events, block) /\ r.status = "Final"
  BY <1>2, <1>3, TruthAt
<1>5. q \in SlotRow
  <2>1. f.trail \in Trails \cup {None} /\ r.trail \in Trails \cup {None}
        /\ r.executed \in SUBSET Ops /\ ExecutedOps(f) \in SUBSET Ops
    BY <1>4, MessageFacts DEF SlotRow, ExecutedOps, ExecFrame
  <2>2. TrailOr(r.trail, f.trail) \in Trails \cup {None}
        /\ FirstExecuted(r.executed, ExecutedOps(f)) \in SUBSET Ops
    BY <2>1, TrailOrType, FirstExecutedType
  <2> QED BY <1>4, <2>2 DEF SlotRow
<1>6. /\ q.status = "Final" /\ q.candidates = r.candidates
      /\ q.is_miss = r.is_miss /\ q.final = r.final
      /\ q.trail = TrailOr(r.trail, f.trail)
      /\ q.executed = FirstExecuted(r.executed, ExecutedOps(f))
      /\ q.body = r.body /\ q.transfers = r.transfers /\ q.exec_final
  BY <1>4 DEF SlotRow
<1> HIDE DEF q, r
<1>7. Keeps(r, q) /\ RowShape(q, s) /\ VerdictOf(q) = Chain[s] /\ VerdictOf(r) = Chain[s]
  BY <1>4, <1>6 DEF Keeps, TrailOr, FirstExecuted, RowTold, RowShape, VerdictOf
<1>8. block \in Bodies /\ (\A b \in Blocks : StatusTold(b, block[b]))
  BY DEF TruthInv, TypeOK, Bodies, BlocksTrue
<1>9. block' = SettleBlocks(block, q.final, q.candidates)
  BY <1>3, <1>6
<1>10. /\ OthersKept(block, block', s)
       /\ \A b \in Blocks : BlockSlot[b] = s => StatusTold(b, block'[b])
       /\ \A b \in q.candidates : block'[b] # "SeenCandidate"
  <2> HIDE DEF s
  <2> QED BY <1>2, <1>5, <1>6, <1>7, <1>8, <1>9, SettledTrue
<1>11. OnlyAt(s) /\ events'[s] = Chain[s]
  BY <1>2, <1>3, <1>7, <1>10 DEF OnlyAt, TruthInv, TypeOK
<1>12. RowTold(q, s, events', block')
  BY <1>6, <1>7, <1>10, <1>11 DEF RowTold
<1>13. Written(s, q)
  BY <1>3 DEF Written
<1>14. RowsTrue' /\ BlocksTrue' /\ Grows
  <2>1. IsFinal(row, s) => Keeps(row[s], q) /\ (transfers[s] # {} => transfers'[s] # {})
    BY <1>3, <1>7 DEF r
  <2> HIDE DEF s
  <2> QED BY <1>2, <1>5, <1>10, <1>11, <1>12, <1>13, <2>1, TruthStep
<1> QED BY <1>1, <1>14 DEF TruthInv

\* handle_transfers
LEMMA TruthHandleTransfers ==
  ASSUME TruthInv, NEW f \in TransferFrames, HandleTransfers(f)
  PROVE  TruthInv' /\ Grows
<1> DEFINE s == f.slot
           r == Row(s)
           q == [r EXCEPT !.transfers = TRUE]
<1>1. TypeOK'
  BY TypeHandleTransfers DEF TruthInv
<1>2. s \in Slots
  BY MessageFacts DEF TransferFrame
<1>3. /\ r \in SlotRow /\ RowTold(r, s, events, block)
      /\ IsFinal(row, s) <=> r.status = "Final"
      /\ IsFinal(row, s) => r = row[s]
  BY <1>2, TruthAt
<1>4. /\ row' = [row EXCEPT ![s] = q] /\ block' = block /\ events' = events
      /\ transfers' = [transfers EXCEPT ![s] = {<<"full", f.verdict>>}]
  BY DEF HandleTransfers
<1>5. /\ q \in SlotRow /\ q.candidates = r.candidates /\ q.status = r.status
      /\ q.is_miss = r.is_miss /\ q.final = r.final /\ q.trail = r.trail
      /\ q.executed = r.executed /\ q.body = r.body /\ q.transfers
      /\ q.exec_final = r.exec_final
  BY <1>3 DEF SlotRow
<1> HIDE DEF q, r
<1>6. RowTold(q, s, events', block') /\ (r.status = "Final" => Keeps(r, q))
  BY <1>3, <1>4, <1>5 DEF RowTold, RowShape, VerdictOf, Keeps
<1>7. OnlyAt(s) /\ Written(s, q) /\ transfers'[s] # {}
  BY <1>2, <1>4 DEF OnlyAt, OthersKept, Written, TruthInv, TypeOK
<1>8. \A b \in Blocks : BlockSlot[b] = s => StatusTold(b, block'[b])
  BY <1>4 DEF TruthInv, BlocksTrue
<1>9. IsFinal(row, s) => Keeps(row[s], q)
  BY <1>3, <1>6
<1> HIDE DEF s
<1>10. RowsTrue' /\ BlocksTrue' /\ Grows
  BY <1>2, <1>5, <1>6, <1>7, <1>8, <1>9, TruthStep
<1> QED BY <1>1, <1>10 DEF TruthInv

-----------------------------------------------------------------------------
(* The patches. *)

\* Patches that name the verdict of the chain.
TruePeers    == {m \in PeerPatch : Names(m) /\ Named(m) = Chain[m.slot]}
TrueLegacies == {m \in LegacyPatch : Names(m) /\ Named(m) = Chain[m.slot]}

\* The row q has every part that m ships.
Has(q, m) == (m.body => q.body) /\ (m.exec => q.exec_final) /\ (m.transfers => q.transfers)

\* A block that a true message names is the chain's, of a row that agrees.
LEMMA NamedFacts ==
  ASSUME NEW m, Names(m), Named(m) = Chain[m.slot], ~m.is_miss
  PROVE  m.block \in Blocks /\ BlockSlot[m.block] = m.slot /\ Chain[m.slot] = m.block
BY DEF Names, Named, VerdictNamed

\* The parts of a true peer patch, applied to a row of the chain's verdict.
LEMMA TruthParts ==
  ASSUME TruthInv, NEW m \in TruePeers, NEW r \in SlotRow,
         ApplyParts(m, r, block, events, transfers),
         RowShape(r, m.slot), r.status = "Final", VerdictOf(r) = Chain[m.slot],
         r.exec_final => events[m.slot] = Chain[m.slot],
         IsFinal(row, m.slot) => Keeps(row[m.slot], r)
  PROVE  RowsTrue' /\ BlocksTrue' /\ Grows /\ Has(row'[m.slot], m)
<1> DEFINE s == m.slot
           has_body == m.body /\ ~m.is_miss
           exec == m.exec /\ ~r.exec_final
           xfers == m.transfers /\ ~r.transfers
           shipped == IF has_body THEN ShipBlock(block, m.block, m.status) ELSE block
           q == [r EXCEPT !.candidates = IF has_body THEN @ \cup {m.block} ELSE @,
                          !.body = @ \/ has_body \/ m.is_miss,
                          !.executed = IF exec THEN FirstExecuted(@, m.executed) ELSE @,
                          !.exec_final = @ \/ exec,
                          !.transfers = @ \/ xfers]
<1>1. m \in PeerPatch /\ Names(m) /\ s \in Slots /\ m.status \in BlockStatus /\ Named(m) = Chain[s]
  BY DEF TruePeers, PeerPatch
<1>2. q \in SlotRow
  <2>1. ASSUME NEW c \in SUBSET Blocks, NEW b1 \in BOOLEAN, NEW e \in SUBSET Ops,
               NEW b2 \in BOOLEAN, NEW b3 \in BOOLEAN
        PROVE  [r EXCEPT !.candidates = c, !.body = b1, !.executed = e,
                         !.exec_final = b2, !.transfers = b3] \in SlotRow
    BY <2>1 DEF SlotRow
  <2>2. (IF has_body THEN r.candidates \cup {m.block} ELSE r.candidates) \in SUBSET Blocks
    BY <1>1 DEF SlotRow, Names
  <2>3. (IF exec THEN FirstExecuted(r.executed, m.executed) ELSE r.executed) \in SUBSET Ops
    <3>1. r.executed \in SUBSET Ops /\ m.executed \in SUBSET Ops
      BY <1>1 DEF SlotRow, PeerPatch
    <3> QED BY <3>1, FirstExecutedType
  <2> QED BY <2>1, <2>2, <2>3, ZenonT(60)
<1>3. /\ q.status = r.status /\ q.is_miss = r.is_miss /\ q.final = r.final
      /\ q.trail = r.trail
      /\ q.candidates = IF has_body THEN r.candidates \cup {m.block} ELSE r.candidates
      /\ q.executed = IF exec THEN FirstExecuted(r.executed, m.executed) ELSE r.executed
      /\ q.body = (r.body \/ has_body \/ m.is_miss)
      /\ q.exec_final = (r.exec_final \/ exec) /\ q.transfers = (r.transfers \/ xfers)
  BY DEF SlotRow
<1>4. /\ row' = StubParent([row EXCEPT ![s] = q], s)
      /\ block' = SettleBlocks(shipped, q.final, q.candidates)
      /\ events' = IF exec THEN [events EXCEPT ![s] = Named(m)] ELSE events
      /\ transfers' = IF xfers THEN [transfers EXCEPT ![s] = {<<"full", Named(m)>>}]
                               ELSE transfers
  BY DEF ApplyParts
<1> HIDE DEF q
<1>5. has_body => m.block \in Blocks /\ BlockSlot[m.block] = s /\ Chain[s] = m.block
  BY <1>1, NamedFacts
<1>6. Has(q, m) /\ Keeps(r, q)
  BY <1>1, <1>3 DEF Has, Keeps, FirstExecuted, PeerPatch
<1>7. RowShape(q, s) /\ VerdictOf(q) = Chain[s] /\ q.status = "Final"
  BY <1>3, <1>5 DEF RowShape, VerdictOf
<1>8. block \in Bodies /\ (\A b \in Blocks : StatusTold(b, block[b]))
  BY DEF TruthInv, TypeOK, Bodies, BlocksTrue
<1>9. shipped \in Bodies
  BY <1>1, <1>8, ShipBlockType
<1>10. \A b \in Blocks : shipped[b] = block[b] \/ (b \in q.candidates /\ BlockSlot[b] = s)
  BY <1>3, <1>5, <1>8 DEF ShipBlock, Bodies
<1>11. OthersKept(block, shipped, s)
  BY <1>5, <1>8 DEF OthersKept, ShipBlock, Bodies
<1>12. events'[s] = Chain[s] \/ ~q.exec_final
  BY <1>1, <1>3, <1>4 DEF TruthInv, TypeOK
<1>13. /\ \A x \in Slots : x # s => events'[x] = events[x] /\ transfers'[x] = transfers[x]
       /\ transfers[s] # {} => transfers'[s] # {}
  BY <1>1, <1>4 DEF TruthInv, TypeOK
<1>14. Written(s, q)
  BY <1>4 DEF Written
<1> HIDE DEF shipped, has_body, exec, xfers, s
<1>15. /\ OthersKept(shipped, block', s)
       /\ \A b \in Blocks : BlockSlot[b] = s => StatusTold(b, block'[b])
       /\ \A b \in q.candidates : block'[b] # "SeenCandidate"
  BY <1>1, <1>2, <1>4, <1>7, <1>8, <1>9, <1>10, SettledTrue
<1>16. OnlyAt(s)
  BY <1>11, <1>13, <1>15 DEF OnlyAt, OthersKept
<1>17. RowTold(q, s, events', block')
  BY <1>7, <1>12, <1>15 DEF RowTold
<1>18. IsFinal(row, s) => Keeps(row[s], q)
  <2>1. IsFinal(row, s) => Keeps(row[s], r) /\ row[s] \in SlotRow
    BY <1>1 DEF s, IsFinal, TruthInv, TypeOK
  <2> QED BY <1>6, <2>1 DEF Keeps
<1>19. RowsTrue' /\ BlocksTrue' /\ Grows
  BY <1>1, <1>2, <1>13, <1>14, <1>15, <1>16, <1>17, <1>18, TruthStep
<1>20. row'[s] = q
  BY <1>1, <1>14, RowsAfter DEF TruthInv
<1> QED BY <1>6, <1>19, <1>20 DEF s

\* apply_peer_patch on an open slot
LEMMA TruthPromoteFromPeer ==
  ASSUME TruthInv, NEW m \in TruePeers, PromoteFromPeer(m)
  PROVE  TruthInv' /\ Grows
<1> DEFINE p == Promoted(Row(m.slot), m)
           r == [p EXCEPT !.trail = TrailOr(m.trail, @)]
<1>1. /\ m \in PeerPatch /\ m.slot \in Slots /\ m.trail \in Trails \cup {None}
      /\ Names(m) /\ Named(m) = Chain[m.slot]
  BY DEF PeerPatch, TruePeers
<1>2. TypeOK'
  BY <1>1, TypePromoteFromPeer DEF TruthInv
<1>3. Row(m.slot).status # "Final" /\ ApplyParts(m, r, block, events, transfers)
  BY DEF PromoteFromPeer, Open
<1>4. /\ Row(m.slot) \in SlotRow /\ RowTold(Row(m.slot), m.slot, events, block)
      /\ ~IsFinal(row, m.slot)
  BY <1>1, <1>3, TruthAt
<1>5. p \in SlotRow /\ RowShape(p, m.slot) /\ p.status = "Final"
  BY <1>1, <1>3, <1>4, PromotedShape DEF RowTold
<1>6. /\ p.is_miss = m.is_miss /\ (~m.is_miss => p.final = m.block)
      /\ p.exec_final = Row(m.slot).exec_final
  BY <1>4 DEF Promoted, SlotRow
<1> HIDE DEF p
<1>7. TrailOr(m.trail, p.trail) \in Trails \cup {None}
  BY <1>1, <1>5, TrailOrType DEF SlotRow
<1>8. /\ r \in SlotRow /\ r.status = p.status /\ r.is_miss = p.is_miss
      /\ r.final = p.final /\ r.candidates = p.candidates /\ r.exec_final = p.exec_final
  BY <1>5, <1>7 DEF SlotRow
<1> HIDE DEF r
<1>9. RowShape(r, m.slot) /\ VerdictOf(r) = Chain[m.slot] /\ ~r.exec_final
  <2>1. VerdictOf(r) = Named(m)
    BY <1>1, <1>6, <1>8, NamedStated
  <2> QED BY <1>1, <1>3, <1>4, <1>5, <1>6, <1>8, <2>1 DEF RowShape, RowTold
<1>10. RowsTrue' /\ BlocksTrue' /\ Grows
  BY <1>3, <1>4, <1>5, <1>8, <1>9, TruthParts
<1> QED BY <1>2, <1>10 DEF TruthInv

\* apply_peer_patch on a FINAL slot: the row gets every part that is shipped.
LEMMA TruthCompleteFromPeer ==
  ASSUME TruthInv, NEW m \in TruePeers, CompleteFromPeer(m)
  PROVE  TruthInv' /\ Grows /\ Has(row'[m.slot], m)
<1> DEFINE p == row[m.slot]
           r == [p EXCEPT !.trail = TrailOr(@, m.trail)]
<1>1. /\ m \in PeerPatch /\ m.slot \in Slots /\ m.trail \in Trails \cup {None}
      /\ Names(m) /\ Named(m) = Chain[m.slot]
  BY DEF PeerPatch, TruePeers
<1>2. TypeOK'
  BY <1>1, TypeCompleteFromPeer DEF TruthInv
<1>3. IsFinal(row, m.slot) /\ ApplyParts(m, r, block, events, transfers)
  BY DEF CompleteFromPeer
<1>4. p \in SlotRow /\ RowTold(p, m.slot, events, block) /\ p.status = "Final"
  BY <1>1, <1>3, TruthAt
<1> HIDE DEF p
<1>5. TrailOr(p.trail, m.trail) \in Trails \cup {None}
  BY <1>1, <1>4, TrailOrType DEF SlotRow
<1>6. /\ r \in SlotRow /\ r.status = p.status /\ r.is_miss = p.is_miss
      /\ r.final = p.final /\ r.candidates = p.candidates /\ r.exec_final = p.exec_final
      /\ r.trail = TrailOr(p.trail, m.trail) /\ r.executed = p.executed
      /\ r.body = p.body /\ r.transfers = p.transfers
  BY <1>4, <1>5 DEF SlotRow
<1> HIDE DEF r
<1>7. RowShape(r, m.slot) /\ VerdictOf(r) = Chain[m.slot] /\ Keeps(p, r)
      /\ (r.exec_final => events[m.slot] = Chain[m.slot])
  BY <1>4, <1>6 DEF RowTold, RowShape, VerdictOf, Keeps, TrailOr
<1>8. IsFinal(row, m.slot) => Keeps(row[m.slot], r)
  BY <1>7 DEF p
<1>9. RowsTrue' /\ BlocksTrue' /\ Grows /\ Has(row'[m.slot], m)
  BY <1>3, <1>4, <1>6, <1>7, <1>8, TruthParts
<1> QED BY <1>2, <1>9 DEF TruthInv

\* The arbiter is never asked: a FINAL row has the verdict of the chain.
LEMMA NoRepairFromTruePeer ==
  ASSUME TruthInv, NEW m \in TruePeers
  PROVE  /\ ~RepairFromPeer(m)
         /\ IgnoresPeer(m) => IsFinal(row, m.slot) /\ TrailClash(row[m.slot].trail, m.trail)
<1>1. m.slot \in Slots /\ Named(m) = Chain[m.slot]
  BY DEF PeerPatch, TruePeers
<1>2. IsFinal(row, m.slot) => VerdictOf(row[m.slot]) = Named(m)
  BY <1>1 DEF IsFinal, TruthInv, RowsTrue, RowTold
<1> QED BY <1>2, ArbiterSidesWithOther DEF RepairFromPeer, IgnoresPeer

\* apply_peer_patch: a FINAL row has every part afterwards, or refuses them.
LEMMA TruthPeer ==
  ASSUME TruthInv, NEW m \in TruePeers,
         ApplyPeerPatch(m) \/ (IgnoresPeer(m) /\ UNCHANGED vars)
  PROVE  /\ TruthInv' /\ Grows
         /\ IsFinal(row, m.slot) =>
              Has(row'[m.slot], m) \/ TrailClash(row'[m.slot].trail, m.trail)
<1>1. CASE PromoteFromPeer(m)
  <2>1. m.slot \in Slots /\ Row(m.slot).status # "Final"
    BY <1>1 DEF PromoteFromPeer, Open, TruePeers, PeerPatch
  <2> QED BY <1>1, <2>1, TruthPromoteFromPeer, TruthAt
<1>2. CASE CompleteFromPeer(m)
  BY <1>2, TruthCompleteFromPeer
<1>3. CASE IgnoresPeer(m) /\ UNCHANGED vars
  <2>1. TruthInv'
    BY <1>3 DEF vars, TruthInv, TypeOK, RowsTrue, BlocksTrue
  <2>2. Grows
    BY <1>3, KeepsItself DEF vars, Grows, KeptAt, IsFinal, TruthInv, TypeOK
  <2> QED BY <1>3, <2>1, <2>2, NoRepairFromTruePeer DEF vars
<1> QED BY <1>1, <1>2, <1>3, NoRepairFromTruePeer DEF ApplyPeerPatch

\* apply_legacy_patch: the slot is FINAL afterwards, and has what was brought.
LEMMA TruthLegacy ==
  ASSUME TruthInv, NEW m \in TrueLegacies, ApplyLegacyPatch(m)
  PROVE  /\ TruthInv' /\ Grows
         /\ IsFinal(row', m.slot)
         /\ m.body /\ ~m.is_miss => row'[m.slot].body
         /\ m.transfers => transfers'[m.slot] # {}
<1> DEFINE s == m.slot
           r == Row(s)
           verdict == IF Open(r) THEN Promoted(r, m) ELSE r
           has_body == m.body /\ ~m.is_miss /\ ~r.body
           shipped == IF has_body THEN ShipBlock(block, m.block, "Final") ELSE block
           c == IF has_body THEN verdict.candidates \cup {m.block} ELSE verdict.candidates
           b1 == verdict.body \/ has_body \/ (m.is_miss /\ verdict.is_miss)
           e == FirstExecuted(verdict.executed, m.executed)
           q == [verdict EXCEPT !.candidates = c, !.body = b1, !.executed = e]
<1>1. m \in LegacyPatch /\ Names(m) /\ s \in Slots /\ Named(m) = Chain[s]
  BY DEF LegacyPatch, TrueLegacies
<1>2. TypeOK'
  BY <1>1, TypeApplyLegacyPatch DEF TruthInv
<1>3. /\ r \in SlotRow /\ RowTold(r, s, events, block)
      /\ IsFinal(row, s) <=> r.status = "Final"
      /\ IsFinal(row, s) => r = row[s]
  BY <1>1, TruthAt
<1>4. /\ row' = StubParent([row EXCEPT ![s] = q], s) /\ events' = events
      /\ transfers' = IF m.transfers
                        THEN [transfers EXCEPT ![s] = @ \cup {<<"legacy", Named(m)>>}]
                        ELSE transfers
      /\ block' = IF q.exec_final /\ q.body
                    THEN SettleBlocks(shipped, q.final, q.candidates) ELSE shipped
  BY DEF ApplyLegacyPatch
<1>5. /\ verdict \in SlotRow /\ verdict.status = "Final" /\ RowShape(verdict, s)
      /\ r.status = "Final" => verdict = r
      /\ r.status # "Final" => /\ verdict.is_miss = m.is_miss
                               /\ ~m.is_miss => verdict.final = m.block
                               /\ verdict.exec_final = r.exec_final
                               /\ verdict.body = r.body
  <2>1. CASE r.status = "Final"
    BY <1>3, <2>1 DEF Open, RowTold
  <2>2. CASE r.status # "Final"
    <3>1. verdict = Promoted(r, m)
      BY <2>2 DEF Open
    <3>2. /\ Promoted(r, m) \in SlotRow /\ Promoted(r, m).status = "Final"
          /\ RowShape(Promoted(r, m), s)
      BY <1>1, <1>3, <2>2, PromotedShape DEF RowTold
    <3>3. /\ Promoted(r, m).is_miss = m.is_miss
          /\ ~m.is_miss => Promoted(r, m).final = m.block
          /\ Promoted(r, m).exec_final = r.exec_final
          /\ Promoted(r, m).body = r.body
      BY <1>3 DEF Promoted, SlotRow
    <3> QED BY <2>2, <3>1, <3>2, <3>3
  <2> QED BY <2>1, <2>2
<1> HIDE DEF verdict, r
<1>6. VerdictOf(verdict) = Chain[s]
  <2>1. CASE r.status = "Final"
    BY <1>3, <1>5, <2>1 DEF RowTold
  <2>2. CASE r.status # "Final"
    BY <1>1, <1>5, <2>2, NamedStated
  <2> QED BY <2>1, <2>2
<1>7. c \in SUBSET Blocks /\ b1 \in BOOLEAN /\ e \in SUBSET Ops
  <2>1. c \in SUBSET Blocks
    BY <1>1, <1>5 DEF SlotRow, Names
  <2>2. m.executed \in SUBSET Ops /\ verdict.executed \in SUBSET Ops
    BY <1>1, <1>5 DEF LegacyPatch, SlotRow
  <2> QED BY <2>1, <2>2, FirstExecutedType
<1>8. has_body => m.block \in Blocks /\ BlockSlot[m.block] = s /\ Chain[s] = m.block
  BY <1>1, NamedFacts
<1>9. /\ verdict.body => b1
      /\ m.body /\ ~m.is_miss => b1
      /\ has_body => b1
      /\ c = verdict.candidates \/ (has_body /\ c = verdict.candidates \cup {m.block})
      /\ has_body => m.block \in c
      /\ verdict.executed # {} => e = verdict.executed
  <2>1. verdict.body = r.body
    BY <1>5
  <2> QED BY <2>1 DEF FirstExecuted
<1>10. /\ block \in Bodies /\ (\A b \in Blocks : StatusTold(b, block[b]))
       /\ shipped \in Bodies
  BY ShipBlockType DEF TruthInv, TypeOK, Bodies, BlocksTrue, BlockStatus
<1>11. /\ \A b \in Blocks : StatusTold(b, shipped[b])
       /\ OthersKept(block, shipped, s)
       /\ ~has_body => shipped = block
  BY <1>8, <1>10 DEF ShipBlock, Bodies, OthersKept, StatusTold
<1> HIDE DEF c, b1, e, has_body, shipped
<1>12. /\ q \in SlotRow /\ q.status = verdict.status /\ q.is_miss = verdict.is_miss
       /\ q.final = verdict.final /\ q.trail = verdict.trail
       /\ q.candidates = c /\ q.body = b1 /\ q.executed = e
       /\ q.exec_final = verdict.exec_final /\ q.transfers = verdict.transfers
  BY <1>5, <1>7 DEF SlotRow
<1> HIDE DEF q
<1>13. RowShape(q, s) /\ VerdictOf(q) = Chain[s] /\ q.status = "Final"
  BY <1>5, <1>6, <1>8, <1>9, <1>12 DEF RowShape, VerdictOf
<1>14. /\ OthersKept(block, block', s)
       /\ \A b \in Blocks : BlockSlot[b] = s => StatusTold(b, block'[b])
       /\ q.exec_final => \A b \in q.candidates : block'[b] # "SeenCandidate"
  <2>1. CASE q.exec_final /\ q.body
    <3>1. block' = SettleBlocks(shipped, q.final, q.candidates)
      BY <1>4, <2>1
    <3>2. /\ OthersKept(shipped, block', s)
          /\ \A b \in Blocks : BlockSlot[b] = s => StatusTold(b, block'[b])
          /\ \A b \in q.candidates : block'[b] # "SeenCandidate"
      <4> HIDE DEF s
      <4> QED BY <1>1, <1>10, <1>11, <1>12, <1>13, <3>1, SettledTrue
    <3> QED BY <1>11, <3>2 DEF OthersKept
  <2>2. CASE ~(q.exec_final /\ q.body)
    <3>1. block' = shipped
      BY <1>4, <2>2
    <3>2. q.exec_final => ~has_body /\ q.candidates = verdict.candidates /\ r.exec_final
      BY <1>5, <1>9, <1>12, <2>2
    <3>3. r.exec_final => /\ r.status = "Final" /\ verdict = r
                          /\ \A b \in r.candidates : block[b] # "SeenCandidate"
      BY <1>3, <1>5 DEF RowTold
    <3> QED BY <1>11, <3>1, <3>2, <3>3
  <2> QED BY <2>1, <2>2
<1>15. RowTold(q, s, events', block')
  <2>1. q.exec_final => r.exec_final
    BY <1>5, <1>12
  <2>2. r.exec_final => events[s] = Chain[s]
    BY <1>3 DEF RowTold
  <2> QED BY <1>4, <1>13, <1>14, <2>1, <2>2 DEF RowTold
<1>16. /\ \A x \in Slots : x # s => transfers'[x] = transfers[x]
       /\ transfers[s] # {} => transfers'[s] # {}
       /\ m.transfers => transfers'[s] # {}
  BY <1>1, <1>4 DEF TruthInv, TypeOK
<1>17. OnlyAt(s) /\ Written(s, q)
  BY <1>4, <1>14, <1>16 DEF OnlyAt, Written
<1>18. IsFinal(row, s) => Keeps(row[s], q)
  BY <1>3, <1>5, <1>9, <1>12 DEF Keeps
<1>19. row'[s] = q /\ q # None
  BY <1>1, <1>12, <1>17, RowsAfter, AbsentAssumption DEF TruthInv
<1>20. RowsTrue' /\ BlocksTrue' /\ Grows
  <2> HIDE DEF s
  <2> QED BY <1>1, <1>12, <1>14, <1>15, <1>16, <1>17, <1>18, TruthStep
<1> QED BY <1>2, <1>9, <1>12, <1>13, <1>16, <1>19, <1>20 DEF TruthInv, IsFinal

\* apply_forced_verdict: only an open slot is written.
LEMMA TruthForced ==
  ASSUME TruthInv, NEW m \in ForcedVerdicts, ApplyForcedVerdict(m)
  PROVE  TruthInv' /\ Grows
<1> DEFINE s == m.slot
           r == Row(s)
           p == Adopted(r, m)
           q == [p EXCEPT !.status = "Final"]
<1>1. /\ s \in Slots /\ m.trail \in Trails \cup {None} /\ Names(m)
      /\ Named(m) = Chain[s]
  BY MessageFacts, SourcesAgree DEF ForcedVerdict
<1>2. TypeOK'
  BY TypeApplyForcedVerdict DEF TruthInv
<1>3. /\ r \in SlotRow /\ RowTold(r, s, events, block)
      /\ IsFinal(row, s) <=> r.status = "Final"
  BY <1>1, TruthAt
<1>4. /\ ~(r.status = "Final" /\ VerdictOf(r) = Named(m))
      /\ row' = [row EXCEPT ![s] = q]
      /\ block' = SettleBlocks(Superseded(block, r), q.final, q.candidates)
      /\ events' = [events EXCEPT ![s] = None]
      /\ transfers' = [transfers EXCEPT ![s] = {}]
  BY DEF ApplyForcedVerdict
<1>5. r.status # "Final"
  BY <1>1, <1>3, <1>4 DEF RowTold
<1>6. p \in SlotRow /\ p.is_miss = m.is_miss /\ p.final = m.block /\ ~p.exec_final
      /\ RowShape(q, s)
  <2>1. p \in SlotRow /\ RowShape(q, s)
    BY <1>1, <1>3, AdoptedShape DEF RowTold
  <2> QED BY <1>3, <2>1 DEF Adopted, SlotRow
<1>7. Superseded(block, r) = block
  <2>1. r.final = None /\ None \notin Blocks
    BY <1>3, <1>5, StoreAssumption DEF RowTold, RowShape, SlotRow
  <2> QED BY <2>1 DEF Superseded, TruthInv, TypeOK
<1> HIDE DEF p, r
<1>8. /\ q \in SlotRow /\ q.status = "Final" /\ q.is_miss = m.is_miss /\ q.final = m.block
      /\ ~q.exec_final
  BY <1>6 DEF SlotRow, SlotStatus
<1> HIDE DEF q
<1>9. VerdictOf(q) = Chain[s]
  BY <1>1, <1>8, NamedStated
<1>10. block \in Bodies /\ (\A b \in Blocks : StatusTold(b, block[b]))
  BY DEF TruthInv, TypeOK, Bodies, BlocksTrue
<1>11. OthersKept(block, block', s)
       /\ \A b \in Blocks : BlockSlot[b] = s => StatusTold(b, block'[b])
  <2> HIDE DEF s
  <2> QED BY <1>1, <1>4, <1>6, <1>7, <1>8, <1>9, <1>10, SettledTrue
<1>12. OnlyAt(s) /\ Written(s, q)
  BY <1>4, <1>11 DEF OnlyAt, Written, TruthInv, TypeOK
<1>13. RowTold(q, s, events', block')
  BY <1>6, <1>8, <1>9 DEF RowTold
<1>14. ~IsFinal(row, s)
  BY <1>3, <1>5
<1>15. RowsTrue' /\ BlocksTrue' /\ Grows
  <2> HIDE DEF s
  <2> QED BY <1>1, <1>8, <1>11, <1>12, <1>13, <1>14, TruthStep
<1> QED BY <1>2, <1>15 DEF TruthInv

-----------------------------------------------------------------------------
(* A handler that is cut off between two writes. *)

\* Inside handle_exec: the row is written last, so it is never ahead of its parts.
LEMMA TruthTornExec ==
  ASSUME TruthInv, NEW f \in ExecFrames, NEW n \in 1 .. 7, TornExec(f, n)
  PROVE  TruthInv' /\ Grows /\ OpsGrow
<1> DEFINE s == f.slot
           r == Row(s)
           q == Settled(r, f)
           settled == SettleBlocks(block, q.final, q.candidates)
<1>1. /\ f.final /\ r.status # "Final" /\ transfers' = transfers
      /\ events' = [events EXCEPT ![s] = IF n = 1 THEN None ELSE FrameVerdict(f)]
      /\ last_final' \in {last_final, s}
      /\ block' = IF n >= 4 THEN settled ELSE block
      /\ op' = IF n >= 5 THEN ApplyExecutedOps(op, f) ELSE op
      /\ async' \in {async, ApplyPool(async, f)}
      /\ row' = IF n >= 7 THEN [row EXCEPT ![s] = q] ELSE row
      /\ deferred' = deferred /\ last_candidate' = last_candidate
  BY DEF TornExec, Settled, Open
<1>2. /\ s \in Slots /\ q \in SlotRow /\ FrameVerdict(f) = Chain[s]
      /\ settled \in Bodies /\ OthersKept(block, settled, s)
      /\ \A b \in Blocks : BlockSlot[b] = s => StatusTold(b, settled[b])
  BY <1>1, SettledFacts
<1>3. f \in ExecFrame
  BY MessageFacts
<1> HIDE DEF q, settled
<1>4. TypeOK'
  <2>1. row' \in [Slots -> SlotRow \cup {None}]
    BY <1>1, <1>2 DEF TruthInv, TypeOK
  <2>2. events' \in [Slots -> Verdicts \cup {None}]
    <3>1. FrameVerdict(f) \in Verdicts
      BY <1>3, VerdictTypes
    <3> QED BY <1>1, <1>2, <3>1 DEF TruthInv, TypeOK
  <2>3. op' \in [Ops -> OpRow \cup {None}]
    BY <1>1, <1>3, ExecutedOpsType DEF TruthInv, TypeOK
  <2>4. async' \in [AsyncIds -> AsyncRow \cup {None}]
    BY <1>1, <1>3, ApplyPoolType DEF TruthInv, TypeOK
  <2>5. block' \in [Blocks -> BlockStatus \cup {None}]
    BY <1>1, <1>2 DEF TruthInv, TypeOK, Bodies
  <2> QED BY <1>1, <1>2, <2>1, <2>2, <2>3, <2>4, <2>5 DEF TruthInv, TypeOK
<1>5. OpsGrow
  <2>1. CASE n >= 5
    BY <1>1, <2>1, ApplyExecutedOpsGrow DEF TruthInv
  <2>2. CASE ~(n >= 5)
    BY <1>1, <2>2 DEF OpsGrow, TruthInv, TypeOK, OpRow
  <2> QED BY <2>1, <2>2
<1>6. CASE n = 7
  <2>1. Written(s, q) /\ block' = settled /\ events' = [events EXCEPT ![s] = FrameVerdict(f)]
    BY <1>1, <1>6 DEF Written
  <2>2. RowsTrue' /\ BlocksTrue' /\ Grows
    BY <1>1, <2>1, TruthSettled DEF q, settled
  <2> QED BY <1>4, <1>5, <2>2 DEF TruthInv
<1>7. CASE n # 7
  <2>1. row' = row
    BY <1>1, <1>7
  <2>2. OthersKept(block, block', s)
        /\ \A b \in Blocks : BlockSlot[b] = s => StatusTold(b, block'[b])
    BY <1>1, <1>2 DEF OthersKept, TruthInv, BlocksTrue
  <2>3. OnlyAt(s)
    BY <1>1, <1>2, <2>2 DEF OnlyAt, TruthInv, TypeOK
  <2>4. RowsTrue' /\ BlocksTrue' /\ Grows
    BY <1>1, <1>2, <2>1, <2>2, <2>3, TruthUnwritten
  <2> QED BY <1>4, <1>5, <2>4 DEF TruthInv
<1> QED BY <1>6, <1>7

\* The operations of a body.
LEMMA IncludedGrow ==
  ASSUME TypeOK, NEW b \in Blocks,
         op' = [o \in Ops |-> IF o \in BlockOps[b] THEN IncludeOp(op[o], b) ELSE op[o]]
  PROVE  OpsGrow /\ op' \in [Ops -> OpRow \cup {None}]
<1>1. ASSUME NEW o \in Ops PROVE OpGrows(op[o], op'[o]) /\ op'[o] \in OpRow \cup {None}
  <2>1. op[o] \in OpRow \cup {None}
    BY DEF TypeOK
  <2>2. OpGrows(op[o], IncludeOp(op[o], b)) /\ IncludeOp(op[o], b) \in OpRow
    <3>1. CASE op[o] = None
      BY <2>1, <3>1, IncludeOpGrows DEF IncludeOp, OpRow
    <3>2. CASE op[o] # None
      BY <2>1, <3>2, IncludeOpGrows DEF IncludeOp, OpRow
    <3> QED BY <3>1, <3>2
  <2>3. OpGrows(op[o], op[o])
    BY <2>1 DEF OpGrows, OpRow
  <2> QED BY <2>1, <2>2, <2>3
<1> QED BY <1>1 DEF OpsGrow, OpGrows

\* Inside handle_block.
LEMMA TruthTornBlock ==
  ASSUME TruthInv, NEW b \in Blocks, NEW n \in 1 .. 3, TornBlock(b, n)
  PROVE  TruthInv' /\ Grows /\ OpsGrow
<1> DEFINE s == BlockSlot[b]
           q == BodySeen(Row(s), b)
<1>1. /\ op' = [o \in Ops |-> IF o \in BlockOps[b] THEN IncludeOp(op[o], b) ELSE op[o]]
      /\ block' = IF n >= 2 THEN [block EXCEPT ![b] = Arrived(@, Row(s), b)] ELSE block
      /\ row' = IF n >= 3 THEN [row EXCEPT ![s] = q] ELSE row
      /\ UNCHANGED <<events, transfers, async, deferred, last_final, last_candidate>>
  BY DEF TornBlock, BodySeen
<1>2. s \in Slots /\ q \in SlotRow
  BY StoreAssumption, RowType, BodySeenFacts DEF TruthInv
<1>3. OpsGrow /\ op' \in [Ops -> OpRow \cup {None}]
  BY <1>1, IncludedGrow DEF TruthInv
<1>4. StatusTold(b, Arrived(block[b], Row(s), b)) /\ Arrived(block[b], Row(s), b) \in BlockStatus
  <2>1. Arrived(block[b], Row(s), b) \in BlockStatus
    BY DEF Arrived, ArrivalStatus, BlockStatus, TruthInv, TypeOK
  <2> QED BY <2>1, ArrivedTrue
<1> HIDE DEF q
<1>5. TypeOK'
  BY <1>1, <1>2, <1>3, <1>4 DEF TruthInv, TypeOK
<1>6. CASE n = 3
  <2>1. Written(s, q) /\ block' = [block EXCEPT ![b] = Arrived(@, Row(s), b)]
    BY <1>1, <1>6 DEF Written
  <2>2. RowsTrue' /\ BlocksTrue' /\ Grows
    BY <1>1, <2>1, TruthBody DEF q
  <2> QED BY <1>3, <1>5, <2>2 DEF TruthInv
<1>7. CASE n # 3
  <2>1. row' = row
    BY <1>1, <1>7
  <2>2. \A c \in Blocks : block'[c] = block[c] \/ (c = b /\ block'[b] = Arrived(block[b], Row(s), b))
    BY <1>1 DEF TruthInv, TypeOK
  <2>3. BlocksTrue'
    BY <1>4, <2>2 DEF BlocksTrue, TruthInv
  <2>4. Grows
    BY <1>1, <2>1, KeepsItself DEF Grows, KeptAt, IsFinal, TruthInv, TypeOK
  <2>5. RowsTrue'
    <3> SUFFICES ASSUME NEW x \in Slots, row[x] # None
                 PROVE  RowTold(row[x], x, events', block')
      BY <2>1 DEF RowsTrue
    <3>1. RowTold(row[x], x, events, block) /\ row[x] \in SlotRow
      BY DEF TruthInv, RowsTrue, TypeOK
    <3>2. ASSUME row[x].exec_final, NEW c \in row[x].candidates
          PROVE  block'[c] # "SeenCandidate"
      <4>1. c \in Blocks /\ BlockSlot[c] = x /\ block[c] # "SeenCandidate" /\ row[x].status = "Final"
        BY <3>1, <3>2 DEF RowTold, RowShape, SlotRow
      <4>2. CASE block'[c] = block[c]
        BY <4>1, <4>2
      <4>3. CASE c = b /\ block'[b] = Arrived(block[b], Row(s), b)
        <5>1. Row(s) = row[x]
          BY <4>1, <4>3 DEF Row, RowOrFresh
        <5> QED BY <4>1, <4>3, <5>1, ArrivedTrue
      <4> QED BY <2>2, <4>1, <4>2, <4>3
    <3> QED BY <1>1, <3>1, <3>2 DEF RowTold
  <2> QED BY <1>3, <1>5, <2>3, <2>4, <2>5 DEF TruthInv
<1> QED BY <1>6, <1>7

-----------------------------------------------------------------------------
(* The writer, on events of the two lanes. *)

LiveEvents == [kind : {"block"}, msg : Blocks] \cup [kind : {"exec"}, msg : ExecFrames]
                \cup [kind : {"transfers"}, msg : TransferFrames]

BulkEvents == [kind : {"peer"}, msg : TruePeers] \cup [kind : {"legacy"}, msg : TrueLegacies]
                \cup [kind : {"forced"}, msg : ForcedVerdicts]

\* Nothing is written.
LEMMA TruthIdle ==
  ASSUME TruthInv, UNCHANGED vars
  PROVE  TruthInv' /\ Grows /\ OpsGrow
<1>1. TruthInv'
  BY DEF vars, TruthInv, TypeOK, RowsTrue, BlocksTrue
<1>2. Grows
  BY KeepsItself DEF vars, Grows, KeptAt, IsFinal, TruthInv, TypeOK
<1>3. OpsGrow
  BY DEF vars, OpsGrow, TruthInv, TypeOK, OpRow
<1> QED BY <1>1, <1>2, <1>3

\* Operation rows only grow, whatever the event.
LEMMA HandledOps ==
  ASSUME TruthInv, NEW e \in LiveEvents \cup BulkEvents, Handle(e)
  PROVE  OpsGrow
<1>1. TypeOK
  BY DEF TruthInv
<1>2. ASSUME op' = op PROVE OpsGrow
  BY <1>1, <1>2 DEF OpsGrow, TypeOK, OpRow
<1>3. CASE e.kind = "block"
  <2>1. e.msg \in Blocks /\ HandleBlock(e.msg)
    BY <1>3 DEF Handle, LiveEvents, BulkEvents
  <2> QED BY <1>1, <2>1, IncludedGrow DEF HandleBlock
<1>4. CASE e.kind = "exec"
  <2>1. /\ e.msg \in ExecFrames
        /\ \/ HandleExecFinal(e.msg) \/ CompleteFinalExec(e.msg) \/ HandleExecCandidate(e.msg)
           \/ UNCHANGED vars
    BY <1>4 DEF Handle, LiveEvents, BulkEvents
  <2>2. op' = ApplyExecutedOps(op, e.msg) \/ op' = op
    BY <2>1 DEF HandleExecFinal, CompleteFinalExec, HandleExecCandidate, vars
  <2> QED BY <1>1, <1>2, <2>1, <2>2, ApplyExecutedOpsGrow
<1>5. CASE e.kind = "peer"
  <2>1. e.msg \in TruePeers
    BY <1>5 DEF LiveEvents, BulkEvents
  <2>2. ApplyPeerPatch(e.msg) \/ UNCHANGED vars
    BY <1>5, SMTT(30) DEF Handle
  <2>3. op' = ShipOps(op, e.msg) \/ op' = op
    BY <2>2, ZenonT(60) DEF ApplyPeerPatch, PromoteFromPeer, CompleteFromPeer, RepairFromPeer,
                            ApplyParts, vars
  <2> QED BY <1>1, <2>1, <2>3, ShipOpsGrow DEF TruePeers, PeerPatch
<1>6. CASE e.kind = "legacy"
  <2>1. e.msg \in TrueLegacies /\ ApplyLegacyPatch(e.msg)
    BY <1>6 DEF Handle, LiveEvents, BulkEvents
  <2>2. op' = ShipOps(op, e.msg) \/ op' = op
    BY <2>1 DEF ApplyLegacyPatch
  <2> QED BY <1>1, <2>1, <2>2, ShipOpsGrow DEF TrueLegacies, LegacyPatch
<1>7. CASE e.kind \in {"transfers", "forced"}
  <2>1. op' = op
    BY <1>7 DEF Handle, HandleTransfers, ApplyForcedVerdict, vars
  <2> QED BY <1>2, <2>1
<1> QED BY <1>3, <1>4, <1>5, <1>6, <1>7 DEF LiveEvents, BulkEvents

\* Ingest::handle
LEMMA TruthHandle ==
  ASSUME TruthInv, NEW e \in LiveEvents \cup BulkEvents, Handle(e)
  PROVE  TruthInv' /\ Grows /\ OpsGrow
<1>0. OpsGrow
  BY HandledOps
<1>1. CASE e.kind = "block"
  BY <1>0, <1>1, TruthHandleBlock DEF Handle, LiveEvents, BulkEvents
<1>2. CASE e.kind = "exec"
  BY <1>0, <1>2, TruthHandleExecFinal, TruthCompleteFinalExec, TruthHandleExecCandidate, TruthIdle
     DEF Handle, LiveEvents, BulkEvents
<1>3. CASE e.kind = "transfers"
  BY <1>0, <1>3, TruthHandleTransfers DEF Handle, LiveEvents, BulkEvents
<1>4. CASE e.kind = "peer"
  BY <1>0, <1>4, TruthPeer DEF Handle, LiveEvents, BulkEvents
<1>5. CASE e.kind = "legacy"
  BY <1>0, <1>5, TruthLegacy DEF Handle, LiveEvents, BulkEvents
<1>6. CASE e.kind = "forced"
  BY <1>0, <1>6, TruthForced, TruthIdle DEF Handle, LiveEvents, BulkEvents
<1> QED BY <1>1, <1>2, <1>3, <1>4, <1>5, <1>6 DEF LiveEvents, BulkEvents

-----------------------------------------------------------------------------
(***************************************************************************)
(* The inductive invariant of the feeders.  What is queued is true; what   *)
(* the earlier run left is kept; and a slot that a pass or the importer    *)
(* has behind it is accounted for: done, queued, given up, or among the    *)
(* slots still to be read or asked for.                                    *)
(***************************************************************************)

Targets == (Slots \X Nat) \cup (Slots \X (Blocks \cup {None}) \X BOOLEAN)

TaskState ==
  [pc : {"off", "wait", "walk", "run", "done"}, at : 0 .. MaxPeriod, to : 0 .. MaxPeriod,
   todo : Seq(Slots), targets : SUBSET Targets, errored : BOOLEAN]

FeedsTyped ==
  /\ boot \in Boots /\ node \in Streams
  /\ live \in Seq(LiveEvents) /\ Len(live) <= LiveCapacity
  /\ bulk \in Seq(BulkEvents) /\ Len(bulk) <= BulkCapacity
  /\ task \in [Tasks -> TaskState]
  /\ ckpt \in [Passes -> [0 .. MaxPeriod -> 0 .. MaxPeriod + 1 \cup {None}]]
  /\ faults \in 0 .. MaxFaults

\* What the earlier run settled still stands.
BootKept ==
  /\ \A s \in Slots : IsFinal(boot.db.row, s) => row[s] # None /\ Keeps(boot.db.row[s], row[s])
  /\ \A o \in Ops : boot.db.op[o] # None =>
       op[o] # None /\ boot.db.op[o].fin \in {None, op[o].fin}

\* The slot needed the repair from the start, and does still.
Needed(p, s) == Repairs(p, boot.db.op, boot.db.row[s]) /\ Repairs(p, op, row[s])

\* The bulk lane holds the patch that repairs s.
Waiting(p, s) ==
  \E e \in Range(bulk) :
    /\ e.msg.slot = s
    /\ IF p = "pull" THEN e.kind = "peer" /\ Remote[s] # None /\ e.msg = Masked(Remote[s])
                     ELSE e.kind = "legacy" /\ e.msg.transfers

Accounted(p, s) == Repaired(p, s) \/ Waiting(p, s) \/ <<p, s>> \in given_up

CkptInv ==
  \A p \in boot.tasks \cap Passes, to \in 0 .. MaxPeriod, s \in Slots :
    Passed(p, to, s) /\ Needed(p, s) => Accounted(p, s)

\* The slots of the pass down (or up) to its present period or window.
Reached(p, t, s) ==
  /\ RepairFrom <= s[1] /\ s[1] <= t.to
  /\ IF p = "pull" THEN PullLo(t.at) <= s[1] ELSE s[1] <= t.at

InHand(t, s) == s \in Range(t.todo) \/ \E x \in t.targets : x[1] = s

\* A target of legacy_sub: the block of the chain, and whether its rows are there.
TargetTrue(x) ==
  /\ x[2] \in Blocks /\ BlockSlot[x[2]] = x[1] /\ Chain[x[1]] = x[2]
  /\ x[3] => IsFinal(row, x[1]) /\ transfers[x[1]] # {}

PassInv(p) ==
  LET t == task[p] IN
  /\ t.pc \in {"off", "run", "done"}
  /\ p \notin boot.tasks => t.pc = "off"
  /\ t.pc = "run" =>
       /\ RepairFrom <= t.at /\ t.at <= t.to
       /\ \A s \in Slots : Reached(p, t, s) /\ Needed(p, s) => Accounted(p, s) \/ InHand(t, s)
       /\ p = "legacy_sub" => \A x \in t.targets : TargetTrue(x)
       /\ p = "reconstruct" => t.targets = {}

PassesInv == \A p \in Passes : PassInv(p)

\* The slot has its verdict, and what the tables hold of it.
Covered(s) == IsFinal(row, s) /\ (Legacy[s] # None => AlreadyCovered(row[s]))

Imported(s) ==
  \/ Covered(s)
  \/ \E e \in Range(bulk) : /\ e.kind = "legacy" /\ e.msg.slot = s
                            /\ Legacy[s] # None => e.msg.body /\ ~e.msg.is_miss

ImportInv ==
  LET i == task["import"]
      window == Between(ImportMin, i.to)
  IN  /\ i.pc \in {"off", "wait", "walk", "done"}
      /\ "import" \notin boot.tasks => i.pc = "off"
      /\ i.targets \subseteq Slots \X Nat
      /\ i.pc # "walk" => i.targets = {}
      /\ i.pc \in {"walk", "done"} /\ ImportMax # None => i.to = ImportMax
      /\ i.pc = "walk" => \A s \in Slots : InHand(i, s) => s \in window
      /\ i.pc = "walk" /\ ~i.errored => \A s \in window : Imported(s) \/ InHand(i, s)
      /\ i.pc = "done" => \A s \in window : Imported(s)

Accounts == BootKept /\ CkptInv /\ PassesInv /\ ImportInv

FeedersInv == TruthInv /\ FeedsTyped /\ Accounts

-----------------------------------------------------------------------------
(* What a step of the writer leaves of the accounts. *)

\* The configurations are typed.
LEMMA BootFacts ==
  ASSUME NEW c \in Boots
  PROVE  /\ c.tasks \subseteq Tasks /\ c.streams \in Streams
         /\ c.db.row \in [Slots -> SlotRow \cup {None}]
         /\ c.db.op \in [Ops -> OpRow \cup {None}]
         /\ OnChain(c.db)
<1>1. c.tasks \subseteq Tasks /\ c.streams \in Streams /\ c.db \in Database /\ OnChain(c.db)
  BY FeedersAssumption, SourcesAgree
<1> QED BY <1>1 DEF Database

\* What is kept twice is kept.
LEMMA KeepsTwice ==
  ASSUME NEW a \in SlotRow, NEW b \in SlotRow, NEW c \in SlotRow, Keeps(a, b), Keeps(b, c)
  PROVE  Keeps(a, c)
BY DEF Keeps

\* Operation rows that only grew.
OpsSince(old, new) ==
  \A o \in Ops : old[o] # None => new[o] # None /\ old[o].fin \in {None, new[o].fin}

\* An operation that ran in a row has run in it ever since.
LEMMA RanSince ==
  ASSUME NEW old \in [Ops -> OpRow \cup {None}], NEW new \in [Ops -> OpRow \cup {None}],
         OpsSince(old, new), NEW a \in SlotRow, NEW b \in SlotRow, Keeps(a, b), NEW kind,
         Ran(old, a, kind)
  PROVE  Ran(new, b, kind)
<1>1. PICK o \in a.executed : old[o] # None /\ OpKind[o] = kind /\ old[o].fin = "Ok"
  BY DEF Ran
<1>2. o \in Ops /\ b.executed = a.executed
  BY <1>1 DEF SlotRow, Keeps
<1>3. new[o] # None /\ old[o].fin \in {None, new[o].fin}
  BY <1>1, <1>2 DEF OpsSince
<1>4. None # "Ok"
  BY StoreAssumption DEF ExecStatus
<1> QED BY <1>1, <1>2, <1>3, <1>4 DEF Ran

\* A repair that was needed at first and is needed at last was needed in between.
LEMMA RepairsBetween ==
  ASSUME NEW p \in Passes,
         NEW o0 \in [Ops -> OpRow \cup {None}], NEW o1 \in [Ops -> OpRow \cup {None}],
         NEW o2 \in [Ops -> OpRow \cup {None}], OpsSince(o0, o1),
         NEW r0 \in SlotRow, NEW r1 \in SlotRow, NEW r2 \in SlotRow,
         Keeps(r0, r1), Keeps(r1, r2),
         Repairs(p, o0, r0), Repairs(p, o2, r2)
  PROVE  Repairs(p, o1, r1)
<1>1. r1 # None /\ r1.status = "Final"
  BY AbsentAssumption DEF Keeps
<1>2. \A kind : Ran(o0, r0, kind) => Ran(o1, r1, kind)
  BY RanSince
<1>3. NoList(r2) => NoList(r1)
  BY <1>1 DEF NoList, Keeps, SlotRow
<1>4. LacksParts(o2, r2) /\ (RequireScOps => Ran(o1, r1, "CallSc")) => LacksParts(o1, r1)
  BY <1>1 DEF LacksParts, Keeps, SlotRow
<1>5. CASE p = "reconstruct"
  BY <1>2, <1>3, <1>5 DEF Repairs
<1>6. CASE p = "legacy_sub"
  BY <1>2, <1>3, <1>6 DEF Repairs
<1>7. CASE p = "pull"
  BY <1>2, <1>4, <1>7 DEF Repairs, LacksParts
<1> QED BY <1>5, <1>6, <1>7 DEF Passes

\* A row that is to be repaired is FINAL.
LEMMA RepairsFinal ==
  ASSUME NEW p \in Passes, NEW ops, NEW r, Repairs(p, ops, r)
  PROVE  r # None /\ r.status = "Final"
BY DEF Repairs, NoList, LacksParts, Passes

\* The operations of a boot have grown since.
LEMMA BootGrown ==
  ASSUME TruthInv, TruthInv', boot \in Boots, BootKept, Grows, OpsGrow, boot' = boot
  PROVE  BootKept'
<1>1. /\ boot.db.row \in [Slots -> SlotRow \cup {None}]
      /\ boot.db.op \in [Ops -> OpRow \cup {None}]
      /\ row \in [Slots -> SlotRow \cup {None}] /\ row' \in [Slots -> SlotRow \cup {None}]
      /\ op \in [Ops -> OpRow \cup {None}] /\ op' \in [Ops -> OpRow \cup {None}]
  BY BootFacts DEF TruthInv, TypeOK
<1>2. ASSUME NEW s \in Slots, IsFinal(boot.db.row, s)
      PROVE  row'[s] # None /\ Keeps(boot.db.row[s], row'[s])
  <2>1. row[s] # None /\ Keeps(boot.db.row[s], row[s])
    BY <1>2 DEF BootKept
  <2>2. row'[s] # None /\ Keeps(row[s], row'[s])
    BY <2>1 DEF Grows, KeptAt, IsFinal, Keeps
  <2>3. boot.db.row[s] \in SlotRow /\ row[s] \in SlotRow /\ row'[s] \in SlotRow
    BY <1>1, <1>2, <2>1, <2>2 DEF IsFinal
  <2> QED BY <2>1, <2>2, <2>3, KeepsTwice
<1>3. ASSUME NEW o \in Ops, boot.db.op[o] # None
      PROVE  op'[o] # None /\ boot.db.op[o].fin \in {None, op'[o].fin}
  BY <1>3 DEF BootKept, OpsGrow
<1> QED BY <1>2, <1>3 DEF BootKept

\* What is needed after a step was needed before it.
LEMMA NeededBack ==
  ASSUME TruthInv, TruthInv', boot \in Boots, BootKept, Grows, boot' = boot,
         NEW p \in Passes, NEW s \in Slots, Needed(p, s)'
  PROVE  Needed(p, s) /\ IsFinal(row, s)
<1> DEFINE r0 == boot.db.row[s]
<1>1. /\ boot.db.row \in [Slots -> SlotRow \cup {None}]
      /\ boot.db.op \in [Ops -> OpRow \cup {None}]
      /\ row \in [Slots -> SlotRow \cup {None}] /\ row' \in [Slots -> SlotRow \cup {None}]
      /\ op \in [Ops -> OpRow \cup {None}] /\ op' \in [Ops -> OpRow \cup {None}]
  BY BootFacts DEF TruthInv, TypeOK
<1>2. Repairs(p, boot.db.op, r0) /\ Repairs(p, op', row'[s])
  BY DEF Needed
<1>3. IsFinal(boot.db.row, s) /\ r0 \in SlotRow
  BY <1>1, <1>2, RepairsFinal DEF IsFinal
<1>4. row[s] # None /\ Keeps(r0, row[s]) /\ row[s] \in SlotRow
  BY <1>1, <1>3 DEF BootKept
<1>5. IsFinal(row, s)
  BY <1>4 DEF IsFinal, Keeps
<1>6. row'[s] # None /\ Keeps(row[s], row'[s]) /\ row'[s] \in SlotRow
  BY <1>1, <1>5 DEF Grows, KeptAt
<1>7. OpsSince(boot.db.op, op)
  BY DEF OpsSince, BootKept
<1> HIDE DEF r0
<1>8. Repairs(p, op, row[s])
  BY <1>1, <1>2, <1>3, <1>4, <1>6, <1>7, RepairsBetween
<1> QED BY <1>2, <1>5, <1>8 DEF Needed, r0

\* What was repaired stays repaired.
LEMMA RepairedKept ==
  ASSUME NEW p \in Passes, NEW s \in Slots, IsFinal(row, s), Grows, Repaired(p, s)
  PROVE  Repaired(p, s)'
<1>1. row'[s] # None /\ Keeps(row[s], row'[s]) /\ (transfers[s] # {} => transfers'[s] # {})
  BY DEF Grows, KeptAt
<1>2. Supplied(s) => Supplied(s)'
  BY <1>1 DEF Supplied, Keeps, TrailClash
<1> QED BY <1>1, <1>2 DEF Repaired

\* What was covered stays covered.
LEMMA CoveredKept ==
  ASSUME NEW s \in Slots, Grows, Covered(s)
  PROVE  Covered(s)'
<1>1. row'[s] # None /\ Keeps(row[s], row'[s])
  BY DEF Grows, KeptAt, Covered
<1> QED BY <1>1 DEF Covered, IsFinal, AlreadyCovered, Keeps

-----------------------------------------------------------------------------
(* Accounts that a step carries over. *)

Carried ==
  \A p \in boot.tasks \cap Passes, s \in Slots :
    Needed(p, s)' => Needed(p, s) /\ (Accounted(p, s) => Accounted(p, s)')

CarriedImport == \A s \in Slots : Imported(s) => Imported(s)'

\* A target is of a slot.
LEMMA TargetSlot == \A x \in Targets : x[1] \in Slots
BY DEF Targets

\* The accounts of the checkpoints.
LEMMA CkptKept ==
  ASSUME CkptInv, Carried, boot' = boot, ckpt' = ckpt
  PROVE  CkptInv'
BY DEF CkptInv, Carried, Passed

\* The accounts of a pass that does not move.
LEMMA PassKept ==
  ASSUME FeedsTyped, NEW p \in Passes, PassInv(p), Carried, Grows,
         boot' = boot, task'[p] = task[p]
  PROVE  PassInv(p)'
<1> DEFINE t == task[p]
<1>1. t \in TaskState /\ p \in Tasks
  BY DEF FeedsTyped, Tasks
<1>2. t.pc \in {"off", "run", "done"} /\ (p \notin boot.tasks => t.pc = "off")
  BY DEF PassInv
<1> SUFFICES ASSUME t.pc = "run"
             PROVE  /\ RepairFrom <= t.at /\ t.at <= t.to
                    /\ \A s \in Slots : Reached(p, t, s) /\ Needed(p, s)'
                                          => Accounted(p, s)' \/ InHand(t, s)
                    /\ p = "legacy_sub" => \A x \in t.targets : TargetTrue(x)'
                    /\ p = "reconstruct" => t.targets = {}
  BY <1>2 DEF PassInv
<1>3. RepairFrom <= t.at /\ t.at <= t.to /\ (p = "reconstruct" => t.targets = {})
  BY DEF PassInv
<1>4. p \in boot.tasks \cap Passes
  BY <1>2
<1>5. ASSUME NEW s \in Slots, Reached(p, t, s), Needed(p, s)'
      PROVE  Accounted(p, s)' \/ InHand(t, s)
  BY <1>4, <1>5 DEF PassInv, Carried
<1>6. ASSUME p = "legacy_sub", NEW x \in t.targets
      PROVE  TargetTrue(x)'
  <2>1. x[1] \in Slots
    BY <1>1, TargetSlot DEF TaskState
  <2>2. TargetTrue(x)
    BY <1>6 DEF PassInv
  <2>3. x[3] => IsFinal(row', x[1]) /\ transfers'[x[1]] # {}
    BY <2>1, <2>2 DEF TargetTrue, Grows, KeptAt, IsFinal, Keeps
  <2> QED BY <2>2, <2>3 DEF TargetTrue
<1> QED BY <1>3, <1>5, <1>6

\* The accounts of an importer that does not move.
LEMMA ImportKept ==
  ASSUME ImportInv, CarriedImport, boot' = boot, task'["import"] = task["import"]
  PROVE  ImportInv'
BY DEF ImportInv, CarriedImport, Between

-----------------------------------------------------------------------------
(* Steps of the writer. *)

\* A step carries the accounts if a patch that was waiting has done its work, is
\* still waiting, or is given up.
LEMMA CarriedBy ==
  ASSUME FeedersInv, TruthInv', Grows, boot' = boot, given_up \subseteq given_up',
         \A p \in boot.tasks \cap Passes, s \in Slots :
           IsFinal(row, s) /\ Waiting(p, s)
             => Repaired(p, s)' \/ Waiting(p, s)' \/ <<p, s>> \in given_up'
  PROVE  Carried
<1> SUFFICES ASSUME NEW p \in boot.tasks \cap Passes, NEW s \in Slots, Needed(p, s)'
             PROVE  Needed(p, s) /\ (Accounted(p, s) => Accounted(p, s)')
  BY DEF Carried
<1>1. Needed(p, s) /\ IsFinal(row, s)
  BY NeededBack DEF FeedersInv, FeedsTyped, Accounts
<1>2. Repaired(p, s) => Repaired(p, s)'
  BY <1>1, RepairedKept
<1> QED BY <1>1, <1>2 DEF Accounted

\* The accounts after a step of the writer.
LEMMA WriterAccounts ==
  ASSUME FeedersInv, TruthInv', Grows, OpsGrow, UNCHANGED feeds, Carried, CarriedImport
  PROVE  Accounts'
<1>1. boot' = boot /\ ckpt' = ckpt /\ task' = task
  BY DEF feeds
<1>2. BootKept'
  BY <1>1, BootGrown DEF FeedersInv, FeedsTyped, Accounts
<1>3. CkptInv'
  BY <1>1, CkptKept DEF FeedersInv, Accounts
<1>4. PassesInv'
  BY <1>1, PassKept DEF FeedersInv, Accounts, PassesInv
<1>5. ImportInv'
  BY <1>1, ImportKept DEF FeedersInv, Accounts
<1> QED BY <1>2, <1>3, <1>4, <1>5 DEF Accounts

\* An event of the live lane.
LEMMA StepServeLive ==
  ASSUME FeedersInv, ServeLive
  PROVE  FeedersInv'
<1>1. /\ live \in Seq(LiveEvents) /\ live # <<>> /\ live' = Tail(live) /\ bulk' = bulk
      /\ UNCHANGED feeds /\ Handle(Head(live))
  BY DEF FeedersInv, FeedsTyped, ServeLive
<1>2. Head(live) \in LiveEvents /\ Tail(live) \in Seq(LiveEvents) /\ Len(Tail(live)) = Len(live) - 1
  BY <1>1, TailFacts
<1>3. TruthInv' /\ Grows /\ OpsGrow
  BY <1>1, <1>2, TruthHandle DEF FeedersInv
<1>4. FeedsTyped'
  <2>1. Len(live) \in Nat /\ Len(live) <= LiveCapacity /\ LiveCapacity \in Nat
    BY <1>1, FeedersAssumption DEF FeedersInv, FeedsTyped
  <2>2. Len(live') <= LiveCapacity
    BY <1>1, <1>2, <2>1
  <2> QED BY <1>1, <1>2, <2>2 DEF FeedersInv, FeedsTyped, feeds
<1>5. Carried
  <2>1. \A p, s : Waiting(p, s)' <=> Waiting(p, s)
    BY <1>1 DEF Waiting
  <2> QED BY <1>1, <1>3, <2>1, CarriedBy DEF feeds
<1>6. CarriedImport
  BY <1>1, <1>3, CoveredKept DEF CarriedImport, Imported
<1> QED BY <1>1, <1>3, <1>4, <1>5, <1>6, WriterAccounts DEF FeedersInv

\* A patch of the bulk lane does what it was queued for.
LEMMA PatchDone ==
  ASSUME FeedersInv, NEW e \in BulkEvents, Handle(e), NEW s \in Slots, e.msg.slot = s
  PROVE  /\ e.kind = "legacy" => IsFinal(row', s)
         /\ e.kind = "legacy" /\ e.msg.body /\ ~e.msg.is_miss => row'[s].body
         /\ e.kind = "legacy" /\ e.msg.transfers => transfers'[s] # {}
         /\ e.kind = "peer" /\ IsFinal(row, s) =>
              Has(row'[s], e.msg) \/ TrailClash(row'[s].trail, e.msg.trail)
<1>1. CASE e.kind = "legacy"
  <2>1. e.msg \in TrueLegacies /\ ApplyLegacyPatch(e.msg)
    BY <1>1 DEF Handle, BulkEvents
  <2> QED BY <1>1, <2>1, TruthLegacy DEF FeedersInv
<1>2. CASE e.kind = "peer"
  <2>1. e.msg \in TruePeers /\ (ApplyPeerPatch(e.msg) \/ (IgnoresPeer(e.msg) /\ UNCHANGED vars))
    BY <1>2 DEF Handle, BulkEvents
  <2> QED BY <1>2, <2>1, TruthPeer DEF FeedersInv
<1> QED BY <1>1, <1>2

\* An event of the bulk lane.
LEMMA StepServeBulk ==
  ASSUME FeedersInv, ServeBulk
  PROVE  FeedersInv'
<1> DEFINE h == Head(bulk)
<1>1. /\ bulk \in Seq(BulkEvents) /\ bulk # <<>> /\ bulk' = Tail(bulk) /\ live' = live
      /\ UNCHANGED feeds /\ Handle(h)
  BY DEF FeedersInv, FeedsTyped, ServeBulk
<1>2. /\ h \in BulkEvents /\ Tail(bulk) \in Seq(BulkEvents) /\ Len(Tail(bulk)) = Len(bulk) - 1
      /\ Range(bulk) = {h} \cup Range(bulk')
  BY <1>1, TailFacts
<1> HIDE DEF h
<1>3. TruthInv' /\ Grows /\ OpsGrow
  BY <1>1, <1>2, TruthHandle DEF FeedersInv
<1>4. FeedsTyped'
  <2>1. Len(bulk) \in Nat /\ Len(bulk) <= BulkCapacity /\ BulkCapacity \in Nat
    BY <1>1, FeedersAssumption DEF FeedersInv, FeedsTyped
  <2>2. Len(bulk') <= BulkCapacity
    BY <1>1, <1>2, <2>1
  <2> QED BY <1>1, <1>2, <2>2 DEF FeedersInv, FeedsTyped, feeds
<1>5. Carried
  <2>1. ASSUME NEW p \in boot.tasks \cap Passes, NEW s \in Slots, IsFinal(row, s), Waiting(p, s)
        PROVE  Repaired(p, s)' \/ Waiting(p, s)'
    <3>1. PICK e \in Range(bulk) :
            /\ e.msg.slot = s
            /\ IF p = "pull" THEN e.kind = "peer" /\ Remote[s] # None /\ e.msg = Masked(Remote[s])
                             ELSE e.kind = "legacy" /\ e.msg.transfers
      BY <2>1 DEF Waiting
    <3>2. CASE e \in Range(bulk')
      BY <3>1, <3>2 DEF Waiting
    <3>3. CASE e = h /\ p = "pull"
      <4>1. Has(row'[s], e.msg) \/ TrailClash(row'[s].trail, e.msg.trail)
        BY <1>1, <1>2, <2>1, <3>1, <3>3, PatchDone
      <4> QED BY <3>1, <3>3, <4>1 DEF Repaired, Supplied, Has
    <3>4. CASE e = h /\ p # "pull"
      <4>1. transfers'[s] # {}
        BY <1>1, <1>2, <3>1, <3>4, PatchDone
      <4> QED BY <3>4, <4>1 DEF Repaired
    <3> QED BY <1>2, <3>1, <3>2, <3>3, <3>4
  <2> QED BY <1>1, <1>3, <2>1, CarriedBy DEF feeds
<1>6. CarriedImport
  <2> SUFFICES ASSUME NEW s \in Slots, Imported(s) PROVE Imported(s)'
    BY DEF CarriedImport
  <2>1. CASE Covered(s)
    BY <1>3, <2>1, CoveredKept DEF Imported
  <2>2. ASSUME NEW e \in Range(bulk), e.kind = "legacy", e.msg.slot = s,
               Legacy[s] # None => e.msg.body /\ ~e.msg.is_miss
        PROVE  Imported(s)'
    <3>1. CASE e \in Range(bulk')
      BY <2>2, <3>1 DEF Imported
    <3>2. CASE e = h
      <4>1. IsFinal(row', s) /\ (Legacy[s] # None => row'[s].body)
        BY <1>1, <1>2, <2>2, <3>2, PatchDone
      <4> QED BY <4>1 DEF Imported, Covered, AlreadyCovered, IsFinal
    <3> QED BY <1>2, <2>2, <3>1, <3>2
  <2> QED BY <2>1, <2>2 DEF Imported
<1> QED BY <1>1, <1>3, <1>4, <1>5, <1>6, WriterAccounts DEF FeedersInv

-----------------------------------------------------------------------------
(* The tasks start. *)

\* What a window of pull_parts reaches down to.
LEMMA PullLoFacts ==
  ASSUME NEW hi \in 0 .. MaxPeriod, RepairFrom <= hi
  PROVE  /\ PullLo(hi) \in 0 .. MaxPeriod /\ RepairFrom <= PullLo(hi) /\ PullLo(hi) <= hi
         /\ Minus(PullLo(hi), 1) \in 0 .. MaxPeriod
BY FeedersAssumption, StoreAssumption DEF PullLo, Upper, Minus

\* A pass at the beginning of a period or window.
LEMMA EnterFacts ==
  ASSUME NEW p \in Passes, NEW at \in 0 .. MaxPeriod, NEW to \in 0 .. MaxPeriod,
         RepairFrom <= at
  PROVE  LET t == EnterPeriod(p, at, to)
         IN  /\ t \in TaskState /\ t.pc = "run" /\ t.at = at /\ t.to = to /\ t.targets = {}
             /\ Range(t.todo) = Between(IF p = "pull" THEN PullLo(at) ELSE at, at)
<1> DEFINE lo == IF p = "pull" THEN PullLo(at) ELSE at
           todo == Downward(lo, at)
           t == EnterPeriod(p, at, to)
<1>1. lo \in Nat
  BY PullLoFacts, StoreAssumption
<1> HIDE DEF lo
<1>2. todo \in Seq(Slots) /\ Range(todo) = Between(lo, at)
  BY <1>1, DownwardFacts
<1> HIDE DEF todo
<1>3. t = [Off EXCEPT !.pc = "run", !.at = at, !.to = to, !.todo = todo]
  BY DEF EnterPeriod, lo, todo
<1>4. t = [pc |-> "run", at |-> at, to |-> to, todo |-> todo, targets |-> {}, errored |-> FALSE]
  BY <1>3 DEF Off
<1> HIDE DEF t
<1>5. t \in TaskState /\ t.pc = "run" /\ t.at = at /\ t.to = to /\ t.targets = {} /\ t.todo = todo
  BY <1>2, <1>4 DEF TaskState
<1> QED BY <1>2, <1>5 DEF t, lo

\* A task that is off, waits or is done.
LEMMA OffFacts ==
  ASSUME NEW pc \in {"off", "wait", "done"}, NEW to \in 0 .. MaxPeriod
  PROVE  /\ [Off EXCEPT !.pc = pc, !.to = to] \in TaskState
         /\ [Off EXCEPT !.pc = pc, !.to = to].pc = pc
         /\ [Off EXCEPT !.pc = pc, !.to = to].to = to
         /\ [Off EXCEPT !.pc = pc, !.to = to].targets = {}
         /\ [Off EXCEPT !.pc = pc] \in TaskState
         /\ [Off EXCEPT !.pc = pc].pc = pc /\ [Off EXCEPT !.pc = pc].targets = {}
         /\ Off \in TaskState /\ Off.pc = "off" /\ Off.targets = {}
<1>1. <<>> \in Seq(Slots) /\ 0 \in 0 .. MaxPeriod
  BY EmptyFacts, StoreAssumption
<1> QED BY <1>1 DEF Off, TaskState

\* A pass begins where its checkpoint says: all before that is passed.
LEMMA StartPassFacts ==
  ASSUME NEW p \in Passes, NEW to \in 0 .. MaxPeriod, NEW mark \in 0 .. MaxPeriod + 1 \cup {None}
  PROVE  LET t == StartPass(p, to, mark)
         IN  /\ t \in TaskState /\ t.pc \in {"run", "done"}
             /\ t.pc = "run" =>
                  /\ RepairFrom <= t.at /\ t.at <= t.to /\ t.to = to /\ t.targets = {}
                  /\ \A s \in Slots : Reached(p, t, s) =>
                       \/ s \in Range(t.todo)
                       \/ mark # None /\ (IF p = "pull" THEN s[1] > mark ELSE s[1] < mark)
<1> DEFINE first == CASE p = "pull" -> IF mark = None \/ mark > to THEN to ELSE mark
                      [] p # "pull" -> IF mark = None THEN RepairFrom ELSE Upper(mark, RepairFrom)
           over == (p = "pull" /\ first < RepairFrom) \/ (p # "pull" /\ first > to)
           t == StartPass(p, to, mark)
           lo == IF p = "pull" THEN PullLo(first) ELSE first
<1>1. t = IF over THEN [Off EXCEPT !.pc = "done"] ELSE EnterPeriod(p, first, to)
  BY DEF StartPass
<1>2. CASE over
  BY <1>1, <1>2, OffFacts
<1>3. CASE ~over
  <2>1. first \in 0 .. MaxPeriod /\ RepairFrom <= first /\ first <= to
    BY <1>3, FeedersAssumption, StoreAssumption DEF Upper
  <2>2. /\ \A n \in Nat : p = "pull" /\ n > first => n > to \/ (mark # None /\ n > mark)
        /\ \A n \in Nat : p # "pull" /\ n < first => n < RepairFrom \/ (mark # None /\ n < mark)
    BY FeedersAssumption, StoreAssumption DEF Upper
  <2> HIDE DEF first, over
  <2>3. /\ t \in TaskState /\ t.pc = "run" /\ t.at = first /\ t.to = to /\ t.targets = {}
        /\ Range(t.todo) = Between(lo, first)
    BY <1>1, <1>3, <2>1, EnterFacts
  <2> HIDE DEF t
  <2>4. ASSUME NEW s \in Slots, Reached(p, t, s)
        PROVE  \/ s \in Range(t.todo)
               \/ mark # None /\ (IF p = "pull" THEN s[1] > mark ELSE s[1] < mark)
    <3>1. s[1] \in Nat /\ RepairFrom <= s[1] /\ s[1] <= to
          /\ (IF p = "pull" THEN PullLo(first) <= s[1] ELSE s[1] <= first)
      BY <2>3, <2>4 DEF Reached, Slots
    <3>2. CASE lo <= s[1] /\ s[1] <= first
      BY <2>3, <3>2 DEF Between
    <3>3. CASE ~(lo <= s[1] /\ s[1] <= first)
      <4>1. (p = "pull" /\ s[1] > first) \/ (p # "pull" /\ s[1] < first)
        BY <2>1, <3>1, <3>3
      <4>2. RepairFrom \in Nat
        BY FeedersAssumption
      <4> QED BY <2>1, <2>2, <3>1, <4>1, <4>2
    <3> QED BY <3>2, <3>3
  <2> QED BY <2>1, <2>3, <2>4 DEF t
<1> QED BY <1>2, <1>3

\* The range of the passes.
LEMMA PassToType ==
  ASSUME NEW head \in Slots \cup {None}
  PROVE  PassTo(head) \in 0 .. MaxPeriod
BY FeedersAssumption, StoreAssumption DEF PassTo, Slots

Starting ==
  /\ boot \in Boots /\ last_final \in Slots \cup {None}
  /\ ckpt \in [Passes -> [0 .. MaxPeriod -> 0 .. MaxPeriod + 1 \cup {None}]]
  /\ CkptInv
  /\ task = StartTasks(boot.tasks, last_final, ckpt)

\* serve: the tasks start where the checkpoints are honest.
LEMMA Started == Starting => task \in [Tasks -> TaskState] /\ PassesInv /\ ImportInv
<1> SUFFICES ASSUME Starting
             PROVE  task \in [Tasks -> TaskState] /\ PassesInv /\ ImportInv
  OBVIOUS
<1> DEFINE to == PassTo(last_final)
<1>1. to \in 0 .. MaxPeriod
  BY PassToType DEF Starting
<1>2. \A p \in Passes : p \in Tasks /\ p # "import" /\ ckpt[p][to] \in 0 .. MaxPeriod + 1 \cup {None}
  BY <1>1 DEF Starting, Passes, Tasks
<1>3. \A t \in Tasks : task[t] = IF t \notin boot.tasks THEN Off
                                 ELSE IF t = "import" THEN [Off EXCEPT !.pc = "wait"]
                                 ELSE StartPass(t, to, ckpt[t][to])
  BY DEF Starting, StartTasks
<1> HIDE DEF to
<1>4. ASSUME NEW p \in Passes PROVE task[p] \in TaskState /\ PassInv(p)
  <2>1. CASE p \notin boot.tasks
    <3>1. task[p] = Off
      BY <1>2, <1>3, <2>1
    <3> QED BY <1>1, <3>1, OffFacts DEF PassInv
  <2>2. CASE p \in boot.tasks
    <3> DEFINE t == task[p]
               mark == ckpt[p][to]
    <3>1. t = StartPass(p, to, mark)
      BY <1>2, <1>3, <2>2
    <3>0. mark \in 0 .. MaxPeriod + 1 \cup {None}
      BY <1>2
    <3> HIDE DEF t, mark
    <3>2. /\ t \in TaskState /\ t.pc \in {"run", "done"}
          /\ t.pc = "run" =>
               /\ RepairFrom <= t.at /\ t.at <= t.to /\ t.to = to /\ t.targets = {}
               /\ \A s \in Slots : Reached(p, t, s) =>
                    \/ s \in Range(t.todo)
                    \/ mark # None /\ (IF p = "pull" THEN s[1] > mark ELSE s[1] < mark)
      BY <1>1, <3>0, <3>1, StartPassFacts
    <3>3. ASSUME t.pc = "run", NEW s \in Slots, Reached(p, t, s), Needed(p, s)
          PROVE  Accounted(p, s) \/ InHand(t, s)
      <4>1. s \in Range(t.todo) \/ Passed(p, to, s)
        BY <3>2, <3>3 DEF Passed, Reached, mark
      <4> QED BY <1>1, <2>2, <3>3, <4>1 DEF Starting, CkptInv, InHand
    <3> QED BY <2>2, <3>2, <3>3 DEF PassInv, t
  <2> QED BY <2>1, <2>2
<1>5. /\ task["import"] \in TaskState /\ task["import"].pc \in {"off", "wait"}
      /\ task["import"].targets = {}
      /\ "import" \notin boot.tasks => task["import"].pc = "off"
  BY <1>1, <1>3, OffFacts DEF Tasks
<1>6. ImportInv
  BY <1>5 DEF ImportInv
<1>7. task \in [Tasks -> TaskState]
  <2>1. \A t \in Tasks : task[t] \in TaskState
    BY <1>4, <1>5 DEF Tasks
  <2>2. task = [t \in Tasks |-> task[t]]
    BY DEF Starting, StartTasks
  <2> QED BY <2>1, <2>2
<1> QED BY <1>4, <1>6, <1>7 DEF PassesInv

\* The forced verdicts fit into the lane.
LEMMA ForcedFacts ==
  /\ ForcedQueue \in Seq(BulkEvents) /\ Len(ForcedQueue) <= BulkCapacity
<1> DEFINE S == {Event("forced", m) : m \in ForcedVerdicts}
           f == [m \in ForcedVerdicts |-> Event("forced", m)]
<1>1. f \in Surjection(ForcedVerdicts, S)
  BY DEF Surjection
<1>2. IsFiniteSet(ForcedVerdicts) /\ Cardinality(ForcedVerdicts) <= BulkCapacity /\ BulkCapacity \in Nat
  BY FeedersAssumption
<1> HIDE DEF f
<1>3. IsFiniteSet(S) /\ Cardinality(S) <= Cardinality(ForcedVerdicts)
  <2> HIDE DEF S
  <2> QED BY <1>1, <1>2, FS_Surjection
<1>4. S \subseteq BulkEvents
  BY DEF BulkEvents, Event
<1>5. SetToSeq(S) \in Seq(S) /\ Len(SetToSeq(S)) = Cardinality(S)
  <2> HIDE DEF S
  <2> QED BY <1>3, SetToSeqFacts
<1>6. ForcedQueue = SetToSeq(S)
  BY DEF ForcedQueue
<1> HIDE DEF S
<1>7. Cardinality(S) \in Nat /\ Cardinality(ForcedVerdicts) \in Nat
  BY <1>2, <1>3, FS_CardinalityType
<1>8. SetToSeq(S) \in Seq(BulkEvents)
  BY <1>4, <1>5
<1> QED BY <1>2, <1>3, <1>5, <1>6, <1>7, <1>8

\* The indexer starts for the first time.
LEMMA FeedersStart == FeedersInit => FeedersInv
<1> SUFFICES ASSUME FeedersInit PROVE FeedersInv
  OBVIOUS
<1>1. boot \in Boots /\ boot.db \in Database /\ OnChain(boot.db) /\ boot.streams \in Streams
  BY FeedersAssumption, SourcesAgree DEF FeedersInit
<1>2. TypeOK
  BY <1>1 DEF FeedersInit, TypeOK, Database
<1>3. TruthInv
  BY <1>1, <1>2 DEF FeedersInit, TruthInv, RowsTrue, RowTold, BlocksTrue, StatusTold, OnChain
<1>4. ckpt \in [Passes -> [0 .. MaxPeriod -> 0 .. MaxPeriod + 1 \cup {None}]] /\ CkptInv
  BY DEF FeedersInit, CkptInv, Passed
<1>5. BootKept
  <2>1. \A s \in Slots : IsFinal(boot.db.row, s) => Keeps(boot.db.row[s], row[s])
    BY <1>2, KeepsItself DEF FeedersInit, IsFinal, TypeOK
  <2> QED BY <2>1 DEF FeedersInit, BootKept, IsFinal
<1>6. task \in [Tasks -> TaskState] /\ PassesInv /\ ImportInv
  <2>1. Starting
    BY <1>1, <1>2, <1>4 DEF FeedersInit, Starting, TypeOK
  <2> QED BY <2>1, Started
<1>7. FeedsTyped
  <2>1. live \in Seq(LiveEvents) /\ Len(live) <= LiveCapacity
    BY EmptyFacts, FeedersAssumption DEF FeedersInit
  <2>2. bulk \in Seq(BulkEvents) /\ Len(bulk) <= BulkCapacity
    BY ForcedFacts DEF FeedersInit
  <2>3. faults \in 0 .. MaxFaults /\ node \in Streams
    BY <1>1, FeedersAssumption DEF FeedersInit
  <2> QED BY <1>1, <1>4, <1>6, <2>1, <2>2, <2>3 DEF FeedsTyped
<1> QED BY <1>3, <1>4, <1>5, <1>6, <1>7 DEF FeedersInv, Accounts

\* The indexer starts again: what was queued is given up.
LEMMA StepRestarted ==
  ASSUME FeedersInv, Restarted, TruthInv', Grows, OpsGrow
  PROVE  FeedersInv'
<1>1. /\ faults > 0 /\ faults' = faults - 1 /\ live' = <<>> /\ bulk' = ForcedQueue
      /\ task' = StartTasks(boot.tasks, last_final', ckpt)
      /\ given_up' = given_up \cup
           UNION {{<<p, s>> : s \in Pending(p)} : p \in boot.tasks \cap Passes}
      /\ boot' = boot /\ node' = node /\ ckpt' = ckpt
  BY DEF Restarted
<1>2. Carried
  <2>1. ASSUME NEW p \in boot.tasks \cap Passes, NEW s \in Slots, Waiting(p, s)
        PROVE  <<p, s>> \in given_up'
    <3>1. PICK e \in Range(bulk) :
            /\ e.msg.slot = s
            /\ IF p = "pull" THEN e.kind = "peer" ELSE e.kind = "legacy"
      BY <2>1 DEF Waiting
    <3>2. PICK i \in DOMAIN bulk : bulk[i] = e
      BY <3>1 DEF Range
    <3>3. s \in Pending(p)
      BY <3>1, <3>2 DEF Pending
    <3> QED BY <1>1, <3>3
  <2> QED BY <1>1, <2>1, CarriedBy
<1>3. BootKept'
  BY <1>1, BootGrown DEF FeedersInv, FeedsTyped, Accounts
<1>4. CkptInv'
  BY <1>1, <1>2, CkptKept DEF FeedersInv, Accounts
<1>5. Starting'
  BY <1>1, <1>4 DEF Starting, FeedersInv, FeedsTyped, TruthInv, TypeOK
<1>6. (task \in [Tasks -> TaskState] /\ PassesInv /\ ImportInv)'
  BY <1>5, Started, PTL
<1>7. FeedsTyped'
  <2>1. faults' \in 0 .. MaxFaults
    BY <1>1, FeedersAssumption DEF FeedersInv, FeedsTyped
  <2>2. live' \in Seq(LiveEvents) /\ Len(live') <= LiveCapacity
    BY <1>1, EmptyFacts, FeedersAssumption
  <2> QED BY <1>1, <1>6, <2>1, <2>2, ForcedFacts DEF FeedersInv, FeedsTyped
<1> QED BY <1>3, <1>4, <1>6, <1>7 DEF FeedersInv, Accounts

\* It stops between two handlers, or inside one.
LEMMA StepRestart ==
  ASSUME FeedersInv, Restart \/ Crash
  PROVE  FeedersInv'
<1>1. Restarted
  BY DEF Restart, Crash
<1>2. CASE Restart
  BY <1>1, <1>2, TruthIdle, StepRestarted DEF Restart, FeedersInv
<1>3. CASE Crash
  <2>1. live \in Seq(LiveEvents) /\ live # <<>>
    BY <1>3 DEF Crash, FeedersInv, FeedsTyped
  <2>2. Head(live) \in LiveEvents
    BY <2>1, TailFacts
  <2>3. CASE Head(live).kind = "exec" /\ \E n \in 1 .. 7 : TornExec(Head(live).msg, n)
    <3>1. Head(live).msg \in ExecFrames
      BY <2>2, <2>3 DEF LiveEvents
    <3> QED BY <1>1, <2>3, <3>1, TruthTornExec, StepRestarted DEF FeedersInv
  <2>4. CASE Head(live).kind = "block" /\ \E n \in 1 .. 3 : TornBlock(Head(live).msg, n)
    <3>1. Head(live).msg \in Blocks
      BY <2>2, <2>4 DEF LiveEvents
    <3> QED BY <1>1, <2>4, <3>1, TruthTornBlock, StepRestarted DEF FeedersInv
  <2> QED BY <1>3, <2>3, <2>4 DEF Crash
<1> QED BY <1>2, <1>3

-----------------------------------------------------------------------------
(* Steps of the feeders. *)

\* A step that writes no row and takes nothing off the bulk lane.
LEMMA IdleFacts ==
  ASSUME FeedersInv, UNCHANGED vars, boot' = boot, given_up \subseteq given_up',
         Range(bulk) \subseteq Range(bulk')
  PROVE  /\ TruthInv' /\ Grows /\ BootKept' /\ Carried /\ CarriedImport
         /\ \A p \in Passes, s \in Slots :
              /\ Needed(p, s)' <=> Needed(p, s)
              /\ Repaired(p, s)' <=> Repaired(p, s)
              /\ Accounted(p, s) => Accounted(p, s)'
         /\ \A s \in Slots : Imported(s) => Imported(s)'
<1>1. TruthInv' /\ Grows /\ OpsGrow
  BY TruthIdle DEF FeedersInv
<1>2. BootKept'
  BY <1>1, BootGrown DEF FeedersInv, FeedsTyped, Accounts
<1>3. \A p \in Passes, s \in Slots :
        /\ Needed(p, s)' <=> Needed(p, s)
        /\ Repaired(p, s)' <=> Repaired(p, s)
        /\ Waiting(p, s) => Waiting(p, s)'
  BY DEF vars, Needed, Repaired, Supplied, Waiting
<1>4. \A p \in Passes, s \in Slots : Accounted(p, s) => Accounted(p, s)'
  BY <1>3 DEF Accounted
<1>5. Carried
  BY <1>3, <1>4 DEF Carried
<1>6. \A s \in Slots : Imported(s) => Imported(s)'
  BY <1>1, CoveredKept DEF Imported
<1> QED BY <1>1, <1>2, <1>3, <1>4, <1>5, <1>6 DEF CarriedImport

\* A task moves, the others stay.
LEMMA TaskMoves ==
  ASSUME FeedsTyped, NEW p \in Tasks, NEW t \in TaskState, task' = [task EXCEPT ![p] = t]
  PROVE  /\ task' \in [Tasks -> TaskState] /\ task'[p] = t
         /\ \A q \in Tasks : q # p => task'[q] = task[q]
BY DEF FeedsTyped

\* EventTx::send
LEMMA QueueFacts ==
  ASSUME FeedsTyped, NEW kind, NEW m, Event(kind, m) \in BulkEvents, Queue(kind, m)
  PROVE  /\ bulk' \in Seq(BulkEvents) /\ Len(bulk') <= BulkCapacity
         /\ Range(bulk') = Range(bulk) \cup {Event(kind, m)}
<1>1. bulk \in Seq(BulkEvents) /\ Len(bulk) \in Nat /\ Len(bulk) < BulkCapacity
      /\ bulk' = Append(bulk, Event(kind, m)) /\ BulkCapacity \in Nat
  BY FeedersAssumption DEF FeedsTyped, Queue
<1>2. /\ bulk' \in Seq(BulkEvents) /\ Len(bulk') = Len(bulk) + 1
      /\ Range(bulk') = Range(bulk) \cup {Event(kind, m)}
  BY <1>1, AppendFacts
<1> QED BY <1>1, <1>2

\* The bulk lane as a feeder leaves it: typed, and with all it had.
LaneKept ==
  /\ bulk' \in Seq(BulkEvents) /\ Len(bulk') <= BulkCapacity
  /\ Range(bulk) \subseteq Range(bulk')

\* A node stream connects, ends or delivers.
LEMMA StepStream ==
  ASSUME FeedersInv, NEW k \in StreamKinds, Connect(k) \/ StreamEnds(k) \/ Emit(k)
  PROVE  FeedersInv'
<1>1. UNCHANGED <<vars, bulk, boot, task, ckpt, given_up>>
  BY DEF Connect, StreamEnds, Emit, lanes
<1>2. TruthInv' /\ Grows /\ BootKept' /\ Carried /\ CarriedImport
  BY <1>1, IdleFacts
<1>3. CkptInv' /\ PassesInv' /\ ImportInv'
  BY <1>1, <1>2, CkptKept, PassKept, ImportKept DEF FeedersInv, Accounts, PassesInv
<1>4. faults' \in 0 .. MaxFaults
  BY FeedersAssumption DEF Connect, StreamEnds, Emit, FeedersInv, FeedsTyped
<1>5. node' \in Streams /\ live' \in Seq(LiveEvents) /\ Len(live') <= LiveCapacity
  <2>1. CASE Connect(k) \/ StreamEnds(k)
    BY <2>1 DEF Connect, StreamEnds, lanes, FeedersInv, FeedsTyped
  <2>2. CASE Emit(k)
    <3> DEFINE E == Blocks \cup ExecFrames \cup TransferFrames
               n == node[k]
    <3>1. /\ node \in [StreamKinds -> Seq(E)] /\ node["block"] \in Seq(Blocks)
          /\ node["exec"] \in Seq(ExecFrames) /\ node["transfers"] \in Seq(TransferFrames)
      BY DEF FeedersInv, FeedsTyped, Streams
    <3>2. /\ n # <<>> /\ n \in Seq(E)
          /\ node' = [node EXCEPT ![k] = Tail(n)]
          /\ k \in up => Len(live) < LiveCapacity
          /\ live' = IF k \in up THEN Append(live, Event(k, Head(n))) ELSE live
      BY <2>2, <3>1 DEF Emit
    <3>3. Tail(n) \in Seq(E)
      BY <3>2, TailFacts
    <3>4. /\ k = "block" => Tail(n) \in Seq(Blocks) /\ Head(n) \in Blocks
          /\ k = "exec" => Tail(n) \in Seq(ExecFrames) /\ Head(n) \in ExecFrames
          /\ k = "transfers" => Tail(n) \in Seq(TransferFrames) /\ Head(n) \in TransferFrames
      <4>1. ASSUME k = "block" PROVE Tail(n) \in Seq(Blocks) /\ Head(n) \in Blocks
        BY <3>1, <3>2, <4>1, TailFacts
      <4>2. ASSUME k = "exec" PROVE Tail(n) \in Seq(ExecFrames) /\ Head(n) \in ExecFrames
        BY <3>1, <3>2, <4>2, TailFacts
      <4>3. ASSUME k = "transfers"
            PROVE  Tail(n) \in Seq(TransferFrames) /\ Head(n) \in TransferFrames
        BY <3>1, <3>2, <4>3, TailFacts
      <4> QED BY <4>1, <4>2, <4>3
    <3> DEFINE rest == Tail(n)
               first == Head(n)
    <3> HIDE DEF n, rest, first
    <3>5. node' \in [StreamKinds -> Seq(E)] /\ node' = [node EXCEPT ![k] = rest]
      BY <3>1, <3>2, <3>3 DEF rest
    <3> HIDE DEF E
    <3>6. node' \in Streams
      <4>1. /\ node'["block"] \in Seq(Blocks) /\ node'["exec"] \in Seq(ExecFrames)
            /\ node'["transfers"] \in Seq(TransferFrames)
        BY <3>1, <3>4, <3>5 DEF StreamKinds, rest
      <4> QED BY <3>5, <4>1 DEF Streams, E
    <3>7. Event(k, first) \in LiveEvents
      BY <3>4 DEF LiveEvents, Event, StreamKinds, first
    <3>8. live \in Seq(LiveEvents) /\ Len(live) \in Nat /\ LiveCapacity \in Nat
          /\ Len(live) <= LiveCapacity
      BY FeedersAssumption DEF FeedersInv, FeedsTyped
    <3>9. /\ Append(live, Event(k, first)) \in Seq(LiveEvents)
          /\ Len(Append(live, Event(k, first))) = Len(live) + 1
      BY <3>7, <3>8, AppendFacts
    <3> QED BY <3>2, <3>6, <3>8, <3>9 DEF first
  <2> QED BY <2>1, <2>2
<1>6. FeedsTyped'
  BY <1>1, <1>4, <1>5 DEF FeedersInv, FeedsTyped
<1> QED BY <1>2, <1>3, <1>6 DEF FeedersInv, Accounts

-----------------------------------------------------------------------------
(* Steps of the importer. *)

LEMMA ImporterMoves ==
  ASSUME FeedersInv, NEW i \in TaskState, SetImporter(i), LaneKept, faults' \in 0 .. MaxFaults,
         ImportInv'
  PROVE  FeedersInv'
<1>1. /\ UNCHANGED <<vars, live, boot, node, ckpt, given_up>>
      /\ task' = [task EXCEPT !["import"] = i]
  BY DEF SetImporter
<1>2. TruthInv' /\ Grows /\ BootKept' /\ Carried
  BY <1>1, IdleFacts DEF LaneKept
<1>3. task' \in [Tasks -> TaskState] /\ \A p \in Passes : task'[p] = task[p]
  <2>1. "import" \in Tasks /\ \A p \in Passes : p \in Tasks /\ p # "import"
    BY DEF Tasks, Passes
  <2> QED BY <1>1, <2>1, TaskMoves DEF FeedersInv
<1>4. CkptInv' /\ PassesInv'
  BY <1>1, <1>2, <1>3, CkptKept, PassKept DEF FeedersInv, Accounts, PassesInv
<1>5. FeedsTyped'
  BY <1>1, <1>3 DEF FeedersInv, FeedsTyped, LaneKept
<1> QED BY <1>2, <1>4, <1>5 DEF FeedersInv, Accounts

\* The importer as it is after the step.
LEMMA ImporterNow ==
  ASSUME FeedersInv, NEW i \in TaskState, SetImporter(i)
  PROVE  task'["import"] = i /\ task["import"] \in TaskState
BY TaskMoves DEF FeedersInv, FeedsTyped, SetImporter, Tasks

\* A lane that is left alone.
LEMMA LaneIdle ==
  ASSUME FeedersInv, bulk' = bulk
  PROVE  LaneKept
BY DEF FeedersInv, FeedsTyped, LaneKept

\* A sweep over the window begins.
LEMMA WalkFacts ==
  ASSUME NEW to \in 0 .. MaxPeriod
  PROVE  LET i == StartWalk(to)
         IN  /\ i \in TaskState /\ i.pc = "walk" /\ i.to = to /\ i.targets = {}
             /\ Range(i.todo) = Between(ImportMin, to)
<1> DEFINE todo == Downward(ImportMin, to)
           i == StartWalk(to)
<1>1. todo \in Seq(Slots) /\ Range(todo) = Between(ImportMin, to)
  BY DownwardFacts, FeedersAssumption
<1>2. i = [Off EXCEPT !.pc = "walk", !.to = to, !.todo = todo]
  BY DEF StartWalk
<1> HIDE DEF todo
<1>3. i = [pc |-> "walk", at |-> 0, to |-> to, todo |-> todo, targets |-> {}, errored |-> FALSE]
  BY <1>2 DEF Off
<1> HIDE DEF i
<1>4. /\ i \in TaskState /\ i.pc = "walk" /\ i.to = to /\ i.targets = {} /\ i.todo = todo
  BY <1>1, <1>3, StoreAssumption DEF TaskState
<1> QED BY <1>1, <1>4 DEF i

\* The accounts at the beginning of a sweep.
LEMMA WalkInv ==
  ASSUME NEW to \in 0 .. MaxPeriod, task'["import"] = StartWalk(to),
         ImportMax # None => to = ImportMax, "import" \in boot.tasks, boot' = boot
  PROVE  ImportInv'
<1> DEFINE i == StartWalk(to)
<1>1. /\ i.pc = "walk" /\ i.to = to /\ i.targets = {}
      /\ Range(i.todo) = Between(ImportMin, to)
  BY WalkFacts
<1> HIDE DEF i
<1>2. task'["import"] = i
  BY DEF i
<1>3. \A s \in Slots : InHand(i, s) <=> s \in Between(ImportMin, to)
  BY <1>1 DEF InHand
<1> QED BY <1>1, <1>2, <1>3 DEF ImportInv, Between

LEMMA StepImportBegins ==
  ASSUME FeedersInv, ImportBegins
  PROVE  FeedersInv'
<1> DEFINE to == IF ImportMax # None THEN ImportMax ELSE last_final[1]
<1>1. SetImporter(StartWalk(to)) /\ bulk' = bulk /\ faults' = faults
      /\ (ImportMax # None \/ last_final # None)
      /\ task["import"].pc = "wait" /\ boot' = boot
  BY DEF ImportBegins, Importer, SetImporter
<1>2. to \in 0 .. MaxPeriod /\ (ImportMax # None => to = ImportMax)
  BY <1>1, FeedersAssumption DEF FeedersInv, TruthInv, TypeOK, Slots
<1> HIDE DEF to
<1>3. StartWalk(to) \in TaskState
  BY <1>2, WalkFacts
<1>4. "import" \in boot.tasks
  BY <1>1 DEF FeedersInv, Accounts, ImportInv
<1>5. ImportInv'
  BY <1>1, <1>2, <1>3, <1>4, ImporterNow, WalkInv
<1> QED BY <1>1, <1>3, <1>5, LaneIdle, ImporterMoves DEF FeedersInv, FeedsTyped

LEMMA StepImportPassEnds ==
  ASSUME FeedersInv, ImportPassEnds
  PROVE  FeedersInv'
<1> DEFINE i == task["import"]
<1>1. /\ i.pc = "walk" /\ i.todo = <<>> /\ i.targets = {}
      /\ SetImporter(AfterPass(i)) /\ bulk' = bulk /\ faults' = faults
  BY DEF ImportPassEnds, Importer
<1>2. /\ i \in TaskState /\ i.to \in 0 .. MaxPeriod /\ (ImportMax # None => i.to = ImportMax)
      /\ "import" \in boot.tasks /\ boot' = boot
  BY <1>1 DEF SetImporter, FeedersInv, FeedsTyped, Tasks, TaskState, Accounts, ImportInv
<1>3. CASE i.errored
  <2>1. SetImporter(StartWalk(i.to))
    BY <1>1, <1>3 DEF AfterPass
  <2>2. StartWalk(i.to) \in TaskState
    BY <1>2, WalkFacts
  <2>3. ImportInv'
    BY <1>2, <2>1, <2>2, ImporterNow, WalkInv
  <2> QED BY <1>1, <2>1, <2>2, <2>3, LaneIdle, ImporterMoves DEF FeedersInv, FeedsTyped
<1>4. CASE ~i.errored
  <2> DEFINE d == [Off EXCEPT !.pc = "done", !.to = i.to]
  <2>1. SetImporter(d)
    BY <1>1, <1>4 DEF AfterPass
  <2>2. d \in TaskState /\ d.pc = "done" /\ d.to = i.to /\ d.targets = {}
    BY <1>2, OffFacts
  <2> HIDE DEF d
  <2>3. task'["import"] = d
    BY <2>1, <2>2, ImporterNow
  <2>4. \A s \in Slots : ~InHand(i, s)
    BY <1>1, EmptyFacts DEF InHand
  <2>5. \A s \in Between(ImportMin, i.to) : Imported(s)
    BY <1>1, <1>4, <2>4 DEF FeedersInv, Accounts, ImportInv, Between
  <2>6. \A s \in Slots : Imported(s) => Imported(s)'
    BY <1>1, IdleFacts DEF SetImporter
  <2>7. ImportInv'
    BY <1>2, <2>2, <2>3, <2>5, <2>6 DEF ImportInv, Between
  <2> QED BY <1>1, <2>1, <2>2, <2>7, LaneIdle, ImporterMoves DEF FeedersInv, FeedsTyped
<1> QED BY <1>3, <1>4

(***************************************************************************)
(* The importer goes on with its sweep.  A slot it lets go of is imported, *)
(* or the sweep is marked as failed.                                       *)
(***************************************************************************)
LEMMA SweepGoesOn ==
  ASSUME FeedersInv, task["import"].pc = "walk", NEW j \in TaskState, SetImporter(j), LaneKept,
         faults' \in 0 .. MaxFaults,
         j.pc = "walk", j.to = task["import"].to, j.targets \subseteq Slots \X Nat,
         \A s \in Slots : InHand(j, s) => InHand(task["import"], s),
         ~j.errored => /\ ~task["import"].errored
                       /\ \A s \in Slots : InHand(task["import"], s) =>
                            InHand(j, s) \/ Imported(s)'
  PROVE  FeedersInv'
<1>1. task'["import"] = j
  BY ImporterNow
<1>2. boot' = boot /\ \A s \in Slots : Imported(s) => Imported(s)'
  BY IdleFacts DEF SetImporter, LaneKept
<1>3. ImportInv'
  BY <1>1, <1>2 DEF FeedersInv, Accounts, ImportInv, Between
<1> QED BY <1>3, ImporterMoves

\* A lookup starts, or the slot is covered.
LEMMA StepLookUp ==
  ASSUME FeedersInv, LookUp
  PROVE  FeedersInv'
<1> DEFINE i == task["import"]
           s0 == Head(i.todo)
           more == IF AlreadyCovered(row[s0]) THEN i.targets ELSE i.targets \cup {<<s0, 0>>}
           j == [i EXCEPT !.todo = Tail(@), !.targets = more]
<1>1. i.pc = "walk" /\ i.todo # <<>> /\ SetImporter(j) /\ bulk' = bulk /\ faults' = faults
  BY DEF LookUp, Importer
<1>2. i \in TaskState /\ i.todo \in Seq(Slots) /\ i.targets \subseteq Slots \X Nat
  BY DEF FeedersInv, FeedsTyped, Tasks, TaskState, Accounts, ImportInv
<1>3. Tail(i.todo) \in Seq(Slots) /\ s0 \in Slots /\ Range(i.todo) = {s0} \cup Range(Tail(i.todo))
  BY <1>1, <1>2, TailFacts
<1> DEFINE rest == Tail(i.todo)
<1> HIDE DEF s0, rest
<1>4. more \subseteq Slots \X Nat /\ more \subseteq Targets
  BY <1>2, <1>3 DEF Targets
<1>5. (\A x \in i.targets : x \in more) /\ (~AlreadyCovered(row[s0]) => <<s0, 0>> \in more)
  OBVIOUS
<1>6. \A x \in more : x \in i.targets \/ x = <<s0, 0>>
  OBVIOUS
<1>7. j = [i EXCEPT !.todo = rest, !.targets = more]
  BY DEF rest
<1> HIDE DEF more
<1>8. /\ j \in TaskState /\ j.pc = "walk" /\ j.to = i.to /\ j.errored = i.errored
      /\ j.todo = rest /\ j.targets = more
  BY <1>1, <1>2, <1>3, <1>4, <1>7 DEF TaskState, rest
<1> HIDE DEF j, i
<1>9. \A s \in Slots : InHand(j, s) => InHand(i, s)
  BY <1>3, <1>6, <1>8 DEF InHand, rest
<1>10. UNCHANGED row
  BY <1>1 DEF SetImporter, vars
<1>11. ASSUME NEW s \in Slots, InHand(i, s) PROVE InHand(j, s) \/ Imported(s)'
  <2>1. CASE s = s0 /\ AlreadyCovered(row[s0])
    BY <1>10, <2>1 DEF Imported, Covered, AlreadyCovered, IsFinal
  <2>2. CASE s = s0 /\ ~AlreadyCovered(row[s0])
    <3>1. <<s0, 0>>[1] = s
      BY <2>2
    <3> QED BY <1>5, <1>8, <2>2, <3>1 DEF InHand
  <2>3. CASE s # s0
    BY <1>3, <1>5, <1>8, <1>11, <2>3 DEF InHand, rest
  <2> QED BY <2>1, <2>2, <2>3
<1>12. LaneKept /\ faults' \in 0 .. MaxFaults
  BY <1>1, LaneIdle DEF FeedersInv, FeedsTyped
<1> QED BY <1>1, <1>4, <1>8, <1>9, <1>11, <1>12, SweepGoesOn DEF i

\* A target that is let go: the others stay in hand.
LEMMA TargetGone ==
  ASSUME NEW t \in TaskState, NEW x \in t.targets
  PROVE  LET u == [t EXCEPT !.targets = @ \ {x}]
         IN  /\ u \in TaskState /\ u.pc = t.pc /\ u.at = t.at /\ u.to = t.to
             /\ u.errored = t.errored /\ u.todo = t.todo /\ u.targets = t.targets \ {x}
             /\ \A s \in Slots : InHand(u, s) => InHand(t, s)
             /\ \A s \in Slots : InHand(t, s) => InHand(u, s) \/ s = x[1]
<1> DEFINE u == [t EXCEPT !.targets = t.targets \ {x}]
<1>1. /\ u \in TaskState /\ u.pc = t.pc /\ u.at = t.at /\ u.to = t.to
      /\ u.errored = t.errored /\ u.todo = t.todo /\ u.targets = t.targets \ {x}
  BY DEF TaskState
<1> HIDE DEF u
<1>2. \A s \in Slots : InHand(u, s) => InHand(t, s)
  BY <1>1 DEF InHand
<1>3. \A s \in Slots : InHand(t, s) => InHand(u, s) \/ s = x[1]
  BY <1>1 DEF InHand
<1> QED BY <1>1, <1>2, <1>3 DEF u

\* The miss that the importer records where the tables hold nothing.
LEMMA MissTrue ==
  ASSUME TablesCover, boot \in Boots, "import" \in boot.tasks,
         NEW s \in Slots, ImportMin <= s[1], ImportMax # None => s[1] <= ImportMax,
         Legacy[s] = None
  PROVE  MissPatch(s) \in TrueLegacies /\ MissPatch(s).slot = s
<1>1. Chain[s] = Miss
  BY DEF TablesCover
<1>2. MissPatch(s) \in LegacyPatch /\ MissPatch(s).slot = s /\ MissPatch(s).is_miss
      /\ MissPatch(s).block = None
  BY DEF MissPatch, LegacyPatch
<1> QED BY <1>1, <1>2 DEF TrueLegacies, Names, Named, VerdictNamed

\* What the tables hold.
LEMMA LegacyTrue ==
  ASSUME NEW s \in Slots, Legacy[s] # None
  PROVE  /\ Legacy[s] \in TrueLegacies /\ Legacy[s].slot = s
         /\ Legacy[s].body /\ ~Legacy[s].is_miss
<1>1. /\ Legacy[s] \in LegacyPatches /\ Legacy[s].slot = s /\ Legacy[s].block = Chain[s]
      /\ ~Legacy[s].is_miss /\ Legacy[s].body
  BY FeedersAssumption, SourcesAgree
<1>2. Legacy[s] \in LegacyPatch /\ Names(Legacy[s])
  BY <1>1, MessageFacts
<1> QED BY <1>1, <1>2 DEF TrueLegacies, Named, VerdictNamed

\* A lookup is answered.
LEMMA StepFound ==
  ASSUME TablesCover, FeedersInv, NEW x \in task["import"].targets, Found(x)
  PROVE  FeedersInv'
<1> DEFINE i == task["import"]
           s == x[1]
           j == [i EXCEPT !.targets = @ \ {x}]
<1>1. /\ SetImporter(j) /\ faults' = faults
      /\ IF Legacy[s] # None         THEN Queue("legacy", Legacy[s])
         ELSE IF IsFinalBlock(row, s) THEN UNCHANGED bulk
         ELSE Queue("legacy", MissPatch(s))
  BY DEF Found, Importer
<1>2. i \in TaskState /\ x \in Targets
  BY DEF FeedersInv, FeedsTyped, Tasks, TaskState
<1>3. s \in Slots /\ InHand(i, s)
  BY <1>2, TargetSlot DEF InHand
<1>4. /\ i.pc = "walk" /\ i.targets \subseteq Slots \X Nat
      /\ boot \in Boots /\ "import" \in boot.tasks
  BY DEF FeedersInv, FeedsTyped, Accounts, ImportInv
<1>5. /\ j \in TaskState /\ j.pc = i.pc /\ j.to = i.to /\ j.errored = i.errored
      /\ j.targets = i.targets \ {x}
      /\ \A y \in Slots : InHand(j, y) => InHand(i, y)
      /\ \A y \in Slots : InHand(i, y) => InHand(j, y) \/ y = s
  BY <1>2, TargetGone
<1> HIDE DEF i, j
<1>6. faults' \in 0 .. MaxFaults
  BY <1>1 DEF FeedersInv, FeedsTyped
<1>7. UNCHANGED row
  BY <1>1 DEF SetImporter, vars
<1>8. LaneKept /\ Imported(s)'
  <2>1. CASE Legacy[s] # None
    <3>1. /\ Legacy[s] \in TrueLegacies /\ Legacy[s].slot = s
          /\ Legacy[s].body /\ ~Legacy[s].is_miss
      BY <1>3, <2>1, LegacyTrue
    <3> DEFINE e == Event("legacy", Legacy[s])
    <3>2. e \in BulkEvents /\ e.kind = "legacy" /\ e.msg = Legacy[s]
      BY <3>1 DEF Event, BulkEvents
    <3>3. LaneKept /\ e \in Range(bulk')
      BY <1>1, <2>1, <3>2, QueueFacts DEF FeedersInv, LaneKept
    <3> HIDE DEF e
    <3> QED BY <3>1, <3>2, <3>3 DEF Imported
  <2>2. CASE Legacy[s] = None /\ IsFinalBlock(row, s)
    <3>1. LaneKept
      BY <1>1, <2>2, LaneIdle
    <3> QED BY <1>7, <2>2, <3>1 DEF Imported, Covered, IsFinalBlock, IsFinal
  <2>3. CASE Legacy[s] = None /\ ~IsFinalBlock(row, s)
    <3>1. ImportMin <= s[1] /\ s[1] <= i.to /\ (ImportMax # None => i.to = ImportMax)
      BY <1>3, <1>4 DEF FeedersInv, Accounts, ImportInv, Between, i
    <3>2. MissPatch(s) \in TrueLegacies /\ MissPatch(s).slot = s
      BY <1>3, <1>4, <2>3, <3>1, MissTrue
    <3> DEFINE e == Event("legacy", MissPatch(s))
    <3>3. e \in BulkEvents /\ e.kind = "legacy" /\ e.msg = MissPatch(s)
      BY <3>2 DEF Event, BulkEvents
    <3>4. LaneKept /\ e \in Range(bulk')
      BY <1>1, <2>3, <3>3, QueueFacts DEF FeedersInv, LaneKept
    <3> HIDE DEF e
    <3> QED BY <2>3, <3>2, <3>3, <3>4 DEF Imported
  <2> QED BY <2>1, <2>2, <2>3
<1> HIDE DEF s
<1> QED BY <1>1, <1>3, <1>4, <1>5, <1>6, <1>8, SweepGoesOn DEF i

\* A lookup fails.
LEMMA StepFailed ==
  ASSUME FeedersInv, NEW x \in task["import"].targets, Failed(x)
  PROVE  FeedersInv'
<1> DEFINE i == task["import"]
           y == <<x[1], x[2] + 1>>
           again == [i EXCEPT !.targets = (i.targets \ {x}) \cup {y}]
           last == [i EXCEPT !.targets = i.targets \ {x}, !.errored = TRUE]
<1>1. /\ faults > 0 /\ faults' = faults - 1 /\ bulk' = bulk
      /\ SetImporter(IF x[2] + 1 < FetchAttempts THEN again ELSE last)
  BY DEF Failed, Importer
<1>2. i \in TaskState /\ x \in i.targets
  BY DEF FeedersInv, FeedsTyped, Tasks
<1>3. i.pc = "walk" /\ i.targets \subseteq Slots \X Nat
  BY DEF FeedersInv, Accounts, ImportInv
<1>4. faults' \in 0 .. MaxFaults
  BY <1>1, FeedersAssumption DEF FeedersInv, FeedsTyped
<1>5. LaneKept
  BY <1>1, LaneIdle
<1> HIDE DEF i
<1>6. CASE x[2] + 1 < FetchAttempts
  <2>1. y \in Slots \X Nat /\ y[1] = x[1]
    BY <1>2, <1>3
  <2> HIDE DEF y
  <2>2. /\ again \in TaskState /\ again.pc = "walk" /\ again.to = i.to
        /\ again.errored = i.errored /\ again.todo = i.todo
        /\ again.targets = (i.targets \ {x}) \cup {y}
        /\ again.targets \subseteq Slots \X Nat
    BY <1>2, <1>3, <2>1 DEF TaskState, Targets
  <2>3. SetImporter(again)
    BY <1>1, <1>6
  <2> HIDE DEF again
  <2>4. \A s \in Slots : InHand(again, s) <=> InHand(i, s)
    BY <1>2, <2>1, <2>2 DEF InHand
  <2> QED BY <1>3, <1>4, <1>5, <2>2, <2>3, <2>4, SweepGoesOn DEF i
<1>7. CASE ~(x[2] + 1 < FetchAttempts)
  <2>1. /\ last \in TaskState /\ last.pc = "walk" /\ last.to = i.to /\ last.errored
        /\ last.todo = i.todo /\ last.targets \subseteq i.targets
    BY <1>2, <1>3 DEF TaskState
  <2>2. SetImporter(last)
    BY <1>1, <1>7
  <2> HIDE DEF last
  <2>3. \A s \in Slots : InHand(last, s) => InHand(i, s)
    BY <2>1 DEF InHand
  <2> QED BY <1>3, <1>4, <1>5, <2>1, <2>2, <2>3, SweepGoesOn DEF i
<1> QED BY <1>6, <1>7

-----------------------------------------------------------------------------
(* Steps of the repair passes. *)

LEMMA PassMoves ==
  ASSUME FeedersInv, NEW p \in Passes, NEW t \in TaskState, SetTask(p, t), LaneKept,
         given_up \subseteq given_up', faults' \in 0 .. MaxFaults,
         ckpt' \in [Passes -> [0 .. MaxPeriod -> 0 .. MaxPeriod + 1 \cup {None}]],
         CkptInv', PassInv(p)'
  PROVE  FeedersInv'
<1>1. UNCHANGED <<vars, live, boot, node>> /\ task' = [task EXCEPT ![p] = t]
  BY DEF SetTask
<1>2. TruthInv' /\ Grows /\ BootKept' /\ Carried /\ CarriedImport
  BY <1>1, IdleFacts DEF LaneKept
<1>3. /\ task' \in [Tasks -> TaskState] /\ task'["import"] = task["import"]
      /\ \A q \in Passes : q # p => task'[q] = task[q]
  <2>1. p \in Tasks /\ p # "import" /\ "import" \in Tasks /\ Passes \subseteq Tasks
    BY DEF Tasks, Passes
  <2> QED BY <1>1, <2>1, TaskMoves DEF FeedersInv
<1>4. PassesInv'
  <2>1. ASSUME NEW q \in Passes, q # p PROVE PassInv(q)'
    <3>1. task'[q] = task[q] /\ PassInv(q) /\ boot' = boot /\ FeedsTyped
      BY <1>1, <1>3, <2>1 DEF FeedersInv, Accounts, PassesInv
    <3> QED BY <1>2, <3>1, PassKept
  <2> QED BY <2>1 DEF PassesInv
<1>5. ImportInv'
  BY <1>1, <1>2, <1>3, ImportKept DEF FeedersInv, Accounts
<1>6. FeedsTyped'
  BY <1>1, <1>3 DEF FeedersInv, FeedsTyped, LaneKept
<1> QED BY <1>2, <1>4, <1>5, <1>6 DEF FeedersInv, Accounts

\* The pass as it is, and as it is after the step.
LEMMA PassNow ==
  ASSUME FeedersInv, NEW p \in Passes
  PROVE  /\ task[p] \in TaskState /\ PassInv(p)
         /\ \A t \in TaskState : SetTask(p, t) => task'[p] = t
<1>1. p \in Tasks
  BY DEF Tasks
<1> QED BY <1>1 DEF FeedersInv, FeedsTyped, Accounts, PassesInv, SetTask

\* The pass goes on within its period or window: a slot it lets go of is
\* accounted for, or did not need the repair.
LEMMA PassGoesOn ==
  ASSUME FeedersInv, NEW p \in Passes, task[p].pc = "run", NEW t \in TaskState, SetTask(p, t),
         LaneKept, given_up \subseteq given_up', faults' \in 0 .. MaxFaults, ckpt' = ckpt,
         t.pc = "run", t.at = task[p].at, t.to = task[p].to,
         \A s \in Slots : InHand(task[p], s) /\ Needed(p, s) => InHand(t, s) \/ Accounted(p, s)',
         p = "legacy_sub" => \A x \in t.targets : TargetTrue(x),
         p = "reconstruct" => t.targets = {}
  PROVE  FeedersInv'
<1>1. task'[p] = t /\ PassInv(p)
  BY PassNow
<1>2. /\ Carried
      /\ \A s \in Slots : /\ Needed(p, s)' <=> Needed(p, s)
                          /\ Accounted(p, s) => Accounted(p, s)'
  BY IdleFacts DEF SetTask, LaneKept
<1>3. boot' = boot /\ UNCHANGED <<row, transfers>>
  BY DEF SetTask, vars
<1>4. CkptInv'
  BY <1>2, <1>3, CkptKept DEF FeedersInv, Accounts
<1>5. ASSUME NEW s \in Slots, Reached(p, t, s), Needed(p, s)'
      PROVE  Accounted(p, s)' \/ InHand(t, s)
  <2>1. Reached(p, task[p], s) /\ Needed(p, s)
    BY <1>2, <1>5 DEF Reached
  <2> QED BY <1>1, <1>2, <2>1 DEF PassInv
<1>6. p = "legacy_sub" => \A x \in t.targets : TargetTrue(x)'
  BY <1>3 DEF TargetTrue, IsFinal
<1>7. PassInv(p)'
  BY <1>1, <1>3, <1>5, <1>6 DEF PassInv
<1>8. ckpt' \in [Passes -> [0 .. MaxPeriod -> 0 .. MaxPeriod + 1 \cup {None}]]
  BY DEF FeedersInv, FeedsTyped
<1> QED BY <1>4, <1>7, <1>8, PassMoves

\* A row without its transfer list names the chain's block.
LEMMA NoListFacts ==
  ASSUME FeedersInv, NEW s \in Slots, NoList(row[s])
  PROVE  /\ row[s].final \in Blocks /\ BlockSlot[row[s].final] = s /\ Chain[s] = row[s].final
         /\ IsFinal(row, s)
<1>1. /\ row[s] # None /\ row[s].status = "Final" /\ ~row[s].is_miss /\ row[s].final # None
  BY DEF NoList
<1>2. row[s] \in SlotRow /\ RowTold(row[s], s, events, block)
  BY <1>1 DEF FeedersInv, TruthInv, TypeOK, RowsTrue
<1>3. row[s].final \in Blocks
  BY <1>1, <1>2 DEF SlotRow
<1> QED BY <1>1, <1>2, <1>3 DEF RowTold, RowShape, VerdictOf, IsFinal

\* The transfers-only patch of a block of the chain.
LEMMA TransferTrue ==
  ASSUME NEW s \in Slots, NEW b \in Blocks, BlockSlot[b] = s, Chain[s] = b
  PROVE  /\ TransferPatch(s, b) \in TrueLegacies /\ TransferPatch(s, b).slot = s
         /\ TransferPatch(s, b).transfers
<1>1. /\ TransferPatch(s, b) \in LegacyPatch /\ TransferPatch(s, b).slot = s
      /\ TransferPatch(s, b).transfers /\ TransferPatch(s, b).is_miss = FALSE
      /\ TransferPatch(s, b).block = b
  BY DEF TransferPatch, LegacyPatch
<1> QED BY <1>1 DEF TrueLegacies, Names, Named, VerdictNamed

\* It is queued, and then waits.
LEMMA TransferQueued ==
  ASSUME FeedersInv, NEW p \in Passes, p # "pull", NEW s \in Slots, NEW b \in Blocks,
         BlockSlot[b] = s, Chain[s] = b, Queue("legacy", TransferPatch(s, b))
  PROVE  LaneKept /\ Waiting(p, s)'
<1> DEFINE e == Event("legacy", TransferPatch(s, b))
<1>1. e \in BulkEvents /\ e.kind = "legacy" /\ e.msg.slot = s /\ e.msg.transfers
  BY TransferTrue DEF Event, BulkEvents
<1>2. LaneKept /\ e \in Range(bulk')
  BY <1>1, QueueFacts DEF FeedersInv, LaneKept
<1> HIDE DEF e
<1> QED BY <1>1, <1>2 DEF Waiting

\* The parts of the pass are a patch of the same slot and verdict.
LEMMA MaskedFacts ==
  ASSUME NEW r \in PeerPatch
  PROVE  /\ Masked(r) \in PeerPatch /\ Masked(r).slot = r.slot
         /\ Masked(r).is_miss = r.is_miss /\ Masked(r).block = r.block
<1> DEFINE body == r.body /\ "block" \in PullParts
           exec == r.exec /\ "exec" \in PullParts
           moved == r.transfers /\ "transfers" \in PullParts
<1>1. Masked(r) = [r EXCEPT !.body = body, !.exec = exec, !.transfers = moved]
  BY DEF Masked
<1>2. body \in BOOLEAN /\ exec \in BOOLEAN /\ moved \in BOOLEAN
  OBVIOUS
<1> HIDE DEF body, exec, moved
<1> DEFINE q == [r EXCEPT !.body = body, !.exec = exec, !.transfers = moved]
<1>3. q \in PeerPatch
  BY <1>2 DEF PeerPatch
<1>4. q.slot = r.slot /\ q.is_miss = r.is_miss /\ q.block = r.block
  BY DEF PeerPatch
<1> QED BY <1>1, <1>3, <1>4

\* The answer of a peer, with the parts of the pass, is queued and then waits.
LEMMA PullQueued ==
  ASSUME FeedersInv, NEW s \in Slots, Remote[s] # None, Queue("peer", Masked(Remote[s]))
  PROVE  LaneKept /\ Waiting("pull", s)'
<1> DEFINE m == Masked(Remote[s])
           e == Event("peer", m)
<1>1. Remote[s] \in PeerPatches /\ Remote[s].slot = s /\ Named(Remote[s]) = Chain[s]
  BY FeedersAssumption, SourcesAgree
<1>2. Remote[s] \in PeerPatch /\ Names(Remote[s])
  BY <1>1, MessageFacts
<1>3. m \in PeerPatch /\ m.slot = s /\ m.is_miss = Remote[s].is_miss /\ m.block = Remote[s].block
  BY <1>1, <1>2, MaskedFacts
<1> HIDE DEF m
<1>4. m \in TruePeers
  BY <1>1, <1>2, <1>3 DEF TruePeers, Names, Named
<1>5. e \in BulkEvents /\ e.kind = "peer" /\ e.msg = m
  BY <1>4 DEF Event, BulkEvents
<1>6. LaneKept /\ e \in Range(bulk')
  BY <1>5, QueueFacts DEF FeedersInv, LaneKept, m
<1> HIDE DEF e
<1> QED BY <1>3, <1>5, <1>6 DEF Waiting, m

\* The first slot to read: it leaves todo, the others stay in hand.
LEMMA SlotRead ==
  ASSUME NEW t \in TaskState, t.todo # <<>>, NEW more, more \subseteq Targets,
         t.targets \subseteq more
  PROVE  LET u == [t EXCEPT !.todo = Tail(@), !.targets = more]
         IN  /\ Head(t.todo) \in Slots
             /\ u \in TaskState /\ u.pc = t.pc /\ u.at = t.at /\ u.to = t.to /\ u.targets = more
             /\ \A s \in Slots : InHand(t, s) => InHand(u, s) \/ s = Head(t.todo)
<1> DEFINE rest == Tail(t.todo)
           u == [t EXCEPT !.todo = rest, !.targets = more]
<1>1. t.todo \in Seq(Slots)
  BY DEF TaskState
<1>2. rest \in Seq(Slots) /\ Head(t.todo) \in Slots
      /\ Range(t.todo) = {Head(t.todo)} \cup Range(rest)
  BY <1>1, TailFacts
<1> HIDE DEF rest
<1>3. /\ u \in TaskState /\ u.pc = t.pc /\ u.at = t.at /\ u.to = t.to /\ u.targets = more
      /\ u.todo = rest
  BY <1>2 DEF TaskState
<1> HIDE DEF u
<1>4. \A s \in Slots : InHand(t, s) => InHand(u, s) \/ s = Head(t.todo)
  BY <1>2, <1>3 DEF InHand
<1> QED BY <1>2, <1>3, <1>4 DEF u, rest

\* reconstruct_slot
LEMMA StepRebuild ==
  ASSUME FeedersInv, Rebuild
  PROVE  FeedersInv'
<1> DEFINE p == "reconstruct"
           t == task[p]
           first == Head(t.todo)
           u == [t EXCEPT !.todo = Tail(@), !.targets = {}]
<1>1. /\ t.pc = "run" /\ t.todo # <<>> /\ ckpt' = ckpt /\ given_up' = given_up
      /\ faults' = faults
      /\ SetTask(p, [t EXCEPT !.todo = Tail(@)])
      /\ IF Repairs(p, op, row[first])
           THEN Queue("legacy", TransferPatch(first, row[first].final)) ELSE bulk' = bulk
  BY DEF Rebuild
<1>2. p \in Passes /\ t \in TaskState /\ t.targets = {}
  BY <1>1, PassNow DEF Passes, PassInv
<1>3. /\ first \in Slots /\ u \in TaskState /\ u.pc = t.pc /\ u.at = t.at /\ u.to = t.to
      /\ u.targets = {} /\ \A s \in Slots : InHand(t, s) => InHand(u, s) \/ s = first
  BY <1>1, <1>2, SlotRead
<1>4. [t EXCEPT !.todo = Tail(@)] = u
  BY <1>2 DEF TaskState
<1>0. PICK s0 \in Slots : s0 = first
  BY <1>3
<1> HIDE DEF first, u
<1>5. SetTask(p, u)
  BY <1>1, <1>4
<1>6. LaneKept /\ (Needed(p, s0) => Accounted(p, s0)')
  <2>1. CASE Repairs(p, op, row[s0])
    <3>1. NoList(row[s0])
      BY <2>1 DEF Repairs
    <3>2. /\ row[s0].final \in Blocks /\ BlockSlot[row[s0].final] = s0
          /\ Chain[s0] = row[s0].final
      BY <3>1, NoListFacts
    <3>3. LaneKept /\ Waiting(p, s0)'
      BY <1>0, <1>1, <1>2, <2>1, <3>2, TransferQueued
    <3> QED BY <3>3 DEF Accounted
  <2>2. CASE ~Repairs(p, op, row[s0])
    BY <1>0, <1>1, <2>2, LaneIdle DEF Needed
  <2> QED BY <2>1, <2>2
<1>7. faults' \in 0 .. MaxFaults
  BY <1>1 DEF FeedersInv, FeedsTyped
<1> HIDE DEF p
<1>8. \A s \in Slots : InHand(t, s) /\ Needed(p, s) => InHand(u, s) \/ Accounted(p, s)'
  BY <1>0, <1>3, <1>6
<1>9. p # "legacy_sub"
  BY DEF p
<1> QED BY <1>1, <1>2, <1>3, <1>5, <1>6, <1>7, <1>8, <1>9, PassGoesOn

\* The rows of a period or window are read.
LEMMA StepScan ==
  ASSUME FeedersInv, NEW p \in Passes, Scan(p)
  PROVE  FeedersInv'
<1> DEFINE t == task[p]
           s0 == Head(t.todo)
           x0 == <<s0, row[s0].final, transfers[s0] # {}>>
           more == IF Repairs(p, op, row[s0]) THEN t.targets \cup {x0} ELSE t.targets
           u == [t EXCEPT !.todo = Tail(@), !.targets = more]
<1>1. /\ p # "reconstruct" /\ t.pc = "run" /\ t.todo # <<>> /\ ckpt' = ckpt
      /\ given_up' = given_up /\ faults' = faults /\ bulk' = bulk
      /\ SetTask(p, u)
  BY DEF Scan
<1>2. t \in TaskState /\ PassInv(p) /\ t.targets \subseteq Targets /\ s0 \in Slots
  <2>1. t \in TaskState /\ PassInv(p)
    BY PassNow
  <2>2. t.todo \in Seq(Slots) /\ t.targets \subseteq Targets
    BY <2>1 DEF TaskState
  <2> QED BY <1>1, <2>1, <2>2, TailFacts
<1>3. Repairs(p, op, row[s0]) => row[s0] \in SlotRow /\ row[s0].final \in Blocks \cup {None}
  BY <1>2, RepairsFinal DEF FeedersInv, TruthInv, TypeOK, SlotRow
<1>4. Repairs(p, op, row[s0]) => x0 \in Targets
  BY <1>2, <1>3 DEF Targets
<1>5. more \subseteq Targets /\ t.targets \subseteq more
  BY <1>2, <1>4
<1>6. x0[1] = s0 /\ x0[2] = row[s0].final /\ (x0[3] <=> transfers[s0] # {})
  OBVIOUS
<1>7. \A x \in more : x \in t.targets \/ (x = x0 /\ Repairs(p, op, row[s0]))
  OBVIOUS
<1>8. Repairs(p, op, row[s0]) => x0 \in more
  OBVIOUS
<1> HIDE DEF x0, more
<1>9. /\ u \in TaskState /\ u.pc = t.pc /\ u.at = t.at /\ u.to = t.to /\ u.targets = more
      /\ \A s \in Slots : InHand(t, s) => InHand(u, s) \/ s = s0
  BY <1>1, <1>2, <1>5, SlotRead
<1> HIDE DEF s0, u
<1>10. Needed(p, s0) => InHand(u, s0)
  BY <1>6, <1>8, <1>9 DEF InHand, Needed
<1>11. \A s \in Slots : InHand(t, s) /\ Needed(p, s) => InHand(u, s) \/ Accounted(p, s)'
  BY <1>9, <1>10
<1>12. ASSUME p = "legacy_sub", NEW x \in u.targets PROVE TargetTrue(x)
  <2>1. CASE x \in t.targets
    BY <1>1, <1>2, <1>12, <2>1 DEF PassInv
  <2>2. CASE x = x0 /\ Repairs(p, op, row[s0])
    <3>1. NoList(row[s0])
      BY <1>12, <2>2 DEF Repairs
    <3>2. /\ row[s0].final \in Blocks /\ BlockSlot[row[s0].final] = s0
          /\ Chain[s0] = row[s0].final /\ IsFinal(row, s0)
      BY <1>2, <3>1, NoListFacts
    <3> QED BY <1>6, <2>2, <3>2 DEF TargetTrue
  <2> QED BY <1>7, <1>9, <1>12, <2>1, <2>2
<1>13. LaneKept /\ faults' \in 0 .. MaxFaults
  BY <1>1, LaneIdle DEF FeedersInv, FeedsTyped
<1> HIDE DEF t
<1> QED BY <1>1, <1>9, <1>11, <1>12, <1>13, PassGoesOn DEF t

\* A target is asked for, with or without an answer.
LEMMA StepAsked ==
  ASSUME FeedersInv, NEW p \in Passes, NEW x \in task[p].targets,
         Answered(p, x) \/ Unanswered(p, x)
  PROVE  FeedersInv'
<1> DEFINE t == task[p]
           u == [t EXCEPT !.targets = @ \ {x}]
<1>1. /\ t.pc = "run" /\ ckpt' = ckpt /\ given_up \subseteq given_up' /\ SetTask(p, u)
  BY DEF Answered, Unanswered, Asking
<1>2. t \in TaskState /\ PassInv(p)
  BY PassNow
<1>3. x \in Targets /\ x[1] \in Slots
  BY <1>2, TargetSlot DEF TaskState
<1>4. /\ u \in TaskState /\ u.pc = t.pc /\ u.at = t.at /\ u.to = t.to /\ u.targets = t.targets \ {x}
      /\ \A s \in Slots : InHand(t, s) => InHand(u, s) \/ s = x[1]
  BY <1>2, TargetGone
<1> HIDE DEF u
<1>5. p # "reconstruct"
  BY <1>1, <1>2 DEF PassInv
<1>6. p = "legacy_sub" => \A y \in t.targets : TargetTrue(y)
  BY <1>1, <1>2 DEF PassInv
<1>7. faults' \in 0 .. MaxFaults
  BY FeedersAssumption DEF Answered, Unanswered, FeedersInv, FeedsTyped
<1>8. LaneKept /\ Accounted(p, x[1])'
  <2>1. CASE Unanswered(p, x)
    <3>1. bulk' = bulk /\ <<p, x[1]>> \in given_up'
      BY <2>1 DEF Unanswered
    <3> QED BY <3>1, LaneIdle DEF Accounted
  <2>2. CASE Answered(p, x) /\ p = "pull"
    <3>1. Remote[x[1]] # None /\ Queue("peer", Masked(Remote[x[1]]))
      BY <2>2 DEF Answered, Useful
    <3>2. LaneKept /\ Waiting("pull", x[1])'
      BY <1>3, <3>1, PullQueued
    <3> QED BY <2>2, <3>2 DEF Accounted
  <2>3. CASE Answered(p, x) /\ p # "pull" /\ x[1] \in LegacySubs /\ ~x[3]
    <3>1. Queue("legacy", TransferPatch(x[1], x[2])) /\ p = "legacy_sub"
      BY <1>5, <2>3 DEF Answered, Passes
    <3>2. x[2] \in Blocks /\ BlockSlot[x[2]] = x[1] /\ Chain[x[1]] = x[2]
      BY <1>6, <3>1 DEF TargetTrue
    <3>3. LaneKept /\ Waiting(p, x[1])'
      BY <1>3, <2>3, <3>1, <3>2, TransferQueued
    <3> QED BY <3>3 DEF Accounted
  <2>4. CASE Answered(p, x) /\ p # "pull" /\ ~(x[1] \in LegacySubs /\ ~x[3])
    <3>1. bulk' = bulk /\ p = "legacy_sub" /\ transfers' = transfers
      BY <1>5, <2>4 DEF Answered, Passes, SetTask, vars
    <3>2. x[3] => transfers[x[1]] # {}
      BY <1>6, <3>1 DEF TargetTrue
    <3>3. Repaired(p, x[1])'
      BY <2>4, <3>1, <3>2 DEF Repaired
    <3> QED BY <3>1, <3>3, LaneIdle DEF Accounted
  <2> QED BY <2>1, <2>2, <2>3, <2>4
<1>9. \A s \in Slots : InHand(t, s) /\ Needed(p, s) => InHand(u, s) \/ Accounted(p, s)'
  BY <1>4, <1>8
<1> HIDE DEF t
<1> QED BY <1>1, <1>4, <1>5, <1>6, <1>7, <1>8, <1>9, PassGoesOn DEF t

\* Where the pass goes on after its period or window.
LEMMA OnwardFacts ==
  ASSUME NEW p \in Passes, NEW t \in TaskState, RepairFrom <= t.at, t.at <= t.to
  PROVE  LET u == Onward(p, t)
         IN  /\ u \in TaskState /\ u.pc \in {"run", "done"} /\ u.targets = {}
             /\ u.pc = "run" =>
                  /\ RepairFrom <= u.at /\ u.at <= u.to
                  /\ \A s \in Slots : Reached(p, u, s) => Reached(p, t, s) \/ s \in Range(u.todo)
<1> DEFINE next == IF p = "pull" THEN PullLo(t.at) - 1 ELSE t.at + 1
           u == Onward(p, t)
<1>1. t.at \in 0 .. MaxPeriod /\ t.to \in 0 .. MaxPeriod /\ MaxPeriod \in Nat /\ RepairFrom \in Nat
  BY StoreAssumption, FeedersAssumption DEF TaskState
<1>2. u = IF LastOf(p, t) THEN [Off EXCEPT !.pc = "done"] ELSE EnterPeriod(p, next, t.to)
  BY DEF Onward
<1>3. CASE LastOf(p, t)
  BY <1>1, <1>2, <1>3, OffFacts
<1>4. CASE ~LastOf(p, t)
  <2>1. PullLo(t.at) \in 0 .. MaxPeriod /\ RepairFrom <= PullLo(t.at) /\ PullLo(t.at) <= t.at
    BY <1>1, PullLoFacts
  <2>2. next \in 0 .. MaxPeriod /\ RepairFrom <= next /\ next <= t.to
    BY <1>1, <1>4, <2>1 DEF LastOf
  <2>3. \A n \in Nat : /\ p = "pull" /\ n > next => n >= PullLo(t.at)
                       /\ p # "pull" /\ n < next => n <= t.at
    BY <1>1, <2>1
  <2> HIDE DEF next, u
  <2>4. /\ u \in TaskState /\ u.pc = "run" /\ u.at = next /\ u.to = t.to /\ u.targets = {}
        /\ Range(u.todo) = Between(IF p = "pull" THEN PullLo(next) ELSE next, next)
    BY <1>1, <1>2, <1>4, <2>2, EnterFacts
  <2>5. ASSUME NEW s \in Slots, Reached(p, u, s)
        PROVE  Reached(p, t, s) \/ s \in Range(u.todo)
    <3>1. s[1] \in Nat /\ RepairFrom <= s[1] /\ s[1] <= t.to
          /\ (IF p = "pull" THEN PullLo(next) <= s[1] ELSE s[1] <= next)
      BY <2>4, <2>5 DEF Reached, Slots
    <3>2. CASE (p = "pull" /\ s[1] <= next) \/ (p # "pull" /\ next <= s[1])
      BY <2>4, <3>1, <3>2 DEF Between
    <3>3. CASE ~((p = "pull" /\ s[1] <= next) \/ (p # "pull" /\ next <= s[1]))
      <4>1. (p = "pull" /\ s[1] > next) \/ (p # "pull" /\ s[1] < next)
        BY <2>2, <3>1, <3>3
      <4> QED BY <2>1, <2>3, <3>1, <4>1 DEF Reached
    <3> QED BY <3>2, <3>3
  <2> QED BY <2>2, <2>4, <2>5 DEF u
<1> QED BY <1>3, <1>4

\* The checkpoint a pass writes: it covers what the pass has reached, or nothing new.
LEMMA MarkFacts ==
  ASSUME NEW p \in Passes, NEW t \in TaskState, RepairFrom <= t.at, t.at <= t.to,
         NEW old \in 0 .. MaxPeriod + 1 \cup {None}
  PROVE  LET m == Mark(p, t, old)
         IN  /\ m \in 0 .. MaxPeriod + 1 \cup {None}
             /\ \/ m = old
                \/ \A s \in Slots :
                     /\ RepairFrom <= s[1] /\ s[1] <= t.to
                     /\ IF p = "pull" THEN s[1] > m ELSE s[1] < m
                     => Reached(p, t, s)
<1> DEFINE m == Mark(p, t, old)
<1>1. t.at \in 0 .. MaxPeriod /\ t.to \in 0 .. MaxPeriod /\ MaxPeriod \in Nat /\ RepairFrom \in Nat
  BY StoreAssumption, FeedersAssumption DEF TaskState
<1>2. \A s \in Slots : s[1] \in Nat
  BY DEF Slots
<1>3. CASE p = "pull"
  <2>1. PullLo(t.at) \in 0 .. MaxPeriod /\ m = Minus(PullLo(t.at), 1)
        /\ Minus(PullLo(t.at), 1) \in 0 .. MaxPeriod
    BY <1>1, <1>3, PullLoFacts DEF Mark
  <2>2. \A n \in Nat : n > m => PullLo(t.at) <= n
    BY <1>1, <2>1 DEF Minus
  <2> HIDE DEF m
  <2>3. m \in 0 .. MaxPeriod + 1
    BY <1>1, <2>1
  <2>4. ASSUME NEW s \in Slots, RepairFrom <= s[1], s[1] <= t.to, s[1] > m
        PROVE  Reached(p, t, s)
    BY <1>2, <1>3, <2>2, <2>4 DEF Reached
  <2> QED BY <1>3, <2>3, <2>4 DEF m
<1>4. CASE p # "pull"
  <2>1. m = t.at + 1 \/ m = old
    BY <1>4 DEF Mark
  <2> HIDE DEF m
  <2>2. CASE m = old
    BY <2>2 DEF m
  <2>3. CASE m = t.at + 1
    <3>1. m \in 0 .. MaxPeriod + 1 /\ \A n \in Nat : n < m => n <= t.at
      BY <1>1, <2>3
    <3>2. ASSUME NEW s \in Slots, RepairFrom <= s[1], s[1] <= t.to, s[1] < m
          PROVE  Reached(p, t, s)
      BY <1>2, <1>4, <3>1, <3>2 DEF Reached
    <3> QED BY <1>4, <3>1, <3>2 DEF m
  <2> QED BY <2>1, <2>2, <2>3
<1> QED BY <1>3, <1>4

\* A period or window ends: the checkpoint is stored.
LEMMA StepPeriodEnds ==
  ASSUME FeedersInv, NEW p \in Passes, PeriodEnds(p)
  PROVE  FeedersInv'
<1>1. PICK t \in TaskState : t = task[p]
  BY PassNow
<1>2. PassInv(p) /\ boot' = boot
  BY PassNow DEF PeriodEnds, SetTask
<1>3. /\ t.pc = "run" /\ t.todo = <<>> /\ t.targets = {}
      /\ ckpt' = [ckpt EXCEPT ![p][t.to] = Mark(p, t, @)]
      /\ SetTask(p, Onward(p, t)) /\ bulk' = bulk /\ given_up' = given_up /\ faults' = faults
  BY <1>1 DEF PeriodEnds
<1>4. RepairFrom <= t.at /\ t.at <= t.to /\ t.to \in 0 .. MaxPeriod /\ p \in boot.tasks
  BY <1>1, <1>2, <1>3 DEF PassInv, TaskState
<1>5. LaneKept /\ faults' \in 0 .. MaxFaults
  BY <1>3, LaneIdle DEF FeedersInv, FeedsTyped
<1>6. \A q \in Passes, s \in Slots : /\ Needed(q, s)' <=> Needed(q, s)
                                     /\ Accounted(q, s) => Accounted(q, s)'
  BY <1>3, <1>5, IdleFacts DEF SetTask, LaneKept
<1>7. ASSUME NEW s \in Slots, Reached(p, t, s), Needed(p, s)' PROVE Accounted(p, s)'
  <2>1. ~InHand(t, s)
    BY <1>3, EmptyFacts DEF InHand
  <2> QED BY <1>1, <1>2, <1>3, <1>6, <1>7, <2>1 DEF PassInv
<1>8. PICK u \in TaskState : u = Onward(p, t)
  BY <1>4, OnwardFacts
<1>9. /\ u.pc \in {"run", "done"} /\ u.targets = {}
      /\ u.pc = "run" =>
           /\ RepairFrom <= u.at /\ u.at <= u.to
           /\ \A s \in Slots : Reached(p, u, s) => Reached(p, t, s) \/ s \in Range(u.todo)
  BY <1>4, <1>8, OnwardFacts
<1>10. SetTask(p, u) /\ task'[p] = u
  BY <1>3, <1>8, PassNow
<1>11. PassInv(p)'
  BY <1>2, <1>4, <1>7, <1>9, <1>10 DEF PassInv, InHand
<1>12. ckpt \in [Passes -> [0 .. MaxPeriod -> 0 .. MaxPeriod + 1 \cup {None}]]
  BY DEF FeedersInv, FeedsTyped
<1> DEFINE old == ckpt[p][t.to]
           m == Mark(p, t, old)
<1>13. /\ m \in 0 .. MaxPeriod + 1 \cup {None}
       /\ \/ m = old
          \/ \A s \in Slots :
               /\ RepairFrom <= s[1] /\ s[1] <= t.to
               /\ IF p = "pull" THEN s[1] > m ELSE s[1] < m
               => Reached(p, t, s)
  BY <1>4, <1>12, MarkFacts
<1>14. ckpt' = [ckpt EXCEPT ![p] = [ckpt[p] EXCEPT ![t.to] = m]]
  BY <1>3
<1> HIDE DEF m
<1>15. /\ ckpt' \in [Passes -> [0 .. MaxPeriod -> 0 .. MaxPeriod + 1 \cup {None}]]
       /\ ckpt'[p][t.to] = m
       /\ \A q \in Passes, to \in 0 .. MaxPeriod :
            ~(q = p /\ to = t.to) => ckpt'[q][to] = ckpt[q][to]
  BY <1>4, <1>12, <1>13, <1>14
<1>16. CkptInv'
  <2> SUFFICES ASSUME NEW q \in boot.tasks \cap Passes, NEW to \in 0 .. MaxPeriod, NEW s \in Slots,
                      Passed(q, to, s)', Needed(q, s)'
               PROVE  Accounted(q, s)'
    BY <1>2 DEF CkptInv
  <2>1. CASE Passed(q, to, s)
    BY <1>6, <2>1 DEF FeedersInv, Accounts, CkptInv
  <2>2. CASE ~Passed(q, to, s)
    <3>1. q = p /\ to = t.to /\ m # old
      BY <1>15, <2>2 DEF Passed
    <3>2. Reached(p, t, s)
      BY <1>13, <1>15, <3>1 DEF Passed
    <3> QED BY <1>7, <3>1, <3>2
  <2> QED BY <2>1, <2>2
<1> QED BY <1>3, <1>5, <1>10, <1>11, <1>15, <1>16, PassMoves

-----------------------------------------------------------------------------
(* The theorems. *)

\* A step of any feeder, of the writer, or a failure.
LEMMA FeedersStep ==
  TablesCover => (FeedersInv /\ [FeedersNext]_all => FeedersInv')
<1> SUFFICES ASSUME TablesCover, FeedersInv, [FeedersNext]_all
             PROVE  FeedersInv'
  OBVIOUS
<1>1. CASE UNCHANGED all
  <2>1. UNCHANGED <<vars, lanes, feeds>>
    BY <1>1 DEF all
  <2>2. TruthInv' /\ Grows /\ OpsGrow
    BY <2>1, TruthIdle DEF FeedersInv
  <2>3. FeedsTyped'
    BY <2>1 DEF FeedersInv, FeedsTyped, lanes, feeds
  <2>4. Carried /\ CarriedImport
    BY <2>1, IdleFacts DEF lanes, feeds
  <2> QED BY <2>1, <2>2, <2>3, <2>4, WriterAccounts DEF FeedersInv
<1>2. CASE \E k \in StreamKinds : Connect(k) \/ Emit(k)
  BY <1>2, StepStream
<1>3. CASE ServeLive
  BY <1>3, StepServeLive
<1>4. CASE ServeBulk
  BY <1>4, StepServeBulk
<1>5. CASE ImportStep
  BY <1>5, StepImportBegins, StepLookUp, StepImportPassEnds, StepFound DEF ImportStep, Importer
<1>6. ASSUME NEW p \in Passes, PassStep(p) PROVE FeedersInv'
  BY <1>6, StepRebuild, StepScan, StepPeriodEnds, StepAsked DEF PassStep
<1>7. CASE Fault
  BY <1>7, StepStream, StepFailed, StepRestart DEF Fault, Importer
<1> QED BY <1>1, <1>2, <1>3, <1>4, <1>5, <1>6, <1>7 DEF FeedersNext

\* The invariant is never left.
LEMMA FeedersInvHolds ==
  ASSUME TablesCover
  PROVE  FeedersSpec => []FeedersInv
<1>1. FeedersInit => FeedersInv
  BY FeedersStart
<1>2. FeedersInv /\ [FeedersNext]_all => FeedersInv'
  BY FeedersStep
<1> QED BY <1>1, <1>2, PTL DEF FeedersSpec

(***************************************************************************)
(* Rows stay typed, the two lanes stay within the capacities of their      *)
(* channels (EventTx::send waits for room), and the feeders' places and    *)
(* checkpoints stay within the periods of the chain.                       *)
(***************************************************************************)
THEOREM FeedersTypeHolds ==
  ASSUME TablesCover
  PROVE  FeedersSpec => []FeedersTypeOK
<1>1. FeedersInv => FeedersTypeOK
  BY DEF FeedersInv, TruthInv, FeedsTyped, TaskState, FeedersTypeOK
<1>2. FeedersSpec => []FeedersInv
  BY FeedersInvHolds
<1> QED BY <1>1, <1>2, PTL

(***************************************************************************)
(* A crash between two writes of handle_exec or handle_block, followed by  *)
(* any number of restarts and by whatever the streams, the importer and    *)
(* the repairs do then, never shows in a settled slot.                     *)
(***************************************************************************)
THEOREM CrashConsistentHolds ==
  ASSUME TablesCover
  PROVE  FeedersSpec => []CrashConsistent
<1>1. FeedersInv => CrashConsistent
  <2> SUFFICES ASSUME FeedersInv, NEW s \in Slots, IsFinal(row, s), row[s].exec_final
               PROVE  /\ events[s] = VerdictOf(row[s])
                      /\ \A b \in row[s].candidates : block[b] # None =>
                           block[b] = IF b = row[s].final THEN "Final" ELSE "Discarded"
    BY DEF CrashConsistent
  <2>1. row[s] \in SlotRow /\ RowTold(row[s], s, events, block)
    BY DEF FeedersInv, TruthInv, TypeOK, RowsTrue, IsFinal
  <2>2. VerdictOf(row[s]) = Chain[s] /\ events[s] = Chain[s]
    BY <2>1 DEF RowTold, IsFinal
  <2>3. ASSUME NEW b \in row[s].candidates, block[b] # None
        PROVE  block[b] = IF b = row[s].final THEN "Final" ELSE "Discarded"
    <3>1. b \in Blocks /\ BlockSlot[b] = s /\ block[b] # "SeenCandidate"
      BY <2>1, <2>3 DEF RowTold, RowShape, SlotRow
    <3>2. block[b] \in {"Final", "Discarded"}
      BY <2>3, <3>1 DEF FeedersInv, TruthInv, TypeOK, BlockStatus
    <3>3. /\ block[b] = "Final" => Chain[s] = b
          /\ block[b] = "Discarded" => Chain[s] # b
      BY <3>1 DEF FeedersInv, TruthInv, BlocksTrue, StatusTold
    <3>4. Chain[s] = b <=> b = row[s].final
      <4>1. b # Miss /\ b # None
        BY <3>1, StoreAssumption
      <4> QED BY <2>1, <2>2, <3>1, <4>1 DEF VerdictOf, RowTold, RowShape, IsFinal
    <3> QED BY <3>2, <3>3, <3>4
  <2> QED BY <2>2, <2>3
<1>2. FeedersSpec => []FeedersInv
  BY FeedersInvHolds
<1> QED BY <1>1, <1>2, PTL

(***************************************************************************)
(* run_oneshot_import records a miss where the tables hold no row, forced  *)
(* verdicts and peers name misses too: none of them ever hides a block of  *)
(* the chain, if the tables cover the importer's window.  (Without that    *)
(* hypothesis the run early_miss shows the contrary.)                      *)
(***************************************************************************)
THEOREM NoInventedMissHolds ==
  ASSUME TablesCover
  PROVE  FeedersSpec => []NoInventedMiss
<1>1. FeedersInv => NoInventedMiss
  BY DEF FeedersInv, TruthInv, RowsTrue, RowTold, VerdictOf, IsFinal, NoInventedMiss
<1>2. FeedersSpec => []FeedersInv
  BY FeedersInvHolds
<1> QED BY <1>1, <1>2, PTL

(***************************************************************************)
(* When run_oneshot_import says COMPLETE and the queue is drained, every   *)
(* slot of its window is FINAL and covered, whatever failed or stopped on  *)
(* the way.                                                                *)
(***************************************************************************)
THEOREM ImportCompleteHolds ==
  ASSUME TablesCover
  PROVE  FeedersSpec => []ImportComplete
<1>1. FeedersInv => ImportComplete
  <2> SUFFICES ASSUME FeedersInv, Importer.pc = "done", Drained, NEW s \in ImportWindow
               PROVE  IsFinal(row, s) /\ (Legacy[s] # None => AlreadyCovered(row[s]))
    BY DEF ImportComplete
  <2>1. s \in Between(ImportMin, task["import"].to) /\ task["import"].pc = "done"
    BY DEF ImportWindow, Importer, Between
  <2>2. Imported(s)
    BY <2>1 DEF FeedersInv, Accounts, ImportInv
  <2>3. Range(bulk) = {}
    BY EmptyFacts DEF Drained
  <2> QED BY <2>2, <2>3 DEF Imported, Covered
<1>2. FeedersSpec => []FeedersInv
  BY FeedersInvHolds
<1> QED BY <1>1, <1>2, PTL

(***************************************************************************)
(* A checkpoint of run_reconstruct_transfers, run_legacy_sub_transfers or  *)
(* run_pull_parts never skips a slot in silence: what it has behind it is  *)
(* repaired, queued or given up, for every range, window size, checkpoint  *)
(* interval and lane capacity.                                             *)
(***************************************************************************)
THEOREM CheckpointHonestHolds ==
  ASSUME TablesCover
  PROVE  FeedersSpec => []CheckpointHonest
<1>1. FeedersInv => CheckpointHonest
  <2> SUFFICES ASSUME FeedersInv, NEW p \in boot.tasks \cap Passes, NEW to \in 0 .. MaxPeriod,
                      NEW s \in Slots, Passed(p, to, s),
                      Repairs(p, boot.db.op, boot.db.row[s]), Repairs(p, op, row[s])
               PROVE  Repaired(p, s) \/ s \in Pending(p) \/ <<p, s>> \in given_up
    BY DEF CheckpointHonest
  <2>1. Accounted(p, s)
    BY DEF FeedersInv, Accounts, CkptInv, Needed
  <2>2. ASSUME Waiting(p, s) PROVE s \in Pending(p)
    <3>1. PICK e \in Range(bulk) :
            /\ e.msg.slot = s
            /\ IF p = "pull" THEN e.kind = "peer" ELSE e.kind = "legacy"
      BY <2>2 DEF Waiting
    <3>2. PICK i \in DOMAIN bulk : bulk[i] = e
      BY <3>1 DEF Range
    <3> QED BY <3>1, <3>2 DEF Pending
  <2> QED BY <2>1, <2>2 DEF Accounted
<1>2. FeedersSpec => []FeedersInv
  BY FeedersInvHolds
<1> QED BY <1>1, <1>2, PTL
=============================================================================
