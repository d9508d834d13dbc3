--------------------------- MODULE ArbiterProofs -----------------------------
(***************************************************************************)
(* The arbiter against the chain, for every chain, every set of blocks and *)
(* messages, every number of threads and every bound of the scans.  The    *)
(* parent path and the extreme members of sets of periods need induction,  *)
(* which is had from the least-number principle.                           *)
(***************************************************************************)
EXTENDS ChainTruth, SlotIngestProofs, WellFoundedInduction

-----------------------------------------------------------------------------
(* Least and greatest numbers. *)

\* A set of naturals that is not empty has a least member.
LEMMA LeastNumber ==
  ASSUME NEW T \in SUBSET Nat, T # {}
  PROVE  \E m \in T : \A k \in T : m <= k
<1> DEFINE R == {ss \in Nat \X Nat : ss[1] < ss[2]}
<1>1. IsWellFoundedOn(R, Nat)
  BY NatLessThanWellFounded, Zenon DEF OpToRel
<1>2. \E x \in T : \A y \in T : ~(<<y, x>> \in R)
  <2> HIDE DEF R
  <2> QED BY <1>1, WFMin
<1>3. PICK x \in T : \A y \in T : ~(<<y, x>> \in R)
  BY <1>2
<1>4. ASSUME NEW y \in T
      PROVE  x <= y
  <2>1. <<y, x>> \notin R
    BY <1>3
  <2>2. <<y, x>> \in Nat \X Nat
    OBVIOUS
  <2>3. ~(y < x)
    BY <2>1, <2>2
  <2> QED BY <2>3
<1> QED BY <1>4

\* Min and Max of a bounded set of periods are what they should be.
LEMMA MinOf ==
  ASSUME NEW S \in SUBSET Nat, S # {}
  PROVE  Min(S) \in S /\ \A x \in S : Min(S) <= x
<1>1. PICK m \in S : \A k \in S : m <= k
  BY LeastNumber
<1> QED BY <1>1 DEF Min

LEMMA MaxOf ==
  ASSUME NEW N \in Nat, NEW S \in SUBSET (0 .. N), S # {}
  PROVE  Max(S) \in S /\ \A x \in S : Max(S) >= x
<1> DEFINE T == {n \in Nat : N - n \in S}
<1>1. PICK x0 \in S : TRUE
  OBVIOUS
<1>2. N - x0 \in T
  <2>1. x0 \in 0 .. N /\ N - (N - x0) = x0
    OBVIOUS
  <2> QED BY <2>1
<1>3. PICK m \in T : \A k \in T : m <= k
  <2> HIDE DEF T
  <2>1. T \in SUBSET Nat
    BY DEF T
  <2> QED BY <1>2, <2>1, LeastNumber
<1>4. N - m \in S
  OBVIOUS
<1>5. ASSUME NEW x \in S
      PROVE  N - m >= x
  <2>1. x \in 0 .. N /\ N - x \in Nat /\ N - (N - x) = x
    OBVIOUS
  <2>2. N - x \in T
    BY <2>1
  <2>3. m <= N - x /\ m \in Nat
    BY <1>3, <2>2
  <2> QED BY <2>1, <2>3
<1> QED BY <1>4, <1>5 DEF Max

-----------------------------------------------------------------------------
(* The parent path. *)

\* One step of the path g.
PathStep(blocks, anchor, t, g, n) ==
  IF n = 0 THEN anchor
  ELSE IF g[n - 1] = None         THEN None
  ELSE IF blocks[g[n - 1]] = None THEN None
  ELSE Parents[g[n - 1]][t]

PathUpTo(blocks, anchor, t, k, g) == g = [n \in 0 .. k |-> PathStep(blocks, anchor, t, g, n)]

\* reachable_via_parents can always take another step.
LEMMA PathExists ==
  ASSUME NEW blocks, NEW anchor, NEW t, NEW k \in Nat
  PROVE  \E g : PathUpTo(blocks, anchor, t, k, g)
<1> DEFINE Ok(j) == \E g : PathUpTo(blocks, anchor, t, j, g)
           T == {j \in Nat : ~Ok(j)}
<1>1. SUFFICES T = {}
  OBVIOUS
<1>2. SUFFICES ASSUME T # {} PROVE FALSE
  OBVIOUS
<1>3. PICK m \in T : \A j \in T : m <= j
  <2> HIDE DEF T
  <2>1. T \in SUBSET Nat
    BY DEF T
  <2> QED BY <1>2, <2>1, LeastNumber
<1>4. m \in Nat /\ ~Ok(m)
  OBVIOUS
<1>5. CASE m = 0
  <2> DEFINE g == [n \in 0 .. 0 |-> anchor]
  <2>1. \A n \in 0 .. 0 : PathStep(blocks, anchor, t, g, n) = anchor
    BY DEF PathStep
  <2>2. PathUpTo(blocks, anchor, t, 0, g)
    BY <2>1 DEF PathUpTo
  <2> QED BY <1>4, <1>5, <2>2
<1>6. CASE m # 0
  <2>1. m - 1 \in Nat /\ ~(m <= m - 1)
    BY <1>4, <1>6
  <2>2. Ok(m - 1)
    BY <1>3, <2>1
  <2>3. PICK g : PathUpTo(blocks, anchor, t, m - 1, g)
    BY <2>2
  <2> DEFINE h == [n \in 0 .. m |-> IF n < m THEN g[n] ELSE PathStep(blocks, anchor, t, g, m)]
  <2>4. \A n \in 0 .. (m - 1) : g[n] = PathStep(blocks, anchor, t, g, n)
    <3> DEFINE e == [n \in 0 .. (m - 1) |-> PathStep(blocks, anchor, t, g, n)]
    <3>1. g = e
      BY <2>3 DEF PathUpTo
    <3>2. \A n \in 0 .. (m - 1) : e[n] = PathStep(blocks, anchor, t, g, n)
      OBVIOUS
    <3> HIDE DEF e
    <3> QED BY <3>1, <3>2
  <2>5. \A n \in 0 .. m : PathStep(blocks, anchor, t, h, n) = PathStep(blocks, anchor, t, g, n)
    <3> SUFFICES ASSUME NEW n \in 0 .. m
                 PROVE  PathStep(blocks, anchor, t, h, n) = PathStep(blocks, anchor, t, g, n)
      OBVIOUS
    <3>1. CASE n = 0
      BY <3>1 DEF PathStep
    <3>2. CASE n # 0
      <4>1. n - 1 \in 0 .. m /\ n - 1 < m
        BY <1>4, <3>2
      <4>2. h[n - 1] = g[n - 1]
        BY <4>1
      <4> HIDE DEF h
      <4> QED BY <3>2, <4>2 DEF PathStep
    <3> QED BY <3>1, <3>2
  <2>6. ASSUME NEW n \in 0 .. m
        PROVE  h[n] = PathStep(blocks, anchor, t, h, n)
    <3>1. CASE n < m
      <4>1. h[n] = g[n] /\ n \in 0 .. (m - 1)
        BY <1>4, <3>1
      <4> HIDE DEF h
      <4> QED BY <2>4, <2>5, <4>1
    <3>2. CASE ~(n < m)
      <4>1. n = m /\ h[n] = PathStep(blocks, anchor, t, g, m)
        BY <1>4, <3>2
      <4> HIDE DEF h
      <4> QED BY <2>5, <4>1
    <3> QED BY <3>1, <3>2
  <2>7. PathUpTo(blocks, anchor, t, m, h)
    <3>1. h = [n \in 0 .. m |-> h[n]]
      OBVIOUS
    <3> HIDE DEF h
    <3> QED BY <2>6, <3>1 DEF PathUpTo
  <2> QED BY <1>4, <2>7
<1> QED BY <1>5, <1>6

\* The path reachable_via_parents follows, step by step.
LEMMA PathSteps ==
  ASSUME NEW blocks, NEW anchor, NEW t, NEW n \in 0 .. ReachBound
  PROVE  ParentPath(blocks, anchor, t)[n]
           = PathStep(blocks, anchor, t, ParentPath(blocks, anchor, t), n)
<1> DEFINE path == ParentPath(blocks, anchor, t)
<1>1. PathUpTo(blocks, anchor, t, ReachBound, path)
  <2>1. \E g : PathUpTo(blocks, anchor, t, ReachBound, g)
    BY PathExists, ArbiterAssumption
  <2>2. path = CHOOSE g : PathUpTo(blocks, anchor, t, ReachBound, g)
    BY DEF ParentPath, PathUpTo, PathStep
  <2> QED BY <2>1, <2>2
<1> HIDE DEF path
<1> DEFINE e == [j \in 0 .. ReachBound |-> PathStep(blocks, anchor, t, path, j)]
<1>2. path = e
  BY <1>1 DEF PathUpTo
<1>3. e[n] = PathStep(blocks, anchor, t, path, n)
  OBVIOUS
<1> HIDE DEF e
<1>4. path[n] = PathStep(blocks, anchor, t, path, n)
  BY <1>2, <1>3
<1> QED BY <1>4 DEF path

\* A path that starts on a chain stays on it.
LEMMA PathOnChain ==
  ASSUME NEW chain \in Chains, NEW blocks, NEW anchor, NEW t \in Threads,
         anchor = None \/ (anchor \in Blocks /\ chain[BlockSlot[anchor]] = anchor),
         NEW target \in Blocks, ReachableViaParents(blocks, anchor, target, t)
  PROVE  chain[BlockSlot[target]] = target
<1> DEFINE path == ParentPath(blocks, anchor, t)
           On(k) == k = None \/ (k \in Blocks /\ chain[BlockSlot[k]] = k)
           T == {n \in Nat : n <= ReachBound /\ ~On(path[n])}
<1>0. ReachBound \in Nat
  BY ArbiterAssumption
<1>1. \A n \in 0 .. ReachBound : path[n] = PathStep(blocks, anchor, t, path, n)
  BY PathSteps
<1> HIDE DEF path
<1>2. ASSUME NEW k, On(k), k # None
      PROVE  On(Parents[k][t])
  <2>1. k \in Blocks /\ BlockSlot[k] \in Slots /\ chain[BlockSlot[k]] = k
    BY <1>2, StoreAssumption
  <2>2. k # Miss /\ Parents[k][t] \in Blocks \cup {None}
    BY <2>1, StoreAssumption
  <2>3. Parents[k][t] # None => chain[BlockSlot[Parents[k][t]]] = Parents[k][t]
    BY <2>1, <2>2, ChainAssumption DEF IsChain
  <2> QED BY <2>2, <2>3
<1>3. T = {}
  <2> SUFFICES ASSUME T # {} PROVE FALSE
    OBVIOUS
  <2>1. PICK m \in T : \A k \in T : m <= k
    <3>1. T \in SUBSET Nat
      OBVIOUS
    <3> HIDE DEF T
    <3> QED BY <3>1, LeastNumber
  <2>2. m \in Nat /\ m <= ReachBound /\ ~On(path[m])
    OBVIOUS
  <2>3. path[m] = PathStep(blocks, anchor, t, path, m)
    BY <1>0, <1>1, <2>2
  <2>4. CASE m = 0
    BY <2>2, <2>3, <2>4 DEF PathStep
  <2>5. CASE m # 0
    <3>1. m - 1 \in Nat /\ m - 1 <= ReachBound /\ ~(m <= m - 1)
      BY <1>0, <2>2, <2>5
    <3>2. On(path[m - 1])
      BY <2>1, <3>1
    <3> HIDE DEF On
    <3>3. path[m] = None \/ (path[m - 1] # None /\ path[m] = Parents[path[m - 1]][t])
      BY <2>3, <2>5 DEF PathStep
    <3>4. On(None)
      BY DEF On
    <3> QED BY <1>2, <2>2, <3>2, <3>3, <3>4
  <2> QED BY <2>4, <2>5
<1>4. PICK n \in 0 .. (ReachBound - 1) : path[n] = target
  BY DEF ReachableViaParents, path
<1>5. n \in Nat /\ n <= ReachBound
  BY <1>0
<1>6. On(target)
  BY <1>3, <1>4, <1>5
<1> QED BY <1>6, StoreAssumption

-----------------------------------------------------------------------------
(* The rows around a slot. *)

\* A FINAL row names a block of its slot, or the miss.
LEMMA FinalRow ==
  ASSUME StoryInv, NEW s \in Slots, IsFinal(row, s)
  PROVE  /\ VerdictOf(row[s]) \in Verdicts
         /\ IsFinalBlock(row, s) <=> VerdictOf(row[s]) # Miss
         /\ VerdictOf(row[s]) # Miss =>
              /\ row[s].final = VerdictOf(row[s]) /\ VerdictOf(row[s]) \in Blocks
              /\ BlockSlot[VerdictOf(row[s])] = s
<1>1. row[s] # None /\ row[s] \in SlotRow /\ row[s].status = "Final" /\ RowShape(row[s], s)
  BY DEF StoryInv, TypeOK, VerdictShape, IsFinal
<1>2. row[s].final \in Blocks \cup {None} /\ row[s].is_miss \in BOOLEAN
  BY <1>1 DEF SlotRow
<1> QED BY <1>1, <1>2, StoreAssumption DEF VerdictOf, IsFinalBlock, IsFinal, RowShape, Verdicts

\* The periods the scans find are those of FINAL blocks on their side of s.
LEMMA ScanFacts ==
  ASSUME NEW s \in Slots
  PROVE  /\ s[1] \in Nat /\ s[1] <= MaxPeriod /\ s[2] \in Threads
         /\ LaterFinals(row, s) \in SUBSET (0 .. MaxPeriod)
         /\ EarlierFinals(row, s) \in SUBSET (0 .. MaxPeriod)
         /\ \A p \in LaterFinals(row, s) :
              s[1] < p /\ <<p, s[2]>> \in Slots /\ IsFinalBlock(row, <<p, s[2]>>)
         /\ \A p \in EarlierFinals(row, s) :
              p < s[1] /\ <<p, s[2]>> \in Slots /\ IsFinalBlock(row, <<p, s[2]>>)
         /\ \A p \in LaterFinals(row, s), x \in Nat :
              s[1] < x /\ x < p => x \in LaterFinals(row, s) \/ ~IsFinalBlock(row, <<x, s[2]>>)
<1>1. s[1] \in Nat /\ s[1] <= MaxPeriod /\ s[2] \in Threads /\ Lookaround \in Nat /\ MaxPeriod \in Nat
  BY StoreAssumption, ArbiterAssumption DEF Slots
<1>2. LaterFinals(row, s) \in SUBSET (0 .. MaxPeriod)
      /\ \A p \in LaterFinals(row, s) :
              s[1] < p /\ p <= s[1] + Lookaround /\ IsFinalBlock(row, <<p, s[2]>>)
  BY <1>1 DEF LaterFinals
<1>3. EarlierFinals(row, s) \in SUBSET (0 .. MaxPeriod)
      /\ \A p \in EarlierFinals(row, s) : p < s[1] /\ IsFinalBlock(row, <<p, s[2]>>)
  BY <1>1 DEF EarlierFinals
<1>4. \A p \in 0 .. MaxPeriod : <<p, s[2]>> \in Slots
  BY <1>1 DEF Slots
<1>5. ASSUME NEW p \in LaterFinals(row, s), NEW x \in Nat, s[1] < x, x < p,
             IsFinalBlock(row, <<x, s[2]>>)
      PROVE  x \in LaterFinals(row, s)
  <2>1. p \in 0 .. MaxPeriod /\ p <= s[1] + Lookaround
    BY <1>2
  <2>2. x \in (s[1] + 1) .. (s[1] + Lookaround) /\ x <= MaxPeriod
    BY <1>1, <1>5, <2>1
  <2> QED BY <1>5, <2>2 DEF LaterFinals
<1> QED BY <1>1, <1>2, <1>3, <1>4, <1>5

\* The FINAL block before s is a block of an earlier period of the thread.
LEMMA PrevFinalFacts ==
  ASSUME StoryInv, NEW s \in Slots, PrevFinalBlock(row, s) # None
  PROVE  /\ PrevFinalBlock(row, s) \in Blocks
         /\ BlockSlot[PrevFinalBlock(row, s)][1] < s[1]
<1> DEFINE E == EarlierFinals(row, s)
<1>1. E # {} /\ PrevFinalBlock(row, s) = FinalAt(row, s, Max(E))
  BY DEF PrevFinalBlock
<1>2. MaxPeriod \in Nat /\ E \in SUBSET (0 .. MaxPeriod)
  BY ScanFacts, StoreAssumption
<1>3. Max(E) \in E
  BY <1>1, <1>2, MaxOf
<1>4. Max(E) < s[1] /\ <<Max(E), s[2]>> \in Slots /\ IsFinalBlock(row, <<Max(E), s[2]>>)
  BY <1>3, ScanFacts
<1> DEFINE x == <<Max(E), s[2]>>
<1>5. PrevFinalBlock(row, s) = row[x].final
  BY <1>1 DEF FinalAt
<1>6. row[x].final \in Blocks /\ BlockSlot[row[x].final] = x
  <2>1. IsFinal(row, x)
    BY <1>4 DEF IsFinalBlock
  <2> QED BY <1>4, <2>1, FinalRow
<1> QED BY <1>4, <1>5, <1>6

-----------------------------------------------------------------------------
(* The rows after a slot are those of a chain. *)

\* The rows of the thread of s after s are the chain's, without a gap.
TrueAfter(chain, s) ==
  /\ IsFinal(row, s)
  /\ \A p \in (s[1] + 1) .. MaxPeriod : RowTrue(chain, <<p, s[2]>>)
  /\ NoGapAfter(s)

\* What a block that the rows finalised after s names as its parent.
ParentAfter(s, p) == Parents[FinalAt(row, s, p)][s[2]]

\* The block after s is the chain's, and so is its parent, which sits in period q; between
\* the two the chain has none.
LEMMA LaterOnChain ==
  ASSUME StoryInv, NEW chain \in Chains, NEW s \in Slots, TrueAfter(chain, s),
         NEW p \in LaterFinals(row, s)
  PROVE  /\ FinalAt(row, s, p) = chain[<<p, s[2]>>]
         /\ FinalAt(row, s, p) \in Blocks
         /\ \E q \in Nat :
              /\ q < p
              /\ <<q, s[2]>> \in Slots
              /\ ParentAfter(s, p) = chain[<<q, s[2]>>]
              /\ ParentAfter(s, p) \in Blocks
              /\ BlockSlot[ParentAfter(s, p)] = <<q, s[2]>>
              /\ \A x \in Nat : q < x /\ x < p => chain[<<x, s[2]>>] = Miss
<1> DEFINE u == <<p, s[2]>>
<1>1. /\ s[1] \in Nat /\ s[2] \in Threads /\ p \in 0 .. MaxPeriod /\ s[1] < p
      /\ u \in Slots /\ IsFinalBlock(row, u) /\ MaxPeriod \in Nat
  BY ScanFacts, StoreAssumption
<1>2. IsFinal(row, u) /\ VerdictOf(row[u]) # Miss
  <2>1. IsFinal(row, u)
    BY <1>1 DEF IsFinalBlock
  <2> QED BY <1>1, <2>1, FinalRow
<1>3. VerdictOf(row[u]) = chain[u]
  <2>1. p \in (s[1] + 1) .. MaxPeriod
    BY <1>1
  <2> QED BY <1>2, <2>1 DEF TrueAfter, RowTrue
<1>4. FinalAt(row, s, p) = chain[u] /\ chain[u] \in Blocks /\ chain[u] # Miss
  BY <1>1, <1>2, <1>3, FinalRow DEF FinalAt
<1>5. PICK q \in 0 .. (u[1] - 1) :
        IsPrevious(chain, u, q) /\ Parents[chain[u]][u[2]] = chain[<<q, u[2]>>]
  <2>1. u[1] > 0
    BY <1>1
  <2> QED BY <1>1, <1>4, <2>1, ChainAssumption DEF IsChain
<1>6. u[1] = p /\ u[2] = s[2]
  OBVIOUS
<1> HIDE DEF u
<1>7. q \in Nat /\ q < p /\ q <= MaxPeriod
  BY <1>1, <1>5, <1>6
<1> DEFINE v == <<q, s[2]>>
<1>8. v \in Slots
  BY <1>1, <1>7 DEF Slots
<1>9. chain[v] # Miss /\ \A x \in (q + 1) .. (p - 1) : chain[<<x, s[2]>>] = Miss
  BY <1>5, <1>6 DEF IsPrevious
<1>10. chain[v] \in Blocks
  BY <1>8, <1>9, ChainAssumption DEF Verdicts
<1>11. BlockSlot[chain[v]] = v
  BY <1>8, <1>9, ChainAssumption DEF IsChain
<1>12. ParentAfter(s, p) = chain[v]
  BY <1>4, <1>5, <1>6 DEF ParentAfter
<1>13. \A x \in Nat : q < x /\ x < p => chain[<<x, s[2]>>] = Miss
  BY <1>1, <1>7, <1>9
<1> QED BY <1>4, <1>7, <1>8, <1>10, <1>11, <1>12, <1>13 DEF u

\* Where the scan finds no block between s and p, the chain has none.
LEMMA MissBetween ==
  ASSUME StoryInv, NEW chain \in Chains, NEW s \in Slots, TrueAfter(chain, s),
         NEW p \in LaterFinals(row, s), NEW x \in Nat, s[1] < x, x < p,
         x \notin LaterFinals(row, s)
  PROVE  chain[<<x, s[2]>>] = Miss
<1> DEFINE u == <<x, s[2]>>
<1>1. /\ s[1] \in Nat /\ s[2] \in Threads /\ p \in 0 .. MaxPeriod /\ s[1] < p
      /\ IsFinalBlock(row, <<p, s[2]>>) /\ MaxPeriod \in Nat
      /\ ~IsFinalBlock(row, u)
  BY ScanFacts, StoreAssumption
<1>2. u \in Slots
  BY <1>1 DEF Slots
<1>3. IsFinal(row, u)
  <2>1. p \in s[1] .. MaxPeriod /\ x \in s[1] .. p
    BY <1>1
  <2>2. IsFinal(row, <<p, s[2]>>)
    BY <1>1 DEF IsFinalBlock
  <2> QED BY <2>1, <2>2 DEF TrueAfter, NoGapAfter
<1>4. VerdictOf(row[u]) = Miss
  BY <1>1, <1>2, <1>3, FinalRow
<1>5. x \in (s[1] + 1) .. MaxPeriod
  BY <1>1
<1> QED BY <1>3, <1>4, <1>5 DEF TrueAfter, RowTrue

\* The FINAL block the rows put before p, walking forward from s.
BlockBefore(s, local, p) ==
  LET q == {x \in LaterFinals(row, s) : x < p}
  IN  IF q = {} THEN IF local = Miss THEN PrevFinalBlock(row, s) ELSE local
                ELSE FinalAt(row, s, Max(q))

Broken(s, local) ==
  {p \in LaterFinals(row, s) : /\ block[FinalAt(row, s, p)] # None
                               /\ ParentAfter(s, p) # None
                               /\ ParentAfter(s, p) # BlockBefore(s, local, p)}

\* dead_fork_anchor in these words.
LEMMA AnchorOf ==
  ASSUME NEW s, NEW local
  PROVE  DeadForkAnchor(row, block, s, local)
           = IF Broken(s, local) = {} THEN None ELSE ParentAfter(s, Min(Broken(s, local)))
BY DEF DeadForkAnchor, Broken, BlockBefore, ParentAfter

\* The walk finds no broken link past the first block after s, nor at it if the row
\* of s holds the chain's block.
LEMMA BrokenFirst ==
  ASSUME StoryInv, NEW chain \in Chains, NEW s \in Slots, TrueAfter(chain, s),
         NEW local, NEW p \in Broken(s, local)
  PROVE  /\ \A x \in LaterFinals(row, s) : ~(x < p)
         /\ local = chain[s] => local = Miss
<1> DEFINE L == LaterFinals(row, s)
           B == {x \in L : x < p}
<1>1. p \in L /\ ParentAfter(s, p) # BlockBefore(s, local, p)
  BY DEF Broken
<1>2. PICK q \in Nat :
        /\ q < p
        /\ <<q, s[2]>> \in Slots
        /\ ParentAfter(s, p) = chain[<<q, s[2]>>]
        /\ ParentAfter(s, p) \in Blocks
        /\ BlockSlot[ParentAfter(s, p)] = <<q, s[2]>>
        /\ \A x \in Nat : q < x /\ x < p => chain[<<x, s[2]>>] = Miss
  <2>1. p \in LaterFinals(row, s)
    BY <1>1
  <2> QED BY <2>1, LaterOnChain
<1>3. s[1] \in Nat /\ L \in SUBSET (0 .. MaxPeriod) /\ MaxPeriod \in Nat /\ s[1] < p
      /\ \A x \in L : s[1] < x
  BY <1>1, ScanFacts, StoreAssumption
<1>4. chain[<<q, s[2]>>] # Miss
  BY <1>2, StoreAssumption
<1> HIDE DEF L
<1>5. B = {}
  <2> SUFFICES ASSUME B # {} PROVE FALSE
    OBVIOUS
  <2> DEFINE k == Max(B)
  <2>1. k \in B /\ \A x \in B : k >= x
    <3>1. B \in SUBSET (0 .. MaxPeriod)
      BY <1>3
    <3> HIDE DEF B
    <3> QED BY <1>3, <3>1, MaxOf
  <2>2. k \in L /\ k < p /\ k \in Nat /\ s[1] < k
    <3> HIDE DEF k
    <3>1. k \in L /\ k < p
      BY <2>1
    <3> QED BY <1>3, <3>1
  <2>3. BlockBefore(s, local, p) = FinalAt(row, s, k)
    BY DEF BlockBefore, L
  <2>4. FinalAt(row, s, k) = chain[<<k, s[2]>>] /\ FinalAt(row, s, k) \in Blocks
    BY <2>2, LaterOnChain DEF L
  <2> HIDE DEF k
  <2>5. ~(q < k)
    BY <1>2, <2>2, <2>4, StoreAssumption
  <2>6. ~(k < q)
    <3> SUFFICES ASSUME k < q PROVE FALSE
      OBVIOUS
    <3>1. q \notin L
      BY <1>2, <1>3, <2>1, <2>2
    <3>2. s[1] < q
      BY <1>2, <1>3, <2>2
    <3> QED BY <1>1, <1>2, <1>4, <3>1, <3>2, MissBetween DEF L
  <2>7. k = q
    BY <1>2, <2>2, <2>5, <2>6
  <2> QED BY <1>1, <1>2, <2>3, <2>4, <2>7
<1>6. ASSUME local = chain[s], local # Miss
      PROVE  FALSE
  <2>1. BlockBefore(s, local, p) = local
    BY <1>5, <1>6 DEF BlockBefore, L
  <2>2. s = <<s[1], s[2]>>
    BY DEF Slots
  <2>3. ~(q < s[1])
    BY <1>2, <1>3, <1>6, <2>2
  <2>4. ~(s[1] < q)
    <3> SUFFICES ASSUME s[1] < q PROVE FALSE
      OBVIOUS
    <3>1. q \notin L
      BY <1>2, <1>5
    <3> QED BY <1>1, <1>2, <1>4, <3>1, MissBetween DEF L
  <2>5. s[1] = q
    BY <1>2, <1>3, <2>3, <2>4
  <2> QED BY <1>1, <1>2, <1>6, <2>1, <2>2, <2>5
<1> QED BY <1>5, <1>6 DEF L

\* The block whose parent next_parent_link reads.
Held(s) == {p \in LaterFinals(row, s) : block[FinalAt(row, s, p)] # None}

LEMMA NextLinkOf ==
  ASSUME NEW s \in Slots, NextParentLink(row, block, s) # None
  PROVE  /\ Min(Held(s)) \in LaterFinals(row, s)
         /\ NextParentLink(row, block, s) = ParentAfter(s, Min(Held(s)))
<1>1. Held(s) # {} /\ NextParentLink(row, block, s) = ParentAfter(s, Min(Held(s)))
  BY DEF NextParentLink, Held, ParentAfter
<1>2. Held(s) \in SUBSET Nat
  BY ScanFacts, StoreAssumption DEF Held
<1>3. Min(Held(s)) \in Held(s)
  BY <1>1, <1>2, MinOf
<1> QED BY <1>1, <1>3 DEF Held

\* What the arbiter needs of a message.
LEMMA PeerVerdict ==
  ASSUME NEW m \in PeerPatches
  PROVE  /\ m.slot \in Slots /\ Named(m) \in Verdicts
         /\ Named(m) # Miss => Named(m) \in Blocks /\ BlockSlot[Named(m)] = m.slot
         /\ Named(m) # Miss <=> ~m.is_miss
         /\ ~m.is_miss => Named(m) = m.block
<1>1. m.slot \in Slots /\ Names(m)
  BY MessageFacts DEF PeerPatch
<1> QED BY <1>1, StoreAssumption DEF Names, Named, VerdictNamed, Verdicts

-----------------------------------------------------------------------------
(* The truth is kept. *)

\* A block of the chain has no dead parent while the FINAL rows are the chain's.
LEMMA NoDeadParent ==
  ASSUME StoryInv, NEW chain \in Chains, \A s \in Slots : RowTrue(chain, s),
         NEW s \in Slots, chain[s] # Miss
  PROVE  ~HasDeadParent(row, block, chain[s])
<1> SUFFICES ASSUME NEW t \in Threads,
                    Parents[chain[s]][t] # None,
                    IsFinal(row, BlockSlot[Parents[chain[s]][t]])
             PROVE  /\ ~row[BlockSlot[Parents[chain[s]][t]]].is_miss
                    /\ row[BlockSlot[Parents[chain[s]][t]]].final = Parents[chain[s]][t]
  BY DEF HasDeadParent
<1> DEFINE p == Parents[chain[s]][t]
           u == BlockSlot[p]
<1>1. chain[s] \in Blocks
  BY ChainAssumption DEF Verdicts
<1>2. p \in Blocks /\ u \in Slots
  BY <1>1, StoreAssumption
<1>3. chain[u] = p
  BY ChainAssumption DEF IsChain
<1> HIDE DEF p, u
<1>4. IsFinal(row, u) /\ VerdictOf(row[u]) = p
  BY <1>2, <1>3 DEF RowTrue, u, p
<1>5. row[u].final = p
  BY <1>2, <1>4, FinalRow, StoreAssumption
<1>6. ~row[u].is_miss
  BY <1>2, <1>4, StoreAssumption DEF VerdictOf
<1> QED BY <1>5, <1>6 DEF u, p

\* The next parent link of a true row speaks for no wrong peer.
LEMMA NoWrongLink ==
  ASSUME StoryInv, NEW chain \in Chains, NEW s \in Slots, TrueAfter(chain, s),
         VerdictOf(row[s]) = chain[s], NEW peer \in Verdicts, peer # chain[s],
         peer # Miss => BlockSlot[peer] = s,
         NextParentLink(row, block, s) # None
  PROVE  ImmediateLink(row, block, s, chain[s], peer, NextParentLink(row, block, s)) # "AdoptPeer"
<1> DEFINE next == NextParentLink(row, block, s)
           p == Min(Held(s))
<1>1. p \in LaterFinals(row, s) /\ next = ParentAfter(s, p)
  BY NextLinkOf
<1> HIDE DEF p
<1>2. PICK q \in Nat :
        /\ q < p
        /\ <<q, s[2]>> \in Slots
        /\ ParentAfter(s, p) = chain[<<q, s[2]>>]
        /\ ParentAfter(s, p) \in Blocks
        /\ BlockSlot[ParentAfter(s, p)] = <<q, s[2]>>
        /\ \A x \in Nat : q < x /\ x < p => chain[<<x, s[2]>>] = Miss
  BY <1>1, LaterOnChain
<1>3. s = <<s[1], s[2]>> /\ s[1] \in Nat /\ s[1] < p /\ p \in Nat
  <2>1. s = <<s[1], s[2]>>
    BY DEF Slots
  <2>2. s[1] \in Nat /\ s[1] < p /\ p \in 0 .. MaxPeriod /\ MaxPeriod \in Nat
    BY <1>1, ScanFacts, StoreAssumption
  <2> QED BY <2>1, <2>2
<1>4. next # peer \/ peer = Miss
  <2> SUFFICES ASSUME next = peer, peer # Miss PROVE FALSE
    OBVIOUS
  <2>1. s = <<q, s[2]>>
    BY <1>1, <1>2
  <2> QED BY <1>1, <1>2, <2>1
<1>5. ~(peer = Miss /\ PrevFinalBlock(row, s) = next)
  <2> SUFFICES ASSUME peer = Miss, PrevFinalBlock(row, s) = next PROVE FALSE
    OBVIOUS
  <2>1. BlockSlot[next][1] < s[1]
    BY PrevFinalFacts
  <2>2. BlockSlot[next] = <<q, s[2]>>
    BY <1>1, <1>2
  <2>3. q < s[1]
    BY <2>1, <2>2
  <2> QED BY <1>2, <1>3, <2>3
<1> HIDE DEF next
<1>6. next = NextParentLink(row, block, s)
  BY DEF next
<1>7. None # "AdoptPeer"
  BY ArbiterAssumption DEF Arbitrations
<1> QED BY <1>4, <1>5, <1>6, <1>7 DEF ImmediateLink

(***************************************************************************)
(* The walk of dead_fork_anchor may only find a broken link when the row   *)
(* of s is a miss and rows before s are missing; the anchor is then a      *)
(* block of the chain, and so is all that is reachable from it.            *)
(***************************************************************************)
LEMMA NoWrongAnchor ==
  ASSUME StoryInv, NEW chain \in Chains, NEW s \in Slots, TrueAfter(chain, s),
         VerdictOf(row[s]) = chain[s], NEW peer \in Verdicts, peer # chain[s],
         peer # Miss => BlockSlot[peer] = s,
         NEW anchor, anchor = DeadForkAnchor(row, block, s, chain[s]), anchor # None
  PROVE  ArbitrateInDeadFork(block, s, chain[s], peer, anchor) # "AdoptPeer"
<1> DEFINE B == Broken(s, chain[s])
           p == Min(B)
<1>1. B # {} /\ anchor = ParentAfter(s, p)
  BY AnchorOf
<1>2. p \in B /\ p \in LaterFinals(row, s)
  <2>1. B \in SUBSET LaterFinals(row, s)
    BY DEF Broken
  <2>2. LaterFinals(row, s) \in SUBSET Nat
    BY ScanFacts, StoreAssumption
  <2> HIDE DEF B
  <2>3. B \in SUBSET Nat
    BY <2>1, <2>2
  <2>4. p \in B
    BY <1>1, <2>3, MinOf
  <2> QED BY <2>1, <2>4
<1> HIDE DEF p
<1>3. chain[s] = Miss
  BY <1>2, BrokenFirst
<1>4. anchor \in Blocks /\ chain[BlockSlot[anchor]] = anchor
  <2>1. PICK q \in Nat :
          /\ q < p
          /\ <<q, s[2]>> \in Slots
          /\ ParentAfter(s, p) = chain[<<q, s[2]>>]
          /\ ParentAfter(s, p) \in Blocks
          /\ BlockSlot[ParentAfter(s, p)] = <<q, s[2]>>
          /\ \A x \in Nat : q < x /\ x < p => chain[<<x, s[2]>>] = Miss
    BY <1>2, LaterOnChain
  <2> QED BY <1>1, <2>1
<1>5. peer \in Blocks /\ BlockSlot[peer] = s /\ chain[BlockSlot[peer]] # peer /\ peer # Miss
  BY <1>3, StoreAssumption DEF Verdicts
<1>6. s[2] \in Threads
  BY ScanFacts
<1>7. ~ReachableViaParents(block, anchor, peer, s[2])
  BY <1>4, <1>5, <1>6, PathOnChain
<1>8. peer # anchor
  BY <1>4, <1>5
<1> QED BY <1>5, <1>7, <1>8 DEF ArbitrateInDeadFork

\* The rows decide for the truth.
LEMMA StoryKeepsTruth == StoryInv => TruthKept
<1> SUFFICES ASSUME StoryInv, NEW chain \in Chains, NEW m \in PeerPatches,
                    \A s \in Slots : RowTrue(chain, s),
                    IsFinal(row, m.slot), NoGapAfter(m.slot), Named(m) # chain[m.slot]
             PROVE  Answer(m) # "AdoptPeer"
  BY DEF TruthKept
<1> DEFINE s == m.slot
           peer == Named(m)
           next == NextParentLink(row, block, s)
           anchor == DeadForkAnchor(row, block, s, chain[s])
<1>1. s \in Slots /\ peer \in Verdicts /\ (peer # Miss => BlockSlot[peer] = s)
  BY PeerVerdict
<1>2. VerdictOf(row[s]) = chain[s]
  BY <1>1 DEF RowTrue
<1>3. TrueAfter(chain, s)
  <2>1. \A p \in (s[1] + 1) .. MaxPeriod : <<p, s[2]>> \in Slots
    BY <1>1, StoreAssumption DEF Slots
  <2> QED BY <2>1 DEF TrueAfter
<1>4. chain[s] # Miss => ~HasDeadParent(row, block, chain[s])
  BY <1>1, NoDeadParent
<1>5. next # None => ImmediateLink(row, block, s, chain[s], peer, next) # "AdoptPeer"
  BY <1>1, <1>2, <1>3, NoWrongLink
<1>6. anchor # None => ArbitrateInDeadFork(block, s, chain[s], peer, anchor) # "AdoptPeer"
  BY <1>1, <1>2, <1>3, NoWrongAnchor
<1>7. Answer(m) = Arbitrate(row, block, s, chain[s], peer, m.body)
  BY <1>2 DEF Answer
<1> HIDE DEF s, peer
<1> QED BY <1>4, <1>5, <1>6, <1>7 DEF Arbitrate

(***************************************************************************)
(* Whatever the writer was sent before: when its FINAL rows are those of   *)
(* the canonical chain and the rows after a slot have no gap, no peer      *)
(* talks it out of the truth at that slot (arbitrate_verdicts).            *)
(***************************************************************************)
THEOREM TruthKeptHolds == Spec => []TruthKept
BY StoryInit, StoryNext, StoryKeepsTruth, PTL DEF Spec

-----------------------------------------------------------------------------
(* A dead fork yields from its newest slot down. *)

LEMMA StoryYields == StoryInv => NewestDeadYields
<1> SUFFICES ASSUME StoryInv, NEW chain \in Chains, NEW m \in PeerPatches,
                    IsFinal(row, m.slot),
                    VerdictOf(row[m.slot]) # chain[m.slot],
                    Named(m) = chain[m.slot],
                    \A p \in (m.slot[1] + 1) .. MaxPeriod : RowTrue(chain, <<p, m.slot[2]>>),
                    NoGapAfter(m.slot),
                    LaterFinals(row, m.slot) # {},
                    block[FinalAt(row, m.slot, Min(LaterFinals(row, m.slot)))] # None,
                    ~m.is_miss => ~HasDeadParent(row, block, m.block)
             PROVE  Answer(m) = "AdoptPeer"
  BY DEF NewestDeadYields
<1> DEFINE s == m.slot
           local == VerdictOf(row[s])
           peer == Named(m)
           L == LaterFinals(row, s)
           p == Min(L)
           next == NextParentLink(row, block, s)
           anchor == DeadForkAnchor(row, block, s, local)
<1>1. /\ s \in Slots /\ peer \in Verdicts
      /\ peer # Miss => peer \in Blocks /\ BlockSlot[peer] = s
      /\ peer # Miss <=> ~m.is_miss
      /\ ~m.is_miss => peer = m.block
  BY PeerVerdict
<1>2. TrueAfter(chain, s)
  BY DEF TrueAfter
<1>3. /\ local \in Verdicts
      /\ local # Miss => local \in Blocks /\ BlockSlot[local] = s
  BY <1>1, FinalRow
<1>4. p \in L /\ \A x \in L : p <= x
  <2>1. L \in SUBSET Nat
    BY <1>1, ScanFacts, StoreAssumption
  <2> HIDE DEF L
  <2> QED BY <2>1, MinOf DEF L
<1>5. L \in SUBSET Nat /\ s[1] \in Nat /\ s[1] < p /\ s = <<s[1], s[2]>>
  <2>1. L \in SUBSET (0 .. MaxPeriod) /\ MaxPeriod \in Nat
    BY <1>1, ScanFacts, StoreAssumption
  <2>2. s[1] \in Nat /\ s[1] < p
    BY <1>1, <1>4, ScanFacts
  <2>3. s = <<s[1], s[2]>>
    BY <1>1 DEF Slots
  <2> HIDE DEF L, p, s
  <2> QED BY <2>1, <2>2, <2>3
<1>6. block[FinalAt(row, s, p)] # None
  OBVIOUS
<1>7. Min(Held(s)) = p /\ Held(s) # {}
  <2>1. p \in Held(s) /\ Held(s) \in SUBSET L
    BY <1>4, <1>6 DEF Held
  <2> HIDE DEF p, L
  <2>2. Held(s) \in SUBSET Nat
    BY <1>5, <2>1
  <2>3. Min(Held(s)) \in Held(s) /\ Min(Held(s)) <= p
    BY <2>1, <2>2, MinOf
  <2>4. p <= Min(Held(s)) /\ Min(Held(s)) \in Nat /\ p \in Nat
    BY <1>4, <1>5, <2>1, <2>3
  <2> QED BY <2>1, <2>3, <2>4
<1>8. next = ParentAfter(s, p)
  <2>1. next = IF Held(s) = {} THEN None ELSE ParentAfter(s, Min(Held(s)))
    BY DEF NextParentLink, Held, ParentAfter
  <2> QED BY <1>7, <2>1
<1> HIDE DEF p
<1>9. PICK q \in Nat :
        /\ q < p
        /\ <<q, s[2]>> \in Slots
        /\ ParentAfter(s, p) = chain[<<q, s[2]>>]
        /\ ParentAfter(s, p) \in Blocks
        /\ BlockSlot[ParentAfter(s, p)] = <<q, s[2]>>
        /\ \A x \in Nat : q < x /\ x < p => chain[<<x, s[2]>>] = Miss
  BY <1>1, <1>2, <1>4, LaterOnChain
<1>10. ~(s[1] < q)
  <2> SUFFICES ASSUME s[1] < q PROVE FALSE
    OBVIOUS
  <2>1. q \notin L
    BY <1>4, <1>5, <1>9
  <2>2. chain[<<q, s[2]>>] = Miss
    BY <1>1, <1>2, <1>4, <1>9, <2>1, MissBetween
  <2> QED BY <1>9, <2>2, StoreAssumption
<1> HIDE DEF s, L
<1>11. next # None
  BY <1>8, <1>9, StoreAssumption
<1>12. CASE peer # Miss
  <2>1. q = s[1]
    BY <1>5, <1>9, <1>10, <1>12 DEF s
  <2>2. next = peer
    BY <1>5, <1>8, <1>9, <2>1 DEF s
  <2>3. ImmediateLink(row, block, s, local, peer, next) = "AdoptPeer"
    BY <1>12, <2>2 DEF ImmediateLink
  <2>4. ~HasDeadParent(row, block, peer)
    BY <1>1, <1>12
  <2>5. local # peer
    BY DEF s
  <2>6. Answer(m) = Arbitrate(row, block, s, local, peer, m.body)
    BY DEF Answer, s
  <2> HIDE DEF next, peer, local
  <2>7. NextParentLink(row, block, s) = next
    BY DEF next
  <2> QED BY <1>11, <2>3, <2>4, <2>5, <2>6, <2>7 DEF Arbitrate
<1>13. CASE peer = Miss
  <2>1. local # Miss /\ local # peer
    BY <1>13 DEF s
  <2>2. q # s[1]
    BY <1>5, <1>9, <1>13, StoreAssumption DEF s
  <2>3. next # local
    <3> SUFFICES ASSUME next = local PROVE FALSE
      OBVIOUS
    <3>1. <<q, s[2]>> = <<s[1], s[2]>>
      BY <1>3, <1>5, <1>8, <1>9, <2>1
    <3> QED BY <2>2, <3>1
  <2>4. anchor # None
    <3>1. BlockBefore(s, local, p) = local
      <4>1. {x \in L : x < p} = {}
        BY <1>4, <1>5
      <4> QED BY <2>1, <4>1 DEF BlockBefore, L
    <3>2. p \in Broken(s, local)
      BY <1>4, <1>6, <1>8, <1>11, <2>3, <3>1 DEF Broken, L
    <3> DEFINE B == Broken(s, local)
    <3>3. Min(B) \in B
      <4>1. B \in SUBSET L
        BY DEF Broken, L
      <4> HIDE DEF B
      <4>2. B # {}
        BY <3>2 DEF B
      <4> QED BY <1>5, <4>1, <4>2, MinOf
    <3>4. ParentAfter(s, Min(B)) # None
      BY <3>3 DEF Broken
    <3>5. anchor = ParentAfter(s, Min(B))
      BY <3>2, AnchorOf
    <3> QED BY <3>4, <3>5
  <2>5. ArbitrateInDeadFork(block, s, local, peer, anchor) = "AdoptPeer"
    BY <1>13, <2>1 DEF ArbitrateInDeadFork
  <2>6. Answer(m) = Arbitrate(row, block, s, local, peer, m.body)
    BY DEF Answer, s
  <2> HIDE DEF next, peer, local, anchor
  <2>7. NextParentLink(row, block, s) = next /\ DeadForkAnchor(row, block, s, local) = anchor
    BY DEF next, anchor
  <2> QED BY <1>11, <1>13, <2>1, <2>4, <2>5, <2>6, <2>7 DEF Arbitrate
<1> QED BY <1>12, <1>13

(***************************************************************************)
(* Whatever the writer was sent before: a wrong verdict whose later rows   *)
(* are those of the canonical chain yields to a peer that holds the right  *)
(* one (arbitrate_verdicts), so a dead fork is repaired from its newest    *)
(* slot down.                                                              *)
(***************************************************************************)
THEOREM NewestDeadYieldsHolds == Spec => []NewestDeadYields
BY StoryInit, StoryNext, StoryYields, PTL DEF Spec
=============================================================================
