------------------------- MODULE ConvergenceProofs ---------------------------
(***************************************************************************)
(* Order independence, for every set of slots, blocks and messages whose   *)
(* FINAL sources agree with the chain.  The invariant says of every used   *)
(* slot that what its rows hold agrees with the chain, and of every message*)
(* delivered that its trace is still there.                                *)
(***************************************************************************)
EXTENDS SlotConvergence, SlotIngestProofs

-----------------------------------------------------------------------------
(* The invariant. *)

\* What the row r of a used slot s may say.
RowAgrees(s, r) ==
  /\ CandidateTrailsAgree(s) => r.trail \in {None, TrueTrail[s]}
  /\ r.status = "Final" => VerdictOf(r) = Truth[s] /\ r.trail \in {None, TrueTrail[s]}
  /\ r.exec_final => r.status = "Final" /\ (r.trail = TrueTrail[s] \/ TrailFromPeer(s))

\* Every stored block of s has the status the chain gives it.
StoredSettled(blocks, s) ==
  \A b \in Blocks : BlockSlot[b] = s /\ blocks[b] # None =>
    blocks[b] = IF b = Truth[s] THEN "Final" ELSE "Discarded"

SlotAgrees(s) ==
  row[s] # None =>
    /\ RowAgrees(s, row[s])
    /\ row[s].exec_final => events[s] = Truth[s] /\ StoredSettled(block, s)

\* The trace of a delivered message.
BlockTrace(b) == block[b] # None
ExecTrace(f) == row[f.slot] # None /\ row[f.slot].exec_final
PeerTrace(m) == IsFinal(row, m.slot) /\ row[m.slot].trail = TrueTrail[m.slot]
TransferTrace(f) ==
  /\ row[f.slot] # None /\ row[f.slot].transfers
  /\ <<"full", Truth[f.slot]>> \in transfers[f.slot]

SeenTold ==
  /\ \A b \in Blocks : <<"block", b>> \in seen => BlockTrace(b)
  /\ \A f \in ExecFrames :
       <<"exec", f>> \in seen /\ f.final /\ Truth[f.slot] # None => ExecTrace(f)
  /\ \A m \in PeerPatches :
       <<"peer", m>> \in seen /\ Truth[m.slot] # None /\ m.trail = TrueTrail[m.slot]
         => PeerTrace(m)
  /\ \A f \in TransferFrames :
       <<"transfers", f>> \in seen /\ Truth[f.slot] # None /\ ~ForcedAt(f.slot)
         => TransferTrace(f)

UsedAgree == \A s \in Slots : Truth[s] # None => SlotAgrees(s)

ConvergenceInv == StoryInv /\ UsedAgree /\ SeenTold

-----------------------------------------------------------------------------
(* One handler's step at slot s. *)

\* Nothing but slot s and its blocks is written, save the stub of a parent.
OnlyAt(s) ==
  /\ row'[s] # None
  /\ \A x \in Slots : x # s /\ row[x] # None => row'[x] = row[x]
  /\ \A x \in Slots : x # s /\ row[x] = None => row'[x] \in {None, FreshRow}
  /\ \A x \in Slots : x # s => events'[x] = events[x] /\ transfers'[x] = transfers[x]
  /\ \A b \in Blocks : BlockSlot[b] # s => block'[b] = block[b]
  /\ \A b \in Blocks : block[b] # None => block'[b] # None

\* The rows of s agree with the chain after the step, and nothing settled is lost.
Agrees(s) ==
  /\ RowAgrees(s, row'[s])
  /\ row'[s].exec_final => events'[s] = Truth[s] /\ StoredSettled(block', s)
  /\ row[s] # None =>
       /\ row[s].exec_final => row'[s].exec_final
       /\ row[s].status = "Final" =>
            row'[s].status = "Final" /\ row[s].trail \in {None, row'[s].trail}
       /\ row[s].transfers /\ ~ForcedAt(s) => row'[s].transfers
  /\ ~ForcedAt(s) /\ <<"full", Truth[s]>> \in transfers[s] =>
       <<"full", Truth[s]>> \in transfers'[s]

StepAt(s) == OnlyAt(s) /\ (Truth[s] # None => Agrees(s))

\* A fresh row says nothing.
LEMMA FreshAgrees ==
  ASSUME NEW s \in Slots, Truth[s] # None
  PROVE  RowAgrees(s, FreshRow) /\ ~FreshRow.exec_final
BY DEF RowAgrees, FreshRow

\* Such a step keeps every used slot in agreement.
LEMMA StepAgrees ==
  ASSUME ConvergenceInv, NEW s \in Slots, StepAt(s)
  PROVE  UsedAgree'
<1> SUFFICES ASSUME NEW x \in Slots, Truth[x] # None, row'[x] # None
             PROVE  /\ RowAgrees(x, row'[x])
                    /\ row'[x].exec_final => events'[x] = Truth[x] /\ StoredSettled(block', x)
  BY DEF UsedAgree, SlotAgrees
<1>1. CASE x = s
  BY <1>1 DEF StepAt, Agrees
<1>2. CASE x # s /\ row[x] = None
  <2>1. row'[x] = FreshRow
    BY <1>2 DEF StepAt, OnlyAt
  <2> QED BY <2>1, FreshAgrees
<1>3. CASE x # s /\ row[x] # None
  <2>1. row'[x] = row[x] /\ events'[x] = events[x]
    BY <1>3 DEF StepAt, OnlyAt
  <2>2. StoredSettled(block, x) => StoredSettled(block', x)
    BY <1>3 DEF StepAt, OnlyAt, StoredSettled
  <2>3. SlotAgrees(x)
    BY DEF ConvergenceInv, UsedAgree
  <2> QED BY <1>3, <2>1, <2>2, <2>3 DEF SlotAgrees
<1> QED BY <1>1, <1>2, <1>3

\* And it keeps the trace of every message delivered before.
LEMMA StepKeepsTraces ==
  ASSUME ConvergenceInv, NEW s \in Slots, StepAt(s)
  PROVE  /\ \A b \in Blocks : BlockTrace(b) => BlockTrace(b)'
         /\ \A f \in ExecFrames :
              Truth[f.slot] # None /\ ExecTrace(f) => ExecTrace(f)'
         /\ \A m \in PeerPatches :
              Truth[m.slot] # None /\ PeerTrace(m) => PeerTrace(m)'
         /\ \A f \in TransferFrames :
              Truth[f.slot] # None /\ ~ForcedAt(f.slot) /\ TransferTrace(f)
                => TransferTrace(f)'
<1>1. \A b \in Blocks : BlockTrace(b) => BlockTrace(b)'
  BY DEF BlockTrace, StepAt, OnlyAt
<1>2. ASSUME NEW f \in ExecFrames, Truth[f.slot] # None, ExecTrace(f)
      PROVE  ExecTrace(f)'
  <2>1. f.slot \in Slots
    BY MessageFacts DEF ExecFrame
  <2>2. CASE f.slot = s
    BY <1>2, <2>2 DEF ExecTrace, StepAt, OnlyAt, Agrees
  <2>3. CASE f.slot # s
    BY <1>2, <2>1, <2>3 DEF ExecTrace, StepAt, OnlyAt
  <2> QED BY <2>2, <2>3
<1>3. ASSUME NEW m \in PeerPatches, Truth[m.slot] # None, PeerTrace(m)
      PROVE  PeerTrace(m)'
  <2>1. m.slot \in Slots
    BY MessageFacts DEF PeerPatch
  <2>2. CASE m.slot = s
    <3>1. TrueTrail[s] # None
      BY <1>3, <2>2, TruthAssumption, StoreAssumption
    <3> QED BY <1>3, <2>2, <3>1 DEF PeerTrace, StepAt, OnlyAt, Agrees, IsFinal
  <2>3. CASE m.slot # s
    BY <1>3, <2>1, <2>3 DEF PeerTrace, StepAt, OnlyAt, IsFinal
  <2> QED BY <2>2, <2>3
<1>4. ASSUME NEW f \in TransferFrames, Truth[f.slot] # None, ~ForcedAt(f.slot), TransferTrace(f)
      PROVE  TransferTrace(f)'
  <2>1. f.slot \in Slots
    BY MessageFacts DEF TransferFrame
  <2>2. CASE f.slot = s
    BY <1>4, <2>2 DEF TransferTrace, StepAt, OnlyAt, Agrees
  <2>3. CASE f.slot # s
    BY <1>4, <2>1, <2>3 DEF TransferTrace, StepAt, OnlyAt
  <2> QED BY <2>2, <2>3
<1> QED BY <1>1, <1>2, <1>3, <1>4

\* The rows after a handler wrote q at s.
LEMMA RowsWritten ==
  ASSUME StoryInv, NEW s \in Slots, NEW q \in SlotRow, Written(s, q)
  PROVE  /\ row'[s] = q /\ q # None
         /\ \A x \in Slots : x # s /\ row[x] # None => row'[x] = row[x]
         /\ \A x \in Slots : x # s /\ row[x] = None => row'[x] \in {None, FreshRow}
<1>1. q # None
  BY AbsentAssumption
<1>2. /\ row'[s] = q
      /\ \A x \in Slots : x # s /\ row[x] # None => row'[x] = row[x]
      /\ \E p \in Slots : \A x \in Slots :
           x # s => row'[x] = IF x = p /\ row[x] = None THEN FreshRow ELSE row[x]
  BY RowsAfter DEF StoryInv
<1> QED BY <1>1, <1>2

\* apply_finality_to_blocks leaves the blocks of other slots alone, loses no row,
\* and leaves the blocks of a slot that has its true verdict as the chain says.
LEMMA SettledAgrees ==
  ASSUME StoryInv', NEW s \in Slots, NEW blocks \in Bodies,
         IsFinal(row', s),
         block' = SettleBlocks(blocks, row'[s].final, row'[s].candidates)
  PROVE  /\ \A b \in Blocks : BlockSlot[b] # s => block'[b] = blocks[b]
         /\ \A b \in Blocks : blocks[b] # None => block'[b] # None
         /\ VerdictOf(row'[s]) = Truth[s] => StoredSettled(block', s)
<1> DEFINE q == row'[s]
<1>1. q # None /\ q \in SlotRow /\ q.status = "Final" /\ RowShape(q, s)
  BY DEF StoryInv, TypeOK, VerdictShape, IsFinal
<1>2. \A b \in Blocks : BlockSlot[b] = s /\ block'[b] # None => b \in q.candidates
  BY DEF StoryInv, BlockStory, Told
<1> HIDE DEF q
<1>3. block' = SettleBlocks(blocks, q.final, q.candidates)
  BY DEF q
<1>4. \A b \in Blocks : BlockSlot[b] # s => block'[b] = blocks[b]
  <2> SUFFICES ASSUME NEW b \in Blocks, BlockSlot[b] # s
               PROVE  block'[b] = blocks[b]
    OBVIOUS
  <2>1. b # q.final /\ b \notin q.candidates
    BY <1>1, StoreAssumption DEF RowShape
  <2> QED BY <1>3, <2>1 DEF SettleBlocks
<1>5. \A b \in Blocks : blocks[b] # None => block'[b] # None
  BY <1>3, StoreAssumption DEF SettleBlocks, BlockStatus
<1>6. ASSUME VerdictOf(q) = Truth[s]
      PROVE  StoredSettled(block', s)
  <2> SUFFICES ASSUME NEW b \in Blocks, BlockSlot[b] = s, block'[b] # None
               PROVE  block'[b] = IF b = Truth[s] THEN "Final" ELSE "Discarded"
    BY DEF StoredSettled
  <2>1. b = q.final <=> b = Truth[s]
    BY <1>1, <1>6, StoreAssumption DEF VerdictOf, RowShape
  <2>2. blocks[b] # None /\ b \in q.candidates
    BY <1>2, <1>3 DEF SettleBlocks
  <2> QED BY <1>3, <2>1, <2>2 DEF SettleBlocks
<1> QED BY <1>4, <1>5, <1>6 DEF q

\* What the chain promises of a used slot.
LEMMA ChainPromise ==
  ASSUME NEW s \in Slots, Truth[s] # None
  PROVE  /\ TrueTrail[s] \in Trails /\ TrueTrail[s] # None
         /\ FinalSourcesAgree(s)
         /\ CandidateTrailsAgree(s) \/ PatchesCarryTrail(s)
         /\ \/ TrailFromPeer(s)
            \/ \A m \in PeerPatches : m.slot = s /\ m.exec => m.trail = TrueTrail[s]
BY TruthAssumption, AgreementAssumption, StoreAssumption

\* The row of s as a handler reads it.
LEMMA RowBefore ==
  ASSUME ConvergenceInv, NEW s \in Slots
  PROVE  /\ Row(s) \in SlotRow /\ RowShape(Row(s), s)
         /\ row[s] # None => Row(s) = row[s]
         /\ row[s] = None => Row(s) = FreshRow
         /\ Row(s).status = "Final" <=> IsFinal(row, s)
         /\ Truth[s] # None => RowAgrees(s, Row(s))
         /\ Truth[s] # None /\ Row(s).exec_final =>
              events[s] = Truth[s] /\ StoredSettled(block, s)
<1>1. Row(s) \in SlotRow /\ RowShape(Row(s), s)
  BY StoryAt DEF ConvergenceInv
<1>2. CASE row[s] = None
  <2>1. Row(s) = FreshRow
    BY <1>2 DEF Row, RowOrFresh
  <2>2. FreshRow.status # "Final" /\ ~IsFinal(row, s)
    BY <1>2 DEF FreshRow, IsFinal
  <2> QED BY <1>1, <1>2, <2>1, <2>2, FreshAgrees
<1>3. CASE row[s] # None
  <2>1. Row(s) = row[s]
    BY <1>3 DEF Row, RowOrFresh
  <2>2. Truth[s] # None => SlotAgrees(s)
    BY DEF ConvergenceInv, UsedAgree
  <2> QED BY <1>1, <1>3, <2>1, <2>2 DEF SlotAgrees, IsFinal
<1> QED BY <1>2, <1>3

-----------------------------------------------------------------------------
(* The handlers. *)

\* What a handler leaves alone at a used slot whose row keeps verdict and trail.
LEMMA QuietAgrees ==
  ASSUME ConvergenceInv, NEW s \in Slots, NEW q, Truth[s] # None,
         q.status = "Final" <=> Row(s).status = "Final",
         q.is_miss = Row(s).is_miss, q.final = Row(s).final, q.trail = Row(s).trail,
         q.exec_final = Row(s).exec_final
  PROVE  RowAgrees(s, q)
BY RowBefore DEF RowAgrees, VerdictOf

\* handle_block: a late body of a settled slot is settled at once.
LEMMA StepHandleBlock ==
  ASSUME ConvergenceInv, StoryInv', NEW b \in Blocks, HandleBlock(b)
  PROVE  StepAt(BlockSlot[b]) /\ BlockTrace(b)'
<1> DEFINE s == BlockSlot[b]
           r == Row(s)
           q == [r EXCEPT !.candidates = @ \cup {b},
                          !.body = TRUE,
                          !.status = IF @ = "Unknown" THEN "Candidate" ELSE @]
<1>1. s \in Slots
  BY StoreAssumption
<1>2. /\ r \in SlotRow /\ RowShape(r, s)
      /\ row[s] # None => r = row[s]
      /\ row[s] = None => r = FreshRow
      /\ Truth[s] # None => RowAgrees(s, r)
      /\ Truth[s] # None /\ r.exec_final => events[s] = Truth[s] /\ StoredSettled(block, s)
  BY <1>1, RowBefore
<1>3. /\ row' = StubParent([row EXCEPT ![s] = q], s)
      /\ block' = [block EXCEPT ![b] = Arrived(@, r, b)]
      /\ events' = events /\ transfers' = transfers
  BY DEF HandleBlock
<1>4. block \in Bodies
  BY DEF ConvergenceInv, StoryInv, TypeOK, Bodies
<1> HIDE DEF r, s
<1>5. /\ q \in SlotRow
      /\ q.status = "Final" <=> r.status = "Final"
      /\ q.is_miss = r.is_miss /\ q.final = r.final /\ q.trail = r.trail
      /\ q.exec_final = r.exec_final /\ q.transfers = r.transfers
  BY <1>2 DEF SlotRow, SlotStatus
<1> HIDE DEF q
<1>6. /\ row'[s] = q /\ q # None
      /\ \A x \in Slots : x # s /\ row[x] # None => row'[x] = row[x]
      /\ \A x \in Slots : x # s /\ row[x] = None => row'[x] \in {None, FreshRow}
  BY <1>1, <1>3, <1>5, RowsWritten DEF ConvergenceInv, Written
<1>7. block'[b] = Arrived(block[b], r, b) /\ \A c \in Blocks : c # b => block'[c] = block[c]
  BY <1>3, <1>4 DEF Bodies
<1>8. block'[b] # None
  BY <1>7, StoreAssumption DEF Arrived, ArrivalStatus, BlockStatus
<1>9. OnlyAt(s)
  BY <1>3, <1>6, <1>7, <1>8 DEF OnlyAt, s
<1>10. ASSUME Truth[s] # None
       PROVE  Agrees(s)
  <2>1. RowAgrees(s, q)
    BY <1>1, <1>5, <1>10, QuietAgrees DEF r
  <2>2. ASSUME q.exec_final
        PROVE  StoredSettled(block', s)
    <3>1. StoredSettled(block, s) /\ r.status = "Final" /\ VerdictOf(r) = Truth[s]
      BY <1>2, <1>5, <1>10, <2>2 DEF RowAgrees
    <3>2. r.final = b <=> b = Truth[s]
      BY <1>2, <3>1, StoreAssumption DEF VerdictOf, RowShape
    <3>3. block[b] # "SeenCandidate"
      BY <3>1, StoreAssumption DEF StoredSettled, s, BlockStatus
    <3>4. block'[b] = IF b = Truth[s] THEN "Final" ELSE "Discarded"
      <4>1. CASE block[b] = None
        BY <1>7, <3>1, <3>2, <4>1 DEF Arrived, ArrivalStatus
      <4>2. CASE block[b] # None
        BY <1>7, <3>1, <3>3, <4>2 DEF Arrived, StoredSettled, s
      <4> QED BY <4>1, <4>2
    <3> QED BY <1>7, <3>1, <3>4 DEF StoredSettled
  <2> QED BY <1>2, <1>3, <1>5, <1>6, <1>10, <2>1, <2>2 DEF Agrees
<1> QED BY <1>8, <1>9, <1>10 DEF StepAt, BlockTrace, s

\* handle_exec, CANDIDATE frame: an open slot has no FINAL output.
LEMMA StepHandleExecCandidate ==
  ASSUME ConvergenceInv, NEW f \in ExecFrames, HandleExecCandidate(f)
  PROVE  StepAt(f.slot)
<1> DEFINE s == f.slot
           r == Row(s)
           q == [r EXCEPT !.status = "Candidate",
                          !.trail = TrailOr(f.trail, @),
                          !.executed = FirstExecuted(@, ExecutedOps(f)),
                          !.exec_cand = TRUE]
<1>1. s \in Slots /\ f.trail \in Trails \cup {None}
  BY MessageFacts DEF ExecFrame
<1>2. /\ r \in SlotRow
      /\ row[s] # None => r = row[s]
      /\ Truth[s] # None => RowAgrees(s, r)
  BY <1>1, RowBefore
<1>3. /\ r.status # "Final"
      /\ row' = [row EXCEPT ![s] = q]
      /\ events' = [events EXCEPT ![s] = FrameVerdict(f)]
      /\ block' = block /\ transfers' = transfers
  BY DEF HandleExecCandidate, Open
<1> HIDE DEF r
<1>4. q \in SlotRow /\ q.status = "Candidate" /\ q.trail = TrailOr(f.trail, r.trail)
      /\ q.exec_final = r.exec_final /\ q.transfers = r.transfers
  <2>1. r.trail \in Trails \cup {None} /\ r.executed \in SUBSET Ops /\ ExecutedOps(f) \in SUBSET Ops
    BY <1>2 DEF SlotRow, ExecutedOps
  <2>2. TrailOr(f.trail, r.trail) \in Trails \cup {None}
        /\ FirstExecuted(r.executed, ExecutedOps(f)) \in SUBSET Ops
    BY <1>1, <2>1, TrailOrType, FirstExecutedType
  <2> QED BY <1>2, <2>2 DEF SlotRow, SlotStatus
<1> HIDE DEF q
<1>5. /\ row'[s] = q /\ q # None
      /\ \A x \in Slots : x # s /\ row[x] # None => row'[x] = row[x]
      /\ \A x \in Slots : x # s /\ row[x] = None => row'[x] \in {None, FreshRow}
  BY <1>1, <1>3, <1>4, RowsWritten DEF ConvergenceInv, Written
<1>6. OnlyAt(s)
  BY <1>3, <1>5 DEF OnlyAt, ConvergenceInv, StoryInv, TypeOK
<1>7. ASSUME Truth[s] # None
      PROVE  Agrees(s)
  <2>1. ~r.exec_final
    BY <1>2, <1>3, <1>7 DEF RowAgrees
  <2>2. CandidateTrailsAgree(s) => q.trail \in {None, TrueTrail[s]}
    BY <1>2, <1>4, <1>7 DEF RowAgrees, CandidateTrailsAgree, TrailOr
  <2> QED BY <1>2, <1>3, <1>4, <1>5, <2>1, <2>2 DEF Agrees, RowAgrees
<1> QED BY <1>6, <1>7 DEF StepAt

\* handle_exec, first FINAL frame.
LEMMA StepHandleExecFinal ==
  ASSUME ConvergenceInv, StoryInv', NEW f \in ExecFrames, HandleExecFinal(f)
  PROVE  StepAt(f.slot) /\ ExecTrace(f)'
<1> DEFINE s == f.slot
           r == Row(s)
           q == [r EXCEPT !.status = "Final",
                          !.is_miss = f.block = None,
                          !.final = IF f.block = None THEN @ ELSE f.block,
                          !.trail = TrailOr(f.trail, @),
                          !.executed = FirstExecuted(@, ExecutedOps(f)),
                          !.exec_final = TRUE]
<1>1. s \in Slots /\ f.trail \in Trails \cup {None} /\ f.block \in Blocks \cup {None}
  BY MessageFacts DEF ExecFrame
<1>2. /\ r \in SlotRow
      /\ row[s] # None => r = row[s]
  BY <1>1, RowBefore
<1>3. /\ f.final
      /\ r.status # "Final"
      /\ row' = StubParent([row EXCEPT ![s] = q], s)
      /\ block' = SettleBlocks(block, q.final, q.candidates)
      /\ events' = [events EXCEPT ![s] = FrameVerdict(f)]
      /\ transfers' = transfers
  BY DEF HandleExecFinal, Open
<1> HIDE DEF r
<1>4. /\ q \in SlotRow /\ q.status = "Final" /\ q.trail = TrailOr(f.trail, r.trail)
      /\ q.is_miss = (f.block = None) /\ (f.block # None => q.final = f.block)
      /\ q.exec_final /\ q.transfers = r.transfers
  <2>1. r.trail \in Trails \cup {None} /\ r.executed \in SUBSET Ops /\ ExecutedOps(f) \in SUBSET Ops
    BY <1>2 DEF SlotRow, ExecutedOps
  <2>2. TrailOr(f.trail, r.trail) \in Trails \cup {None}
        /\ FirstExecuted(r.executed, ExecutedOps(f)) \in SUBSET Ops
    BY <1>1, <2>1, TrailOrType, FirstExecutedType
  <2> QED BY <1>1, <1>2, <2>2 DEF SlotRow, SlotStatus
<1> HIDE DEF q
<1>5. /\ row'[s] = q /\ q # None
      /\ \A x \in Slots : x # s /\ row[x] # None => row'[x] = row[x]
      /\ \A x \in Slots : x # s /\ row[x] = None => row'[x] \in {None, FreshRow}
  BY <1>1, <1>3, <1>4, RowsWritten DEF ConvergenceInv, Written
<1>6. block \in Bodies /\ IsFinal(row', s)
  BY <1>4, <1>5 DEF ConvergenceInv, StoryInv, TypeOK, Bodies, IsFinal
<1>7. /\ \A b \in Blocks : BlockSlot[b] # s => block'[b] = block[b]
      /\ \A b \in Blocks : block[b] # None => block'[b] # None
      /\ VerdictOf(q) = Truth[s] => StoredSettled(block', s)
  BY <1>1, <1>3, <1>5, <1>6, SettledAgrees
<1>8. OnlyAt(s)
  BY <1>3, <1>5, <1>7 DEF OnlyAt, ConvergenceInv, StoryInv, TypeOK
<1>9. events'[s] = FrameVerdict(f) /\ VerdictOf(q) = FrameVerdict(f)
  BY <1>1, <1>3, <1>4 DEF VerdictOf, FrameVerdict, ConvergenceInv, StoryInv, TypeOK
<1>10. ASSUME Truth[s] # None
       PROVE  Agrees(s)
  <2>1. FrameVerdict(f) = Truth[s] /\ f.trail = TrueTrail[s] /\ TrueTrail[s] # None
    BY <1>1, <1>3, <1>10, ChainPromise DEF FinalSourcesAgree
  <2>2. q.trail = TrueTrail[s]
    BY <1>4, <2>1 DEF TrailOr
  <2>3. RowAgrees(s, q)
    BY <1>4, <1>9, <2>1, <2>2 DEF RowAgrees
  <2> QED BY <1>2, <1>3, <1>4, <1>5, <1>7, <1>9, <2>1, <2>2, <2>3 DEF Agrees
<1> QED BY <1>4, <1>5, <1>8, <1>10 DEF StepAt, ExecTrace

\* complete_final_exec_from_node.
LEMMA StepCompleteFinalExec ==
  ASSUME ConvergenceInv, StoryInv', NEW f \in ExecFrames, CompleteFinalExec(f)
  PROVE  StepAt(f.slot) /\ ExecTrace(f)'
<1> DEFINE s == f.slot
           r == row[s]
           q == [r EXCEPT !.trail = TrailOr(@, f.trail),
                          !.executed = FirstExecuted(@, ExecutedOps(f)),
                          !.exec_final = TRUE]
<1>1. s \in Slots /\ f.trail \in Trails \cup {None}
  BY MessageFacts DEF ExecFrame
<1>2. /\ f.final /\ IsFinal(row, s) /\ VerdictOf(r) = FrameVerdict(f)
      /\ row' = [row EXCEPT ![s] = q]
      /\ block' = SettleBlocks(block, r.final, r.candidates)
      /\ events' = [events EXCEPT ![s] = FrameVerdict(f)]
      /\ transfers' = transfers
  BY DEF CompleteFinalExec
<1>3. r \in SlotRow /\ r.status = "Final" /\ (Truth[s] # None => RowAgrees(s, r))
  BY <1>1, <1>2, RowBefore DEF IsFinal
<1> HIDE DEF r
<1>4. /\ q \in SlotRow /\ q.status = "Final" /\ q.trail = TrailOr(r.trail, f.trail)
      /\ q.is_miss = r.is_miss /\ q.final = r.final /\ q.candidates = r.candidates
      /\ q.exec_final /\ q.transfers = r.transfers
  <2>1. r.trail \in Trails \cup {None} /\ r.executed \in SUBSET Ops /\ ExecutedOps(f) \in SUBSET Ops
    BY <1>3 DEF SlotRow, ExecutedOps
  <2>2. TrailOr(r.trail, f.trail) \in Trails \cup {None}
        /\ FirstExecuted(r.executed, ExecutedOps(f)) \in SUBSET Ops
    BY <1>1, <2>1, TrailOrType, FirstExecutedType
  <2> QED BY <1>3, <2>2 DEF SlotRow
<1> HIDE DEF q
<1>5. /\ row'[s] = q /\ q # None
      /\ \A x \in Slots : x # s /\ row[x] # None => row'[x] = row[x]
      /\ \A x \in Slots : x # s /\ row[x] = None => row'[x] \in {None, FreshRow}
  BY <1>1, <1>2, <1>4, RowsWritten DEF ConvergenceInv, Written
<1>6. block \in Bodies /\ IsFinal(row', s)
  BY <1>4, <1>5 DEF ConvergenceInv, StoryInv, TypeOK, Bodies, IsFinal
<1>7. /\ \A b \in Blocks : BlockSlot[b] # s => block'[b] = block[b]
      /\ \A b \in Blocks : block[b] # None => block'[b] # None
      /\ VerdictOf(q) = Truth[s] => StoredSettled(block', s)
  BY <1>1, <1>2, <1>4, <1>5, <1>6, SettledAgrees
<1>8. OnlyAt(s)
  BY <1>2, <1>5, <1>7 DEF OnlyAt, ConvergenceInv, StoryInv, TypeOK
<1>9. events'[s] = FrameVerdict(f) /\ VerdictOf(q) = FrameVerdict(f)
  BY <1>1, <1>2, <1>4 DEF VerdictOf, ConvergenceInv, StoryInv, TypeOK
<1>10. ASSUME Truth[s] # None
       PROVE  Agrees(s)
  <2>1. FrameVerdict(f) = Truth[s] /\ f.trail = TrueTrail[s]
    BY <1>1, <1>2, <1>10, ChainPromise DEF FinalSourcesAgree
  <2>2. r.trail \in {None, TrueTrail[s]}
    BY <1>3, <1>10 DEF RowAgrees
  <2>3. q.trail = TrueTrail[s]
    BY <1>4, <2>1, <2>2 DEF TrailOr
  <2>4. RowAgrees(s, q)
    BY <1>4, <1>9, <2>1, <2>3 DEF RowAgrees
  <2> QED BY <1>2, <1>4, <1>5, <1>7, <1>9, <2>1, <2>2, <2>3, <2>4 DEF Agrees, r
<1> QED BY <1>4, <1>5, <1>8, <1>10 DEF StepAt, ExecTrace

\* A FINAL frame the writer ignores finds its output stored.
LEMMA IgnoredExec ==
  ASSUME ConvergenceInv, NEW f \in ExecFrames, f.final, IgnoresExec(f), Truth[f.slot] # None
  PROVE  ExecTrace(f)
<1>1. f.slot \in Slots
  BY MessageFacts DEF ExecFrame
<1>2. FrameVerdict(f) = Truth[f.slot] /\ f.trail = TrueTrail[f.slot]
  BY <1>1, ChainPromise DEF FinalSourcesAgree
<1>3. row[f.slot] # None /\ RowAgrees(f.slot, row[f.slot]) /\ row[f.slot].status = "Final"
  BY <1>1, RowBefore DEF IgnoresExec, IsFinal
<1> QED BY <1>2, <1>3 DEF IgnoresExec, ExecTrace, RowAgrees, TrailClash

\* handle_transfers.
LEMMA StepHandleTransfers ==
  ASSUME ConvergenceInv, NEW f \in TransferFrames, HandleTransfers(f)
  PROVE  StepAt(f.slot) /\ (Truth[f.slot] # None => TransferTrace(f)')
<1> DEFINE s == f.slot
           r == Row(s)
           q == [r EXCEPT !.transfers = TRUE]
<1>1. s \in Slots
  BY MessageFacts DEF TransferFrame
<1>2. /\ r \in SlotRow
      /\ row[s] # None => r = row[s]
      /\ row[s] = None => r = FreshRow
      /\ Truth[s] # None /\ r.exec_final => events[s] = Truth[s] /\ StoredSettled(block, s)
  BY <1>1, RowBefore
<1>3. /\ row' = [row EXCEPT ![s] = q]
      /\ transfers' = [transfers EXCEPT ![s] = {<<"full", f.verdict>>}]
      /\ block' = block /\ events' = events
  BY DEF HandleTransfers
<1> HIDE DEF r
<1>4. /\ q \in SlotRow /\ q.status = r.status /\ q.is_miss = r.is_miss /\ q.final = r.final
      /\ q.trail = r.trail /\ q.exec_final = r.exec_final /\ q.transfers
  BY <1>2 DEF SlotRow
<1> HIDE DEF q
<1>5. /\ row'[s] = q /\ q # None
      /\ \A x \in Slots : x # s /\ row[x] # None => row'[x] = row[x]
      /\ \A x \in Slots : x # s /\ row[x] = None => row'[x] \in {None, FreshRow}
  BY <1>1, <1>3, <1>4, RowsWritten DEF ConvergenceInv, Written
<1>6. OnlyAt(s)
  BY <1>3, <1>5 DEF OnlyAt, ConvergenceInv, StoryInv, TypeOK
<1>7. ASSUME Truth[s] # None
      PROVE  Agrees(s) /\ TransferTrace(f)'
  <2>1. RowAgrees(s, q)
    BY <1>1, <1>4, <1>7, QuietAgrees DEF r
  <2>2. f.verdict = Truth[s]
    BY <1>1, <1>7, ChainPromise DEF FinalSourcesAgree
  <2>3. transfers'[s] = {<<"full", Truth[s]>>}
    BY <1>1, <1>3, <2>2 DEF ConvergenceInv, StoryInv, TypeOK
  <2>4. TransferTrace(f)'
    BY <1>4, <1>5, <2>3 DEF TransferTrace
  <2>5. Agrees(s)
    BY <1>2, <1>3, <1>4, <1>5, <1>7, <2>1, <2>3 DEF Agrees
  <2> QED BY <2>4, <2>5
<1> QED BY <1>6, <1>7 DEF StepAt

\* The rows m.slot has after the verdict step of apply_peer_patch, at a used slot.
VerdictStepAgrees(m, r, evs, lists) ==
  /\ evs = events /\ lists = transfers
  /\ row[m.slot] # None =>
       /\ row[m.slot].exec_final = r.exec_final
       /\ row[m.slot].transfers = r.transfers
       /\ row[m.slot].status = "Final" => row[m.slot].trail \in {None, r.trail}
  /\ row[m.slot] = None => ~r.exec_final
  /\ r.trail \in {None, TrueTrail[m.slot]}
  /\ m.trail = TrueTrail[m.slot] => r.trail = TrueTrail[m.slot]
  /\ r.exec_final => r.trail = TrueTrail[m.slot] \/ TrailFromPeer(m.slot)

\* apply_peer_patch once the row r carries the verdict of the peer.
LEMMA StepApplyParts ==
  ASSUME ConvergenceInv, StoryInv', NEW m \in PeerPatches, NEW r \in SlotRow,
         NEW blocks \in Bodies,
         NEW evs \in [Slots -> Verdicts \cup {None}],
         NEW lists \in [Slots -> SUBSET TransferLists],
         ApplyParts(m, r, blocks, evs, lists),
         r.status = "Final", VerdictOf(r) = Named(m),
         OthersKept(block, blocks, m.slot),
         \A b \in Blocks : block[b] # None => blocks[b] # None,
         \A x \in Slots : x # m.slot => evs[x] = events[x] /\ lists[x] = transfers[x],
         Truth[m.slot] # None => VerdictStepAgrees(m, r, evs, lists)
  PROVE  /\ StepAt(m.slot)
         /\ Truth[m.slot] # None /\ m.trail = TrueTrail[m.slot] => PeerTrace(m)'
<1> DEFINE s == m.slot
           has_body == m.body /\ ~m.is_miss
           exec == m.exec /\ ~r.exec_final
           xfers == m.transfers /\ ~r.transfers
           shipped == IF has_body THEN ShipBlock(blocks, m.block, m.status) ELSE blocks
           q == [r EXCEPT !.candidates = IF has_body THEN @ \cup {m.block} ELSE @,
                          !.body = @ \/ has_body \/ m.is_miss,
                          !.executed = IF exec THEN FirstExecuted(@, m.executed) ELSE @,
                          !.exec_final = @ \/ exec,
                          !.transfers = @ \/ xfers]
<1>1. m \in PeerPatch /\ Names(m) /\ s \in Slots /\ m.status \in BlockStatus
      /\ m.exec \in BOOLEAN /\ m.transfers \in BOOLEAN
  BY MessageFacts DEF PeerPatch
<1>2. q \in SlotRow
  <2>1. ASSUME NEW c \in SUBSET Blocks, NEW b1 \in BOOLEAN, NEW e \in SUBSET Ops,
               NEW b2 \in BOOLEAN, NEW b3 \in BOOLEAN
        PROVE  [r EXCEPT !.candidates = c, !.body = b1, !.executed = e,
                         !.exec_final = b2, !.transfers = b3] \in SlotRow
    BY <2>1 DEF SlotRow
  <2>2. (IF has_body THEN r.candidates \cup {m.block} ELSE r.candidates) \in SUBSET Blocks
    BY <1>1 DEF SlotRow, Names
  <2>3. (IF exec THEN FirstExecuted(r.executed, m.executed) ELSE r.executed) \in SUBSET Ops
    <3>1. r.executed \in SUBSET Ops /\ m.executed \in SUBSET Ops
      BY <1>1 DEF SlotRow, PeerPatch
    <3> QED BY <3>1, FirstExecutedType
  <2> QED BY <2>1, <2>2, <2>3
<1>3. /\ q.status = r.status /\ q.is_miss = r.is_miss /\ q.final = r.final /\ q.trail = r.trail
      /\ q.exec_final = (r.exec_final \/ exec) /\ q.transfers = (r.transfers \/ xfers)
  BY DEF SlotRow
<1>4. /\ row' = StubParent([row EXCEPT ![s] = q], s)
      /\ block' = SettleBlocks(shipped, q.final, q.candidates)
      /\ events' = IF exec THEN [evs EXCEPT ![s] = Named(m)] ELSE evs
      /\ transfers' = IF xfers THEN [lists EXCEPT ![s] = {<<"full", Named(m)>>}]
                               ELSE lists
  BY DEF ApplyParts
<1> HIDE DEF q
<1>5. /\ row'[s] = q /\ q # None
      /\ \A x \in Slots : x # s /\ row[x] # None => row'[x] = row[x]
      /\ \A x \in Slots : x # s /\ row[x] = None => row'[x] \in {None, FreshRow}
  BY <1>1, <1>2, <1>4, RowsWritten DEF ConvergenceInv, Written
<1>6. shipped \in Bodies
  BY <1>1, ShipBlockType
<1>7. /\ \A b \in Blocks : BlockSlot[b] # s => shipped[b] = block[b]
      /\ \A b \in Blocks : block[b] # None => shipped[b] # None
  BY <1>1 DEF ShipBlock, Bodies, Names, OthersKept
<1> HIDE DEF shipped
<1>8. /\ \A b \in Blocks : BlockSlot[b] # s => block'[b] = shipped[b]
      /\ \A b \in Blocks : shipped[b] # None => block'[b] # None
      /\ VerdictOf(q) = Truth[s] => StoredSettled(block', s)
  BY <1>1, <1>3, <1>4, <1>5, <1>6, SettledAgrees DEF IsFinal
<1>9. OnlyAt(s)
  BY <1>4, <1>5, <1>7, <1>8 DEF OnlyAt
<1>10. ASSUME Truth[s] # None
       PROVE  Agrees(s)
  <2> USE <1>10 DEF VerdictStepAgrees
  <2>1. Named(m) = Truth[s] /\ VerdictOf(q) = Truth[s]
    <3>1. Named(m) = Truth[s]
      BY <1>1, <1>10, ChainPromise DEF FinalSourcesAgree
    <3> QED BY <1>3, <3>1 DEF VerdictOf
  <2>2. m.exec => r.trail = TrueTrail[s] \/ TrailFromPeer(s)
    BY <1>1, <1>10, ChainPromise
  <2>3. RowAgrees(s, q)
    BY <1>3, <1>10, <2>1, <2>2 DEF RowAgrees
  <2>4. q.exec_final => events'[s] = Truth[s]
    <3>1. CASE exec
      BY <1>1, <1>4, <2>1, <3>1 DEF ConvergenceInv, StoryInv, TypeOK
    <3>2. CASE ~exec /\ r.exec_final
      <4>1. row[s] # None /\ row[s].exec_final /\ events' = events
        BY <1>4, <3>2
      <4> QED BY <1>1, <1>10, <4>1, RowBefore
    <3> QED BY <1>3, <3>1, <3>2
  <2>5. <<"full", Truth[s]>> \in transfers[s] => <<"full", Truth[s]>> \in transfers'[s]
    BY <1>1, <1>4, <2>1 DEF ConvergenceInv, StoryInv, TypeOK
  <2> QED BY <1>3, <1>5, <1>8, <2>1, <2>3, <2>4, <2>5 DEF Agrees
<1> QED BY <1>3, <1>5, <1>9, <1>10 DEF StepAt, PeerTrace, IsFinal, VerdictStepAgrees

\* What a row that takes the verdict of m says.
LEMMA NamedVerdict ==
  ASSUME NEW m, NEW q, Names(m), q.is_miss = m.is_miss, ~m.is_miss => q.final = m.block
  PROVE  VerdictOf(q) = Named(m)
BY NamedStated

\* apply_peer_patch as first verdict.
LEMMA StepPromoteFromPeer ==
  ASSUME ConvergenceInv, StoryInv', NEW m \in PeerPatches, PromoteFromPeer(m)
  PROVE  /\ StepAt(m.slot)
         /\ Truth[m.slot] # None /\ m.trail = TrueTrail[m.slot] => PeerTrace(m)'
<1> DEFINE s == m.slot
           p == Promoted(Row(s), m)
           r == [p EXCEPT !.trail = TrailOr(m.trail, @)]
<1>1. s \in Slots /\ m.trail \in Trails \cup {None} /\ Names(m)
  BY MessageFacts DEF PeerPatch
<1>2. /\ Row(s) \in SlotRow
      /\ row[s] # None => Row(s) = row[s]
      /\ row[s] = None => Row(s) = FreshRow
      /\ Truth[s] # None => RowAgrees(s, Row(s))
  BY <1>1, RowBefore
<1>3. Row(s).status # "Final" /\ ApplyParts(m, r, block, events, transfers)
  BY DEF PromoteFromPeer, Open
<1>4. /\ p \in SlotRow /\ p.status = "Final" /\ p.is_miss = m.is_miss
      /\ ~m.is_miss => p.final = m.block
      /\ p.exec_final = Row(s).exec_final /\ p.transfers = Row(s).transfers
      /\ p.trail = Row(s).trail
  <2>1. p \in SlotRow
    BY <1>1, <1>2, PromotedType
  <2> QED BY <1>2, <2>1 DEF Promoted, SlotRow
<1> HIDE DEF p
<1>5. TrailOr(m.trail, p.trail) \in Trails \cup {None}
  BY <1>1, <1>4, TrailOrType DEF SlotRow
<1>6. /\ r \in SlotRow /\ r.status = p.status /\ r.is_miss = p.is_miss /\ r.final = p.final
      /\ r.exec_final = p.exec_final /\ r.transfers = p.transfers
      /\ r.trail = TrailOr(m.trail, p.trail)
  BY <1>4, <1>5 DEF SlotRow
<1> HIDE DEF r
<1>7. VerdictOf(r) = Named(m)
  BY <1>1, <1>4, <1>6, NamedVerdict
<1>8. ASSUME Truth[s] # None
      PROVE  VerdictStepAgrees(m, r, events, transfers)
  <2>1. /\ m.trail \in {None, TrueTrail[s]} /\ TrueTrail[s] # None
        /\ CandidateTrailsAgree(s) \/ m.trail = TrueTrail[s]
    BY <1>1, <1>8, ChainPromise DEF FinalSourcesAgree, PatchesCarryTrail
  <2>2. /\ CandidateTrailsAgree(s) => Row(s).trail \in {None, TrueTrail[s]}
        /\ ~Row(s).exec_final
    BY <1>2, <1>3, <1>8 DEF RowAgrees
  <2>3. r.trail \in {None, TrueTrail[s]} /\ (m.trail = TrueTrail[s] => r.trail = TrueTrail[s])
    BY <1>4, <1>6, <2>1, <2>2 DEF TrailOr
  <2> QED BY <1>2, <1>3, <1>4, <1>6, <2>2, <2>3 DEF VerdictStepAgrees
<1>9. /\ block \in Bodies /\ events \in [Slots -> Verdicts \cup {None}]
      /\ transfers \in [Slots -> SUBSET TransferLists] /\ OthersKept(block, block, s)
  BY DEF ConvergenceInv, StoryInv, TypeOK, Bodies, OthersKept
<1> QED BY <1>3, <1>4, <1>6, <1>7, <1>8, <1>9, StepApplyParts

\* apply_peer_patch on a slot with the peer's verdict.
LEMMA StepCompleteFromPeer ==
  ASSUME ConvergenceInv, StoryInv', NEW m \in PeerPatches, CompleteFromPeer(m)
  PROVE  /\ StepAt(m.slot)
         /\ Truth[m.slot] # None /\ m.trail = TrueTrail[m.slot] => PeerTrace(m)'
<1> DEFINE s == m.slot
           p == row[s]
           r == [p EXCEPT !.trail = TrailOr(@, m.trail)]
<1>1. s \in Slots /\ m.trail \in Trails \cup {None}
  BY MessageFacts DEF PeerPatch
<1>2. /\ p # None /\ p.status = "Final" /\ VerdictOf(p) = Named(m)
      /\ ApplyParts(m, r, block, events, transfers)
  BY DEF CompleteFromPeer, IsFinal
<1>3. p \in SlotRow /\ (Truth[s] # None => RowAgrees(s, p))
  BY <1>1, <1>2, RowBefore
<1> HIDE DEF p
<1>4. TrailOr(p.trail, m.trail) \in Trails \cup {None}
  BY <1>1, <1>3, TrailOrType DEF SlotRow
<1>5. /\ r \in SlotRow /\ r.status = p.status /\ r.is_miss = p.is_miss /\ r.final = p.final
      /\ r.exec_final = p.exec_final /\ r.transfers = p.transfers
      /\ r.trail = TrailOr(p.trail, m.trail)
  BY <1>3, <1>4 DEF SlotRow
<1> HIDE DEF r
<1>6. VerdictOf(r) = Named(m)
  BY <1>2, <1>5 DEF VerdictOf
<1>7. ASSUME Truth[s] # None
      PROVE  VerdictStepAgrees(m, r, events, transfers)
  <2>1. m.trail \in {None, TrueTrail[s]}
    BY <1>1, <1>7, ChainPromise DEF FinalSourcesAgree
  <2> QED BY <1>2, <1>3, <1>5, <1>7, <2>1 DEF VerdictStepAgrees, RowAgrees, TrailOr, p
<1>8. /\ block \in Bodies /\ events \in [Slots -> Verdicts \cup {None}]
      /\ transfers \in [Slots -> SUBSET TransferLists] /\ OthersKept(block, block, s)
  BY DEF ConvergenceInv, StoryInv, TypeOK, Bodies, OthersKept
<1> QED BY <1>2, <1>5, <1>6, <1>7, <1>8, StepApplyParts

\* A patch never overrules the verdict of a used slot: both are the chain's.
LEMMA NoRepair ==
  ASSUME ConvergenceInv, NEW m \in PeerPatches, Truth[m.slot] # None, IsFinal(row, m.slot)
  PROVE  VerdictOf(row[m.slot]) = Named(m)
<1>1. m.slot \in Slots
  BY MessageFacts DEF PeerPatch
<1>2. Named(m) = Truth[m.slot]
  BY <1>1, ChainPromise DEF FinalSourcesAgree
<1> QED BY <1>1, <1>2, RowBefore DEF IsFinal, RowAgrees

\* No patch is ignored at a used slot.
LEMMA IgnoredPeer ==
  ASSUME ConvergenceInv, NEW m \in PeerPatches, IgnoresPeer(m), Truth[m.slot] # None
  PROVE  FALSE
<1>1. m.slot \in Slots
  BY MessageFacts DEF PeerPatch
<1>2. m.trail \in {None, TrueTrail[m.slot]}
  BY <1>1, ChainPromise DEF FinalSourcesAgree
<1>3. TrailClash(row[m.slot].trail, m.trail) /\ IsFinal(row, m.slot)
  BY NoRepair DEF IgnoresPeer
<1>4. row[m.slot].trail \in {None, TrueTrail[m.slot]}
  BY <1>1, <1>3, RowBefore DEF IsFinal, RowAgrees
<1> QED BY <1>2, <1>3, <1>4 DEF TrailClash

\* apply_peer_patch when the arbiter sides with the peer: not at a used slot.
LEMMA StepRepairFromPeer ==
  ASSUME ConvergenceInv, StoryInv', NEW m \in PeerPatches, RepairFromPeer(m)
  PROVE  StepAt(m.slot) /\ Truth[m.slot] = None
<1> DEFINE s == m.slot
           p == row[s]
           r == Adopted(p, m)
           blocks == Superseded(block, p)
           evs == [events EXCEPT ![s] = None]
           lists == [transfers EXCEPT ![s] = {}]
<1>1. s \in Slots /\ m.trail \in Trails \cup {None} /\ Names(m)
  BY MessageFacts DEF PeerPatch
<1>2. /\ p # None /\ p.status = "Final" /\ IsFinal(row, s)
      /\ Arbitrate(row, block, s, VerdictOf(p), Named(m), m.body) = "AdoptPeer"
      /\ ApplyParts(m, r, blocks, evs, lists)
  BY DEF RepairFromPeer, IsFinal
<1>3. Truth[s] = None
  BY <1>2, NoRepair, ArbiterSidesWithOther
<1>4. p \in SlotRow /\ RowShape(p, s)
  BY <1>1, <1>2, RowBefore
<1> HIDE DEF p
<1>5. /\ r \in SlotRow /\ r.status = "Final" /\ r.is_miss = m.is_miss /\ r.final = m.block
  <2>1. r \in SlotRow
    BY <1>1, <1>4, AdoptedType
  <2> QED BY <1>2, <1>4, <2>1 DEF Adopted, SlotRow
<1>6. VerdictOf(r) = Named(m)
  BY <1>1, <1>5, NamedVerdict
<1>7. blocks \in Bodies /\ OthersKept(block, blocks, s)
  BY <1>1, <1>4, SupersededOthers DEF ConvergenceInv
<1>8. \A b \in Blocks : block[b] # None => blocks[b] # None
  BY StoreAssumption DEF Superseded, BlockStatus
<1>9. evs \in [Slots -> Verdicts \cup {None}] /\ lists \in [Slots -> SUBSET TransferLists]
      /\ \A x \in Slots : x # s => evs[x] = events[x] /\ lists[x] = transfers[x]
  BY DEF ConvergenceInv, StoryInv, TypeOK
<1> HIDE DEF r, blocks, evs, lists
<1> QED BY <1>2, <1>3, <1>5, <1>6, <1>7, <1>8, <1>9, StepApplyParts

\* apply_legacy_patch: it defers the settlement of an open slot only.
LEMMA StepApplyLegacyPatch ==
  ASSUME ConvergenceInv, StoryInv', NEW m \in LegacyPatches, ApplyLegacyPatch(m)
  PROVE  StepAt(m.slot)
<1> DEFINE s == m.slot
           r == Row(s)
           verdict == IF Open(r) THEN Promoted(r, m) ELSE r
           has_body == m.body /\ ~m.is_miss /\ ~r.body
           shipped == IF has_body THEN ShipBlock(block, m.block, "Final") ELSE block
           c == IF has_body THEN verdict.candidates \cup {m.block} ELSE verdict.candidates
           b1 == verdict.body \/ has_body \/ (m.is_miss /\ verdict.is_miss)
           e == FirstExecuted(verdict.executed, m.executed)
           q == [verdict EXCEPT !.candidates = c, !.body = b1, !.executed = e]
<1>1. m \in LegacyPatch /\ Names(m) /\ s \in Slots /\ LegacyAt(s)
  BY MessageFacts DEF LegacyPatch, LegacyAt
<1>2. /\ r \in SlotRow
      /\ row[s] # None => r = row[s]
      /\ row[s] = None => r = FreshRow
      /\ Truth[s] # None => RowAgrees(s, r)
      /\ Truth[s] # None /\ r.exec_final => events[s] = Truth[s] /\ StoredSettled(block, s)
  BY <1>1, RowBefore
<1>3. /\ row' = StubParent([row EXCEPT ![s] = q], s)
      /\ events' = events
      /\ transfers' = IF m.transfers
                        THEN [transfers EXCEPT ![s] = @ \cup {<<"legacy", Named(m)>>}]
                        ELSE transfers
      /\ block' = IF q.exec_final /\ q.body
                    THEN SettleBlocks(shipped, q.final, q.candidates)
                    ELSE shipped
  BY DEF ApplyLegacyPatch
<1>4. /\ verdict \in SlotRow /\ verdict.status = "Final"
      /\ r.status = "Final" => verdict = r
      /\ r.status # "Final" => verdict.is_miss = m.is_miss
      /\ r.status # "Final" /\ ~m.is_miss => verdict.final = m.block
      /\ verdict.exec_final = r.exec_final /\ verdict.transfers = r.transfers
      /\ verdict.trail = r.trail
  <2>1. /\ Promoted(r, m) \in SlotRow
        /\ Promoted(r, m).status = "Final" /\ Promoted(r, m).is_miss = m.is_miss
        /\ ~m.is_miss => Promoted(r, m).final = m.block
        /\ Promoted(r, m).exec_final = r.exec_final /\ Promoted(r, m).transfers = r.transfers
        /\ Promoted(r, m).trail = r.trail
    BY <1>1, <1>2, PromotedType DEF Promoted, SlotRow
  <2> QED BY <1>2, <2>1 DEF Open
<1> HIDE DEF verdict, r
<1>5. c \in SUBSET Blocks /\ b1 \in BOOLEAN /\ e \in SUBSET Ops
  <2>1. c \in SUBSET Blocks
    BY <1>1, <1>4 DEF SlotRow, Names
  <2>2. m.executed \in SUBSET Ops /\ verdict.executed \in SUBSET Ops
    BY <1>1, <1>4 DEF LegacyPatch, SlotRow
  <2> QED BY <2>1, <2>2, FirstExecutedType
<1>6. has_body => b1
  OBVIOUS
<1>7. /\ \A b \in Blocks : BlockSlot[b] # s => shipped[b] = block[b]
      /\ \A b \in Blocks : block[b] # None => shipped[b] # None
      /\ ~has_body => shipped = block
      /\ shipped \in Bodies
  <2>1. block \in Bodies /\ "Final" \in BlockStatus
    BY DEF ConvergenceInv, StoryInv, TypeOK, Bodies, BlockStatus
  <2>2. has_body => m.block \in Blocks /\ BlockSlot[m.block] = s
    BY <1>1 DEF Names
  <2> QED BY <2>1, <2>2, ShipBlockType DEF ShipBlock, Bodies
<1> HIDE DEF c, b1, e, has_body, shipped
<1>8. /\ q \in SlotRow /\ q.status = "Final" /\ q.is_miss = verdict.is_miss
      /\ q.final = verdict.final /\ q.trail = verdict.trail /\ q.body = b1
      /\ q.exec_final = verdict.exec_final /\ q.transfers = verdict.transfers
  BY <1>4, <1>5 DEF SlotRow
<1> HIDE DEF q
<1>9. /\ row'[s] = q /\ q # None
      /\ \A x \in Slots : x # s /\ row[x] # None => row'[x] = row[x]
      /\ \A x \in Slots : x # s /\ row[x] = None => row'[x] \in {None, FreshRow}
  BY <1>1, <1>3, <1>8, RowsWritten DEF ConvergenceInv, Written
<1>10. block' = SettleBlocks(shipped, q.final, q.candidates) =>
         /\ \A b \in Blocks : BlockSlot[b] # s => block'[b] = shipped[b]
         /\ \A b \in Blocks : shipped[b] # None => block'[b] # None
         /\ VerdictOf(q) = Truth[s] => StoredSettled(block', s)
  BY <1>1, <1>7, <1>8, <1>9, SettledAgrees DEF IsFinal
<1>11. OnlyAt(s)
  <2>1. \A x \in Slots : x # s => transfers'[x] = transfers[x]
    BY <1>3 DEF ConvergenceInv, StoryInv, TypeOK
  <2>2. /\ \A b \in Blocks : BlockSlot[b] # s => block'[b] = block[b]
        /\ \A b \in Blocks : block[b] # None => block'[b] # None
    BY <1>3, <1>7, <1>10
  <2> QED BY <1>3, <1>9, <2>1, <2>2 DEF OnlyAt
<1>12. ASSUME Truth[s] # None
       PROVE  Agrees(s)
  <2>1. Named(m) = Truth[s] /\ CandidateTrailsAgree(s)
    BY <1>1, <1>12, ChainPromise DEF FinalSourcesAgree, PatchesCarryTrail
  <2>2. VerdictOf(verdict) = Truth[s]
    <3>1. CASE r.status = "Final"
      BY <1>2, <1>4, <1>12, <3>1 DEF RowAgrees
    <3>2. CASE r.status # "Final"
      BY <1>1, <1>4, <2>1, <3>2, NamedVerdict
    <3> QED BY <3>1, <3>2
  <2>3. RowAgrees(s, q) /\ VerdictOf(q) = Truth[s]
    BY <1>2, <1>4, <1>8, <1>12, <2>1, <2>2 DEF RowAgrees, VerdictOf
  <2>4. ASSUME q.exec_final
        PROVE  events'[s] = Truth[s] /\ StoredSettled(block', s)
    <3>1. events'[s] = Truth[s] /\ StoredSettled(block, s)
      BY <1>2, <1>3, <1>4, <1>8, <1>12, <2>4
    <3>2. CASE q.body
      BY <1>3, <1>10, <2>3, <2>4, <3>1, <3>2
    <3>3. CASE ~q.body
      BY <1>3, <1>6, <1>7, <1>8, <3>1, <3>3
    <3> QED BY <3>2, <3>3
  <2>5. <<"full", Truth[s]>> \in transfers[s] => <<"full", Truth[s]>> \in transfers'[s]
    BY <1>1, <1>3 DEF ConvergenceInv, StoryInv, TypeOK
  <2> QED BY <1>2, <1>4, <1>8, <1>9, <2>3, <2>4, <2>5 DEF Agrees
<1> QED BY <1>11, <1>12 DEF StepAt

\* apply_forced_verdict: at a used slot it only settles an open one.
LEMMA StepApplyForcedVerdict ==
  ASSUME ConvergenceInv, StoryInv', NEW m \in ForcedVerdicts, ApplyForcedVerdict(m)
  PROVE  StepAt(m.slot)
<1> DEFINE s == m.slot
           r == Row(s)
           p == Adopted(r, m)
           q == [p EXCEPT !.status = "Final"]
           blocks == Superseded(block, r)
<1>1. s \in Slots /\ m.trail \in Trails \cup {None} /\ Names(m) /\ ForcedAt(s)
  BY MessageFacts DEF ForcedVerdict, ForcedAt
<1>2. /\ r \in SlotRow /\ RowShape(r, s)
      /\ row[s] # None => r = row[s]
      /\ row[s] = None => r = FreshRow
      /\ Truth[s] # None => RowAgrees(s, r)
  BY <1>1, RowBefore
<1>3. /\ ~(r.status = "Final" /\ VerdictOf(r) = Named(m))
      /\ row' = [row EXCEPT ![s] = q]
      /\ block' = SettleBlocks(blocks, q.final, q.candidates)
      /\ events' = [events EXCEPT ![s] = None]
      /\ transfers' = [transfers EXCEPT ![s] = {}]
  BY DEF ApplyForcedVerdict
<1> HIDE DEF r
<1>4. p \in SlotRow /\ p.is_miss = m.is_miss /\ p.final = m.block /\ ~p.exec_final
      /\ p.trail = m.trail
  <2>1. p \in SlotRow
    BY <1>1, <1>2, AdoptedType
  <2> QED BY <1>2, <2>1 DEF Adopted, SlotRow
<1> HIDE DEF p
<1>5. /\ q \in SlotRow /\ q.status = "Final" /\ q.is_miss = m.is_miss /\ q.final = m.block
      /\ ~q.exec_final /\ q.trail = m.trail
  BY <1>4 DEF SlotRow, SlotStatus
<1> HIDE DEF q
<1>6. VerdictOf(q) = Named(m)
  BY <1>1, <1>5, NamedVerdict
<1>7. /\ row'[s] = q /\ q # None
      /\ \A x \in Slots : x # s /\ row[x] # None => row'[x] = row[x]
      /\ \A x \in Slots : x # s /\ row[x] = None => row'[x] \in {None, FreshRow}
  BY <1>1, <1>3, <1>5, RowsWritten DEF ConvergenceInv, Written
<1>8. /\ blocks \in Bodies /\ OthersKept(block, blocks, s)
      /\ \A b \in Blocks : block[b] # None => blocks[b] # None
  BY <1>1, <1>2, SupersededOthers, StoreAssumption DEF ConvergenceInv, Superseded, BlockStatus
<1> HIDE DEF blocks
<1>9. /\ \A b \in Blocks : BlockSlot[b] # s => block'[b] = blocks[b]
      /\ \A b \in Blocks : blocks[b] # None => block'[b] # None
  BY <1>1, <1>3, <1>5, <1>7, <1>8, SettledAgrees DEF IsFinal
<1>10. OnlyAt(s)
  BY <1>3, <1>7, <1>8, <1>9 DEF OnlyAt, OthersKept, ConvergenceInv, StoryInv, TypeOK
<1>11. ASSUME Truth[s] # None
       PROVE  Agrees(s)
  <2>1. Named(m) = Truth[s] /\ m.trail \in {None, TrueTrail[s]}
    BY <1>1, <1>11, ChainPromise DEF FinalSourcesAgree
  <2>2. r.status # "Final" /\ ~r.exec_final
    BY <1>2, <1>3, <1>11, <2>1 DEF RowAgrees
  <2> QED BY <1>1, <1>2, <1>5, <1>6, <1>7, <2>1, <2>2 DEF Agrees, RowAgrees
<1> QED BY <1>10, <1>11 DEF StepAt

-----------------------------------------------------------------------------
(* Delivery. *)

\* What the message just delivered has to leave behind.
Leaves(kind, x) ==
  /\ kind = "block" => BlockTrace(x)
  /\ kind = "exec" /\ x.final /\ Truth[x.slot] # None => ExecTrace(x)
  /\ kind = "peer" /\ Truth[x.slot] # None /\ x.trail = TrueTrail[x.slot] => PeerTrace(x)
  /\ kind = "transfers" /\ Truth[x.slot] # None /\ ~ForcedAt(x.slot) => TransferTrace(x)

\* A step at one slot that leaves the trace of its message keeps the invariant.
LEMMA DeliveredKeeps ==
  ASSUME ConvergenceInv, StoryInv', NEW s \in Slots, StepAt(s),
         NEW kind, NEW x, Delivered(kind, x), Leaves(kind, x)'
  PROVE  ConvergenceInv'
<1>1. UsedAgree'
  BY StepAgrees
<1>2. /\ \A b \in Blocks : BlockTrace(b) => BlockTrace(b)'
      /\ \A f \in ExecFrames : Truth[f.slot] # None /\ ExecTrace(f) => ExecTrace(f)'
      /\ \A m \in PeerPatches : Truth[m.slot] # None /\ PeerTrace(m) => PeerTrace(m)'
      /\ \A f \in TransferFrames :
           Truth[f.slot] # None /\ ~ForcedAt(f.slot) /\ TransferTrace(f) => TransferTrace(f)'
  BY StepKeepsTraces
<1>3. \A k, y : <<k, y>> \in seen' => <<k, y>> \in seen \/ (k = kind /\ y = x)
  BY DEF Delivered
<1>4. SeenTold
  BY DEF ConvergenceInv
<1>5. \A b \in Blocks : <<"block", b>> \in seen' => BlockTrace(b)'
  BY <1>2, <1>3, <1>4 DEF SeenTold, Leaves
<1>6. \A f \in ExecFrames :
        <<"exec", f>> \in seen' /\ f.final /\ Truth[f.slot] # None => ExecTrace(f)'
  BY <1>2, <1>3, <1>4 DEF SeenTold, Leaves
<1>7. \A m \in PeerPatches :
        <<"peer", m>> \in seen' /\ Truth[m.slot] # None /\ m.trail = TrueTrail[m.slot]
          => PeerTrace(m)'
  BY <1>2, <1>3, <1>4 DEF SeenTold, Leaves
<1>8. \A f \in TransferFrames :
        <<"transfers", f>> \in seen' /\ Truth[f.slot] # None /\ ~ForcedAt(f.slot)
          => TransferTrace(f)'
  BY <1>2, <1>3, <1>4 DEF SeenTold, Leaves
<1>9. SeenTold'
  BY <1>5, <1>6, <1>7, <1>8 DEF SeenTold
<1> QED BY <1>1, <1>9 DEF ConvergenceInv

\* So does a message that is ignored and whose trace is there already.
LEMMA IgnoredKeeps ==
  ASSUME ConvergenceInv, UNCHANGED vars,
         NEW kind, NEW x, Delivered(kind, x), Leaves(kind, x)
  PROVE  ConvergenceInv'
<1> USE DEF vars
<1>1. StoryInv'
  BY StoryNext DEF ConvergenceInv
<1>2. UsedAgree'
  BY DEF ConvergenceInv, UsedAgree, SlotAgrees
<1>3. \A k, y : <<k, y>> \in seen' => <<k, y>> \in seen \/ (k = kind /\ y = x)
  BY DEF Delivered
<1>4. /\ \A b : BlockTrace(b)' <=> BlockTrace(b)
      /\ \A f : ExecTrace(f)' <=> ExecTrace(f)
      /\ \A m : PeerTrace(m)' <=> PeerTrace(m)
      /\ \A f : TransferTrace(f)' <=> TransferTrace(f)
  BY DEF BlockTrace, ExecTrace, PeerTrace, TransferTrace, IsFinal
<1>5. SeenTold
  BY DEF ConvergenceInv
<1>6. SeenTold'
  BY <1>3, <1>4, <1>5 DEF SeenTold, Leaves
<1> QED BY <1>1, <1>2, <1>6 DEF ConvergenceInv

\* The invariant is inductive.
LEMMA ConvergenceNext == ConvergenceInv /\ [Deliver]_<<vars, seen>> => ConvergenceInv'
<1> SUFFICES ASSUME ConvergenceInv, [Deliver]_<<vars, seen>>
             PROVE  ConvergenceInv'
  OBVIOUS
<1>1. CASE UNCHANGED <<vars, seen>>
  <2>1. StoryInv'
    BY <1>1, StoryNext DEF ConvergenceInv
  <2> QED BY <1>1, <2>1 DEF vars, ConvergenceInv, UsedAgree, SlotAgrees, SeenTold, BlockTrace,
                            ExecTrace, PeerTrace, TransferTrace, IsFinal
<1>2. ASSUME NEW b \in Blocks, DeliverBlock(b)
      PROVE  ConvergenceInv'
  <2>1. HandleBlock(b) /\ Delivered("block", b) /\ BlockSlot[b] \in Slots
    BY <1>2, StoreAssumption DEF DeliverBlock
  <2>2. StoryInv'
    BY <2>1, StoryNext DEF ConvergenceInv, Next
  <2>3. StepAt(BlockSlot[b]) /\ BlockTrace(b)'
    BY <2>1, <2>2, StepHandleBlock
  <2> QED BY <2>1, <2>2, <2>3, DeliveredKeeps DEF Leaves
<1>3. ASSUME NEW f \in ExecFrames, DeliverExec(f)
      PROVE  ConvergenceInv'
  <2>1. Delivered("exec", f) /\ f.slot \in Slots
    BY <1>3, MessageFacts DEF DeliverExec, ExecFrame
  <2>2. CASE IgnoresExec(f) /\ UNCHANGED vars
    <3>1. f.final /\ Truth[f.slot] # None => ExecTrace(f)
      BY <2>2, IgnoredExec
    <3> QED BY <2>1, <2>2, <3>1, IgnoredKeeps DEF Leaves
  <2>3. CASE HandleExecCandidate(f) \/ HandleExecFinal(f) \/ CompleteFinalExec(f)
    <3>1. StoryInv'
      BY <2>3, StoryNext DEF ConvergenceInv, Next
    <3>2. StepAt(f.slot) /\ (f.final => ExecTrace(f)')
      BY <2>3, <3>1, StepHandleExecCandidate, StepHandleExecFinal, StepCompleteFinalExec
         DEF HandleExecCandidate
    <3> QED BY <2>1, <3>1, <3>2, DeliveredKeeps DEF Leaves
  <2> QED BY <1>3, <2>2, <2>3 DEF DeliverExec
<1>4. ASSUME NEW f \in TransferFrames, DeliverTransfers(f)
      PROVE  ConvergenceInv'
  <2>1. HandleTransfers(f) /\ Delivered("transfers", f) /\ f.slot \in Slots
    BY <1>4, MessageFacts DEF DeliverTransfers, TransferFrame
  <2>2. StoryInv'
    BY <2>1, StoryNext DEF ConvergenceInv, Next
  <2>3. StepAt(f.slot) /\ (Truth[f.slot] # None => TransferTrace(f)')
    BY <2>1, StepHandleTransfers
  <2> QED BY <2>1, <2>2, <2>3, DeliveredKeeps DEF Leaves
<1>5. ASSUME NEW m \in PeerPatches, DeliverPeer(m)
      PROVE  ConvergenceInv'
  <2>1. Delivered("peer", m) /\ m.slot \in Slots
    BY <1>5, MessageFacts DEF DeliverPeer, PeerPatch
  <2>2. CASE IgnoresPeer(m) /\ UNCHANGED vars
    <3>1. Truth[m.slot] = None
      BY <2>2, IgnoredPeer
    <3> QED BY <2>1, <2>2, <3>1, IgnoredKeeps DEF Leaves
  <2>3. CASE ApplyPeerPatch(m)
    <3>1. StoryInv'
      BY <2>3, StoryNext DEF ConvergenceInv, Next
    <3>2. /\ StepAt(m.slot)
          /\ Truth[m.slot] # None /\ m.trail = TrueTrail[m.slot] => PeerTrace(m)'
      BY <2>3, <3>1, StepPromoteFromPeer, StepCompleteFromPeer, StepRepairFromPeer
         DEF ApplyPeerPatch
    <3> QED BY <2>1, <3>1, <3>2, DeliveredKeeps DEF Leaves
  <2> QED BY <1>5, <2>2, <2>3 DEF DeliverPeer
<1>6. ASSUME NEW m \in LegacyPatches, DeliverLegacy(m)
      PROVE  ConvergenceInv'
  <2>1. ApplyLegacyPatch(m) /\ Delivered("legacy", m) /\ m.slot \in Slots
    BY <1>6, MessageFacts DEF DeliverLegacy, LegacyPatch
  <2>2. StoryInv'
    BY <2>1, StoryNext DEF ConvergenceInv, Next
  <2>3. StepAt(m.slot)
    BY <2>1, <2>2, StepApplyLegacyPatch
  <2> QED BY <2>1, <2>2, <2>3, DeliveredKeeps DEF Leaves
<1>7. ASSUME NEW m \in ForcedVerdicts, DeliverForced(m)
      PROVE  ConvergenceInv'
  <2>1. Delivered("forced", m) /\ m.slot \in Slots
    BY <1>7, MessageFacts DEF DeliverForced, ForcedVerdict
  <2>2. CASE IgnoresForced(m) /\ UNCHANGED vars
    BY <2>1, <2>2, IgnoredKeeps DEF Leaves
  <2>3. CASE ApplyForcedVerdict(m)
    <3>1. StoryInv'
      BY <2>3, StoryNext DEF ConvergenceInv, Next
    <3>2. StepAt(m.slot)
      BY <2>3, <3>1, StepApplyForcedVerdict
    <3> QED BY <2>1, <3>1, <3>2, DeliveredKeeps DEF Leaves
  <2> QED BY <1>7, <2>2, <2>3 DEF DeliverForced
<1> QED BY <1>1, <1>2, <1>3, <1>4, <1>5, <1>6, <1>7 DEF Deliver

LEMMA ConvergenceInit == DeliveryInit => ConvergenceInv
<1> SUFFICES ASSUME DeliveryInit PROVE ConvergenceInv
  OBVIOUS
<1>1. StoryInv
  BY StoryInit DEF DeliveryInit
<1>2. UsedAgree
  BY DEF DeliveryInit, Init, UsedAgree, SlotAgrees
<1>3. SeenTold
  BY DEF DeliveryInit, SeenTold
<1> QED BY <1>1, <1>2, <1>3 DEF ConvergenceInv

\* With every message delivered, the traces make up the picture of the chain.
LEMMA TracesConverge == ConvergenceInv => Converged
<1> SUFFICES ASSUME ConvergenceInv, AllDelivered, NEW s \in Slots, Truth[s] # None
             PROVE  /\ IsFinal(row, s)
                    /\ VerdictOf(row[s]) = Truth[s]
                    /\ row[s].exec_final /\ events[s] = Truth[s]
                    /\ \A f \in ExecFrames : f.slot = s /\ f.final => row[s].trail = f.trail
                    /\ (\E f \in TransferFrames : f.slot = s) /\ ~ForcedAt(s) =>
                         row[s].transfers /\ <<"full", Truth[s]>> \in transfers[s]
                    /\ \A b \in Blocks : BlockSlot[b] = s =>
                         block[b] = IF b = Truth[s] THEN "Final" ELSE "Discarded"
  BY DEF Converged
<1>1. SeenTold /\ SlotAgrees(s)
  BY DEF ConvergenceInv, UsedAgree
<1>2. PICK f \in ExecFrames : f.slot = s /\ f.final
  BY ChainPromise DEF FinalSourcesAgree
<1>3. row[s] # None /\ row[s].exec_final
  BY <1>1, <1>2 DEF SeenTold, AllDelivered, ExecTrace
<1>4. /\ RowAgrees(s, row[s]) /\ row[s].status = "Final"
      /\ events[s] = Truth[s] /\ StoredSettled(block, s)
  BY <1>1, <1>3 DEF SlotAgrees, RowAgrees
<1>5. row[s].trail = TrueTrail[s]
  <2>1. CASE TrailFromPeer(s)
    <3>1. PICK m \in PeerPatches : m.slot = s /\ m.trail = TrueTrail[s]
      BY <2>1 DEF TrailFromPeer
    <3> QED BY <1>1, <3>1 DEF SeenTold, AllDelivered, PeerTrace
  <2>2. CASE ~TrailFromPeer(s)
    BY <1>3, <1>4, <2>2 DEF RowAgrees
  <2> QED BY <2>1, <2>2
<1>6. \A g \in ExecFrames : g.slot = s /\ g.final => row[s].trail = g.trail
  BY <1>5, ChainPromise DEF FinalSourcesAgree
<1>7. \A b \in Blocks : BlockSlot[b] = s =>
        block[b] = IF b = Truth[s] THEN "Final" ELSE "Discarded"
  BY <1>1, <1>4 DEF SeenTold, AllDelivered, BlockTrace, StoredSettled
<1>8. (\E g \in TransferFrames : g.slot = s) /\ ~ForcedAt(s) =>
        row[s].transfers /\ <<"full", Truth[s]>> \in transfers[s]
  BY <1>1 DEF SeenTold, AllDelivered, TransferTrace
<1> QED BY <1>3, <1>4, <1>6, <1>7, <1>8 DEF IsFinal, RowAgrees

(***************************************************************************)
(* When the FINAL sources agree with the chain, then whatever the lanes,   *)
(* the streams, the peers and the importer deliver first, and however      *)
(* often, a slot all of whose messages came shows the chain's verdict, its *)
(* trail hash, its events and transfers, and every block settled (handle_* *)
(* and apply_* of ingest.rs and peer/patch.rs).                            *)
(***************************************************************************)
THEOREM ConvergedHolds == DeliverySpec => []Converged
BY ConvergenceInit, ConvergenceNext, TracesConverge, PTL DEF DeliverySpec
=============================================================================
