-------------------------- MODULE SlotIngestProofs ---------------------------
(***************************************************************************)
(* Proofs about SlotIngest and SlotLedger, for every set of slots, blocks  *)
(* and messages: types, the story of a slot's blocks, first-final-wins and *)
(* the finality ledger.                                                    *)
(***************************************************************************)
EXTENDS SlotLedger, TLAPS

Rows   == [Slots -> SlotRow \cup {None}]
Bodies == [Blocks -> BlockStatus \cup {None}]

-----------------------------------------------------------------------------
(* Types of the helpers. *)

\* SlotState::fresh is a slot row.
LEMMA FreshRowType == FreshRow \in SlotRow
BY StoreAssumption DEF FreshRow, SlotRow, SlotStatus

\* read_slot with its default is a slot row.
LEMMA RowOrFreshType ==
  ASSUME NEW rows \in Rows, NEW s \in Slots
  PROVE  RowOrFresh(rows, s) \in SlotRow
BY FreshRowType DEF RowOrFresh, Rows

\* ensure_parent_stub keeps the slot rows typed.
LEMMA StubParentType ==
  ASSUME NEW rows \in Rows, NEW s
  PROVE  StubParent(rows, s) \in Rows
BY FreshRowType DEF StubParent, Rows

\* apply_finality_to_blocks gives statuses to stored blocks only.
LEMMA SettleBlocksType ==
  ASSUME NEW blocks \in Bodies, NEW winner, NEW cands
  PROVE  SettleBlocks(blocks, winner, cands) \in Bodies
BY DEF SettleBlocks, Bodies, BlockStatus

\* The head is a slot once one was FINAL.
LEMMA AdvanceHeadType ==
  ASSUME NEW head \in Slots \cup {None}, NEW s \in Slots
  PROVE  AdvanceHead(head, s) \in Slots
BY DEF AdvanceHead

\* Writing a slot row keeps the slot rows typed.
LEMMA RowUpdateType ==
  ASSUME NEW rows \in Rows, NEW s \in Slots, NEW r \in SlotRow
  PROVE  [rows EXCEPT ![s] = r] \in Rows
BY DEF Rows

\* apply_executed_ops_changes keeps the operation rows typed.
LEMMA ExecutedOpsType ==
  ASSUME NEW ops \in [Ops -> OpRow \cup {None}], NEW f \in ExecFrame
  PROVE  ApplyExecutedOps(ops, f) \in [Ops -> OpRow \cup {None}]
<1> SUFFICES ASSUME NEW o \in Ops
             PROVE  ApplyExecutedOps(ops, f)[o] \in OpRow \cup {None}
  BY DEF ApplyExecutedOps
<1>1. CASE ops[o] = None \/ f.ops[o] \notin ExecStatus
  BY <1>1 DEF ApplyExecutedOps
<1>2. CASE ops[o] \in OpRow /\ f.ops[o] \in ExecStatus
  <2>1. ExecutedOp(ops[o], f.ops[o], f.final) \in OpRow
    BY <1>2 DEF ExecutedOp, OpRow
  <2>2. ApplyExecutedOps(ops, f)[o] \in {ops[o], ExecutedOp(ops[o], f.ops[o], f.final)}
    BY DEF ApplyExecutedOps
  <2> QED BY <2>1, <2>2
<1> QED BY <1>1, <1>2

\* apply_async_pool_changes keeps the async rows typed.
LEMMA ApplyPoolType ==
  ASSUME NEW asyncs \in [AsyncIds -> AsyncRow \cup {None}], NEW f \in ExecFrame
  PROVE  ApplyPool(asyncs, f) \in [AsyncIds -> AsyncRow \cup {None}]
<1> SUFFICES ASSUME NEW m \in AsyncIds
             PROVE  ApplyPool(asyncs, f)[m] \in AsyncRow \cup {None}
  BY DEF ApplyPool
<1>1. CASE f.pool[m] = None
  BY <1>1 DEF ApplyPool
<1>2. CASE f.pool[m] \in PoolChange
  <2>1. PoolState(asyncs[m], f.pool[m]) \in AsyncState
    BY <1>2 DEF PoolState, PoolChange, AsyncState, AsyncRow
  <2> QED BY <1>2, <2>1 DEF ApplyPool, ExecFrame, AsyncRow
<1> QED BY <1>1, <1>2 DEF ExecFrame

\* reconcile_async_from_transfers keeps the async rows typed.
LEMMA ReconcileAsyncType ==
  ASSUME NEW asyncs \in [AsyncIds -> AsyncRow \cup {None}],
         NEW moves \in [AsyncIds -> AsyncMove \cup {None}], NEW s \in Slots
  PROVE  ReconcileAsync(asyncs, moves, s) \in [AsyncIds -> AsyncRow \cup {None}]
BY DEF ReconcileAsync, AsyncRow, AsyncState, AsyncMove

\* reconcile_deferred_from_transfers never stores a refund as a state.
LEMMA ReconcileDeferredType ==
  ASSUME NEW calls \in [DeferredIds -> DeferredRow \cup {None}],
         NEW moves \in [DeferredIds -> DeferredMove \cup {None}], NEW s \in Slots
  PROVE  ReconcileDeferred(calls, moves, s) \in [DeferredIds -> DeferredRow \cup {None}]
<1> SUFFICES ASSUME NEW d \in DeferredIds, moves[d] # None
             PROVE  [state |-> DeferredStep(calls[d], moves[d]), last_slot |-> s] \in DeferredRow
  BY DEF ReconcileDeferred
<1>1. DeferredStep(calls[d], moves[d]) \in DeferredState
  BY DEF DeferredStep, DeferredRow, DeferredState, DeferredMove
<1> QED BY <1>1 DEF DeferredRow

\* apply_block_part keeps the operation rows typed.
LEMMA ShipOpsType ==
  ASSUME NEW ops \in [Ops -> OpRow \cup {None}],
         NEW m, m.ops \in [Ops -> OpRow \cup {None}]
  PROVE  ShipOps(ops, m) \in [Ops -> OpRow \cup {None}]
<1> SUFFICES ASSUME NEW o \in Ops
             PROVE  ShipOps(ops, m)[o] \in OpRow \cup {None}
  BY DEF ShipOps
<1>1. ASSUME ops[o] \in OpRow, m.ops[o] \in OpRow
      PROVE  MergedOp(ops[o], m.ops[o]) \in OpRow
  BY <1>1 DEF MergedOp, OpRow
<1> QED BY <1>1 DEF ShipOps

\* apply_block_part keeps the block rows typed.
LEMMA ShipBlockType ==
  ASSUME NEW blocks \in Bodies, NEW b, NEW status \in BlockStatus
  PROVE  ShipBlock(blocks, b, status) \in Bodies
BY DEF ShipBlock, Bodies

\* adopt_peer_verdict keeps the block rows typed.
LEMMA SupersededType ==
  ASSUME NEW blocks \in Bodies, NEW r
  PROVE  Superseded(blocks, r) \in Bodies
BY DEF Superseded, Bodies, BlockStatus

\* Async rows a peer ships keep the async rows typed.
LEMMA ShipAsyncType ==
  ASSUME NEW rows \in [AsyncIds -> AsyncRow \cup {None}], NEW s \in Slots,
         NEW shipped \in [AsyncIds -> AsyncState \cup {None}]
  PROVE  ShipRows(rows, shipped, s) \in [AsyncIds -> AsyncRow \cup {None}]
BY DEF ShipRows, AsyncRow

\* Deferred calls a peer ships keep the deferred rows typed.
LEMMA ShipDeferredType ==
  ASSUME NEW rows \in [DeferredIds -> DeferredRow \cup {None}], NEW s \in Slots,
         NEW shipped \in [DeferredIds -> DeferredState \cup {None}]
  PROVE  ShipRows(rows, shipped, s) \in [DeferredIds -> DeferredRow \cup {None}]
BY DEF ShipRows, DeferredRow

\* What the row operators need to know of a message that names a verdict.
Names(m) ==
  /\ m.is_miss \in BOOLEAN
  /\ m.block \in Blocks \cup {None}
  /\ ~m.is_miss => m.block \in Blocks
  /\ m.is_miss => m.block = None
  /\ ~m.is_miss => BlockSlot[m.block] = m.slot

\* The row of a slot that a patch finalises is a slot row.
LEMMA PromotedType ==
  ASSUME NEW r \in SlotRow, NEW m, Names(m)
  PROVE  Promoted(r, m) \in SlotRow
BY DEF Promoted, AddCandidate, SlotRow, SlotStatus, Names

\* The row adopt_peer_verdict leaves is a slot row.
LEMMA AdoptedType ==
  ASSUME NEW r \in SlotRow, NEW m, Names(m), m.trail \in Trails \cup {None}
  PROVE  Adopted(r, m) \in SlotRow
BY DEF Adopted, AddCandidate, SlotRow, SlotStatus, Names

\* Every message has its type, and patches name a verdict of their slot.
LEMMA MessageFacts ==
  /\ \A f \in ExecFrames : f \in ExecFrame
  /\ \A f \in TransferFrames : f \in TransferFrame
  /\ \A m \in PeerPatches : m \in PeerPatch /\ Names(m)
  /\ \A m \in LegacyPatches : m \in LegacyPatch /\ Names(m)
  /\ \A m \in ForcedVerdicts : m \in ForcedVerdict /\ Names(m)
BY MessageAssumption DEF Names, NamesVerdict, PeerPatch, LegacyPatch, ForcedVerdict

\* What a frame or a patch says of a slot is a verdict.
LEMMA VerdictTypes ==
  /\ \A f \in ExecFrame : FrameVerdict(f) \in Verdicts
  /\ \A m : Names(m) => Named(m) \in Verdicts
BY DEF FrameVerdict, Named, VerdictNamed, Names, Verdicts, ExecFrame

-----------------------------------------------------------------------------
(* The type invariant, action by action. *)

\* An empty database is typed.
LEMMA TypeInit == Init => TypeOK
BY DEF Init, TypeOK

\* The row a handler starts from is a slot row.
LEMMA RowType ==
  ASSUME TypeOK, NEW s \in Slots
  PROVE  Row(s) \in SlotRow
BY RowOrFreshType DEF Row, TypeOK, Rows

\* handle_block keeps the types.
LEMMA TypeHandleBlock ==
  ASSUME TypeOK, NEW b \in Blocks, HandleBlock(b)
  PROVE  TypeOK'
<1> DEFINE s == BlockSlot[b]
           seen == [Row(s) EXCEPT !.candidates = @ \cup {b},
                                  !.body = TRUE,
                                  !.status = IF @ = "Unknown" THEN "Candidate" ELSE @]
<1>1. s \in Slots
  BY StoreAssumption
<1>2. seen \in SlotRow
  <2>1. ASSUME NEW r \in SlotRow, NEW st \in SlotStatus
        PROVE  [r EXCEPT !.candidates = @ \cup {b}, !.body = TRUE, !.status = st] \in SlotRow
    BY <2>1 DEF SlotRow
  <2>2. Row(s) \in SlotRow
    BY <1>1, RowType
  <2>3. (IF Row(s).status = "Unknown" THEN "Candidate" ELSE Row(s).status) \in SlotStatus
    BY <2>2 DEF SlotRow, SlotStatus
  <2> HIDE DEF s
  <2> QED BY <2>1, <2>2, <2>3
<1>3. row' \in Rows
  BY <1>1, <1>2, RowUpdateType, StubParentType DEF HandleBlock, TypeOK, Rows
<1>4. block' \in Bodies
  <2>1. Arrived(block[b], Row(s), b) \in BlockStatus
    BY DEF Arrived, ArrivalStatus, BlockStatus, TypeOK
  <2> QED BY <2>1 DEF HandleBlock, TypeOK, Bodies
<1>5. op' \in [Ops -> OpRow \cup {None}]
  <2> SUFFICES ASSUME NEW o \in Ops
               PROVE  IncludeOp(op[o], b) \in OpRow
    BY DEF HandleBlock, TypeOK
  <2>1. CASE op[o] = None
    BY <2>1 DEF IncludeOp, OpRow
  <2>2. CASE op[o] # None
    BY <2>2 DEF IncludeOp, OpRow, TypeOK
  <2> QED BY <2>1, <2>2
<1> QED BY <1>3, <1>4, <1>5 DEF HandleBlock, TypeOK, Rows, Bodies

\* Of two optional trail hashes the preferred one is an optional trail hash.
LEMMA TrailOrType ==
  ASSUME NEW a \in Trails \cup {None}, NEW b \in Trails \cup {None}
  PROVE  TrailOr(a, b) \in Trails \cup {None}
BY DEF TrailOr

\* The executed operations stay operations.
LEMMA FirstExecutedType ==
  ASSUME NEW a \in SUBSET Ops, NEW b \in SUBSET Ops
  PROVE  FirstExecuted(a, b) \in SUBSET Ops
BY DEF FirstExecuted

\* handle_exec keeps the types, on a CANDIDATE frame.
LEMMA TypeHandleExecCandidate ==
  ASSUME TypeOK, NEW f \in ExecFrames, HandleExecCandidate(f)
  PROVE  TypeOK'
<1> DEFINE r == Row(f.slot)
           new == [r EXCEPT !.status = "Candidate",
                            !.trail = TrailOr(f.trail, @),
                            !.executed = FirstExecuted(@, ExecutedOps(f)),
                            !.exec_cand = TRUE]
<1>1. f \in ExecFrame /\ f.slot \in Slots /\ f.trail \in Trails \cup {None}
  BY MessageFacts DEF ExecFrame
<1>2. r \in SlotRow
  BY <1>1, RowType
<1>3. r.trail \in Trails \cup {None} /\ r.executed \in SUBSET Ops /\ ExecutedOps(f) \in SUBSET Ops
  BY <1>2 DEF SlotRow, ExecutedOps
<1>4. TrailOr(f.trail, r.trail) \in Trails \cup {None}
      /\ FirstExecuted(r.executed, ExecutedOps(f)) \in SUBSET Ops
  BY <1>1, <1>3, TrailOrType, FirstExecutedType
<1>5. new \in SlotRow
  BY <1>2, <1>4 DEF SlotRow, SlotStatus
<1>6. row' \in Rows
  BY <1>1, <1>5, RowUpdateType DEF HandleExecCandidate, TypeOK, Rows
<1>7. op' \in [Ops -> OpRow \cup {None}]
  BY <1>1, ExecutedOpsType DEF HandleExecCandidate, TypeOK
<1>8. events' \in [Slots -> Verdicts \cup {None}]
  BY <1>1, VerdictTypes DEF HandleExecCandidate, TypeOK
<1> QED BY <1>1, <1>6, <1>7, <1>8 DEF HandleExecCandidate, TypeOK, Rows

\* handle_exec keeps the types, on the first FINAL frame.
LEMMA TypeHandleExecFinal ==
  ASSUME TypeOK, NEW f \in ExecFrames, HandleExecFinal(f)
  PROVE  TypeOK'
<1> DEFINE r == Row(f.slot)
           settled == [r EXCEPT !.status = "Final",
                                !.is_miss = f.block = None,
                                !.final = IF f.block = None THEN @ ELSE f.block,
                                !.trail = TrailOr(f.trail, @),
                                !.executed = FirstExecuted(@, ExecutedOps(f)),
                                !.exec_final = TRUE]
<1>1. f \in ExecFrame /\ f.slot \in Slots /\ f.trail \in Trails \cup {None}
      /\ f.block \in Blocks \cup {None}
  BY MessageFacts DEF ExecFrame
<1>2. r \in SlotRow
  BY <1>1, RowType
<1>3. r.trail \in Trails \cup {None} /\ r.executed \in SUBSET Ops /\ ExecutedOps(f) \in SUBSET Ops
  BY <1>2 DEF SlotRow, ExecutedOps
<1>4. TrailOr(f.trail, r.trail) \in Trails \cup {None}
      /\ FirstExecuted(r.executed, ExecutedOps(f)) \in SUBSET Ops
  BY <1>1, <1>3, TrailOrType, FirstExecutedType
<1>5. settled \in SlotRow
  BY <1>1, <1>2, <1>4 DEF SlotRow, SlotStatus
<1>6. row' \in Rows
  BY <1>1, <1>5, RowUpdateType, StubParentType DEF HandleExecFinal, TypeOK, Rows
<1>7. op' \in [Ops -> OpRow \cup {None}]
  BY <1>1, ExecutedOpsType DEF HandleExecFinal, TypeOK
<1>8. events' \in [Slots -> Verdicts \cup {None}]
  BY <1>1, VerdictTypes DEF HandleExecFinal, TypeOK
<1>9. async' \in [AsyncIds -> AsyncRow \cup {None}]
  BY <1>1, ApplyPoolType DEF HandleExecFinal, TypeOK
<1>10. block' \in Bodies
  BY SettleBlocksType DEF HandleExecFinal, TypeOK, Bodies
<1> QED BY <1>1, <1>6, <1>7, <1>8, <1>9, <1>10 DEF HandleExecFinal, TypeOK, Rows, Bodies

\* complete_final_exec_from_node keeps the types.
LEMMA TypeCompleteFinalExec ==
  ASSUME TypeOK, NEW f \in ExecFrames, CompleteFinalExec(f)
  PROVE  TypeOK'
<1> DEFINE r == row[f.slot]
           new == [r EXCEPT !.trail = TrailOr(@, f.trail),
                            !.executed = FirstExecuted(@, ExecutedOps(f)),
                            !.exec_final = TRUE]
<1>1. f \in ExecFrame /\ f.slot \in Slots /\ f.trail \in Trails \cup {None}
  BY MessageFacts DEF ExecFrame
<1>2. r \in SlotRow
  BY <1>1 DEF CompleteFinalExec, IsFinal, TypeOK
<1>3. r.trail \in Trails \cup {None} /\ r.executed \in SUBSET Ops /\ ExecutedOps(f) \in SUBSET Ops
  BY <1>2 DEF SlotRow, ExecutedOps
<1>4. TrailOr(r.trail, f.trail) \in Trails \cup {None}
      /\ FirstExecuted(r.executed, ExecutedOps(f)) \in SUBSET Ops
  BY <1>1, <1>3, TrailOrType, FirstExecutedType
<1>5. new \in SlotRow
  BY <1>2, <1>4 DEF SlotRow
<1>6. row' \in Rows
  BY <1>1, <1>5, RowUpdateType DEF CompleteFinalExec, TypeOK, Rows
<1>7. op' \in [Ops -> OpRow \cup {None}]
  BY <1>1, ExecutedOpsType DEF CompleteFinalExec, TypeOK
<1>8. events' \in [Slots -> Verdicts \cup {None}]
  BY <1>1, VerdictTypes DEF CompleteFinalExec, TypeOK
<1>9. async' \in [AsyncIds -> AsyncRow \cup {None}]
  BY <1>1, ApplyPoolType DEF CompleteFinalExec, TypeOK
<1>10. block' \in Bodies
  BY SettleBlocksType DEF CompleteFinalExec, TypeOK, Bodies
<1> QED BY <1>6, <1>7, <1>8, <1>9, <1>10 DEF CompleteFinalExec, TypeOK, Rows, Bodies

\* handle_transfers keeps the types.
LEMMA TypeHandleTransfers ==
  ASSUME TypeOK, NEW f \in TransferFrames, HandleTransfers(f)
  PROVE  TypeOK'
<1>1. /\ f.slot \in Slots /\ f.verdict \in Verdicts
      /\ f.async \in [AsyncIds -> AsyncMove \cup {None}]
      /\ f.deferred \in [DeferredIds -> DeferredMove \cup {None}]
  BY MessageFacts DEF TransferFrame
<1>2. [Row(f.slot) EXCEPT !.transfers = TRUE] \in SlotRow
  BY <1>1, RowType DEF SlotRow
<1>3. row' \in Rows
  BY <1>1, <1>2, RowUpdateType DEF HandleTransfers, TypeOK, Rows
<1>4. transfers' \in [Slots -> SUBSET TransferLists]
  BY <1>1 DEF HandleTransfers, TypeOK, TransferLists
<1>5. async' \in [AsyncIds -> AsyncRow \cup {None}]
  BY <1>1, ReconcileAsyncType DEF HandleTransfers, TypeOK
<1>6. deferred' \in [DeferredIds -> DeferredRow \cup {None}]
  BY <1>1, ReconcileDeferredType DEF HandleTransfers, TypeOK
<1> QED BY <1>3, <1>4, <1>5, <1>6 DEF HandleTransfers, TypeOK, Rows

\* The parts of a peer patch keep the types.
LEMMA TypeApplyParts ==
  ASSUME TypeOK, NEW m \in PeerPatch, Names(m), NEW r \in SlotRow, NEW blocks \in Bodies,
         NEW evs \in [Slots -> Verdicts \cup {None}],
         NEW lists \in [Slots -> SUBSET TransferLists],
         ApplyParts(m, r, blocks, evs, lists),
         last_final' \in Slots \cup {None}
  PROVE  TypeOK'
<1> DEFINE s == m.slot
           has_body == m.body /\ ~m.is_miss
           exec == m.exec /\ ~r.exec_final
           xfers == m.transfers /\ ~r.transfers
           shipped == IF has_body THEN ShipBlock(blocks, m.block, m.status) ELSE blocks
           pool == IF exec THEN ShipRows(async, m.async, s) ELSE async
           filled == [r EXCEPT !.candidates = IF has_body THEN @ \cup {m.block} ELSE @,
                               !.body = @ \/ has_body \/ m.is_miss,
                               !.executed = IF exec THEN FirstExecuted(@, m.executed) ELSE @,
                               !.exec_final = @ \/ exec,
                               !.transfers = @ \/ xfers]
<1>1. m \in PeerPatch /\ Names(m) /\ s \in Slots
  BY DEF PeerPatch
<1>2. Named(m) \in Verdicts
  BY <1>1, VerdictTypes
<1>3. filled \in SlotRow
  <2>1. ASSUME NEW c \in SUBSET Blocks, NEW b1 \in BOOLEAN, NEW e \in SUBSET Ops,
               NEW b2 \in BOOLEAN, NEW b3 \in BOOLEAN
        PROVE  [r EXCEPT !.candidates = c, !.body = b1, !.executed = e,
                         !.exec_final = b2, !.transfers = b3] \in SlotRow
    BY <2>1 DEF SlotRow
  <2>2. (IF has_body THEN r.candidates \cup {m.block} ELSE r.candidates) \in SUBSET Blocks
    BY <1>1 DEF SlotRow, Names
  <2>3. (IF exec THEN FirstExecuted(r.executed, m.executed) ELSE r.executed) \in SUBSET Ops
    <3>1. r.executed \in SUBSET Ops /\ m.executed \in SUBSET Ops
      BY <1>1 DEF SlotRow, PeerPatch
    <3> QED BY <3>1, FirstExecutedType
  <2> QED BY <2>1, <2>2, <2>3
<1>4. row' \in Rows
  <2>1. row' = StubParent([row EXCEPT ![s] = filled], s)
    BY DEF ApplyParts
  <2> HIDE DEF filled
  <2> QED BY <1>1, <1>3, <2>1, RowUpdateType, StubParentType DEF TypeOK, Rows
<1>5. block' \in Bodies
  <2>1. shipped \in Bodies
    BY <1>1, ShipBlockType DEF PeerPatch
  <2>2. block' = SettleBlocks(shipped, filled.final, filled.candidates)
    BY DEF ApplyParts
  <2> HIDE DEF shipped, filled
  <2> QED BY <2>1, <2>2, SettleBlocksType
<1>6. op' \in [Ops -> OpRow \cup {None}]
  <2>1. has_body => ShipOps(op, m) \in [Ops -> OpRow \cup {None}]
    BY <1>1, ShipOpsType DEF TypeOK, PeerPatch, Names
  <2> QED BY <2>1 DEF ApplyParts, TypeOK
<1>7. events' \in [Slots -> Verdicts \cup {None}]
  BY <1>2 DEF ApplyParts
<1>8. transfers' \in [Slots -> SUBSET TransferLists]
  <2>1. {<<"full", Named(m)>>} \in SUBSET TransferLists
    BY <1>2 DEF TransferLists
  <2>2. transfers' = IF xfers THEN [lists EXCEPT ![s] = {<<"full", Named(m)>>}] ELSE lists
    BY DEF ApplyParts
  <2> QED BY <2>1, <2>2
<1>9. async' \in [AsyncIds -> AsyncRow \cup {None}]
  <2>1. pool \in [AsyncIds -> AsyncRow \cup {None}]
    <3>1. m.async \in [AsyncIds -> AsyncState \cup {None}]
      BY <1>1 DEF PeerPatch
    <3>2. ShipRows(async, m.async, s) \in [AsyncIds -> AsyncRow \cup {None}]
      BY <1>1, <3>1, ShipAsyncType DEF TypeOK
    <3> QED BY <3>2 DEF TypeOK
  <2>2. async' = IF xfers THEN ReconcileAsync(pool, m.async_moves, s) ELSE pool
    BY DEF ApplyParts
  <2>3. m.async_moves \in [AsyncIds -> AsyncMove \cup {None}]
    BY <1>1 DEF PeerPatch
  <2> HIDE DEF pool
  <2>4. ReconcileAsync(pool, m.async_moves, s) \in [AsyncIds -> AsyncRow \cup {None}]
    BY <1>1, <2>1, <2>3, ReconcileAsyncType
  <2> QED BY <2>1, <2>2, <2>4
<1>10. deferred' \in [DeferredIds -> DeferredRow \cup {None}]
  <2>1. ShipRows(deferred, m.deferred, s) \in [DeferredIds -> DeferredRow \cup {None}]
    <3>1. m.deferred \in [DeferredIds -> DeferredState \cup {None}]
      BY <1>1 DEF PeerPatch
    <3> QED BY <1>1, <3>1, ShipDeferredType DEF TypeOK
  <2>2. m.deferred_moves \in [DeferredIds -> DeferredMove \cup {None}]
    BY <1>1 DEF PeerPatch
  <2>3. ReconcileDeferred(ShipRows(deferred, m.deferred, s), m.deferred_moves, s)
          \in [DeferredIds -> DeferredRow \cup {None}]
    BY <1>1, <2>1, <2>2, ReconcileDeferredType
  <2> QED BY <2>3 DEF ApplyParts, TypeOK
<1>11. last_candidate' \in Slots \cup {None}
  BY DEF ApplyParts, TypeOK
<1> QED BY <1>4, <1>5, <1>6, <1>7, <1>8, <1>9, <1>10, <1>11 DEF TypeOK, Rows, Bodies
\* apply_peer_patch keeps the types, as first verdict.
LEMMA TypePromoteFromPeer ==
  ASSUME TypeOK, NEW m \in PeerPatch, Names(m), PromoteFromPeer(m)
  PROVE  TypeOK'
<1> DEFINE r == [Promoted(Row(m.slot), m) EXCEPT !.trail = TrailOr(m.trail, @)]
<1>1. m.slot \in Slots /\ m.trail \in Trails \cup {None} /\ Names(m)
  BY DEF PeerPatch
<1>2. Promoted(Row(m.slot), m) \in SlotRow
  BY <1>1, RowType, PromotedType
<1>3. TrailOr(m.trail, Promoted(Row(m.slot), m).trail) \in Trails \cup {None}
  BY <1>1, <1>2, TrailOrType DEF SlotRow
<1>4. r \in SlotRow
  BY <1>2, <1>3 DEF SlotRow
<1>5. last_final' \in Slots \cup {None}
  BY <1>1, AdvanceHeadType DEF PromoteFromPeer, TypeOK
<1>6. ApplyParts(m, r, block, events, transfers)
  BY DEF PromoteFromPeer
<1> HIDE DEF r
<1> QED BY <1>4, <1>5, <1>6, TypeApplyParts DEF TypeOK, Bodies

\* apply_peer_patch keeps the types, with the same verdict.
LEMMA TypeCompleteFromPeer ==
  ASSUME TypeOK, NEW m \in PeerPatch, Names(m), CompleteFromPeer(m)
  PROVE  TypeOK'
<1> DEFINE r == [row[m.slot] EXCEPT !.trail = TrailOr(@, m.trail)]
<1>1. m.slot \in Slots /\ m.trail \in Trails \cup {None}
  BY DEF PeerPatch
<1>2. row[m.slot] \in SlotRow
  BY <1>1 DEF CompleteFromPeer, IsFinal, TypeOK
<1>3. TrailOr(row[m.slot].trail, m.trail) \in Trails \cup {None}
  BY <1>1, <1>2, TrailOrType DEF SlotRow
<1>4. r \in SlotRow
  BY <1>2, <1>3 DEF SlotRow
<1>5. ApplyParts(m, r, block, events, transfers) /\ last_final' = last_final
  BY DEF CompleteFromPeer
<1> HIDE DEF r
<1> QED BY <1>4, <1>5, TypeApplyParts DEF TypeOK, Bodies

\* apply_peer_patch keeps the types, when it repairs a dead fork.
LEMMA TypeRepairFromPeer ==
  ASSUME TypeOK, NEW m \in PeerPatch, Names(m), RepairFromPeer(m)
  PROVE  TypeOK'
<1> DEFINE r == Adopted(row[m.slot], m)
           blocks == Superseded(block, row[m.slot])
           evs == [events EXCEPT ![m.slot] = None]
           lists == [transfers EXCEPT ![m.slot] = {}]
<1>1. m.slot \in Slots /\ m.trail \in Trails \cup {None} /\ Names(m)
  BY DEF PeerPatch
<1>2. row[m.slot] \in SlotRow
  BY <1>1 DEF RepairFromPeer, IsFinal, TypeOK
<1>3. r \in SlotRow
  BY <1>1, <1>2, AdoptedType
<1>4. blocks \in Bodies
  BY SupersededType DEF TypeOK, Bodies
<1>5. evs \in [Slots -> Verdicts \cup {None}]
  BY DEF TypeOK
<1>6. lists \in [Slots -> SUBSET TransferLists]
  BY DEF TypeOK
<1>7. ApplyParts(m, r, blocks, evs, lists) /\ last_final' = last_final
  BY DEF RepairFromPeer
<1> HIDE DEF r, blocks, evs, lists
<1> QED BY <1>3, <1>4, <1>5, <1>6, <1>7, TypeApplyParts DEF TypeOK

\* apply_legacy_patch keeps the types.
LEMMA TypeApplyLegacyPatch ==
  ASSUME TypeOK, NEW m \in LegacyPatch, Names(m), ApplyLegacyPatch(m)
  PROVE  TypeOK'
<1> DEFINE s == m.slot
           r == Row(s)
           verdict == IF Open(r) THEN Promoted(r, m) ELSE r
           has_body == m.body /\ ~m.is_miss /\ ~r.body
           shipped == IF has_body THEN ShipBlock(block, m.block, "Final") ELSE block
           filled == [verdict EXCEPT
                        !.candidates = IF has_body THEN @ \cup {m.block} ELSE @,
                        !.body = @ \/ has_body \/ (m.is_miss /\ verdict.is_miss),
                        !.executed = FirstExecuted(@, m.executed)]
<1>1. m \in LegacyPatch /\ Names(m) /\ s \in Slots
  BY DEF LegacyPatch
<1>2. verdict \in SlotRow
  BY <1>1, RowType, PromotedType
<1>3. filled \in SlotRow
  <2>1. ASSUME NEW q \in SlotRow, NEW c \in SUBSET Blocks, NEW b1 \in BOOLEAN, NEW e \in SUBSET Ops
        PROVE  [q EXCEPT !.candidates = c, !.body = b1, !.executed = e] \in SlotRow
    BY <2>1 DEF SlotRow
  <2>2. (IF has_body THEN verdict.candidates \cup {m.block} ELSE verdict.candidates) \in SUBSET Blocks
    <3> HIDE DEF verdict
    <3> QED BY <1>1, <1>2 DEF SlotRow, Names
  <2>3. FirstExecuted(verdict.executed, m.executed) \in SUBSET Ops
    <3>1. m.executed \in SUBSET Ops
      BY <1>1 DEF LegacyPatch
    <3> HIDE DEF verdict
    <3>2. verdict.executed \in SUBSET Ops
      BY <1>2 DEF SlotRow
    <3> QED BY <3>1, <3>2, FirstExecutedType
  <2> HIDE DEF verdict
  <2> QED BY <1>2, <2>1, <2>2, <2>3
<1>4. row' \in Rows
  <2>1. row' = StubParent([row EXCEPT ![s] = filled], s)
    BY DEF ApplyLegacyPatch
  <2> HIDE DEF filled
  <2> QED BY <1>1, <1>3, <2>1, RowUpdateType, StubParentType DEF TypeOK, Rows
<1>5. block' \in Bodies
  <2>1. shipped \in Bodies
    BY ShipBlockType DEF BlockStatus, TypeOK, Bodies
  <2>2. block' \in {shipped, SettleBlocks(shipped, filled.final, filled.candidates)}
    BY DEF ApplyLegacyPatch
  <2> HIDE DEF shipped, filled
  <2> QED BY <2>1, <2>2, SettleBlocksType
<1>6. op' \in [Ops -> OpRow \cup {None}]
  <2>1. has_body => ShipOps(op, m) \in [Ops -> OpRow \cup {None}]
    BY <1>1, ShipOpsType DEF TypeOK, LegacyPatch, Names
  <2> QED BY <2>1 DEF ApplyLegacyPatch, TypeOK
<1>7. transfers' \in [Slots -> SUBSET TransferLists]
  <2>1. <<"legacy", Named(m)>> \in TransferLists
    BY <1>1, VerdictTypes DEF TransferLists
  <2> QED BY <1>1, <2>1 DEF ApplyLegacyPatch, TypeOK
<1>8. last_final' \in Slots \cup {None}
  BY <1>1, AdvanceHeadType DEF ApplyLegacyPatch, TypeOK
<1>9. UNCHANGED <<events, async, deferred, last_candidate>>
  BY DEF ApplyLegacyPatch
<1> QED BY <1>4, <1>5, <1>6, <1>7, <1>8, <1>9 DEF TypeOK, Rows, Bodies

\* apply_forced_verdict keeps the types.
LEMMA TypeApplyForcedVerdict ==
  ASSUME TypeOK, NEW m \in ForcedVerdicts, ApplyForcedVerdict(m)
  PROVE  TypeOK'
<1> DEFINE r == Row(m.slot)
           adopted == [Adopted(r, m) EXCEPT !.status = "Final"]
<1>1. m.slot \in Slots /\ m.trail \in Trails \cup {None} /\ Names(m)
  BY MessageFacts DEF ForcedVerdict
<1>2. adopted \in SlotRow
  <2>1. Adopted(r, m) \in SlotRow
    BY <1>1, RowType, AdoptedType
  <2> QED BY <2>1 DEF SlotRow, SlotStatus
<1>3. row' \in Rows
  <2>1. row' = [row EXCEPT ![m.slot] = adopted]
    BY DEF ApplyForcedVerdict
  <2> HIDE DEF adopted
  <2> QED BY <1>1, <1>2, <2>1, RowUpdateType DEF TypeOK, Rows
<1>4. block' \in Bodies
  <2>1. block' = SettleBlocks(Superseded(block, r), adopted.final, adopted.candidates)
    BY DEF ApplyForcedVerdict
  <2> HIDE DEF adopted, r
  <2> QED BY <2>1, SupersededType, SettleBlocksType DEF TypeOK, Bodies
<1>5. events' \in [Slots -> Verdicts \cup {None}] /\ transfers' \in [Slots -> SUBSET TransferLists]
  BY DEF ApplyForcedVerdict, TypeOK
<1>6. UNCHANGED <<op, async, deferred, last_final, last_candidate>>
  BY DEF ApplyForcedVerdict
<1> QED BY <1>3, <1>4, <1>5, <1>6 DEF TypeOK, Rows, Bodies

\* Every step, of whatever source, keeps the types.
LEMMA TypeNext == TypeOK /\ [Next]_vars => TypeOK'
<1> SUFFICES ASSUME TypeOK, [Next]_vars
             PROVE  TypeOK'
  OBVIOUS
<1>1. CASE UNCHANGED vars
  BY <1>1 DEF vars, TypeOK
<1>2. ASSUME NEW b \in Blocks, HandleBlock(b)
      PROVE  TypeOK'
  BY <1>2, TypeHandleBlock
<1>3. ASSUME NEW f \in ExecFrames,
             HandleExecCandidate(f) \/ HandleExecFinal(f) \/ CompleteFinalExec(f)
      PROVE  TypeOK'
  BY <1>3, TypeHandleExecCandidate, TypeHandleExecFinal, TypeCompleteFinalExec
<1>4. ASSUME NEW f \in TransferFrames, HandleTransfers(f)
      PROVE  TypeOK'
  BY <1>4, TypeHandleTransfers
<1>5. ASSUME NEW m \in PeerPatches, ApplyPeerPatch(m)
      PROVE  TypeOK'
  BY <1>5, MessageFacts, TypePromoteFromPeer, TypeCompleteFromPeer, TypeRepairFromPeer DEF ApplyPeerPatch
<1>6. ASSUME NEW m \in LegacyPatches, ApplyLegacyPatch(m)
      PROVE  TypeOK'
  BY <1>6, MessageFacts, TypeApplyLegacyPatch
<1>7. ASSUME NEW m \in ForcedVerdicts, ApplyForcedVerdict(m)
      PROVE  TypeOK'
  BY <1>7, TypeApplyForcedVerdict
<1> QED BY <1>1, <1>2, <1>3, <1>4, <1>5, <1>6, <1>7 DEF Next

(***************************************************************************)
(* The rows keep their types whatever events arrive, in whatever order, so *)
(* that every handler may read every row (model.rs).                       *)
(***************************************************************************)
THEOREM TypeCorrect == Spec => []TypeOK
BY TypeInit, TypeNext, PTL DEF Spec

-----------------------------------------------------------------------------
(* Operation rows only grow. *)

OpGrows(o, n) ==
  o # None => n # None /\ o.inclusions \subseteq n.inclusions /\ o.fin \in {None, n.fin}

\* The body of OpHistory, as an action.
OpsGrow ==
  \A o \in Ops : op[o] # None =>
    /\ op'[o] # None
    /\ op[o].inclusions \subseteq op'[o].inclusions
    /\ op[o].fin \in {None, op'[o].fin}

\* One more inclusion.
LEMMA IncludeOpGrows ==
  ASSUME NEW o \in OpRow \cup {None}, NEW b \in Blocks
  PROVE  OpGrows(o, IncludeOp(o, b))
<1> SUFFICES ASSUME o \in OpRow PROVE OpGrows(o, IncludeOp(o, b))
  BY DEF OpGrows
<1>1. IncludeOp(o, b) \in OpRow /\ IncludeOp(o, b).fin = o.fin
      /\ IncludeOp(o, b).inclusions = o.inclusions \cup {b}
  BY AbsentAssumption DEF IncludeOp, OpRow
<1> QED BY <1>1, AbsentAssumption DEF OpGrows

\* An execution status of either finality.
LEMMA ExecutedOpGrows ==
  ASSUME NEW o \in OpRow, NEW result \in ExecStatus, NEW is_final
  PROVE  OpGrows(o, ExecutedOp(o, result, is_final))
<1>1. /\ ExecutedOp(o, result, is_final) \in OpRow
      /\ ExecutedOp(o, result, is_final).inclusions = o.inclusions
      /\ o.fin \in {None, ExecutedOp(o, result, is_final).fin}
  BY DEF ExecutedOp, OpRow
<1> QED BY <1>1, AbsentAssumption DEF OpGrows

\* apply_executed_ops_changes.
LEMMA ApplyExecutedOpsGrow ==
  ASSUME TypeOK, NEW f \in ExecFrames, op' = ApplyExecutedOps(op, f)
  PROVE  OpsGrow
<1> SUFFICES ASSUME NEW o \in Ops PROVE OpGrows(op[o], op'[o])
  BY DEF OpsGrow, OpGrows
<1>1. CASE op[o] = None \/ f.ops[o] \notin ExecStatus
  BY <1>1 DEF ApplyExecutedOps, OpGrows
<1>2. CASE op[o] # None /\ f.ops[o] \in ExecStatus
  <2>1. op'[o] = ExecutedOp(op[o], f.ops[o], f.final) /\ op[o] \in OpRow
    BY <1>2 DEF ApplyExecutedOps, TypeOK
  <2> QED BY <1>2, <2>1, ExecutedOpGrows
<1> QED BY <1>1, <1>2

\* A row that a shipped one is merged into: an empty list of inclusions is filled.
LEMMA MergedOpGrows ==
  ASSUME NEW local \in OpRow, NEW shipped \in OpRow
  PROVE  OpGrows(local, MergedOp(local, shipped))
<1>1. /\ MergedOp(local, shipped) \in OpRow
      /\ local.inclusions \subseteq MergedOp(local, shipped).inclusions
      /\ local.fin \in {None, MergedOp(local, shipped).fin}
  BY DEF MergedOp, OpRow
<1> QED BY <1>1, AbsentAssumption DEF OpGrows

\* apply_block_part: the operations of a shipped body.
LEMMA ShipOpsGrow ==
  ASSUME TypeOK, NEW m, m.ops \in [Ops -> OpRow \cup {None}],
         op' = ShipOps(op, m) \/ op' = op
  PROVE  OpsGrow
<1> SUFFICES ASSUME NEW o \in Ops, op[o] # None PROVE OpGrows(op[o], op'[o])
  BY DEF OpsGrow, OpGrows
<1>1. op[o] \in OpRow
  BY DEF TypeOK
<1>2. CASE op'[o] = op[o]
  BY <1>1, <1>2 DEF OpGrows
<1>3. CASE op'[o] # op[o]
  <2>1. m.ops[o] # None /\ op'[o] = MergedOp(op[o], m.ops[o])
    BY <1>3 DEF ShipOps
  <2>2. m.ops[o] \in OpRow
    BY <2>1
  <2> QED BY <1>1, <2>1, <2>2, MergedOpGrows
<1> QED BY <1>2, <1>3

\* Every step, of whatever source.
LEMMA OpsGrowStep == TypeOK /\ [Next]_vars => [OpsGrow]_vars
<1> SUFFICES ASSUME TypeOK, Next PROVE OpsGrow
  OBVIOUS
<1>1. ASSUME NEW b \in Blocks, HandleBlock(b) PROVE OpsGrow
  <2> SUFFICES ASSUME NEW o \in Ops PROVE OpGrows(op[o], op'[o])
    BY DEF OpsGrow, OpGrows
  <2>1. op'[o] \in {op[o], IncludeOp(op[o], b)} /\ op[o] \in OpRow \cup {None}
    BY <1>1 DEF HandleBlock, TypeOK
  <2>2. OpGrows(op[o], op[o])
    BY <2>1 DEF OpGrows
  <2> QED BY <2>1, <2>2, IncludeOpGrows
<1>2. ASSUME NEW f \in ExecFrames,
             HandleExecCandidate(f) \/ HandleExecFinal(f) \/ CompleteFinalExec(f)
      PROVE  OpsGrow
  BY <1>2, ApplyExecutedOpsGrow DEF HandleExecCandidate, HandleExecFinal, CompleteFinalExec
<1>3. ASSUME NEW f \in TransferFrames, HandleTransfers(f) PROVE OpsGrow
  BY <1>3 DEF HandleTransfers, OpsGrow, OpGrows
<1>4. ASSUME NEW m \in PeerPatches, ApplyPeerPatch(m) PROVE OpsGrow
  <2>1. op' = ShipOps(op, m) \/ op' = op
    BY <1>4 DEF ApplyPeerPatch, PromoteFromPeer, CompleteFromPeer, RepairFromPeer, ApplyParts
  <2>2. m.ops \in [Ops -> OpRow \cup {None}]
    BY MessageFacts DEF PeerPatch
  <2> QED BY <2>1, <2>2, ShipOpsGrow
<1>5. ASSUME NEW m \in LegacyPatches, ApplyLegacyPatch(m) PROVE OpsGrow
  <2>1. op' = ShipOps(op, m) \/ op' = op
    BY <1>5 DEF ApplyLegacyPatch
  <2>2. m.ops \in [Ops -> OpRow \cup {None}]
    BY MessageFacts DEF LegacyPatch
  <2> QED BY <2>1, <2>2, ShipOpsGrow
<1>6. ASSUME NEW m \in ForcedVerdicts, ApplyForcedVerdict(m) PROVE OpsGrow
  BY <1>6 DEF ApplyForcedVerdict, OpsGrow, OpGrows
<1> QED BY <1>1, <1>2, <1>3, <1>4, <1>5, <1>6 DEF Next

(***************************************************************************)
(* The history of an operation is append-only under every handler: its     *)
(* inclusions stay and its FINAL status is written once (handle_block,     *)
(* apply_executed_ops_changes, apply_block_part).                          *)
(***************************************************************************)
THEOREM OpHistoryHolds == Spec => OpHistory
<1>1. OpHistory <=> [][OpsGrow]_vars
  BY PTL DEF OpHistory, OpsGrow
<1> QED BY <1>1, TypeInit, TypeNext, OpsGrowStep, PTL DEF Spec

-----------------------------------------------------------------------------
(* What the transfers settled stays settled. *)

\* The bodies of DeferredLeavesOnlyByPeer and AsyncLeavesOnlyBySet, as actions.
DeferredLeaves ==
  \A d \in DeferredIds :
       deferred[d] # None /\ deferred[d].state # "Registered"
         => \/ deferred'[d] # None /\ deferred'[d].state = deferred[d].state
            \/ \E p \in PeerPatches : /\ p.transfers /\ ApplyPeerPatch(p)
                                       /\ p.deferred[d] \notin {None, deferred[d].state}

AsyncLeaves ==
  \A m \in AsyncIds :
       async[m] # None /\ async[m].state \in {"Executed", "Cancelled"}
         => \/ async'[m] # None /\ async'[m].state = async[m].state
            \/ \E f \in ExecFrames : f.final /\ f.pool[m] = "Set"
                                     /\ async'[m] = [state |-> "Pending", last_slot |-> f.slot]
            \/ \E p \in PeerPatches : /\ p.exec /\ ApplyPeerPatch(p)
                                       /\ p.async[m] \notin {None, async[m].state}

\* Rows of async messages and of deferred calls are records with a state, so
\* that a row is not an absent row.
LEMMA RowsPresent ==
  /\ \A st \in AsyncState, s \in Slots : [state |-> st, last_slot |-> s] # None
  /\ \A st \in DeferredState, s \in Slots : [state |-> st, last_slot |-> s] # None
BY AbsentAssumption DEF AsyncRow, DeferredRow

\* reconcile_deferred_from_transfers keeps a terminal state.
LEMMA ReconcileDeferredKeeps ==
  ASSUME NEW calls \in [DeferredIds -> DeferredRow \cup {None}], NEW moves, NEW s \in Slots,
         NEW d \in DeferredIds, calls[d] # None, calls[d].state # "Registered"
  PROVE  /\ ReconcileDeferred(calls, moves, s)[d] # None
         /\ ReconcileDeferred(calls, moves, s)[d].state = calls[d].state
<1>1. calls[d] \in DeferredRow /\ calls[d].state \in DeferredState
  BY DEF DeferredRow
<1>2. CASE moves[d] = None
  BY <1>2 DEF ReconcileDeferred
<1>3. CASE moves[d] # None
  <2>1. ReconcileDeferred(calls, moves, s)[d] = [state |-> calls[d].state, last_slot |-> s]
    BY <1>3 DEF ReconcileDeferred, DeferredStep
  <2> QED BY <1>1, <2>1, RowsPresent
<1> QED BY <1>2, <1>3

\* reconcile_async_from_transfers keeps a terminal classification.
LEMMA ReconcileAsyncKeeps ==
  ASSUME NEW asyncs \in [AsyncIds -> AsyncRow \cup {None}], NEW moves, NEW s \in Slots,
         NEW m \in AsyncIds, asyncs[m] # None, asyncs[m].state \in {"Executed", "Cancelled"}
  PROVE  /\ ReconcileAsync(asyncs, moves, s)[m] # None
         /\ ReconcileAsync(asyncs, moves, s)[m].state = asyncs[m].state
<1>1. asyncs[m].state \in AsyncState
  BY DEF AsyncState
<1>2. CASE moves[m] = None
  BY <1>2 DEF ReconcileAsync
<1>3. CASE moves[m] # None
  <2>1. ReconcileAsync(asyncs, moves, s)[m] = [state |-> asyncs[m].state, last_slot |-> s]
    BY <1>3 DEF ReconcileAsync
  <2> QED BY <1>1, <2>1, RowsPresent
<1> QED BY <1>2, <1>3

\* apply_async_pool_changes keeps it too, unless the message is set anew.
LEMMA ApplyPoolKeeps ==
  ASSUME NEW asyncs \in [AsyncIds -> AsyncRow \cup {None}], NEW f \in ExecFrames,
         NEW m \in AsyncIds, asyncs[m] # None, asyncs[m].state \in {"Executed", "Cancelled"}
  PROVE  \/ /\ ApplyPool(asyncs, f)[m] # None
            /\ ApplyPool(asyncs, f)[m].state = asyncs[m].state
         \/ /\ f.pool[m] = "Set"
            /\ ApplyPool(asyncs, f)[m] = [state |-> "Pending", last_slot |-> f.slot]
<1>1. f.slot \in Slots /\ f.pool[m] \in PoolChange \cup {None} /\ asyncs[m].state \in AsyncState
  BY MessageFacts DEF ExecFrame, AsyncState
<1>2. CASE f.pool[m] = None
  BY <1>2 DEF ApplyPool
<1>3. CASE f.pool[m] = "Set" /\ f.pool[m] # None
  BY <1>3 DEF ApplyPool, PoolState
<1>4. CASE f.pool[m] \in {"Update", "Delete"} /\ f.pool[m] # None
  <2>1. ApplyPool(asyncs, f)[m] = [state |-> asyncs[m].state, last_slot |-> f.slot]
    BY <1>4 DEF ApplyPool, PoolState
  <2> QED BY <1>1, <2>1, RowsPresent
<1> QED BY <1>1, <1>2, <1>3, <1>4 DEF PoolChange

\* apply_exec_part and apply_transfers_part: a shipped row may overwrite.
LEMMA PeerLeaves ==
  ASSUME TypeOK, NEW p \in PeerPatches, ApplyPeerPatch(p)
  PROVE  DeferredLeaves /\ AsyncLeaves
<1>1. PICK r, blocks, evs, lists : ApplyParts(p, r, blocks, evs, lists)
  BY DEF ApplyPeerPatch, PromoteFromPeer, CompleteFromPeer, RepairFromPeer
<1>2. /\ p.slot \in Slots
      /\ p.async \in [AsyncIds -> AsyncState \cup {None}]
      /\ p.deferred \in [DeferredIds -> DeferredState \cup {None}]
  BY MessageFacts DEF PeerPatch
<1> DEFINE calls == ShipRows(deferred, p.deferred, p.slot)
           msgs  == ShipRows(async, p.async, p.slot)
<1>3. /\ calls \in [DeferredIds -> DeferredRow \cup {None}]
      /\ msgs \in [AsyncIds -> AsyncRow \cup {None}]
  BY <1>2, ShipAsyncType, ShipDeferredType DEF TypeOK
<1>4. DeferredLeaves
  <2> SUFFICES ASSUME NEW d \in DeferredIds, deferred[d] # None,
                      deferred[d].state # "Registered",
                      ~(p.transfers /\ p.deferred[d] \notin {None, deferred[d].state})
               PROVE  deferred'[d] # None /\ deferred'[d].state = deferred[d].state
    BY DEF DeferredLeaves
  <2>1. CASE deferred' = deferred
    BY <2>1
  <2>2. CASE p.transfers /\ deferred' = ReconcileDeferred(calls, p.deferred_moves, p.slot)
    <3>1. calls[d] # None /\ calls[d].state = deferred[d].state
      <4>1. CASE p.deferred[d] = None
        BY <4>1 DEF ShipRows, TypeOK
      <4>2. CASE p.deferred[d] # None
        <5>1. calls[d] = [state |-> deferred[d].state, last_slot |-> p.slot]
          BY <2>2, <4>2 DEF ShipRows, TypeOK
        <5>2. deferred[d].state \in DeferredState
          BY DEF TypeOK, DeferredRow
        <5> QED BY <1>2, <5>1, <5>2, RowsPresent
      <4> QED BY <4>1, <4>2
    <3> HIDE DEF calls
    <3> QED BY <1>2, <1>3, <2>2, <3>1, ReconcileDeferredKeeps
  <2> QED BY <1>1, <2>1, <2>2 DEF ApplyParts
<1>5. AsyncLeaves
  <2> SUFFICES ASSUME NEW m \in AsyncIds, async[m] # None,
                      async[m].state \in {"Executed", "Cancelled"},
                      ~(p.exec /\ p.async[m] \notin {None, async[m].state})
               PROVE  async'[m] # None /\ async'[m].state = async[m].state
    BY DEF AsyncLeaves
  <2>1. PICK pool \in {async, msgs} :
          /\ pool = msgs => p.exec \/ msgs = async
          /\ async' \in {pool, ReconcileAsync(pool, p.async_moves, p.slot)}
    BY <1>1 DEF ApplyParts
  <2>2. pool[m] # None /\ pool[m].state = async[m].state
    <3>1. CASE pool = async
      BY <3>1
    <3>2. CASE p.exec /\ pool = msgs
      <4>1. CASE p.async[m] = None
        BY <3>2, <4>1 DEF ShipRows, TypeOK
      <4>2. CASE p.async[m] # None
        <5>1. pool[m] = [state |-> async[m].state, last_slot |-> p.slot]
          BY <3>2, <4>2 DEF ShipRows, TypeOK
        <5>2. async[m].state \in AsyncState
          BY DEF AsyncState
        <5> QED BY <1>2, <5>1, <5>2, RowsPresent
      <4> QED BY <4>1, <4>2
    <3> QED BY <2>1, <3>1, <3>2
  <2>3. pool \in [AsyncIds -> AsyncRow \cup {None}]
    BY <1>3, <2>1 DEF TypeOK
  <2> QED BY <1>2, <2>1, <2>2, <2>3, ReconcileAsyncKeeps
<1> QED BY <1>4, <1>5

\* Every step, of whatever source.
LEMMA LeavesStep == TypeOK /\ [Next]_vars => [DeferredLeaves]_vars /\ [AsyncLeaves]_vars
<1> SUFFICES ASSUME TypeOK, Next PROVE DeferredLeaves /\ AsyncLeaves
  OBVIOUS
<1>1. ASSUME deferred' = deferred PROVE DeferredLeaves
  BY <1>1 DEF DeferredLeaves
<1>2. ASSUME async' = async PROVE AsyncLeaves
  BY <1>2 DEF AsyncLeaves
<1>3. ASSUME NEW f \in ExecFrames, f.final, async' = ApplyPool(async, f) PROVE AsyncLeaves
  BY <1>3, ApplyPoolKeeps DEF AsyncLeaves, TypeOK
<1>4. ASSUME NEW f \in TransferFrames, HandleTransfers(f)
      PROVE  DeferredLeaves /\ AsyncLeaves
  <2>1. f.slot \in Slots
    BY MessageFacts DEF TransferFrame
  <2>2. /\ async' = ReconcileAsync(async, f.async, f.slot)
        /\ deferred' = ReconcileDeferred(deferred, f.deferred, f.slot)
    BY <1>4 DEF HandleTransfers
  <2>3. DeferredLeaves
    BY <2>1, <2>2, ReconcileDeferredKeeps DEF DeferredLeaves, TypeOK
  <2>4. AsyncLeaves
    BY <2>1, <2>2, ReconcileAsyncKeeps DEF AsyncLeaves, TypeOK
  <2> QED BY <2>3, <2>4
<1>5. ASSUME NEW b \in Blocks, HandleBlock(b) PROVE DeferredLeaves /\ AsyncLeaves
  BY <1>1, <1>2, <1>5 DEF HandleBlock
<1>6. ASSUME NEW f \in ExecFrames,
             HandleExecCandidate(f) \/ HandleExecFinal(f) \/ CompleteFinalExec(f)
      PROVE  DeferredLeaves /\ AsyncLeaves
  BY <1>1, <1>2, <1>3, <1>6 DEF HandleExecCandidate, HandleExecFinal, CompleteFinalExec
<1>7. ASSUME NEW m \in LegacyPatches, ApplyLegacyPatch(m)
      PROVE  DeferredLeaves /\ AsyncLeaves
  BY <1>1, <1>2, <1>7 DEF ApplyLegacyPatch
<1>8. ASSUME NEW m \in ForcedVerdicts, ApplyForcedVerdict(m)
      PROVE  DeferredLeaves /\ AsyncLeaves
  BY <1>1, <1>2, <1>8 DEF ApplyForcedVerdict
<1> QED BY <1>4, <1>5, <1>6, <1>7, <1>8, PeerLeaves DEF Next

(***************************************************************************)
(* A settled deferred call is never unsettled by transfers, late, repeated *)
(* or out of order, of any number of slots: only a row a peer ships with   *)
(* its transfers replaces its state (reconcile_deferred_from_transfers,    *)
(* apply_transfers_part).                                                  *)
(***************************************************************************)
THEOREM DeferredLeavesHolds == Spec => DeferredLeavesOnlyByPeer
<1>1. DeferredLeavesOnlyByPeer <=> [][DeferredLeaves]_vars
  BY PTL DEF DeferredLeavesOnlyByPeer, DeferredLeaves
<1> QED BY <1>1, TypeInit, TypeNext, LeavesStep, PTL DEF Spec

(***************************************************************************)
(* A classified async message is never unclassified by the DELETE of the   *)
(* pool that follows it: only a FINAL output that sets the message anew or *)
(* a row a peer ships replaces its state (apply_async_pool_changes,        *)
(* reconcile_async_from_transfers, apply_exec_part).                       *)
(***************************************************************************)
THEOREM AsyncLeavesHolds == Spec => AsyncLeavesOnlyBySet
<1>1. AsyncLeavesOnlyBySet <=> [][AsyncLeaves]_vars
  BY PTL DEF AsyncLeavesOnlyBySet, AsyncLeaves
<1> QED BY <1>1, TypeInit, TypeNext, LeavesStep, PTL DEF Spec

-----------------------------------------------------------------------------
(***************************************************************************)
(* The block story, for every set of slots, blocks and messages: the shape *)
(* of the slot rows and the story the block rows tell of them form an      *)
(* inductive invariant together with the types.                            *)
(***************************************************************************)

StoryInv == TypeOK /\ VerdictShape /\ BlockStory

-----------------------------------------------------------------------------
(* A step that writes one slot row. *)

\* The stored blocks of slot s fit the row q.
ToldAt(blocks, q, s) ==
  \A b \in Blocks : BlockSlot[b] = s /\ blocks[b] # None => Told(q, b, blocks[b])

\* Blocks of other slots are left alone.
OthersKept(old, new, s) ==
  \A b \in Blocks : BlockSlot[b] # s => new[b] = old[b]

\* A step that writes a well-shaped row at s, perhaps stubs the parent slot, and
\* leaves the blocks of s telling the story of that row, keeps the invariants.
LEMMA StoryStep ==
  ASSUME StoryInv, NEW s \in Slots, NEW q \in SlotRow, RowShape(q, s),
         row' = [row EXCEPT ![s] = q] \/ row' = StubParent([row EXCEPT ![s] = q], s),
         OthersKept(block, block', s),
         ToldAt(block', q, s)
  PROVE  VerdictShape' /\ BlockStory'
<1>1. row'[s] = q /\ q # None
  BY AbsentAssumption DEF StoryInv, TypeOK, StubParent, Predecessor, Slots
<1>2. \A x \in Slots : x # s => row'[x] = row[x] \/ (row[x] = None /\ row'[x] = FreshRow)
  BY DEF StoryInv, TypeOK, StubParent
<1>3. \A x \in Slots : RowShape(FreshRow, x)
  BY DEF RowShape, FreshRow
<1>4. VerdictShape'
  BY <1>1, <1>2, <1>3 DEF StoryInv, VerdictShape
<1>5. BlockStory'
  <2> SUFFICES ASSUME NEW b \in Blocks, block'[b] # None
               PROVE  row'[BlockSlot[b]] # None /\ Told(row'[BlockSlot[b]], b, block'[b])
    BY DEF BlockStory
  <2>1. CASE BlockSlot[b] = s
    BY <1>1, <2>1 DEF ToldAt
  <2>2. CASE BlockSlot[b] # s
    <3>1. BlockSlot[b] \in Slots /\ block'[b] = block[b]
      BY <2>2, StoreAssumption DEF OthersKept
    <3>2. row[BlockSlot[b]] # None /\ Told(row[BlockSlot[b]], b, block[b])
      BY <3>1 DEF StoryInv, BlockStory
    <3> QED BY <1>2, <2>2, <3>1, <3>2
  <2> QED BY <2>1, <2>2
<1> QED BY <1>4, <1>5

\* apply_finality_to_blocks settles every stored block a FINAL row lists.
LEMMA SettledStory ==
  ASSUME NEW blocks \in Bodies, NEW s \in Slots, NEW q \in SlotRow, RowShape(q, s),
         q.status = "Final",
         \A b \in Blocks : BlockSlot[b] = s /\ blocks[b] # None => b \in q.candidates
  PROVE  /\ OthersKept(blocks, SettleBlocks(blocks, q.final, q.candidates), s)
         /\ ToldAt(SettleBlocks(blocks, q.final, q.candidates), q, s)
<1>1. OthersKept(blocks, SettleBlocks(blocks, q.final, q.candidates), s)
  BY StoreAssumption DEF OthersKept, SettleBlocks, RowShape, Bodies
<1>2. ToldAt(SettleBlocks(blocks, q.final, q.candidates), q, s)
  BY StoreAssumption DEF ToldAt, Told, SettleBlocks, Bodies
<1> QED BY <1>1, <1>2

\* What the invariant says of the row of s and of the stored blocks of s.
LEMMA StoryAt ==
  ASSUME StoryInv, NEW s \in Slots
  PROVE  /\ Row(s) \in SlotRow
         /\ RowShape(Row(s), s)
         /\ \A b \in Blocks : BlockSlot[b] = s /\ block[b] # None
                                => b \in Row(s).candidates /\ Told(Row(s), b, block[b])
<1>1. Row(s) \in SlotRow
  BY RowType DEF StoryInv
<1>2. RowShape(FreshRow, s)
  BY DEF RowShape, FreshRow
<1>3. RowShape(Row(s), s)
  BY <1>2 DEF StoryInv, VerdictShape, Row, RowOrFresh
<1>4. ASSUME NEW b \in Blocks, BlockSlot[b] = s, block[b] # None
      PROVE  b \in Row(s).candidates /\ Told(Row(s), b, block[b])
  BY <1>4 DEF StoryInv, BlockStory, Told, Row, RowOrFresh
<1> QED BY <1>1, <1>3, <1>4

-----------------------------------------------------------------------------
(* The invariants, action by action. *)

\* An empty database tells no story yet.
LEMMA StoryInit == Init => StoryInv
BY TypeInit DEF Init, StoryInv, VerdictShape, BlockStory
\* handle_block: a late body is told at once what became of it.
LEMMA StoryHandleBlock ==
  ASSUME StoryInv, NEW b \in Blocks, HandleBlock(b)
  PROVE  VerdictShape' /\ BlockStory'
<1> DEFINE s == BlockSlot[b]
           seen == [Row(s) EXCEPT !.candidates = @ \cup {b},
                                  !.body = TRUE,
                                  !.status = IF @ = "Unknown" THEN "Candidate" ELSE @]
<1>1. s \in Slots
  BY StoreAssumption
<1>2. /\ Row(s) \in SlotRow
      /\ RowShape(Row(s), s)
      /\ \A c \in Blocks : BlockSlot[c] = s /\ block[c] # None
                             => c \in Row(s).candidates /\ Told(Row(s), c, block[c])
  BY <1>1, StoryAt
<1> HIDE DEF s
<1>3. /\ seen \in SlotRow
      /\ seen.candidates = Row(s).candidates \cup {b}
      /\ seen.status = "Final" <=> Row(s).status = "Final"
      /\ seen.is_miss = Row(s).is_miss /\ seen.final = Row(s).final
  BY <1>2 DEF SlotRow, SlotStatus
<1>4. row' = StubParent([row EXCEPT ![s] = seen], s)
      /\ block' = [block EXCEPT ![b] = Arrived(@, Row(s), b)]
  BY DEF HandleBlock, s
<1> HIDE DEF seen
<1>5. RowShape(seen, s)
  BY <1>2, <1>3 DEF RowShape, s
<1>6. OthersKept(block, block', s)
  BY <1>4 DEF OthersKept, s, StoryInv, TypeOK
<1>7. ToldAt(block', seen, s)
  <2> SUFFICES ASSUME NEW c \in Blocks, BlockSlot[c] = s, block'[c] # None
               PROVE  Told(seen, c, block'[c])
    BY DEF ToldAt
  <2>1. CASE c # b
    BY <1>2, <1>3, <1>4, <2>1 DEF Told, StoryInv, TypeOK
  <2>2. CASE c = b
    <3>1. block'[b] = Arrived(block[b], Row(s), b)
      BY <1>4 DEF StoryInv, TypeOK
    <3>2. CASE block[b] \in {None, "SeenCandidate"}
      BY <1>3, <2>2, <3>1, <3>2 DEF Told, Arrived, ArrivalStatus
    <3>3. CASE block[b] \notin {None, "SeenCandidate"}
      BY <1>2, <1>3, <2>2, <3>1, <3>3 DEF Told, Arrived
    <3> QED BY <3>2, <3>3
  <2> QED BY <2>1, <2>2
<1> QED BY <1>1, <1>3, <1>4, <1>5, <1>6, <1>7, StoryStep

\* handle_exec, CANDIDATE frame: only an open slot is touched.
LEMMA StoryHandleExecCandidate ==
  ASSUME StoryInv, NEW f \in ExecFrames, HandleExecCandidate(f)
  PROVE  VerdictShape' /\ BlockStory'
<1> DEFINE s == f.slot
           r == Row(s)
           new == [r EXCEPT !.status = "Candidate",
                            !.trail = TrailOr(f.trail, @),
                            !.executed = FirstExecuted(@, ExecutedOps(f)),
                            !.exec_cand = TRUE]
<1>1. s \in Slots
  BY MessageFacts DEF ExecFrame
<1>2. /\ r \in SlotRow
      /\ RowShape(r, s)
      /\ \A c \in Blocks : BlockSlot[c] = s /\ block[c] # None
                             => c \in r.candidates /\ Told(r, c, block[c])
  BY <1>1, StoryAt
<1>3. r.status # "Final" /\ row' = [row EXCEPT ![s] = new] /\ block' = block
  BY DEF HandleExecCandidate, Open
<1>4. new \in SlotRow
  <2>1. f.trail \in Trails \cup {None} /\ r.trail \in Trails \cup {None}
        /\ r.executed \in SUBSET Ops /\ ExecutedOps(f) \in SUBSET Ops
    BY <1>2, MessageFacts DEF SlotRow, ExecutedOps, ExecFrame
  <2>2. TrailOr(f.trail, r.trail) \in Trails \cup {None}
        /\ FirstExecuted(r.executed, ExecutedOps(f)) \in SUBSET Ops
    BY <2>1, TrailOrType, FirstExecutedType
  <2> QED BY <1>2, <2>2 DEF SlotRow, SlotStatus
<1>5. new.candidates = r.candidates /\ new.status = "Candidate"
      /\ new.is_miss = r.is_miss /\ new.final = r.final
  BY <1>2 DEF SlotRow
<1> HIDE DEF r, new
<1>6. RowShape(new, s)
  BY <1>2, <1>3, <1>5 DEF RowShape
<1>7. OthersKept(block, block', s) /\ ToldAt(block', new, s)
  BY <1>2, <1>3, <1>5 DEF OthersKept, ToldAt, Told
<1> QED BY <1>1, <1>3, <1>4, <1>6, <1>7, StoryStep

\* handle_exec, first FINAL frame: the candidates that lost are Discarded.
LEMMA StoryHandleExecFinal ==
  ASSUME StoryInv, NEW f \in ExecFrames, HandleExecFinal(f)
  PROVE  VerdictShape' /\ BlockStory'
<1> DEFINE s == f.slot
           r == Row(s)
           settled == [r EXCEPT !.status = "Final",
                                !.is_miss = f.block = None,
                                !.final = IF f.block = None THEN @ ELSE f.block,
                                !.trail = TrailOr(f.trail, @),
                                !.executed = FirstExecuted(@, ExecutedOps(f)),
                                !.exec_final = TRUE]
<1>1. s \in Slots /\ f.block \in Blocks \cup {None} /\ (f.block # None => BlockSlot[f.block] = s)
  BY MessageAssumption, MessageFacts DEF ExecFrame
<1>2. /\ r \in SlotRow
      /\ RowShape(r, s)
      /\ \A c \in Blocks : BlockSlot[c] = s /\ block[c] # None
                             => c \in r.candidates /\ Told(r, c, block[c])
  BY <1>1, StoryAt
<1>3. /\ r.status # "Final"
      /\ row' = StubParent([row EXCEPT ![s] = settled], s)
      /\ block' = SettleBlocks(block, settled.final, settled.candidates)
  BY DEF HandleExecFinal, Open
<1>4. settled \in SlotRow
  <2>1. f.trail \in Trails \cup {None} /\ r.trail \in Trails \cup {None}
        /\ r.executed \in SUBSET Ops /\ ExecutedOps(f) \in SUBSET Ops
    BY <1>2, MessageFacts DEF SlotRow, ExecutedOps, ExecFrame
  <2>2. TrailOr(f.trail, r.trail) \in Trails \cup {None}
        /\ FirstExecuted(r.executed, ExecutedOps(f)) \in SUBSET Ops
    BY <2>1, TrailOrType, FirstExecutedType
  <2> QED BY <1>1, <1>2, <2>2 DEF SlotRow, SlotStatus
<1>5. /\ settled.status = "Final" /\ settled.candidates = r.candidates
      /\ settled.is_miss = (f.block = None)
      /\ settled.final = IF f.block = None THEN r.final ELSE f.block
  BY <1>2 DEF SlotRow
<1> HIDE DEF r, settled
<1>6. RowShape(settled, s)
  BY <1>1, <1>2, <1>3, <1>5 DEF RowShape
<1>7. OthersKept(block, block', s) /\ ToldAt(block', settled, s)
  BY <1>1, <1>2, <1>3, <1>4, <1>5, <1>6, SettledStory DEF StoryInv, TypeOK, Bodies
<1> QED BY <1>1, <1>3, <1>4, <1>6, <1>7, StoryStep

\* complete_final_exec_from_node settles the blocks of the local verdict.
LEMMA StoryCompleteFinalExec ==
  ASSUME StoryInv, NEW f \in ExecFrames, CompleteFinalExec(f)
  PROVE  VerdictShape' /\ BlockStory'
<1> DEFINE s == f.slot
           r == row[s]
           new == [r EXCEPT !.trail = TrailOr(@, f.trail),
                            !.executed = FirstExecuted(@, ExecutedOps(f)),
                            !.exec_final = TRUE]
<1>1. s \in Slots
  BY MessageFacts DEF ExecFrame
<1>2. /\ r # None /\ r.status = "Final"
      /\ row' = [row EXCEPT ![s] = new]
      /\ block' = SettleBlocks(block, r.final, r.candidates)
  BY DEF CompleteFinalExec, IsFinal
<1>3. /\ r \in SlotRow
      /\ RowShape(r, s)
      /\ \A c \in Blocks : BlockSlot[c] = s /\ block[c] # None => c \in r.candidates
  BY <1>1, <1>2, StoryAt DEF Row, RowOrFresh
<1>4. new \in SlotRow
  <2>1. f.trail \in Trails \cup {None} /\ r.trail \in Trails \cup {None}
        /\ r.executed \in SUBSET Ops /\ ExecutedOps(f) \in SUBSET Ops
    BY <1>3, MessageFacts DEF SlotRow, ExecutedOps, ExecFrame
  <2>2. TrailOr(r.trail, f.trail) \in Trails \cup {None}
        /\ FirstExecuted(r.executed, ExecutedOps(f)) \in SUBSET Ops
    BY <2>1, TrailOrType, FirstExecutedType
  <2> QED BY <1>3, <2>2 DEF SlotRow
<1>5. new.candidates = r.candidates /\ new.status = r.status
      /\ new.is_miss = r.is_miss /\ new.final = r.final
  BY <1>3 DEF SlotRow
<1> HIDE DEF r, new
<1>6. RowShape(new, s)
  BY <1>3, <1>5 DEF RowShape
<1>7. OthersKept(block, block', s) /\ ToldAt(block', new, s)
  BY <1>1, <1>2, <1>3, <1>4, <1>5, <1>6, SettledStory DEF StoryInv, TypeOK, Bodies
<1> QED BY <1>1, <1>2, <1>4, <1>6, <1>7, StoryStep

\* handle_transfers touches no verdict and no block.
LEMMA StoryHandleTransfers ==
  ASSUME StoryInv, NEW f \in TransferFrames, HandleTransfers(f)
  PROVE  VerdictShape' /\ BlockStory'
<1> DEFINE s == f.slot
           r == Row(s)
           new == [r EXCEPT !.transfers = TRUE]
<1>1. s \in Slots
  BY MessageFacts DEF TransferFrame
<1>2. /\ r \in SlotRow
      /\ RowShape(r, s)
      /\ \A c \in Blocks : BlockSlot[c] = s /\ block[c] # None
                             => c \in r.candidates /\ Told(r, c, block[c])
  BY <1>1, StoryAt
<1>3. row' = [row EXCEPT ![s] = new] /\ block' = block
  BY DEF HandleTransfers
<1>4. new \in SlotRow /\ new.candidates = r.candidates /\ new.status = r.status
      /\ new.is_miss = r.is_miss /\ new.final = r.final
  BY <1>2 DEF SlotRow
<1> HIDE DEF r, new
<1>5. RowShape(new, s)
  BY <1>2, <1>4 DEF RowShape
<1>6. OthersKept(block, block', s) /\ ToldAt(block', new, s)
  BY <1>2, <1>3, <1>4 DEF OthersKept, ToldAt, Told
<1> QED BY <1>1, <1>3, <1>4, <1>5, <1>6, StoryStep
\* The parts of a peer patch keep the story once its verdict is in the row: the
\* body it ships is listed, and every block of the slot is settled.
LEMMA StoryApplyParts ==
  ASSUME StoryInv, NEW m \in PeerPatches, NEW r \in SlotRow, NEW blocks \in Bodies,
         NEW evs, NEW lists,
         ApplyParts(m, r, blocks, evs, lists),
         r.status = "Final", RowShape(r, m.slot),
         OthersKept(block, blocks, m.slot),
         \A b \in Blocks : BlockSlot[b] = m.slot /\ blocks[b] # None => b \in r.candidates
  PROVE  VerdictShape' /\ BlockStory'
<1> DEFINE s == m.slot
           has_body == m.body /\ ~m.is_miss
           exec == m.exec /\ ~r.exec_final
           xfers == m.transfers /\ ~r.transfers
           shipped == IF has_body THEN ShipBlock(blocks, m.block, m.status) ELSE blocks
           filled == [r EXCEPT !.candidates = IF has_body THEN @ \cup {m.block} ELSE @,
                               !.body = @ \/ has_body \/ m.is_miss,
                               !.executed = IF exec THEN FirstExecuted(@, m.executed) ELSE @,
                               !.exec_final = @ \/ exec,
                               !.transfers = @ \/ xfers]
<1>1. m \in PeerPatch /\ Names(m) /\ s \in Slots /\ m.status \in BlockStatus
  BY MessageFacts DEF PeerPatch
<1>2. filled \in SlotRow
  <2>1. ASSUME NEW c \in SUBSET Blocks, NEW b1 \in BOOLEAN, NEW e \in SUBSET Ops,
               NEW b2 \in BOOLEAN, NEW b3 \in BOOLEAN
        PROVE  [r EXCEPT !.candidates = c, !.body = b1, !.executed = e,
                         !.exec_final = b2, !.transfers = b3] \in SlotRow
    BY <2>1 DEF SlotRow
  <2>2. (IF has_body THEN r.candidates \cup {m.block} ELSE r.candidates) \in SUBSET Blocks
    BY <1>1 DEF SlotRow, Names
  <2>3. (IF exec THEN FirstExecuted(r.executed, m.executed) ELSE r.executed) \in SUBSET Ops
    <3>1. r.executed \in SUBSET Ops /\ m.executed \in SUBSET Ops
      BY <1>1 DEF SlotRow, PeerPatch
    <3> QED BY <3>1, FirstExecutedType
  <2> QED BY <2>1, <2>2, <2>3
<1>3. /\ filled.status = r.status /\ filled.is_miss = r.is_miss /\ filled.final = r.final
      /\ filled.candidates = IF has_body THEN r.candidates \cup {m.block} ELSE r.candidates
  BY DEF SlotRow
<1>4. /\ row' = StubParent([row EXCEPT ![s] = filled], s)
      /\ block' = SettleBlocks(shipped, filled.final, filled.candidates)
  BY DEF ApplyParts
<1> HIDE DEF filled
<1>5. has_body => m.block \in Blocks /\ BlockSlot[m.block] = s
  BY <1>1 DEF Names
<1>6. shipped \in Bodies
  BY <1>1, ShipBlockType
<1>7. RowShape(filled, s)
  BY <1>3, <1>5 DEF RowShape
<1>8. OthersKept(block, shipped, s)
  BY <1>5 DEF OthersKept, ShipBlock, Bodies
<1>9. \A b \in Blocks : BlockSlot[b] = s /\ shipped[b] # None => b \in filled.candidates
  BY <1>3, <1>5 DEF ShipBlock, Bodies
<1> HIDE DEF shipped, s
<1>10. OthersKept(shipped, block', s) /\ ToldAt(block', filled, s)
  BY <1>1, <1>2, <1>3, <1>4, <1>6, <1>7, <1>9, SettledStory
<1>11. OthersKept(block, block', s)
  BY <1>8, <1>10 DEF OthersKept
<1> QED BY <1>1, <1>2, <1>4, <1>7, <1>10, <1>11, StoryStep

\* A verdict taken from a message gives a well-shaped FINAL row.
LEMMA PromotedShape ==
  ASSUME NEW r \in SlotRow, NEW m, Names(m), RowShape(r, m.slot), r.status # "Final"
  PROVE  /\ Promoted(r, m) \in SlotRow
         /\ RowShape(Promoted(r, m), m.slot)
         /\ Promoted(r, m).status = "Final"
         /\ r.candidates \subseteq Promoted(r, m).candidates
<1>1. /\ Promoted(r, m).status = "Final" /\ Promoted(r, m).is_miss = m.is_miss
      /\ Promoted(r, m).final = IF m.is_miss THEN r.final ELSE m.block
      /\ Promoted(r, m).candidates = AddCandidate(r.candidates, m)
  BY DEF Promoted, SlotRow
<1> QED BY <1>1, PromotedType, StoreAssumption DEF RowShape, AddCandidate, Names

\* So does adopt_peer_verdict, whose row keeps every candidate.
LEMMA AdoptedShape ==
  ASSUME NEW r \in SlotRow, NEW m, Names(m), m.trail \in Trails \cup {None},
         RowShape(r, m.slot)
  PROVE  /\ Adopted(r, m) \in SlotRow
         /\ Adopted(r, m).status = r.status
         /\ r.status = "Final" => RowShape(Adopted(r, m), m.slot)
         /\ r.candidates \subseteq Adopted(r, m).candidates
         /\ RowShape([Adopted(r, m) EXCEPT !.status = "Final"], m.slot)
<1>1. /\ Adopted(r, m).status = r.status /\ Adopted(r, m).is_miss = m.is_miss
      /\ Adopted(r, m).final = m.block
      /\ Adopted(r, m).candidates = AddCandidate(r.candidates, m)
  BY DEF Adopted, SlotRow
<1>2. Adopted(r, m) \in SlotRow
  BY AdoptedType
<1> DEFINE q == [Adopted(r, m) EXCEPT !.status = "Final"]
<1>3. /\ q.status = "Final" /\ q.is_miss = m.is_miss /\ q.final = m.block
      /\ q.candidates = AddCandidate(r.candidates, m)
  BY <1>1, <1>2 DEF SlotRow
<1> HIDE DEF q
<1>4. RowShape(q, m.slot)
  BY <1>3, StoreAssumption DEF RowShape, AddCandidate, Names
<1>5. r.status = "Final" => RowShape(Adopted(r, m), m.slot)
  BY <1>1, StoreAssumption DEF RowShape, AddCandidate, Names
<1> QED BY <1>1, <1>2, <1>4, <1>5 DEF q, AddCandidate

\* apply_peer_patch as first verdict.
LEMMA StoryPromoteFromPeer ==
  ASSUME StoryInv, NEW m \in PeerPatches, PromoteFromPeer(m)
  PROVE  VerdictShape' /\ BlockStory'
<1> DEFINE p == Promoted(Row(m.slot), m)
           r == [p EXCEPT !.trail = TrailOr(m.trail, @)]
<1>1. m.slot \in Slots /\ m.trail \in Trails \cup {None} /\ Names(m)
  BY MessageFacts DEF PeerPatch
<1>2. /\ Row(m.slot) \in SlotRow
      /\ RowShape(Row(m.slot), m.slot)
      /\ \A c \in Blocks : BlockSlot[c] = m.slot /\ block[c] # None
                             => c \in Row(m.slot).candidates
  BY <1>1, StoryAt
<1>3. Row(m.slot).status # "Final" /\ ApplyParts(m, r, block, events, transfers)
  BY DEF PromoteFromPeer, Open
<1>4. /\ p \in SlotRow /\ RowShape(p, m.slot) /\ p.status = "Final"
      /\ Row(m.slot).candidates \subseteq p.candidates
  BY <1>1, <1>2, <1>3, PromotedShape
<1> HIDE DEF p
<1>5. TrailOr(m.trail, p.trail) \in Trails \cup {None}
  BY <1>1, <1>4, TrailOrType DEF SlotRow
<1>6. /\ r \in SlotRow /\ r.status = p.status /\ r.is_miss = p.is_miss
      /\ r.final = p.final /\ r.candidates = p.candidates
  BY <1>4, <1>5 DEF SlotRow
<1> HIDE DEF r
<1>7. RowShape(r, m.slot)
  BY <1>4, <1>6 DEF RowShape
<1>8. block \in Bodies /\ OthersKept(block, block, m.slot)
  BY DEF StoryInv, TypeOK, Bodies, OthersKept
<1> QED BY <1>2, <1>3, <1>4, <1>6, <1>7, <1>8, StoryApplyParts

\* apply_peer_patch on a slot with the peer's verdict.
LEMMA StoryCompleteFromPeer ==
  ASSUME StoryInv, NEW m \in PeerPatches, CompleteFromPeer(m)
  PROVE  VerdictShape' /\ BlockStory'
<1> DEFINE p == row[m.slot]
           r == [p EXCEPT !.trail = TrailOr(@, m.trail)]
<1>1. m.slot \in Slots /\ m.trail \in Trails \cup {None}
  BY MessageFacts DEF PeerPatch
<1>2. p # None /\ p.status = "Final" /\ ApplyParts(m, r, block, events, transfers)
  BY DEF CompleteFromPeer, IsFinal
<1>3. /\ p \in SlotRow
      /\ RowShape(p, m.slot)
      /\ \A c \in Blocks : BlockSlot[c] = m.slot /\ block[c] # None => c \in p.candidates
  BY <1>1, <1>2, StoryAt DEF Row, RowOrFresh
<1> HIDE DEF p
<1>4. TrailOr(p.trail, m.trail) \in Trails \cup {None}
  BY <1>1, <1>3, TrailOrType DEF SlotRow
<1>5. /\ r \in SlotRow /\ r.status = p.status /\ r.is_miss = p.is_miss
      /\ r.final = p.final /\ r.candidates = p.candidates
  BY <1>3, <1>4 DEF SlotRow
<1> HIDE DEF r
<1>6. RowShape(r, m.slot)
  BY <1>3, <1>5 DEF RowShape
<1>7. block \in Bodies /\ OthersKept(block, block, m.slot)
  BY DEF StoryInv, TypeOK, Bodies, OthersKept
<1> QED BY <1>2, <1>3, <1>5, <1>6, <1>7, StoryApplyParts

\* The superseded block is a block of the slot.
LEMMA SupersededOthers ==
  ASSUME StoryInv, NEW s \in Slots, NEW r \in SlotRow, RowShape(r, s)
  PROVE  /\ Superseded(block, r) \in Bodies
         /\ OthersKept(block, Superseded(block, r), s)
         /\ \A b \in Blocks : Superseded(block, r)[b] # None => block[b] # None
<1>1. Superseded(block, r) \in Bodies
  BY SupersededType DEF StoryInv, TypeOK, Bodies
<1>2. OthersKept(block, Superseded(block, r), s)
  BY StoreAssumption DEF OthersKept, Superseded, RowShape, SlotRow
<1>3. \A b \in Blocks : Superseded(block, r)[b] # None => block[b] # None
  BY DEF Superseded
<1> QED BY <1>1, <1>2, <1>3

\* apply_peer_patch when the arbiter sides with the peer.
LEMMA StoryRepairFromPeer ==
  ASSUME StoryInv, NEW m \in PeerPatches, RepairFromPeer(m)
  PROVE  VerdictShape' /\ BlockStory'
<1> DEFINE p == row[m.slot]
           r == Adopted(p, m)
           blocks == Superseded(block, p)
<1>1. m.slot \in Slots /\ m.trail \in Trails \cup {None} /\ Names(m)
  BY MessageFacts DEF PeerPatch
<1>2. /\ p # None /\ p.status = "Final"
      /\ ApplyParts(m, r, blocks, [events EXCEPT ![m.slot] = None],
                    [transfers EXCEPT ![m.slot] = {}])
  BY DEF RepairFromPeer, IsFinal
<1>3. /\ p \in SlotRow
      /\ RowShape(p, m.slot)
      /\ \A c \in Blocks : BlockSlot[c] = m.slot /\ block[c] # None => c \in p.candidates
  BY <1>1, <1>2, StoryAt DEF Row, RowOrFresh
<1> HIDE DEF p
<1>4. /\ r \in SlotRow /\ r.status = "Final" /\ RowShape(r, m.slot)
      /\ p.candidates \subseteq r.candidates
  BY <1>1, <1>2, <1>3, AdoptedShape
<1>5. /\ blocks \in Bodies /\ OthersKept(block, blocks, m.slot)
      /\ \A b \in Blocks : blocks[b] # None => block[b] # None
  BY <1>1, <1>3, SupersededOthers
<1> HIDE DEF r, blocks
<1>6. \A b \in Blocks : BlockSlot[b] = m.slot /\ blocks[b] # None => b \in r.candidates
  BY <1>3, <1>4, <1>5
<1> QED BY <1>2, <1>4, <1>5, <1>6, StoryApplyParts
\* apply_legacy_patch defers the settlement, but never contradicts the winner.
LEMMA StoryApplyLegacyPatch ==
  ASSUME StoryInv, NEW m \in LegacyPatches, ApplyLegacyPatch(m)
  PROVE  VerdictShape' /\ BlockStory'
<1> DEFINE s == m.slot
           r == Row(s)
           verdict == IF Open(r) THEN Promoted(r, m) ELSE r
           has_body == m.body /\ ~m.is_miss /\ ~r.body
           shipped == IF has_body THEN ShipBlock(block, m.block, "Final") ELSE block
           filled == [verdict EXCEPT
                        !.candidates = IF has_body THEN @ \cup {m.block} ELSE @,
                        !.body = @ \/ has_body \/ (m.is_miss /\ verdict.is_miss),
                        !.executed = FirstExecuted(@, m.executed)]
<1>1. m \in LegacyPatch /\ Names(m) /\ s \in Slots /\ LegacyAt(s)
  BY MessageFacts DEF LegacyPatch, LegacyAt
<1>2. /\ r \in SlotRow
      /\ RowShape(r, s)
      /\ \A c \in Blocks : BlockSlot[c] = s /\ block[c] # None
                             => c \in r.candidates /\ Told(r, c, block[c])
  BY <1>1, StoryAt
<1>3. /\ row' = StubParent([row EXCEPT ![s] = filled], s)
      /\ \/ block' = shipped
         \/ block' = SettleBlocks(shipped, filled.final, filled.candidates)
  BY DEF ApplyLegacyPatch
<1> HIDE DEF r, s
<1>4. /\ verdict \in SlotRow /\ verdict.status = "Final" /\ RowShape(verdict, s)
      /\ r.candidates \subseteq verdict.candidates
      /\ r.status = "Final" => verdict = r
  BY <1>1, <1>2, PromotedShape DEF Open, s
<1> HIDE DEF verdict
<1>5. /\ filled \in SlotRow
      /\ filled.status = verdict.status /\ filled.is_miss = verdict.is_miss
      /\ filled.final = verdict.final
      /\ filled.candidates = IF has_body THEN verdict.candidates \cup {m.block}
                                         ELSE verdict.candidates
  <2>1. (IF has_body THEN verdict.candidates \cup {m.block} ELSE verdict.candidates) \in SUBSET Blocks
    BY <1>1, <1>4 DEF SlotRow, Names
  <2>2. FirstExecuted(verdict.executed, m.executed) \in SUBSET Ops
    <3>1. m.executed \in SUBSET Ops /\ verdict.executed \in SUBSET Ops
      BY <1>1, <1>4 DEF LegacyPatch, SlotRow
    <3> QED BY <3>1, FirstExecutedType
  <2> DEFINE c == IF has_body THEN verdict.candidates \cup {m.block} ELSE verdict.candidates
             b1 == verdict.body \/ has_body \/ (m.is_miss /\ verdict.is_miss)
             e == FirstExecuted(verdict.executed, m.executed)
  <2>3. filled = [verdict EXCEPT !.candidates = c, !.body = b1, !.executed = e]
    OBVIOUS
  <2>4. c \in SUBSET Blocks /\ b1 \in BOOLEAN /\ e \in SUBSET Ops
    BY <2>1, <2>2
  <2>5. filled.candidates = IF has_body THEN verdict.candidates \cup {m.block}
                                       ELSE verdict.candidates
    BY <1>4, <2>4 DEF SlotRow
  <2> HIDE DEF filled, has_body, c, b1, e
  <2>6. /\ filled \in SlotRow /\ filled.status = verdict.status
        /\ filled.is_miss = verdict.is_miss /\ filled.final = verdict.final
    BY <1>4, <2>3, <2>4 DEF SlotRow
  <2> QED BY <2>5, <2>6, Zenon
<1> HIDE DEF filled
<1>6. has_body => m.block \in Blocks /\ BlockSlot[m.block] = s
  BY <1>1 DEF Names, s
<1>7. shipped \in Bodies
  BY ShipBlockType DEF StoryInv, TypeOK, Bodies, BlockStatus
<1>8. RowShape(filled, s)
  BY <1>4, <1>5, <1>6 DEF RowShape
<1>9. OthersKept(block, shipped, s)
  BY <1>6 DEF OthersKept, ShipBlock, StoryInv, TypeOK
<1>10. \A b \in Blocks : BlockSlot[b] = s /\ shipped[b] # None => b \in filled.candidates
  BY <1>2, <1>4, <1>5, <1>6 DEF ShipBlock, StoryInv, TypeOK
<1>11. ToldAt(shipped, filled, s)
  <2> SUFFICES ASSUME NEW b \in Blocks, BlockSlot[b] = s, shipped[b] # None
               PROVE  filled.final = b => shipped[b] # "Discarded"
    BY <1>1, <1>4, <1>5, <1>10 DEF ToldAt, Told
  <2>1. CASE block[b] = None
    BY <2>1 DEF ShipBlock, StoryInv, TypeOK
  <2>2. CASE block[b] # None
    <3>1. shipped[b] = block[b]
      BY <2>2 DEF ShipBlock, StoryInv, TypeOK
    <3>2. Told(r, b, block[b])
      BY <1>2, <2>2
    <3> HIDE DEF shipped
    <3>3. CASE r.status = "Final"
      BY <1>4, <1>5, <3>1, <3>2, <3>3 DEF Told
    <3>4. CASE r.status # "Final"
      BY <3>1, <3>2, <3>4 DEF Told
    <3> QED BY <3>3, <3>4
  <2> QED BY <2>1, <2>2
<1> HIDE DEF shipped
<1>12. CASE block' = shipped
  BY <1>1, <1>3, <1>5, <1>8, <1>9, <1>11, <1>12, StoryStep
<1>13. CASE block' = SettleBlocks(shipped, filled.final, filled.candidates)
  <2>1. OthersKept(shipped, block', s) /\ ToldAt(block', filled, s)
    BY <1>1, <1>4, <1>5, <1>7, <1>8, <1>10, <1>13, SettledStory
  <2>2. OthersKept(block, block', s)
    BY <1>9, <2>1 DEF OthersKept
  <2> QED BY <1>1, <1>3, <1>5, <1>8, <2>1, <2>2, StoryStep
<1> QED BY <1>3, <1>12, <1>13

\* apply_forced_verdict settles the blocks of the slot it forces.
LEMMA StoryApplyForcedVerdict ==
  ASSUME StoryInv, NEW m \in ForcedVerdicts, ApplyForcedVerdict(m)
  PROVE  VerdictShape' /\ BlockStory'
<1> DEFINE s == m.slot
           r == Row(s)
           adopted == [Adopted(r, m) EXCEPT !.status = "Final"]
           blocks == Superseded(block, r)
<1>1. s \in Slots /\ m.trail \in Trails \cup {None} /\ Names(m)
  BY MessageFacts DEF ForcedVerdict
<1>2. /\ r \in SlotRow
      /\ RowShape(r, s)
      /\ \A c \in Blocks : BlockSlot[c] = s /\ block[c] # None => c \in r.candidates
  BY <1>1, StoryAt
<1>3. /\ row' = [row EXCEPT ![s] = adopted]
      /\ block' = SettleBlocks(blocks, adopted.final, adopted.candidates)
  BY DEF ApplyForcedVerdict
<1> HIDE DEF r
<1>4. /\ adopted \in SlotRow /\ adopted.status = "Final" /\ RowShape(adopted, s)
      /\ r.candidates \subseteq adopted.candidates
  <2>1. /\ Adopted(r, m) \in SlotRow /\ r.candidates \subseteq Adopted(r, m).candidates
        /\ RowShape(adopted, s)
    BY <1>1, <1>2, AdoptedShape
  <2>2. ASSUME NEW q \in SlotRow
        PROVE  LET e == [q EXCEPT !.status = "Final"]
               IN  e \in SlotRow /\ e.status = "Final" /\ e.candidates = q.candidates
    BY <2>2 DEF SlotRow, SlotStatus
  <2> QED BY <2>1, <2>2
<1>5. /\ blocks \in Bodies /\ OthersKept(block, blocks, s)
      /\ \A b \in Blocks : blocks[b] # None => block[b] # None
  BY <1>1, <1>2, SupersededOthers
<1> HIDE DEF adopted, blocks, s
<1>6. \A b \in Blocks : BlockSlot[b] = s /\ blocks[b] # None => b \in adopted.candidates
  BY <1>2, <1>4, <1>5
<1>7. OthersKept(blocks, block', s) /\ ToldAt(block', adopted, s)
  BY <1>1, <1>3, <1>4, <1>5, <1>6, SettledStory
<1>8. OthersKept(block, block', s)
  BY <1>5, <1>7 DEF OthersKept
<1> QED BY <1>1, <1>3, <1>4, <1>7, <1>8, StoryStep

\* The invariant is inductive.
LEMMA StoryNext == StoryInv /\ [Next]_vars => StoryInv'
<1> SUFFICES ASSUME StoryInv, [Next]_vars
             PROVE  StoryInv'
  OBVIOUS
<1>0. TypeOK'
  BY TypeNext DEF StoryInv
<1>1. CASE UNCHANGED vars
  BY <1>1 DEF vars, StoryInv, TypeOK, VerdictShape, BlockStory
<1>2. ASSUME NEW b \in Blocks, HandleBlock(b)
      PROVE  VerdictShape' /\ BlockStory'
  BY <1>2, StoryHandleBlock
<1>3. ASSUME NEW f \in ExecFrames,
             HandleExecCandidate(f) \/ HandleExecFinal(f) \/ CompleteFinalExec(f)
      PROVE  VerdictShape' /\ BlockStory'
  BY <1>3, StoryHandleExecCandidate, StoryHandleExecFinal, StoryCompleteFinalExec
<1>4. ASSUME NEW f \in TransferFrames, HandleTransfers(f)
      PROVE  VerdictShape' /\ BlockStory'
  BY <1>4, StoryHandleTransfers
<1>5. ASSUME NEW m \in PeerPatches, ApplyPeerPatch(m)
      PROVE  VerdictShape' /\ BlockStory'
  BY <1>5, StoryPromoteFromPeer, StoryCompleteFromPeer, StoryRepairFromPeer DEF ApplyPeerPatch
<1>6. ASSUME NEW m \in LegacyPatches, ApplyLegacyPatch(m)
      PROVE  VerdictShape' /\ BlockStory'
  BY <1>6, StoryApplyLegacyPatch
<1>7. ASSUME NEW m \in ForcedVerdicts, ApplyForcedVerdict(m)
      PROVE  VerdictShape' /\ BlockStory'
  BY <1>7, StoryApplyForcedVerdict
<1> QED BY <1>0, <1>1, <1>2, <1>3, <1>4, <1>5, <1>6, <1>7 DEF Next, StoryInv

(***************************************************************************)
(* Whatever the sources send, in any order and any number of times, a slot *)
(* row that is FINAL names exactly one verdict, a miss or a block of that  *)
(* slot, and no other row names one (SlotState).                           *)
(***************************************************************************)
THEOREM VerdictShapeHolds == Spec => []VerdictShape
<1>1. StoryInv => VerdictShape
  BY DEF StoryInv
<1> QED BY <1>1, StoryInit, StoryNext, PTL DEF Spec

(***************************************************************************)
(* Block pages and slot pages always tell the same story: a stored block   *)
(* is listed at its slot, and its status is the one the slot's verdict     *)
(* gives it (apply_finality_to_blocks, handle_block, adopt_peer_verdict).  *)
(***************************************************************************)
THEOREM BlockStoryHolds == Spec => []BlockStory
<1>1. StoryInv => BlockStory
  BY DEF StoryInv
<1> QED BY <1>1, StoryInit, StoryNext, PTL DEF Spec

-----------------------------------------------------------------------------
(***************************************************************************)
(* First-final-wins and the finality ledger.  Every handler writes one     *)
(* slot row, and what it writes is of one of three kinds: the verdict is   *)
(* kept, a first verdict is settled, or a verdict is replaced by a source  *)
(* that may.                                                               *)
(***************************************************************************)

\* The row q is written at s, and the parent slot perhaps stubbed.
Written(s, q) ==
  row' = [row EXCEPT ![s] = q] \/ row' = StubParent([row EXCEPT ![s] = q], s)

KeepsVerdict(s, q) ==
  /\ (row[s] = None \/ row[s].status # "Final") => q.status # "Final"
  /\ row[s] # None /\ row[s].status = "Final" =>
       /\ q.status = "Final" /\ q.is_miss = row[s].is_miss /\ q.final = row[s].final
       /\ row[s].trail \in {None, q.trail}
       /\ row[s].exec_final => events'[s] = events[s]

FirstVerdict(s, q) ==
  /\ row[s] = None \/ row[s].status # "Final"
  /\ q.status = "Final"
  /\ <<s, VerdictOf(q)>> \in Stated

Overrules(s, q) ==
  /\ IsFinal(row, s)
  /\ q.status = "Final"
  /\ VerdictOf(q) # VerdictOf(row[s])
  /\ Overruled(s, VerdictOf(q))

\* The completeness bits of r stand in q.
BitsGrow(r, q) ==
  /\ r.body => q.body
  /\ r.exec_final => q.exec_final
  /\ r.exec_cand => q.exec_cand
  /\ r.transfers => q.transfers

\* A FINAL output is marked with its events, or was marked before.
ExecTold(s, q) ==
  q.exec_final =>
    \/ q.status = "Final" /\ events'[s] = VerdictOf(q)
    \/ row[s] # None /\ row[s].exec_final /\ (IsFinal(row, s) => KeepsVerdict(s, q))

\* A row becomes FINAL only with a parent row, unless it is forced.
GapTold(s, q) ==
  q.status = "Final" =>
    \/ IsFinal(row, s)
    \/ row' = StubParent([row EXCEPT ![s] = q], s)
    \/ ForcedAt(s)

\* What a step that writes q at s does to the parts of the slot.
PartsTold(s, q) ==
  /\ row[s] # None => BitsGrow(row[s], q) \/ Overruled(s, VerdictOf(q))
  /\ ExecTold(s, q)
  /\ GapTold(s, q)

Outcome(s, q) ==
  /\ q \in SlotRow
  /\ PartsTold(s, q)
  /\ Written(s, q)
  /\ \A x \in Slots : x # s => events'[x] = events[x]
  /\ KeepsVerdict(s, q) \/ FirstVerdict(s, q) \/ Overrules(s, q)

\* Row(s) is FINAL exactly when there is a FINAL row.
LEMMA RowFinal ==
  ASSUME NEW s
  PROVE  /\ Row(s).status = "Final" <=> (row[s] # None /\ row[s].status = "Final")
         /\ row[s] # None => Row(s) = row[s]
         /\ Row(s).exec_final => row[s] # None
BY DEF Row, RowOrFresh, FreshRow

\* handle_block keeps the verdict.
LEMMA OutcomeHandleBlock ==
  ASSUME StoryInv, NEW b \in Blocks, HandleBlock(b)
  PROVE  \E s \in Slots, q \in SlotRow : Outcome(s, q)
<1> DEFINE s == BlockSlot[b]
           q == [Row(s) EXCEPT !.candidates = @ \cup {b},
                               !.body = TRUE,
                               !.status = IF @ = "Unknown" THEN "Candidate" ELSE @]
<1>1. s \in Slots /\ Row(s) \in SlotRow
  BY StoreAssumption, RowType DEF StoryInv
<1>2. row' = StubParent([row EXCEPT ![s] = q], s) /\ events' = events
  BY DEF HandleBlock
<1> HIDE DEF s
<1>3. /\ q \in SlotRow
      /\ q.status = "Final" <=> Row(s).status = "Final"
      /\ q.is_miss = Row(s).is_miss /\ q.final = Row(s).final /\ q.trail = Row(s).trail
      /\ BitsGrow(Row(s), q) /\ q.exec_final = Row(s).exec_final
  BY <1>1 DEF SlotRow, SlotStatus, BitsGrow
<1> HIDE DEF q
<1>4. KeepsVerdict(s, q)
  BY <1>2, <1>3, RowFinal DEF KeepsVerdict
<1>5. PartsTold(s, q)
  BY <1>2, <1>3, <1>4, RowFinal DEF PartsTold, ExecTold, GapTold
<1> QED BY <1>1, <1>2, <1>3, <1>4, <1>5 DEF Outcome, Written

\* A CANDIDATE frame is only applied to an open slot.
LEMMA OutcomeHandleExecCandidate ==
  ASSUME StoryInv, NEW f \in ExecFrames, HandleExecCandidate(f)
  PROVE  \E s \in Slots, q \in SlotRow : Outcome(s, q)
<1> DEFINE s == f.slot
           r == Row(s)
           q == [r EXCEPT !.status = "Candidate",
                          !.trail = TrailOr(f.trail, @),
                          !.executed = FirstExecuted(@, ExecutedOps(f)),
                          !.exec_cand = TRUE]
<1>1. s \in Slots /\ r \in SlotRow /\ f.trail \in Trails \cup {None}
  BY MessageFacts, RowType DEF ExecFrame, StoryInv
<1>2. /\ r.status # "Final" /\ row' = [row EXCEPT ![s] = q]
      /\ events' = [events EXCEPT ![s] = FrameVerdict(f)]
  BY DEF HandleExecCandidate, Open
<1>3. /\ q \in SlotRow /\ q.status = "Candidate"
      /\ BitsGrow(r, q) /\ q.exec_final = r.exec_final
  <2>1. r.trail \in Trails \cup {None} /\ r.executed \in SUBSET Ops /\ ExecutedOps(f) \in SUBSET Ops
    BY <1>1 DEF SlotRow, ExecutedOps
  <2>2. TrailOr(f.trail, r.trail) \in Trails \cup {None}
        /\ FirstExecuted(r.executed, ExecutedOps(f)) \in SUBSET Ops
    BY <1>1, <2>1, TrailOrType, FirstExecutedType
  <2> QED BY <1>1, <2>2 DEF SlotRow, SlotStatus, BitsGrow
<1> HIDE DEF q
<1>4. KeepsVerdict(s, q)
  BY <1>2, <1>3, RowFinal DEF KeepsVerdict
<1>5. \A x \in Slots : x # s => events'[x] = events[x]
  BY <1>2 DEF StoryInv, TypeOK
<1>6. PartsTold(s, q)
  BY <1>2, <1>3, <1>4, RowFinal DEF PartsTold, ExecTold, GapTold
<1> QED BY <1>1, <1>2, <1>3, <1>4, <1>5, <1>6 DEF Outcome, Written

\* The first FINAL frame settles the slot as the frame says.
LEMMA OutcomeHandleExecFinal ==
  ASSUME StoryInv, NEW f \in ExecFrames, HandleExecFinal(f)
  PROVE  \E s \in Slots, q \in SlotRow : Outcome(s, q)
<1> DEFINE s == f.slot
           r == Row(s)
           q == [r EXCEPT !.status = "Final",
                          !.is_miss = f.block = None,
                          !.final = IF f.block = None THEN @ ELSE f.block,
                          !.trail = TrailOr(f.trail, @),
                          !.executed = FirstExecuted(@, ExecutedOps(f)),
                          !.exec_final = TRUE]
<1>1. /\ s \in Slots /\ r \in SlotRow /\ f.trail \in Trails \cup {None}
      /\ f.block \in Blocks \cup {None}
  BY MessageFacts, RowType DEF ExecFrame, StoryInv
<1>2. /\ r.status # "Final" /\ f.final
      /\ row' = StubParent([row EXCEPT ![s] = q], s)
      /\ events' = [events EXCEPT ![s] = FrameVerdict(f)]
  BY DEF HandleExecFinal, Open
<1>3. /\ q \in SlotRow /\ q.status = "Final"
      /\ q.is_miss = (f.block = None) /\ q.final = IF f.block = None THEN r.final ELSE f.block
      /\ BitsGrow(r, q)
  <2>1. r.trail \in Trails \cup {None} /\ r.executed \in SUBSET Ops /\ ExecutedOps(f) \in SUBSET Ops
    BY <1>1 DEF SlotRow, ExecutedOps
  <2>2. TrailOr(f.trail, r.trail) \in Trails \cup {None}
        /\ FirstExecuted(r.executed, ExecutedOps(f)) \in SUBSET Ops
    BY <1>1, <2>1, TrailOrType, FirstExecutedType
  <2> QED BY <1>1, <2>2 DEF SlotRow, SlotStatus, BitsGrow
<1> HIDE DEF q
<1>4. VerdictOf(q) = FrameVerdict(f)
  BY <1>3 DEF VerdictOf, FrameVerdict
<1>5. FirstVerdict(s, q)
  BY <1>2, <1>3, <1>4, RowFinal DEF FirstVerdict, Stated
<1>6. events'[s] = FrameVerdict(f) /\ \A x \in Slots : x # s => events'[x] = events[x]
  BY <1>1, <1>2 DEF StoryInv, TypeOK
<1>7. PartsTold(s, q)
  BY <1>2, <1>3, <1>4, <1>6, RowFinal DEF PartsTold, ExecTold, GapTold
<1> QED BY <1>1, <1>2, <1>3, <1>5, <1>6, <1>7 DEF Outcome, Written

\* complete_final_exec_from_node confirms the verdict, fills in the trail hash
\* and writes events only where none were settled.
LEMMA OutcomeCompleteFinalExec ==
  ASSUME StoryInv, NEW f \in ExecFrames, CompleteFinalExec(f)
  PROVE  \E s \in Slots, q \in SlotRow : Outcome(s, q)
<1> DEFINE s == f.slot
           r == row[s]
           q == [r EXCEPT !.trail = TrailOr(@, f.trail),
                          !.executed = FirstExecuted(@, ExecutedOps(f)),
                          !.exec_final = TRUE]
<1>1. /\ r # None /\ r.status = "Final" /\ ~TrailClash(r.trail, f.trail) /\ ~r.exec_final
      /\ VerdictOf(r) = FrameVerdict(f)
      /\ row' = [row EXCEPT ![s] = q]
      /\ events' = [events EXCEPT ![s] = FrameVerdict(f)]
  BY DEF CompleteFinalExec, IsFinal
<1>2. s \in Slots /\ r \in SlotRow /\ f.trail \in Trails \cup {None}
  BY <1>1, MessageFacts DEF ExecFrame, StoryInv, TypeOK
<1>3. /\ q \in SlotRow /\ q.status = r.status /\ q.is_miss = r.is_miss /\ q.final = r.final
      /\ q.trail = TrailOr(r.trail, f.trail) /\ BitsGrow(r, q)
  <2>1. r.trail \in Trails \cup {None} /\ r.executed \in SUBSET Ops /\ ExecutedOps(f) \in SUBSET Ops
    BY <1>2 DEF SlotRow, ExecutedOps
  <2>2. TrailOr(r.trail, f.trail) \in Trails \cup {None}
        /\ FirstExecuted(r.executed, ExecutedOps(f)) \in SUBSET Ops
    BY <1>2, <2>1, TrailOrType, FirstExecutedType
  <2> QED BY <1>2, <2>2 DEF SlotRow, BitsGrow
<1> HIDE DEF q
<1>4. KeepsVerdict(s, q)
  BY <1>1, <1>3 DEF KeepsVerdict, TrailOr
<1>5. events'[s] = FrameVerdict(f) /\ \A x \in Slots : x # s => events'[x] = events[x]
  BY <1>1, <1>2 DEF StoryInv, TypeOK
<1>6. VerdictOf(q) = VerdictOf(r)
  BY <1>3 DEF VerdictOf
<1>7. PartsTold(s, q)
  BY <1>1, <1>3, <1>5, <1>6 DEF PartsTold, ExecTold, GapTold, IsFinal
<1> QED BY <1>1, <1>2, <1>3, <1>4, <1>5, <1>7 DEF Outcome, Written

\* handle_transfers keeps the verdict.
LEMMA OutcomeHandleTransfers ==
  ASSUME StoryInv, NEW f \in TransferFrames, HandleTransfers(f)
  PROVE  \E s \in Slots, q \in SlotRow : Outcome(s, q)
<1> DEFINE s == f.slot
           q == [Row(s) EXCEPT !.transfers = TRUE]
<1>1. s \in Slots /\ Row(s) \in SlotRow
  BY MessageFacts, RowType DEF TransferFrame, StoryInv
<1>2. row' = [row EXCEPT ![s] = q] /\ events' = events
  BY DEF HandleTransfers
<1>3. /\ q \in SlotRow /\ q.status = Row(s).status /\ q.is_miss = Row(s).is_miss
      /\ q.final = Row(s).final /\ q.trail = Row(s).trail
      /\ BitsGrow(Row(s), q) /\ q.exec_final = Row(s).exec_final
  BY <1>1 DEF SlotRow, BitsGrow
<1> HIDE DEF q
<1>4. KeepsVerdict(s, q)
  BY <1>2, <1>3, RowFinal DEF KeepsVerdict
<1>5. PartsTold(s, q)
  BY <1>3, <1>4, RowFinal DEF PartsTold, ExecTold, GapTold, IsFinal
<1> QED BY <1>1, <1>2, <1>3, <1>4, <1>5 DEF Outcome, Written

\* The row q that the parts of a peer patch make of the row r: the verdict and the
\* trail hash are left alone, and the events too where they are settled; bits are
\* only set, and that of the FINAL output together with the events.
PartsMake(m, r, evs, q) ==
  /\ Written(m.slot, q)
  /\ q.status = r.status /\ q.is_miss = r.is_miss
  /\ q.final = r.final /\ q.trail = r.trail
  /\ r.exec_final => events' = evs
  /\ \A x \in Slots : x # m.slot => events'[x] = evs[x]
  /\ row' = StubParent([row EXCEPT ![m.slot] = q], m.slot)
  /\ BitsGrow(r, q)
  /\ q.exec_final => r.exec_final \/ events'[m.slot] = Named(m)

\* apply_block_part, apply_exec_part and apply_transfers_part make such a row.
LEMMA PartsRow ==
  ASSUME NEW m \in PeerPatch, Names(m), NEW r \in SlotRow, NEW blocks,
         NEW evs \in [Slots -> Verdicts \cup {None}], NEW lists,
         ApplyParts(m, r, blocks, evs, lists)
  PROVE  \E q \in SlotRow : PartsMake(m, r, evs, q)
<1> DEFINE s == m.slot
           has_body == m.body /\ ~m.is_miss
           exec == m.exec /\ ~r.exec_final
           xfers == m.transfers /\ ~r.transfers
           filled == [r EXCEPT !.candidates = IF has_body THEN @ \cup {m.block} ELSE @,
                               !.body = @ \/ has_body \/ m.is_miss,
                               !.executed = IF exec THEN FirstExecuted(@, m.executed) ELSE @,
                               !.exec_final = @ \/ exec,
                               !.transfers = @ \/ xfers]
<1>1. m \in PeerPatch /\ Names(m)
  OBVIOUS
<1>2. filled \in SlotRow
  <2>1. ASSUME NEW c \in SUBSET Blocks, NEW b1 \in BOOLEAN, NEW e \in SUBSET Ops,
               NEW b2 \in BOOLEAN, NEW b3 \in BOOLEAN
        PROVE  [r EXCEPT !.candidates = c, !.body = b1, !.executed = e,
                         !.exec_final = b2, !.transfers = b3] \in SlotRow
    BY <2>1 DEF SlotRow
  <2>2. (IF has_body THEN r.candidates \cup {m.block} ELSE r.candidates) \in SUBSET Blocks
    BY <1>1 DEF SlotRow, Names
  <2>3. (IF exec THEN FirstExecuted(r.executed, m.executed) ELSE r.executed) \in SUBSET Ops
    <3>1. r.executed \in SUBSET Ops /\ m.executed \in SUBSET Ops
      BY <1>1 DEF SlotRow, PeerPatch
    <3> QED BY <3>1, FirstExecutedType
  <2> QED BY <2>1, <2>2, <2>3
<1>3. /\ filled.status = r.status /\ filled.is_miss = r.is_miss
      /\ filled.final = r.final /\ filled.trail = r.trail
      /\ BitsGrow(r, filled) /\ filled.exec_final = (r.exec_final \/ exec)
  BY DEF SlotRow, BitsGrow
<1>4. row' = StubParent([row EXCEPT ![s] = filled], s)
      /\ events' = IF exec THEN [evs EXCEPT ![s] = Named(m)] ELSE evs
  BY DEF ApplyParts
<1>5. m.slot \in Slots
  BY <1>1 DEF PeerPatch
<1> HIDE DEF filled
<1> QED BY <1>2, <1>3, <1>4, <1>5 DEF Written, PartsMake

\* What a patch names is stated, and the row that takes it has that verdict.
LEMMA NamedStated ==
  /\ \A m \in PeerPatches \cup ForcedVerdicts \cup LegacyPatches : <<m.slot, Named(m)>> \in Stated
  /\ \A m, q : Names(m) /\ q.is_miss = m.is_miss /\ (~m.is_miss => q.final = m.block)
                => VerdictOf(q) = Named(m)
BY DEF Stated, Imposed, VerdictOf, Named, VerdictNamed, Names

\* apply_peer_patch as first verdict.
LEMMA OutcomePromoteFromPeer ==
  ASSUME StoryInv, NEW m \in PeerPatches, PromoteFromPeer(m)
  PROVE  \E s \in Slots, q \in SlotRow : Outcome(s, q)
<1> DEFINE p == Promoted(Row(m.slot), m)
           r == [p EXCEPT !.trail = TrailOr(m.trail, @)]
<1>1. m.slot \in Slots /\ m.trail \in Trails \cup {None} /\ Names(m)
  BY MessageFacts DEF PeerPatch
<1>2. Row(m.slot) \in SlotRow
  BY <1>1, RowType DEF StoryInv
<1>3. Row(m.slot).status # "Final" /\ ApplyParts(m, r, block, events, transfers)
  BY DEF PromoteFromPeer, Open
<1>4. /\ p \in SlotRow /\ p.status = "Final" /\ p.is_miss = m.is_miss
      /\ ~m.is_miss => p.final = m.block
      /\ BitsGrow(Row(m.slot), p) /\ p.exec_final = Row(m.slot).exec_final
  <2>1. p \in SlotRow
    BY <1>1, <1>2, PromotedType
  <2> QED BY <1>2, <2>1 DEF Promoted, SlotRow, BitsGrow
<1> HIDE DEF p
<1>5. TrailOr(m.trail, p.trail) \in Trails \cup {None}
  BY <1>1, <1>4, TrailOrType DEF SlotRow
<1>6. /\ r \in SlotRow /\ r.status = p.status /\ r.is_miss = p.is_miss /\ r.final = p.final
      /\ BitsGrow(p, r) /\ r.exec_final = p.exec_final
  BY <1>4, <1>5 DEF SlotRow, BitsGrow
<1> HIDE DEF r
<1>7. PICK q \in SlotRow : PartsMake(m, r, events, q)
  BY <1>3, <1>6, PartsRow, MessageFacts DEF StoryInv, TypeOK
<1> USE DEF PartsMake
<1>8. VerdictOf(q) = Named(m)
  BY <1>1, <1>4, <1>6, <1>7, NamedStated
<1>9. FirstVerdict(m.slot, q)
  BY <1>3, <1>4, <1>6, <1>7, <1>8, RowFinal, NamedStated DEF FirstVerdict
<1>10. PartsTold(m.slot, q)
  <2>1. row[m.slot] # None => BitsGrow(row[m.slot], q)
    BY <1>4, <1>6, <1>7, RowFinal DEF BitsGrow
  <2>2. ExecTold(m.slot, q)
    BY <1>3, <1>4, <1>6, <1>7, <1>8, RowFinal DEF ExecTold, IsFinal
  <2> QED BY <1>7, <2>1, <2>2 DEF PartsTold, GapTold
<1> QED BY <1>1, <1>7, <1>9, <1>10 DEF Outcome

\* apply_peer_patch on a slot with the peer's verdict.
LEMMA OutcomeCompleteFromPeer ==
  ASSUME StoryInv, NEW m \in PeerPatches, CompleteFromPeer(m)
  PROVE  \E s \in Slots, q \in SlotRow : Outcome(s, q)
<1> DEFINE p == row[m.slot]
           r == [p EXCEPT !.trail = TrailOr(@, m.trail)]
<1>1. m.slot \in Slots /\ m.trail \in Trails \cup {None}
  BY MessageFacts DEF PeerPatch
<1>2. /\ p # None /\ p.status = "Final" /\ ApplyParts(m, r, block, events, transfers)
      /\ VerdictOf(p) = Named(m)
  BY DEF CompleteFromPeer, IsFinal
<1>3. p \in SlotRow
  BY <1>1, <1>2 DEF StoryInv, TypeOK
<1>4. TrailOr(p.trail, m.trail) \in Trails \cup {None}
  BY <1>1, <1>3, TrailOrType DEF SlotRow
<1>5. /\ r \in SlotRow /\ r.status = p.status /\ r.is_miss = p.is_miss /\ r.final = p.final
      /\ r.exec_final = p.exec_final /\ r.trail = TrailOr(p.trail, m.trail)
      /\ BitsGrow(p, r)
  BY <1>3, <1>4 DEF SlotRow, BitsGrow
<1> HIDE DEF r
<1>6. PICK q \in SlotRow : PartsMake(m, r, events, q)
  BY <1>2, <1>5, PartsRow, MessageFacts DEF StoryInv, TypeOK
<1> USE DEF PartsMake
<1>7. KeepsVerdict(m.slot, q)
  BY <1>2, <1>5, <1>6 DEF KeepsVerdict, TrailOr
<1>8. PartsTold(m.slot, q)
  <2>1. BitsGrow(row[m.slot], q)
    BY <1>5, <1>6 DEF BitsGrow
  <2>2. VerdictOf(q) = Named(m)
    BY <1>2, <1>5, <1>6 DEF VerdictOf
  <2>3. ExecTold(m.slot, q)
    BY <1>2, <1>5, <1>6, <1>7, <2>2 DEF ExecTold
  <2> QED BY <1>2, <2>1, <2>3 DEF PartsTold, GapTold, IsFinal
<1> QED BY <1>1, <1>6, <1>7, <1>8 DEF Outcome

\* The arbiter never sides with a peer that agrees.
LEMMA ArbiterSidesWithOther ==
  ASSUME NEW rows, NEW blocks, NEW s, NEW local, NEW peer, NEW shipped,
         Arbitrate(rows, blocks, s, local, peer, shipped) = "AdoptPeer"
  PROVE  local # peer
BY DEF Arbitrate

\* apply_peer_patch when the arbiter sides with the peer.
LEMMA OutcomeRepairFromPeer ==
  ASSUME StoryInv, NEW m \in PeerPatches, RepairFromPeer(m)
  PROVE  \E s \in Slots, q \in SlotRow : Outcome(s, q)
<1> DEFINE p == row[m.slot]
           r == Adopted(p, m)
           blocks == Superseded(block, p)
           evs == [events EXCEPT ![m.slot] = None]
           lists == [transfers EXCEPT ![m.slot] = {}]
<1>1. m.slot \in Slots /\ m.trail \in Trails \cup {None} /\ Names(m)
  BY MessageFacts DEF PeerPatch
<1>2. /\ IsFinal(row, m.slot)
      /\ Arbitrate(row, block, m.slot, VerdictOf(p), Named(m), m.body) = "AdoptPeer"
      /\ ApplyParts(m, r, blocks, evs, lists)
  BY DEF RepairFromPeer
<1>3. p \in SlotRow /\ p.status = "Final"
  BY <1>1, <1>2 DEF StoryInv, TypeOK, IsFinal
<1>4. /\ r \in SlotRow /\ r.status = "Final" /\ r.is_miss = m.is_miss /\ r.final = m.block
      /\ ~r.exec_final
  <2>1. r \in SlotRow
    BY <1>1, <1>3, AdoptedType
  <2> QED BY <1>3, <2>1 DEF Adopted, SlotRow
<1>5. evs \in [Slots -> Verdicts \cup {None}] /\ (\A x \in Slots : x # m.slot => evs[x] = events[x])
  BY DEF StoryInv, TypeOK
<1>6. VerdictOf(p) # Named(m) /\ Overruled(m.slot, Named(m))
  <2>1. VerdictOf(p) # Named(m)
    BY <1>2, ArbiterSidesWithOther
  <2> QED BY <1>2, <2>1 DEF Overruled
<1> HIDE DEF r, blocks, evs, lists
<1>7. PICK q \in SlotRow : PartsMake(m, r, evs, q)
  BY <1>2, <1>4, <1>5, PartsRow, MessageFacts
<1> USE DEF PartsMake
<1>8. VerdictOf(q) = Named(m)
  BY <1>1, <1>4, <1>7, NamedStated
<1>9. Overrules(m.slot, q)
  BY <1>2, <1>4, <1>6, <1>7, <1>8 DEF Overrules
<1>10. PartsTold(m.slot, q)
  BY <1>2, <1>4, <1>6, <1>7, <1>8 DEF PartsTold, ExecTold, GapTold
<1> QED BY <1>1, <1>5, <1>7, <1>9, <1>10 DEF Outcome

\* apply_legacy_patch settles an open slot and keeps a verdict that is there.
LEMMA OutcomeApplyLegacyPatch ==
  ASSUME StoryInv, NEW m \in LegacyPatches, ApplyLegacyPatch(m)
  PROVE  \E s \in Slots, q \in SlotRow : Outcome(s, q)
<1> DEFINE s == m.slot
           r == Row(s)
           verdict == IF Open(r) THEN Promoted(r, m) ELSE r
           has_body == m.body /\ ~m.is_miss /\ ~r.body
           c == IF has_body THEN verdict.candidates \cup {m.block} ELSE verdict.candidates
           b1 == verdict.body \/ has_body \/ (m.is_miss /\ verdict.is_miss)
           e == FirstExecuted(verdict.executed, m.executed)
           q == [verdict EXCEPT !.candidates = c, !.body = b1, !.executed = e]
<1>1. m \in LegacyPatch /\ Names(m) /\ s \in Slots
  BY MessageFacts DEF LegacyPatch
<1>2. r \in SlotRow
  BY <1>1, RowType DEF StoryInv
<1>3. row' = StubParent([row EXCEPT ![s] = q], s) /\ events' = events
  BY DEF ApplyLegacyPatch
<1>4. /\ verdict \in SlotRow
      /\ r.status = "Final" => verdict = r
      /\ r.status # "Final" => verdict.status = "Final" /\ verdict.is_miss = m.is_miss
      /\ r.status # "Final" /\ ~m.is_miss => verdict.final = m.block
      /\ BitsGrow(r, verdict) /\ verdict.exec_final = r.exec_final
  <2>1. /\ Promoted(r, m) \in SlotRow
        /\ Promoted(r, m).status = "Final" /\ Promoted(r, m).is_miss = m.is_miss
        /\ ~m.is_miss => Promoted(r, m).final = m.block
        /\ BitsGrow(r, Promoted(r, m)) /\ Promoted(r, m).exec_final = r.exec_final
    BY <1>1, <1>2, PromotedType DEF Promoted, SlotRow, BitsGrow
  <2> QED BY <1>2, <2>1 DEF Open, BitsGrow
<1> HIDE DEF verdict, r
<1>5. c \in SUBSET Blocks /\ b1 \in BOOLEAN /\ e \in SUBSET Ops
  <2>1. c \in SUBSET Blocks
    BY <1>1, <1>4 DEF SlotRow, Names
  <2>2. m.executed \in SUBSET Ops /\ verdict.executed \in SUBSET Ops
    BY <1>1, <1>4 DEF LegacyPatch, SlotRow
  <2> QED BY <2>1, <2>2, FirstExecutedType
<1>6. verdict.body => b1
  OBVIOUS
<1> HIDE DEF c, b1, e, has_body
<1>7. /\ q \in SlotRow /\ q.status = verdict.status /\ q.is_miss = verdict.is_miss
      /\ q.final = verdict.final /\ q.trail = verdict.trail
      /\ BitsGrow(verdict, q) /\ q.exec_final = verdict.exec_final
  BY <1>4, <1>5, <1>6 DEF SlotRow, BitsGrow
<1> HIDE DEF q
<1>8. GapTold(s, q) /\ (row[s] # None => BitsGrow(row[s], q))
  BY <1>3, <1>4, <1>7, RowFinal DEF GapTold, BitsGrow, r
<1>9. CASE r.status = "Final"
  <2>1. KeepsVerdict(s, q)
    BY <1>3, <1>4, <1>7, <1>9, RowFinal DEF KeepsVerdict, r
  <2>2. PartsTold(s, q)
    BY <1>4, <1>7, <1>8, <1>9, <2>1, RowFinal DEF PartsTold, ExecTold, r
  <2> QED BY <1>1, <1>3, <1>7, <2>1, <2>2 DEF Outcome, Written
<1>10. CASE r.status # "Final"
  <2>1. VerdictOf(q) = Named(m)
    BY <1>1, <1>4, <1>7, <1>10, NamedStated
  <2>2. FirstVerdict(s, q)
    BY <1>4, <1>7, <1>10, <2>1, RowFinal, NamedStated DEF FirstVerdict, r
  <2>3. PartsTold(s, q)
    BY <1>4, <1>7, <1>8, <1>10, RowFinal DEF PartsTold, ExecTold, IsFinal, r
  <2> QED BY <1>1, <1>3, <1>7, <2>2, <2>3 DEF Outcome, Written
<1> QED BY <1>9, <1>10

\* apply_forced_verdict settles an open slot or overrules.
LEMMA OutcomeApplyForcedVerdict ==
  ASSUME StoryInv, NEW m \in ForcedVerdicts, ApplyForcedVerdict(m)
  PROVE  \E s \in Slots, q \in SlotRow : Outcome(s, q)
<1> DEFINE s == m.slot
           r == Row(s)
           p == Adopted(r, m)
           q == [p EXCEPT !.status = "Final"]
<1>1. s \in Slots /\ m.trail \in Trails \cup {None} /\ Names(m)
  BY MessageFacts DEF ForcedVerdict
<1>2. r \in SlotRow
  BY <1>1, RowType DEF StoryInv
<1>3. /\ ~(r.status = "Final" /\ VerdictOf(r) = Named(m))
      /\ row' = [row EXCEPT ![s] = q]
      /\ events' = [events EXCEPT ![s] = None]
  BY DEF ApplyForcedVerdict
<1>4. p \in SlotRow /\ p.is_miss = m.is_miss /\ p.final = m.block /\ ~p.exec_final
  <2>1. p \in SlotRow
    BY <1>1, <1>2, AdoptedType
  <2> QED BY <1>2, <2>1 DEF Adopted, SlotRow
<1> HIDE DEF p, r
<1>5. /\ q \in SlotRow /\ q.status = "Final" /\ q.is_miss = m.is_miss /\ q.final = m.block
      /\ ~q.exec_final
  BY <1>4 DEF SlotRow, SlotStatus
<1> HIDE DEF q
<1>6. VerdictOf(q) = Named(m)
  BY <1>1, <1>5, NamedStated
<1>7. \A x \in Slots : x # s => events'[x] = events[x]
  BY <1>3 DEF StoryInv, TypeOK
<1>8. PartsTold(s, q)
  BY <1>5, <1>6 DEF PartsTold, ExecTold, GapTold, Overruled, ForcedAt
<1>9. CASE r.status # "Final"
  <2>1. FirstVerdict(s, q)
    BY <1>5, <1>6, <1>9, RowFinal, NamedStated DEF FirstVerdict, r
  <2> QED BY <1>1, <1>3, <1>5, <1>7, <1>8, <2>1 DEF Outcome, Written
<1>10. CASE r.status = "Final"
  <2>1. IsFinal(row, s) /\ r = row[s]
    BY <1>10, RowFinal DEF r, IsFinal
  <2>2. Overrules(s, q)
    BY <1>3, <1>5, <1>6, <1>10, <2>1 DEF Overrules, Overruled
  <2> QED BY <1>1, <1>3, <1>5, <1>7, <1>8, <2>2 DEF Outcome, Written
<1> QED BY <1>9, <1>10

\* Every step of the writer is of one of the three kinds.
LEMMA EveryOutcome ==
  ASSUME StoryInv, Next
  PROVE  \E s \in Slots, q \in SlotRow : Outcome(s, q)
BY OutcomeHandleBlock, OutcomeHandleExecCandidate, OutcomeHandleExecFinal,
   OutcomeCompleteFinalExec, OutcomeHandleTransfers, OutcomePromoteFromPeer,
   OutcomeCompleteFromPeer, OutcomeRepairFromPeer, OutcomeApplyLegacyPatch,
   OutcomeApplyForcedVerdict DEF Next, ApplyPeerPatch

\* The rows after such a step: q at s, FreshRow where a parent was stubbed.
LEMMA RowsAfter ==
  ASSUME TypeOK, NEW s \in Slots, NEW q, Written(s, q)
  PROVE  /\ row'[s] = q
         /\ \A x \in Slots : x # s /\ row[x] # None => row'[x] = row[x]
         /\ \E p \in Slots : \A x \in Slots :
              x # s => row'[x] = IF x = p /\ row[x] = None THEN FreshRow ELSE row[x]
<1>1. row'[s] = q
  BY DEF Written, TypeOK, StubParent, Predecessor, Slots
<1>2. \A x \in Slots : x # s /\ row[x] # None => row'[x] = row[x]
  BY DEF Written, TypeOK, StubParent
<1> DEFINE Stubbed(p) ==
             \A x \in Slots :
               x # s => row'[x] = IF x = p /\ row[x] = None THEN FreshRow ELSE row[x]
<1> SUFFICES \E p \in Slots : Stubbed(p)
  BY <1>1, <1>2
<1> HIDE DEF Stubbed
<1>3. CASE row' = [row EXCEPT ![s] = q]
  <2>1. Stubbed(s)
    BY <1>3 DEF TypeOK, Stubbed
  <2> QED BY <2>1
<1>4. CASE row' = StubParent([row EXCEPT ![s] = q], s) /\ Predecessor(s) \in Slots /\ s[1] > 0
  <2>1. Predecessor(s) # s
    BY DEF Predecessor, Slots
  <2>2. Stubbed(Predecessor(s))
    BY <1>4, <2>1 DEF TypeOK, StubParent, Stubbed
  <2> QED BY <1>4, <2>2
<1>5. CASE row' = StubParent([row EXCEPT ![s] = q], s) /\ ~(Predecessor(s) \in Slots /\ s[1] > 0)
  <2>1. Stubbed(s)
    BY <1>5 DEF TypeOK, StubParent, Stubbed
  <2> QED BY <2>1
<1> QED BY <1>3, <1>4, <1>5 DEF Written

-----------------------------------------------------------------------------
(* First-final-wins. *)

\* The body of FirstFinalWins, as an action.
FinalKept ==
  \A s \in Slots : IsFinal(row, s) =>
    /\ IsFinal(row', s)
    /\ \/ /\ VerdictOf(row'[s]) = VerdictOf(row[s])
          /\ row[s].trail \in {None, row'[s].trail}
          /\ row[s].exec_final => events'[s] = events[s]
       \/ /\ VerdictOf(row'[s]) # VerdictOf(row[s])
          /\ Overruled(s, VerdictOf(row'[s]))

\* A step of any of the three kinds keeps what is FINAL.
LEMMA FinalKeptStep == StoryInv /\ [Next]_vars => [FinalKept]_vars
<1> SUFFICES ASSUME StoryInv, Next
             PROVE  FinalKept
  OBVIOUS
<1>1. PICK s \in Slots, q \in SlotRow : Outcome(s, q)
  BY EveryOutcome
<1>2. row'[s] = q /\ \A x \in Slots : x # s /\ row[x] # None => row'[x] = row[x]
  BY <1>1, RowsAfter DEF Outcome, StoryInv
<1>3. q # None
  BY <1>1, AbsentAssumption DEF Outcome
<1>4. ASSUME NEW x \in Slots, x # s, IsFinal(row, x)
      PROVE  /\ IsFinal(row', x)
             /\ VerdictOf(row'[x]) = VerdictOf(row[x])
             /\ row[x].trail \in {None, row'[x].trail}
             /\ row[x].exec_final => events'[x] = events[x]
  BY <1>1, <1>2, <1>4 DEF IsFinal, Outcome
<1>5. ASSUME IsFinal(row, s)
      PROVE  /\ IsFinal(row', s)
             /\ \/ /\ VerdictOf(row'[s]) = VerdictOf(row[s])
                   /\ row[s].trail \in {None, row'[s].trail}
                   /\ row[s].exec_final => events'[s] = events[s]
                \/ /\ VerdictOf(row'[s]) # VerdictOf(row[s])
                   /\ Overruled(s, VerdictOf(row'[s]))
  <2>1. CASE KeepsVerdict(s, q)
    BY <1>2, <1>3, <1>5, <2>1 DEF KeepsVerdict, IsFinal, VerdictOf
  <2>2. CASE FirstVerdict(s, q)
    BY <1>5, <2>2 DEF FirstVerdict, IsFinal
  <2>3. CASE Overrules(s, q)
    BY <1>2, <1>3, <2>3 DEF Overrules, IsFinal
  <2> QED BY <1>1, <2>1, <2>2, <2>3 DEF Outcome
<1> QED BY <1>4, <1>5 DEF FinalKept

(***************************************************************************)
(* First-final-wins holds of every handler of ingest.rs and peer/patch.rs: *)
(* a FINAL verdict, its trail hash and its settled execution output change *)
(* only when the arbiter sides with a peer or the operator forces a slot.  *)
(***************************************************************************)
THEOREM FirstFinalWinsHolds == Spec => FirstFinalWins
<1>1. FirstFinalWins <=> [][FinalKept]_vars
  BY PTL DEF FirstFinalWins, FinalKept
<1> QED BY <1>1, StoryInit, StoryNext, FinalKeptStep, PTL DEF Spec

-----------------------------------------------------------------------------
(* The completeness bits. *)

\* The body of BitsKept, as an action.
BitsStay ==
  \A s \in Slots : row[s] # None =>
       /\ row'[s] # None
       /\ \/ Bits(row[s]) \subseteq Bits(row'[s])
          \/ Overruled(s, VerdictOf(row'[s]))

\* Bits is monotone.
LEMMA BitsMonotone ==
  ASSUME NEW r, NEW q, BitsGrow(r, q)
  PROVE  Bits(r) \subseteq Bits(q)
<1> SUFFICES ASSUME NEW k \in {"body", "exec_final", "exec_cand", "transfers"}, r[k]
             PROVE  q[k]
  BY DEF Bits
<1>1. CASE k = "body"
  BY <1>1 DEF BitsGrow
<1>2. CASE k = "exec_final"
  BY <1>2 DEF BitsGrow
<1>3. CASE k = "exec_cand"
  BY <1>3 DEF BitsGrow
<1>4. CASE k = "transfers"
  BY <1>4 DEF BitsGrow
<1> QED BY <1>1, <1>2, <1>3, <1>4

\* Every step, of whatever source.
LEMMA BitsStayStep == StoryInv /\ [Next]_vars => [BitsStay]_vars
<1> SUFFICES ASSUME StoryInv, Next, NEW x \in Slots, row[x] # None
             PROVE  /\ row'[x] # None
                    /\ \/ Bits(row[x]) \subseteq Bits(row'[x])
                       \/ Overruled(x, VerdictOf(row'[x]))
  BY DEF BitsStay
<1>1. PICK s \in Slots, q \in SlotRow : Outcome(s, q)
  BY EveryOutcome
<1>2. row'[s] = q /\ (x # s => row'[x] = row[x])
  BY <1>1, RowsAfter DEF Outcome, StoryInv
<1>3. CASE x # s
  BY <1>2, <1>3
<1>4. CASE x = s
  BY <1>1, <1>2, <1>4, BitsMonotone, AbsentAssumption DEF Outcome, PartsTold
<1> QED BY <1>3, <1>4

(***************************************************************************)
(* What a slot advertises as stored stays stored under every handler of    *)
(* ingest.rs and peer/patch.rs: a completeness bit is cleared only by an   *)
(* overruling, together with the verdict it belonged to.                   *)
(***************************************************************************)
THEOREM BitsKeptHolds == Spec => BitsKept
<1>1. BitsKept <=> [][BitsStay]_vars
  BY PTL DEF BitsKept, BitsStay
<1> QED BY <1>1, StoryInit, StoryNext, BitsStayStep, PTL DEF Spec

-----------------------------------------------------------------------------
(* Settled events and visible gaps. *)

\* ExecMatchesVerdict, and that an open slot has no FINAL output: without it the
\* events of a candidate could be the ones a later verdict settles.
ExecInv ==
  \A s \in Slots :
    row[s] # None /\ row[s].exec_final =>
      row[s].status = "Final" /\ events[s] = VerdictOf(row[s])

\* Every step marks a FINAL output together with the events of the verdict.
LEMMA ExecInvStep == StoryInv /\ ExecInv /\ [Next]_vars => ExecInv'
<1> SUFFICES ASSUME StoryInv, ExecInv, [Next]_vars
             PROVE  ExecInv'
  OBVIOUS
<1>1. CASE UNCHANGED vars
  BY <1>1 DEF vars, ExecInv
<1>2. CASE Next
  <2>1. PICK s \in Slots, q \in SlotRow : Outcome(s, q)
    BY <1>2, EveryOutcome
  <2>2. row'[s] = q
    BY <2>1, RowsAfter DEF Outcome, StoryInv
  <2>3. PICK p \in Slots : \A x \in Slots :
          x # s => row'[x] = IF x = p /\ row[x] = None THEN FreshRow ELSE row[x]
    BY <2>1, RowsAfter DEF Outcome, StoryInv
  <2>4. ASSUME NEW x \in Slots, x # s, row'[x] # None, row'[x].exec_final
        PROVE  row'[x].status = "Final" /\ events'[x] = VerdictOf(row'[x])
    <3>1. row'[x] = row[x]
      BY <2>3, <2>4 DEF FreshRow
    <3> QED BY <2>1, <2>4, <3>1 DEF ExecInv, Outcome
  <2>5. ASSUME q.exec_final
        PROVE  q.status = "Final" /\ events'[s] = VerdictOf(q)
    <3> SUFFICES ASSUME row[s] # None, row[s].exec_final, IsFinal(row, s) => KeepsVerdict(s, q)
                 PROVE  q.status = "Final" /\ events'[s] = VerdictOf(q)
      BY <2>1, <2>5 DEF Outcome, PartsTold, ExecTold
    <3>1. row[s].status = "Final" /\ events[s] = VerdictOf(row[s])
      BY DEF ExecInv
    <3> QED BY <3>1 DEF KeepsVerdict, IsFinal, VerdictOf
  <2> QED BY <2>2, <2>4, <2>5 DEF ExecInv
<1> QED BY <1>1, <1>2

(***************************************************************************)
(* The SC events of a slot with a settled FINAL output are those of its    *)
(* verdict, for every order of frames, patches and repairs (handle_exec,   *)
(* complete_final_exec_from_node, apply_exec_part, adopt_peer_verdict).    *)
(***************************************************************************)
THEOREM ExecMatchesHolds == Spec => []ExecMatchesVerdict
<1>1. Init => ExecInv
  BY DEF Init, ExecInv
<1>2. ExecInv => ExecMatchesVerdict
  BY DEF ExecInv, ExecMatchesVerdict, IsFinal
<1> QED BY <1>1, <1>2, StoryInit, StoryNext, ExecInvStep, PTL DEF Spec

\* A step that makes a slot FINAL leaves a row below it, and no row vanishes.
LEMMA GapsStep == StoryInv /\ GapsVisible /\ [Next]_vars => GapsVisible'
<1> SUFFICES ASSUME StoryInv, GapsVisible, [Next]_vars
             PROVE  GapsVisible'
  OBVIOUS
<1>1. CASE UNCHANGED vars
  BY <1>1 DEF vars, GapsVisible, IsFinal
<1>2. CASE Next
  <2> SUFFICES ASSUME NEW x \in Slots, IsFinal(row', x), x[1] > 0, ~ForcedAt(x)
               PROVE  row'[Predecessor(x)] # None
    BY DEF GapsVisible
  <2>1. PICK s \in Slots, q \in SlotRow : Outcome(s, q)
    BY <1>2, EveryOutcome
  <2>2. row'[s] = q /\ q # None
    BY <2>1, RowsAfter, AbsentAssumption DEF Outcome, StoryInv
  <2>3. PICK p \in Slots : \A y \in Slots :
          y # s => row'[y] = IF y = p /\ row[y] = None THEN FreshRow ELSE row[y]
    BY <2>1, RowsAfter DEF Outcome, StoryInv
  <2>4. Predecessor(x) \in Slots /\ Predecessor(x) # x
    BY StoreAssumption DEF Predecessor, Slots, Threads
  <2>5. \A y \in Slots : row[y] # None => row'[y] # None
    BY <2>2, <2>3
  <2>6. CASE IsFinal(row, x)
    BY <2>4, <2>5, <2>6 DEF GapsVisible
  <2>7. CASE ~IsFinal(row, x)
    <3>1. x = s
      BY <2>3, <2>7 DEF IsFinal, FreshRow
    <3>2. row' = StubParent([row EXCEPT ![s] = q], s)
      BY <2>1, <2>2, <2>7, <3>1 DEF Outcome, PartsTold, GapTold, IsFinal
    <3> DEFINE rows == [row EXCEPT ![s] = q]
    <3>3. rows \in [Slots -> SlotRow \cup {None}]
      BY DEF StoryInv, TypeOK
    <3> HIDE DEF rows
    <3> QED BY <2>4, <3>1, <3>2, <3>3, FreshRowType, AbsentAssumption DEF StubParent, rows
  <2> QED BY <2>6, <2>7
<1> QED BY <1>1, <1>2

(***************************************************************************)
(* The backfill scanner sees every gap: below a FINAL slot that no         *)
(* operator forced there is a row, whichever handler finalised it          *)
(* (ensure_parent_stub).                                                   *)
(***************************************************************************)
THEOREM GapsVisibleHolds == Spec => []GapsVisible
<1>1. Init => GapsVisible
  BY DEF Init, GapsVisible, IsFinal
<1> QED BY <1>1, StoryInit, StoryNext, GapsStep, PTL DEF Spec

-----------------------------------------------------------------------------
(* The refinement. *)

Book == [s \in Slots |-> Entry(row[s])]

\* A verdict of a well-shaped FINAL row is a verdict of the ledger.
LEMMA VerdictOfType ==
  ASSUME NEW q \in SlotRow, NEW s, RowShape(q, s), q.status = "Final"
  PROVE  VerdictOf(q) \in Verdicts
BY DEF VerdictOf, Verdicts, RowShape, SlotRow

\* Only a verdict some message imposes may replace another.
LEMMA OverruledImposed ==
  ASSUME NEW s, NEW v, Overruled(s, v)
  PROVE  <<s, v>> \in Imposed
<1>1. PICK m \in PeerPatches \cup ForcedVerdicts : m.slot = s /\ Named(m) = v
  BY DEF Overruled
<1> QED BY <1>1 DEF Imposed

\* The entries after a step that writes q at s.
LEMMA BookAfter ==
  ASSUME StoryInv, NEW s \in Slots, NEW q \in SlotRow, Written(s, q)
  PROVE  \E p \in Slots :
           /\ \A x \in Slots : x # s =>
                Book'[x] = IF x = p /\ Book[x] = "absent" THEN "pending" ELSE Book[x]
           /\ Book'[s] = Entry(q)
<1>1. PICK p \in Slots : \A x \in Slots :
              x # s => row'[x] = IF x = p /\ row[x] = None THEN FreshRow ELSE row[x]
  BY RowsAfter DEF StoryInv
<1>2. Entry(FreshRow) = "pending"
  BY FreshRowType, AbsentAssumption DEF Entry, FreshRow
<1>3. \A x \in Slots : Book[x] = "absent" <=> row[x] = None
  <2> SUFFICES ASSUME NEW x \in Slots, row[x] # None
               PROVE  Entry(row[x]) # "absent"
    BY DEF Book, Entry
  <2>1. row[x] \in SlotRow /\ RowShape(row[x], x)
    BY DEF StoryInv, TypeOK, VerdictShape
  <2> QED BY <2>1, VerdictOfType, LedgerAssumption DEF Entry
<1>4. \A x \in Slots : x # s =>
         Book'[x] = IF x = p /\ Book[x] = "absent" THEN "pending" ELSE Book[x]
  BY <1>1, <1>2, <1>3 DEF Book
<1>5. Book'[s] = Entry(q)
  BY RowsAfter DEF Book, StoryInv
<1> QED BY <1>4, <1>5

\* A step of any of the three kinds is a step of the ledger.
LEMMA LedgerStep ==
  ASSUME StoryInv, Next
  PROVE  [Ledger!Next]_Book
<1>1. PICK s \in Slots, q \in SlotRow : Outcome(s, q)
  BY EveryOutcome
<1>2. PICK p \in Slots :
        /\ \A x \in Slots : x # s =>
             Book'[x] = IF x = p /\ Book[x] = "absent" THEN "pending" ELSE Book[x]
        /\ Book'[s] = Entry(q)
  BY <1>1, BookAfter DEF Outcome
<1>3. q \in SlotRow /\ q # None /\ RowShape(q, s)
  <2>1. VerdictShape'
    BY StoryNext DEF StoryInv
  <2>2. row'[s] = q /\ q # None
    BY <1>1, RowsAfter, AbsentAssumption DEF Outcome, StoryInv
  <2> QED BY <1>1, <2>1, <2>2 DEF VerdictShape, Outcome
<1>4. Book = [x \in Slots |-> Entry(row[x])] /\ Book' = [x \in Slots |-> Entry(row'[x])]
  BY DEF Book
<1> DEFINE noted == [x \in Slots |-> IF x \in {s, p} /\ Book[x] = "absent"
                                       THEN "pending" ELSE Book[x]]
<1>5. CASE KeepsVerdict(s, q)
  <2>1. Entry(q) = IF Book[s] = "absent" THEN "pending" ELSE Book[s]
    <3>1. CASE row[s] = None
      BY <1>3, <1>4, <1>5, <3>1 DEF KeepsVerdict, Entry
    <3>2. CASE row[s] # None /\ row[s].status # "Final"
      BY <1>3, <1>4, <1>5, <3>2 DEF KeepsVerdict, Entry
    <3>3. CASE row[s] # None /\ row[s].status = "Final"
      <4>1. Entry(q) = VerdictOf(q) /\ Book[s] = VerdictOf(row[s]) /\ VerdictOf(q) = VerdictOf(row[s])
        BY <1>3, <1>4, <1>5, <3>3 DEF KeepsVerdict, Entry, VerdictOf
      <4>2. VerdictOf(q) \in Verdicts
        BY <1>3, <1>5, <3>3, VerdictOfType DEF KeepsVerdict
      <4> QED BY <4>1, <4>2, LedgerAssumption
    <3> QED BY <3>1, <3>2, <3>3
  <2>2. Book' = noted
    BY <1>2, <1>4, <2>1
  <2>3. Ledger!Note(s, p)
    BY <1>4, <2>2 DEF Ledger!Note, Ledger!Noted
  <2> QED BY <2>3 DEF Ledger!Next
<1>6. CASE FirstVerdict(s, q)
  <2>1. Entry(q) = VerdictOf(q) /\ VerdictOf(q) \in Verdicts
    BY <1>3, <1>6, VerdictOfType DEF FirstVerdict, Entry
  <2>2. Book[s] \in {"absent", "pending"} /\ <<s, VerdictOf(q)>> \in Stated
    BY <1>4, <1>6 DEF FirstVerdict, Entry
  <2>3. Book' = [noted EXCEPT ![s] = VerdictOf(q)]
    BY <1>2, <1>4, <2>1
  <2>4. Ledger!Finalise(s, p, VerdictOf(q))
    BY <1>4, <2>2, <2>3 DEF Ledger!Finalise, Ledger!Noted
  <2> QED BY <2>1, <2>4 DEF Ledger!Next
<1>7. CASE Overrules(s, q)
  <2>1. Entry(q) = VerdictOf(q) /\ VerdictOf(q) \in Verdicts
    BY <1>3, <1>7, VerdictOfType DEF Overrules, Entry
  <2>2. Book[s] = VerdictOf(row[s]) /\ VerdictOf(row[s]) \in Verdicts
    <3>1. row[s] \in SlotRow /\ RowShape(row[s], s) /\ row[s].status = "Final" /\ row[s] # None
      BY <1>7 DEF Overrules, IsFinal, StoryInv, TypeOK, VerdictShape
    <3> QED BY <1>4, <3>1, VerdictOfType DEF Entry
  <2>3. <<s, VerdictOf(q)>> \in Imposed
    BY <1>7, OverruledImposed DEF Overrules
  <2>4. Book' = [noted EXCEPT ![s] = VerdictOf(q)]
    BY <1>2, <1>4, <2>1
  <2>5. Book[s] \notin {"absent", "pending", VerdictOf(q)}
    BY <1>7, <2>2, LedgerAssumption DEF Overrules
  <2>6. Ledger!Overrule(s, p, VerdictOf(q))
    BY <1>4, <2>3, <2>4, <2>5 DEF Ledger!Overrule, Ledger!Noted
  <2> QED BY <2>1, <2>6 DEF Ledger!Next
<1> QED BY <1>1, <1>5, <1>6, <1>7 DEF Outcome

(***************************************************************************)
(* The ingestion implements the finality ledger, whatever the sources      *)
(* send: a slot's verdict is written once, is one that a source stated,    *)
(* and is replaced only by one that a peer or the operator imposes.        *)
(***************************************************************************)
THEOREM LedgerImplemented == Spec => ImplementsLedger
<1>1. Init => Ledger!Init
  BY DEF Init, Ledger!Init, Entry
<1>2. StoryInv /\ [Next]_vars => [Ledger!Next]_Book
  <2>1. CASE UNCHANGED vars
    BY <2>1 DEF vars, Book
  <2> QED BY <2>1, LedgerStep
<1>3. ImplementsLedger <=> Ledger!Init /\ [][Ledger!Next]_Book
  BY PTL DEF ImplementsLedger, Ledger!Spec, Book
<1> QED BY <1>1, <1>2, <1>3, StoryInit, StoryNext, PTL DEF Spec
=============================================================================
