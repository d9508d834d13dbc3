----------------------------- MODULE SlotIngest ------------------------------
(***************************************************************************)
(* The ingestion state machine: the single writer that applies node events *)
(* (Block, Exec, Transfers) and patches (PeerPatch, LegacyPatch,           *)
(* ForcedVerdict) to the slot, block, operation, event, transfer, async    *)
(* and deferred rows (ingest.rs, peer/patch.rs).                           *)
(*                                                                         *)
(* Each action is one whole handler: the writer is one task, so handlers   *)
(* never interleave.  The environment is unrestricted: any block of        *)
(* Blocks and any message of the sets below may arrive at any time, late,  *)
(* twice, or never.  A message that the handler ignores is not a step.     *)
(*                                                                         *)
(* Left out: SSE frames and metrics; endorsement and denunciation rows     *)
(* (written once, never changed); secondary indexes.                       *)
(***************************************************************************)
EXTENDS Arbiter

CONSTANTS
  ExecFrames,      \* SlotExecutionOutput frames of the node
  TransferFrames,  \* NewTransfersInfoServer frames of the node
  PeerPatches,     \* FinalSlotResponses of peers with final_known
  LegacyPatches,   \* FinalSlotResponses made from the legacy tables
  ForcedVerdicts   \* [repair] force_miss verdicts

VARIABLES
  row,            \* cf_slot
  block,          \* cf_block: the status of every stored block
  op,             \* cf_operation
  events,         \* the execution whose SC events the slot's rows hold
  transfers,      \* the transfer lists the slot's rows come from
  async,          \* cf_async_msg
  deferred,       \* cf_deferred_call
  last_final,     \* cf_meta last_final_slot
  last_candidate  \* cf_meta last_candidate_slot

vars == <<row, block, op, events, transfers, async, deferred, last_final, last_candidate>>

-----------------------------------------------------------------------------
(* Messages. *)

PoolChange  == {"Set", "Update", "Delete"}
\* What the transfers of one slot say of one async message or deferred call: the
\* first terminal origin in the list, since later ones cannot regress the row.
AsyncMove    == {"Executed", "Cancelled"}
DeferredMove == DeferredState \cup {"Refund"}

ExecFrame ==
  [slot : Slots, final : BOOLEAN, block : Blocks \cup {None},
   trail : Trails \cup {None},
   ops   : [Ops -> ExecStatus \cup {"Unspecified", None}],
   pool  : [AsyncIds -> PoolChange \cup {None}]]

TransferFrame ==
  [slot : Slots, verdict : Verdicts,
   async    : [AsyncIds -> AsyncMove \cup {None}],
   deferred : [DeferredIds -> DeferredMove \cup {None}]]

(***************************************************************************)
(* `body': the block part is shipped, `ops' the operation rows that come   *)
(* with it, as the peer holds them; `exec' and `transfers': the part is non-empty,  *)
(* or the peer asserts that it holds it (completeness echo).               *)
(***************************************************************************)
PeerPatch ==
  [slot : Slots, is_miss : BOOLEAN, block : Blocks \cup {None},
   trail : Trails \cup {None},
   body : BOOLEAN, status : BlockStatus,
   ops : [Ops -> OpRow \cup {None}],
   exec : BOOLEAN, executed : SUBSET Ops,
   async : [AsyncIds -> AsyncState \cup {None}],
   transfers : BOOLEAN,
   async_moves : [AsyncIds -> AsyncMove \cup {None}],
   deferred : [DeferredIds -> DeferredState \cup {None}],
   deferred_moves : [DeferredIds -> DeferredMove \cup {None}]]

LegacyPatch ==
  [slot : Slots, is_miss : BOOLEAN, block : Blocks \cup {None},
   body : BOOLEAN, ops : [Ops -> OpRow \cup {None}],
   executed : SUBSET Ops, transfers : BOOLEAN]

ForcedVerdict == [slot : Slots, is_miss : BOOLEAN, block : Blocks \cup {None},
                  trail : Trails \cup {None}]

\* A final response names a block unless it says miss, and that block sits at
\* the slot; a node's frame likewise.
NamesVerdict(m) ==
  IF m.is_miss THEN m.block = None
  ELSE m.block \in Blocks /\ BlockSlot[m.block] = m.slot

ASSUME MessageAssumption ==
  /\ ExecFrames \subseteq ExecFrame
  /\ \A f \in ExecFrames : f.block # None => BlockSlot[f.block] = f.slot
  /\ TransferFrames \subseteq TransferFrame
  /\ PeerPatches \subseteq PeerPatch
  /\ LegacyPatches \subseteq LegacyPatch
  /\ ForcedVerdicts \subseteq ForcedVerdict
  /\ \A m \in PeerPatches \cup LegacyPatches \cup ForcedVerdicts : NamesVerdict(m)

-----------------------------------------------------------------------------
TypeOK ==
  /\ row \in [Slots -> SlotRow \cup {None}]
  /\ block \in [Blocks -> BlockStatus \cup {None}]
  /\ op \in [Ops -> OpRow \cup {None}]
  /\ events \in [Slots -> Verdicts \cup {None}]
  /\ transfers \in [Slots -> SUBSET TransferLists]
  /\ async \in [AsyncIds -> AsyncRow \cup {None}]
  /\ deferred \in [DeferredIds -> DeferredRow \cup {None}]
  /\ last_final \in Slots \cup {None}
  /\ last_candidate \in Slots \cup {None}

\* An empty database.
Init ==
  /\ row = [s \in Slots |-> None]
  /\ block = [b \in Blocks |-> None]
  /\ op = [o \in Ops |-> None]
  /\ events = [s \in Slots |-> None]
  /\ transfers = [s \in Slots |-> {}]
  /\ async = [m \in AsyncIds |-> None]
  /\ deferred = [d \in DeferredIds |-> None]
  /\ last_final = None
  /\ last_candidate = None

Row(s) == RowOrFresh(row, s)

-----------------------------------------------------------------------------
(* E_BLOCK *)

\* The operation row of a block's body: a new one, or one more inclusion.
IncludeOp(o, b) ==
  IF o = None
    THEN [inclusions |-> {b}, cand |-> None, fin |-> None]
    ELSE [o EXCEPT !.inclusions = @ \cup {b}]

ArrivalStatus(r, b) ==
  IF r.status # "Final" THEN "SeenCandidate"
  ELSE IF r.final = b THEN "Final" ELSE "Discarded"

\* The status of b's row after its body arrived: never downgraded.
Arrived(old, r, b) ==
  IF old \in {None, "SeenCandidate"} THEN ArrivalStatus(r, b) ELSE old

\* handle_block
HandleBlock(b) ==
  LET s == BlockSlot[b]
      r == Row(s)
      seen == [r EXCEPT !.candidates = @ \cup {b},
                        !.body = TRUE,
                        !.status = IF @ = "Unknown" THEN "Candidate" ELSE @]
  IN  /\ op' = [o \in Ops |-> IF o \in BlockOps[b] THEN IncludeOp(op[o], b) ELSE op[o]]
      /\ block' = [block EXCEPT ![b] = Arrived(@, r, b)]
      /\ row' = StubParent([row EXCEPT ![s] = seen], s)
      /\ UNCHANGED <<events, transfers, async, deferred, last_final, last_candidate>>

-----------------------------------------------------------------------------
(* E_EXEC *)

\* Mutant of ExecutedOp: the last FINAL status wins.
ExecutedOpLastWins(o, result, is_final) ==
  IF is_final THEN [o EXCEPT !.cand = result, !.fin = result]
              ELSE [o EXCEPT !.cand = result]

\* A FINAL status is written once; a CANDIDATE one follows the last frame.
ExecutedOp(o, result, is_final) ==
  IF ~is_final         THEN [o EXCEPT !.cand = result]
  ELSE IF o.fin = None THEN [o EXCEPT !.cand = result, !.fin = result]
  ELSE o

\* apply_executed_ops_changes: only operations with a row are updated.
ApplyExecutedOps(ops, f) ==
  [o \in Ops |->
     IF ops[o] = None \/ f.ops[o] \notin ExecStatus THEN ops[o]
     ELSE ExecutedOp(ops[o], f.ops[o], f.final)]

ExecutedOps(f) == {o \in Ops : f.ops[o] # None}

\* Mutant of PoolState: a DELETE forgets what the transfers said.
PoolStateForgets(a, change) ==
  CASE change = "Set"    -> "Pending"
    [] change = "Update" -> IF a = None THEN "Pending" ELSE a.state
    [] change = "Delete" -> "Consumed"

\* apply_async_pool_changes: SET writes a Pending row, DELETE spares a row
\* the transfers have classified.
PoolState(a, change) ==
  CASE change = "Set"    -> "Pending"
    [] change = "Update" -> IF a = None THEN "Pending" ELSE a.state
    [] change = "Delete" -> IF a # None /\ a.state \in {"Executed", "Cancelled"}
                              THEN a.state ELSE "Consumed"

ApplyPool(asyncs, f) ==
  [m \in AsyncIds |->
     IF f.pool[m] = None THEN asyncs[m]
     ELSE [state |-> PoolState(asyncs[m], f.pool[m]), last_slot |-> f.slot]]

FrameVerdict(f) == IF f.block = None THEN Miss ELSE f.block

\* The trail hash after a frame that may carry none.
TrailOr(trail, old) == IF trail = None THEN old ELSE trail

\* The operations an output lists stay as first recorded.
FirstExecuted(old, new) == IF old = {} THEN new ELSE old

\* handle_exec, CANDIDATE frame.
HandleExecCandidate(f) ==
  LET r == Row(f.slot) IN
  /\ ~f.final
  /\ Open(r)
  /\ events' = [events EXCEPT ![f.slot] = FrameVerdict(f)]
  /\ last_candidate' = f.slot
  /\ op' = ApplyExecutedOps(op, f)
  /\ row' = [row EXCEPT ![f.slot] =
               [r EXCEPT !.status = "Candidate",
                         !.trail = TrailOr(f.trail, @),
                         !.executed = FirstExecuted(@, ExecutedOps(f)),
                         !.exec_cand = TRUE]]
  /\ UNCHANGED <<block, transfers, async, deferred, last_final>>

\* handle_exec, FINAL frame on a slot that is not FINAL.
HandleExecFinal(f) ==
  LET r == Row(f.slot)
      settled == [r EXCEPT !.status = "Final",
                           !.is_miss = f.block = None,
                           !.final = IF f.block = None THEN @ ELSE f.block,
                           !.trail = TrailOr(f.trail, @),
                           !.executed = FirstExecuted(@, ExecutedOps(f)),
                           !.exec_final = TRUE]
  IN  /\ f.final
      /\ Open(r)
      /\ events' = [events EXCEPT ![f.slot] = FrameVerdict(f)]
      /\ last_final' = f.slot
      /\ block' = SettleBlocks(block, settled.final, settled.candidates)
      /\ op' = ApplyExecutedOps(op, f)
      /\ async' = ApplyPool(async, f)
      /\ row' = StubParent([row EXCEPT ![f.slot] = settled], f.slot)
      /\ UNCHANGED <<transfers, deferred, last_candidate>>

\* Two trail hashes that are both known and differ.
TrailClash(a, b) == a # None /\ b # None /\ a # b

\* handle_exec, FINAL frame on a slot that is FINAL: it only completes a slot
\* whose verdict it confirms (complete_final_exec_from_node).
CompleteFinalExec(f) ==
  LET r == row[f.slot] IN
  /\ f.final
  /\ IsFinal(row, f.slot)
  /\ ~TrailClash(r.trail, f.trail)
  /\ VerdictOf(r) = FrameVerdict(f)
  /\ ~r.exec_final
  /\ events' = [events EXCEPT ![f.slot] = FrameVerdict(f)]
  /\ op' = ApplyExecutedOps(op, f)
  /\ async' = ApplyPool(async, f)
  /\ block' = SettleBlocks(block, r.final, r.candidates)
  /\ row' = [row EXCEPT ![f.slot] =
               [r EXCEPT !.trail = TrailOr(@, f.trail),
                         !.executed = FirstExecuted(@, ExecutedOps(f)),
                         !.exec_final = TRUE]]
  /\ UNCHANGED <<transfers, deferred, last_final, last_candidate>>

-----------------------------------------------------------------------------
(* E_TRANSFERS *)

\* reconcile_async_from_transfers
ReconcileAsync(asyncs, moves, s) ==
  [m \in AsyncIds |->
     IF moves[m] = None THEN asyncs[m]
     ELSE [state |-> IF asyncs[m] # None /\ asyncs[m].state \in {"Executed", "Cancelled"}
                       THEN asyncs[m].state ELSE moves[m],
           last_slot |-> s]]

\* Mutant of DeferredStep: any state is replaced.
DeferredStepLast(d, move) ==
  IF move = "Refund" THEN IF d = None THEN "Registered" ELSE d.state ELSE move

\* reconcile_deferred_from_transfers: a terminal state stays.
DeferredStep(d, move) ==
  LET old == IF d = None THEN "Registered" ELSE d.state
  IN  IF old = "Registered" /\ move # "Refund" THEN move ELSE old

ReconcileDeferred(calls, moves, s) ==
  [d \in DeferredIds |->
     IF moves[d] = None THEN calls[d]
     ELSE [state |-> DeferredStep(calls[d], moves[d]), last_slot |-> s]]

\* handle_transfers
HandleTransfers(f) ==
  /\ transfers' = [transfers EXCEPT ![f.slot] = {<<"full", f.verdict>>}]
  /\ async' = ReconcileAsync(async, f.async, f.slot)
  /\ deferred' = ReconcileDeferred(deferred, f.deferred, f.slot)
  /\ row' = [row EXCEPT ![f.slot] = [Row(f.slot) EXCEPT !.transfers = TRUE]]
  /\ UNCHANGED <<block, op, events, last_final, last_candidate>>

-----------------------------------------------------------------------------
(* PEER_PATCH *)

Named(m) == VerdictNamed(m.is_miss, m.block)

\* The ids of a message that ships a block or names one.
AddCandidate(candidates, m) ==
  IF m.is_miss THEN candidates ELSE candidates \cup {m.block}

\* Mutant of Promoted: the row is built anew.
PromotedAfresh(r, m) ==
  [FreshRow EXCEPT !.status = "Final",
                   !.is_miss = m.is_miss,
                   !.final = m.block,
                   !.candidates = AddCandidate(r.candidates, m)]

\* The first FINAL verdict of a slot, from a patch.
Promoted(r, m) ==
  [r EXCEPT !.status = "Final",
            !.is_miss = m.is_miss,
            !.final = IF m.is_miss THEN @ ELSE m.block,
            !.candidates = AddCandidate(@, m)]

\* Mutants of Adopted: the name of a miss is stored as a block id; a miss keeps
\* the old block; the FINAL output of the old verdict still counts.
AdoptedByName(r, m) ==
  [FreshRow EXCEPT !.status = r.status, !.is_miss = m.is_miss,
                   !.final = Named(m), !.candidates = r.candidates]
AdoptedKeepsBlock(r, m) ==
  [FreshRow EXCEPT !.status = r.status, !.is_miss = m.is_miss,
                   !.final = IF m.is_miss THEN r.final ELSE m.block,
                   !.candidates = AddCandidate(r.candidates, m)]
AdoptedKeepsExec(r, m) ==
  [r EXCEPT !.is_miss = m.is_miss, !.final = m.block,
            !.candidates = AddCandidate(@, m), !.trail = m.trail]

\* adopt_peer_verdict, the slot row: what came with the old verdict is dropped.
Adopted(r, m) ==
  [r EXCEPT !.is_miss = m.is_miss,
            !.final = m.block,
            !.candidates = AddCandidate(@, m),
            !.trail = m.trail,
            !.executed = {},
            !.body = m.is_miss,
            !.exec_final = FALSE, !.exec_cand = FALSE, !.transfers = FALSE]

\* adopt_peer_verdict, the block rows: the superseded block is Discarded.
Superseded(blocks, r) ==
  [b \in Blocks |-> IF b = r.final /\ blocks[b] # None THEN "Discarded" ELSE blocks[b]]

\* apply_block_part: a body or an operation that is absent is written, a local
\* operation row only gains what it lacks.
ShipBlock(blocks, b, status) ==
  [blocks EXCEPT ![b] = IF @ = None THEN status ELSE @]

\* Mutant of MergedOp: the peer's inclusions replace those stored here.
MergedOpReplaces(local, shipped) ==
  LET settles == local.fin = None /\ shipped.fin # None
  IN  [inclusions |-> IF shipped.inclusions # {} THEN shipped.inclusions ELSE local.inclusions,
       cand |-> IF settles THEN shipped.fin ELSE local.cand,
       fin  |-> IF settles THEN shipped.fin ELSE local.fin]

\* A local row takes the FINAL status and the inclusions that it lacks.
MergedOp(local, shipped) ==
  LET settles == local.fin = None /\ shipped.fin # None
  IN  [inclusions |-> IF local.inclusions = {} THEN shipped.inclusions ELSE local.inclusions,
       cand |-> IF settles THEN shipped.fin ELSE local.cand,
       fin  |-> IF settles THEN shipped.fin ELSE local.fin]

ShipOps(ops, m) ==
  [o \in Ops |->
     IF m.ops[o] = None    THEN ops[o]
     ELSE IF ops[o] = None THEN m.ops[o]
     ELSE MergedOp(ops[o], m.ops[o])]

\* write_async_msg and write_deferred_call of the rows a peer ships: upserts.
ShipRows(rows, shipped, s) ==
  [i \in DOMAIN rows |->
     IF shipped[i] = None THEN rows[i] ELSE [state |-> shipped[i], last_slot |-> s]]

(***************************************************************************)
(* The rest of apply_peer_patch, once the row r carries the verdict of m:  *)
(* each part the peer ships is applied where the row lacks it, then the    *)
(* blocks are settled.  blocks, evs and lists are the block, event and     *)
(* transfer rows as the verdict step left them.                            *)
(***************************************************************************)
ApplyParts(m, r, blocks, evs, lists) ==
  LET s         == m.slot
      has_body  == m.body /\ ~m.is_miss
      exec      == m.exec /\ ~r.exec_final
      xfers     == m.transfers /\ ~r.transfers
      shipped   == IF has_body THEN ShipBlock(blocks, m.block, m.status) ELSE blocks
      pool      == IF exec THEN ShipRows(async, m.async, s) ELSE async
      filled    == [r EXCEPT !.candidates = IF has_body THEN @ \cup {m.block} ELSE @,
                             !.body = @ \/ has_body \/ m.is_miss,
                             !.executed = IF exec THEN FirstExecuted(@, m.executed) ELSE @,
                             !.exec_final = @ \/ exec,
                             !.transfers = @ \/ xfers]
  IN  /\ block' = SettleBlocks(shipped, filled.final, filled.candidates)
      /\ op' = IF has_body THEN ShipOps(op, m) ELSE op
      /\ events' = IF exec THEN [evs EXCEPT ![s] = Named(m)] ELSE evs
      /\ transfers' = IF xfers THEN [lists EXCEPT ![s] = {<<"full", Named(m)>>}] ELSE lists
      /\ async' = IF xfers THEN ReconcileAsync(pool, m.async_moves, s) ELSE pool
      /\ deferred' = IF xfers
                       THEN ReconcileDeferred(ShipRows(deferred, m.deferred, s),
                                              m.deferred_moves, s)
                       ELSE deferred
      /\ row' = StubParent([row EXCEPT ![s] = filled], s)
      /\ UNCHANGED last_candidate

\* apply_peer_patch on a slot that is not FINAL.
PromoteFromPeer(m) ==
  LET r == Row(m.slot) IN
  /\ Open(r)
  /\ last_final' = AdvanceHead(last_final, m.slot)
  /\ ApplyParts(m, [Promoted(r, m) EXCEPT !.trail = TrailOr(m.trail, @)],
                block, events, transfers)

\* apply_peer_patch on a slot that is FINAL with the same verdict.
CompleteFromPeer(m) ==
  LET r == row[m.slot] IN
  /\ IsFinal(row, m.slot)
  /\ VerdictOf(r) = Named(m)
  /\ ~TrailClash(r.trail, m.trail)
  /\ ApplyParts(m, [r EXCEPT !.trail = TrailOr(@, m.trail)], block, events, transfers)
  /\ UNCHANGED last_final

\* apply_peer_patch on a slot that is FINAL with another verdict, when the
\* chain linkage speaks for the peer.
RepairFromPeer(m) ==
  LET r == row[m.slot] IN
  /\ IsFinal(row, m.slot)
  /\ Arbitrate(row, block, m.slot, VerdictOf(r), Named(m), m.body) = "AdoptPeer"
  /\ ApplyParts(m, Adopted(r, m), Superseded(block, r),
                [events EXCEPT ![m.slot] = None], [transfers EXCEPT ![m.slot] = {}])
  /\ UNCHANGED last_final

ApplyPeerPatch(m) == PromoteFromPeer(m) \/ CompleteFromPeer(m) \/ RepairFromPeer(m)

-----------------------------------------------------------------------------
(* LEGACY_PATCH *)

\* apply_legacy_patch.  The block row a legacy table yields says Final.
ApplyLegacyPatch(m) ==
  LET s        == m.slot
      r        == Row(s)
      promote  == Open(r)
      verdict  == IF promote THEN Promoted(r, m) ELSE r
      has_body == m.body /\ ~m.is_miss /\ ~r.body
      shipped  == IF has_body THEN ShipBlock(block, m.block, "Final") ELSE block
      filled   == [verdict EXCEPT
                     !.candidates = IF has_body THEN @ \cup {m.block} ELSE @,
                     !.body = @ \/ has_body \/ (m.is_miss /\ verdict.is_miss),
                     !.executed = FirstExecuted(@, m.executed)]
  IN  /\ last_final' = IF promote THEN AdvanceHead(last_final, s) ELSE last_final
      /\ op' = IF has_body THEN ShipOps(op, m) ELSE op
      /\ transfers' = IF m.transfers
                        THEN [transfers EXCEPT ![s] = @ \cup {<<"legacy", Named(m)>>}]
                        ELSE transfers
      /\ block' = IF filled.exec_final /\ filled.body
                    THEN SettleBlocks(shipped, filled.final, filled.candidates)
                    ELSE shipped
      /\ row' = StubParent([row EXCEPT ![s] = filled], s)
      /\ UNCHANGED <<events, async, deferred, last_candidate>>

-----------------------------------------------------------------------------
(* FORCED_VERDICT *)

\* apply_forced_verdict: no arbiter, no head update, no parent stub.
ApplyForcedVerdict(m) ==
  LET s == m.slot
      r == Row(s)
      adopted == [Adopted(r, m) EXCEPT !.status = "Final"]
  IN  /\ ~(r.status = "Final" /\ VerdictOf(r) = Named(m))
      /\ block' = SettleBlocks(Superseded(block, r), adopted.final, adopted.candidates)
      /\ events' = [events EXCEPT ![s] = None]
      /\ transfers' = [transfers EXCEPT ![s] = {}]
      /\ row' = [row EXCEPT ![s] = adopted]
      /\ UNCHANGED <<op, async, deferred, last_final, last_candidate>>

-----------------------------------------------------------------------------
(* Events that change no row. *)

\* The early returns of handle_exec.
IgnoresExec(f) ==
  LET r == row[f.slot] IN
  /\ IsFinal(row, f.slot)
  /\ \/ ~f.final
     \/ TrailClash(r.trail, f.trail)
     \/ VerdictOf(r) # FrameVerdict(f)
     \/ r.exec_final

\* The early returns of apply_peer_patch.
IgnoresPeer(m) ==
  LET r == row[m.slot] IN
  /\ IsFinal(row, m.slot)
  /\ IF VerdictOf(r) = Named(m)
       THEN TrailClash(r.trail, m.trail)
       ELSE Arbitrate(row, block, m.slot, VerdictOf(r), Named(m), m.body) # "AdoptPeer"

\* The early return of apply_forced_verdict.
IgnoresForced(m) == IsFinal(row, m.slot) /\ VerdictOf(row[m.slot]) = Named(m)

-----------------------------------------------------------------------------
\* Ingest::handle: one event of either lane.
Next ==
  \/ \E b \in Blocks : HandleBlock(b)
  \/ \E f \in ExecFrames : \/ HandleExecCandidate(f)
                           \/ HandleExecFinal(f)
                           \/ CompleteFinalExec(f)
  \/ \E f \in TransferFrames : HandleTransfers(f)
  \/ \E m \in PeerPatches : ApplyPeerPatch(m)
  \/ \E m \in LegacyPatches : ApplyLegacyPatch(m)
  \/ \E m \in ForcedVerdicts : ApplyForcedVerdict(m)

Spec == Init /\ [][Next]_vars

-----------------------------------------------------------------------------
(* Safety. *)

RowShape(r, s) ==
  /\ r.status = "Final" <=> (r.is_miss \/ r.final # None)
  /\ ~(r.is_miss /\ r.final # None)
  /\ \A b \in r.candidates \cup ({r.final} \ {None}) : BlockSlot[b] = s

(***************************************************************************)
(* The shape of a slot row: a verdict is there exactly when the row is     *)
(* FINAL, it is a miss or a block of that slot, never both (SlotState,     *)
(* written by handle_exec, apply_peer_patch, apply_legacy_patch and        *)
(* adopt_peer_verdict).                                                    *)
(***************************************************************************)
VerdictShape == \A s \in Slots : row[s] # None => RowShape(row[s], s)

LegacyAt(s) == \E m \in LegacyPatches : m.slot = s

\* What the row r of b's slot and the status of b say of each other.
Told(r, b, status) ==
  /\ b \in r.candidates
  /\ r.status # "Final" => status = "SeenCandidate"
  /\ r.status = "Final" /\ r.final = b => status # "Discarded"
  /\ r.status = "Final" /\ ~LegacyAt(BlockSlot[b])
       => status = IF r.final = b THEN "Final" ELSE "Discarded"

(***************************************************************************)
(* A block page and the page of its slot tell the same story, in whatever  *)
(* order bodies, verdicts, repairs and replays came (handle_block,         *)
(* apply_finality_to_blocks, adopt_peer_verdict): a stored block is listed *)
(* at its slot, is SeenCandidate while the slot is open, and once the slot *)
(* is FINAL is Final if it won and Discarded if it lost.  Where the legacy *)
(* importer may have written (it defers that settlement) the winner is at  *)
(* least never called Discarded.                                           *)
(***************************************************************************)
BlockStory ==
  \A b \in Blocks : block[b] # None =>
    row[BlockSlot[b]] # None /\ Told(row[BlockSlot[b]], b, block[b])

(***************************************************************************)
(* The SC events of a slot whose FINAL output is marked as stored are those*)
(* of the execution that gave the slot its verdict: never those of a       *)
(* candidate, nor of a fork that was finalised and then repaired           *)
(* (handle_exec, apply_exec_part, adopt_peer_verdict).                     *)
(***************************************************************************)
ExecMatchesVerdict ==
  \A s \in Slots : IsFinal(row, s) /\ row[s].exec_final => events[s] = VerdictOf(row[s])

ForcedAt(s) == \E m \in ForcedVerdicts : m.slot = s

(***************************************************************************)
(* Parent-gap discovery leaves no hole the backfill scanner cannot see:    *)
(* below every FINAL slot there is a row, unless an operator forced the    *)
(* slot (ensure_parent_stub; apply_forced_verdict does not call it).       *)
(***************************************************************************)
GapsVisible ==
  \A s \in Slots :
    IsFinal(row, s) /\ s[1] > 0 /\ ~ForcedAt(s) => row[Predecessor(s)] # None

-----------------------------------------------------------------------------
(* Action properties. *)

\* The only two ways a FINAL verdict may be replaced: the arbiter sides with a
\* peer that ships v, or an operator forces v.
Overruled(s, v) ==
  \/ \E m \in ForcedVerdicts : m.slot = s /\ Named(m) = v
  \/ /\ IsFinal(row, s)
     /\ \E m \in PeerPatches :
          /\ m.slot = s /\ Named(m) = v
          /\ Arbitrate(row, block, s, VerdictOf(row[s]), v, m.body) = "AdoptPeer"

(***************************************************************************)
(* First-final-wins (7.1): no event of any source takes a FINAL slot back, *)
(* changes its verdict, its known trail hash or its settled execution      *)
(* output, except an overruling, which replaces the verdict.               *)
(***************************************************************************)
FirstFinalWins ==
  [][\A s \in Slots : IsFinal(row, s) =>
       /\ IsFinal(row', s)
       /\ \/ /\ VerdictOf(row'[s]) = VerdictOf(row[s])
             /\ row[s].trail \in {None, row'[s].trail}
             /\ row[s].exec_final => events'[s] = events[s]
          \/ /\ VerdictOf(row'[s]) # VerdictOf(row[s])
             /\ Overruled(s, VerdictOf(row'[s]))]_vars

Bits(r) == {k \in {"body", "exec_final", "exec_cand", "transfers"} : r[k]}

(***************************************************************************)
(* A completeness bit, once set, is cleared only together with the verdict *)
(* it belonged to: otherwise a settled slot would be fetched again, or a   *)
(* served slot would lose a part it advertised.                            *)
(***************************************************************************)
BitsKept ==
  [][\A s \in Slots : row[s] # None =>
       /\ row'[s] # None
       /\ \/ Bits(row[s]) \subseteq Bits(row'[s])
          \/ Overruled(s, VerdictOf(row'[s]))]_vars

(***************************************************************************)
(* What an operation's page showed as final stays: a FINAL execution       *)
(* status is written once, and an inclusion is never lost (handle_block,   *)
(* apply_executed_ops_changes, apply_block_part).                          *)
(***************************************************************************)
OpHistory ==
  [][\A o \in Ops : op[o] # None =>
       /\ op'[o] # None
       /\ op[o].inclusions \subseteq op'[o].inclusions
       /\ op[o].fin \in {None, op'[o].fin}]_vars

(***************************************************************************)
(* A deferred call that executed, failed or was cancelled leaves that      *)
(* state only when a peer ships another row for it with its transfers      *)
(* (apply_transfers_part): transfers that come late, twice or from a slot  *)
(* before never take it back (reconcile_deferred_from_transfers).          *)
(***************************************************************************)
DeferredLeavesOnlyByPeer ==
  [][\A d \in DeferredIds :
       deferred[d] # None /\ deferred[d].state # "Registered"
         => \/ deferred'[d] # None /\ deferred'[d].state = deferred[d].state
            \/ \E p \in PeerPatches : /\ p.transfers /\ ApplyPeerPatch(p)
                                       /\ p.deferred[d] \notin {None, deferred[d].state}]_vars

(***************************************************************************)
(* An async message that executed or was cancelled leaves that state only  *)
(* when a FINAL output sets the message anew or a peer ships another row   *)
(* for it (apply_async_pool_changes, reconcile_async_from_transfers,       *)
(* apply_exec_part): a late DELETE of the pool, which cannot tell the two  *)
(* apart, never takes the classification back.                             *)
(***************************************************************************)
AsyncLeavesOnlyBySet ==
  [][\A m \in AsyncIds :
       async[m] # None /\ async[m].state \in {"Executed", "Cancelled"}
         => \/ async'[m] # None /\ async'[m].state = async[m].state
            \/ \E f \in ExecFrames : f.final /\ f.pool[m] = "Set"
                                     /\ async'[m] = [state |-> "Pending", last_slot |-> f.slot]
            \/ \E p \in PeerPatches : /\ p.exec /\ ApplyPeerPatch(p)
                                       /\ p.async[m] \notin {None, async[m].state}]_vars
=============================================================================
