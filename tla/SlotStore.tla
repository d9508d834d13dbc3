------------------------------ MODULE SlotStore ------------------------------
(***************************************************************************)
(* The rows the indexer keeps in RocksDB (model.rs, db.rs) and the helpers *)
(* that every apply path shares (ingest.rs, peer/patch.rs).                *)
(*                                                                         *)
(* A slot is a pair <<period, thread>>.  A block id determines its header, *)
(* so the slot, the parents and the operations of a block are constants.   *)
(* Bodies, signatures, amounts, addresses and timestamps are left out: no  *)
(* property tells them apart.  `None' is Rust's Option::None, and also the *)
(* value of a key for which a column family holds no row.                  *)
(***************************************************************************)
EXTENDS Integers

CONSTANTS
  MaxPeriod,    \* bound: the last period of the instance (u64 in the code)
  ThreadCount,  \* number of threads (32 on mainnet)
  Blocks,       \* block ids
  Ops,          \* operation ids
  AsyncIds,     \* async-pool message ids
  DeferredIds,  \* deferred-call ids
  Trails,       \* execution trail hashes
  BlockSlot,    \* BlockSlot[b]: the slot in b's header
  Parents,      \* Parents[b][t]: the parent b's header names in thread t
  BlockOps,     \* BlockOps[b]: the operations in b's body
  None,         \* absent value or absent row
  Miss          \* the verdict "no block at this slot"

Threads == 0 .. ThreadCount - 1
Slots   == (0 .. MaxPeriod) \X Threads

SlotStatus    == {"Unknown", "Candidate", "Final"}
BlockStatus   == {"SeenCandidate", "Final", "Discarded"}
ExecStatus    == {"Ok", "Failed"}
AsyncState    == {"Pending", "Consumed", "Executed", "Cancelled"}
DeferredState == {"Registered", "Executed", "Failed", "Cancelled"}
Verdicts      == Blocks \cup {Miss}

ASSUME StoreAssumption ==
  /\ MaxPeriod \in Nat
  /\ ThreadCount \in Nat \ {0}
  /\ BlockSlot \in [Blocks -> Slots]
  /\ Parents \in [Blocks -> [Threads -> Blocks \cup {None}]]
  /\ BlockOps \in [Blocks -> SUBSET Ops]
  /\ None \notin Blocks /\ None \notin Trails /\ None # Miss
  /\ None \notin BlockStatus \cup ExecStatus \cup AsyncState \cup DeferredState
  /\ Miss \notin Blocks

(***************************************************************************)
(* SlotState with its SlotCompleteness bits flattened in.  `candidates' is *)
(* the duplicate-free list candidate_block_ids, `executed' the list        *)
(* executed_op_ids; sc_event_count is the size of the slot's event rows.   *)
(***************************************************************************)
SlotRow ==
  [status     : SlotStatus,
   is_miss    : BOOLEAN,
   final      : Blocks \cup {None},
   candidates : SUBSET Blocks,
   trail      : Trails \cup {None},
   executed   : SUBSET Ops,
   body       : BOOLEAN,      \* completeness.block_body_stored
   exec_final : BOOLEAN,      \* completeness.exec_output_final
   exec_cand  : BOOLEAN,      \* completeness.exec_output_candidate
   transfers  : BOOLEAN]      \* completeness.transfers_stored

\* StoredOperation: where it was included and what its execution gave.
OpRow ==
  [inclusions : SUBSET Blocks,
   cand       : ExecStatus \cup {None},
   fin        : ExecStatus \cup {None}]

AsyncRow    == [state : AsyncState, last_slot : Slots]
DeferredRow == [state : DeferredState, last_slot : Slots]

(***************************************************************************)
(* The rows of cf_transfer at a slot, by where they come from: <<"full",   *)
(* v>> is the transfer list of the execution that gave verdict v, and      *)
(* <<"legacy", v>> the partial list the legacy tables hold for it.         *)
(***************************************************************************)
TransferLists == {"full", "legacy"} \X Verdicts

\* An absent row is told apart from every row.
ASSUME AbsentAssumption ==
  /\ None \notin SlotRow /\ None \notin OpRow
  /\ None \notin AsyncRow /\ None \notin DeferredRow
  /\ None \notin Slots

FreshRow ==
  [status |-> "Unknown", is_miss |-> FALSE, final |-> None,
   candidates |-> {}, trail |-> None, executed |-> {},
   body |-> FALSE, exec_final |-> FALSE, exec_cand |-> FALSE,
   transfers |-> FALSE]

\* read_slot(..).unwrap_or_else(SlotState::fresh).
RowOrFresh(rows, s) == IF rows[s] = None THEN FreshRow ELSE rows[s]

\* (a.period, a.thread) < (b.period, b.thread).
SlotLess(a, b) == a[1] < b[1] \/ (a[1] = b[1] /\ a[2] < b[2])

\* Verdict::of_local, on a row that is FINAL.
VerdictOf(r) == IF r.is_miss THEN Miss ELSE r.final

\* The verdict a message names: is_miss, or the id it carries.
VerdictNamed(is_miss, b) == IF is_miss THEN Miss ELSE b

\* Mutant of Open: a miss may still be revised.
OpenUnlessBlock(r) == r.status # "Final" \/ r.is_miss

\* The first-final-wins test: a slot takes a first verdict only while it is open.
Open(r) == r.status # "Final"

IsFinal(rows, s) == rows[s] # None /\ rows[s].status = "Final"

IsFinalBlock(rows, s) ==
  IsFinal(rows, s) /\ ~rows[s].is_miss /\ rows[s].final # None

\* Mutant of SettleBlocks: the losing candidates are left as they are.
SettleWinnerOnly(blocks, winner, candidates) ==
  [b \in Blocks |-> IF b = winner /\ blocks[b] # None THEN "Final" ELSE blocks[b]]

(***************************************************************************)
(* apply_finality_to_blocks: every stored block among the candidates gets  *)
(* its terminal status, and so does a stored winner that is not among them.*)
(***************************************************************************)
SettleBlocks(blocks, winner, candidates) ==
  [b \in Blocks |->
     IF blocks[b] = None       THEN None
     ELSE IF b = winner        THEN "Final"
     ELSE IF b \in candidates  THEN "Discarded"
     ELSE blocks[b]]

(***************************************************************************)
(* ensure_parent_stub: an Unknown row for the previous slot of the thread, *)
(* unless there is a row already or the slot is in period 0.               *)
(***************************************************************************)
Predecessor(s) == <<s[1] - 1, s[2]>>

\* Mutant of StubParent: off by one at the first period.
StubParentAboveOne(rows, s) ==
  IF s[1] > 1 /\ rows[Predecessor(s)] = None
    THEN [rows EXCEPT ![Predecessor(s)] = FreshRow]
    ELSE rows

StubParent(rows, s) ==
  IF s[1] > 0 /\ rows[Predecessor(s)] = None
    THEN [rows EXCEPT ![Predecessor(s)] = FreshRow]
    ELSE rows

\* The FINAL head as the patch paths update it: it only moves forward.
AdvanceHead(head, s) ==
  IF head = None THEN s ELSE IF SlotLess(head, s) THEN s ELSE head
=============================================================================
