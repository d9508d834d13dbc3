----------------------------- MODULE IndexStore ------------------------------
(***************************************************************************)
(* The stored tables with their secondary indexes (db.rs, keys.rs): what   *)
(* each write_* puts, what the clear_* of a slot and the upserts delete,   *)
(* and the offline rebuild (reindex-secondaries).                          *)
(*                                                                         *)
(* The tables do not share keys, so one behaviour is about one `table'.    *)
(* A slot is one number, larger is newer.  A primary key is <<slot, n>>    *)
(* where rows are kept per slot (n is index_in_slot), and <<0, n>> where   *)
(* they are kept by id.  The fields that no key is made of are left out.   *)
(*                                                                         *)
(* A write_* or clear_* is one RocksDB batch, hence one step; a handler    *)
(* that replaces the rows of a slot takes several (`job'), and a crash may *)
(* fall between two of them.                                               *)
(***************************************************************************)
EXTENDS Naturals, FiniteSets, Sequences

CONSTANTS
  None,
  Rows,          \* Rows[t]: the rows the messages may ask table t to store
  Batches,       \* the rows of one slot, as a stream or a peer delivers them
  LegacyBatches  \* the rows of one slot, as the legacy importer delivers them

SlotTables   == {"transfer", "event"}  \* keyed by slot and index_in_slot
OnceTables   == {"endorsement", "denunciation"}
Tables       == SlotTables \cup OnceTables \cup {"slot", "block", "op", "async", "deferred"}
BySlot       == SlotTables \cup {"slot"}

PrimaryKey(t, r) == IF t \in BySlot THEN <<r.slot, r.n>> ELSE <<0, r.n>>

-----------------------------------------------------------------------------
(* Index keys.  An entry names its column family, the prefix that owns it,   *)
(* and what orders it under that prefix.                                     *)

Entry(cf, owner, slot, n, tag) ==
  [cf |-> cf, owner |-> owner, slot |-> slot, n |-> n, tag |-> tag]

\* A key that is only there when the field is.
IfSome(cf, owner, slot, n, tag) ==
  {Entry(cf, o, slot, n, tag) : o \in {owner} \ {None}}

\* Mutant of TransferKeys: the addr index counts from one.
TransferKeysFromOne(r) ==
  IfSome("transfer_by_addr", r.from, r.slot, r.n + 1, 1)
  \cup IfSome("transfer_by_addr", r.to, r.slot, r.n + 1, 2)
  \cup IfSome("transfer_by_op", r.op, r.slot, r.n, 0)
  \cup IfSome("transfer_by_block", r.block, r.slot, r.n, 0)

TransferKeys(r) ==
  IfSome("transfer_by_addr", r.from, r.slot, r.n, 1)
  \cup IfSome("transfer_by_addr", r.to, r.slot, r.n, 2)
  \cup IfSome("transfer_by_op", r.op, r.slot, r.n, 0)
  \cup IfSome("transfer_by_block", r.block, r.slot, r.n, 0)

EventKeys(r) ==
  {Entry("sc_event_by_emitter", a, r.slot, r.n, 0) : a \in r.emitters}
  \cup {Entry("sc_event_by_caller", a, r.slot, r.n, 0) : a \in r.callers}
  \cup IfSome("sc_event_by_op", r.op, r.slot, r.n, 0)

BlockKeys(r) == {Entry("block_by_creator", r.creator, r.slot, r.n, 0)}

EndorsementKeys(r) == {Entry("endorsement_by_creator", r.creator, r.slot, r.n, 0)}

\* Filed under the first inclusion, if there is one.
OpKeys(r) ==
  IF r.first = None THEN {}
  ELSE {Entry("op_by_creator", r.creator, r.first, r.n, 0)}
       \cup IfSome("op_by_target", r.target, r.first, r.n, 0)

DenunciationKeys(r) ==
  IfSome("denunciation_by_addr", r.addr, r.slot, r.n, 0)
  \cup {Entry("denunciation_recent", None, r.slot, r.n, 0)}

\* The last_slot index has the slot for its prefix.
AsyncKeys(r) ==
  IfSome("async_by_sender", r.sender, 0, r.n, 0)
  \cup IfSome("async_by_dest", r.dest, 0, r.n, 0)
  \cup IfSome("async_by_last_slot", r.last, 0, r.n, 0)

DeferredKeys(r) ==
  IfSome("deferred_by_sender", r.sender, 0, r.n, 0)
  \cup IfSome("deferred_by_target", r.target, 0, r.n, 0)
  \cup IfSome("deferred_by_last_slot", r.last, 0, r.n, 0)

KeysOf(t, r) ==
  CASE t = "transfer"     -> TransferKeys(r)
    [] t = "event"        -> EventKeys(r)
    [] t = "block"        -> BlockKeys(r)
    [] t = "op"           -> OpKeys(r)
    [] t = "endorsement"  -> EndorsementKeys(r)
    [] t = "denunciation" -> DenunciationKeys(r)
    [] t = "async"        -> AsyncKeys(r)
    [] t = "deferred"     -> DeferredKeys(r)
    [] t = "slot"         -> {}

\* SECONDARY_INDEX_CFS, for each table its own.
IndexCfs(t) ==
  CASE t = "transfer"     -> {"transfer_by_addr", "transfer_by_op", "transfer_by_block"}
    [] t = "event"        -> {"sc_event_by_emitter", "sc_event_by_caller", "sc_event_by_op"}
    [] t = "block"        -> {"block_by_creator"}
    [] t = "op"           -> {"op_by_creator", "op_by_target"}
    [] t = "endorsement"  -> {"endorsement_by_creator"}
    [] t = "denunciation" -> {"denunciation_by_addr", "denunciation_recent"}
    [] t = "async"        -> {"async_by_sender", "async_by_dest", "async_by_last_slot"}
    [] t = "deferred"     -> {"deferred_by_sender", "deferred_by_target", "deferred_by_last_slot"}
    [] t = "slot"         -> {}

\* The key of the row an entry leads to.
Target(t, e) == IF t \in BySlot THEN <<e.slot, e.n>> ELSE <<0, e.n>>

ASSUME StoreAssumption ==
  /\ DOMAIN Rows = Tables
  /\ \A t \in Tables : None \notin Rows[t]
  /\ \A t \in Tables : \A r \in Rows[t] : r.n \in Nat
  /\ \A t \in BySlot \cup OnceTables \cup {"block"} : \A r \in Rows[t] : r.slot \in Nat
  /\ \A r \in Rows["op"] : r.first \in Nat \cup {None}
  \* An id is a hash of the contents: only the inclusions of an op may differ.
  /\ \A r, q \in Rows["block"] : r.n = q.n => r = q
  /\ \A r, q \in Rows["endorsement"] : r.n = q.n => r = q
  /\ \A r, q \in Rows["op"] : r.n = q.n =>
       /\ r.creator = q.creator /\ r.target = q.target
       /\ [r EXCEPT !.first = q.first] \in Rows["op"]
  /\ \A r \in Rows["op"] :
       r = [n |-> r.n, creator |-> r.creator, target |-> r.target, first |-> r.first]
  /\ \A r \in Rows["denunciation"] :
       /\ r = [n |-> r.n, slot |-> r.slot, addr |-> r.addr, included |-> r.included]
       /\ [r EXCEPT !.included = TRUE] \in Rows["denunciation"]
  /\ DOMAIN Batches = SlotTables
  /\ \A t \in SlotTables : Batches[t] \subseteq Seq(Rows[t])
  \* index_in_slot counts the rows of a list.
  /\ \A t \in SlotTables : \A batch \in Batches[t] :
       \A i, j \in DOMAIN batch : batch[i].n = batch[j].n => i = j
  /\ LegacyBatches \subseteq Seq(Rows["transfer"])

-----------------------------------------------------------------------------
VARIABLES
  table,    \* which table this behaviour is about
  primary,  \* its stored rows, by primary key
  index,    \* the entries of its index column families
  job,      \* the rows the writer's current handler has still to write
  legacy,   \* the current handler is apply_legacy_patch
  tool,     \* the state of reindex-secondaries
  intact,   \* FALSE from a rebuild that began until one ends
  stale     \* history: entries of rows that a legacy row has overwritten

svars == <<table, primary, index, job, legacy, tool, intact, stale>>

PrimaryKeys(t) == {PrimaryKey(t, r) : r \in Rows[t]}
Stored         == {k \in PrimaryKeys(table) : primary[k] # None}

\* What the index should hold.
Exact == UNION {KeysOf(table, primary[k]) : k \in Stored}

Tool == [pc : {"off", "wipe", "replay"}, cfs : SUBSET UNION {IndexCfs(t) : t \in Tables},
         keys : SUBSET UNION {PrimaryKeys(t) : t \in Tables}]
Off  == [pc |-> "off", cfs |-> {}, keys |-> {}]

StoreInit ==
  /\ table \in Tables
  /\ primary = [k \in PrimaryKeys(table) |-> None]
  /\ index = {}
  /\ job = <<>> /\ legacy = FALSE
  /\ tool = Off /\ intact = TRUE
  /\ stale = {}

\* The writer of a running server is free.
Ready == tool.pc = "off" /\ job = <<>>

Put(r) ==
  /\ primary' = [primary EXCEPT ![PrimaryKey(table, r)] = r]
  /\ index' = index \cup KeysOf(table, r)

-----------------------------------------------------------------------------
(* Slot tables: clear, then write one by one. *)

SlotKeys(s) == {k \in Stored : k[1] = s}

\* The rows of the slot go, with the keys their decoded contents give.
DropSlot(s) ==
  /\ primary' = [k \in DOMAIN primary |-> IF k \in SlotKeys(s) THEN None ELSE primary[k]]
  /\ index' = index \ UNION {KeysOf(table, primary[k]) : k \in SlotKeys(s)}

BeginSlot(s, batch) ==
  /\ Ready
  /\ batch \in Batches[table]
  /\ \A i \in DOMAIN batch : batch[i].slot = s
  /\ DropSlot(s)
  /\ job' = batch
  /\ UNCHANGED <<table, legacy, tool, intact, stale>>

\* clear_transfers_for_slot, at the start of a transfer list
ClearTransfers(s, batch) == table = "transfer" /\ BeginSlot(s, batch)

\* clear_sc_events_for_slot, at the start of an execution output
ClearScEvents(s, batch) == table = "event" /\ BeginSlot(s, batch)

\* The transfers of a legacy patch are written over whatever is there.
BeginLegacy(batch) ==
  /\ table = "transfer"
  /\ Ready
  /\ batch \in LegacyBatches
  /\ job' = batch /\ legacy' = (batch # <<>>)
  /\ UNCHANGED <<table, primary, index, tool, intact, stale>>

\* The keys the row at k had and r does not have.
Replaced(k, r) ==
  IF primary[k] = None THEN {} ELSE KeysOf(table, primary[k]) \ KeysOf(table, r)

WriteRow ==
  /\ tool.pc = "off"
  /\ job # <<>>
  /\ Put(Head(job))
  /\ job' = Tail(job)
  /\ legacy' = (legacy /\ Tail(job) # <<>>)
  /\ stale' = stale \cup (IF legacy THEN Replaced(PrimaryKey(table, Head(job)), Head(job))
                                    ELSE {})
  /\ UNCHANGED <<table, tool, intact>>

WriteTransfer == table = "transfer" /\ WriteRow
WriteScEvent  == table = "event" /\ WriteRow

-----------------------------------------------------------------------------
(* Tables by id. *)

Settled == UNCHANGED <<table, job, legacy, tool, intact, stale>>

WriteSlot(r) == table = "slot" /\ Ready /\ Put(r) /\ Settled

WriteBlock(r) == table = "block" /\ Ready /\ Put(r) /\ Settled

\* Inclusions are appended: the first one stays, a missing one is filled in.
KeptFirst(old, r) == IF old.first # None THEN [r EXCEPT !.first = old.first] ELSE r

WriteOp(r) ==
  /\ table = "op"
  /\ Ready
  /\ LET old == primary[PrimaryKey(table, r)]
     IN  Put(IF old = None THEN r ELSE KeptFirst(old, r))
  /\ Settled

\* First write wins.
WriteEndorsement(r) ==
  /\ table = "endorsement"
  /\ Ready
  /\ primary[PrimaryKey(table, r)] = None
  /\ Put(r)
  /\ Settled

\* First write wins, except that the including block is filled in.
WriteDenunciation(r) ==
  LET k == PrimaryKey(table, r) IN
  /\ table = "denunciation"
  /\ Ready
  /\ \/ primary[k] = None /\ Put(r)
     \/ /\ primary[k] # None
        /\ ~primary[k].included /\ r.included
        /\ primary' = [primary EXCEPT ![k].included = TRUE]
        /\ UNCHANGED index
  /\ Settled

\* Mutant of Upsert: the entries of the old row stay.
UpsertKeepsOld(r) == Put(r)

\* The entries of fields that changed are retired in the same batch.
Upsert(r) ==
  /\ primary' = [primary EXCEPT ![PrimaryKey(table, r)] = r]
  /\ index' = (index \ Replaced(PrimaryKey(table, r), r)) \cup KeysOf(table, r)

WriteAsyncMsg(r)     == table = "async" /\ Ready /\ Upsert(r) /\ Settled
WriteDeferredCall(r) == table = "deferred" /\ Ready /\ Upsert(r) /\ Settled

-----------------------------------------------------------------------------
(* reindex-secondaries, with the server stopped. *)

StartRebuild ==
  /\ table # "slot"
  /\ Ready
  /\ tool' = [pc |-> "wipe", cfs |-> IndexCfs(table), keys |-> {}]
  /\ intact' = FALSE
  /\ UNCHANGED <<table, primary, index, job, legacy, stale>>

\* raw_clear of the next column family; after the last the primary keys are listed.
RawClear ==
  /\ tool.pc = "wipe"
  /\ LET cf == CHOOSE c \in tool.cfs : TRUE IN
       /\ index' = {e \in index : e.cf # cf}
       /\ tool' = IF tool.cfs = {cf} THEN [pc |-> "replay", cfs |-> {}, keys |-> Stored]
                                     ELSE [tool EXCEPT !.cfs = @ \ {cf}]
  /\ UNCHANGED <<table, primary, job, legacy, intact, stale>>

\* The index rows of one primary row.
Reemitted(k) == KeysOf(table, primary[k])

Replay ==
  /\ tool.pc = "replay"
  /\ tool.keys # {}
  /\ LET k == CHOOSE j \in tool.keys : TRUE IN
       /\ index' = index \cup Reemitted(k)
       /\ tool' = [tool EXCEPT !.keys = @ \ {k}]
  /\ UNCHANGED <<table, primary, job, legacy, intact, stale>>

EndRebuild ==
  /\ tool.pc = "replay"
  /\ tool.keys = {}
  /\ tool' = Off /\ intact' = TRUE /\ stale' = {}
  /\ UNCHANGED <<table, primary, index, job, legacy>>

\* The process dies between two batches, of the server or of the tool, or at rest.
Crash ==
  /\ job' = <<>> /\ legacy' = FALSE
  /\ tool' = Off
  /\ UNCHANGED <<table, primary, index, intact, stale>>

RowSlots == {r.slot : r \in UNION {Rows[t] : t \in SlotTables}}

StoreRuns ==
  \/ \E s \in RowSlots : \E b \in Batches["transfer"] : ClearTransfers(s, b)
  \/ \E s \in RowSlots : \E b \in Batches["event"] : ClearScEvents(s, b)
  \/ \E b \in LegacyBatches : BeginLegacy(b)
  \/ WriteTransfer \/ WriteScEvent
  \/ \E r \in Rows["slot"] : WriteSlot(r)
  \/ \E r \in Rows["block"] : WriteBlock(r)
  \/ \E r \in Rows["op"] : WriteOp(r)
  \/ \E r \in Rows["endorsement"] : WriteEndorsement(r)
  \/ \E r \in Rows["denunciation"] : WriteDenunciation(r)
  \/ \E r \in Rows["async"] : WriteAsyncMsg(r)
  \/ \E r \in Rows["deferred"] : WriteDeferredCall(r)
  \/ RawClear \/ Replay \/ EndRebuild

\* The server goes down, for the tool or by accident.
StoreStops == StartRebuild \/ Crash

StoreNext == StoreRuns \/ StoreStops

StoreSpec == StoreInit /\ [][StoreNext]_svars

-----------------------------------------------------------------------------
StoreTypeOK ==
  /\ table \in Tables
  /\ primary \in [PrimaryKeys(table) -> Rows[table] \cup {None}]
  /\ \A e \in index : e.cf \in IndexCfs(table) /\ Target(table, e) \in PrimaryKeys(table)
  /\ job \in Seq(Rows[table])
  /\ legacy \in BOOLEAN /\ intact \in BOOLEAN
  /\ tool \in Tool

(***************************************************************************)
(* Unless a rebuild was cut short, every stored row is filed under each of *)
(* its keys, and an entry that no stored row accounts for was left behind  *)
(* by a legacy row written over another (write_*, clear_*_for_slot,        *)
(* rebuild_secondary_indexes; `verify' calls such entries orphans).        *)
(***************************************************************************)
IndexExact == intact => Exact \subseteq index /\ index \subseteq Exact \cup stale
=============================================================================
