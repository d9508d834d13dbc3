----------------------------- MODULE PagesProofs -----------------------------
(***************************************************************************)
(* The secondary indexes and the paginated routes, for any rows, batches,  *)
(* crashes, routes and page sizes.                                         *)
(***************************************************************************)
EXTENDS Pages, FiniteSetTheorems, TLAPS

-----------------------------------------------------------------------------
(***************************************************************************)
(* The secondary indexes.  An entry leads to the row it was made of, so    *)
(* that what one row's batch deletes is no other row's; that, what the     *)
(* writer has still to write, and how far the rebuild has come, make the   *)
(* exactness of the indexes inductive.                                     *)
(***************************************************************************)

\* Rows lie under their keys.
Placed == \A k \in PrimaryKeys(table) : primary[k] # None => PrimaryKey(table, primary[k]) = k

\* A batch of a stream or of a peer falls on rows that were cleared.
JobFresh ==
  /\ job # <<>> => table \in SlotTables
  /\ ~legacy => \A i \in DOMAIN job :
       /\ primary[PrimaryKey(table, job[i])] = None
       /\ \A j \in DOMAIN job : job[i].n = job[j].n => i = j

\* What the rebuild has wiped and what it has put back.
ToolInv ==
  /\ tool.pc # "off" => job = <<>> /\ ~intact
  /\ tool.pc = "wipe" => \A e \in index : e.cf \in tool.cfs
  /\ tool.pc = "replay" =>
       /\ tool.keys \subseteq Stored
       /\ \A e : e \in index <=> \E k \in Stored \ tool.keys : e \in KeysOf(table, primary[k])

StoreInv == StoreTypeOK /\ IndexExact /\ Placed /\ JobFresh /\ ToolInv

-----------------------------------------------------------------------------
(* Keys. *)

\* Every write_*: an entry belongs to a column family of its table and leads to
\* the row it was made of.
LEMMA KeysLead ==
  ASSUME NEW t \in Tables, NEW r \in Rows[t], NEW e \in KeysOf(t, r)
  PROVE  e.cf \in IndexCfs(t) /\ Target(t, e) = PrimaryKey(t, r)
<1> USE DEF Entry, IfSome, Target, PrimaryKey, BySlot, SlotTables, OnceTables
<1>1. CASE t = "transfer"
  <2>1. e \in TransferKeys(r) /\ IndexCfs(t) = {"transfer_by_addr", "transfer_by_op", "transfer_by_block"}
    BY <1>1 DEF KeysOf, IndexCfs
  <2> QED BY <1>1, <2>1 DEF TransferKeys
<1>2. CASE t = "event"
  <2>1. e \in EventKeys(r) /\ IndexCfs(t) = {"sc_event_by_emitter", "sc_event_by_caller", "sc_event_by_op"}
    BY <1>2 DEF KeysOf, IndexCfs
  <2> QED BY <1>2, <2>1 DEF EventKeys
<1>3. CASE t = "block"
  <2>1. e \in BlockKeys(r) /\ IndexCfs(t) = {"block_by_creator"}
    BY <1>3 DEF KeysOf, IndexCfs
  <2> QED BY <1>3, <2>1 DEF BlockKeys
<1>4. CASE t = "op"
  <2>1. e \in OpKeys(r) /\ IndexCfs(t) = {"op_by_creator", "op_by_target"}
    BY <1>4 DEF KeysOf, IndexCfs
  <2> QED BY <1>4, <2>1 DEF OpKeys
<1>5. CASE t = "endorsement"
  <2>1. e \in EndorsementKeys(r) /\ IndexCfs(t) = {"endorsement_by_creator"}
    BY <1>5 DEF KeysOf, IndexCfs
  <2> QED BY <1>5, <2>1 DEF EndorsementKeys
<1>6. CASE t = "denunciation"
  <2>1. e \in DenunciationKeys(r) /\ IndexCfs(t) = {"denunciation_by_addr", "denunciation_recent"}
    BY <1>6 DEF KeysOf, IndexCfs
  <2> QED BY <1>6, <2>1 DEF DenunciationKeys
<1>7. CASE t = "async"
  <2>1. e \in AsyncKeys(r) /\ IndexCfs(t) = {"async_by_sender", "async_by_dest", "async_by_last_slot"}
    BY <1>7 DEF KeysOf, IndexCfs
  <2> QED BY <1>7, <2>1 DEF AsyncKeys
<1>8. CASE t = "deferred"
  <2>1. /\ e \in DeferredKeys(r)
        /\ IndexCfs(t) = {"deferred_by_sender", "deferred_by_target", "deferred_by_last_slot"}
    BY <1>8 DEF KeysOf, IndexCfs
  <2> QED BY <1>8, <2>1 DEF DeferredKeys
<1>9. CASE t = "slot"
  BY <1>9 DEF KeysOf
<1> QED BY <1>1, <1>2, <1>3, <1>4, <1>5, <1>6, <1>7, <1>8, <1>9 DEF Tables

\* A stored row, its key and its entries.
LEMMA StoredFacts ==
  ASSUME StoreTypeOK, Placed, NEW k \in Stored
  PROVE  /\ k \in PrimaryKeys(table)
         /\ primary[k] \in Rows[table] /\ PrimaryKey(table, primary[k]) = k
         /\ \A e \in KeysOf(table, primary[k]) : e.cf \in IndexCfs(table) /\ Target(table, e) = k
<1>1. k \in PrimaryKeys(table) /\ primary[k] # None
  BY DEF Stored
<1>2. primary[k] \in Rows[table] /\ PrimaryKey(table, primary[k]) = k
  BY <1>1 DEF StoreTypeOK, Placed
<1> QED BY <1>1, <1>2, KeysLead DEF StoreTypeOK

\* What the index should hold, entry by entry.
LEMMA ExactIs == \A e : e \in Exact <=> \E k \in Stored : e \in KeysOf(table, primary[k])
BY DEF Exact

-----------------------------------------------------------------------------
(* A step that writes one row. *)

\* The row r is written and the entries `gone' of the row it replaces, if any,
\* are deleted; the rest of those are accounted for as stale.
LEMMA RowWritten ==
  ASSUME StoreTypeOK, IndexExact, Placed,
         NEW r \in Rows[table], NEW gone,
         gone \subseteq Replaced(PrimaryKey(table, r), r),
         Replaced(PrimaryKey(table, r), r) \subseteq gone \cup stale',
         stale \subseteq stale',
         primary' = [primary EXCEPT ![PrimaryKey(table, r)] = r],
         index' = (index \ gone) \cup KeysOf(table, r),
         intact' = intact, table' = table
  PROVE  /\ primary' \in [PrimaryKeys(table) -> Rows[table] \cup {None}]
         /\ \A e \in index' : e.cf \in IndexCfs(table) /\ Target(table, e) \in PrimaryKeys(table)
         /\ IndexExact' /\ Placed'
<1> DEFINE k == PrimaryKey(table, r)
<1>1. k \in PrimaryKeys(table) /\ r # None /\ table \in Tables
  BY StoreAssumption DEF PrimaryKeys, StoreTypeOK
<1>2. primary' \in [PrimaryKeys(table) -> Rows[table] \cup {None}]
  BY DEF StoreTypeOK
<1>3. \A e \in KeysOf(table, r) : e.cf \in IndexCfs(table) /\ Target(table, e) = k
  BY <1>1, KeysLead
<1> HIDE DEF k
<1>4. \A j \in PrimaryKeys(table) : primary'[j] = IF j = k THEN r ELSE primary[j]
  BY DEF StoreTypeOK, k
<1>5. Placed'
  BY <1>4 DEF Placed, k
<1>6. /\ \A j : j \in Stored' <=> j = k \/ j \in Stored
      /\ \A j \in Stored : j # k => primary'[j] = primary[j]
      /\ primary'[k] = r
  BY <1>1, <1>4 DEF Stored
<1>7. \A e : e \in Replaced(k, r) => k \in Stored /\ e \in KeysOf(table, primary[k])
                                     /\ e \notin KeysOf(table, r)
  BY <1>1 DEF Replaced, Stored
<1>8. \A e : k \in Stored /\ e \in KeysOf(table, primary[k])
                => e \in Replaced(k, r) \/ e \in KeysOf(table, r)
  BY DEF Replaced, Stored
<1>9. ASSUME intact' PROVE Exact' \subseteq index' /\ index' \subseteq Exact' \cup stale'
  <2>1. /\ \A e : e \in index => (\E j \in Stored : e \in KeysOf(table, primary[j])) \/ e \in stale
        /\ \A j \in Stored : \A e \in KeysOf(table, primary[j]) : e \in index
    BY <1>9, ExactIs DEF IndexExact
  <2>2. \A e : e \in Exact' <=> \E j \in Stored' : e \in KeysOf(table, primary'[j])
    BY ExactIs DEF Exact
  <2>3. ASSUME NEW e \in Exact' PROVE e \in index'
    <3>1. PICK j \in Stored' : e \in KeysOf(table, primary'[j])
      BY <2>2
    <3>2. CASE j = k
      BY <1>6, <3>1, <3>2
    <3>3. CASE j # k
      <4>1. j \in Stored /\ e \in KeysOf(table, primary[j])
        BY <1>6, <3>1, <3>3
      <4>2. e \in index /\ Target(table, e) = j
        BY <2>1, <4>1, StoredFacts
      <4>3. e \notin gone
        <5> SUFFICES ASSUME e \in gone PROVE FALSE
          OBVIOUS
        <5>1. k \in Stored /\ e \in KeysOf(table, primary[k])
          BY <1>7 DEF k
        <5>2. Target(table, e) = k
          BY <5>1, StoredFacts
        <5> QED BY <3>3, <4>2, <5>2
      <4> QED BY <4>2, <4>3
    <3> QED BY <3>2, <3>3
  <2>4. ASSUME NEW e \in index' PROVE e \in Exact' \/ e \in stale'
    <3>1. CASE e \in KeysOf(table, r)
      BY <1>6, <2>2, <3>1
    <3>2. CASE e \in index /\ e \notin gone /\ e \notin KeysOf(table, r)
      <4>1. CASE e \in stale
        BY <4>1
      <4>2. ASSUME NEW j \in Stored, e \in KeysOf(table, primary[j])
            PROVE  e \in Exact' \/ e \in stale'
        <5>1. CASE j = k
          <6>1. e \in Replaced(k, r)
            BY <1>8, <3>2, <4>2, <5>1
          <6> QED BY <3>2, <6>1 DEF k
        <5>2. CASE j # k
          BY <1>6, <2>2, <4>2, <5>2
        <5> QED BY <5>1, <5>2
      <4> QED BY <2>1, <3>2, <4>1, <4>2
    <3> QED BY <3>1, <3>2
  <2> QED BY <2>3, <2>4
<1>10. \A e \in index' : e.cf \in IndexCfs(table) /\ Target(table, e) \in PrimaryKeys(table)
  BY <1>1, <1>3 DEF StoreTypeOK
<1> QED BY <1>2, <1>5, <1>9, <1>10 DEF IndexExact

-----------------------------------------------------------------------------
(* The steps. *)

\* An empty store.
LEMMA StoreInitInv == StoreInit => StoreInv
<1> SUFFICES ASSUME StoreInit PROVE StoreInv
  OBVIOUS
<1>1. StoreTypeOK
  <2>1. Off \in Tool
    BY DEF Off, Tool
  <2>2. primary \in [PrimaryKeys(table) -> Rows[table] \cup {None}]
    BY DEF StoreInit
  <2>3. job \in Seq(Rows[table])
    BY DEF StoreInit
  <2> QED BY <2>1, <2>2, <2>3 DEF StoreInit, StoreTypeOK
<1>2. Stored = {}
  BY DEF StoreInit, Stored
<1>3. IndexExact
  BY <1>2 DEF StoreInit, IndexExact, Exact
<1>4. Placed /\ ToolInv
  BY DEF StoreInit, Placed, ToolInv, Off
<1>5. JobFresh
  BY DEF StoreInit, JobFresh
<1> QED BY <1>1, <1>3, <1>4, <1>5 DEF StoreInv

\* A write_* that is a step by itself, with the writer free.
LEMMA FreeWrite ==
  ASSUME StoreInv, Ready, Settled,
         primary' \in [PrimaryKeys(table) -> Rows[table] \cup {None}],
         \A e \in index' : e.cf \in IndexCfs(table) /\ Target(table, e) \in PrimaryKeys(table),
         IndexExact', Placed'
  PROVE  StoreInv'
<1> USE DEF StoreInv
<1>1. job = <<>> /\ tool.pc = "off" /\ UNCHANGED <<table, job, legacy, tool, intact, stale>>
  BY DEF Ready, Settled
<1>2. StoreTypeOK'
  BY <1>1 DEF StoreTypeOK
<1>3. JobFresh' /\ ToolInv'
  BY <1>1 DEF JobFresh, ToolInv
<1> QED BY <1>2, <1>3

\* write_slot, write_block, write_endorsement: the row replaces none, or one with
\* the same entries.
LEMMA PutSame ==
  ASSUME StoreInv, Ready, Settled, NEW r \in Rows[table], Put(r),
         Replaced(PrimaryKey(table, r), r) = {}
  PROVE  StoreInv'
<1>1. UNCHANGED <<table, intact, stale>>
  BY DEF Settled
<1>2. /\ primary' = [primary EXCEPT ![PrimaryKey(table, r)] = r]
      /\ index' = (index \ {}) \cup KeysOf(table, r)
  BY DEF Put
<1> QED BY <1>1, <1>2, RowWritten, FreeWrite DEF StoreInv

\* write_slot: there is no index.
LEMMA WriteSlotStep ==
  ASSUME StoreInv, NEW r \in Rows["slot"], WriteSlot(r)
  PROVE  StoreInv'
<1>1. table = "slot" /\ Ready /\ Put(r) /\ Settled
  BY DEF WriteSlot
<1>2. Replaced(PrimaryKey(table, r), r) = {}
  BY <1>1 DEF Replaced, KeysOf
<1> QED BY <1>1, <1>2, PutSame

\* write_block: a block id stands for one block.
LEMMA WriteBlockStep ==
  ASSUME StoreInv, NEW r \in Rows["block"], WriteBlock(r)
  PROVE  StoreInv'
<1>1. table = "block" /\ Ready /\ Put(r) /\ Settled
  BY DEF WriteBlock
<1> DEFINE k == PrimaryKey(table, r)
<1>2. k \in PrimaryKeys(table) /\ k = <<0, r.n>>
  BY <1>1 DEF PrimaryKeys, PrimaryKey, BySlot, SlotTables
<1>3. primary[k] # None => primary[k] = r
  <2> SUFFICES ASSUME primary[k] # None PROVE primary[k] = r
    OBVIOUS
  <2>1. primary[k] \in Rows["block"] /\ PrimaryKey(table, primary[k]) = k
    BY <1>1, <1>2 DEF StoreInv, StoreTypeOK, Placed
  <2>2. primary[k].n = r.n
    BY <1>1, <1>2, <2>1 DEF PrimaryKey, BySlot, SlotTables
  <2> QED BY <2>1, <2>2, StoreAssumption
<1>4. Replaced(k, r) = {}
  BY <1>3 DEF Replaced
<1> QED BY <1>1, <1>4, PutSame

\* write_endorsement: nothing is replaced.
LEMMA WriteEndorsementStep ==
  ASSUME StoreInv, NEW r \in Rows["endorsement"], WriteEndorsement(r)
  PROVE  StoreInv'
<1>1. table = "endorsement" /\ Ready /\ Put(r) /\ Settled
      /\ Replaced(PrimaryKey(table, r), r) = {}
  BY DEF WriteEndorsement, Replaced
<1> QED BY <1>1, PutSame

\* write_operation: the first inclusion of the stored row stays.
LEMMA WriteOpStep ==
  ASSUME StoreInv, NEW r \in Rows["op"], WriteOp(r)
  PROVE  StoreInv'
<1> DEFINE k == PrimaryKey(table, r)
           old == primary[k]
           new == IF old = None THEN r ELSE KeptFirst(old, r)
<1>1. table = "op" /\ Ready /\ Put(new) /\ Settled
  BY DEF WriteOp
<1>2. k \in PrimaryKeys(table) /\ k = <<0, r.n>>
  BY <1>1 DEF PrimaryKeys, PrimaryKey, BySlot, SlotTables
<1>3. CASE old = None
  <2>1. Replaced(k, r) = {} /\ new = r
    BY <1>3 DEF Replaced
  <2> QED BY <1>1, <2>1, PutSame
<1>4. CASE old # None
  <2>1. old \in Rows["op"] /\ PrimaryKey(table, old) = k
    BY <1>1, <1>2, <1>4 DEF StoreInv, StoreTypeOK, Placed
  <2>2. old.n = r.n
    BY <1>1, <1>2, <2>1 DEF PrimaryKey, BySlot, SlotTables
  <2>3. /\ r.creator = old.creator /\ r.target = old.target
        /\ [r EXCEPT !.first = old.first] \in Rows["op"]
        /\ r = [n |-> r.n, creator |-> r.creator, target |-> r.target, first |-> r.first]
    BY <2>1, <2>2, StoreAssumption
  <2>4. CASE old.first = None
    <3>1. new = r /\ KeysOf(table, old) = {}
      BY <1>1, <1>4, <2>4 DEF KeptFirst, KeysOf, OpKeys
    <3>2. Replaced(k, r) = {}
      BY <3>1 DEF Replaced
    <3> QED BY <1>1, <3>1, <3>2, PutSame
  <2>5. CASE old.first # None
    <3>1. new = [r EXCEPT !.first = old.first]
      BY <1>4, <2>5 DEF KeptFirst
    <3>2. /\ new.n = r.n /\ new.creator = r.creator
          /\ new.target = r.target /\ new.first = old.first
      BY <2>3, <3>1
    <3> HIDE DEF new, old
    <3>3. KeysOf(table, new) = KeysOf(table, old)
      BY <1>1, <2>2, <2>3, <3>2 DEF KeysOf, OpKeys
    <3>4. PrimaryKey(table, new) = k /\ new \in Rows[table]
      BY <1>1, <1>2, <2>3, <3>1, <3>2 DEF PrimaryKey, BySlot, SlotTables
    <3>5. Replaced(PrimaryKey(table, new), new) = {}
      BY <3>3, <3>4 DEF Replaced, old
    <3> QED BY <1>1, <3>4, <3>5, PutSame
  <2> QED BY <2>4, <2>5
<1> QED BY <1>3, <1>4

\* write_denunciation: what is filled in is part of no key.
LEMMA WriteDenunciationStep ==
  ASSUME StoreInv, NEW r \in Rows["denunciation"], WriteDenunciation(r)
  PROVE  StoreInv'
<1> DEFINE k == PrimaryKey(table, r)
           old == primary[k]
<1>1. table = "denunciation" /\ Ready /\ Settled /\ k \in PrimaryKeys(table)
  BY DEF WriteDenunciation, PrimaryKeys
<1>2. CASE old = None /\ Put(r)
  <2>1. Replaced(k, r) = {}
    BY <1>2 DEF Replaced
  <2> QED BY <1>1, <1>2, <2>1, PutSame
<1>3. CASE old # None /\ primary' = [primary EXCEPT ![k].included = TRUE] /\ index' = index
  <2> DEFINE new == [old EXCEPT !.included = TRUE]
  <2>1. old \in Rows["denunciation"] /\ PrimaryKey(table, old) = k
    BY <1>1, <1>3 DEF StoreInv, StoreTypeOK, Placed
  <2>2. /\ old = [n |-> old.n, slot |-> old.slot, addr |-> old.addr, included |-> old.included]
        /\ new \in Rows["denunciation"]
    BY <2>1, StoreAssumption
  <2>3. new.n = old.n /\ new.slot = old.slot /\ new.addr = old.addr
    BY <2>2
  <2>4. primary' = [primary EXCEPT ![k] = new]
    BY <1>3
  <2> HIDE DEF new, old
  <2>5. KeysOf(table, new) = KeysOf(table, old)
    BY <1>1, <2>3 DEF KeysOf, DenunciationKeys
  <2>6. PrimaryKey(table, new) = k
    BY <1>1, <2>1, <2>3 DEF PrimaryKey, BySlot, SlotTables
  <2>7. Replaced(k, new) = {}
    BY <2>5 DEF Replaced, old
  <2>8. UNCHANGED <<table, intact, stale>>
    BY <1>1 DEF Settled
  <2>9. CASE ~intact
    <3>1. /\ primary' \in [PrimaryKeys(table) -> Rows[table] \cup {None}] /\ Placed'
      BY <1>1, <2>2, <2>4, <2>6, <2>8 DEF StoreInv, StoreTypeOK, Placed
    <3>2. IndexExact'
      BY <2>8, <2>9 DEF IndexExact
    <3> QED BY <1>1, <1>3, <3>1, <3>2, FreeWrite DEF StoreInv, StoreTypeOK
  <2>10. CASE intact
    <3>1. KeysOf(table, old) \subseteq index
      <4>1. k \in Stored
        BY <1>1, <1>3 DEF Stored, old
      <4> QED BY <2>10, <4>1, ExactIs DEF StoreInv, IndexExact, old
    <3>2. index' = (index \ {}) \cup KeysOf(table, new)
      BY <1>3, <2>5, <3>1
    <3>3. new \in Rows[table]
      BY <1>1, <2>2
    <3>4. /\ primary' \in [PrimaryKeys(table) -> Rows[table] \cup {None}]
          /\ \A e \in index' : e.cf \in IndexCfs(table) /\ Target(table, e) \in PrimaryKeys(table)
          /\ IndexExact' /\ Placed'
      BY <2>4, <2>6, <2>7, <2>8, <3>2, <3>3, RowWritten DEF StoreInv
    <3> QED BY <1>1, <3>4, FreeWrite
  <2> QED BY <2>9, <2>10
<1> QED BY <1>1, <1>2, <1>3 DEF WriteDenunciation

\* write_async_msg, write_deferred_call: entries of fields that changed go.
LEMMA UpsertStep ==
  ASSUME StoreInv, NEW r \in Rows[table], Ready, Upsert(r), Settled
  PROVE  StoreInv'
<1> DEFINE gone == Replaced(PrimaryKey(table, r), r)
<1>1. UNCHANGED <<table, intact, stale>>
  BY DEF Settled
<1>2. /\ primary' = [primary EXCEPT ![PrimaryKey(table, r)] = r]
      /\ index' = (index \ gone) \cup KeysOf(table, r)
  BY DEF Upsert
<1> QED BY <1>1, <1>2, RowWritten, FreeWrite DEF StoreInv

\* clear_*_for_slot: the rows of a slot go with their entries, and no other's.
LEMMA BeginSlotStep ==
  ASSUME StoreInv, table \in SlotTables, NEW s, NEW batch, BeginSlot(s, batch)
  PROVE  StoreInv'
<1> USE DEF StoreInv
<1>1. /\ job = <<>> /\ tool.pc = "off" /\ job' = batch
      /\ UNCHANGED <<table, legacy, tool, intact, stale>>
  BY DEF BeginSlot, Ready
<1>2. /\ batch \in Seq(Rows[table])
      /\ \A i, j \in DOMAIN batch : batch[i].n = batch[j].n => i = j
      /\ \A i \in DOMAIN batch : batch[i].slot = s
  BY StoreAssumption DEF BeginSlot
<1>3. /\ primary' = [k \in DOMAIN primary |-> IF k \in SlotKeys(s) THEN None ELSE primary[k]]
      /\ index' = index \ UNION {KeysOf(table, primary[k]) : k \in SlotKeys(s)}
  BY DEF BeginSlot, DropSlot
<1>4. /\ primary' \in [PrimaryKeys(table) -> Rows[table] \cup {None}]
      /\ \A k \in PrimaryKeys(table) :
           primary'[k] = IF k \in Stored /\ k[1] = s THEN None ELSE primary[k]
  BY <1>3 DEF StoreTypeOK, SlotKeys
<1>5. /\ \A k : k \in Stored' <=> k \in Stored /\ k[1] # s
      /\ \A k \in Stored' : primary'[k] = primary[k]
  BY <1>1, <1>4 DEF Stored
<1>6. \A e : e \in index' <=> e \in index /\ ~\E k \in Stored : k[1] = s /\ e \in KeysOf(table, primary[k])
  BY <1>3 DEF SlotKeys
<1>7. StoreTypeOK'
  BY <1>1, <1>2, <1>4, <1>6 DEF StoreTypeOK
<1>8. Placed'
  BY <1>1, <1>4 DEF Placed
<1>9. IndexExact'
  <2> SUFFICES ASSUME intact PROVE Exact' \subseteq index' /\ index' \subseteq Exact' \cup stale
    BY <1>1 DEF IndexExact
  <2>1. /\ \A e : e \in index => (\E j \in Stored : e \in KeysOf(table, primary[j])) \/ e \in stale
        /\ \A j \in Stored : \A e \in KeysOf(table, primary[j]) : e \in index
    BY ExactIs DEF IndexExact
  <2>2. \A e : e \in Exact' <=> \E j \in Stored' : e \in KeysOf(table, primary'[j])
    BY <1>1 DEF Exact
  <2>3. ASSUME NEW e \in Exact' PROVE e \in index'
    <3>1. PICK j \in Stored' : e \in KeysOf(table, primary'[j])
      BY <2>2
    <3>2. j \in Stored /\ j[1] # s /\ e \in KeysOf(table, primary[j])
      BY <1>5, <3>1
    <3>3. Target(table, e) = j
      BY <3>2, StoredFacts
    <3>4. \A k \in Stored : e \in KeysOf(table, primary[k]) => k = j
      BY <3>3, StoredFacts
    <3> QED BY <1>6, <2>1, <3>2, <3>4
  <2>4. ASSUME NEW e \in index' PROVE e \in Exact' \/ e \in stale
    BY <1>5, <1>6, <2>1, <2>2
  <2> QED BY <2>3, <2>4
<1>10. JobFresh'
  <2>1. ASSUME NEW i \in DOMAIN batch PROVE primary'[PrimaryKey(table, batch[i])] = None
    <3>1. batch[i] \in Rows[table] /\ batch[i].slot = s
      BY <1>2
    <3>2. PrimaryKey(table, batch[i]) = <<s, batch[i].n>>
      BY <3>1 DEF PrimaryKey, BySlot
    <3>3. PrimaryKey(table, batch[i]) \in PrimaryKeys(table)
      BY <3>1 DEF PrimaryKeys
    <3> QED BY <1>4, <3>2, <3>3 DEF Stored
  <2> QED BY <1>1, <1>2, <2>1 DEF JobFresh
<1>11. ToolInv'
  BY <1>1 DEF ToolInv
<1> QED BY <1>7, <1>8, <1>9, <1>10, <1>11

\* apply_legacy_patch begins.
LEMMA BeginLegacyStep ==
  ASSUME StoreInv, NEW batch \in LegacyBatches, BeginLegacy(batch)
  PROVE  StoreInv'
<1> USE DEF StoreInv
<1>1. /\ table = "transfer" /\ job = <<>> /\ tool.pc = "off"
      /\ job' = batch /\ legacy' = (batch # <<>>)
      /\ UNCHANGED <<table, primary, index, tool, intact, stale>>
  BY DEF BeginLegacy, Ready
<1>2. batch \in Seq(Rows[table])
  BY <1>1, StoreAssumption
<1>3. StoreTypeOK'
  BY <1>1, <1>2 DEF StoreTypeOK
<1>4. IndexExact' /\ Placed'
  BY <1>1 DEF IndexExact, Exact, Stored, Placed
<1>5. JobFresh'
  <2>1. ~legacy' => DOMAIN job' = {}
    <3>1. ~legacy' => job' = <<>>
      BY <1>1
    <3> QED BY <3>1
  <2> QED BY <1>1, <2>1 DEF JobFresh, SlotTables
<1>6. ToolInv'
  BY <1>1 DEF ToolInv
<1> QED BY <1>3, <1>4, <1>5, <1>6

\* write_transfer, write_sc_event: the next row of the list.
LEMMA WriteRowStep ==
  ASSUME StoreInv, WriteRow
  PROVE  StoreInv'
<1> USE DEF StoreInv
<1> DEFINE r == Head(job)
           k == PrimaryKey(table, r)
<1>1. /\ tool.pc = "off" /\ job # <<>>
      /\ Put(r) /\ job' = Tail(job)
      /\ legacy' = (legacy /\ Tail(job) # <<>>)
      /\ stale' = stale \cup (IF legacy THEN Replaced(k, r) ELSE {})
      /\ UNCHANGED <<table, tool, intact>>
  BY DEF WriteRow
<1>2. /\ job \in Seq(Rows[table]) /\ r \in Rows[table] /\ 1 \in DOMAIN job /\ job[1] = r
      /\ Tail(job) \in Seq(Rows[table])
      /\ \A i \in DOMAIN Tail(job) : i + 1 \in DOMAIN job /\ Tail(job)[i] = job[i + 1]
                                     /\ i \in Nat /\ i # 0
  BY <1>1 DEF StoreTypeOK
<1>3. k \in PrimaryKeys(table)
  BY <1>2 DEF PrimaryKeys
<1>4. Replaced(k, r) \subseteq stale'
  <2>1. CASE legacy
    BY <1>1, <2>1
  <2>2. CASE ~legacy
    BY <1>2, <2>2 DEF JobFresh, Replaced
  <2> QED BY <2>1, <2>2
<1>5. /\ primary' = [primary EXCEPT ![k] = r]
      /\ index' = (index \ {}) \cup KeysOf(table, r)
  BY <1>1 DEF Put
<1> HIDE DEF r
<1>6. /\ primary' \in [PrimaryKeys(table) -> Rows[table] \cup {None}]
      /\ \A e \in index' : e.cf \in IndexCfs(table) /\ Target(table, e) \in PrimaryKeys(table)
      /\ IndexExact' /\ Placed'
  <2>1. stale \subseteq stale'
    BY <1>1
  <2> QED BY <1>1, <1>2, <1>4, <1>5, <2>1, RowWritten
<1>7. StoreTypeOK'
  BY <1>1, <1>2, <1>6 DEF StoreTypeOK
<1>8. JobFresh'
  <2>1. job' # <<>> => table' \in SlotTables
    BY <1>1 DEF JobFresh
  <2>2. ASSUME ~legacy', NEW i \in DOMAIN job'
        PROVE  /\ primary'[PrimaryKey(table, job'[i])] = None
               /\ \A j \in DOMAIN job' : job'[i].n = job'[j].n => i = j
    <3>1. ~legacy
      <4>1. Tail(job) # <<>>
        BY <1>1, <2>2
      <4> QED BY <1>1, <2>2, <4>1
    <3>2. /\ job'[i] = job[i + 1] /\ i + 1 \in DOMAIN job
          /\ \A j \in DOMAIN job' : job'[j] = job[j + 1] /\ j + 1 \in DOMAIN job /\ j \in Nat
          /\ i \in Nat /\ i # 0
      BY <1>1, <1>2, <2>2
    <3>3. \A j \in DOMAIN job' : job'[i].n = job'[j].n => i = j
      <4> SUFFICES ASSUME NEW j \in DOMAIN job', job'[i].n = job'[j].n PROVE i = j
        OBVIOUS
      <4>1. i + 1 = j + 1
        BY <3>1, <3>2 DEF JobFresh
      <4> QED BY <3>2, <4>1
    <3>4. job[i + 1].n # r.n
      <4>1. job[i + 1].n = job[1].n => i + 1 = 1
        BY <1>2, <3>1, <3>2 DEF JobFresh
      <4> QED BY <1>2, <3>2, <4>1
    <3>5. PrimaryKey(table, job[i + 1]) # k
      <4>1. table \in SlotTables
        BY <1>1 DEF JobFresh
      <4> QED BY <3>4, <4>1 DEF PrimaryKey, BySlot
    <3>6. primary[PrimaryKey(table, job[i + 1])] = None
      BY <3>1, <3>2 DEF JobFresh
    <3>7. PrimaryKey(table, job[i + 1]) \in PrimaryKeys(table)
      <4>1. job[i + 1] \in Rows[table]
        BY <1>2, <3>2
      <4> QED BY <4>1 DEF PrimaryKeys
    <3>8. primary'[PrimaryKey(table, job[i + 1])] = None
      BY <1>5, <3>5, <3>6, <3>7 DEF StoreTypeOK
    <3> QED BY <3>2, <3>3, <3>8
  <2> QED BY <1>1, <2>1, <2>2 DEF JobFresh
<1>9. ToolInv'
  BY <1>1 DEF ToolInv
<1> QED BY <1>6, <1>7, <1>8, <1>9

\* rebuild_secondary_indexes: wiped, then put back row by row.
LEMMA ToolSteps ==
  ASSUME StoreInv, StartRebuild \/ RawClear \/ Replay \/ EndRebuild
  PROVE  StoreInv'
<1> USE DEF StoreInv
<1>1. UNCHANGED <<table, primary, job, legacy>> /\ Stored' = Stored /\ index' \in {index, index'}
  BY DEF StartRebuild, RawClear, Replay, EndRebuild, Stored
<1>2. Placed' /\ JobFresh'
  BY <1>1 DEF Placed, JobFresh
<1>3. table \in Tables /\ IndexCfs(table) \in SUBSET UNION {IndexCfs(t) : t \in Tables}
      /\ Stored \in SUBSET UNION {PrimaryKeys(t) : t \in Tables}
  BY DEF StoreTypeOK, Stored
<1>4. CASE StartRebuild
  <2>1. /\ tool' = [pc |-> "wipe", cfs |-> IndexCfs(table), keys |-> {}]
        /\ intact' = FALSE /\ job = <<>> /\ index' = index
    BY <1>4 DEF StartRebuild, Ready
  <2>2. tool' \in Tool
    BY <1>3, <2>1 DEF Tool
  <2>3. StoreTypeOK'
    BY <1>1, <2>1, <2>2 DEF StoreTypeOK
  <2>4. ToolInv' /\ IndexExact'
    BY <1>1, <2>1 DEF ToolInv, IndexExact, StoreTypeOK
  <2> QED BY <1>2, <2>3, <2>4
<1>5. CASE RawClear
  <2> DEFINE cf == CHOOSE c \in tool.cfs : TRUE
  <2>1. /\ tool.pc = "wipe" /\ UNCHANGED <<intact, stale>>
        /\ index' = {e \in index : e.cf # cf}
        /\ tool' = IF tool.cfs = {cf} THEN [pc |-> "replay", cfs |-> {}, keys |-> Stored]
                                      ELSE [tool EXCEPT !.cfs = @ \ {cf}]
    BY <1>5 DEF RawClear
  <2> HIDE DEF cf
  <2>2. ~intact /\ job = <<>> /\ \A e \in index : e.cf \in tool.cfs
    BY <2>1 DEF ToolInv
  <2>3. tool' \in Tool
    BY <1>3, <2>1 DEF StoreTypeOK, Tool
  <2>4. StoreTypeOK'
    BY <1>1, <2>1, <2>3 DEF StoreTypeOK
  <2>5. ToolInv'
    <3>1. CASE tool.cfs = {cf}
      <4>1. index' = {} /\ tool'.pc = "replay" /\ tool'.keys = Stored
        BY <2>1, <2>2, <3>1
      <4> QED BY <1>1, <2>1, <2>2, <4>1 DEF ToolInv
    <3>2. CASE tool.cfs # {cf}
      <4>1. tool'.pc = "wipe" /\ tool'.cfs = tool.cfs \ {cf}
        BY <2>1, <3>2 DEF StoreTypeOK, Tool
      <4> QED BY <1>1, <2>1, <2>2, <4>1 DEF ToolInv
    <3> QED BY <3>1, <3>2
  <2>6. IndexExact'
    BY <2>1, <2>2 DEF IndexExact
  <2> QED BY <1>2, <2>4, <2>5, <2>6
<1>6. CASE Replay
  <2> DEFINE k == CHOOSE j \in tool.keys : TRUE
  <2>1. /\ tool.pc = "replay" /\ tool.keys # {} /\ UNCHANGED <<intact, stale>>
        /\ index' = index \cup KeysOf(table, primary[k])
        /\ tool' = [tool EXCEPT !.keys = @ \ {k}]
    BY <1>6 DEF Replay, Reemitted
  <2>2. k \in tool.keys
    BY <2>1
  <2> HIDE DEF k
  <2>3. /\ ~intact /\ job = <<>> /\ tool.keys \subseteq Stored
        /\ \A e : e \in index <=> \E j \in Stored \ tool.keys : e \in KeysOf(table, primary[j])
    BY <2>1 DEF ToolInv
  <2>4. tool' \in Tool /\ tool'.pc = "replay" /\ tool'.keys = tool.keys \ {k}
    BY <2>1 DEF StoreTypeOK, Tool
  <2>5. \A e \in KeysOf(table, primary[k]) :
          e.cf \in IndexCfs(table) /\ Target(table, e) \in PrimaryKeys(table)
    BY <2>2, <2>3, StoredFacts
  <2>6. StoreTypeOK'
    BY <1>1, <2>1, <2>4, <2>5 DEF StoreTypeOK
  <2>7. ToolInv'
    <3>1. ASSUME NEW e
          PROVE  e \in index' <=> \E j \in Stored \ tool'.keys : e \in KeysOf(table, primary[j])
      BY <2>1, <2>2, <2>3, <2>4
    <3>2. tool'.keys \subseteq Stored' /\ job' = <<>> /\ ~intact' /\ tool'.pc = "replay"
      BY <1>1, <2>1, <2>3, <2>4
    <3> QED BY <1>1, <3>1, <3>2 DEF ToolInv
  <2>8. IndexExact'
    BY <2>1, <2>3 DEF IndexExact
  <2> QED BY <1>2, <2>6, <2>7, <2>8
<1>7. CASE EndRebuild
  <2>1. /\ tool.pc = "replay" /\ tool.keys = {} /\ index' = index
        /\ tool' = Off /\ intact' = TRUE /\ stale' = {}
    BY <1>7 DEF EndRebuild
  <2>2. \A e : e \in index <=> \E j \in Stored : e \in KeysOf(table, primary[j])
    BY <2>1 DEF ToolInv
  <2>3. Off \in Tool /\ Off.pc = "off"
    BY DEF Off, Tool
  <2>4. StoreTypeOK' /\ ToolInv'
    BY <1>1, <2>1, <2>3 DEF StoreTypeOK, ToolInv
  <2>5. \A e : e \in Exact' <=> e \in index'
    BY <1>1, <2>1, <2>2 DEF Exact
  <2>6. IndexExact'
    BY <2>5 DEF IndexExact
  <2> QED BY <1>2, <2>4, <2>6
<1> QED BY <1>4, <1>5, <1>6, <1>7

\* A crash loses the rest of a list, or the progress of the tool, and no batch.
LEMMA CrashStep ==
  ASSUME StoreInv, Crash
  PROVE  StoreInv'
<1> USE DEF StoreInv
<1>1. job' = <<>> /\ legacy' = FALSE /\ tool' = Off /\ UNCHANGED <<table, primary, index, intact, stale>>
  BY DEF Crash
<1>2. Off \in Tool /\ Off.pc = "off"
  BY DEF Off, Tool
<1>3. job' \in Seq(Rows[table])
  BY <1>1
<1>4. StoreTypeOK'
  BY <1>1, <1>2, <1>3 DEF StoreTypeOK
<1>5. IndexExact' /\ Placed'
  BY <1>1 DEF IndexExact, Exact, Stored, Placed
<1>6. JobFresh'
  BY <1>1 DEF JobFresh
<1>7. ToolInv'
  BY <1>1, <1>2 DEF ToolInv
<1> QED BY <1>4, <1>5, <1>6, <1>7

\* Every batch of the writer and of the tool.
LEMMA StoreStepInv == StoreInv /\ [StoreNext]_svars => StoreInv'
<1> SUFFICES ASSUME StoreInv, [StoreNext]_svars PROVE StoreInv'
  OBVIOUS
<1>1. CASE UNCHANGED svars
  BY <1>1 DEF svars, StoreInv, StoreTypeOK, IndexExact, Exact, Stored, Placed, JobFresh, ToolInv
<1>2. CASE \E s \in RowSlots : \E b \in Batches["transfer"] : ClearTransfers(s, b)
  BY <1>2, BeginSlotStep DEF ClearTransfers, SlotTables
<1>3. CASE \E s \in RowSlots : \E b \in Batches["event"] : ClearScEvents(s, b)
  BY <1>3, BeginSlotStep DEF ClearScEvents, SlotTables
<1>4. CASE (\E b \in LegacyBatches : BeginLegacy(b)) \/ WriteTransfer \/ WriteScEvent
  BY <1>4, BeginLegacyStep, WriteRowStep DEF WriteTransfer, WriteScEvent
<1>5. CASE (\E r \in Rows["slot"] : WriteSlot(r)) \/ (\E r \in Rows["block"] : WriteBlock(r))
  BY <1>5, WriteSlotStep, WriteBlockStep
<1>6. CASE \/ \E r \in Rows["op"] : WriteOp(r)
           \/ \E r \in Rows["endorsement"] : WriteEndorsement(r)
           \/ \E r \in Rows["denunciation"] : WriteDenunciation(r)
  BY <1>6, WriteOpStep, WriteEndorsementStep, WriteDenunciationStep
<1>7. CASE \/ \E r \in Rows["async"] : WriteAsyncMsg(r)
           \/ \E r \in Rows["deferred"] : WriteDeferredCall(r)
  BY <1>7, UpsertStep DEF WriteAsyncMsg, WriteDeferredCall
<1>8. CASE RawClear \/ Replay \/ EndRebuild \/ StartRebuild \/ Crash
  BY <1>8, ToolSteps, CrashStep
<1> QED BY <1>1, <1>2, <1>3, <1>4, <1>5, <1>6, <1>7, <1>8 DEF StoreNext, StoreRuns, StoreStops

\* The clients of the store read it and write nothing.
LEMMA PagesRead == [PagesNext]_pvars => [StoreNext]_svars
<1>1. CASE WalkStep
  BY <1>1 DEF WalkStep, OpenWalk, NextPage, ScanEntry, EndPage, svars
<1>2. CASE RecentStep
  BY <1>2 DEF RecentStep, AskRecent, CollectSlot, EndBatch, svars
<1>3. CASE Underneath
  BY <1>3 DEF Underneath, StoreNext
<1>4. CASE UNCHANGED pvars
  BY <1>4 DEF pvars, svars
<1> QED BY <1>1, <1>2, <1>3, <1>4 DEF PagesNext

(***************************************************************************)
(* The tables, the index entries and the state of the rebuild keep their   *)
(* types, whatever is written, cleared, rebuilt or cut off (db.rs).        *)
(***************************************************************************)
THEOREM StoreTypeCorrect == PagesSpec => []StoreTypeOK
<1>1. PagesInit => StoreInit
  BY DEF PagesInit
<1>2. StoreInv => StoreTypeOK
  BY DEF StoreInv
<1> QED BY <1>1, <1>2, StoreInitInv, StoreStepInv, PagesRead, PTL DEF PagesSpec

(***************************************************************************)
(* The secondary indexes are exact for any rows and any number of writes,  *)
(* clears, upserts, rebuilds and crashes between batches: every stored row *)
(* is filed under each of its keys, and no entry is an orphan but those a  *)
(* legacy row left behind (write_*, clear_*_for_slot,                      *)
(* rebuild_secondary_indexes).                                             *)
(***************************************************************************)
THEOREM IndexExactHolds == PagesSpec => []IndexExact
<1>1. PagesInit => StoreInit
  BY DEF PagesInit
<1>2. StoreInv => IndexExact
  BY DEF StoreInv
<1> QED BY <1>1, <1>2, StoreInitInv, StoreStepInv, PagesRead, PTL DEF PagesSpec

-----------------------------------------------------------------------------
(***************************************************************************)
(* The pages, while rows are written and the server crashes.  The index is *)
(* exact at every request, an entry of a row that has not changed stays    *)
(* where it is in the order of keys, and what the client has not received  *)
(* lies past its cursor.                                                   *)
(***************************************************************************)

\* What the provers need of an entry to put it in order.
Ordered(e) == e.slot \in Nat /\ e.n \in Nat /\ e.tag \in Nat

\* Only the transfers of an address are filed twice under one prefix.
ScanOK(scan) ==
  /\ scan.how \in {"ids", "rows", "addr", "primary"}
  /\ scan.cf = "transfer_by_addr" => scan.how = "addr"

\* Rows that may come twice or from nowhere: the exceptions of WalkFaithful.
Left(k)    == \E e \in stale : Target(table, e) = k
Excused(k) == k \in walk.touched \/ SelfTransfer(k) \/ Left(k)

\* The entries the client has a right to.
Due == {e \in Called(walk.scan) : Target(table, e) \notin walk.touched}

\* No entry that is due for k lies past the place `at'.
Behind(k, at) == \A e \in Due : Target(table, e) = k => ~PastCursor(at, e)

\* What was handed out or collected had an entry, and has it still unless it changed.
Sourced(k) == \/ k \in walk.touched \/ Left(k)
              \/ \E e \in Called(walk.scan) : Target(table, e) = k

\* Between pages and within one: what is not received lies past the cursor.
Received ==
  /\ walk.got \subseteq PrimaryKeys(table) /\ walk.twice \subseteq walk.got
  /\ \A k \in walk.got : Sourced(k)
  /\ \A k \in walk.twice : Excused(k)
  /\ walk.pc = "done" => \A e \in Due : Target(table, e) \in walk.got
  /\ walk.pc \in {"ask", "scan"} =>
       /\ walk.cursor # None => Ordered(walk.cursor)
       /\ \A e \in Due : Target(table, e) \in walk.got \/ PastCursor(walk.cursor, e)
       /\ \A k \in walk.got : Excused(k) \/ Behind(k, walk.cursor)

\* Within a page: what is not collected is still to come.
Collecting ==
  /\ \A e \in walk.todo : /\ Ordered(e) /\ e # None /\ Target(table, e) \in PrimaryKeys(table)
                          /\ PastCursor(walk.cursor, e) /\ PastCursor(walk.last, e)
                          /\ Sourced(Target(table, e))
                          /\ e \in Due \/ Excused(Target(table, e))
  /\ walk.last # None => Ordered(walk.last) /\ PastCursor(walk.cursor, walk.last)
  /\ walk.page \subseteq PrimaryKeys(table)
  /\ walk.page # {} => walk.last # None
  /\ \A e \in Due : Target(table, e) \in walk.got \cup walk.page \/ e \in walk.todo
  /\ \A k \in walk.page : Sourced(k) /\ (Excused(k) \/ Behind(k, walk.last))
  /\ \A k \in walk.got \cap walk.page : Excused(k)
  /\ \A k \in walk.seen : /\ k \in PrimaryKeys(table)
                          /\ k \in walk.page \/ primary[k] = None \/ k \in walk.touched

\* Index entries are made of rows.
IndexMade == \A e \in index : \E r \in Rows[table] : e \in KeysOf(table, r)

\* The entries that row r at key k calls for under the prefix of a scan.
CallsOf(t, scan, k, r) ==
  IF scan.how = "primary"
    THEN {Entry("primary", o, k[1], k[2], 0) : o \in {scan.owner} \cap {None, k[1]}}
    ELSE {e \in KeysOf(t, r) : e.cf = scan.cf /\ e.owner = scan.owner}

\* The fields of a walk.
Shaped(w) ==
  w = [pc |-> w.pc, scan |-> w.scan, limit |-> w.limit, cursor |-> w.cursor,
       todo |-> w.todo, last |-> w.last, page |-> w.page, seen |-> w.seen, got |-> w.got,
       twice |-> w.twice, touched |-> w.touched, sound |-> w.sound]

WalkInv ==
  /\ Shaped(walk)
  /\ walk.pc \in {"idle", "ask", "scan", "done"}
  /\ walk.pc = "idle" => walk = WalkIdle
  /\ walk.pc # "idle" => walk.limit \in Nat \ {0} /\ ScanOK(walk.scan)
  /\ walk.pc # "idle" /\ walk.sound =>
       /\ intact
       /\ walk.pc # "scan" => walk.page = {}
       /\ Received
       /\ walk.pc = "scan" => Collecting

-----------------------------------------------------------------------------
(* Keys and their order. *)

\* keys.rs: under one prefix, keys are in a strict order.
LEMMA BeforeOrders ==
  ASSUME NEW e, NEW f, NEW g, Ordered(e), Ordered(f), Ordered(g)
  PROVE  /\ ~Before(e, e)
         /\ Before(e, f) /\ Before(f, g) => Before(e, g)
BY DEF Ordered, Before

\* Every write_*: the entries of a row are in the order, and two of them share
\* their prefix only if the row is a transfer of an address to itself.
LEMMA KeysApart ==
  ASSUME NEW t \in Tables, NEW r \in Rows[t], NEW e \in KeysOf(t, r)
  PROVE  /\ Ordered(e) /\ e # None
         /\ \A f \in KeysOf(t, r) : f.cf = e.cf /\ f.owner = e.owner =>
              f = e \/ (e.cf = "transfer_by_addr" /\ r.from = r.to)
<1> USE DEF Entry, IfSome, Ordered
<1>0. r.n \in Nat /\ e # None
  BY StoreAssumption, KeyAssumption
<1>s. t \in {"transfer", "event", "block", "endorsement", "denunciation"} => r.slot \in Nat
  BY StoreAssumption DEF BySlot, SlotTables, OnceTables
<1>1. CASE t = "transfer"
  <2>1. KeysOf(t, r) = TransferKeys(r)
    BY <1>1 DEF KeysOf
  <2> QED BY <1>0, <1>s, <1>1, <2>1 DEF TransferKeys
<1>2. CASE t = "event"
  <2>1. KeysOf(t, r) = EventKeys(r)
    BY <1>2 DEF KeysOf
  <2> QED BY <1>0, <1>s, <1>2, <2>1 DEF EventKeys
<1>3. CASE t = "block"
  <2>1. KeysOf(t, r) = BlockKeys(r)
    BY <1>3 DEF KeysOf
  <2> QED BY <1>0, <1>s, <1>3, <2>1 DEF BlockKeys
<1>4. CASE t = "op"
  <2>1. KeysOf(t, r) = OpKeys(r)
    BY <1>4 DEF KeysOf
  <2>2. r.first = None \/ r.first \in Nat
    BY <1>4, StoreAssumption
  <2> QED BY <1>0, <1>4, <2>1, <2>2 DEF OpKeys
<1>5. CASE t = "endorsement"
  <2>1. KeysOf(t, r) = EndorsementKeys(r)
    BY <1>5 DEF KeysOf
  <2> QED BY <1>0, <1>s, <1>5, <2>1 DEF EndorsementKeys
<1>6. CASE t = "denunciation"
  <2>1. KeysOf(t, r) = DenunciationKeys(r)
    BY <1>6 DEF KeysOf
  <2> QED BY <1>0, <1>s, <1>6, <2>1 DEF DenunciationKeys
<1>7. CASE t = "async"
  <2>1. KeysOf(t, r) = AsyncKeys(r)
    BY <1>7 DEF KeysOf
  <2> QED BY <1>0, <1>7, <2>1 DEF AsyncKeys
<1>8. CASE t = "deferred"
  <2>1. KeysOf(t, r) = DeferredKeys(r)
    BY <1>8 DEF KeysOf
  <2> QED BY <1>0, <1>8, <2>1 DEF DeferredKeys
<1>9. CASE t = "slot"
  BY <1>9 DEF KeysOf
<1> QED BY <1>1, <1>2, <1>3, <1>4, <1>5, <1>6, <1>7, <1>8, <1>9 DEF Tables, SlotTables, OnceTables

\* The routes of rest.rs, one by one.
LEMMA RoutesOK == table \in Tables => \A scan \in Routes : ScanOK(scan)
<1> SUFFICES ASSUME table \in Tables, NEW scan \in Routes PROVE ScanOK(scan)
  OBVIOUS
<1> USE DEF ScanOK, Scan, ScanPrefixForwardIds, IterScEventsWithPrefix, IterTransfersViaIdx,
     IterTransfersByAddr, IterDenunciationsByAddr, IterDenunciationsRecent, IterAsyncByAddr,
     IterDeferredByAddr, IterScEventsForSlot, IterAllAsync, IterAllDeferred
<1>1. CASE table \in {"block", "op", "endorsement"}
  <2>1. \E x \in Owners : scan \in BlocksByAddr(x) \cup OpsByAddr(x) \cup ReceivedOpsByAddr(x)
                                   \cup AddrEndorsements(x)
    BY <1>1 DEF Routes
  <2> QED BY <2>1 DEF BlocksByAddr, OpsByAddr, ReceivedOpsByAddr, AddrEndorsements
<1>2. CASE table = "denunciation"
  <2>1. (\E x \in Owners : scan \in AddrDenunciations(x)) \/ scan \in DenunciationsRecent
    BY <1>2 DEF Routes
  <2> QED BY <2>1 DEF AddrDenunciations, DenunciationsRecent
<1>3. CASE table = "transfer"
  <2>1. \E x \in Owners : scan \in AddrTransfers(x) \cup OpTransfers(x)
    BY <1>3 DEF Routes
  <2> QED BY <2>1 DEF AddrTransfers, OpTransfers
<1>4. CASE table = "event"
  <2>1. \/ \E x \in Owners : scan \in AddrEvents(x) \cup OpEvents(x)
        \/ \E s \in RowSlots : scan \in SlotEvents(s)
    BY <1>4 DEF Routes
  <2> QED BY <2>1 DEF AddrEvents, OpEvents, SlotEvents
<1>5. CASE table = "async"
  <2>1. (\E x \in Owners : scan \in AddrAsync(x)) \/ scan \in AsyncList
    BY <1>5 DEF Routes
  <2> QED BY <2>1 DEF AddrAsync, AsyncList
<1>6. CASE table = "deferred"
  <2>1. (\E x \in Owners : scan \in AddrDeferred(x)) \/ scan \in DeferredList
    BY <1>6 DEF Routes
  <2> QED BY <2>1 DEF AddrDeferred, DeferredList
<1>7. CASE table = "slot"
  BY <1>7 DEF Routes
<1> QED BY <1>1, <1>2, <1>3, <1>4, <1>5, <1>6, <1>7 DEF Tables, SlotTables, OnceTables

\* The entries of a row under one prefix lead back to it, and there is one of them
\* unless the row is a transfer of an address to itself.
LEMMA CallsFacts ==
  ASSUME NEW t \in Tables, NEW r \in Rows[t], NEW scan, ScanOK(scan), NEW k,
         k = PrimaryKey(t, r), NEW e \in CallsOf(t, scan, k, r)
  PROVE  /\ Ordered(e) /\ e # None /\ Target(t, e) = k
         /\ \A f \in CallsOf(t, scan, k, r) : f = e \/ (scan.how = "addr" /\ r.from = r.to)
<1>1. CASE scan.how = "primary"
  <2>1. e = Entry("primary", scan.owner, k[1], k[2], 0)
        /\ \A f \in CallsOf(t, scan, k, r) : f = Entry("primary", scan.owner, k[1], k[2], 0)
    BY <1>1 DEF CallsOf
  <2>2. r.n \in Nat /\ (t \in BySlot => r.slot \in Nat)
    BY StoreAssumption
  <2>3. e # None
    BY <1>1, <2>1, KeyAssumption DEF CallsOf
  <2> QED BY <2>1, <2>2, <2>3 DEF Entry, Ordered, Target, PrimaryKey
<1>2. CASE scan.how # "primary"
  <2>1. /\ e \in KeysOf(t, r) /\ e.cf = scan.cf
        /\ \A f \in CallsOf(t, scan, k, r) : f \in KeysOf(t, r) /\ f.cf = e.cf /\ f.owner = e.owner
    BY <1>2 DEF CallsOf
  <2>2. Ordered(e) /\ e # None /\ Target(t, e) = k
    BY <2>1, KeysApart, KeysLead
  <2>3. \A f \in CallsOf(t, scan, k, r) : f = e \/ (e.cf = "transfer_by_addr" /\ r.from = r.to)
    BY <2>1, KeysApart
  <2> QED BY <2>1, <2>2, <2>3 DEF ScanOK
<1> QED BY <1>1, <1>2

\* What the rows call for, row by row.
LEMMA CalledIs ==
  ASSUME NEW scan
  PROVE  \A e : e \in Called(scan) <=> \E k \in Stored : e \in CallsOf(table, scan, k, primary[k])
<1>1. CASE scan.how = "primary"
  BY <1>1 DEF Called, Under, CallsOf
<1>2. CASE scan.how # "primary"
  BY <1>2, ExactIs DEF Called, CallsOf
<1> QED BY <1>1, <1>2

\* An entry that is called for: its row, and no other entry of that row.
LEMMA CalledFacts ==
  ASSUME StoreTypeOK, Placed, NEW scan, ScanOK(scan), NEW e \in Called(scan)
  PROVE  LET k == Target(table, e) IN
         /\ Ordered(e) /\ e # None /\ k \in Stored /\ k \in PrimaryKeys(table) /\ primary[k] # None
         /\ e \in CallsOf(table, scan, k, primary[k])
         /\ \A f \in Called(scan) : Target(table, f) = k =>
              f = e \/ (scan.how = "addr" /\ primary[k].from = primary[k].to)
<1>1. ASSUME NEW g \in Called(scan)
      PROVE  \E k \in Stored : /\ g \in CallsOf(table, scan, k, primary[k])
                               /\ Ordered(g) /\ g # None /\ Target(table, g) = k
                               /\ primary[k] \in Rows[table] /\ k = PrimaryKey(table, primary[k])
  <2>1. PICK k \in Stored : g \in CallsOf(table, scan, k, primary[k])
    BY <1>1, CalledIs
  <2>2. table \in Tables /\ primary[k] \in Rows[table] /\ k = PrimaryKey(table, primary[k])
    BY StoredFacts DEF StoreTypeOK
  <2> QED BY <2>1, <2>2, CallsFacts
<1>2. PICK k \in Stored : /\ e \in CallsOf(table, scan, k, primary[k])
                          /\ Ordered(e) /\ e # None /\ Target(table, e) = k
                          /\ primary[k] \in Rows[table] /\ k = PrimaryKey(table, primary[k])
  BY <1>1
<1>3. ASSUME NEW f \in Called(scan), Target(table, f) = Target(table, e)
      PROVE  f = e \/ (scan.how = "addr" /\ primary[k].from = primary[k].to)
  <2>1. f \in CallsOf(table, scan, k, primary[k])
    BY <1>1, <1>2, <1>3
  <2>2. table \in Tables
    BY DEF StoreTypeOK
  <2> QED BY <1>2, <2>1, <2>2, CallsFacts
<1> QED BY <1>2, <1>3 DEF Stored

\* Every write_* files entries of rows.
LEMMA IndexMadeStep == StoreInv /\ IndexMade /\ [StoreNext]_svars => IndexMade'
<1> SUFFICES ASSUME StoreInv, IndexMade, [StoreNext]_svars PROVE IndexMade'
  OBVIOUS
<1> USE DEF StoreInv
<1>0. ASSUME table' = table, \A e \in index' : e \in index \/ \E r \in Rows[table] : e \in KeysOf(table, r)
      PROVE  IndexMade'
  BY <1>0 DEF IndexMade
<1>1. ASSUME NEW r \in Rows[table], Put(r), table' = table PROVE IndexMade'
  BY <1>0, <1>1 DEF Put
<1>2. CASE UNCHANGED svars
  BY <1>2 DEF svars, IndexMade
<1>3. CASE \/ \E s \in RowSlots : \E b \in Batches["transfer"] : ClearTransfers(s, b)
           \/ \E s \in RowSlots : \E b \in Batches["event"] : ClearScEvents(s, b)
  BY <1>0, <1>3 DEF ClearTransfers, ClearScEvents, BeginSlot, DropSlot
<1>4. CASE \E b \in LegacyBatches : BeginLegacy(b)
  BY <1>0, <1>4 DEF BeginLegacy
<1>5. CASE WriteTransfer \/ WriteScEvent
  <2>1. WriteRow /\ Head(job) \in Rows[table]
    BY <1>5 DEF WriteTransfer, WriteScEvent, WriteRow, StoreTypeOK
  <2> QED BY <1>1, <2>1 DEF WriteRow
<1>6. CASE \/ \E r \in Rows["slot"] : WriteSlot(r)
           \/ \E r \in Rows["block"] : WriteBlock(r)
           \/ \E r \in Rows["endorsement"] : WriteEndorsement(r)
  BY <1>1, <1>6 DEF WriteSlot, WriteBlock, WriteEndorsement, Settled
<1>7. ASSUME NEW r \in Rows["op"], WriteOp(r) PROVE IndexMade'
  <2> DEFINE k == PrimaryKey(table, r)
             new == IF primary[k] = None THEN r ELSE KeptFirst(primary[k], r)
  <2>1. table = "op" /\ Put(new) /\ table' = table
    BY <1>7 DEF WriteOp, Settled
  <2>2. new \in Rows[table]
    <3>1. k \in PrimaryKeys(table)
      BY <2>1 DEF PrimaryKeys
    <3>2. CASE primary[k] # None
      <4>1. primary[k] \in Rows["op"] /\ PrimaryKey(table, primary[k]) = k
        BY <2>1, <3>1, <3>2 DEF StoreTypeOK, Placed
      <4>2. primary[k].n = r.n
        BY <2>1, <4>1 DEF PrimaryKey, BySlot, SlotTables
      <4>3. [r EXCEPT !.first = primary[k].first] \in Rows["op"]
        BY <4>1, <4>2, StoreAssumption
      <4> QED BY <2>1, <4>3 DEF KeptFirst
    <3> QED BY <2>1, <3>2
  <2> QED BY <1>1, <2>1, <2>2
<1>8. CASE \E r \in Rows["denunciation"] : WriteDenunciation(r)
  <2>1. PICK r \in Rows["denunciation"] : WriteDenunciation(r)
    BY <1>8
  <2>2. table = "denunciation" /\ table' = table /\ (Put(r) \/ index' = index)
    BY <2>1 DEF WriteDenunciation, Settled
  <2> QED BY <1>0, <1>1, <2>2
<1>9. CASE \/ \E r \in Rows["async"] : WriteAsyncMsg(r)
           \/ \E r \in Rows["deferred"] : WriteDeferredCall(r)
  BY <1>0, <1>9 DEF WriteAsyncMsg, WriteDeferredCall, Upsert, Settled
<1>10. CASE RawClear \/ EndRebuild \/ StartRebuild \/ Crash
  BY <1>0, <1>10 DEF RawClear, EndRebuild, StartRebuild, Crash
<1>11. CASE Replay
  <2> DEFINE k == CHOOSE j \in tool.keys : TRUE
  <2>1. /\ table' = table /\ tool.keys # {} /\ tool.pc = "replay"
        /\ index' = index \cup KeysOf(table, primary[k])
    BY <1>11 DEF Replay, Reemitted
  <2>2. k \in Stored
    BY <2>1 DEF ToolInv
  <2> HIDE DEF k
  <2>3. primary[k] \in Rows[table]
    BY <2>2, StoredFacts
  <2> QED BY <1>0, <2>1, <2>3
<1> QED BY <1>2, <1>3, <1>4, <1>5, <1>6, <1>7, <1>8, <1>9, <1>10, <1>11
       DEF StoreNext, StoreRuns, StoreStops

-----------------------------------------------------------------------------
(* The store moves on. *)

\* While no rebuild begins, the table stays and entries only become stale.
LEMMA StoreKeeps ==
  ASSUME StoreInv, [StoreNext]_svars
  PROVE  table' = table /\ (intact => stale \subseteq stale')
<1> USE DEF Settled
<1>1. CASE UNCHANGED svars
  BY <1>1 DEF svars
<1>2. CASE \/ \E s \in RowSlots : \E b \in Batches["transfer"] : ClearTransfers(s, b)
           \/ \E s \in RowSlots : \E b \in Batches["event"] : ClearScEvents(s, b)
           \/ \E b \in LegacyBatches : BeginLegacy(b)
  BY <1>2 DEF ClearTransfers, ClearScEvents, BeginSlot, BeginLegacy
<1>3. CASE WriteTransfer \/ WriteScEvent
  BY <1>3 DEF WriteTransfer, WriteScEvent, WriteRow
<1>4. CASE \/ \E r \in Rows["slot"] : WriteSlot(r)
           \/ \E r \in Rows["block"] : WriteBlock(r)
           \/ \E r \in Rows["endorsement"] : WriteEndorsement(r)
           \/ \E r \in Rows["op"] : WriteOp(r)
  BY <1>4 DEF WriteSlot, WriteBlock, WriteEndorsement, WriteOp
<1>5. CASE \/ \E r \in Rows["denunciation"] : WriteDenunciation(r)
           \/ \E r \in Rows["async"] : WriteAsyncMsg(r)
           \/ \E r \in Rows["deferred"] : WriteDeferredCall(r)
  BY <1>5 DEF WriteDenunciation, WriteAsyncMsg, WriteDeferredCall
<1>6. CASE RawClear \/ StartRebuild \/ Crash \/ Replay
  BY <1>6 DEF RawClear, StartRebuild, Crash, Replay
<1>7. CASE EndRebuild
  BY <1>7 DEF EndRebuild, StoreInv, ToolInv
<1> QED BY <1>1, <1>2, <1>3, <1>4, <1>5, <1>6, <1>7 DEF StoreNext, StoreRuns, StoreStops

\* A write, clear or crash underneath a walk: what concerns a row that it does not
\* change is as before.
LEMMA RowsMove ==
  ASSUME StoreInv, StoreInv', [StoreNext]_svars, intact, ScanOK(walk.scan),
         walk'.scan = walk.scan, walk'.touched = walk.touched \cup Changed
  PROVE  /\ Due' \subseteq Due
         /\ \A e \in Due : Target(table, e) \notin walk'.touched => e \in Due'
         /\ \A k \in PrimaryKeys(table) : /\ Excused(k) => Excused(k)'
                                          /\ Sourced(k) => Sourced(k)'
<1>0. table' = table /\ stale \subseteq stale' /\ DOMAIN primary = PrimaryKeys(table)
  BY StoreKeeps DEF StoreInv, StoreTypeOK
<1>1. \A k \in PrimaryKeys(table) : k \notin walk'.touched => primary'[k] = primary[k]
  BY <1>0 DEF Changed
<1>2. \A e : e \in Called(walk.scan) <=>
        \E k \in Stored : e \in CallsOf(table, walk.scan, k, primary[k])
  BY CalledIs
<1>3. \A e : e \in Called(walk.scan)' <=>
        \E k \in Stored' : e \in CallsOf(table, walk.scan, k, primary'[k])
  <2>1. CASE walk.scan.how = "primary"
    BY <1>0, <2>1 DEF Called, Under, CallsOf
  <2>2. CASE walk.scan.how # "primary"
    BY <1>0, <2>2 DEF Called, CallsOf, Exact
  <2> QED BY <2>1, <2>2
<1>4. ASSUME NEW k \in Stored', NEW e \in CallsOf(table, walk.scan, k, primary'[k])
      PROVE  Target(table, e) = k /\ k \in PrimaryKeys(table)
  <2>1. k \in PrimaryKeys(table) /\ primary'[k] # None
    BY <1>0 DEF Stored
  <2>2. primary'[k] \in Rows[table] /\ PrimaryKey(table, primary'[k]) = k /\ table \in Tables
    BY <1>0, <2>1 DEF StoreInv, StoreTypeOK, Placed
  <2> QED BY <1>4, <2>1, <2>2, CallsFacts
<1>5. \A k \in PrimaryKeys(table) : k \notin walk'.touched => (k \in Stored' <=> k \in Stored)
  BY <1>0, <1>1 DEF Stored
<1>6. ASSUME NEW e \in Called(walk.scan)', Target(table, e) \notin walk'.touched
      PROVE  e \in Called(walk.scan)
  <2>1. PICK k \in Stored' : e \in CallsOf(table, walk.scan, k, primary'[k])
    BY <1>3, <1>6
  <2>2. Target(table, e) = k /\ k \in PrimaryKeys(table)
    BY <1>4, <2>1
  <2> QED BY <1>1, <1>2, <1>5, <1>6, <2>1, <2>2
<1>7. ASSUME NEW e \in Called(walk.scan), Target(table, e) \notin walk'.touched
      PROVE  e \in Called(walk.scan)'
  <2> DEFINE k == Target(table, e)
  <2>1. /\ k \in Stored /\ k \in PrimaryKeys(table)
        /\ e \in CallsOf(table, walk.scan, k, primary[k])
    BY <1>7, CalledFacts DEF StoreInv
  <2> HIDE DEF k
  <2>2. k \in Stored' /\ primary'[k] = primary[k]
    BY <1>1, <1>5, <1>7, <2>1 DEF k
  <2> QED BY <1>3, <2>1, <2>2
<1>8. Due' \subseteq Due
  BY <1>0, <1>6 DEF Due
<1>9. \A e \in Due : Target(table, e) \notin walk'.touched => e \in Due'
  BY <1>0, <1>7 DEF Due
<1>10. \A k : Left(k) => Left(k)'
  BY <1>0 DEF Left
<1>11. ASSUME NEW k \in PrimaryKeys(table), Excused(k) PROVE Excused(k)'
  <2>1. CASE k \in walk'.touched
    BY <2>1 DEF Excused
  <2>2. CASE k \notin walk'.touched
    <3>1. primary'[k] = primary[k] /\ k \notin walk.touched
      BY <1>1, <2>2
    <3>2. SelfTransfer(k) => SelfTransfer(k)'
      BY <3>1 DEF SelfTransfer
    <3> QED BY <1>10, <1>11, <3>1, <3>2 DEF Excused
  <2> QED BY <2>1, <2>2
<1>12. ASSUME NEW k \in PrimaryKeys(table), Sourced(k) PROVE Sourced(k)'
  <2>1. CASE k \in walk'.touched
    BY <2>1 DEF Sourced
  <2>2. CASE k \notin walk'.touched
    <3>1. ASSUME NEW e \in Called(walk.scan), Target(table, e) = k PROVE Sourced(k)'
      BY <1>0, <1>7, <2>2, <3>1 DEF Sourced
    <3> QED BY <1>10, <1>12, <2>2, <3>1 DEF Sourced
  <2> QED BY <2>1, <2>2
<1> QED BY <1>8, <1>9, <1>11, <1>12

\* What the writer does to the fields of a walk.
LEMMA NotedFields ==
  ASSUME NEW w, Shaped(w), w.pc # "idle", NEW v, v = Noted(w)
  PROVE  /\ Shaped(v) /\ v.touched = w.touched \cup Changed /\ v.sound = (w.sound /\ intact')
         /\ v.pc = w.pc /\ v.scan = w.scan /\ v.limit = w.limit /\ v.cursor = w.cursor
         /\ v.todo = w.todo /\ v.last = w.last /\ v.page = w.page /\ v.seen = w.seen
         /\ v.got = w.got /\ v.twice = w.twice
BY DEF Shaped, Noted

\* What a stop of the server does to them.
LEMMA CutOffFields ==
  ASSUME NEW w, Shaped(w), NEW v, v = CutOff(w)
  PROVE  /\ Shaped(v) /\ v.pc = (IF w.pc = "scan" THEN "ask" ELSE w.pc)
         /\ v.todo = {} /\ v.last = None /\ v.page = {} /\ v.seen = {}
         /\ v.touched = w.touched /\ v.sound = w.sound
         /\ v.scan = w.scan /\ v.limit = w.limit /\ v.cursor = w.cursor
         /\ v.got = w.got /\ v.twice = w.twice
BY DEF Shaped, CutOff

\* The writer and the tool go on, or the server stops, underneath a walk.
LEMMA UnderneathKeeps ==
  ASSUME StoreInv, StoreInv', WalkInv, Underneath
  PROVE  WalkInv'
<1>0. [StoreNext]_svars /\ walk' \in {Noted(walk), CutOff(Noted(walk))}
  BY DEF Underneath, StoreNext
<1>1. CASE walk.pc = "idle"
  <2>1. walk = WalkIdle /\ Noted(walk) = walk
    BY <1>1 DEF WalkInv, Noted
  <2>2. CutOff(WalkIdle) = WalkIdle
    <3> DEFINE w == WalkIdle
    <3>1. /\ Shaped(w) /\ w.pc = "idle" /\ w.scan = None /\ w.limit = 1 /\ w.cursor = None
          /\ w.todo = {} /\ w.last = None /\ w.page = {} /\ w.seen = {} /\ w.got = {}
          /\ w.twice = {} /\ w.touched = {} /\ w.sound = TRUE
      BY DEF Shaped, WalkIdle
    <3> HIDE DEF w
    <3>2. ASSUME NEW v, v = CutOff(w) PROVE v = w
      <4>1. /\ Shaped(v) /\ v.pc = "idle" /\ v.scan = None /\ v.limit = 1 /\ v.cursor = None
            /\ v.todo = {} /\ v.last = None /\ v.page = {} /\ v.seen = {} /\ v.got = {}
            /\ v.twice = {} /\ v.touched = {} /\ v.sound = TRUE
        BY <3>1, <3>2, CutOffFields
      <4> QED BY <3>1, <4>1 DEF Shaped
    <3> QED BY <3>2 DEF w
  <2>3. walk' = WalkIdle /\ walk' = walk
    BY <1>0, <2>1, <2>2
  <2> QED BY <1>1, <2>1, <2>3 DEF WalkInv, Shaped
<1>2. CASE walk.pc # "idle"
  <2>1. /\ Shaped(walk') /\ walk'.touched = walk.touched \cup Changed
        /\ walk'.sound = (walk.sound /\ intact')
        /\ walk'.scan = walk.scan /\ walk'.limit = walk.limit /\ walk'.cursor = walk.cursor
        /\ walk'.got = walk.got /\ walk'.twice = walk.twice
        /\ \/ /\ walk'.pc = walk.pc
              /\ walk'.todo = walk.todo /\ walk'.last = walk.last /\ walk'.page = walk.page
              /\ walk'.seen = walk.seen
           \/ walk'.page = {} /\ walk'.pc = (IF walk.pc = "scan" THEN "ask" ELSE walk.pc)
    <3>1. Shaped(walk)
      BY DEF WalkInv
    <3>2. CASE walk' = Noted(walk)
      BY <1>2, <3>1, <3>2, NotedFields
    <3>3. CASE walk' = CutOff(Noted(walk))
      <4> DEFINE w == Noted(walk)
      <4>1. /\ Shaped(w) /\ w.touched = walk.touched \cup Changed /\ w.sound = (walk.sound /\ intact')
            /\ w.pc = walk.pc /\ w.scan = walk.scan /\ w.limit = walk.limit /\ w.cursor = walk.cursor
            /\ w.got = walk.got /\ w.twice = walk.twice
        BY <1>2, <3>1, NotedFields
      <4> HIDE DEF w
      <4>2. walk' = CutOff(w)
        BY <3>3 DEF w
      <4> QED BY <4>1, <4>2, CutOffFields
    <3> QED BY <1>0, <3>2, <3>3
  <2>2. walk'.pc \in {"ask", "scan", "done"} /\ walk.pc \in {"ask", "scan", "done"}
    BY <1>2, <2>1 DEF WalkInv
  <2>3. CASE walk'.sound
    <3>1. /\ walk.sound /\ intact /\ intact' /\ ScanOK(walk.scan) /\ walk.limit \in Nat \ {0}
          /\ Received /\ (walk.pc # "scan" => walk.page = {})
          /\ walk.pc = "scan" => Collecting
      BY <1>2, <2>1, <2>3 DEF WalkInv
    <3>2. /\ Due' \subseteq Due
          /\ \A e \in Due : Target(table, e) \notin walk'.touched => e \in Due'
          /\ \A k \in PrimaryKeys(table) : /\ Excused(k) => Excused(k)'
                                           /\ Sourced(k) => Sourced(k)'
      BY <1>0, <2>1, <3>1, RowsMove
    <3>3. table' = table
      BY <1>0, StoreKeeps
    <3>4. ASSUME NEW k, NEW at, Behind(k, at)
          PROVE  \A e \in Due' : Target(table', e) = k => ~PastCursor(at, e)
      BY <3>2, <3>3, <3>4 DEF Behind
    <3>5. Received'
      <4>1. \A k \in walk.got : k \in PrimaryKeys(table) /\ Sourced(k)'
        BY <3>1, <3>2 DEF Received
      <4>2. \A k \in walk.twice : k \in walk.got /\ Excused(k)'
        BY <3>1, <3>2 DEF Received
      <4>3. walk'.pc = "done" => \A e \in Due' : Target(table', e) \in walk.got
        BY <2>1, <2>2, <3>1, <3>2, <3>3 DEF Received
      <4>4. ASSUME walk'.pc \in {"ask", "scan"}
            PROVE  /\ walk.cursor # None => Ordered(walk.cursor)
                   /\ \A e \in Due' : Target(table', e) \in walk.got \/ PastCursor(walk.cursor, e)
                   /\ \A k \in walk.got : Excused(k)' \/ Behind(k, walk.cursor)'
        <5>1. walk.pc \in {"ask", "scan"}
          BY <2>1, <2>2, <4>4
        <5>2. \A k \in walk.got : Behind(k, walk.cursor) => Behind(k, walk.cursor)'
          BY <2>1, <3>4 DEF Behind
        <5> QED BY <3>1, <3>2, <3>3, <4>1, <5>1, <5>2 DEF Received
      <4> QED BY <2>1, <3>3, <4>1, <4>2, <4>3, <4>4 DEF Received
    <3>6. walk'.pc # "scan" => walk'.page = {}
      BY <2>1, <3>1
    <3>7. ASSUME walk'.pc = "scan" PROVE Collecting'
      <4>1. /\ walk.pc = "scan" /\ Collecting
            /\ walk'.todo = walk.todo /\ walk'.last = walk.last /\ walk'.page = walk.page
            /\ walk'.seen = walk.seen
        BY <2>1, <3>1, <3>7
      <4>2. ASSUME NEW e \in walk.todo
            PROVE  /\ Ordered(e) /\ e # None /\ Target(table, e) \in PrimaryKeys(table)
                   /\ PastCursor(walk.cursor, e) /\ PastCursor(walk.last, e)
                   /\ Sourced(Target(table, e))'
                   /\ e \in Due' \/ Excused(Target(table, e))'
        <5>1. /\ Ordered(e) /\ e # None /\ Target(table, e) \in PrimaryKeys(table)
              /\ PastCursor(walk.cursor, e) /\ PastCursor(walk.last, e)
              /\ Sourced(Target(table, e)) /\ (e \in Due \/ Excused(Target(table, e)))
          BY <4>1 DEF Collecting
        <5>2. \A k : k \in walk'.touched => Excused(k)'
          BY DEF Excused
        <5>3. \A k \in PrimaryKeys(table) : Target(table, e) = k => Sourced(Target(table, e))'
                                            /\ (e \in Due' \/ Excused(Target(table, e))')
          <6> SUFFICES ASSUME NEW k \in PrimaryKeys(table), Target(table, e) = k
                       PROVE  Sourced(k)' /\ (e \in Due' \/ Excused(k)')
            BY <3>3
          <6> QED BY <3>2, <5>1, <5>2
        <5> QED BY <5>1, <5>3
      <4>3. \A k \in walk.page : Behind(k, walk.last) => Behind(k, walk.last)'
        BY <3>4, <4>1 DEF Behind
      <4>4. \A k \in walk.page : /\ k \in PrimaryKeys(table) /\ Sourced(k)'
                                 /\ Excused(k)' \/ Behind(k, walk.last)'
        BY <3>2, <4>1, <4>3 DEF Collecting
      <4>5. \A k \in walk.seen : /\ k \in PrimaryKeys(table)
                                 /\ k \in walk.page \/ primary'[k] = None \/ k \in walk'.touched
        <5>1. \A k \in PrimaryKeys(table) : k \in walk'.touched \/ primary'[k] = primary[k]
          BY <2>1 DEF StoreInv, StoreTypeOK, Changed
        <5> QED BY <2>1, <4>1, <5>1 DEF Collecting
      <4>6. \A e \in Due' : Target(table, e) \in walk.got \cup walk.page \/ e \in walk.todo
        BY <3>2, <4>1 DEF Collecting
      <4>7. \A k \in walk.got \cap walk.page : Excused(k)'
        BY <3>2, <4>1, <4>4 DEF Collecting
      <4>8. /\ walk.last # None => Ordered(walk.last) /\ PastCursor(walk.cursor, walk.last)
            /\ walk.page # {} => walk.last # None
        BY <4>1 DEF Collecting
      <4>9. \A e \in walk.todo : Sourced(Target(table, e))' /\ (e \in Due' \/ Excused(Target(table, e))')
        BY <4>2
      <4> QED BY <2>1, <3>3, <4>1, <4>2, <4>4, <4>5, <4>6, <4>7, <4>8, <4>9 DEF Collecting
    <3> QED BY <2>1, <2>2, <3>1, <3>5, <3>6, <3>7 DEF WalkInv
  <2>4. CASE ~walk'.sound
    BY <1>2, <2>1, <2>2, <2>4 DEF WalkInv
  <2> QED BY <2>3, <2>4
<1> QED BY <1>1, <1>2

-----------------------------------------------------------------------------
(* Requests. *)

\* A request moves nothing in the store.
LEMMA SameStore ==
  ASSUME UNCHANGED svars, walk'.touched = walk.touched, walk'.scan = walk.scan
  PROVE  /\ table' = table /\ primary' = primary /\ intact' = intact
         /\ Due' = Due
         /\ \A k : /\ Excused(k)' <=> Excused(k)
                   /\ Sourced(k)' <=> Sourced(k)
<1>1. table' = table /\ primary' = primary /\ intact' = intact /\ index' = index /\ stale' = stale
  BY DEF svars
<1>2. Called(walk.scan)' = Called(walk.scan)
  BY <1>1 DEF Called, Under, Exact, Stored
<1>3. \A k : SelfTransfer(k)' <=> SelfTransfer(k)
  BY <1>1 DEF SelfTransfer
<1> QED BY <1>1, <1>2, <1>3 DEF Due, Excused, Sourced, Left

\* What opening an iterator does to the fields of a walk.
LEMMA OpenFields ==
  ASSUME NEW w, Shaped(w), NEW scan, NEW limit, NEW v, v = Open(w, scan, limit)
  PROVE  /\ Shaped(v) /\ v.pc = "scan" /\ v.scan = scan /\ v.limit = limit
         /\ v.todo = {e \in Under(scan) : PastCursor(w.cursor, e)}
         /\ v.last = None /\ v.page = {} /\ v.seen = {}
         /\ v.touched = w.touched /\ v.sound = w.sound /\ v.cursor = w.cursor
         /\ v.got = w.got /\ v.twice = w.twice
BY DEF Shaped, Open

\* What the end of a page does to them.
LEMMA DeliverFields ==
  ASSUME NEW w, Shaped(w), NEW cursor, NEW v, v = Deliver(w, cursor)
  PROVE  /\ Shaped(v) /\ v.pc = (IF cursor = None THEN "done" ELSE "ask")
         /\ v.cursor = cursor /\ v.page = {}
         /\ v.got = w.got \cup w.page /\ v.twice = w.twice \cup (w.got \cap w.page)
         /\ v.touched = w.touched /\ v.sound = w.sound /\ v.scan = w.scan /\ v.limit = w.limit
BY DEF Shaped, Deliver

\* The iter_* scans open their iterator: what the client has not received is under it.
LEMMA WalkOpens ==
  ASSUME StoreInv, IndexMade, intact, UNCHANGED svars, Shaped(walk), NEW scan, ScanOK(scan),
         NEW limit \in Nat \ {0}, walk' = Open(walk, scan, limit), Received'
  PROVE  WalkInv'
<1>1. /\ Shaped(walk') /\ walk'.pc = "scan" /\ walk'.scan = scan /\ walk'.limit = limit
      /\ walk'.todo = {e \in Under(scan) : PastCursor(walk.cursor, e)}
      /\ walk'.last = None /\ walk'.page = {} /\ walk'.seen = {}
      /\ walk'.cursor = walk.cursor
  BY OpenFields
<1>2. /\ table' = table /\ primary' = primary /\ intact' = intact /\ stale' = stale
      /\ Called(scan)' = Called(scan)
  BY DEF svars, Called, Under, Exact, Stored
<1>3. ASSUME NEW e \in Under(scan)
      PROVE  /\ Ordered(e) /\ e # None /\ Target(table, e) \in PrimaryKeys(table)
             /\ e \in Called(scan) \/ e \in stale
  <2>1. CASE e \in Called(scan)
    BY <2>1, CalledFacts DEF StoreInv
  <2>2. CASE e \notin Called(scan)
    <3>1. e \in index /\ e \in stale
      BY <1>3, <2>2 DEF Called, Under, StoreInv, IndexExact
    <3>2. PICK r \in Rows[table] : e \in KeysOf(table, r)
      BY <3>1 DEF IndexMade
    <3>3. table \in Tables
      BY DEF StoreInv, StoreTypeOK
    <3>4. Ordered(e) /\ e # None
      BY <3>2, <3>3, KeysApart
    <3>5. Target(table, e) \in PrimaryKeys(table)
      BY <3>2, <3>3, KeysLead DEF PrimaryKeys
    <3> QED BY <3>1, <3>4, <3>5
  <2> QED BY <2>1, <2>2
<1>4. Called(scan) \subseteq Under(scan)
  BY DEF Called, Under, StoreInv, IndexExact
<1>5. Collecting'
  <2>1. ASSUME NEW e \in Under(scan)
        PROVE  /\ Sourced(Target(table, e))'
               /\ e \in Due' \/ Excused(Target(table, e))'
    <3>0. PICK k : k = Target(table, e) /\ k = Target(table', e)
      BY <1>2
    <3>1. CASE e \in stale
      <4>1. Left(k)'
        BY <1>2, <3>0, <3>1 DEF Left
      <4>2. Sourced(k)' /\ Excused(k)'
        BY <4>1 DEF Sourced, Excused
      <4> QED BY <3>0, <4>2
    <3>2. CASE e \in Called(scan)
      <4>1. Sourced(k)'
        BY <1>1, <1>2, <3>0, <3>2 DEF Sourced
      <4>2. e \in Due' \/ Excused(k)'
        BY <1>1, <1>2, <3>0, <3>2 DEF Due, Excused
      <4> QED BY <3>0, <4>1, <4>2
    <3> QED BY <1>3, <2>1, <3>1, <3>2
  <2>2. \A e \in Due' : Target(table, e) \in walk'.got \/ e \in walk'.todo
    BY <1>1, <1>2, <1>4 DEF Received, Due
  <2>3. \A e \in walk'.todo : /\ Ordered(e) /\ e # None /\ Target(table, e) \in PrimaryKeys(table)
                              /\ PastCursor(walk'.cursor, e) /\ PastCursor(walk'.last, e)
    BY <1>1, <1>3 DEF PastCursor
  <2>4. \A e \in walk'.todo : /\ Sourced(Target(table, e))'
                              /\ e \in Due' \/ Excused(Target(table, e))'
    BY <1>1, <2>1
  <2> QED BY <1>1, <1>2, <2>2, <2>3, <2>4 DEF Collecting
<1> QED BY <1>1, <1>2, <1>5 DEF WalkInv

\* A client's first request, by any route and page size.
LEMMA OpenWalkKeeps ==
  ASSUME StoreInv, IndexMade, WalkInv, NEW scan \in Routes, NEW l \in Limits, OpenWalk(scan, l)
  PROVE  WalkInv'
<1>1. /\ walk.pc = "idle" /\ intact /\ walk' = Open(walk, scan, l) /\ UNCHANGED svars
      /\ walk = WalkIdle /\ Shaped(walk)
  BY DEF OpenWalk, WalkInv
<1>2. ScanOK(scan) /\ l \in Nat \ {0}
  BY RoutesOK, RecentAssumption DEF StoreInv, StoreTypeOK
<1>3. walk.got = {} /\ walk.twice = {} /\ walk.cursor = None
  BY <1>1 DEF WalkIdle
<1>4. walk'.pc = "scan" /\ walk'.got = {} /\ walk'.twice = {} /\ walk'.cursor = None
  BY <1>1, <1>3, OpenFields
<1>5. Received'
  BY <1>4 DEF Received, PastCursor
<1> QED BY <1>1, <1>2, <1>5, WalkOpens

\* The next request, with the cursor that came with the page before.
LEMMA NextPageKeeps ==
  ASSUME StoreInv, IndexMade, WalkInv, NextPage
  PROVE  WalkInv'
<1>1. /\ walk.pc = "ask" /\ walk' = Open(walk, walk.scan, walk.limit) /\ UNCHANGED svars
      /\ Shaped(walk)
  BY DEF NextPage, WalkInv
<1>2. /\ Shaped(walk') /\ walk'.pc = "scan" /\ walk'.scan = walk.scan
      /\ walk'.limit = walk.limit /\ walk'.touched = walk.touched /\ walk'.sound = walk.sound
      /\ walk'.cursor = walk.cursor /\ walk'.got = walk.got /\ walk'.twice = walk.twice
  BY <1>1, OpenFields
<1>3. CASE ~walk.sound
  BY <1>1, <1>2, <1>3 DEF WalkInv
<1>4. CASE walk.sound
  <2>1. Received /\ intact /\ ScanOK(walk.scan) /\ walk.limit \in Nat \ {0}
    BY <1>1, <1>4 DEF WalkInv
  <2>2. /\ table' = table /\ Due' = Due
        /\ \A k : /\ Excused(k)' <=> Excused(k)
                  /\ Sourced(k)' <=> Sourced(k)
    BY <1>1, <1>2, SameStore
  <2>3. \A k : Behind(k, walk.cursor) => Behind(k, walk.cursor)'
    BY <1>2, <2>2 DEF Behind
  <2>4. Received'
    BY <1>1, <1>2, <2>1, <2>2, <2>3 DEF Received
  <2> QED BY <1>1, <2>1, <2>4, WalkOpens
<1> QED BY <1>3, <1>4

\* The page is full or the iterator at its end: the cursor is the last kept row's key,
\* and what is not delivered lies past it.
LEMMA EndPageKeeps ==
  ASSUME StoreInv, WalkInv, EndPage
  PROVE  WalkInv'
<1> DEFINE c == IF walk.todo = {} THEN None ELSE walk.last
<1>1. /\ walk.pc = "scan" /\ Shaped(walk) /\ UNCHANGED svars /\ walk' = Deliver(walk, c)
      /\ walk.todo = {} \/ Cardinality(walk.page) >= walk.limit
  BY DEF EndPage, WalkInv
<1>2. /\ Shaped(walk') /\ walk'.pc = (IF c = None THEN "done" ELSE "ask")
      /\ walk'.cursor = c /\ walk'.page = {}
      /\ walk'.got = walk.got \cup walk.page
      /\ walk'.twice = walk.twice \cup (walk.got \cap walk.page)
      /\ walk'.touched = walk.touched /\ walk'.sound = walk.sound /\ walk'.scan = walk.scan
      /\ walk'.limit = walk.limit
  BY <1>1, DeliverFields
<1>3. CASE ~walk.sound
  BY <1>1, <1>2, <1>3 DEF WalkInv
<1>4. CASE walk.sound
  <2>1. /\ Received /\ Collecting /\ intact /\ ScanOK(walk.scan) /\ walk.limit \in Nat \ {0}
    BY <1>1, <1>4 DEF WalkInv
  <2>2. /\ table' = table /\ intact' = intact /\ Due' = Due
        /\ \A k : /\ Excused(k)' <=> Excused(k)
                  /\ Sourced(k)' <=> Sourced(k)
    BY <1>1, <1>2, SameStore
  <2>3. walk.todo # {} => walk.last # None
    <3> SUFFICES ASSUME walk.todo # {} PROVE walk.page # {}
      BY <2>1 DEF Collecting
    <3>1. walk.page = {} => Cardinality(walk.page) = 0
      BY FS_EmptySet
    <3> QED BY <1>1, <2>1, <3>1
  <2>4. /\ walk'.got \subseteq PrimaryKeys(table) /\ walk'.twice \subseteq walk'.got
        /\ \A k \in walk'.got : Sourced(k)
        /\ \A k \in walk'.twice : Excused(k)
    BY <1>2, <2>1 DEF Received, Collecting
  <2>5. CASE walk.todo = {}
    <3>1. walk'.pc = "done"
      BY <1>2, <2>5
    <3>2. \A e \in Due : Target(table, e) \in walk'.got
      BY <1>2, <2>1, <2>5 DEF Collecting
    <3>3. Received'
      BY <2>2, <2>4, <3>1, <3>2 DEF Received
    <3> QED BY <1>2, <2>1, <2>2, <3>1, <3>3 DEF WalkInv
  <2>6. CASE walk.todo # {}
    <3>1. walk'.pc = "ask" /\ walk'.cursor = walk.last /\ walk.last # None
      BY <1>2, <2>3, <2>6
    <3>2. Ordered(walk.last) /\ PastCursor(walk.cursor, walk.last)
      BY <2>1, <3>1 DEF Collecting
    <3>3. \A e \in Due : Target(table, e) \in walk'.got \/ PastCursor(walk.last, e)
      BY <1>2, <2>1 DEF Collecting
    <3>4. \A k : Behind(k, walk.cursor) => Behind(k, walk.last)
      <4> SUFFICES ASSUME NEW k, Behind(k, walk.cursor), NEW e \in Due, Target(table, e) = k,
                          PastCursor(walk.last, e)
                   PROVE  FALSE
        BY DEF Behind
      <4>1. Ordered(e)
        BY <2>1, CalledFacts DEF Due, StoreInv
      <4>2. ~PastCursor(walk.cursor, e)
        BY DEF Behind
      <4>3. walk.cursor # None => Ordered(walk.cursor)
        BY <1>1, <2>1 DEF Received
      <4> QED BY <3>1, <3>2, <4>1, <4>2, <4>3, BeforeOrders DEF PastCursor
    <3>5. \A k \in walk'.got : Excused(k) \/ Behind(k, walk.last)
      BY <1>1, <1>2, <2>1, <3>4 DEF Received, Collecting
    <3>6. \A k : Behind(k, walk.last) => Behind(k, walk.cursor)'
      BY <2>2, <3>1 DEF Behind
    <3>7. Received'
      <4>1. \A k \in walk'.got : Excused(k)' \/ Behind(k, walk.cursor)'
        BY <2>2, <3>5, <3>6
      <4> QED BY <2>2, <2>4, <3>1, <3>2, <3>3, <4>1 DEF Received
    <3> QED BY <1>2, <2>1, <2>2, <3>1, <3>7 DEF WalkInv
  <2> QED BY <2>5, <2>6
<1> QED BY <1>3, <1>4

\* From walk w to walk v by an entry e for the row k: the row is collected, was
\* collected, or is gone.
Took(w, v, e, k) ==
  /\ Shaped(v) /\ v.pc = w.pc /\ v.scan = w.scan /\ v.limit = w.limit
  /\ v.cursor = w.cursor /\ v.got = w.got /\ v.twice = w.twice
  /\ v.touched = w.touched /\ v.sound = w.sound
  /\ v.todo = w.todo \ {e} /\ v.seen \subseteq w.seen \cup {k}
  /\ \/ v.last = e /\ v.page = w.page \cup {k}
     \/ v.last = e /\ v.page = w.page /\ v.seen = w.seen /\ k \in w.seen
     \/ v.last = w.last /\ v.page = w.page /\ primary[k] = None

\* What the three kinds of scan do with an entry.
LEMMA EntryFields ==
  ASSUME NEW w, Shaped(w), NEW e, NEW k, k = Target(table, e),
         NEW v, v \in {Collected(w, e), RowEntry(w, e), AddrEntry(w, e)}
  PROVE  Took(w, v, e, k)
<1> USE DEF Took
<1>1. CASE v = Collected(w, e)
  BY <1>1 DEF Shaped, Collected
<1>2. CASE v = [w EXCEPT !.todo = @ \ {e}] /\ primary[k] = None
  BY <1>2 DEF Shaped
<1>3. CASE v = [w EXCEPT !.todo = @ \ {e}, !.last = e] /\ k \in w.seen
  BY <1>3 DEF Shaped
<1>4. CASE v = [w EXCEPT !.todo = @ \ {e}, !.seen = @ \cup {k}] /\ primary[k] = None
  BY <1>4 DEF Shaped
<1>5. CASE v = [Collected(w, e) EXCEPT !.seen = @ \cup {k}]
  BY <1>5 DEF Shaped, Collected
<1> QED BY <1>1, <1>2, <1>3, <1>4, <1>5 DEF RowEntry, AddrEntry

\* The iter_* scans take one entry.
LEMMA ScanEntryKeeps ==
  ASSUME StoreInv, WalkInv, ScanEntry
  PROVE  WalkInv'
<1>1. walk.pc = "scan" /\ Shaped(walk) /\ UNCHANGED svars
  BY DEF ScanEntry, WalkInv
<1>2. CASE ~walk.sound
  <2>1. PICK e \in walk.todo :
          walk' \in {Collected(walk, e), RowEntry(walk, e), AddrEntry(walk, e)}
    BY <1>1 DEF ScanEntry, WalkInv, ScanOK
  <2>2. /\ Shaped(walk') /\ walk'.pc = "scan" /\ walk'.scan = walk.scan
        /\ walk'.limit = walk.limit /\ walk'.sound = walk.sound
    <3>1. Took(walk, walk', e, Target(table, e))
      BY <1>1, <2>1, EntryFields
    <3> QED BY <1>1, <3>1 DEF Took
  <2> QED BY <1>1, <1>2, <2>2 DEF WalkInv
<1>3. CASE walk.sound
  <2>0. /\ Received /\ Collecting /\ intact /\ ScanOK(walk.scan) /\ walk.limit \in Nat \ {0}
    BY <1>1, <1>3 DEF WalkInv
  <2>1. PICK e \in walk.todo :
          /\ IsFirst(e, walk.todo)
          /\ walk' \in {Collected(walk, e), RowEntry(walk, e), AddrEntry(walk, e)}
    BY <2>0 DEF ScanEntry, ScanOK
  <2>2. PICK k : k = Target(table, e)
    OBVIOUS
  <2>3. /\ Shaped(walk') /\ walk'.pc = walk.pc /\ walk'.scan = walk.scan
        /\ walk'.limit = walk.limit /\ walk'.cursor = walk.cursor /\ walk'.got = walk.got
        /\ walk'.twice = walk.twice /\ walk'.touched = walk.touched /\ walk'.sound = walk.sound
        /\ walk'.todo = walk.todo \ {e} /\ walk'.seen \subseteq walk.seen \cup {k}
        /\ \/ walk'.last = e /\ walk'.page = walk.page \cup {k}
           \/ /\ walk'.last = e /\ walk'.page = walk.page
              /\ walk'.seen = walk.seen /\ k \in walk.seen
           \/ walk'.last = walk.last /\ walk'.page = walk.page /\ primary[k] = None
    <3>1. Took(walk, walk', e, k)
      BY <1>1, <2>1, <2>2, EntryFields
    <3> QED BY <3>1 DEF Took
  <2>4. /\ table' = table /\ primary' = primary /\ intact' = intact /\ Due' = Due
        /\ \A j : /\ Excused(j)' <=> Excused(j)
                  /\ Sourced(j)' <=> Sourced(j)
    BY <1>1, <2>3, SameStore
  <2>5. /\ Ordered(e) /\ e # None /\ k \in PrimaryKeys(table)
        /\ PastCursor(walk.cursor, e) /\ PastCursor(walk.last, e)
        /\ Sourced(k) /\ (e \in Due \/ Excused(k))
    BY <2>0, <2>1, <2>2 DEF Collecting
  <2>6. \A f \in Due : /\ Ordered(f) /\ primary[Target(table, f)] # None
                       /\ Target(table, f) \notin walk.touched
    BY <2>0, CalledFacts DEF Due, StoreInv
  <2>7. Received'
    <3>1. \A j : Behind(j, walk.cursor) => Behind(j, walk.cursor)'
      BY <2>3, <2>4 DEF Behind
    <3> QED BY <1>1, <2>0, <2>3, <2>4, <3>1 DEF Received
  <2>8. Excused(k) \/ Behind(k, e)
    <3> SUFFICES ASSUME e \in Due, NEW f \in Due, Target(table, f) = k, PastCursor(e, f)
                 PROVE  Excused(k)
      BY <2>5 DEF Behind
    <3>1. f = e \/ (walk.scan.how = "addr" /\ primary[k].from = primary[k].to)
      BY <2>0, <2>2, CalledFacts DEF Due, StoreInv
    <3>2. f # e
      BY <2>5, BeforeOrders DEF PastCursor
    <3>3. primary[k] # None
      BY <2>6
    <3> QED BY <3>1, <3>2, <3>3 DEF Excused, SelfTransfer
  <2>9. \A j : Behind(j, walk.last) => Behind(j, e)
    <3> SUFFICES ASSUME NEW j, Behind(j, walk.last), NEW f \in Due, Target(table, f) = j,
                        PastCursor(e, f)
                 PROVE  FALSE
      BY DEF Behind
    <3>1. ~PastCursor(walk.last, f) /\ Ordered(f)
      BY <2>6 DEF Behind
    <3>2. Ordered(walk.last)
      BY <2>0, <3>1 DEF Collecting, PastCursor
    <3> QED BY <2>5, <3>1, <3>2, BeforeOrders DEF PastCursor
  <2>10. \A j \in walk'.page : /\ j \in PrimaryKeys(table) /\ Sourced(j)
                               /\ Excused(j) \/ Behind(j, walk'.last)
    <3>1. \A j \in walk.page : /\ j \in PrimaryKeys(table) /\ Sourced(j)
                               /\ Excused(j) \/ Behind(j, walk.last)
      BY <2>0 DEF Collecting
    <3> QED BY <2>3, <2>5, <2>8, <2>9, <3>1
  <2>11. /\ walk'.last # None => Ordered(walk'.last) /\ PastCursor(walk.cursor, walk'.last)
         /\ walk'.page # {} => walk'.last # None
    BY <2>0, <2>3, <2>5 DEF Collecting
  <2>12. \A f \in walk'.todo : /\ Ordered(f) /\ f # None
                               /\ Target(table, f) \in PrimaryKeys(table)
                               /\ PastCursor(walk.cursor, f) /\ PastCursor(walk'.last, f)
                               /\ Sourced(Target(table, f))
                               /\ f \in Due \/ Excused(Target(table, f))
    <3>1. \A f \in walk'.todo : f \in walk.todo /\ PastCursor(e, f)
      BY <2>1, <2>3 DEF IsFirst, PastCursor
    <3> QED BY <2>0, <2>3, <3>1 DEF Collecting
  <2>13. \A f \in Due : Target(table, f) \in walk.got \cup walk'.page \/ f \in walk'.todo
    <3>1. ASSUME e \in Due PROVE k \in walk'.page
      <4>1. primary[k] # None /\ k \notin walk.touched
        BY <2>2, <2>6, <3>1
      <4>2. k \in walk.seen => k \in walk.page
        BY <2>0, <4>1 DEF Collecting
      <4> QED BY <2>3, <4>1, <4>2
    <3>2. \A f \in Due : Target(table, f) \in walk.got \cup walk.page \/ f \in walk.todo
      BY <2>0 DEF Collecting
    <3> QED BY <2>2, <2>3, <3>1, <3>2
  <2>14. \A j \in walk.got \cap walk'.page : Excused(j)
    <3>1. ASSUME k \in walk.got PROVE Excused(k)
      <4>1. Excused(k) \/ Behind(k, walk.cursor)
        BY <1>1, <2>0, <3>1 DEF Received
      <4> QED BY <2>2, <2>5, <4>1 DEF Behind
    <3>2. \A j \in walk.got \cap walk.page : Excused(j)
      BY <2>0 DEF Collecting
    <3> QED BY <2>3, <3>1, <3>2
  <2>15. \A j \in walk'.seen : /\ j \in PrimaryKeys(table)
                               /\ j \in walk'.page \/ primary[j] = None \/ j \in walk.touched
    <3>1. \A j \in walk.seen : /\ j \in PrimaryKeys(table)
                               /\ j \in walk.page \/ primary[j] = None \/ j \in walk.touched
      BY <2>0 DEF Collecting
    <3> QED BY <2>3, <2>5, <3>1
  <2>16. Collecting'
    <3>1. \A j : Behind(j, walk'.last) => Behind(j, walk.last)'
      BY <2>3, <2>4 DEF Behind
    <3>2. \A j \in walk'.page : Sourced(j)' /\ (Excused(j)' \/ Behind(j, walk.last)')
      BY <2>4, <2>10, <3>1
    <3>3. \A f \in walk'.todo : /\ Sourced(Target(table, f))'
                                /\ f \in Due' \/ Excused(Target(table, f))'
      <4> SUFFICES ASSUME NEW f \in walk'.todo, NEW j, j = Target(table, f), j = Target(table', f)
                   PROVE  Sourced(j)' /\ (f \in Due' \/ Excused(j)')
        BY <2>4
      <4> QED BY <2>4, <2>12
    <3> QED BY <2>3, <2>4, <2>10, <2>11, <2>12, <2>13, <2>14, <2>15, <3>2, <3>3 DEF Collecting
  <2> QED BY <1>1, <2>0, <2>3, <2>4, <2>7, <2>16 DEF WalkInv
<1> QED BY <1>2, <1>3

-----------------------------------------------------------------------------
(* Every request and every write. *)

PagesInv == StoreInv /\ IndexMade /\ WalkInv

\* The store is empty and nobody has asked anything.
LEMMA PagesInitInv == PagesInit => PagesInv
<1> SUFFICES ASSUME PagesInit PROVE PagesInv
  OBVIOUS
<1>1. StoreInv
  BY StoreInitInv DEF PagesInit
<1>2. IndexMade
  BY DEF PagesInit, StoreInit, IndexMade
<1>3. walk = WalkIdle
  BY DEF PagesInit
<1>4. WalkInv
  BY <1>3 DEF WalkInv, WalkIdle, Shaped
<1> QED BY <1>1, <1>2, <1>4 DEF PagesInv

\* A step that is no concern of the walk.
LEMMA WalkRests ==
  ASSUME StoreInv, WalkInv, UNCHANGED svars, UNCHANGED walk
  PROVE  WalkInv'
<1>1. /\ table' = table /\ primary' = primary /\ intact' = intact /\ Due' = Due
      /\ \A k : /\ Excused(k)' <=> Excused(k)
                /\ Sourced(k)' <=> Sourced(k)
  BY SameStore
<1>2. /\ \A k : Behind(k, walk.cursor) => Behind(k, walk.cursor)'
      /\ \A k : Behind(k, walk.last) => Behind(k, walk.last)'
  BY <1>1 DEF Behind
<1>3. Received => Received'
  BY <1>1, <1>2 DEF Received
<1>4. Collecting => Collecting'
  <2> SUFFICES ASSUME Collecting PROVE Collecting'
    OBVIOUS
  <2>1. \A e \in walk.todo : /\ Sourced(Target(table, e))'
                             /\ e \in Due' \/ Excused(Target(table, e))'
    <3> SUFFICES ASSUME NEW e \in walk.todo, NEW k, k = Target(table, e), k = Target(table', e)
                 PROVE  Sourced(k)' /\ (e \in Due' \/ Excused(k)')
      BY <1>1
    <3> QED BY <1>1 DEF Collecting
  <2>2. \A k \in walk.page : Sourced(k)' /\ (Excused(k)' \/ Behind(k, walk.last)')
    BY <1>1, <1>2 DEF Collecting
  <2> QED BY <1>1, <2>1, <2>2 DEF Collecting
<1> QED BY <1>1, <1>3, <1>4 DEF WalkInv

\* Every handler, and the writer, the tool and a crash underneath.
LEMMA PagesStepInv == PagesInv /\ [PagesNext]_pvars => PagesInv'
<1> SUFFICES ASSUME StoreInv, IndexMade, WalkInv, [PagesNext]_pvars PROVE PagesInv'
  BY DEF PagesInv
<1>1. [StoreNext]_svars
  BY PagesRead
<1>2. StoreInv' /\ IndexMade'
  BY <1>1, StoreStepInv, IndexMadeStep
<1>3. CASE \E scan \in Routes, l \in Limits : OpenWalk(scan, l)
  BY <1>2, <1>3, OpenWalkKeeps DEF PagesInv
<1>4. CASE NextPage \/ ScanEntry \/ EndPage
  BY <1>2, <1>4, NextPageKeeps, ScanEntryKeeps, EndPageKeeps DEF PagesInv
<1>5. CASE Underneath
  BY <1>2, <1>5, UnderneathKeeps DEF PagesInv
<1>6. CASE (RecentStep /\ UNCHANGED walk) \/ UNCHANGED pvars
  <2>1. UNCHANGED svars /\ UNCHANGED walk
    BY <1>6 DEF RecentStep, AskRecent, CollectSlot, EndBatch, pvars
  <2> QED BY <1>2, <2>1, WalkRests DEF PagesInv
<1> QED BY <1>3, <1>4, <1>5, <1>6 DEF PagesNext, WalkStep

\* At the end of the chain the invariant says what the client has a right to.
LEMMA WalkDone == WalkInv => WalkFaithful
<1> SUFFICES ASSUME WalkInv, walk.pc = "done", walk.sound
             PROVE  LET owned == {Target(table, e) : e \in Called(walk.scan)} IN
                    /\ owned \ walk.touched \subseteq walk.got
                    /\ \A k \in walk.twice \ walk.touched :
                         SelfTransfer(k) \/ \E e \in stale : Target(table, e) = k
                    /\ walk.got \ walk.touched
                         \subseteq owned \cup {Target(table, e) : e \in stale}
  BY DEF WalkFaithful
<1>1. Received
  BY DEF WalkInv
<1>2. \A e \in Called(walk.scan) : Target(table, e) \notin walk.touched => Target(table, e) \in walk.got
  BY <1>1 DEF Received, Due
<1>3. \A k \in walk.twice : k \in walk.touched \/ SelfTransfer(k) \/ Left(k)
  BY <1>1 DEF Received, Excused
<1>4. \A k \in walk.got : k \in walk.touched \/ Left(k) \/ \E e \in Called(walk.scan) : Target(table, e) = k
  BY <1>1 DEF Received, Sourced
<1> QED BY <1>2, <1>3, <1>4 DEF Left

(***************************************************************************)
(* WalkFaithful: for any rows, routes, page sizes and interleaving with    *)
(* the writer, the repair tool and crashes, a client that follows          *)
(* cursor_next to its end has every row of its prefix that did not change, *)
(* once, and nothing that was never there (rest.rs, the iter_* of db.rs).  *)
(***************************************************************************)
THEOREM WalkFaithfulHolds == PagesSpec => []WalkFaithful
<1>1. PagesInit => PagesInv
  BY PagesInitInv
<1>2. PagesInv /\ [PagesNext]_pvars => PagesInv'
  BY PagesStepInv
<1>3. PagesInv => WalkFaithful
  BY WalkDone DEF PagesInv
<1> QED BY <1>1, <1>2, <1>3, PTL DEF PagesSpec

-----------------------------------------------------------------------------
(* The recent lists. *)

\* Slots are told apart by their number.
LEMMA RanksFill ==
  ASSUME NEW keys, IsFiniteSet(keys), \A k \in keys : k[1] \in Nat,
         \A j, k \in keys : j[1] = k[1] => j = k
  PROVE  /\ Cardinality(keys) \in Nat
         /\ \A k \in keys : Rank(keys, k) \in 1 .. Cardinality(keys)
         /\ \A j, k \in keys : Rank(keys, j) < Rank(keys, k) => j[1] > k[1]
         /\ \A j, k \in keys : Rank(keys, j) = Rank(keys, k) => j = k
         /\ \A i \in 1 .. Cardinality(keys) : \E k \in keys : Rank(keys, k) = i
<1> DEFINE N == Cardinality(keys)
           Above(k) == {j \in keys : j[1] > k[1]}
<1>1. N \in Nat
  BY FS_CardinalityType
<1>2. ASSUME NEW k \in keys
      PROVE  /\ IsFiniteSet(Above(k)) /\ Cardinality(Above(k)) \in Nat
             /\ Cardinality(Above(k)) < N
  <2>1. Above(k) \in SUBSET keys /\ k \notin Above(k)
    OBVIOUS
  <2>2. /\ IsFiniteSet(Above(k)) /\ Cardinality(Above(k)) <= N
        /\ N = Cardinality(Above(k)) => keys = Above(k)
    BY <2>1, FS_Subset
  <2>3. Cardinality(Above(k)) \in Nat
    BY <2>2, FS_CardinalityType
  <2> QED BY <1>1, <2>1, <2>2, <2>3
<1>3. \A k \in keys : Rank(keys, k) = Cardinality(Above(k)) + 1
  BY DEF Rank
<1> HIDE DEF Above, N
<1>4. ASSUME NEW j \in keys, NEW k \in keys, j[1] > k[1]
      PROVE  Rank(keys, j) < Rank(keys, k)
  <2>1. Above(j) \in SUBSET Above(k)
    BY <1>4 DEF Above
  <2>2. j \in Above(k) /\ j \notin Above(j)
    BY <1>4 DEF Above
  <2>3. /\ Cardinality(Above(j)) <= Cardinality(Above(k))
        /\ Cardinality(Above(k)) = Cardinality(Above(j)) => Above(k) = Above(j)
    BY <1>2, <2>1, FS_Subset
  <2>4. Cardinality(Above(j)) < Cardinality(Above(k))
    BY <1>2, <2>2, <2>3
  <2> QED BY <1>2, <1>3, <2>4
<1>5. \A k \in keys : Rank(keys, k) \in 1 .. N
  BY <1>1, <1>2, <1>3
<1>6. \A j, k \in keys : Rank(keys, j) = Rank(keys, k) => j = k
  <2> SUFFICES ASSUME NEW j \in keys, NEW k \in keys, Rank(keys, j) = Rank(keys, k), j # k
               PROVE  FALSE
    OBVIOUS
  <2>1. j[1] > k[1] \/ k[1] > j[1]
    OBVIOUS
  <2>2. Rank(keys, j) \in Nat
    BY <1>5
  <2> QED BY <1>4, <2>1, <2>2
<1>7. \A j, k \in keys : Rank(keys, j) < Rank(keys, k) => j[1] > k[1]
  <2> SUFFICES ASSUME NEW j \in keys, NEW k \in keys, Rank(keys, j) < Rank(keys, k), ~(j[1] > k[1])
               PROVE  FALSE
    OBVIOUS
  <2>1. Rank(keys, j) \in Nat /\ Rank(keys, k) \in Nat
    BY <1>5
  <2>2. j # k
    BY <2>1
  <2>3. k[1] > j[1]
    BY <2>2
  <2> QED BY <1>4, <2>1, <2>3
<1>8. ASSUME NEW i \in 1 .. N, \A k \in keys : Rank(keys, k) # i PROVE FALSE
  <2> DEFINE T == (1 .. N) \ {i}
             f == [k \in keys |-> Rank(keys, k)]
  <2>1. IsFiniteSet(1 .. N) /\ Cardinality(1 .. N) = N
    BY <1>1, <1>8, FS_Interval
  <2>2. IsFiniteSet(T) /\ Cardinality(T) = N - 1
    BY <1>8, <2>1, FS_RemoveElement
  <2>3. f \in [keys -> T]
    BY <1>5, <1>8
  <2>4. Cardinality(T) < Cardinality(keys)
    BY <1>1, <2>2 DEF N
  <2> HIDE DEF T
  <2>5. \E x, y \in keys : x # y /\ f[x] = f[y]
    <3> HIDE DEF f
    <3> QED BY <2>2, <2>3, <2>4, FS_PigeonHole
  <2> QED BY <1>6, <2>5
<1> QED BY <1>1, <1>5, <1>6, <1>7, <1>8 DEF N

\* The slot table: one row per slot, and finitely many.
SlotsFinite == table = "slot" => IsFiniteSet(Stored)

\* write_slot adds at most one row; nothing else writes that table.
LEMMA SlotsFiniteStep == StoreInv /\ SlotsFinite /\ [StoreNext]_svars => SlotsFinite'
<1> SUFFICES ASSUME StoreInv, SlotsFinite, [StoreNext]_svars, table = "slot"
             PROVE  IsFiniteSet(Stored')
  BY StoreKeeps DEF SlotsFinite
<1>0. table' = table /\ IsFiniteSet(Stored)
  BY StoreKeeps DEF SlotsFinite
<1>1. CASE primary' = primary
  BY <1>0, <1>1 DEF Stored
<1>2. ASSUME NEW r \in Rows["slot"], WriteSlot(r) PROVE IsFiniteSet(Stored')
  <2> DEFINE k == PrimaryKey(table, r)
  <2>1. Stored' \subseteq Stored \cup {k}
    <3>1. DOMAIN primary = PrimaryKeys(table)
      BY DEF StoreInv, StoreTypeOK
    <3>2. primary' = [primary EXCEPT ![k] = r]
      BY <1>2 DEF WriteSlot, Put
    <3> HIDE DEF k
    <3> QED BY <1>0, <3>1, <3>2 DEF Stored
  <2>2. IsFiniteSet(Stored \cup {k})
    BY <1>0, FS_AddElement
  <2> QED BY <2>1, <2>2, FS_Subset
<1>3. CASE \/ UNCHANGED svars
           \/ RawClear \/ Replay \/ EndRebuild \/ StoreStops
  BY <1>1, <1>3 DEF svars, RawClear, Replay, EndRebuild, StoreStops, StartRebuild, Crash
<1>4. CASE StoreRuns /\ ~(\E r \in Rows["slot"] : WriteSlot(r))
           /\ ~(RawClear \/ Replay \/ EndRebuild)
  BY <1>4 DEF StoreRuns, ClearTransfers, ClearScEvents, BeginLegacy, WriteTransfer, WriteScEvent,
     WriteBlock, WriteOp, WriteEndorsement, WriteDenunciation, WriteAsyncMsg, WriteDeferredCall
<1> QED BY <1>2, <1>3, <1>4 DEF StoreNext

\* Rows of a batch: newest first, and the older rows that it leaves out lie below
\* its last one.
Batch(items, more, keys) ==
  /\ items \in Seq(Rows["slot"])
  /\ \A i, j \in DOMAIN items : i < j => items[i].slot > items[j].slot
  /\ more => items # <<>>
  /\ \A k \in keys : \/ \E i \in DOMAIN items : items[i] = primary[k]
                     \/ more /\ k[1] < items[Len(items)].slot

\* The keys of the slot table.
LEMMA SlotKeysFacts ==
  ASSUME StoreInv, table = "slot"
  PROVE  /\ \A k \in Stored : /\ k[1] \in Nat /\ primary[k] \in Rows["slot"]
                              /\ primary[k].slot = k[1]
         /\ \A j, k \in Stored : j[1] = k[1] => j = k
<1>1. ASSUME NEW k \in Stored
      PROVE  /\ primary[k] \in Rows["slot"] /\ k = <<primary[k].slot, primary[k].n>>
             /\ primary[k].slot \in Nat /\ k[1] = primary[k].slot
  <2>1. primary[k] \in Rows["slot"] /\ PrimaryKey("slot", primary[k]) = k
    BY StoredFacts DEF StoreInv
  <2>2. primary[k].slot \in Nat
    BY <2>1, StoreAssumption DEF BySlot
  <2> QED BY <2>1, <2>2 DEF PrimaryKey, BySlot
<1>2. \A j, k \in Stored : primary[j].slot = primary[k].slot => primary[j].n = primary[k].n
  BY <1>1, RecentAssumption
<1> QED BY <1>1, <1>2

\* iter_slots_desc.
LEMMA BatchIs ==
  ASSUME StoreInv, table = "slot", SlotsFinite, NEW after, NEW limit \in Nat \ {0},
         NEW page, page = IterSlotsDesc(after, limit)
  PROVE  page.more \in BOOLEAN /\ Batch(page.items, page.more, OlderThan(after))
<1> DEFINE keys == OlderThan(after)
           C == Cardinality(keys)
           n == IF C < limit THEN C ELSE limit
           at(i) == CHOOSE k \in keys : Rank(keys, k) = i
<1>1. keys \in SUBSET Stored
  BY DEF OlderThan
<1>2. /\ IsFiniteSet(keys) /\ \A k \in keys : k[1] \in Nat
      /\ \A j, k \in keys : j[1] = k[1] => j = k
      /\ \A k \in keys : primary[k] \in Rows["slot"] /\ primary[k].slot = k[1]
  BY <1>1, FS_Subset, SlotKeysFacts DEF SlotsFinite
<1>3. page = [items |-> [i \in 1 .. n |-> primary[at(i)]], more |-> C > limit]
  BY DEF IterSlotsDesc
<1> HIDE DEF keys
<1>4. /\ C \in Nat
      /\ \A k \in keys : Rank(keys, k) \in 1 .. C
      /\ \A j, k \in keys : Rank(keys, j) < Rank(keys, k) => j[1] > k[1]
      /\ \A j, k \in keys : Rank(keys, j) = Rank(keys, k) => j = k
      /\ \A i \in 1 .. C : \E k \in keys : Rank(keys, k) = i
  BY <1>2, RanksFill
<1> HIDE DEF C
<1>5. \A i \in 1 .. C : at(i) \in keys /\ Rank(keys, at(i)) = i
  BY <1>4
<1> HIDE DEF at
<1>6. n \in Nat /\ n <= C /\ (C > limit => n = limit) /\ (~(C > limit) => n = C)
  BY <1>4
<1> HIDE DEF n
<1>7. \A i \in 1 .. n : /\ at(i) \in keys /\ Rank(keys, at(i)) = i
                        /\ primary[at(i)] \in Rows["slot"] /\ primary[at(i)].slot = at(i)[1]
  BY <1>2, <1>4, <1>5, <1>6
<1> DEFINE items == [i \in 1 .. n |-> primary[at(i)]]
<1>8. /\ items \in Seq(Rows["slot"]) /\ Len(items) = n /\ DOMAIN items = 1 .. n
      /\ \A i \in 1 .. n : items[i] = primary[at(i)]
  BY <1>6, <1>7
<1> HIDE DEF items
<1>9. \A i, j \in 1 .. n : i < j => items[i].slot > items[j].slot
  BY <1>4, <1>7, <1>8
<1>10. C > limit => n # 0 /\ items # <<>>
  BY <1>4, <1>6, <1>8
<1>11. ASSUME NEW k \in keys
       PROVE  \/ \E i \in 1 .. n : items[i] = primary[k]
              \/ C > limit /\ k[1] < items[n].slot
  <2>1. CASE Rank(keys, k) \in 1 .. n
    <3>1. at(Rank(keys, k)) = k
      BY <1>4, <1>7, <2>1
    <3> QED BY <1>8, <2>1, <3>1
  <2>2. CASE Rank(keys, k) \notin 1 .. n
    <3>1. Rank(keys, k) > n /\ C > limit /\ n = limit
      BY <1>4, <1>6, <2>2
    <3>2. n \in 1 .. n
      BY <3>1
    <3>3. at(n) \in keys /\ Rank(keys, at(n)) < Rank(keys, k)
      BY <1>7, <3>1, <3>2
    <3>4. at(n)[1] > k[1]
      BY <1>4, <3>3
    <3>5. items[n].slot = at(n)[1]
      BY <1>7, <1>8, <3>2
    <3>6. at(n)[1] \in Nat /\ k[1] \in Nat
      BY <1>2, <3>3
    <3> QED BY <3>1, <3>4, <3>5, <3>6
  <2> QED BY <2>1, <2>2
<1>12. page = [items |-> items, more |-> C > limit]
  BY <1>3 DEF items
<1>13. page.items = items /\ page.more = (C > limit)
  BY <1>12
<1>14. Batch(items, C > limit, keys)
  BY <1>8, <1>9, <1>10, <1>11 DEF Batch
<1> QED BY <1>13, <1>14 DEF keys

-----------------------------------------------------------------------------

\* The fields of a client of a recent list.
Listing(r) ==
  r = [pc |-> r.pc, limit |-> r.limit, cursor |-> r.cursor, after |-> r.after,
       todo |-> r.todo, more |-> r.more, scanned |-> r.scanned, page |-> r.page,
       got |-> r.got, cut |-> r.cut, touched |-> r.touched]

\* The rows the client has a right to, and what it has of them.
Steady   == {k \in Stored : k \notin recent.touched}
Given(k) == Elems(primary[k].items) \subseteq recent.got \cup recent.cut
Met(k)   == Elems(primary[k].items) \subseteq recent.got \cup recent.cut \cup Elems(recent.page)

\* Down to where the batch has read, or will have.
Reach(r) == IF r.todo = <<>> THEN r.after ELSE r.todo[Len(r.todo)].slot

\* Within a request: a row is met, in the batch, or below it.
Reading ==
  /\ recent.scanned \in Nat /\ recent.more \in BOOLEAN
  /\ recent.page \in Seq(Elems(recent.page))
  /\ recent.todo \in Seq(Rows["slot"])
  /\ \A i, j \in DOMAIN recent.todo : i < j => recent.todo[i].slot > recent.todo[j].slot
  /\ recent.more => Reach(recent) \in Nat /\ Reach(recent) # None
  /\ \A k \in Steady : \/ Met(k)
                       \/ \E i \in DOMAIN recent.todo : recent.todo[i] = primary[k]
                       \/ recent.more /\ k[1] < Reach(recent)

\* Between requests too: what is not handed out lies below the cursor.
RecentInv ==
  /\ Listing(recent)
  /\ recent.pc \in {"idle", "ask", "scan", "done"}
  /\ recent.pc = "idle" => recent = RecentIdle
  /\ recent.pc # "idle" => table = "slot"
  /\ recent.pc \in {"ask", "scan"} =>
       /\ recent.cursor = None \/ recent.cursor \in Nat
       /\ \A k \in Steady : Given(k) \/ recent.cursor = None \/ k[1] < recent.cursor
  /\ recent.pc = "ask" => recent.scanned = 0 /\ recent.page = <<>>
  /\ recent.pc = "scan" => Reading
  /\ recent.pc = "done" => \A k \in Steady : Given(k)

\* What reading the next batch does to the fields.
LEMMA NextBatchFields ==
  ASSUME NEW r, Listing(r), NEW after, NEW v, v = NextBatch(r, after), r.scanned \in Nat,
         r.scanned < MaxSlots
  PROVE  \E limit \in Nat \ {0} : \E b :
           /\ b = IterSlotsDesc(after, limit) /\ v.todo = b.items /\ v.more = b.more
           /\ Listing(v) /\ v.pc = "scan" /\ v.after = after
           /\ v.limit = r.limit /\ v.cursor = r.cursor /\ v.scanned = r.scanned
           /\ v.page = r.page /\ v.got = r.got /\ v.cut = r.cut /\ v.touched = r.touched
<1> DEFINE left == MaxSlots - r.scanned
           limit == IF left < BatchSize THEN left ELSE BatchSize
           b == IterSlotsDesc(after, limit)
<1>1. limit \in Nat \ {0}
  BY RecentAssumption
<1>2. v = [r EXCEPT !.pc = "scan", !.after = after, !.todo = b.items, !.more = b.more]
  BY DEF NextBatch
<1> HIDE DEF b, limit
<1>3. /\ v.todo = b.items /\ v.more = b.more
      /\ Listing(v) /\ v.pc = "scan" /\ v.after = after
      /\ v.limit = r.limit /\ v.cursor = r.cursor /\ v.scanned = r.scanned
      /\ v.page = r.page /\ v.got = r.got /\ v.cut = r.cut /\ v.touched = r.touched
  BY <1>2 DEF Listing
<1>4. b = IterSlotsDesc(after, limit)
  BY DEF b
<1> QED BY <1>1, <1>3, <1>4

\* What an answer does to them: items that are not in it were cut off.
LEMMA AnswerFields ==
  ASSUME NEW r, Listing(r), NEW cursor, NEW v, v = Answer(r, cursor)
  PROVE  /\ Listing(v) /\ v.pc = (IF cursor = None THEN "done" ELSE "ask") /\ v.cursor = cursor
         /\ v.scanned = 0 /\ v.page = <<>> /\ v.touched = r.touched
         /\ r.got \cup r.cut \cup Elems(r.page) \subseteq v.got \cup v.cut
<1> DEFINE kept == Kept(r.page, r.limit)
<1>1. v = [r EXCEPT !.pc = IF cursor = None THEN "done" ELSE "ask",
                    !.cursor = cursor, !.after = None, !.todo = <<>>, !.more = FALSE,
                    !.scanned = 0, !.page = <<>>,
                    !.got = @ \cup kept, !.cut = @ \cup (Elems(r.page) \ kept)]
  BY DEF Answer
<1> HIDE DEF kept
<1>2. /\ Listing(v) /\ v.pc = (IF cursor = None THEN "done" ELSE "ask") /\ v.cursor = cursor
      /\ v.scanned = 0 /\ v.page = <<>> /\ v.touched = r.touched
      /\ v.got = r.got \cup kept /\ v.cut = r.cut \cup (Elems(r.page) \ kept)
  BY <1>1 DEF Listing
<1> QED BY <1>2

\* The loop reads its next batch.
LEMMA BatchOpens ==
  ASSUME StoreInv, SlotsFinite, table = "slot", UNCHANGED svars, NEW r, Listing(r), NEW after,
         r.scanned \in Nat, r.scanned < MaxSlots, r.page \in Seq(Elems(r.page)),
         r.touched = recent.touched, r.cursor = None \/ r.cursor \in Nat,
         \A k \in Steady : \/ Elems(primary[k].items) \subseteq r.got \cup r.cut
                           \/ r.cursor = None \/ k[1] < r.cursor,
         \A k \in Steady : \/ Elems(primary[k].items) \subseteq r.got \cup r.cut \cup Elems(r.page)
                           \/ k \in OlderThan(after),
         recent' = NextBatch(r, after)
  PROVE  RecentInv'
<1>0. PICK limit \in Nat \ {0} : \E b :
        /\ b = IterSlotsDesc(after, limit) /\ recent'.todo = b.items /\ recent'.more = b.more
        /\ Listing(recent') /\ recent'.pc = "scan" /\ recent'.after = after
        /\ recent'.limit = r.limit /\ recent'.cursor = r.cursor /\ recent'.scanned = r.scanned
        /\ recent'.page = r.page /\ recent'.got = r.got /\ recent'.cut = r.cut
        /\ recent'.touched = r.touched
  BY NextBatchFields
<1>1. PICK b :
        /\ b = IterSlotsDesc(after, limit) /\ recent'.todo = b.items /\ recent'.more = b.more
        /\ Listing(recent') /\ recent'.pc = "scan" /\ recent'.after = after
        /\ recent'.limit = r.limit /\ recent'.cursor = r.cursor /\ recent'.scanned = r.scanned
        /\ recent'.page = r.page /\ recent'.got = r.got /\ recent'.cut = r.cut
        /\ recent'.touched = r.touched
  BY <1>0
<1>2. b.more \in BOOLEAN /\ Batch(b.items, b.more, OlderThan(after))
  BY <1>1, BatchIs
<1>3. table' = table /\ primary' = primary /\ Steady' = Steady
  BY <1>1 DEF svars, Steady, Stored
<1>4. b.more => /\ Reach(recent') = b.items[Len(b.items)].slot
                /\ Reach(recent') \in Nat /\ Reach(recent') # None
  <2> SUFFICES ASSUME b.more PROVE /\ Reach(recent') = b.items[Len(b.items)].slot
                                   /\ Reach(recent') \in Nat /\ Reach(recent') # None
    OBVIOUS
  <2>1. b.items # <<>> /\ b.items \in Seq(Rows["slot"])
    BY <1>2 DEF Batch
  <2>2. b.items[Len(b.items)] \in Rows["slot"]
    BY <2>1
  <2>3. b.items[Len(b.items)].slot \in Nat /\ b.items[Len(b.items)].slot # None
    BY <2>2, StoreAssumption, RecentAssumption DEF BySlot
  <2> QED BY <1>1, <2>1, <2>3 DEF Reach
<1>5. ASSUME NEW k \in Steady
      PROVE  \/ Elems(primary[k].items) \subseteq r.got \cup r.cut \cup Elems(r.page)
             \/ \E i \in DOMAIN b.items : b.items[i] = primary[k]
             \/ b.more /\ k[1] < Reach(recent')
  BY <1>2, <1>4 DEF Batch
<1>6. Reading'
  <2>1. \A k \in Steady' : \/ Met(k)'
                           \/ \E i \in DOMAIN recent'.todo : recent'.todo[i] = primary'[k]
                           \/ recent'.more /\ k[1] < Reach(recent')
    BY <1>1, <1>3, <1>5 DEF Met
  <2>2. /\ recent'.todo \in Seq(Rows["slot"])
        /\ \A i, j \in DOMAIN recent'.todo : i < j => recent'.todo[i].slot > recent'.todo[j].slot
    BY <1>1, <1>2 DEF Batch
  <2> QED BY <1>1, <1>2, <1>4, <2>1, <2>2 DEF Reading
<1>7. \A k \in Steady' : Given(k)' \/ recent'.cursor = None \/ k[1] < recent'.cursor
  BY <1>1, <1>3 DEF Given
<1> QED BY <1>1, <1>3, <1>6, <1>7 DEF RecentInv

\* The answer is sent.
LEMMA AnswerKeeps ==
  ASSUME table = "slot", UNCHANGED svars, NEW r, Listing(r), NEW cursor,
         r.touched = recent.touched, cursor = None \/ cursor \in Nat,
         \A k \in Steady : \/ Elems(primary[k].items) \subseteq r.got \cup r.cut \cup Elems(r.page)
                           \/ cursor # None /\ k[1] < cursor,
         recent' = Answer(r, cursor)
  PROVE  RecentInv'
<1>1. /\ Listing(recent') /\ recent'.pc = (IF cursor = None THEN "done" ELSE "ask")
      /\ recent'.cursor = cursor /\ recent'.scanned = 0 /\ recent'.page = <<>>
      /\ recent'.touched = r.touched
      /\ r.got \cup r.cut \cup Elems(r.page) \subseteq recent'.got \cup recent'.cut
  BY AnswerFields
<1>2. table' = table /\ primary' = primary /\ Steady' = Steady
  BY <1>1 DEF svars, Steady, Stored
<1>3. \A k \in Steady' : Given(k)' \/ (cursor # None /\ k[1] < cursor)
  BY <1>1, <1>2 DEF Given
<1> QED BY <1>1, <1>2, <1>3 DEF RecentInv

\* The first request and those that follow.
LEMMA AskKeeps ==
  ASSUME StoreInv, SlotsFinite, RecentInv, NEW limit \in Limits, AskRecent(limit)
  PROVE  RecentInv'
<1> DEFINE r == [recent EXCEPT !.limit = limit]
<1>1. /\ table = "slot" /\ UNCHANGED svars /\ recent.pc \in {"idle", "ask"}
      /\ recent' = NextBatch(r, recent.cursor) /\ Listing(recent)
  BY DEF AskRecent, RecentInv
<1>2. /\ Listing(r) /\ r.scanned = recent.scanned /\ r.page = recent.page
      /\ r.touched = recent.touched /\ r.cursor = recent.cursor
      /\ r.got = recent.got /\ r.cut = recent.cut
  BY <1>1 DEF Listing
<1> HIDE DEF r
<1>3. /\ recent.scanned = 0 /\ recent.page = <<>>
      /\ recent.cursor = None \/ recent.cursor \in Nat
      /\ \A k \in Steady : Given(k) \/ recent.cursor = None \/ k[1] < recent.cursor
  <2>1. CASE recent.pc = "ask"
    BY <2>1 DEF RecentInv
  <2>2. CASE recent.pc = "idle"
    BY <2>2 DEF RecentInv, RecentIdle
  <2> QED BY <1>1, <2>1, <2>2
<1>4. \A k \in Steady : Given(k) \/ k \in OlderThan(recent.cursor)
  BY <1>3 DEF OlderThan, Steady
<1>5. /\ \A k \in Steady : \/ Elems(primary[k].items) \subseteq r.got \cup r.cut
                           \/ r.cursor = None \/ k[1] < r.cursor
      /\ \A k \in Steady : \/ Elems(primary[k].items) \subseteq r.got \cup r.cut \cup Elems(r.page)
                           \/ k \in OlderThan(recent.cursor)
  BY <1>2, <1>3, <1>4 DEF Given
<1>6. r.scanned \in Nat /\ r.scanned < MaxSlots /\ r.page \in Seq(Elems(r.page))
  BY <1>2, <1>3, RecentAssumption
<1> QED BY <1>1, <1>2, <1>3, <1>5, <1>6, BatchOpens

\* A batch is read: the end of the table, of the request, or the next batch.
LEMMA EndBatchKeeps ==
  ASSUME StoreInv, SlotsFinite, RecentInv, EndBatch
  PROVE  RecentInv'
<1>1. /\ recent.pc = "scan" /\ recent.todo = <<>> /\ UNCHANGED svars /\ table = "slot"
      /\ Listing(recent) /\ Reading
      /\ recent.cursor = None \/ recent.cursor \in Nat
      /\ \A k \in Steady : Given(k) \/ recent.cursor = None \/ k[1] < recent.cursor
  BY DEF EndBatch, RecentInv
<1>2. /\ recent.more => recent.after \in Nat /\ recent.after # None
      /\ \A k \in Steady : Met(k) \/ (recent.more /\ k[1] < recent.after)
  BY <1>1 DEF Reading, Reach
<1>3. CASE recent' = Answer(recent, None) /\ ~recent.more
  BY <1>1, <1>2, <1>3, AnswerKeeps DEF Met
<1>4. CASE recent' = Answer(recent, recent.after) /\ recent.more
  BY <1>1, <1>2, <1>4, AnswerKeeps DEF Met
<1>5. CASE recent' = NextBatch(recent, recent.after) /\ recent.more /\ ~(recent.scanned >= MaxSlots)
  <2>1. \A k \in Steady : Met(k) \/ k \in OlderThan(recent.after)
    BY <1>2 DEF OlderThan, Steady
  <2>2. /\ recent.scanned \in Nat /\ recent.scanned < MaxSlots
        /\ recent.page \in Seq(Elems(recent.page))
    BY <1>1, <1>5, RecentAssumption DEF Reading
  <2> QED BY <1>1, <1>5, <2>1, <2>2, BatchOpens DEF Met, Given
<1> QED BY <1>1, <1>3, <1>4, <1>5 DEF EndBatch, BatchEnds, Reading

\* A row is read: what it leads to is met, and the rest of the batch lies below it.
LEMMA CollectKeeps ==
  ASSUME StoreInv, RecentInv, CollectSlot
  PROVE  RecentInv'
<1> DEFINE r == Head(recent.todo)
           w == [recent EXCEPT !.todo = Tail(@), !.scanned = @ + 1,
                               !.after = r.slot, !.page = @ \o r.items]
<1>1. /\ recent.pc = "scan" /\ recent.todo # <<>> /\ UNCHANGED svars /\ table = "slot"
      /\ recent' = IF Cardinality(Elems(w.page)) >= w.limit THEN Answer(w, r.slot) ELSE w
      /\ Listing(recent) /\ Reading
      /\ recent.cursor = None \/ recent.cursor \in Nat
      /\ \A k \in Steady : Given(k) \/ recent.cursor = None \/ k[1] < recent.cursor
  BY DEF CollectSlot, RecentInv
<1> DEFINE t == recent.todo
<1>2. /\ t \in Seq(Rows["slot"]) /\ t # <<>> /\ r = t[1]
      /\ \A i, j \in DOMAIN t : i < j => t[i].slot > t[j].slot
  BY <1>1 DEF Reading
<1>3. /\ r \in Rows["slot"] /\ r.slot \in Nat /\ r.slot # None /\ r.items \in Seq(Elems(r.items))
  BY <1>2, StoreAssumption, RecentAssumption DEF BySlot
<1>4. /\ Listing(w) /\ w.pc = recent.pc /\ w.todo = Tail(t) /\ w.scanned = recent.scanned + 1
      /\ w.after = r.slot /\ w.page = recent.page \o r.items /\ w.cursor = recent.cursor
      /\ w.got = recent.got /\ w.cut = recent.cut /\ w.touched = recent.touched
      /\ w.more = recent.more
  <2> DEFINE todo == Tail(t)
             scanned == recent.scanned + 1
             after == r.slot
             page == recent.page \o r.items
  <2>1. w = [recent EXCEPT !.todo = todo, !.scanned = scanned, !.after = after, !.page = page]
    OBVIOUS
  <2> HIDE DEF w, todo, scanned, after, page
  <2>2. /\ Listing(w) /\ w.pc = recent.pc /\ w.todo = todo /\ w.scanned = scanned
        /\ w.after = after /\ w.page = page /\ w.cursor = recent.cursor
        /\ w.got = recent.got /\ w.cut = recent.cut /\ w.touched = recent.touched
        /\ w.more = recent.more
    BY <1>1, <2>1 DEF Listing
  <2> QED BY <2>2 DEF todo, scanned, after, page
<1> HIDE DEF w, r, t
<1>5. /\ w.page \in Seq(Elems(w.page))
      /\ Elems(recent.page) \cup Elems(r.items) \subseteq Elems(w.page)
  <2> DEFINE p == recent.page
             q == r.items
  <2>1. p \in Seq(Elems(p)) /\ q \in Seq(Elems(q)) /\ w.page = p \o q
    BY <1>1, <1>3, <1>4 DEF Reading
  <2> HIDE DEF p, q
  <2>2. /\ p \o q \in Seq(Elems(p) \cup Elems(q))
        /\ DOMAIN p = 1 .. Len(p) /\ DOMAIN q = 1 .. Len(q) /\ Len(p) \in Nat /\ Len(q) \in Nat
        /\ DOMAIN (p \o q) = 1 .. Len(p) + Len(q)
        /\ \A i \in 1 .. Len(p) : (p \o q)[i] = p[i]
        /\ \A i \in 1 .. Len(q) : (p \o q)[Len(p) + i] = q[i]
    BY <2>1
  <2>3. Elems(p) \subseteq Elems(p \o q)
    BY <2>2 DEF Elems
  <2>4. Elems(q) \subseteq Elems(p \o q)
    <3> SUFFICES ASSUME NEW i \in 1 .. Len(q) PROVE q[i] \in Elems(p \o q)
      BY <2>2 DEF Elems
    <3>1. Len(p) + i \in DOMAIN (p \o q) /\ (p \o q)[Len(p) + i] = q[i]
      BY <2>2
    <3> QED BY <3>1 DEF Elems
  <2>5. Elems(p) \cup Elems(q) \subseteq Elems(p \o q)
    BY <2>3, <2>4
  <2>6. p \o q \in Seq(Elems(p \o q))
    BY <2>2, <2>5
  <2> QED BY <2>1, <2>5, <2>6 DEF p, q
<1>6. /\ Tail(t) \in Seq(Rows["slot"]) /\ DOMAIN Tail(t) = 1 .. Len(t) - 1 /\ Len(t) \in Nat \ {0}
      /\ Len(Tail(t)) = Len(t) - 1
      /\ \A i \in 1 .. Len(t) - 1 : Tail(t)[i] = t[i + 1]
      /\ DOMAIN t = 1 .. Len(t)
      /\ \A i \in DOMAIN t : t[i].slot \in Nat
  <2>1. \A x \in Rows["slot"] : x.slot \in Nat
    BY StoreAssumption DEF BySlot
  <2> QED BY <1>2, <2>1
<1>7. Reach(w) = Reach(recent) /\ (recent.more => Reach(recent) <= r.slot)
  <2>1. Reach(recent) = t[Len(t)].slot
    BY <1>2 DEF Reach, t
  <2>2. CASE Len(t) = 1
    <3>1. Tail(t) = <<>>
      BY <1>6, <2>2
    <3>2. Reach(w) = r.slot
      BY <1>4, <3>1 DEF Reach
    <3> QED BY <1>2, <1>3, <2>1, <2>2, <3>2
  <2>3. CASE Len(t) > 1
    <3>1. Tail(t) # <<>> /\ Tail(t)[Len(t) - 1] = t[Len(t)]
      BY <1>6, <2>3
    <3>2. Reach(w) = t[Len(t)].slot
      BY <1>4, <1>6, <3>1 DEF Reach
    <3>3. t[1].slot > t[Len(t)].slot
      BY <1>2, <1>6, <2>3
    <3>4. t[Len(t)].slot \in Nat
      BY <1>6
    <3> QED BY <1>2, <1>3, <2>1, <3>2, <3>3, <3>4
  <2> QED BY <1>6, <2>2, <2>3
<1>8. ASSUME NEW k \in Steady
      PROVE  \/ Elems(primary[k].items) \subseteq w.got \cup w.cut \cup Elems(w.page)
             \/ \E i \in DOMAIN Tail(t) : Tail(t)[i] = primary[k]
             \/ recent.more /\ k[1] < Reach(recent)
  <2>1. CASE Met(k)
    BY <1>4, <1>5, <2>1 DEF Met
  <2>2. ASSUME NEW i \in DOMAIN t, t[i] = primary[k]
        PROVE  \/ Elems(primary[k].items) \subseteq Elems(w.page)
               \/ \E j \in DOMAIN Tail(t) : Tail(t)[j] = primary[k]
    <3>1. CASE i = 1
      BY <1>2, <1>5, <2>2, <3>1
    <3>2. CASE i # 1
      <4>1. i - 1 \in 1 .. Len(t) - 1 /\ Tail(t)[i - 1] = t[i]
        BY <1>6, <2>2, <3>2
      <4> QED BY <1>6, <2>2, <4>1
    <3> QED BY <3>1, <3>2
  <2> QED BY <1>1, <2>1, <2>2 DEF Reading, t
<1>9. CASE recent' = Answer(w, r.slot)
  <2>1. \A k \in Steady : \/ Elems(primary[k].items) \subseteq w.got \cup w.cut \cup Elems(w.page)
                          \/ r.slot # None /\ k[1] < r.slot
    <3> SUFFICES ASSUME NEW k \in Steady
                 PROVE  \/ Elems(primary[k].items) \subseteq w.got \cup w.cut \cup Elems(w.page)
                        \/ r.slot # None /\ k[1] < r.slot
      OBVIOUS
    <3>1. k[1] \in Nat /\ primary[k].slot = k[1]
      BY <1>1, SlotKeysFacts DEF Steady
    <3>2. CASE \E i \in DOMAIN Tail(t) : Tail(t)[i] = primary[k]
      <4>1. PICK i \in 1 .. Len(t) - 1 : t[i + 1] = primary[k]
        BY <1>6, <3>2
      <4>2. i + 1 \in DOMAIN t /\ 1 \in DOMAIN t /\ 1 < i + 1
        BY <1>6
      <4>3. t[1].slot > t[i + 1].slot
        BY <1>2, <4>2
      <4> QED BY <1>2, <1>3, <3>1, <4>1, <4>3
    <3>3. CASE recent.more /\ k[1] < Reach(recent)
      <4>1. Reach(recent) \in Nat /\ Reach(recent) <= r.slot
        BY <1>1, <1>7, <3>3 DEF Reading
      <4> QED BY <1>3, <3>1, <3>3, <4>1
    <3> QED BY <1>8, <3>2, <3>3
  <2> QED BY <1>1, <1>3, <1>4, <1>9, <2>1, AnswerKeeps
<1>10. CASE recent' = w
  <2>1. table' = table /\ primary' = primary /\ Steady' = Steady
    BY <1>1, <1>4, <1>10 DEF svars, Steady, Stored
  <2>2. \A k \in Steady' : Given(k)' \/ recent'.cursor = None \/ k[1] < recent'.cursor
    BY <1>1, <1>4, <1>10, <2>1 DEF Given
  <2>3. \A i, j \in DOMAIN Tail(t) : i < j => Tail(t)[i].slot > Tail(t)[j].slot
    <3> SUFFICES ASSUME NEW i \in 1 .. Len(t) - 1, NEW j \in 1 .. Len(t) - 1, i < j
                 PROVE  Tail(t)[i].slot > Tail(t)[j].slot
      BY <1>6
    <3>1. i + 1 \in DOMAIN t /\ j + 1 \in DOMAIN t /\ i + 1 < j + 1
      BY <1>6
    <3> QED BY <1>2, <1>6, <3>1
  <2>4. \A k \in Steady' : \/ Met(k)'
                           \/ \E i \in DOMAIN recent'.todo : recent'.todo[i] = primary'[k]
                           \/ recent'.more /\ k[1] < Reach(recent')
    <3>1. Reach(recent') = Reach(recent)
      BY <1>7, <1>10
    <3> QED BY <1>4, <1>8, <1>10, <2>1, <3>1 DEF Met
  <2>5. Reading'
    <3>1. /\ recent'.scanned \in Nat /\ recent'.more \in BOOLEAN
          /\ recent'.more => Reach(recent') \in Nat /\ Reach(recent') # None
      BY <1>1, <1>4, <1>7, <1>10 DEF Reading
    <3> QED BY <1>4, <1>5, <1>6, <1>10, <2>3, <2>4, <3>1 DEF Reading
  <2> QED BY <1>1, <1>4, <1>10, <2>1, <2>2, <2>5 DEF RecentInv
<1> QED BY <1>1, <1>9, <1>10

\* What the writer, and a stop of the server, do to the fields of a list.
LEMMA RecentNoted ==
  ASSUME NEW r, Listing(r), NEW v, v \in {NotedRecent(r), CutOffRecent(NotedRecent(r))}
  PROVE  /\ Listing(v) /\ v.cursor = r.cursor /\ v.got = r.got /\ v.cut = r.cut
         /\ r.pc # "idle" => v.touched = r.touched \cup Changed
         /\ \/ /\ v.pc = r.pc /\ v.after = r.after /\ v.todo = r.todo /\ v.more = r.more
               /\ v.scanned = r.scanned /\ v.page = r.page
            \/ /\ v.pc = (IF r.pc = "scan" THEN "ask" ELSE r.pc)
               /\ v.scanned = 0 /\ v.page = <<>>
<1>1. ASSUME NEW n, n = NotedRecent(r)
      PROVE  /\ Listing(n) /\ n.cursor = r.cursor /\ n.got = r.got /\ n.cut = r.cut
             /\ r.pc # "idle" => n.touched = r.touched \cup Changed
             /\ n.pc = r.pc /\ n.after = r.after /\ n.todo = r.todo /\ n.more = r.more
             /\ n.scanned = r.scanned /\ n.page = r.page
  BY <1>1 DEF Listing, NotedRecent
<1>2. ASSUME NEW n, Listing(n), v = CutOffRecent(n)
      PROVE  /\ Listing(v) /\ v.cursor = n.cursor /\ v.got = n.got /\ v.cut = n.cut
             /\ v.touched = n.touched /\ v.pc = (IF n.pc = "scan" THEN "ask" ELSE n.pc)
             /\ v.scanned = 0 /\ v.page = <<>>
  BY <1>2 DEF Listing, CutOffRecent
<1>3. CASE v = NotedRecent(r)
  BY <1>1, <1>3
<1>4. CASE v = CutOffRecent(NotedRecent(r))
  <2>1. PICK n : n = NotedRecent(r)
    OBVIOUS
  <2>2. v = CutOffRecent(n)
    BY <1>4, <2>1
  <2> QED BY <1>1, <1>2, <2>1, <2>2
<1> QED BY <1>3, <1>4

\* Rows that are written under a list are no longer promised; the others are as before.
LEMMA UnderneathKeepsRecent ==
  ASSUME StoreInv, RecentInv, Underneath
  PROVE  RecentInv'
<1>0. [StoreNext]_svars /\ recent' \in {NotedRecent(recent), CutOffRecent(NotedRecent(recent))}
  BY DEF Underneath, StoreNext
<1>1. /\ Listing(recent') /\ recent'.cursor = recent.cursor /\ recent'.got = recent.got
      /\ recent'.cut = recent.cut
      /\ recent.pc # "idle" => recent'.touched = recent.touched \cup Changed
      /\ \/ /\ recent'.pc = recent.pc /\ recent'.after = recent.after
            /\ recent'.todo = recent.todo /\ recent'.more = recent.more
            /\ recent'.scanned = recent.scanned /\ recent'.page = recent.page
         \/ /\ recent'.pc = (IF recent.pc = "scan" THEN "ask" ELSE recent.pc)
            /\ recent'.scanned = 0 /\ recent'.page = <<>>
  BY <1>0, RecentNoted DEF RecentInv
<1>2. CASE recent.pc = "idle"
  <2>1. recent = RecentIdle /\ NotedRecent(recent) = recent
    BY <1>2 DEF RecentInv, NotedRecent
  <2>2. CutOffRecent(RecentIdle) = RecentIdle
    <3> DEFINE r == RecentIdle
    <3>1. /\ r = [pc |-> "idle", limit |-> 1, cursor |-> None, after |-> None, todo |-> <<>>,
                  more |-> FALSE, scanned |-> 0, page |-> <<>>, got |-> {}, cut |-> {},
                  touched |-> {}]
          /\ r.pc = "idle"
      BY DEF RecentIdle
    <3>2. CutOffRecent(r) = [r EXCEPT !.pc = "idle", !.after = None, !.todo = <<>>,
                                      !.more = FALSE, !.scanned = 0, !.page = <<>>]
      BY <3>1 DEF CutOffRecent
    <3> HIDE DEF r
    <3>3. CutOffRecent(r) = r
      BY <3>1, <3>2
    <3> QED BY <3>3 DEF r
  <2>3. recent' = RecentIdle
    BY <1>0, <2>1, <2>2
  <2> QED BY <2>3 DEF RecentInv, RecentIdle, Listing
<1>3. CASE recent.pc # "idle"
  <2>1. table' = table /\ table = "slot" /\ DOMAIN primary = PrimaryKeys(table)
    BY <1>0, <1>3, StoreKeeps DEF RecentInv, StoreInv, StoreTypeOK
  <2>2. \A k \in Steady' : k \in Steady /\ primary'[k] = primary[k]
    BY <1>1, <1>3, <2>1 DEF Steady, Stored, Changed
  <2>3. \A k \in Steady' : Given(k) => Given(k)'
    BY <1>1, <2>2 DEF Given
  <2>4. recent'.pc = "scan" => Reading'
    <3> SUFFICES ASSUME recent'.pc = "scan" PROVE Reading'
      OBVIOUS
    <3>1. /\ recent.pc = "scan" /\ recent'.after = recent.after
          /\ recent'.todo = recent.todo /\ recent'.more = recent.more
          /\ recent'.scanned = recent.scanned /\ recent'.page = recent.page
      BY <1>1
    <3>2. Reading
      BY <3>1 DEF RecentInv
    <3>3. Reach(recent') = Reach(recent)
      BY <3>1 DEF Reach
    <3>4. \A k \in Steady' : Met(k) => Met(k)'
      BY <1>1, <2>2, <3>1 DEF Met
    <3> QED BY <2>2, <3>1, <3>2, <3>3, <3>4 DEF Reading
  <2>5. recent'.pc \in {"ask", "scan"} => recent.pc \in {"ask", "scan"}
    BY <1>1
  <2>6. recent'.pc = "ask" => recent'.scanned = 0 /\ recent'.page = <<>>
    BY <1>1 DEF RecentInv
  <2>7. recent'.pc = "done" => recent.pc = "done"
    BY <1>1
  <2>8. recent'.pc \in {"ask", "scan", "done"}
    BY <1>1, <1>3 DEF RecentInv
  <2> QED BY <1>1, <2>1, <2>2, <2>3, <2>4, <2>5, <2>6, <2>7, <2>8 DEF RecentInv
<1> QED BY <1>2, <1>3

ListsInv == StoreInv /\ SlotsFinite /\ RecentInv

\* The store is empty and nobody has asked anything.
LEMMA ListsInitInv == PagesInit => ListsInv
<1> SUFFICES ASSUME PagesInit PROVE ListsInv
  OBVIOUS
<1>1. StoreInv
  BY StoreInitInv DEF PagesInit
<1>2. Stored = {}
  BY DEF PagesInit, StoreInit, Stored
<1>3. SlotsFinite
  BY <1>2, FS_EmptySet DEF SlotsFinite
<1>4. recent = RecentIdle
  BY DEF PagesInit
<1>5. RecentInv
  BY <1>4 DEF RecentInv, RecentIdle, Listing
<1> QED BY <1>1, <1>3, <1>5 DEF ListsInv

\* Every handler, and the writer, the tool and a crash underneath.
LEMMA ListsStepInv == ListsInv /\ [PagesNext]_pvars => ListsInv'
<1> SUFFICES ASSUME StoreInv, SlotsFinite, RecentInv, [PagesNext]_pvars PROVE ListsInv'
  BY DEF ListsInv
<1>1. [StoreNext]_svars
  BY PagesRead
<1>2. StoreInv' /\ SlotsFinite'
  BY <1>1, StoreStepInv, SlotsFiniteStep
<1>3. CASE RecentStep
  BY <1>2, <1>3, AskKeeps, CollectKeeps, EndBatchKeeps DEF RecentStep, ListsInv
<1>4. CASE Underneath
  BY <1>2, <1>4, UnderneathKeepsRecent DEF ListsInv
<1>5. CASE WalkStep \/ UNCHANGED pvars
  <2>1. UNCHANGED svars /\ recent' = recent
    BY <1>5 DEF WalkStep, OpenWalk, NextPage, ScanEntry, EndPage, pvars
  <2>2. /\ table' = table /\ primary' = primary /\ Steady' = Steady /\ Reach(recent') = Reach(recent)
    BY <2>1 DEF svars, Steady, Stored
  <2>3. \A k : (Given(k) <=> Given(k)') /\ (Met(k) <=> Met(k)')
    BY <2>1, <2>2 DEF Given, Met
  <2>4. Reading => Reading'
    BY <2>1, <2>2, <2>3 DEF Reading
  <2>5. RecentInv'
    BY <2>1, <2>2, <2>3, <2>4 DEF RecentInv
  <2> QED BY <1>2, <2>5 DEF ListsInv
<1> QED BY <1>3, <1>4, <1>5 DEF PagesNext

(***************************************************************************)
(* RecentSkipsNothing: for any slot rows, page sizes, batch sizes and      *)
(* max_slots, a client of a recent list that follows cursor_next to its    *)
(* end was shown every item of every row that did not change, or a page    *)
(* had no room for it (recent_operations, blocks_recent).                  *)
(***************************************************************************)
THEOREM RecentSkipsNothingHolds == PagesSpec => []RecentSkipsNothing
<1>1. PagesInit => ListsInv
  BY ListsInitInv
<1>2. ListsInv /\ [PagesNext]_pvars => ListsInv'
  BY ListsStepInv
<1>3. ListsInv => RecentSkipsNothing
  BY DEF ListsInv, RecentInv, RecentSkipsNothing, Steady, Given
<1> QED BY <1>1, <1>2, <1>3, PTL DEF PagesSpec
=============================================================================
