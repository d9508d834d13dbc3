------------------------------- MODULE Feeders -------------------------------
(***************************************************************************)
(* What feeds the single writer, and what a restart does to it: the three  *)
(* node streams (grpc.rs) on the live lane; on the bulk lane the legacy    *)
(* one-shot importer (legacy/oneshot.rs), the repair passes (repair.rs)    *)
(* and the forced verdicts (server.rs); the writer's choice between the    *)
(* lanes (ingest.rs).                                                      *)
(*                                                                         *)
(* A feeder reads rows, asks a remote source, queues a patch and moves on; *)
(* the writer applies the patch later.  The indexer may stop at any point, *)
(* also between two writes of a handler: the lanes and the feeders' places *)
(* are gone, rows and checkpoints stay.                                    *)
(*                                                                         *)
(* Pauses and rate limits are stuttering.  Failed calls, broken streams    *)
(* and restarts each use up one of MaxFaults.  Left out: the index a       *)
(* repaired transfer row gets within its slot.                             *)
(***************************************************************************)
EXTENDS SlotIngest, SequencesExt

CONSTANTS
  Boots,            \* configurations: the tasks that are enabled, the database an
                    \* earlier run left, and what the node will stream
  Chain,            \* Chain[s]: the verdict of s on the chain
  Legacy,           \* Legacy[s]: what the legacy tables hold of s, or None
  LegacySubs,       \* the slots with ABI sub-transfer rows in the legacy tables
  Remote,           \* Remote[s]: a peer's answer for s, or None
  OpKind,           \* OpKind[o]: "Transaction" or "CallSc"
  ImportMax,        \* [legacy_ddb] max_period, or None
  ImportMin,        \* [legacy_ddb] min_period
  RepairFrom, RepairTo,  \* the period range of the repair passes; to 0: the head
  PullParts,        \* [[repair.pull_parts]] block, exec_output, transfers
  RequireScOps,     \* [[repair.pull_parts]] require_sc_ops
  RangePeriods, CheckpointEvery, FetchAttempts, Concurrency,
  LiveCapacity, BulkCapacity,  \* bounds of the channels
  MaxFaults         \* bound on failures and restarts

StreamKinds == {"block", "exec", "transfers"}
Passes      == {"reconstruct", "legacy_sub", "pull"}
Tasks       == Passes \cup {"import"}

Parts == {"block", "exec", "transfers"}

\* The rows of a database, as a boot finds them.
Database == [row : [Slots -> SlotRow \cup {None}], block : [Blocks -> BlockStatus \cup {None}],
             op : [Ops -> OpRow \cup {None}], events : [Slots -> Verdicts \cup {None}],
             last_final : Slots \cup {None}]

\* What the node may stream.
Streams == {n \in [StreamKinds -> Seq(Blocks \cup ExecFrames \cup TransferFrames)] :
             /\ n["block"] \in Seq(Blocks)
             /\ n["exec"] \in Seq(ExecFrames)
             /\ n["transfers"] \in Seq(TransferFrames)}

ASSUME FeedersAssumption ==
  /\ \A c \in Boots : c.tasks \subseteq Tasks /\ c.db \in Database /\ c.streams \in Streams
  /\ Chain \in [Slots -> Verdicts]
  /\ Legacy \in [Slots -> LegacyPatches \cup {None}]
  /\ Remote \in [Slots -> PeerPatches \cup {None}]
  /\ LegacySubs \subseteq Slots
  /\ OpKind \in [Ops -> {"Transaction", "CallSc"}]
  /\ ImportMax \in 0 .. MaxPeriod \cup {None} /\ ImportMin \in Nat
  /\ RepairFrom \in Nat /\ RepairTo \in 0 .. MaxPeriod
  /\ PullParts \subseteq Parts /\ RequireScOps \in BOOLEAN
  /\ {RangePeriods, CheckpointEvery, FetchAttempts, Concurrency} \subseteq Nat \ {0}
  /\ {LiveCapacity, BulkCapacity} \subseteq Nat \ {0} /\ MaxFaults \in Nat
  /\ IsFiniteSet(ForcedVerdicts) /\ Cardinality(ForcedVerdicts) <= BulkCapacity

\* The rows of a database an indexer on this chain may have left.
OnChain(db) ==
  /\ \A s \in Slots : db.row[s] # None =>
       /\ RowShape(db.row[s], s)
       /\ db.row[s].status = "Final" => VerdictOf(db.row[s]) = Chain[s]
       /\ db.row[s].exec_final =>
            /\ db.row[s].status = "Final" /\ db.events[s] = Chain[s]
            /\ \A b \in db.row[s].candidates : db.block[b] # "SeenCandidate"
  /\ \A b \in Blocks :
       /\ db.block[b] = "Final" => Chain[BlockSlot[b]] = b
       /\ db.block[b] = "Discarded" => Chain[BlockSlot[b]] # b

(***************************************************************************)
(* The sources are on one chain; what contradictory ones do is the subject *)
(* of SlotIngest.  fetch_slot returns the block of the slot it was asked   *)
(* for, with its body, or nothing ("Legacy never stored miss slots").      *)
(***************************************************************************)
ASSUME SourcesAgree ==
  /\ \A c \in Boots : OnChain(c.db)
  /\ \A f \in ExecFrames : f.final => FrameVerdict(f) = Chain[f.slot]
  /\ \A m \in ForcedVerdicts : Named(m) = Chain[m.slot]
  /\ \A s \in Slots : Legacy[s] # None =>
       /\ Legacy[s].slot = s /\ Legacy[s].block = Chain[s]
       /\ ~Legacy[s].is_miss /\ Legacy[s].body
  /\ \A s \in Slots : Remote[s] # None =>
       Remote[s].slot = s /\ Named(Remote[s]) = Chain[s]

(***************************************************************************)
(* What the importer takes for granted when it records a miss: a slot of   *)
(* its window without a row in the tables has no block on the chain.  With *)
(* max_period at the end of the tables this is so; the run early_miss      *)
(* shows what happens without.                                             *)
(***************************************************************************)
TablesCover ==
  (\E c \in Boots : "import" \in c.tasks) =>
    \A s \in Slots :
      /\ ImportMin <= s[1] /\ (ImportMax # None => s[1] <= ImportMax)
      /\ Legacy[s] = None
      => Chain[s] = Miss

VARIABLES
  boot,     \* the configuration in force
  node,     \* node[k]: what stream k has still to deliver
  up,       \* the streams that are connected
  live,     \* the live lane
  bulk,     \* the bulk lane
  task,     \* where each feeder is
  ckpt,     \* ckpt[p][to]: the checkpoint of pass p over RepairFrom..to, or None
  given_up, \* history: <<pass, slot>> whose repair failed or was dropped
  faults    \* failures still to come

lanes == <<live, bulk>>
feeds == <<boot, node, up, task, ckpt, given_up, faults>>
all   == <<vars, lanes, feeds>>

Event(kind, m) == [kind |-> kind, msg |-> m]

(***************************************************************************)
(* at: the period in progress (its top, for a window of pull_parts); to:   *)
(* the last period of the pass (the head, for the importer); todo: slots   *)
(* not read yet; targets: slots to ask for, with the number of failed      *)
(* attempts; errored: lookups that failed for good in this pass.           *)
(***************************************************************************)
Off == [pc |-> "off", at |-> 0, to |-> 0, todo |-> <<>>, targets |-> {}, errored |-> FALSE]

\* u64::saturating_sub
Minus(a, b) == IF a > b THEN a - b ELSE 0

Upper(a, b) == IF a > b THEN a ELSE b

\* The slots of periods lo..hi, newest period first, threads upwards.
Downward(lo, hi) ==
  [i \in 1 .. (hi - lo + 1) * ThreadCount |->
     <<hi - (i - 1) \div ThreadCount, (i - 1) % ThreadCount>>]

\* range_periods.saturating_sub(1) below the top, not below the range.
PullLo(hi) == Upper(Minus(hi, RangePeriods - 1), RepairFrom)

EnterPeriod(p, at, to) ==
  [Off EXCEPT !.pc = "run", !.at = at, !.to = to,
              !.todo = Downward(IF p = "pull" THEN PullLo(at) ELSE at, at)]

\* Where a pass begins: at its checkpoint, kept within the range; not at all
\* once the checkpoint says that the range is done.
StartPass(p, to, mark) ==
  LET first == CASE p = "pull" -> IF mark = None \/ mark > to THEN to ELSE mark
                 [] p # "pull" -> IF mark = None THEN RepairFrom ELSE Upper(mark, RepairFrom)
  IN  IF (p = "pull" /\ first < RepairFrom) \/ (p # "pull" /\ first > to)
        THEN [Off EXCEPT !.pc = "done"]
        ELSE EnterPeriod(p, first, to)

\* `to_period = 0' is the FINAL head at startup.
PassTo(head) == IF RepairTo # 0 THEN RepairTo ELSE IF head = None THEN 0 ELSE head[1]

\* serve: the tasks that are enabled start.
StartTasks(on, head, marks) ==
  [t \in Tasks |->
     IF t \notin on        THEN Off
     ELSE IF t = "import"  THEN [Off EXCEPT !.pc = "wait"]
     ELSE StartPass(t, PassTo(head), marks[t][PassTo(head)])]

\* serve: the forced verdicts are queued before the repair passes start.
ForcedQueue == SetToSeq({Event("forced", m) : m \in ForcedVerdicts})

FeedersInit ==
  /\ boot \in Boots
  /\ row = boot.db.row /\ block = boot.db.block /\ op = boot.db.op
  /\ events = boot.db.events /\ last_final = boot.db.last_final
  /\ transfers = [s \in Slots |-> {}] /\ last_candidate = None
  /\ async = [m \in AsyncIds |-> None] /\ deferred = [d \in DeferredIds |-> None]
  /\ node = boot.streams /\ up = {}
  /\ live = <<>> /\ bulk = ForcedQueue
  /\ ckpt = [p \in Passes |-> [to \in 0 .. MaxPeriod |-> None]]
  /\ task = StartTasks(boot.tasks, last_final, ckpt)
  /\ given_up = {} /\ faults = MaxFaults

-----------------------------------------------------------------------------
(* The node streams: run_consumers and its three loops.  A stream that has *)
(* delivered everything is of no more interest.                            *)

Connect(k) ==
  /\ k \notin up /\ node[k] # <<>>
  /\ up' = up \cup {k}
  /\ UNCHANGED <<vars, lanes, boot, node, task, ckpt, given_up, faults>>

\* The stream ends or errs; the loop backs off and connects again.
StreamEnds(k) ==
  /\ k \in up /\ node[k] # <<>> /\ faults > 0
  /\ up' = up \ {k} /\ faults' = faults - 1
  /\ UNCHANGED <<vars, lanes, boot, node, task, ckpt, given_up>>

\* The node emits its next event: lost while the stream is down.
Emit(k) ==
  /\ node[k] # <<>>
  /\ k \in up => Len(live) < LiveCapacity
  /\ live' = IF k \in up THEN Append(live, Event(k, Head(node[k]))) ELSE live
  /\ node' = [node EXCEPT ![k] = Tail(@)]
  /\ up' = IF Tail(node[k]) = <<>> THEN up \ {k} ELSE up
  /\ UNCHANGED <<vars, bulk, boot, task, ckpt, given_up, faults>>

-----------------------------------------------------------------------------
(* The writer. *)

\* Ingest::handle
Handle(e) ==
  \/ e.kind = "block" /\ HandleBlock(e.msg)
  \/ e.kind = "exec" /\ \/ HandleExecFinal(e.msg) \/ CompleteFinalExec(e.msg)
                        \/ HandleExecCandidate(e.msg)
                        \/ IgnoresExec(e.msg) /\ UNCHANGED vars
  \/ e.kind = "transfers" /\ HandleTransfers(e.msg)
  \/ e.kind = "peer" /\ (ApplyPeerPatch(e.msg) \/ (IgnoresPeer(e.msg) /\ UNCHANGED vars))
  \/ e.kind = "legacy" /\ ApplyLegacyPatch(e.msg)
  \/ e.kind = "forced" /\ \/ ApplyForcedVerdict(e.msg)
                          \/ IgnoresForced(e.msg) /\ UNCHANGED vars

\* Ingest::step: the live lane first, the bulk lane when no live event is ready.
ServeLive ==
  /\ live # <<>>
  /\ Handle(Head(live))
  /\ live' = Tail(live)
  /\ UNCHANGED <<bulk, feeds>>

ServeBulk ==
  /\ live = <<>> /\ bulk # <<>>
  /\ Handle(Head(bulk))
  /\ bulk' = Tail(bulk)
  /\ UNCHANGED <<live, feeds>>

\* Mutant of Queue: the channel has no bound.
QueueUnbounded(kind, m) == bulk' = Append(bulk, Event(kind, m))

\* EventTx::send waits for room.
Queue(kind, m) == Len(bulk) < BulkCapacity /\ bulk' = Append(bulk, Event(kind, m))

-----------------------------------------------------------------------------
(* The legacy importer. *)

\* slot_already_covered
AlreadyCovered(r) ==
  r # None /\ r.status = "Final" /\ (r.is_miss \/ r.body \/ r.transfers)

Importer == task["import"]
SetImporter(i) ==
  /\ task' = [task EXCEPT !["import"] = i]
  /\ UNCHANGED <<vars, live, boot, node, up, ckpt, given_up>>

StartWalk(to) == [Off EXCEPT !.pc = "walk", !.to = to, !.todo = Downward(ImportMin, to)]

\* max_period, or wait_for_head.
ImportBegins ==
  /\ Importer.pc = "wait"
  /\ ImportMax # None \/ last_final # None
  /\ SetImporter(StartWalk(IF ImportMax # None THEN ImportMax ELSE last_final[1]))
  /\ UNCHANGED <<bulk, faults>>

\* A lookup starts, unless a better source has covered the slot.
LookUp ==
  /\ Importer.pc = "walk" /\ Importer.todo # <<>>
  /\ Cardinality(Importer.targets) < Concurrency
  /\ LET s == Head(Importer.todo)
     IN  SetImporter([Importer EXCEPT
           !.todo = Tail(@),
           !.targets = IF AlreadyCovered(row[s]) THEN @ ELSE @ \cup {<<s, 0>>}])
  /\ UNCHANGED <<bulk, faults>>

\* "Confirmed no row in DDB. Record a FINAL miss"
MissPatch(s) ==
  [slot |-> s, is_miss |-> TRUE, block |-> None, body |-> FALSE,
   ops |-> [o \in Ops |-> None], executed |-> {}, transfers |-> FALSE]

\* The lookup of x = <<slot, failures>> gives an answer.
Found(x) ==
  LET s == x[1] IN
  /\ x \in Importer.targets
  /\ SetImporter([Importer EXCEPT !.targets = @ \ {x}])
  /\ IF Legacy[s] # None         THEN Queue("legacy", Legacy[s])
     ELSE IF IsFinalBlock(row, s) THEN UNCHANGED bulk
     ELSE Queue("legacy", MissPatch(s))
  /\ UNCHANGED faults

\* Mutant of Failed: after the last attempt the slot is taken for a miss.
FailedIsMiss(x) ==
  /\ x \in Importer.targets /\ faults > 0 /\ faults' = faults - 1
  /\ SetImporter([Importer EXCEPT !.targets = @ \ {x}])
  /\ Queue("legacy", MissPatch(x[1]))

\* The lookup fails: tried again, and after the last attempt left uncovered.
Failed(x) ==
  /\ x \in Importer.targets /\ faults > 0 /\ faults' = faults - 1
  /\ SetImporter(IF x[2] + 1 < FetchAttempts
                   THEN [Importer EXCEPT !.targets = (@ \ {x}) \cup {<<x[1], x[2] + 1>>}]
                   ELSE [Importer EXCEPT !.targets = @ \ {x}, !.errored = TRUE])
  /\ UNCHANGED bulk

\* Mutant of AfterPass: errors are not looked at.
AfterPassOnce(i) == [Off EXCEPT !.pc = "done", !.to = i.to]

\* The window is swept again until a pass has no error.
AfterPass(i) == IF i.errored THEN StartWalk(i.to) ELSE [Off EXCEPT !.pc = "done", !.to = i.to]

ImportPassEnds ==
  /\ Importer.pc = "walk" /\ Importer.todo = <<>> /\ Importer.targets = {}
  /\ SetImporter(AfterPass(Importer))
  /\ UNCHANGED <<bulk, faults>>

ImportStep ==
  \/ ImportBegins \/ LookUp \/ ImportPassEnds
  \/ \E x \in Importer.targets : Found(x)

-----------------------------------------------------------------------------
(* The repair passes. *)

Ran(ops, r, kind) ==
  \E o \in r.executed : ops[o] # None /\ OpKind[o] = kind /\ ops[o].fin = "Ok"

\* A FINAL block whose transfer list never came.
NoList(r) ==
  r # None /\ r.status = "Final" /\ ~r.is_miss /\ ~r.transfers /\ r.final # None

\* reconstruct_slot; the pre-filter of run_legacy_sub_transfers; slot_lacks_parts.
LacksParts(ops, r) ==
  /\ r # None /\ r.status = "Final"
  /\ \/ "block" \in PullParts /\ ~r.is_miss /\ ~r.body
     \/ "exec" \in PullParts /\ ~r.exec_final
     \/ "transfers" \in PullParts /\ ~r.transfers
  /\ RequireScOps => Ran(ops, r, "CallSc")

\* The pass finds something to repair in the slot row r and the operation rows.
Repairs(p, ops, r) ==
  CASE p = "reconstruct" -> NoList(r) /\ Ran(ops, r, "Transaction")
    [] p = "legacy_sub"  -> NoList(r) /\ Ran(ops, r, "CallSc")
    [] p = "pull"        -> LacksParts(ops, r)

\* The transfers-only LegacyPatch of both transfer repairs.
TransferPatch(s, b) ==
  [slot |-> s, is_miss |-> FALSE, block |-> b, body |-> FALSE,
   ops |-> [o \in Ops |-> None], executed |-> {}, transfers |-> TRUE]

\* build_final_slot_response with the parts of the pass.
Masked(m) ==
  [m EXCEPT !.body = @ /\ "block" \in PullParts, !.exec = @ /\ "exec" \in PullParts,
            !.transfers = @ /\ "transfers" \in PullParts]

\* response_is_empty_for_parts, negated: the peer holds something of what is asked.
Useful(m) == m # None /\ (Masked(m).body \/ Masked(m).exec \/ Masked(m).transfers)

SetTask(p, t) ==
  /\ task' = [task EXCEPT ![p] = t]
  /\ UNCHANGED <<vars, live, boot, node, up>>

\* reconstruct: the patch is made from the rows and queued at once.
Rebuild ==
  LET t == task["reconstruct"] s == Head(t.todo) IN
  /\ t.pc = "run" /\ t.todo # <<>>
  /\ SetTask("reconstruct", [t EXCEPT !.todo = Tail(@)])
  /\ IF Repairs("reconstruct", op, row[s])
       THEN Queue("legacy", TransferPatch(s, row[s].final)) ELSE UNCHANGED bulk
  /\ UNCHANGED <<ckpt, given_up, faults>>

\* legacy_sub and pull: the rows of a period or window are read first.  A target
\* of legacy_sub remembers the block, and if its rows are there already: a list
\* is stored or not as a whole here, where the code remembers the ids of the rows.
Scan(p) ==
  LET t == task[p] s == Head(t.todo) IN
  /\ p # "reconstruct"
  /\ t.pc = "run" /\ t.todo # <<>>
  /\ SetTask(p, [t EXCEPT
       !.todo = Tail(@),
       !.targets = IF Repairs(p, op, row[s])
                     THEN @ \cup {<<s, row[s].final, transfers[s] # {}>>} ELSE @])
  /\ UNCHANGED <<bulk, ckpt, given_up, faults>>

Asking(p, x) == task[p].pc = "run" /\ task[p].todo = <<>> /\ x \in task[p].targets

\* fetch_sub_transfers answers, or the peers' range streams do.
Answered(p, x) ==
  /\ Asking(p, x)
  /\ p = "pull" => Useful(Remote[x[1]])
  /\ SetTask(p, [task[p] EXCEPT !.targets = @ \ {x}])
  /\ IF p = "pull" THEN Queue("peer", Masked(Remote[x[1]]))
     ELSE IF x[1] \in LegacySubs /\ ~x[3] THEN Queue("legacy", TransferPatch(x[1], x[2]))
     ELSE UNCHANGED bulk
  /\ UNCHANGED <<ckpt, given_up, faults>>

\* The lookup fails, or the streams end without the slot: not tried again.
Unanswered(p, x) ==
  /\ Asking(p, x)
  /\ \/ p = "pull" /\ ~Useful(Remote[x[1]]) /\ UNCHANGED faults
     \/ faults > 0 /\ faults' = faults - 1
  /\ SetTask(p, [task[p] EXCEPT !.targets = @ \ {x}])
  /\ given_up' = given_up \cup {<<p, x[1]>>}
  /\ UNCHANGED <<bulk, ckpt>>

\* What is left of the pass after the period or window at its place.
LastOf(p, t) == IF p = "pull" THEN PullLo(t.at) <= RepairFrom \/ PullLo(t.at) = 0
                              ELSE t.at = t.to

\* Mutant of Mark: the checkpoint claims the period that comes next.
MarkAhead(p, t, old) ==
  IF p = "pull" THEN Minus(PullLo(t.at), 1)
  ELSE IF LastOf(p, t) THEN t.at + 1 ELSE t.at + 2

\* The checkpoint: every window, every CheckpointEvery periods, and at the end.
Mark(p, t, old) ==
  IF p = "pull" THEN Minus(PullLo(t.at), 1)
  ELSE IF LastOf(p, t) \/ t.at % CheckpointEvery = 0 THEN t.at + 1 ELSE old

\* Mutant of Onward: the loop of pull_parts ends only below its range.
OnwardBelow(p, t) ==
  IF p # "pull" /\ LastOf(p, t) THEN [Off EXCEPT !.pc = "done"]
  ELSE EnterPeriod(p, IF p = "pull" THEN Minus(PullLo(t.at), 1) ELSE t.at + 1, t.to)

Onward(p, t) ==
  IF LastOf(p, t) THEN [Off EXCEPT !.pc = "done"]
  ELSE EnterPeriod(p, IF p = "pull" THEN PullLo(t.at) - 1 ELSE t.at + 1, t.to)

\* The checkpoint is stored when the patches are queued, not when they are applied.
PeriodEnds(p) ==
  LET t == task[p] IN
  /\ t.pc = "run" /\ t.todo = <<>> /\ t.targets = {}
  /\ ckpt' = [ckpt EXCEPT ![p][t.to] = Mark(p, t, @)]
  /\ SetTask(p, Onward(p, t))
  /\ UNCHANGED <<bulk, given_up, faults>>

PassStep(p) ==
  \/ p = "reconstruct" /\ Rebuild
  \/ Scan(p) \/ PeriodEnds(p)
  \/ \E x \in task[p].targets : Answered(p, x) \/ Unanswered(p, x)

-----------------------------------------------------------------------------
(* The indexer stops and starts again. *)

\* The slots for which the bulk lane holds a patch of pass p.
Pending(p) ==
  {bulk[i].msg.slot : i \in {j \in DOMAIN bulk :
     bulk[j].kind = IF p = "pull" THEN "peer" ELSE "legacy"}}

Restarted ==
  /\ faults > 0 /\ faults' = faults - 1
  /\ live' = <<>> /\ bulk' = ForcedQueue /\ up' = {}
  /\ task' = StartTasks(boot.tasks, last_final', ckpt)
  /\ given_up' = given_up \cup
       UNION {{<<p, s>> : s \in Pending(p)} : p \in boot.tasks \cap Passes}
  /\ UNCHANGED <<boot, node, ckpt>>

\* Between two handlers.
Restart == UNCHANGED vars /\ Restarted

\* Mutant of TornExec: the slot row is the first write.
TornExecRowFirst(f, n) ==
  /\ f.final /\ Open(Row(f.slot))
  /\ row' = [row EXCEPT ![f.slot] = [Row(f.slot) EXCEPT
               !.status = "Final", !.is_miss = f.block = None, !.final = f.block,
               !.exec_final = TRUE]]
  /\ UNCHANGED <<events, last_final, block, op, async, transfers, deferred, last_candidate>>

(***************************************************************************)
(* Inside handle_exec, FINAL frame, after n of its writes: the events are  *)
(* cleared and written, then last_final, the blocks, the operations, the   *)
(* async pool, the slot row, and last (not in a torn run) the parent stub. *)
(***************************************************************************)
TornExec(f, n) ==
  LET r == Row(f.slot)
      settled == [r EXCEPT !.status = "Final",
                           !.is_miss = f.block = None,
                           !.final = IF f.block = None THEN @ ELSE f.block,
                           !.trail = TrailOr(f.trail, @),
                           !.executed = FirstExecuted(@, ExecutedOps(f)),
                           !.exec_final = TRUE]
  IN  /\ f.final /\ Open(r)
      /\ events' = [events EXCEPT ![f.slot] = IF n = 1 THEN None ELSE FrameVerdict(f)]
      /\ last_final' = IF n >= 3 THEN f.slot ELSE last_final
      /\ block' = IF n >= 4 THEN SettleBlocks(block, settled.final, settled.candidates)
                            ELSE block
      /\ op' = IF n >= 5 THEN ApplyExecutedOps(op, f) ELSE op
      /\ async' = IF n >= 6 THEN ApplyPool(async, f) ELSE async
      /\ row' = IF n >= 7 THEN [row EXCEPT ![f.slot] = settled] ELSE row
      /\ UNCHANGED <<transfers, deferred, last_candidate>>

\* Inside handle_block: the operations, the block row, the slot row, (the stub).
TornBlock(b, n) ==
  LET s == BlockSlot[b] r == Row(s) IN
  /\ op' = [o \in Ops |-> IF o \in BlockOps[b] THEN IncludeOp(op[o], b) ELSE op[o]]
  /\ block' = IF n >= 2 THEN [block EXCEPT ![b] = Arrived(@, r, b)] ELSE block
  /\ row' = IF n >= 3
              THEN [row EXCEPT ![s] =
                     [r EXCEPT !.candidates = @ \cup {b}, !.body = TRUE,
                               !.status = IF @ = "Unknown" THEN "Candidate" ELSE @]]
              ELSE row
  /\ UNCHANGED <<events, transfers, async, deferred, last_final, last_candidate>>

Crash ==
  /\ live # <<>>
  /\ LET e == Head(live) IN
       \/ e.kind = "exec" /\ \E n \in 1 .. 7 : TornExec(e.msg, n)
       \/ e.kind = "block" /\ \E n \in 1 .. 3 : TornBlock(e.msg, n)
  /\ Restarted

-----------------------------------------------------------------------------
Fault ==
  \/ \E k \in StreamKinds : StreamEnds(k)
  \/ \E x \in Importer.targets : Failed(x)
  \/ Restart \/ Crash

FeedersNext ==
  \/ \E k \in StreamKinds : Connect(k) \/ Emit(k)
  \/ ServeLive \/ ServeBulk
  \/ ImportStep
  \/ \E p \in Passes : PassStep(p)
  \/ Fault

(***************************************************************************)
(* Each loop is a task the runtime schedules: the three consumers, the     *)
(* importer, the repair passes and the writer.  What the node streams is   *)
(* finite in the instance, so the live lane is empty in the end.           *)
(***************************************************************************)
FeedersSpec ==
  /\ FeedersInit /\ [][FeedersNext]_all
  /\ \A k \in StreamKinds : WF_all(Connect(k)) /\ WF_all(Emit(k))
  /\ WF_all(ServeLive) /\ WF_all(ServeBulk)
  /\ WF_all(ImportStep) /\ \A p \in Passes : WF_all(PassStep(p))

-----------------------------------------------------------------------------
FeedersTypeOK ==
  /\ TypeOK
  /\ Len(live) <= LiveCapacity /\ Len(bulk) <= BulkCapacity
  /\ \A t \in Tasks :
       /\ task[t].pc \in {"off", "wait", "walk", "run", "done"}
       /\ task[t].at \in 0 .. MaxPeriod /\ task[t].to \in 0 .. MaxPeriod
  /\ ckpt \in [Passes -> [0 .. MaxPeriod -> 0 .. MaxPeriod + 1 \cup {None}]]
  /\ faults \in 0 .. MaxFaults

Drained == live = <<>> /\ bulk = <<>>

ImportWindow == {s \in Slots : ImportMin <= s[1] /\ s[1] <= Importer.to}

(***************************************************************************)
(* "AWS one-shot importer COMPLETE (errored=0) - safe to disable": then,   *)
(* once the writer has drained the queue, every slot of the window has its *)
(* verdict, and those the tables hold are covered - although lookups       *)
(* failed, ran concurrently with the live stream, and the indexer was      *)
(* stopped between queueing and applying (run_oneshot_import).             *)
(***************************************************************************)
ImportComplete ==
  Importer.pc = "done" /\ Drained =>
    \A s \in ImportWindow :
      IsFinal(row, s) /\ (Legacy[s] # None => AlreadyCovered(row[s]))

(***************************************************************************)
(* A slot that has a block on the chain is never recorded as a miss: an    *)
(* error "would hide real history", and where the tables hold no row the   *)
(* importer writes nothing (ARCHITECTURE.md 9.4) so that the live stream   *)
(* always wins (9.2).                                                      *)
(***************************************************************************)
NoInventedMiss ==
  \A s \in Slots : IsFinal(row, s) /\ row[s].is_miss => Chain[s] = Miss

\* The pass over the range whose upper end is `to' has its checkpoint past s.
Passed(p, to, s) ==
  /\ RepairFrom <= s[1] /\ s[1] <= to /\ ckpt[p][to] # None
  /\ IF p = "pull" THEN s[1] > ckpt[p][to] ELSE s[1] < ckpt[p][to]

\* The row has every part the peer ships, or refuses them for their trail hash.
Supplied(s) ==
  LET m == Masked(Remote[s]) IN
  /\ Remote[s] # None
  /\ \/ /\ m.body => row[s].body
        /\ m.exec => row[s].exec_final
        /\ m.transfers => row[s].transfers
     \/ TrailClash(row[s].trail, m.trail)

Repaired(p, s) ==
  IF p = "pull" THEN Supplied(s)
  ELSE transfers[s] # {} \/ (p = "legacy_sub" /\ s \notin LegacySubs)

(***************************************************************************)
(* A repair pass is resumed, not redone, so its checkpoint must account    *)
(* for every slot below it that needed the repair from the start: repaired,*)
(* or its patch is queued, or given up for a reason the operator is told   *)
(* of - a lookup that failed, or a restart that emptied the queue          *)
(* (run_reconstruct_transfers, run_legacy_sub_transfers, run_pull_parts).  *)
(***************************************************************************)
CheckpointHonest ==
  \A p \in boot.tasks \cap Passes, to \in 0 .. MaxPeriod, s \in Slots :
    /\ Passed(p, to, s)
    /\ Repairs(p, boot.db.op, boot.db.row[s]) /\ Repairs(p, op, row[s])
    => Repaired(p, s) \/ s \in Pending(p) \/ <<p, s>> \in given_up

(***************************************************************************)
(* A crash inside a handler is not visible in a settled slot: the slot row *)
(* is the last write of handle_exec, so a FINAL row with its output stored *)
(* has the events of its verdict, and its blocks settled.                  *)
(***************************************************************************)
CrashConsistent ==
  \A s \in Slots : IsFinal(row, s) /\ row[s].exec_final =>
    /\ events[s] = VerdictOf(row[s])
    /\ \A b \in row[s].candidates : block[b] # None =>
         block[b] = IF b = row[s].final THEN "Final" ELSE "Discarded"

(***************************************************************************)
(* Every feeder ends and every queued patch is applied: retries, full      *)
(* lanes, the priority of the live lane and restarts only delay them       *)
(* (Ingest::step, run_oneshot_import, the loops of repair.rs).             *)
(***************************************************************************)
FeedersFinish == <>[](Drained /\ \A t \in Tasks : task[t].pc \in {"off", "done"})
=============================================================================
