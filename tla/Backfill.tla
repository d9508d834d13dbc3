------------------------------ MODULE Backfill -------------------------------
(***************************************************************************)
(* The backfill walker (peer/backfill.rs), the peers it asks               *)
(* (peer/service.rs, PeerPool in peer/client.rs) and the writer it feeds.  *)
(*                                                                         *)
(* The walker sweeps the slots from the FINAL head down to period 0 in     *)
(* windows.  It reads each row, asks peers about the ones that need it, as *)
(* one range stream per peer or slot by slot, and queues the answers as    *)
(* PeerPatch events on the bulk lane.  The writer applies them later:      *)
(* between the read and the apply the node may have changed the row.       *)
(*                                                                         *)
(* The node's events reach the rows directly (LiveEvent); what its streams *)
(* drop while they are down is lost for good (LoseEvent).  Pauses and rate *)
(* limits are left out: they are stuttering.  Peers do not change; a call  *)
(* to a peer that fails, a stream that breaks and a restart of the indexer *)
(* each use up one of MaxFaults.                                           *)
(***************************************************************************)
EXTENDS SlotIngest, Sequences

CONSTANTS
  Peers,             \* logical peer ids
  Dialable,          \* the peers with a URL; the others have a session only
  RemoteRows,        \* RemoteRows[p]: the slots p has a row for
  Remote,            \* Remote[p][s]: p's answer when its row is FINAL, else None
  BestRemote,        \* best_remote_final_period, None if no probe succeeded
  EnabledParts,      \* the parts the operator has enabled
  RangePeriods, RangeLimit, SparseThreshold,
  StaleCandidatePeriods, RecentIncompletePeriods, MaxRemoteHeadLead,
  RecheckPeriods,    \* the periods of the recheck ranges
  RecheckSweeps,
  BlockStream,       \* the blocks the node will stream, in order
  ExecStream,        \* the execution outputs the node will stream, in order
  BulkCapacity,      \* bound of the bulk channel
  MaxFaults          \* bound on failures and restarts

Parts == {"block", "exec", "transfers"}

ASSUME BackfillAssumption ==
  /\ Dialable \subseteq Peers
  /\ RemoteRows \in [Peers -> SUBSET Slots]
  /\ Remote \in [Peers -> [Slots -> PeerPatches \cup {None}]]
  /\ \A p \in Peers, s \in Slots :
       Remote[p][s] # None => s \in RemoteRows[p] /\ Remote[p][s].slot = s
  /\ BestRemote \in 0 .. MaxPeriod \cup {None}
  /\ EnabledParts \subseteq Parts /\ EnabledParts # {}
  /\ RangePeriods \in Nat \ {0} /\ RangeLimit \in Nat \ {0}
  /\ SparseThreshold \in Nat /\ BulkCapacity \in Nat \ {0}
  /\ RecheckPeriods \subseteq Nat /\ RecheckSweeps \in Nat /\ MaxFaults \in Nat
  /\ BlockStream \in Seq(Blocks) /\ ExecStream \in Seq(ExecFrames)

VARIABLES
  walker,      \* the state of run_backfill
  bulk,        \* the bulk lane: answers not applied yet
  node_blocks, node_execs,  \* what the node has still to stream
  faults       \* failures still to come

wvars == <<walker, bulk, node_blocks, node_execs, faults>>
all   == <<vars, wvars>>

\* recheck_sweeps_left at the start.  A count of zero still covers one sweep.
Armed == IF RecheckPeriods = {} THEN 0
         ELSE IF RecheckSweeps = 0 THEN 1 ELSE RecheckSweeps

(***************************************************************************)
(* pc: "idle" between sweeps, "scan" while the rows of a window are read,  *)
(* "range" in range_fill_window_opts, "visit" and "fetch" in visit_slot.   *)
(* todo: slots of the window not read yet; needy: slots to ask for, in the *)
(* order of the scan; peers: not yet tried in this window; page: what the  *)
(* open stream will still deliver; parts: asked for by the open fetch.     *)
(***************************************************************************)
Walker ==
  [pc : {"idle", "scan", "range", "visit", "fetch"},
   head : 0 .. MaxPeriod, period : 0 .. MaxPeriod,
   todo : Seq(Slots), needy : Seq(Slots), peers : SUBSET Peers,
   page : Seq(PeerPatch), parts : SUBSET Parts,
   sweeps : 0 .. Armed]

Idle(sweeps) ==
  [pc |-> "idle", head |-> 0, period |-> 0, todo |-> <<>>, needy |-> <<>>,
   peers |-> {}, page |-> <<>>, parts |-> {}, sweeps |-> sweeps]

BackfillInit ==
  /\ Init
  /\ walker = Idle(Armed)
  /\ bulk = <<>>
  /\ node_blocks = BlockStream /\ node_execs = ExecStream
  /\ faults = MaxFaults

-----------------------------------------------------------------------------
(* What to ask for. *)

\* u64::saturating_sub
Minus(a, b) == IF a > b THEN a - b ELSE 0

\* Mutant of InRecheck: the upper end of a range is excluded.
InRecheckHalfOpen(w, p) == w.sweeps > 0 /\ {p, p + 1} \subseteq RecheckPeriods

\* SweepCtx::in_recheck
InRecheck(w, p) == w.sweeps > 0 /\ p \in RecheckPeriods

\* FetchReason, or "Skip".
Reason(r, s, w) ==
  LET age == Minus(w.head, s[1]) IN
  CASE r = None                 -> "Gap"
    [] r # None /\ r.status = "Unknown"   -> "Gap"
    [] r # None /\ r.status = "Candidate" ->
         IF age >= StaleCandidatePeriods THEN "StaleCandidate" ELSE "Skip"
    [] r # None /\ r.status = "Final"     ->
         IF InRecheck(w, s[1])                  THEN "Recheck"
         ELSE IF ~r.is_miss /\ ~r.body          THEN "Gap"
         ELSE IF r.is_miss /\ r.candidates # {} THEN "SuspiciousMiss"
         ELSE IF age <= RecentIncompletePeriods THEN "RecentIncomplete"
         ELSE "Skip"

Lacking(r) == (IF r.exec_final THEN {} ELSE {"exec"})
              \cup (IF r.transfers THEN {} ELSE {"transfers"})

\* Mutant of NeedsFetch: a candidate is always left to the live stream.
NeedsFetchNoCandidates(r, s, w) ==
  IF r # None /\ r.status = "Candidate" THEN {}
  ELSE CASE Reason(r, s, w) = "Skip"             -> {}
         [] Reason(r, s, w) = "RecentIncomplete" -> EnabledParts \cap Lacking(r)
         [] OTHER                                -> EnabledParts

\* needs_fetch: the parts to ask for, none if the slot is skipped.
NeedsFetch(r, s, w) ==
  CASE Reason(r, s, w) = "Skip"             -> {}
    [] Reason(r, s, w) = "RecentIncomplete" -> EnabledParts \cap Lacking(r)
    [] OTHER                                -> EnabledParts

-----------------------------------------------------------------------------
(* What a peer answers. *)

\* build_final_slot_response: only the parts asked for.
AnswerOf(m, parts) ==
  [m EXCEPT !.body = @ /\ "block" \in parts,
            !.exec = @ /\ "exec" \in parts,
            !.transfers = @ /\ "transfers" \in parts]

\* iter_slots_desc: the newest `limit' rows at or below period hi.
NewestRows(rows, hi, limit) ==
  LET below == {s \in rows : s[1] <= hi}
  IN  {s \in below : Cardinality({q \in below : SlotLess(s, q)}) < limit}

\* The slots of periods lo..hi, newest period first, threads downwards.
Descending(lo, hi) ==
  [i \in 1 .. (hi - lo + 1) * ThreadCount |->
     <<hi - (i - 1) \div ThreadCount, (ThreadCount - 1) - ((i - 1) % ThreadCount)>>]

\* stream_final_slots: newest first; the limit counts rows before the FINAL filter.
StreamFinalSlots(p, lo, hi) ==
  LET page   == NewestRows(RemoteRows[p], hi, RangeLimit)
      served == SelectSeq(Descending(lo, hi),
                          LAMBDA s : s \in page /\ Remote[p][s] # None)
  IN  [i \in DOMAIN served |-> AnswerOf(Remote[p][served[i]], EnabledParts)]

-----------------------------------------------------------------------------
(* The walker. *)

WinLo(period) == Minus(period, RangePeriods - 1)

\* The slots of the window in scan order: newest period first, threads upwards.
Window(period) ==
  [i \in 1 .. (period - WinLo(period) + 1) * ThreadCount |->
     <<period - (i - 1) \div ThreadCount, (i - 1) % ThreadCount>>]

\* Mutant of SweepHead: the lead is added, not taken as a limit.
SweepHeadLead(local) ==
  IF BestRemote # None /\ BestRemote > local THEN local + MaxRemoteHeadLead ELSE local

\* The head of a sweep: the peers' head if it is ahead, at most a lead above ours.
SweepHead(local) ==
  IF BestRemote # None /\ BestRemote > local
    THEN IF BestRemote > local + MaxRemoteHeadLead
           THEN local + MaxRemoteHeadLead ELSE BestRemote
    ELSE local

EnterWindow(w, period) ==
  [w EXCEPT !.pc = "scan", !.period = period, !.todo = Window(period),
            !.needy = <<>>, !.peers = {}, !.page = <<>>, !.parts = {}]

\* Mutant of LeaveWindow: period 0 is not taken for the last one.
LeaveWindowAtZero(w) == EnterWindow(w, Minus(WinLo(w.period), 1))

\* The end of the window loop's body, and of the sweep after the last window.
LeaveWindow(w) ==
  IF WinLo(w.period) = 0 THEN Idle(Minus(w.sweeps, 1))
                         ELSE EnterWindow(w, WinLo(w.period) - 1)

Rest == UNCHANGED <<vars, node_blocks, node_execs>>

StartSweep ==
  /\ walker.pc = "idle"
  /\ Peers # {}
  /\ last_final # None
  /\ LET head == SweepHead(last_final[1])
     IN  walker' = EnterWindow([walker EXCEPT !.head = head], head)
  /\ Rest /\ UNCHANGED <<bulk, faults>>

\* One read_slot of the local scan.
ScanSlot ==
  /\ walker.pc = "scan"
  /\ walker.todo # <<>>
  /\ LET s == Head(walker.todo)
     IN  walker' = [walker EXCEPT
           !.todo = Tail(@),
           !.needy = IF NeedsFetch(row[s], s, walker) # {} THEN Append(@, s) ELSE @]
  /\ Rest /\ UNCHANGED <<bulk, faults>>

\* The window is read: bulk path, slot by slot, or nothing to do.
ScanDone ==
  /\ walker.pc = "scan"
  /\ walker.todo = <<>>
  /\ walker' =
       CASE walker.needy = <<>> -> LeaveWindow(walker)
         [] walker.needy # <<>> /\ Len(walker.needy) >= SparseThreshold ->
              [walker EXCEPT !.pc = "range", !.peers = Peers]
         [] OTHER -> [walker EXCEPT !.pc = "visit"]
  /\ Rest /\ UNCHANGED <<bulk, faults>>

\* stream_range_from_peer: refused by a peer that has no URL.
OpenStream(p) ==
  /\ walker.pc = "range" /\ walker.page = <<>> /\ walker.needy # <<>>
  /\ p \in walker.peers
  /\ \/ /\ walker' = [walker EXCEPT
             !.peers = @ \ {p},
             !.page = IF p \in Dialable
                        THEN StreamFinalSlots(p, WinLo(walker.period), walker.period)
                        ELSE <<>>]
        /\ UNCHANGED faults
     \/ /\ p \in Dialable /\ faults > 0
        /\ walker' = [walker EXCEPT !.peers = @ \ {p}]
        /\ faults' = faults - 1
  /\ Rest /\ UNCHANGED bulk

\* One message of the open stream: queued if the slot is still wanted.
TakeAnswer ==
  /\ walker.pc = "range" /\ walker.page # <<>>
  /\ LET m == Head(walker.page)
         wanted == \E i \in DOMAIN walker.needy : walker.needy[i] = m.slot
     IN  /\ wanted => Len(bulk) < BulkCapacity
         /\ bulk' = IF wanted THEN Append(bulk, m) ELSE bulk
         /\ walker' = [walker EXCEPT
              !.page = Tail(@),
              !.needy = SelectSeq(@, LAMBDA s : s # m.slot)]
  /\ Rest /\ UNCHANGED faults

\* The stream errs or stalls: what came so far stays.
StreamBreaks ==
  /\ walker.pc = "range" /\ walker.page # <<>>
  /\ faults > 0
  /\ walker' = [walker EXCEPT !.page = <<>>]
  /\ faults' = faults - 1
  /\ Rest /\ UNCHANGED bulk

\* Every peer was tried, or nothing is missing: a small leftover goes slot by slot.
RangeDone ==
  /\ walker.pc = "range" /\ walker.page = <<>>
  /\ walker.peers = {} \/ walker.needy = <<>>
  /\ walker' = IF walker.needy # <<>> /\ Len(walker.needy) < SparseThreshold
                 THEN [walker EXCEPT !.pc = "visit", !.peers = {}]
                 ELSE LeaveWindow(walker)
  /\ Rest /\ UNCHANGED <<bulk, faults>>

\* visit_slot reads the row again before it asks.
VisitSlot ==
  /\ walker.pc = "visit"
  /\ walker.needy # <<>>
  /\ LET s == Head(walker.needy)
         parts == NeedsFetch(row[s], s, walker)
     IN  walker' = IF parts = {} THEN [walker EXCEPT !.needy = Tail(@)]
                                 ELSE [walker EXCEPT !.pc = "fetch", !.parts = parts]
  /\ Rest /\ UNCHANGED <<bulk, faults>>

VisitsDone ==
  /\ walker.pc = "visit"
  /\ walker.needy = <<>>
  /\ walker' = LeaveWindow(walker)
  /\ Rest /\ UNCHANGED <<bulk, faults>>

Fetched == [walker EXCEPT !.pc = "visit", !.needy = Tail(@), !.parts = {}]

\* fetch_final_slot: the first peer, in shuffled order, that knows the slot FINAL.
FetchAnswered(p) ==
  LET m == Remote[p][Head(walker.needy)] IN
  /\ walker.pc = "fetch"
  /\ m # None
  /\ Len(bulk) < BulkCapacity
  /\ bulk' = Append(bulk, AnswerOf(m, walker.parts))
  /\ walker' = Fetched
  /\ Rest /\ UNCHANGED faults

\* No peer knows the slot, or those that do could not be reached.
FetchEmpty ==
  /\ walker.pc = "fetch"
  /\ \/ /\ \A p \in Peers : Remote[p][Head(walker.needy)] = None
        /\ UNCHANGED faults
     \/ faults > 0 /\ faults' = faults - 1
  /\ walker' = Fetched
  /\ Rest /\ UNCHANGED bulk

WalkerStep ==
  \/ StartSweep \/ ScanSlot \/ ScanDone
  \/ \E p \in Peers : OpenStream(p)
  \/ TakeAnswer \/ RangeDone
  \/ VisitSlot \/ VisitsDone
  \/ \E p \in Peers : FetchAnswered(p)
  \/ FetchEmpty

-----------------------------------------------------------------------------
(* The writer and the node. *)

\* The writer takes the next patch of the bulk lane.
ApplyBulk ==
  /\ bulk # <<>>
  /\ bulk' = Tail(bulk)
  /\ ApplyPeerPatch(Head(bulk)) \/ (IgnoresPeer(Head(bulk)) /\ UNCHANGED vars)
  /\ UNCHANGED <<walker, node_blocks, node_execs, faults>>

\* The writer takes the next event of the block or of the execution stream.
LiveEvent ==
  /\ \/ /\ node_blocks # <<>>
        /\ HandleBlock(Head(node_blocks))
        /\ node_blocks' = Tail(node_blocks) /\ UNCHANGED node_execs
     \/ /\ node_execs # <<>>
        /\ LET f == Head(node_execs) IN
             \/ HandleExecFinal(f) \/ CompleteFinalExec(f) \/ HandleExecCandidate(f)
             \/ IgnoresExec(f) /\ UNCHANGED vars
        /\ node_execs' = Tail(node_execs) /\ UNCHANGED node_blocks
  /\ UNCHANGED <<walker, bulk, faults>>

\* A stream is down while the node emits its next event.
LoseEvent ==
  /\ \/ node_blocks # <<>> /\ node_blocks' = Tail(node_blocks) /\ UNCHANGED node_execs
     \/ node_execs # <<>> /\ node_execs' = Tail(node_execs) /\ UNCHANGED node_blocks
  /\ UNCHANGED <<vars, walker, bulk, faults>>

\* The indexer restarts: the queue and the sweep are gone, rechecks are armed again.
Restart ==
  /\ faults > 0
  /\ walker' = Idle(Armed)
  /\ bulk' = <<>>
  /\ faults' = faults - 1
  /\ Rest

BackfillNext ==
  \/ WalkerStep \/ StreamBreaks \/ ApplyBulk \/ LiveEvent \/ LoseEvent \/ Restart

(***************************************************************************)
(* The walker's task and the writer's task are scheduled by the runtime;   *)
(* the node's streams end in the instance (each event is taken or lost).   *)
(* No fairness for failures and restarts.                                  *)
(***************************************************************************)
BackfillSpec ==
  /\ BackfillInit /\ [][BackfillNext]_all
  /\ WF_all(WalkerStep) /\ WF_all(ApplyBulk) /\ WF_all(LiveEvent \/ LoseEvent)

-----------------------------------------------------------------------------
BackfillTypeOK ==
  /\ TypeOK
  /\ walker \in Walker
  /\ bulk \in Seq(PeerPatch) /\ Len(bulk) <= BulkCapacity
  /\ faults \in 0 .. MaxFaults

Known(s) == \E p \in Peers : Remote[p][s] # None

\* The slots a sweep that starts now walks over.
InSweep(s) == last_final # None /\ s[1] <= SweepHead(last_final[1])

\* No candidate is fresh: the live stream owns none of the rows under the head.
NoneFresh ==
  \A s \in Slots : InSweep(s) /\ row[s] # None /\ row[s].status = "Candidate"
    => SweepHead(last_final[1]) - s[1] >= StaleCandidatePeriods

\* The verdict is there, and the body that goes with it.
Filled(s) == IsFinal(row, s) /\ (row[s].is_miss \/ row[s].body)

(***************************************************************************)
(* No permanent hole: in the end every slot under the head that a peer     *)
(* holds as FINAL has its verdict and its body, although streams break,    *)
(* fetches fail and the indexer restarts with a queue full of patches      *)
(* (needs_fetch, run_backfill).  Candidates at the head are left to the    *)
(* live stream until they are stale, and with them what they build on.     *)
(***************************************************************************)
HolesHeal ==
  \A s \in Slots : <>[](NoneFresh /\ InSweep(s) /\ Known(s) => Filled(s))

\* Every sweep comes to its end, also when the bulk channel is full (run_backfill).
SweepsEnd == []<>(walker.pc = "idle")

\* The rechecks are armed, nothing else will come, and the rows above the
\* recheck ranges are those of the chain the peers hold.
ReadyToUnwind ==
  /\ walker = Idle(Armed) /\ bulk = <<>> /\ faults = 0
  /\ node_blocks = <<>> /\ node_execs = <<>>
  /\ last_final # None
  /\ \A s \in Slots : s[1] \notin RecheckPeriods /\ InSweep(s) => Filled(s)

Agreed(s) == \E p \in Peers : Remote[p][s] # None /\ IsFinal(row, s)
                              /\ VerdictOf(row[s]) = Named(Remote[p][s])

(***************************************************************************)
(* A dead-fork segment is unwound within the sweeps for which rechecks are *)
(* armed: "a slot can only be settled once the block the real chain        *)
(* rejoins on has been adopted" (run_backfill, arbitrate_verdicts).        *)
(***************************************************************************)
ForkUnwound ==
  ReadyToUnwind ~> \A s \in Slots : s[1] \in RecheckPeriods /\ Known(s) => Agreed(s)
=============================================================================
