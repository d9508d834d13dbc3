-------------------------------- MODULE Pages --------------------------------
(***************************************************************************)
(* The paginated REST routes over the secondary indexes (rest.rs) and the  *)
(* iter_* scans of the store they call (db.rs): a client that follows      *)
(* `cursor_next' from page to page while the writer goes on.               *)
(*                                                                         *)
(* An index iterator sees the entries there were when it was opened; the   *)
(* row behind an entry is read when the scan comes to it.  A request that  *)
(* a crash or a restart cuts off is asked again with the same cursor.      *)
(***************************************************************************)
EXTENDS RecentPages

CONSTANT Owners   \* the addresses and operations clients ask about

(***************************************************************************)
(* A scan: its column family and prefix, and what it does with an entry:   *)
(* "ids" takes the id it ends in, "rows" reads the row and skips an entry  *)
(* without one, "addr" does so once per row, "primary" walks the rows      *)
(* themselves.                                                             *)
(***************************************************************************)
Scan(cf, owner, how) == [cf |-> cf, owner |-> owner, how |-> how]

ScanPrefixForwardIds(cf, a)   == Scan(cf, a, "ids")
IterScEventsWithPrefix(cf, a) == Scan(cf, a, "rows")
IterTransfersViaIdx(cf, a)    == Scan(cf, a, "rows")
IterTransfersByAddr(a)        == Scan("transfer_by_addr", a, "addr")
IterDenunciationsByAddr(a)    == Scan("denunciation_by_addr", a, "rows")
IterDenunciationsRecent       == Scan("denunciation_recent", None, "rows")
IterAsyncByAddr(cf, a)        == Scan(cf, a, "rows")
IterDeferredByAddr(cf, a)     == Scan(cf, a, "rows")
IterScEventsForSlot(s)        == Scan("primary", s, "primary")
IterAllAsync                  == Scan("primary", None, "primary")
IterAllDeferred               == Scan("primary", None, "primary")

\* The routes, by role where there is one.
BlocksByAddr(a)       == {ScanPrefixForwardIds("block_by_creator", a)}
OpsByAddr(a)          == {ScanPrefixForwardIds("op_by_creator", a),
                          ScanPrefixForwardIds("op_by_target", a)}
ReceivedOpsByAddr(a)  == {ScanPrefixForwardIds("op_by_target", a)}
AddrEndorsements(a)   == {ScanPrefixForwardIds("endorsement_by_creator", a)}
AddrDenunciations(a)  == {IterDenunciationsByAddr(a)}
DenunciationsRecent   == {IterDenunciationsRecent}
AddrTransfers(a)      == {IterTransfersByAddr(a)}
OpTransfers(o)        == {IterTransfersViaIdx("transfer_by_op", o)}
AddrEvents(a)         == {IterScEventsWithPrefix("sc_event_by_emitter", a),
                          IterScEventsWithPrefix("sc_event_by_caller", a)}
OpEvents(o)           == {IterScEventsWithPrefix("sc_event_by_op", o)}
SlotEvents(s)         == {IterScEventsForSlot(s)}
AddrAsync(a)          == {IterAsyncByAddr("async_by_sender", a),
                          IterAsyncByAddr("async_by_dest", a)}
AddrDeferred(a)       == {IterDeferredByAddr("deferred_by_sender", a),
                          IterDeferredByAddr("deferred_by_target", a)}
AsyncList             == {IterAllAsync}
DeferredList          == {IterAllDeferred}

Routes ==
  CASE table = "block"        -> UNION {BlocksByAddr(a) : a \in Owners}
    [] table = "op"           -> UNION {OpsByAddr(a) \cup ReceivedOpsByAddr(a) : a \in Owners}
    [] table = "endorsement"  -> UNION {AddrEndorsements(a) : a \in Owners}
    [] table = "denunciation" -> (UNION {AddrDenunciations(a) : a \in Owners})
                                 \cup DenunciationsRecent
    [] table = "transfer"     -> UNION {AddrTransfers(a) \cup OpTransfers(a) : a \in Owners}
    [] table = "event"        -> (UNION {AddrEvents(a) \cup OpEvents(a) : a \in Owners})
                                 \cup (UNION {SlotEvents(s) : s \in RowSlots})
    [] table = "async"        -> (UNION {AddrAsync(a) : a \in Owners}) \cup AsyncList
    [] table = "deferred"     -> (UNION {AddrDeferred(a) : a \in Owners}) \cup DeferredList
    [] table = "slot"         -> {}

\* No key is an absent value.
ASSUME KeyAssumption ==
  \A t \in Tables : \A r \in Rows[t] :
    /\ None \notin KeysOf(t, r)
    /\ \A o \in {None, PrimaryKey(t, r)[1]} :
         None # Entry("primary", o, PrimaryKey(t, r)[1], PrimaryKey(t, r)[2], 0)

-----------------------------------------------------------------------------
\* Keys under one prefix sort newest slot first, then by index or id, then by tag.
Before(e, f) ==
  \/ e.slot > f.slot
  \/ e.slot = f.slot /\ e.n < f.n
  \/ e.slot = f.slot /\ e.n = f.n /\ e.tag < f.tag

\* The entries under the prefix of a scan.
Under(scan) ==
  IF scan.how = "primary"
    THEN {Entry("primary", scan.owner, k[1], k[2], 0) :
            k \in {j \in Stored : scan.owner \in {None, j[1]}}}
    ELSE {e \in index : e.cf = scan.cf /\ e.owner = scan.owner}

\* The entries under the prefix that the rows, as they are, call for.
Called(scan) ==
  IF scan.how = "primary" THEN Under(scan)
  ELSE {e \in Exact : e.cf = scan.cf /\ e.owner = scan.owner}

(***************************************************************************)
(* pc: "idle", "ask" between requests, "scan" inside one, "done".  scan:   *)
(* the route; cursor: the key to resume after; todo: what the iterator has *)
(* still to yield; last: last_key; page: rows collected; seen: seen_keys;  *)
(* got: rows received; twice: received again; touched: history, rows       *)
(* written or deleted since the start; sound: history, no rebuild since.   *)
(***************************************************************************)
VARIABLE walk

WalkIdle ==
  [pc |-> "idle", scan |-> None, limit |-> 1, cursor |-> None, todo |-> {},
   last |-> None, page |-> {}, seen |-> {}, got |-> {}, twice |-> {},
   touched |-> {}, sound |-> TRUE]

pvars == <<svars, recent, walk>>

PagesInit == StoreInit /\ recent = RecentIdle /\ walk = WalkIdle

\* Iteration resumes strictly past the cursor.
PastCursor(cursor, e) == cursor = None \/ Before(cursor, e)

Open(w, scan, limit) ==
  [w EXCEPT !.pc = "scan", !.scan = scan, !.limit = limit,
            !.todo = {e \in Under(scan) : PastCursor(w.cursor, e)},
            !.last = None, !.page = {}, !.seen = {}]

OpenWalk(scan, limit) ==
  /\ walk.pc = "idle"
  /\ tool.pc = "off" /\ intact
  /\ walk' = Open(walk, scan, limit)
  /\ UNCHANGED <<svars, recent>>

NextPage ==
  /\ walk.pc = "ask"
  /\ tool.pc = "off"
  /\ walk' = Open(walk, walk.scan, walk.limit)
  /\ UNCHANGED <<svars, recent>>

IsFirst(e, es) == \A f \in es \ {e} : Before(e, f)

\* The page goes to the client, with the cursor of the next one or without.
Deliver(w, cursor) ==
  [w EXCEPT !.pc = IF cursor = None THEN "done" ELSE "ask",
            !.cursor = cursor, !.todo = {}, !.last = None, !.page = {}, !.seen = {},
            !.got = @ \cup w.page, !.twice = @ \cup (w.got \cap w.page)]

\* The row behind the entry is there: it is collected.
Collected(w, e) ==
  [w EXCEPT !.todo = @ \ {e}, !.last = e, !.page = @ \cup {Target(table, e)}]

\* Mutant of AddrEntry: a row that was seen ends the page.
AddrEntryStops(w, e) ==
  LET k == Target(table, e) IN
  IF k \in w.seen THEN [w EXCEPT !.todo = {}, !.last = e]
  ELSE IF primary[k] = None THEN [w EXCEPT !.todo = @ \ {e}, !.seen = @ \cup {k}]
  ELSE [Collected(w, e) EXCEPT !.seen = @ \cup {k}]

\* iter_transfers_by_addr: both sides of a transfer are filed, one is taken.
AddrEntry(w, e) ==
  LET k == Target(table, e) IN
  IF k \in w.seen THEN [w EXCEPT !.todo = @ \ {e}, !.last = e]
  ELSE IF primary[k] = None THEN [w EXCEPT !.todo = @ \ {e}, !.seen = @ \cup {k}]
  ELSE [Collected(w, e) EXCEPT !.seen = @ \cup {k}]

\* Mutant of RowEntry: the row is waited for.
RowEntryWaits(w, e) == IF primary[Target(table, e)] = None THEN w ELSE Collected(w, e)

\* An entry whose row is gone is passed over.
RowEntry(w, e) ==
  IF primary[Target(table, e)] = None THEN [w EXCEPT !.todo = @ \ {e}] ELSE Collected(w, e)

ScanEntry ==
  /\ walk.pc = "scan"
  /\ walk.todo # {}
  /\ Cardinality(walk.page) < walk.limit
  /\ \E e \in walk.todo :
       /\ IsFirst(e, walk.todo)
       /\ walk' = CASE walk.scan.how \in {"ids", "primary"} -> Collected(walk, e)
                    [] walk.scan.how = "rows"               -> RowEntry(walk, e)
                    [] walk.scan.how = "addr"               -> AddrEntry(walk, e)
  /\ UNCHANGED <<svars, recent>>

\* One more entry is there and the page is full, or the iterator is at its end.
EndPage ==
  /\ walk.pc = "scan"
  /\ walk.todo = {} \/ Cardinality(walk.page) >= walk.limit
  /\ walk' = Deliver(walk, IF walk.todo = {} THEN None ELSE walk.last)
  /\ UNCHANGED <<svars, recent>>

WalkStep ==
  \/ \E scan \in Routes, l \in Limits : OpenWalk(scan, l)
  \/ NextPage \/ ScanEntry \/ EndPage

-----------------------------------------------------------------------------
(* The store goes on underneath; a stop of the server cuts requests off. *)

Changed == {k \in DOMAIN primary : primary'[k] # primary[k]}

Noted(w) ==
  IF w.pc = "idle" THEN w
  ELSE [w EXCEPT !.touched = @ \cup Changed, !.sound = @ /\ intact']

CutOff(w) ==
  [w EXCEPT !.pc = IF @ = "scan" THEN "ask" ELSE @,
            !.todo = {}, !.last = None, !.page = {}, !.seen = {}]

NotedRecent(r) == IF r.pc = "idle" THEN r ELSE [r EXCEPT !.touched = @ \cup Changed]

CutOffRecent(r) ==
  [r EXCEPT !.pc = IF @ = "scan" THEN "ask" ELSE @,
            !.after = None, !.todo = <<>>, !.more = FALSE, !.scanned = 0, !.page = <<>>]

Underneath ==
  \/ StoreRuns /\ walk' = Noted(walk) /\ recent' = NotedRecent(recent)
  \/ StoreStops /\ walk' = CutOff(Noted(walk)) /\ recent' = CutOffRecent(NotedRecent(recent))

PagesNext == WalkStep \/ (RecentStep /\ UNCHANGED walk) \/ Underneath

(***************************************************************************)
(* The client goes on asking and the server answers what it is asked.      *)
(***************************************************************************)
PagesSpec ==
  /\ PagesInit /\ [][PagesNext]_pvars
  /\ WF_pvars(RecentStep /\ UNCHANGED walk)
  /\ WF_pvars(NextPage \/ ScanEntry \/ EndPage)
  /\ WF_pvars(Underneath /\ tool.pc # "off")

-----------------------------------------------------------------------------
\* Both sides of the transfer belong to the prefix.
SelfTransfer(k) == walk.scan.how = "addr" /\ primary[k] # None
                   /\ primary[k].from = primary[k].to

(***************************************************************************)
(* Following the cursor chain to its end returns every row that the prefix *)
(* owns and that did not change meanwhile, and returns it once, save a     *)
(* transfer to oneself: it has two entries, they are told apart within a   *)
(* page only, and a page may end between them.  The code departs there     *)
(* from what it says ("shows up once", iter_transfers_by_addr).  What else *)
(* is returned changed meanwhile or is filed under an entry a legacy row   *)
(* left behind (the iter_* scans: exclusive resume, cursor of the last     *)
(* kept row).                                                              *)
(***************************************************************************)
WalkFaithful ==
  walk.pc = "done" /\ walk.sound =>
    LET owned == {Target(table, e) : e \in Called(walk.scan)} IN
    /\ owned \ walk.touched \subseteq walk.got
    /\ \A k \in walk.twice \ walk.touched :
         SelfTransfer(k) \/ \E e \in stale : Target(table, e) = k
    /\ walk.got \ walk.touched \subseteq owned \cup {Target(table, e) : e \in stale}

(***************************************************************************)
(* Unless the server goes down again and again, the chain of cursors comes *)
(* to an end, whatever is written meanwhile (Page::next_cursor).           *)
(***************************************************************************)
WalksEnd ==
  <>[][~StoreStops]_pvars
    => []<>(walk.pc \in {"idle", "done"} /\ recent.pc \in {"idle", "done"})
=============================================================================
