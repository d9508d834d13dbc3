----------------------------- MODULE RecentPages -----------------------------
(***************************************************************************)
(* /v1/operations/recent and /v1/blocks/recent (rest.rs): a client that    *)
(* follows `cursor_next' from the newest slot down while rows are written. *)
(*                                                                         *)
(* A request reads the slot table newest first, in batches, collects the   *)
(* items (operations or blocks) of each slot, and stops once it has enough *)
(* of them or has read max_slots rows.  `items' of a slot row stands for   *)
(* what its candidate and final blocks lead to; blocks and operations are  *)
(* never deleted.                                                          *)
(***************************************************************************)
EXTENDS IndexStore

CONSTANTS
  Limits,      \* the page sizes clients ask for, after limit_of
  MaxSlots,    \* max_slots of a request
  BatchSize    \* the largest batch of one iter_slots_desc

Elems(q) == {q[i] : i \in DOMAIN q}

ASSUME RecentAssumption ==
  /\ Limits \subseteq Nat \ {0} /\ MaxSlots \in Nat \ {0} /\ BatchSize \in Nat \ {0}
  \* A slot row is filed under its slot alone and leads to a list of items.
  /\ \A r \in Rows["slot"] : r.slot # None /\ r.items \in Seq(Elems(r.items))
  /\ \A r, q \in Rows["slot"] : r.slot = q.slot => r.n = q.n

(***************************************************************************)
(* pc: "idle" before the client begins, "ask" between requests, "scan"     *)
(* inside one, "done" when an answer came without a cursor.  cursor: the   *)
(* slot to resume after; after: the same inside the request; todo: rows of *)
(* the current batch; more: rows follow the batch; scanned: rows read;     *)
(* page: items met, in order (the answer has the first of each, `seen');   *)
(* got: items received; cut: history, items that a truncate threw away;    *)
(* touched: history, slots written since the start.                        *)
(***************************************************************************)
VARIABLE recent

RecentIdle ==
  [pc |-> "idle", limit |-> 1, cursor |-> None, after |-> None, todo |-> <<>>,
   more |-> FALSE, scanned |-> 0, page |-> <<>>, got |-> {}, cut |-> {}, touched |-> {}]

\* iter_slots_desc: the rows strictly below the cursor, newest first, and
\* whether there are more than the limit.
OlderThan(after) == {k \in Stored : after = None \/ k[1] < after}
Rank(keys, k)    == Cardinality({j \in keys : j[1] > k[1]}) + 1
IterSlotsDesc(after, limit) ==
  LET keys == OlderThan(after)
      n == IF Cardinality(keys) < limit THEN Cardinality(keys) ELSE limit
  IN  [items |-> [i \in 1 .. n |-> primary[CHOOSE k \in keys : Rank(keys, k) = i]],
       more  |-> Cardinality(keys) > limit]

\* The batch a request at `after' reads next.
NextBatch(r, after) ==
  LET left == MaxSlots - r.scanned
      page == IterSlotsDesc(after, IF left < BatchSize THEN left ELSE BatchSize)
  IN  [r EXCEPT !.pc = "scan", !.after = after, !.todo = page.items, !.more = page.more]

\* What truncate leaves: the items that fewer than `limit' others come before.
Kept(q, limit) ==
  {q[i] : i \in {j \in DOMAIN q : Cardinality(Elems(SubSeq(q, 1, j - 1))) < limit}}

\* The answer: at most `limit' items, and the cursor.
Answer(r, cursor) ==
  LET kept == Kept(r.page, r.limit)
  IN  [r EXCEPT !.pc = IF cursor = None THEN "done" ELSE "ask",
                !.cursor = cursor, !.after = None, !.todo = <<>>, !.more = FALSE,
                !.scanned = 0, !.page = <<>>,
                !.got = @ \cup kept, !.cut = @ \cup (Elems(r.page) \ kept)]

\* A request: the first one without a cursor.
AskRecent(limit) ==
  /\ table = "slot" /\ tool.pc = "off"
  /\ recent.pc = "idle" \/ (recent.pc = "ask" /\ limit = recent.limit)
  /\ recent' = NextBatch([recent EXCEPT !.limit = limit], recent.cursor)
  /\ UNCHANGED svars

\* Collect what the next row leads to; enough items end the request.
CollectSlot ==
  /\ recent.pc = "scan"
  /\ recent.todo # <<>>
  /\ LET r == Head(recent.todo)
         w == [recent EXCEPT !.todo = Tail(@), !.scanned = @ + 1,
                             !.after = r.slot, !.page = @ \o r.items]
     IN  recent' = IF Cardinality(Elems(w.page)) >= w.limit THEN Answer(w, r.slot) ELSE w
  /\ UNCHANGED svars

\* Mutant of BatchEnds: what max_slots cuts short is the end.
BatchEndsAtMax(r) ==
  IF ~r.more \/ r.scanned >= MaxSlots THEN Answer(r, None) ELSE NextBatch(r, r.after)

\* No rows left; max_slots read: hand out the cursor; or the next batch.
BatchEnds(r) ==
  IF ~r.more THEN Answer(r, None)
  ELSE IF r.scanned >= MaxSlots THEN Answer(r, r.after)
  ELSE NextBatch(r, r.after)

EndBatch ==
  /\ recent.pc = "scan"
  /\ recent.todo = <<>>
  /\ recent' = BatchEnds(recent)
  /\ UNCHANGED svars

RecentStep == (\E l \in Limits : AskRecent(l)) \/ CollectSlot \/ EndBatch

(***************************************************************************)
(* A client that follows the cursor chain to its end has received every    *)
(* item of every slot that did not change meanwhile, except items that a   *)
(* page had no room for (recent_operations, blocks_recent): batches and    *)
(* max_slots skip nothing.                                                 *)
(***************************************************************************)
RecentSkipsNothing ==
  recent.pc = "done" =>
    \A k \in Stored : k \notin recent.touched
      => Elems(primary[k].items) \subseteq recent.got \cup recent.cut

(***************************************************************************)
(* "larger result sets are traversed by following the `cursor_next' chain" *)
(* (rest.rs, PageQ) and "the next call resumes exactly after it"           *)
(* (recent_operations): the chain leaves no item out.                      *)
(***************************************************************************)
RecentComplete ==
  recent.pc = "done" =>
    \A k \in Stored : k \notin recent.touched
      => Elems(primary[k].items) \subseteq recent.got
=============================================================================
