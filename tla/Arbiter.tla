------------------------------- MODULE Arbiter -------------------------------
(***************************************************************************)
(* The chain-linkage arbiter of peer/patch.rs: when a peer and the local   *)
(* rows disagree on the FINAL verdict of a slot, the parent links of the   *)
(* FINAL blocks around it decide.  Every operator is a function of the     *)
(* slot rows and of the block rows (a block has a row when its body is     *)
(* stored); nothing here changes state.                                    *)
(***************************************************************************)
EXTENDS SlotStore, FiniteSetsExt

CONSTANTS
  Lookaround,   \* LINKAGE_LOOKAROUND (512): how far to look for neighbours
  ReachBound    \* how many parent links reachable_via_parents follows (64)

Arbitrations == {"AdoptPeer", "KeepLocal", "Inconclusive"}

ASSUME ArbiterAssumption ==
  Lookaround \in Nat /\ ReachBound \in Nat /\ None \notin Arbitrations

\* Mutant of LaterFinals: the scan starts one period too late.
LaterFinalsSkipping(rows, s) ==
  {p \in (s[1] + 2) .. (s[1] + Lookaround) :
     p <= MaxPeriod /\ IsFinalBlock(rows, <<p, s[2]>>)}

\* The periods around s, in its thread, that the local rows finalised with a block.
LaterFinals(rows, s) ==
  {p \in (s[1] + 1) .. (s[1] + Lookaround) :
     p <= MaxPeriod /\ IsFinalBlock(rows, <<p, s[2]>>)}

EarlierFinals(rows, s) ==
  {p \in 0 .. (s[1] - 1) :
     p >= s[1] - Lookaround /\ IsFinalBlock(rows, <<p, s[2]>>)}

FinalAt(rows, s, p) == rows[<<p, s[2]>>].final

\* next_parent_link: what the first later FINAL block with a stored body names.
NextParentLink(rows, blocks, s) ==
  LET held == {p \in LaterFinals(rows, s) : blocks[FinalAt(rows, s, p)] # None}
  IN  IF held = {} THEN None ELSE Parents[FinalAt(rows, s, Min(held))][s[2]]

PrevFinalBlock(rows, s) ==
  LET earlier == EarlierFinals(rows, s)
  IN  IF earlier = {} THEN None ELSE FinalAt(rows, s, Max(earlier))

\* Mutant of DeadForkAnchor: the walk starts before the disputed slot.
DeadForkAnchorFromPrevious(rows, blocks, s, local) ==
  LET later == LaterFinals(rows, s)
      before(p) == LET q == {x \in later : x < p}
                   IN  IF q = {} THEN PrevFinalBlock(rows, s) ELSE FinalAt(rows, s, Max(q))
      parent(p) == Parents[FinalAt(rows, s, p)][s[2]]
      broken == {p \in later : /\ blocks[FinalAt(rows, s, p)] # None
                               /\ parent(p) # None
                               /\ parent(p) # before(p)}
  IN  IF broken = {} THEN None ELSE parent(Min(broken))

(***************************************************************************)
(* dead_fork_anchor: walking forward from s, the parent named by the first *)
(* FINAL block that does not name the FINAL block the rows put before it.  *)
(***************************************************************************)
DeadForkAnchor(rows, blocks, s, local) ==
  LET later == LaterFinals(rows, s)
      start == IF local = Miss THEN PrevFinalBlock(rows, s) ELSE local
      before(p) == LET q == {x \in later : x < p}
                   IN  IF q = {} THEN start ELSE FinalAt(rows, s, Max(q))
      parent(p) == Parents[FinalAt(rows, s, p)][s[2]]
      broken == {p \in later : /\ blocks[FinalAt(rows, s, p)] # None
                               /\ parent(p) # None
                               /\ parent(p) # before(p)}
  IN  IF broken = {} THEN None ELSE parent(Min(broken))

\* The n-th block on the parent path from anchor, through stored bodies only.
ParentPath(blocks, anchor, t) ==
  LET path[n \in 0 .. ReachBound] ==
        IF n = 0 THEN anchor
        ELSE IF path[n - 1] = None        THEN None
        ELSE IF blocks[path[n - 1]] = None THEN None
        ELSE Parents[path[n - 1]][t]
  IN  path

ReachableViaParents(blocks, anchor, target, t) ==
  \E n \in 0 .. (ReachBound - 1) : ParentPath(blocks, anchor, t)[n] = target

(***************************************************************************)
(* block_has_dead_parent: some parent whose body is stored sits at a slot  *)
(* that the rows finalised as a miss or with another block.                *)
(***************************************************************************)
HasDeadParent(rows, blocks, b) ==
  \E t \in Threads :
    LET p == Parents[b][t] IN
    /\ p # None
    /\ blocks[p] # None
    /\ IsFinal(rows, BlockSlot[p])
    /\ rows[BlockSlot[p]].is_miss \/ rows[BlockSlot[p]].final # p

ArbitrateInDeadFork(blocks, s, local, peer, anchor) ==
  IF peer = Miss
    THEN IF local = Miss THEN "KeepLocal" ELSE "AdoptPeer"
    ELSE IF peer = anchor \/ ReachableViaParents(blocks, anchor, peer, s[2])
           THEN "AdoptPeer"
           ELSE "Inconclusive"

\* What the next FINAL block's parent link says by itself, None if nothing.
ImmediateLink(rows, blocks, s, local, peer, next) ==
  IF peer # Miss /\ next = peer THEN "AdoptPeer"
  ELSE IF local # Miss /\ next = local THEN "KeepLocal"
  ELSE IF peer = Miss /\ PrevFinalBlock(rows, s) = next THEN "AdoptPeer"
  ELSE None

(***************************************************************************)
(* arbitrate_verdicts.  `shipped' says whether the peer sent its block, so *)
(* that the parents of the peer's block can be looked at too.              *)
(***************************************************************************)
Arbitrate(rows, blocks, s, local, peer, shipped) ==
  LET next   == NextParentLink(rows, blocks, s)
      link   == ImmediateLink(rows, blocks, s, local, peer, next)
      anchor == DeadForkAnchor(rows, blocks, s, local)
  IN  IF local = peer THEN "KeepLocal"
      ELSE IF shipped /\ peer # Miss /\ HasDeadParent(rows, blocks, peer)
        THEN "KeepLocal"
      ELSE IF local # Miss /\ blocks[local] # None /\ HasDeadParent(rows, blocks, local)
        THEN "AdoptPeer"
      ELSE IF next = None THEN "Inconclusive"
      ELSE IF link = "AdoptPeer" THEN "AdoptPeer"
      ELSE IF anchor # None
        THEN ArbitrateInDeadFork(blocks, s, local, peer, anchor)
      ELSE IF link = "KeepLocal" THEN "KeepLocal"
      ELSE "Inconclusive"
=============================================================================
