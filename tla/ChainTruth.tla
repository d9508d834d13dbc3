----------------------------- MODULE ChainTruth ------------------------------
(***************************************************************************)
(* The arbiter against the chain.  Each chain of Chains may be the         *)
(* canonical one.  The node may finalise anything, in any order, and peers *)
(* may claim anything: the properties say what arbitrate_verdicts answers  *)
(* when the rows around the disputed slot are those of a chain.            *)
(***************************************************************************)
EXTENDS SlotIngest

CONSTANT Chains   \* chain[s]: the verdict of slot s on this chain

\* The last period before s in which the chain has a block in the thread of s.
IsPrevious(chain, s, q) ==
  /\ q \in 0 .. (s[1] - 1)
  /\ chain[<<q, s[2]>>] # Miss
  /\ \A p \in (q + 1) .. (s[1] - 1) : chain[<<p, s[2]>>] = Miss

(***************************************************************************)
(* What makes a sequence of verdicts a chain of Massa: a block sits at its *)
(* slot, names only blocks of the chain as parents, and names the chain's  *)
(* last block before it as the parent in its own thread.                   *)
(***************************************************************************)
IsChain(chain) ==
  \A s \in Slots : chain[s] # Miss =>
    /\ BlockSlot[chain[s]] = s
    /\ \A t \in Threads : LET p == Parents[chain[s]][t]
                          IN  p # None => chain[BlockSlot[p]] = p
    /\ s[1] > 0 => \E q \in 0 .. (s[1] - 1) :
         IsPrevious(chain, s, q) /\ Parents[chain[s]][s[2]] = chain[<<q, s[2]>>]

ASSUME ChainAssumption ==
  /\ Chains \subseteq [Slots -> Verdicts]
  /\ \A chain \in Chains : IsChain(chain)

-----------------------------------------------------------------------------
\* The row of s, once FINAL, has the verdict of the chain.
RowTrue(chain, s) == IsFinal(row, s) => VerdictOf(row[s]) = chain[s]

\* No open slot between s and a later FINAL one of its thread.
NoGapAfter(s) ==
  \A p \in s[1] .. MaxPeriod : IsFinal(row, <<p, s[2]>>) =>
    \A q \in s[1] .. p : IsFinal(row, <<q, s[2]>>)

Answer(m) == Arbitrate(row, block, m.slot, VerdictOf(row[m.slot]), Named(m), m.body)

(***************************************************************************)
(* An indexer that holds the truth cannot be talked out of it: if every    *)
(* FINAL row agrees with the canonical chain and the rows after the slot   *)
(* have no gap, arbitrate_verdicts never sides with a wrong peer, whatever *)
(* bodies are stored.                                                      *)
(***************************************************************************)
TruthKept ==
  \A chain \in Chains, m \in PeerPatches :
    /\ \A s \in Slots : RowTrue(chain, s)
    /\ IsFinal(row, m.slot)
    /\ NoGapAfter(m.slot)
    /\ Named(m) # chain[m.slot]
    => Answer(m) # "AdoptPeer"

(***************************************************************************)
(* The arbiter repairs a dead fork from its newest slot down: if the local *)
(* verdict is wrong, the rows after it are those of the canonical chain    *)
(* without a gap and the first block among them is stored, then a peer     *)
(* with the right verdict is adopted, unless its block builds on a stored  *)
(* block that the local rows still call dead (arbitrate_verdicts).         *)
(***************************************************************************)
NewestDeadYields ==
  \A chain \in Chains, m \in PeerPatches :
    /\ IsFinal(row, m.slot)
    /\ VerdictOf(row[m.slot]) # chain[m.slot]
    /\ Named(m) = chain[m.slot]
    /\ \A p \in (m.slot[1] + 1) .. MaxPeriod : RowTrue(chain, <<p, m.slot[2]>>)
    /\ NoGapAfter(m.slot)
    /\ LET later == LaterFinals(row, m.slot)
       IN  later # {} /\ block[FinalAt(row, m.slot, Min(later))] # None
    /\ ~m.is_miss => ~HasDeadParent(row, block, m.block)
    => Answer(m) = "AdoptPeer"
=============================================================================
