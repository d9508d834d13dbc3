----------------------------- MODULE MCArbiter -------------------------------
(***************************************************************************)
(* An instance of ChainTruth.  One thread, periods 0..3.  The blocks       *)
(* g - c - b - d form one possible canonical chain, g - c - e another one  *)
(* in which slot 2 was missed; f1 - f2 is a fork on top of g that a node   *)
(* may have finalised for two periods before it rejoined the chain.  The   *)
(* node may finalise anything, in any order, and peers may claim anything. *)
(***************************************************************************)
EXTENDS ChainTruth

CONSTANTS g, c, b, d, e, f1, f2

At(p) == <<p, 0>>

Period(k) == CASE k = g -> 0 [] k \in {c, f1} -> 1 [] k \in {b, f2} -> 2
               [] k \in {d, e} -> 3
Parent(k) == CASE k = g -> None [] k \in {c, f1} -> g [] k \in {b, e} -> c
               [] k = f2 -> f1 [] k = d -> b

MCBlockSlot == [k \in {g, c, b, d, e, f1, f2} |-> At(Period(k))]
MCParents   == [k \in {g, c, b, d, e, f1, f2} |-> [t \in {0} |-> Parent(k)]]
MCBlockOps  == [k \in {g, c, b, d, e, f1, f2} |-> {}]

\* The canonical chain, if it is the one that ends in d or in e.
MCChains == {[s \in Slots |-> <<g, c, b, d>>[s[1] + 1]],
             [s \in Slots |-> <<g, c, Miss, e>>[s[1] + 1]]}

Exec(p, k) ==
  [slot |-> At(p), final |-> TRUE, block |-> k, trail |-> None,
   ops |-> <<>>, pool |-> <<>>]
Peer(p, k) ==
  [slot |-> At(p), is_miss |-> k = None, block |-> k, trail |-> None,
   body |-> k # None, status |-> "Final", ops |-> <<>>,
   exec |-> FALSE, executed |-> {}, async |-> <<>>, transfers |-> FALSE,
   async_moves |-> <<>>, deferred |-> <<>>, deferred_moves |-> <<>>]

ForkExec == {Exec(0, g), Exec(1, c), Exec(1, f1), Exec(2, b), Exec(2, f2),
             Exec(2, None), Exec(3, d), Exec(3, e)}
ForkPeer == {Peer(1, c), Peer(1, f1), Peer(1, None), Peer(2, b), Peer(2, f2),
             Peer(2, None)}
Nothing == {}
=============================================================================
