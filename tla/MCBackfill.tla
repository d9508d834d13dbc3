---------------------------- MODULE MCBackfill -------------------------------
(***************************************************************************)
(* One thread, periods 0..3.  The chain is g - c - b - d; the node followed*)
(* a fork g - f1 - f2 for two periods before it rejoined the chain at d,   *)
(* and its streams may drop anything.  Peer p1 holds the whole chain, peer *)
(* q1, which only has a session, the two slots of the fork.                *)
(***************************************************************************)
EXTENDS Backfill

CONSTANTS g, c, b, d, f1, f2, p1, q1

MCPeriod(k) == CASE k = g -> 0 [] k \in {c, f1} -> 1 [] k \in {b, f2} -> 2 [] k = d -> 3
MCParent(k) == CASE k = g -> None [] k \in {c, f1} -> g [] k = b -> c
                 [] k = f2 -> f1 [] k = d -> b
MCBlockSlot == [k \in {g, c, b, d, f1, f2} |-> <<MCPeriod(k), 0>>]
MCParents   == [k \in {g, c, b, d, f1, f2} |-> [t \in {0} |-> MCParent(k)]]
MCBlockOps  == [k \in {g, c, b, d, f1, f2} |-> {}]

Frame(k) ==
  [slot |-> MCBlockSlot[k], final |-> TRUE, block |-> k, trail |-> None,
   ops |-> <<>>, pool |-> <<>>]
Held(k) ==
  [slot |-> MCBlockSlot[k], is_miss |-> FALSE, block |-> k, trail |-> None,
   body |-> TRUE, status |-> "Final", ops |-> <<>>,
   exec |-> TRUE, executed |-> {}, async |-> <<>>, transfers |-> TRUE,
   async_moves |-> <<>>, deferred |-> <<>>, deferred_moves |-> <<>>]

MCExecFrames  == {Frame(f1), Frame(f2), Frame(d)}
MCPeerPatches == {Held(g), Held(c), Held(b), Held(d)}
Nothing       == {}

MCBlockStream == <<f1, f2, d>>
MCExecStream  == <<Frame(f1), Frame(f2), Frame(d)>>

Chain == <<g, c, b, d>>
MCRemote == [r \in {p1, q1} |-> [s \in Slots |->
               IF r = p1 \/ s[1] \in {1, 2} THEN Held(Chain[s[1] + 1]) ELSE None]]
MCRemoteRows == [r \in {p1, q1} |-> Slots]
=============================================================================
