--------------------------- MODULE MCConvergence -----------------------------
(***************************************************************************)
(* Instances of SlotConvergence: x won slot 1 against y, slot 2 was missed *)
(* although the block w was seen.                                          *)
(***************************************************************************)
EXTENDS SlotConvergence

CONSTANTS x, y, w, t1, t2, o1

S1 == <<1, 0>>
S2 == <<2, 0>>

MCBlockSlot == [b \in Blocks |-> IF b = w THEN S2 ELSE S1]
MCParents   == [b \in Blocks |-> [t \in {0} |-> IF b = w THEN y ELSE None]]
MCBlockOps  == [b \in Blocks |-> Ops]
MCTruth     == [s \in Slots |-> IF s = S1 THEN x ELSE IF s = S2 THEN Miss ELSE None]
NodeTruth   == [s \in Slots |-> IF s = S1 THEN x ELSE None]
MCTrail     == [s \in Slots |-> IF s = S1 THEN t1 ELSE t2]

Exec(s, final, b, t) ==
  [slot |-> s, final |-> final, block |-> b, trail |-> t,
   ops |-> [o \in Ops |-> None], pool |-> <<>>]
Xfers(s, v) == [slot |-> s, verdict |-> v, async |-> <<>>, deferred |-> <<>>]
Peer(s, b, t) ==
  [slot |-> s, is_miss |-> b = None, block |-> b, trail |-> t,
   body |-> b # None, status |-> "SeenCandidate", ops |-> [o \in Ops |-> None],
   exec |-> FALSE, executed |-> {}, async |-> <<>>, transfers |-> FALSE,
   async_moves |-> <<>>, deferred |-> <<>>, deferred_moves |-> <<>>]
Legacy(s, b) ==
  [slot |-> s, is_miss |-> b = None, block |-> b, body |-> b # None,
   ops |-> [o \in Ops |-> None], executed |-> {}, transfers |-> b # None]

AllExec == {Exec(S1, FALSE, y, None), Exec(S1, FALSE, x, t1), Exec(S1, TRUE, x, t1),
            Exec(S2, TRUE, None, t2)}
AllXfers == {Xfers(S1, x)}
AllPeer == {Peer(S1, x, t1), [Peer(S1, x, None) EXCEPT !.body = FALSE, !.exec = TRUE],
            Peer(S2, None, None)}
AllLegacy == {Legacy(S1, x)}
AllForced == {[slot |-> S2, is_miss |-> TRUE, block |-> None, trail |-> None]}

\* The node alone, with an operation that x executed.
NodeExec == {[Exec(S1, TRUE, x, t1) EXCEPT !.ops = [o \in Ops |-> "Ok"]]}

Nothing == {}
=============================================================================
