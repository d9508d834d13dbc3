---------------------------- MODULE MCSlotIngest -----------------------------
(***************************************************************************)
(* Instances of SlotIngest.  One thread, periods 0..2: x and y compete for *)
(* slot 1, z and w for slot 2, z building on y and w on x.  The messages   *)
(* contradict each other on purpose: node, peers, legacy tables and        *)
(* operator disagree.                                                      *)
(***************************************************************************)
EXTENDS SlotLedger

CONSTANTS x, y, z, w, t1, t2, o1, m1, d1

S1 == <<1, 0>>
S2 == <<2, 0>>

MCBlockSlot == [b \in {x, y, z, w} |-> IF b \in {x, y} THEN S1 ELSE S2]
MCParents   == [b \in {x, y, z, w} |->
                  [t \in {0} |-> CASE b = z -> y [] b = w -> x [] OTHER -> None]]
MCBlockOps  == [b \in {x, y, z, w} |-> {o1} \cap Ops]

\* Messages with everything optional left out.
Exec(s, final, b, t) ==
  [slot |-> s, final |-> final, block |-> b, trail |-> t,
   ops |-> [o \in Ops |-> None], pool |-> [m \in AsyncIds |-> None]]
Xfers(s, v) ==
  [slot |-> s, verdict |-> v,
   async |-> [m \in AsyncIds |-> None], deferred |-> [d \in DeferredIds |-> None]]
Peer(s, b, t) ==
  [slot |-> s, is_miss |-> b = None, block |-> b, trail |-> t,
   body |-> FALSE, status |-> "Final", ops |-> [o \in Ops |-> None],
   exec |-> FALSE, executed |-> {}, async |-> [m \in AsyncIds |-> None],
   transfers |-> FALSE, async_moves |-> [m \in AsyncIds |-> None],
   deferred |-> [d \in DeferredIds |-> None],
   deferred_moves |-> [d \in DeferredIds |-> None]]
Legacy(s, b) ==
  [slot |-> s, is_miss |-> b = None, block |-> b, body |-> b # None,
   ops |-> [o \in Ops |-> None], executed |-> {}, transfers |-> b # None]
Force(s, b, t) == [slot |-> s, is_miss |-> b = None, block |-> b, trail |-> t]

-----------------------------------------------------------------------------
(* At slot 1 a node that follows x, peers that say y, x or miss; at slot 2  *)
(* a node that may be on either chain, legacy tables that know z or nothing *)
(* and an operator who forces a miss.  One operation, one async message and *)
(* one deferred call are touched by both slots.                             *)

AllExec ==
  {Exec(S1, FALSE, y, t2),
   [Exec(S1, TRUE, x, t1) EXCEPT !.ops = [o \in Ops |-> "Ok"],
                                 !.pool = [m \in AsyncIds |-> "Set"]],
   Exec(S1, TRUE, None, None),
   [Exec(S2, TRUE, z, t2) EXCEPT !.ops = [o \in Ops |-> "Failed"],
                                 !.pool = [m \in AsyncIds |-> "Delete"]],
   Exec(S2, TRUE, w, None)}
AllXfers ==
  {[Xfers(S1, x) EXCEPT !.deferred = [d \in DeferredIds |-> "Registered"]],
   [Xfers(S2, z) EXCEPT !.deferred = [d \in DeferredIds |-> "Executed"],
                        !.async = [m \in AsyncIds |-> "Executed"]],
   [Xfers(S2, Miss) EXCEPT !.deferred = [d \in DeferredIds |-> "Refund"]]}
AllPeer ==
  {[Peer(S1, x, t1) EXCEPT !.body = TRUE, !.exec = TRUE, !.transfers = TRUE,
      !.ops = [o \in Ops |-> [inclusions |-> {x, z}, cand |-> "Ok", fin |-> "Ok"]],
      !.async = [m \in AsyncIds |-> "Pending"],
      !.deferred = [d \in DeferredIds |-> "Registered"]],
   [Peer(S1, y, t2) EXCEPT !.body = TRUE, !.exec = TRUE, !.status = "SeenCandidate",
      !.ops = [o \in Ops |-> [inclusions |-> {}, cand |-> None, fin |-> None]]],
   Peer(S1, None, t2)}
AllLegacy == {Legacy(S2, z), Legacy(S2, None)}
AllForced == {Force(S2, None, None)}
=============================================================================
