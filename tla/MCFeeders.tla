------------------------------ MODULE MCFeeders ------------------------------
(***************************************************************************)
(* One thread: period 0 is a miss, a and b are history, c is what the node *)
(* streams.  The legacy tables hold a and b, a peer holds b with           *)
(* everything.  And two threads of one period: the node streams b and then *)
(* e1, which the decommissioned tables do not hold.                        *)
(***************************************************************************)
EXTENDS Feeders

CONSTANTS a, b, c, e1, o1, o2

MCSlot(k)   == CASE k = a -> <<1, 0>> [] k = b -> <<MaxPeriod - 1, 0>>
                 [] k = c -> <<MaxPeriod, 0>> [] k = e1 -> <<MaxPeriod - 1, 1>>
MCBlockSlot == [k \in Blocks |-> MCSlot(k)]
MCParents   == [k \in Blocks |-> [t \in Threads |-> None]]
MCBlockOps  == [k \in Blocks |-> IF k \in {a, b} THEN Ops ELSE {}]
MCChain     == [s \in Slots |-> IF \E k \in Blocks : MCSlot(k) = s
                                  THEN CHOOSE k \in Blocks : MCSlot(k) = s ELSE Miss]
MCOpKind    == [o \in Ops |-> IF o = o1 THEN "Transaction" ELSE "CallSc"]

Output(k) ==
  [slot |-> MCSlot(k), final |-> TRUE, block |-> k, trail |-> None,
   ops |-> [o \in Ops |-> None], pool |-> <<>>]
List(k) == [slot |-> MCSlot(k), verdict |-> k, async |-> <<>>, deferred |-> <<>>]
Archived(k) ==
  [slot |-> MCSlot(k), is_miss |-> FALSE, block |-> k, body |-> TRUE,
   ops |-> [o \in Ops |-> None], executed |-> {}, transfers |-> TRUE]
Held(k) ==
  [slot |-> MCSlot(k), is_miss |-> FALSE, block |-> k, trail |-> None,
   body |-> TRUE, status |-> "Final", ops |-> [o \in Ops |-> None],
   exec |-> TRUE, executed |-> {}, async |-> <<>>, transfers |-> TRUE,
   async_moves |-> <<>>, deferred |-> <<>>, deferred_moves |-> <<>>]

MCExecFrames     == {Output(k) : k \in Blocks}
MCTransferFrames == {List(k) : k \in Blocks}
MCPeerPatches    == {Held(b)}
MCLegacyPatches  == {Archived(k) : k \in {a, b} \cap Blocks}
MCForced         == {[slot |-> <<0, 0>>, is_miss |-> TRUE, block |-> None, trail |-> None]}
Nothing          == {}

MCLegacy     == [s \in Slots |-> IF MCChain[s] \in {a, b} THEN Archived(MCChain[s]) ELSE None]
MCRemote     == [s \in Slots |-> IF MCChain[s] = b THEN Held(b) ELSE None]
MCLegacySubs == {MCSlot(b)}
NoLegacy     == [s \in Slots |-> None]

\* What the node streams.
Whole == [block |-> <<c>>, exec |-> <<Output(c)>>, transfers |-> <<List(c)>>]
Exec(k) == [block |-> <<>>, exec |-> <<Output(k)>>, transfers |-> <<>>]
TwoThreads == [block |-> <<>>, exec |-> <<Output(b), Output(e1)>>, transfers |-> <<>>]

-----------------------------------------------------------------------------
(* Databases. *)

Empty ==
  [row |-> [s \in Slots |-> None], block |-> [k \in Blocks |-> None],
   op |-> [o \in Ops |-> None], events |-> [s \in Slots |-> None], last_final |-> None]

\* The node finalised b, whose body never came.
NoBody ==
  [Empty EXCEPT
     !.row = [s \in Slots |->
        IF s = MCSlot(b) THEN [FreshRow EXCEPT !.status = "Final", !.final = b,
                                               !.exec_final = TRUE]
        ELSE IF s = MCSlot(a) THEN FreshRow ELSE None],
     !.events[MCSlot(b)] = b, !.last_final = MCSlot(b)]

\* The node finalised a and b, without its transfers stream.
NoTransfers ==
  [row |-> [s \in Slots |->
     IF s \in {MCSlot(a), MCSlot(b)}
       THEN [FreshRow EXCEPT !.status = "Final", !.final = MCChain[s],
               !.candidates = {MCChain[s]}, !.executed = Ops,
               !.body = TRUE, !.exec_final = TRUE]
       ELSE IF s = <<0, 0>> THEN FreshRow ELSE None],
   block |-> [k \in Blocks |-> IF k \in {a, b} THEN "Final" ELSE None],
   op |-> [o \in Ops |-> [inclusions |-> {a, b}, cand |-> "Ok", fin |-> "Ok"]],
   events |-> [s \in Slots |-> IF s \in {MCSlot(a), MCSlot(b)} THEN MCChain[s] ELSE None],
   last_final |-> MCSlot(b)]

Boot(tasks, db, streams) == [tasks |-> tasks, db |-> db, streams |-> streams]

MCBoots ==
  {Boot({"import"}, Empty, Whole), Boot({"import", "pull"}, NoBody, Exec(c)),
   Boot({"reconstruct"}, NoTransfers, Exec(c)), Boot({"legacy_sub"}, NoTransfers, Exec(c)),
   Boot({"pull"}, NoTransfers, Exec(c))}
FreshBoot == {Boot({"import"}, Empty, TwoThreads)}

\* A window that max_period ends is one the tables cover.
ASSUME WindowAssumption == ImportMax # None => TablesCover
=============================================================================
