------------------------------ MODULE MCPages --------------------------------
(***************************************************************************)
(* Two rows at slot 1 and one at slot 2, or three ids.  Address a owns     *)
(* most rows; one transfer is from a to a.                                 *)
(***************************************************************************)
EXTENDS Pages

CONSTANTS a, b

Xfer(s, n, from, to) ==
  [slot |-> s, n |-> n, from |-> from, to |-> to, op |-> None, block |-> to]
Event(s, n, emitters, callers, op) ==
  [slot |-> s, n |-> n, emitters |-> emitters, callers |-> callers, op |-> op]
Den(n, s, addr) ==
  {[n |-> n, slot |-> s, addr |-> addr, included |-> i] : i \in BOOLEAN}
SlotRow(s, items) == [slot |-> s, n |-> 0, items |-> items]

MCRows == [t \in Tables |->
  CASE t = "transfer"     -> {Xfer(1, 0, a, a), Xfer(1, 0, b, None), Xfer(1, 1, a, b), Xfer(2, 0, b, a)}
    [] t = "event"        -> {Event(1, 0, {a, b}, {a}, None), Event(1, 1, {a}, {}, a),
                              Event(2, 0, {a}, {}, None)}
    [] t = "block"        -> {[n |-> i, slot |-> i, creator |-> a] : i \in 1 .. 3}
    [] t = "endorsement"  -> {[n |-> i, slot |-> 1, creator |-> a] : i \in 1 .. 2}
    [] t = "op"           -> {[n |-> 1, creator |-> a, target |-> a, first |-> f] : f \in {None, 1, 2}}
                             \cup {[n |-> 2, creator |-> a, target |-> None, first |-> 1]}
    [] t = "denunciation" -> Den(1, 1, a) \cup Den(2, 2, None)
    [] t = "async"        -> {[n |-> 1, sender |-> s, dest |-> a, last |-> 1] : s \in {a, b}}
                             \cup {[n |-> 2, sender |-> a, dest |-> None, last |-> 1]}
    [] t = "deferred"     -> {[n |-> 1, sender |-> a, target |-> a, last |-> l] : l \in 1 .. 2}
                             \cup {[n |-> 2, sender |-> a, target |-> a, last |-> 1]}
    [] t = "slot"         -> {SlotRow(1, <<1, 2>>), SlotRow(2, <<3>>), SlotRow(3, <<>>),
                              SlotRow(3, <<4, 5, 1>>)}]

MCBatches == [t \in SlotTables |->
  IF t = "transfer" THEN {<<Xfer(1, 0, a, a), Xfer(1, 1, a, b)>>, <<Xfer(2, 0, b, a)>>}
  ELSE {<<Event(1, 0, {a, b}, {a}, None), Event(1, 1, {a}, {}, a)>>, <<Event(2, 0, {a}, {}, None)>>}]
MCLegacy == {<<Xfer(1, 0, b, None)>>}
=============================================================================
