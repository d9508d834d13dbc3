--------------------------- MODULE FinalityLedger ----------------------------
(***************************************************************************)
(* What the ingestion promises its readers about finality, without any of  *)
(* the machinery: per slot, a ledger entry that is absent, then open, then *)
(* a verdict.  A verdict is only ever one that some source stated; it is   *)
(* written once, and replaced only by a source entitled to overrule.  One  *)
(* step settles at most one slot.                                          *)
(***************************************************************************)
CONSTANTS
  Slots, Verdicts,
  Absent,        \* nothing is known of the slot
  Pending,       \* the slot is known, its verdict is not
  Claims,        \* the pairs <<slot, verdict>> that some source states
  Overrulings    \* the claims that may replace another verdict

VARIABLE ledger

LedgerType == ledger \in [Slots -> Verdicts \cup {Absent, Pending}]

Init == ledger = [s \in Slots |-> Absent]

\* The entries after the slots of S became known.
Noted(S) == [s \in Slots |-> IF s \in S /\ ledger[s] = Absent THEN Pending ELSE ledger[s]]

\* An event about s may also reveal one other slot (its parent).
Note(s, q) == ledger' = Noted({s, q})

Finalise(s, q, v) ==
  /\ <<s, v>> \in Claims
  /\ ledger[s] \in {Absent, Pending}
  /\ ledger' = [Noted({s, q}) EXCEPT ![s] = v]

Overrule(s, q, v) ==
  /\ <<s, v>> \in Overrulings
  /\ ledger[s] \notin {Absent, Pending, v}
  /\ ledger' = [Noted({s, q}) EXCEPT ![s] = v]

Next ==
  \E s, q \in Slots :
    \/ Note(s, q)
    \/ \E v \in Verdicts : Finalise(s, q, v) \/ Overrule(s, q, v)

Spec == Init /\ [][Next]_ledger
=============================================================================
