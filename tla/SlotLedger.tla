----------------------------- MODULE SlotLedger ------------------------------
(***************************************************************************)
(* The ingestion implements the finality ledger: the entry of a slot is    *)
(* read off its row.                                                       *)
(***************************************************************************)
EXTENDS SlotIngest

ASSUME LedgerAssumption == "absent" \notin Verdicts /\ "pending" \notin Verdicts

Entry(r) ==
  IF r = None THEN "absent" ELSE IF r.status = "Final" THEN VerdictOf(r) ELSE "pending"

\* Every FINAL verdict some message states, and those a peer or an operator
\* may impose on a slot that has another one.
Imposed == {<<m.slot, Named(m)>> : m \in PeerPatches \cup ForcedVerdicts}
Stated  == {<<f.slot, FrameVerdict(f)>> : f \in {h \in ExecFrames : h.final}}
             \cup {<<m.slot, Named(m)>> : m \in LegacyPatches} \cup Imposed

Ledger == INSTANCE FinalityLedger WITH
            Absent <- "absent", Pending <- "pending",
            Claims <- Stated, Overrulings <- Imposed,
            ledger <- [s \in Slots |-> Entry(row[s])]

(***************************************************************************)
(* The slot rows written by every handler of ingest.rs and peer/patch.rs   *)
(* behave as the ledger: no source's event, however late or repeated,      *)
(* rewrites a verdict unless it is a peer's or the operator's, settles two *)
(* slots, takes a verdict back or invents one.                             *)
(***************************************************************************)
ImplementsLedger == Ledger!Spec
=============================================================================
