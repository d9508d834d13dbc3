--------------------------- MODULE SlotConvergence ---------------------------
(***************************************************************************)
(* Order independence.  The two lanes of the writer, the three node        *)
(* streams, the peers and the importer deliver the messages about a slot   *)
(* in any order, each any number of times.  Here every message is a step,  *)
(* also one the handler ignores, and `seen' remembers what was delivered,  *)
(* so that the rows can be compared with a reference that only depends on  *)
(* the set of messages.                                                    *)
(***************************************************************************)
EXTENDS SlotIngest

CONSTANTS
  Truth,      \* Truth[s]: the verdict of s on the chain, None if s is not used
  TrueTrail   \* TrueTrail[s]: the trail hash of the execution that gave it

VARIABLE seen

ASSUME TruthAssumption ==
  /\ Truth \in [Slots -> Verdicts \cup {None}]
  /\ \A s \in Slots : Truth[s] # None => TrueTrail[s] \in Trails

-----------------------------------------------------------------------------
(* The sources agree with the chain. *)

\* Every FINAL source says what the chain says of s, and the node does say it.
FinalSourcesAgree(s) ==
  /\ \E f \in ExecFrames : f.slot = s /\ f.final
  /\ \A f \in ExecFrames : f.slot = s /\ f.final =>
       FrameVerdict(f) = Truth[s] /\ f.trail = TrueTrail[s]
  /\ \A f \in TransferFrames : f.slot = s => f.verdict = Truth[s]
  /\ \A m \in PeerPatches \cup LegacyPatches \cup ForcedVerdicts :
       m.slot = s => Named(m) = Truth[s]
  /\ \A m \in PeerPatches \cup ForcedVerdicts :
       m.slot = s => m.trail \in {None, TrueTrail[s]}

\* The CANDIDATE frames of s carry no trail hash or that of the FINAL execution.
CandidateTrailsAgree(s) ==
  \A f \in ExecFrames : f.slot = s => f.trail \in {None, TrueTrail[s]}

\* Every patch that may finalise s brings the trail hash along.
PatchesCarryTrail(s) ==
  /\ ~LegacyAt(s)
  /\ \A m \in PeerPatches : m.slot = s => m.trail = TrueTrail[s]

TrailFromPeer(s) == \E m \in PeerPatches : m.slot = s /\ m.trail = TrueTrail[s]

(***************************************************************************)
(* What the chain promises.  The trail hash is the delicate part: a patch  *)
(* without one leaves that of a CANDIDATE frame in the row it finalises,   *)
(* and the node's FINAL frame is then refused as a contradiction; and the  *)
(* output a peer ships without one keeps the node's hash out.              *)
(***************************************************************************)
ASSUME AgreementAssumption ==
  \A s \in Slots : Truth[s] # None =>
    /\ FinalSourcesAgree(s)
    /\ CandidateTrailsAgree(s) \/ PatchesCarryTrail(s)
    /\ \/ TrailFromPeer(s)
       \/ \A m \in PeerPatches : m.slot = s /\ m.exec => m.trail = TrueTrail[s]

-----------------------------------------------------------------------------
(* Delivery. *)

Delivered(kind, m) == seen' = seen \cup {<<kind, m>>}

DeliverBlock(b) == HandleBlock(b) /\ Delivered("block", b)

DeliverExec(f) ==
  /\ \/ HandleExecCandidate(f)
     \/ HandleExecFinal(f)
     \/ CompleteFinalExec(f)
     \/ IgnoresExec(f) /\ UNCHANGED vars
  /\ Delivered("exec", f)

DeliverTransfers(f) == HandleTransfers(f) /\ Delivered("transfers", f)

DeliverPeer(m) ==
  /\ ApplyPeerPatch(m) \/ (IgnoresPeer(m) /\ UNCHANGED vars)
  /\ Delivered("peer", m)

DeliverLegacy(m) == ApplyLegacyPatch(m) /\ Delivered("legacy", m)

DeliverForced(m) ==
  /\ ApplyForcedVerdict(m) \/ (IgnoresForced(m) /\ UNCHANGED vars)
  /\ Delivered("forced", m)

DeliveryInit == Init /\ seen = {}

Deliver ==
  \/ \E b \in Blocks : DeliverBlock(b)
  \/ \E f \in ExecFrames : DeliverExec(f)
  \/ \E f \in TransferFrames : DeliverTransfers(f)
  \/ \E m \in PeerPatches : DeliverPeer(m)
  \/ \E m \in LegacyPatches : DeliverLegacy(m)
  \/ \E m \in ForcedVerdicts : DeliverForced(m)

DeliverySpec == DeliveryInit /\ [][Deliver]_<<vars, seen>>

\* Every message was delivered at least once.
AllDelivered ==
  /\ \A b \in Blocks : <<"block", b>> \in seen
  /\ \A f \in ExecFrames : <<"exec", f>> \in seen
  /\ \A f \in TransferFrames : <<"transfers", f>> \in seen
  /\ \A m \in PeerPatches : <<"peer", m>> \in seen
  /\ \A m \in LegacyPatches : <<"legacy", m>> \in seen
  /\ \A m \in ForcedVerdicts : <<"forced", m>> \in seen

-----------------------------------------------------------------------------
(***************************************************************************)
(* When every FINAL source agrees with the chain (candidates need not),    *)
(* any order of delivery ends in the same picture of the slot: its         *)
(* verdict, its trail hash, its events and transfers those of the verdict, *)
(* every block settled, every part marked as stored ("Cross-lane           *)
(* reordering is safe", ingest.rs).  A verdict that an operator forces     *)
(* drops the transfers that came before it, so nothing is said of them.    *)
(***************************************************************************)
Converged ==
  AllDelivered =>
    \A s \in Slots : Truth[s] # None =>
      /\ IsFinal(row, s)
      /\ VerdictOf(row[s]) = Truth[s]
      /\ row[s].exec_final /\ events[s] = Truth[s]
      /\ \A f \in ExecFrames : f.slot = s /\ f.final => row[s].trail = f.trail
      /\ (\E f \in TransferFrames : f.slot = s) /\ ~ForcedAt(s) =>
           row[s].transfers /\ <<"full", Truth[s]>> \in transfers[s]
      /\ \A b \in Blocks : BlockSlot[b] = s =>
           block[b] = IF b = Truth[s] THEN "Final" ELSE "Discarded"

(***************************************************************************)
(* An operation ends up with the status its FINAL execution gave it:       *)
(* operations without a row "will pick up the right status once their      *)
(* block body arrives" (ingest.rs, handle_exec).                           *)
(***************************************************************************)
OpStatusConverges ==
  AllDelivered =>
    \A f \in ExecFrames, o \in Ops :
      f.final /\ f.ops[o] \in ExecStatus => op[o].fin = f.ops[o]
=============================================================================
