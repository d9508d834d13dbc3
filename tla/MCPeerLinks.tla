---------------------------- MODULE MCPeerLinks ------------------------------
(***************************************************************************)
(* One configured peer, probed by two tasks, that may come back under      *)
(* another id; it may dial us too.                                         *)
(***************************************************************************)
EXTENDS PeerLinks

CONSTANTS h1, n, i, j, u, v

MCName      == [k \in {h1} |-> n]
MCStaticUrl == [k \in {h1} |-> u]
MCAdvertised == [k \in {i, j} |-> IF k = i THEN {v} ELSE {}]
MCFirstId   == [k \in {h1} |-> i]
=============================================================================
