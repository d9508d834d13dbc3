----------------------------- MODULE MCLiveFeed ------------------------------
(***************************************************************************)
(* Four frames: every stream wants the heartbeat, some want others, and    *)
(* none wants all of them.                                                 *)
(***************************************************************************)
EXTENDS LiveFeed

MCFrameType == <<"event_seen", "heartbeat", "slot_final", "event_seen">>
=============================================================================
