--------------------------- MODULE MCSyncSession -----------------------------
(***************************************************************************)
(* Calls for two slots over two sessions that may both break, and remotes  *)
(* that ask twice.  The channels hold one message.                         *)
(***************************************************************************)
EXTENDS SyncSession

MCWanted == <<"s", "t">>
=============================================================================
