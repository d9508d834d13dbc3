------------------------------ MODULE LiveFeed -------------------------------
(***************************************************************************)
(* The SSE hub (sse.rs) and the streaming routes (sse_response and the     *)
(* stream_* filters of rest.rs): the writer broadcasts frames, a client    *)
(* connects, replays what it missed, listens, drops off and comes back     *)
(* with the Last-Event-ID it holds.                                        *)
(*                                                                         *)
(* A broadcast is two steps, ring then channel, and connecting is two,     *)
(* replay then subscribe: any of the four may fall between two others.     *)
(* The frames of the writer are numbered from 1 in every life of the       *)
(* server.  One client is enough: clients share nothing but the hub.       *)
(***************************************************************************)
EXTENDS Naturals, Sequences, FiniteSets

CONSTANTS
  None,
  RingCapacity,     \* sse_ring_buffer_size
  ChannelCapacity,  \* of the broadcast channel
  MaxFrames,        \* bound on the frames of one life
  MaxLives,         \* bound on the lives of the server
  FrameType,        \* FrameType[id]: the `type' of the frame
  Mentions          \* the frames whose text contains what the client asks about

ASSUME FeedAssumption ==
  /\ RingCapacity \in Nat \ {0} /\ ChannelCapacity \in Nat \ {0}
  /\ MaxFrames \in Nat /\ MaxLives \in Nat \ {0}
  /\ FrameType \in [1 .. MaxFrames -> {"slot_updated", "slot_final", "block_seen",
                                      "op_seen", "event_seen", "heartbeat"}]
  /\ Mentions \subseteq 1 .. MaxFrames
  /\ None \notin 1 .. MaxFrames

(***************************************************************************)
(* client: pc "off", "replayed" (between replay_since and subscribe) or    *)
(* "on"; last: the Last-Event-ID it holds; replay: frames still to replay; *)
(* rx: its part of the channel; lag: the channel has dropped frames of it. *)
(* seen: what it has received in this life of the server, in order.        *)
(* owed: frames it should get in this connection, had nothing been lost;   *)
(* lost: those that were sent between its replay and its subscription, or  *)
(* dropped by the channel; seam: frames that were in the ring and not yet  *)
(* in the channel when it subscribed.                                      *)
(***************************************************************************)
VARIABLES
  route,      \* the stream the client asks for
  next_id, ring,
  sending,    \* the frame that is in the ring and not yet in the channel
  client,
  seen, owed, lost, seam,  \* history
  life

fvars == <<route, next_id, ring, sending, client, seen, owed, lost, seam, life>>

Ids == 1 .. MaxFrames

\* The filters of the streams.
StreamSlots      == {id \in Ids : FrameType[id] \in {"slot_updated", "slot_final", "heartbeat"}}
StreamBlocks     == {id \in Ids : FrameType[id] \in {"block_seen", "heartbeat"}}
StreamFinal      == {id \in Ids : FrameType[id] \in {"slot_final", "heartbeat"}}
StreamOperations == {id \in Ids : FrameType[id] \in {"op_seen", "heartbeat"}}
StreamAddr       == {id \in Ids : FrameType[id] = "heartbeat" \/ id \in Mentions}
StreamEvents     == {id \in Ids : FrameType[id] \in {"event_seen", "heartbeat"}
                                 /\ (FrameType[id] = "event_seen" => id \in Mentions)}

Streams == {StreamSlots, StreamBlocks, StreamFinal, StreamOperations, StreamAddr, StreamEvents}
Wanted  == route

Away(last) == [pc |-> "off", last |-> last, replay |-> <<>>, rx |-> <<>>, lag |-> FALSE]

FeedInit ==
  /\ route \in Streams
  /\ next_id = 1 /\ ring = <<>> /\ sending = None
  /\ client = Away(None)
  /\ seen = <<>> /\ owed = {} /\ lost = {} /\ seam = {}
  /\ life = 1

Elements(q) == {q[i] : i \in DOMAIN q}

-----------------------------------------------------------------------------
(* The hub. *)

Pushed(q, id) == Append(IF Len(q) = RingCapacity THEN Tail(q) ELSE q, id)

\* The first half of broadcast: number the frame and put it in the ring.
Broadcast ==
  /\ sending = None
  /\ next_id \in Ids
  /\ ring' = Pushed(ring, next_id)
  /\ sending' = next_id
  /\ next_id' = next_id + 1
  /\ owed' = IF client.pc = "off" THEN owed ELSE owed \cup {next_id}
  /\ UNCHANGED <<client, seen, lost, seam, life>>

\* The channel of a slow receiver drops its oldest frame.
Enqueued(c, id) ==
  IF Len(c.rx) = ChannelCapacity
    THEN [c EXCEPT !.rx = Append(Tail(@), id), !.lag = TRUE]
    ELSE [c EXCEPT !.rx = Append(@, id)]

\* The second half: into the channel of whoever is subscribed.
Send ==
  /\ sending # None
  /\ sending' = None
  /\ client' = IF client.pc = "on" THEN Enqueued(client, sending) ELSE client
  /\ lost' = lost \cup (IF client.pc = "replayed" THEN {sending} ELSE {})
                  \cup (IF client.pc = "on" /\ Len(client.rx) = ChannelCapacity
                          THEN {Head(client.rx)} ELSE {})
  /\ UNCHANGED <<next_id, ring, seen, owed, seam, life>>

\* Mutant of ReplaySince: the frame the client holds is sent again.
ReplaySinceInclusive(since) ==
  LET first == CHOOSE k \in 1 .. Len(ring) + 1 : \A i \in DOMAIN ring : ring[i] >= since <=> i >= k
  IN  SubSeq(ring, first, Len(ring))

\* The frames of the ring past `since'.  One writer numbers the frames and pushes
\* them, so the ids ascend in the ring and what the filter keeps is its end.
ReplaySince(since) ==
  LET first == CHOOSE k \in 1 .. Len(ring) + 1 : \A i \in DOMAIN ring : ring[i] > since <=> i >= k
  IN  SubSeq(ring, first, Len(ring))

-----------------------------------------------------------------------------
(* The connection. *)

\* Mutant of Replay: what cannot be replayed in full is not replayed.
ReplayAllOrNothing(last) ==
  IF last = None \/ Len(ring) = RingCapacity THEN <<>> ELSE ReplaySince(last)

\* Without a Last-Event-ID nothing is replayed.
Replay(last) == IF last = None THEN <<>> ELSE ReplaySince(last)

\* sse_response up to replay_since
Connect ==
  /\ client.pc = "off"
  /\ client' = [client EXCEPT !.pc = "replayed", !.replay = Replay(client.last)]
  /\ owed' = IF client.last = None THEN {}
             ELSE {id \in Elements(ring) : id > client.last}
  /\ lost' = {}
  /\ UNCHANGED <<next_id, ring, sending, seen, seam, life>>

\* subscribe: the channel starts with the next frame sent.
Subscribe ==
  /\ client.pc = "replayed"
  /\ client' = [client EXCEPT !.pc = "on"]
  /\ seam' = seam \cup ({sending} \ {None})
  /\ UNCHANGED <<next_id, ring, sending, seen, owed, lost, life>>

\* The frame at hand is done with: the next of the replay, or of the channel.
Advance(c) == IF c.replay # <<>> THEN [c EXCEPT !.replay = Tail(@)]
                                 ELSE [c EXCEPT !.rx = Tail(@)]

\* Mutant of Take: the stream does not get past a frame the filter drops.
TakeStops(id) ==
  /\ id \in Wanted
  /\ client' = [Advance(client) EXCEPT !.last = id]
  /\ seen' = Append(seen, id)

\* A frame reaches the client if it passes the filter.
Take(id) ==
  IF id \in Wanted
    THEN client' = [Advance(client) EXCEPT !.last = id] /\ seen' = Append(seen, id)
    ELSE client' = Advance(client) /\ UNCHANGED seen

\* The replay first, then a lag notice, then what the channel holds.
Deliver ==
  /\ client.pc = "on"
  /\ \/ client.replay # <<>> /\ Take(Head(client.replay))
     \/ /\ client.replay = <<>> /\ client.lag
        /\ client' = [client EXCEPT !.lag = FALSE] /\ UNCHANGED seen
     \/ /\ client.replay = <<>> /\ ~client.lag /\ client.rx # <<>>
        /\ Take(Head(client.rx))
  /\ UNCHANGED <<next_id, ring, sending, owed, lost, seam, life>>

\* The connection drops; what was not delivered is discarded.
Disconnect ==
  /\ client.pc # "off"
  /\ client' = Away(client.last)
  /\ UNCHANGED <<next_id, ring, sending, seen, owed, lost, seam, life>>

\* The server restarts with an empty ring and counts from one again.
RestartServer ==
  /\ life < MaxLives
  /\ life' = life + 1
  /\ next_id' = 1 /\ ring' = <<>> /\ sending' = None
  /\ client' = Away(client.last)
  /\ seen' = <<>> /\ owed' = {} /\ lost' = {} /\ seam' = {}

FeedNext ==
  /\ Broadcast \/ Send \/ Connect \/ Subscribe \/ Deliver \/ Disconnect \/ RestartServer
  /\ UNCHANGED route

\* The writer finishes what it began, and the response task runs while connected.
FeedSpec ==
  /\ FeedInit /\ [][FeedNext]_fvars
  /\ WF_fvars(Send /\ UNCHANGED route)
  /\ WF_fvars(Subscribe /\ UNCHANGED route) /\ WF_fvars(Deliver /\ UNCHANGED route)

-----------------------------------------------------------------------------
Underway == Elements(client.replay) \cup Elements(client.rx) \cup ({sending} \ {None})

(***************************************************************************)
(* Nothing is missed silently: of the frames the ring held past the        *)
(* client's Last-Event-ID and the ones broadcast since, each that passes   *)
(* the filter was received or is on its way, unless it was sent between    *)
(* replay and subscription or the channel overflowed (sse_response,        *)
(* replay_since, broadcast).                                               *)
(***************************************************************************)
NothingElseLost ==
  client.pc # "off" =>
    (owed \cap Wanted) \subseteq Elements(seen) \cup Underway \cup lost

(***************************************************************************)
(* Over all connections to one life of the server a client gets frames in  *)
(* the order of their ids, each once; only the frame that was between ring *)
(* and channel when it subscribed may come a second time, right after the  *)
(* replay (broadcast, sse_response).                                       *)
(***************************************************************************)
InOrder ==
  \A i, j \in DOMAIN seen : i < j =>
    seen[i] < seen[j] \/ (seen[i] = seen[j] /\ j = i + 1 /\ seen[i] \in seam)

(***************************************************************************)
(* A client that stays connected gets every frame of its channel: a frame  *)
(* the filter drops, a lag notice or a slow replay does not end the stream *)
(* (the loop of sse_response).                                             *)
(***************************************************************************)
FeedDrains == (client.pc = "on") ~> (client.pc = "off" \/ Underway = {})
=============================================================================
