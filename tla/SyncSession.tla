----------------------------- MODULE SyncSession -----------------------------
(***************************************************************************)
(* Requests over SyncSessions (peer/session.rs and the pump loops of       *)
(* peer/client.rs and peer/service.rs).  A session is a bridge: a bounded  *)
(* channel to its pump and a table of waiters keyed by correlation id.     *)
(*                                                                         *)
(*    caller --out--> pump --sink--> tonic --> remote                      *)
(*                                                                         *)
(* The pump task takes one message at a time, from the channel or from the *)
(* remote, and holds it until the sink, bounded too, has room.  It hands   *)
(* answers to their waiters and fails all waiters when the connection      *)
(* ends.  A caller waits without a timer for room in its channel, and with *)
(* one for the answer.  The remote's side of the connection is the mirror  *)
(* image; here it only reads, asks, and answers in any order, or does not. *)
(***************************************************************************)
EXTENDS Integers, Sequences

CONSTANTS
  Bridges,      \* bridge ids (BRIDGE_IDS never repeats)
  MaxRequests,  \* bound on the requests of a behaviour
  MaxServed,    \* bound on the requests of the remotes
  Capacity,     \* messages a channel holds (32 in the code)
  Wanted,       \* Wanted[r]: the slot call r asks for
  NoBridge, NoSlot

Requests == 1 .. MaxRequests   \* correlation ids (CORR_IDS never repeats)
SlotsWanted == {Wanted[r] : r \in Requests}

ASSUME SessionAssumption ==
  /\ MaxRequests \in Nat /\ MaxServed \in Nat /\ Capacity \in Nat \ {0}
  /\ NoBridge \notin Bridges
  /\ Requests \subseteq DOMAIN Wanted /\ NoSlot \notin SlotsWanted

VARIABLES
  conn,      \* conn[b]: the connection; "closing" once the pump left its loop
  request,   \* request[r]: the get_final_slot call with correlation id r
  pending,   \* pending[b]: the correlation ids with a waiter
  out,       \* out[b]: the requests in the channel from the callers to the pump
  hand,      \* hand[b]: what the pump holds while it awaits the sink
  sink,      \* sink[b]: the messages tonic has not taken yet
  served,    \* requests of the remotes the pumps have read
  asked,     \* requests on their way to the remote
  answers    \* answers on their way back

chans == <<out, hand, sink, served>>
svars == <<conn, request, pending, chans, asked, answers>>

\* The messages of the sink that are no requests of ours.
Hello == [kind |-> "hello"]
Reply == [kind |-> "reply"]
Ours(r) == [kind |-> "request", id |-> r]
Outbound == {Hello, Reply} \cup {Ours(r) : r \in Requests}

Message == [bridge : Bridges, id : Requests, slot : SlotsWanted]
Request ==
  [state  : {"unused", "inserted", "waiting", "answered", "failed"},
   bridge : Bridges \cup {NoBridge},
   got    : SlotsWanted \cup {NoSlot}]  \* what it was given

SessionTypeOK ==
  /\ conn \in [Bridges -> {"unused", "opening", "up", "closing", "closed"}]
  /\ request \in [Requests -> Request]
  /\ pending \in [Bridges -> SUBSET Requests]
  /\ out \in [Bridges -> Seq(Requests)] /\ hand \in [Bridges -> SUBSET Outbound]
  /\ sink \in [Bridges -> Seq(Outbound)] /\ served \in 0 .. MaxServed
  /\ \A b \in Bridges : Len(out[b]) <= Capacity /\ Len(sink[b]) <= Capacity
  /\ asked \subseteq Message
  /\ answers \subseteq Message

SessionInit ==
  /\ conn = [b \in Bridges |-> "unused"]
  /\ request = [r \in Requests |->
       [state |-> "unused", bridge |-> NoBridge, got |-> NoSlot]]
  /\ pending = [b \in Bridges |-> {}]
  /\ out = [b \in Bridges |-> <<>>] /\ hand = [b \in Bridges |-> {}]
  /\ sink = [b \in Bridges |-> <<>>] /\ served = 0
  /\ asked = {} /\ answers = {}

-----------------------------------------------------------------------------
\* A session begins, from either side: our hello is in the sink, the bridge is
\* registered (SessionBridge::new, set_session) and no pump runs yet.
Open(b) ==
  /\ conn[b] = "unused"
  /\ conn' = [conn EXCEPT ![b] = "opening"]
  /\ sink' = [sink EXCEPT ![b] = <<Hello>>]
  /\ UNCHANGED <<request, pending, out, hand, served, asked, answers>>

\* The stream is established: the pump is spawned.
Established(b) ==
  /\ conn[b] = "opening"
  /\ conn' = [conn EXCEPT ![b] = "up"]
  /\ UNCHANGED <<request, pending, chans, asked, answers>>

\* The dialled side refuses or does not answer in time: the channels are
\* dropped and the waiters are left to their timers.
OpenFails(b) ==
  /\ conn[b] = "opening"
  /\ conn' = [conn EXCEPT ![b] = "closed"]
  /\ out' = [out EXCEPT ![b] = <<>>]
  /\ sink' = [sink EXCEPT ![b] = <<>>]
  /\ UNCHANGED <<request, pending, hand, served, asked, answers>>

\* get_final_slot up to the send: a fresh id and a waiter.
Ask(r, b) ==
  /\ conn[b] # "unused"
  /\ request[r].state = "unused"
  /\ \A q \in 1 .. r - 1 : request[q].state # "unused"
  /\ request' = [request EXCEPT ![r] =
       [state |-> "inserted", bridge |-> b, got |-> NoSlot]]
  /\ pending' = [pending EXCEPT ![b] = @ \cup {r}]
  /\ UNCHANGED <<conn, chans, asked, answers>>

\* The send waits, without a timer, for room in the channel.  It fails once the
\* channel is dropped; a waiter that was drained meanwhile is cancelled at once.
Send(r) ==
  LET b == request[r].bridge IN
  /\ request[r].state = "inserted"
  /\ \/ /\ conn[b] = "closed"
        /\ request' = [request EXCEPT ![r].state = "failed"]
        /\ pending' = [pending EXCEPT ![b] = @ \ {r}]
        /\ UNCHANGED out
     \/ /\ conn[b] # "closed" /\ Len(out[b]) < Capacity
        /\ request' = [request EXCEPT ![r].state =
                          IF r \in pending[b] THEN "waiting" ELSE "failed"]
        /\ out' = [out EXCEPT ![b] = Append(@, r)]
        /\ UNCHANGED pending
  /\ UNCHANGED <<conn, hand, sink, served, asked, answers>>

\* Mutant of TimeOut: the waiter stays in the table.
TimeOutLeaks(r) ==
  /\ request[r].state = "waiting"
  /\ request' = [request EXCEPT ![r].state = "failed"]
  /\ UNCHANGED <<conn, pending, chans, asked, answers>>

\* Mutant of TimeOut: no timer, only the end of the session ends a call.
TimeOutOnClose(r) ==
  /\ request[r].state = "waiting"
  /\ conn[request[r].bridge] = "closed"
  /\ request' = [request EXCEPT ![r].state = "failed"]
  /\ pending' = [pending EXCEPT ![request[r].bridge] = @ \ {r}]
  /\ UNCHANGED <<conn, chans, asked, answers>>

\* RPC_TIMEOUT passes before an answer comes.
TimeOut(r) ==
  /\ request[r].state = "waiting"
  /\ request' = [request EXCEPT ![r].state = "failed"]
  /\ pending' = [pending EXCEPT ![request[r].bridge] = @ \ {r}]
  /\ UNCHANGED <<conn, chans, asked, answers>>

\* The pump's select takes a request from the channel.
PumpTake(b) ==
  /\ conn[b] = "up" /\ hand[b] = {} /\ out[b] # <<>>
  /\ hand' = [hand EXCEPT ![b] = {Ours(Head(out[b]))}]
  /\ out' = [out EXCEPT ![b] = Tail(@)]
  /\ UNCHANGED <<conn, request, pending, sink, served, asked, answers>>

\* The pump's select takes a request of the remote and builds the reply.
Serve(b) ==
  /\ conn[b] = "up" /\ hand[b] = {} /\ served < MaxServed
  /\ hand' = [hand EXCEPT ![b] = {Reply}]
  /\ served' = served + 1
  /\ UNCHANGED <<conn, request, pending, out, sink, asked, answers>>

\* The pump's send to the sink returns: there is room.
Forward(b) ==
  /\ conn[b] = "up" /\ Len(sink[b]) < Capacity
  /\ \E m \in hand[b] : sink' = [sink EXCEPT ![b] = Append(@, m)]
  /\ hand' = [hand EXCEPT ![b] = {}]
  /\ UNCHANGED <<conn, request, pending, out, served, asked, answers>>

\* Tonic puts the next message on the wire, when the remote's window allows it.
Transmit(b) ==
  LET m == Head(sink[b]) IN
  /\ conn[b] \in {"opening", "up"} /\ sink[b] # <<>>
  /\ sink' = [sink EXCEPT ![b] = Tail(@)]
  /\ asked' = IF m.kind = "request"
                THEN asked \cup {[bridge |-> b, id |-> m.id, slot |-> Wanted[m.id]]}
                ELSE asked
  /\ UNCHANGED <<conn, request, pending, out, hand, served, answers>>

\* Mutant of RemoteAnswers: the answer does not say which slot it is about.
RemoteAnswersUnnamed(m) ==
  /\ m \in asked
  /\ conn[m.bridge] = "up"
  /\ asked' = asked \ {m}
  /\ answers' = answers \cup {[m EXCEPT !.slot = NoSlot]}
  /\ UNCHANGED <<conn, request, pending, chans>>

\* The remote serves a SlotRequest it received (build_final_slot_response).
RemoteAnswers(m) ==
  /\ m \in asked
  /\ conn[m.bridge] = "up"
  /\ asked' = asked \ {m}
  /\ answers' = answers \cup {m}
  /\ UNCHANGED <<conn, request, pending, chans>>

\* Mutant of Complete: answers are matched in order, not by id.
CompleteOldest(m) ==
  LET b == m.bridge
      r == CHOOSE q \in pending[b] : \A k \in pending[b] : q <= k
  IN  /\ m \in answers /\ conn[b] = "up" /\ hand[b] = {}
      /\ answers' = answers \ {m}
      /\ IF pending[b] # {}
           THEN /\ request' = [request EXCEPT ![r].state = "answered", ![r].got = m.slot]
                /\ pending' = [pending EXCEPT ![b] = @ \ {r}]
           ELSE UNCHANGED <<request, pending>>
      /\ UNCHANGED <<conn, chans, asked>>

\* complete: an answer without a waiter is dropped.  A pump that awaits the
\* sink reads no answers.
Complete(m) ==
  /\ m \in answers
  /\ conn[m.bridge] = "up" /\ hand[m.bridge] = {}
  /\ answers' = answers \ {m}
  /\ IF m.id \in pending[m.bridge]
       THEN /\ request' = [request EXCEPT ![m.id].state = "answered", ![m.id].got = m.slot]
            /\ pending' = [pending EXCEPT ![m.bridge] = @ \ {m.id}]
       ELSE UNCHANGED <<request, pending>>
  /\ UNCHANGED <<conn, chans, asked>>

\* The connection ends: the pump leaves its loop, or its send to the sink
\* fails, and it drains the waiters (fail_pending); its channel still takes
\* messages until the task returns.
Break(b) ==
  /\ conn[b] = "up"
  /\ conn' = [conn EXCEPT ![b] = "closing"]
  /\ request' = [r \in Requests |->
       IF r \in pending[b] /\ request[r].state = "waiting"
         THEN [request[r] EXCEPT !.state = "failed"] ELSE request[r]]
  /\ pending' = [pending EXCEPT ![b] = {}]
  /\ hand' = [hand EXCEPT ![b] = {}]
  /\ UNCHANGED <<out, sink, served, asked, answers>>

\* Mutant of Close: the channel is kept while a call still has a waiter.
CloseWhenIdle(b) ==
  /\ conn[b] = "closing" /\ pending[b] = {}
  /\ conn' = [conn EXCEPT ![b] = "closed"]
  /\ out' = [out EXCEPT ![b] = <<>>]
  /\ sink' = [sink EXCEPT ![b] = <<>>]
  /\ asked' = {m \in asked : m.bridge # b}
  /\ answers' = {m \in answers : m.bridge # b}
  /\ UNCHANGED <<request, pending, hand, served>>

\* The pump task returns: its channels are dropped with everything in them.
Close(b) ==
  /\ conn[b] = "closing"
  /\ conn' = [conn EXCEPT ![b] = "closed"]
  /\ out' = [out EXCEPT ![b] = <<>>]
  /\ sink' = [sink EXCEPT ![b] = <<>>]
  /\ asked' = {m \in asked : m.bridge # b}
  /\ answers' = {m \in answers : m.bridge # b}
  /\ UNCHANGED <<request, pending, hand, served>>

SessionNext ==
  \/ \E b \in Bridges :
       \/ Open(b) \/ Established(b) \/ OpenFails(b) \/ Break(b) \/ Close(b)
       \/ PumpTake(b) \/ Serve(b) \/ Forward(b) \/ Transmit(b)
  \/ \E r \in Requests : Send(r) \/ TimeOut(r)
  \/ \E r \in Requests, b \in Bridges : Ask(r, b)
  \/ \E m \in asked : RemoteAnswers(m)
  \/ \E m \in answers : Complete(m)

(***************************************************************************)
(* A caller sends when there is room and its timer fires; a pump works     *)
(* when it can; opening a stream is timed (Endpoint::timeout) and a pump   *)
(* task that left its loop returns.  The remote owes nothing: it need not  *)
(* read, ask or answer, and no connection has to break.                    *)
(***************************************************************************)
SessionSpec ==
  /\ SessionInit /\ [][SessionNext]_svars
  /\ \A r \in Requests : WF_svars(Send(r) \/ TimeOut(r))
  /\ \A b \in Bridges :
       /\ WF_svars(PumpTake(b) \/ Forward(b))
       /\ WF_svars(Established(b) \/ OpenFails(b) \/ Close(b))

-----------------------------------------------------------------------------
(***************************************************************************)
(* An answer reaches only the request that asked for it: not another one   *)
(* that waits on the same session, nor a later one after the first timed   *)
(* out or the session was replaced (get_final_slot, complete).             *)
(***************************************************************************)
AnswersMatch ==
  \A r \in Requests : request[r].state = "answered" => request[r].got = Wanted[r]

(***************************************************************************)
(* No waiter outlives its call: a correlation id is in the table of the    *)
(* one bridge its call uses, and only while the call is running.  A leaked *)
(* waiter would grow the table of a long-lived session for ever.           *)
(***************************************************************************)
NoWaiterLeaks ==
  \A b \in Bridges : \A r \in pending[b] :
    request[r].bridge = b /\ request[r].state \in {"inserted", "waiting"}

\* The pump of b holds a message and its sink is full.
Jammed(b) == conn[b] = "up" /\ hand[b] # {} /\ Len(sink[b]) = Capacity

\* A call in one of the states `running' ends.
CallEnds(r, running) ==
  (request[r].state \in running) ~> (request[r].state \in {"answered", "failed"})

(***************************************************************************)
(* A call whose request was taken ends, also when the session drops under  *)
(* it, the pump stands still or nobody answers: the timer of               *)
(* get_final_slot covers the answer.  It does not cover the wait for room  *)
(* in the channel: that a call which still waits for room ends as well     *)
(* needs that no remote lets a pump of ours stand still for ever.          *)
(***************************************************************************)
CallsEnd ==
  /\ \A r \in Requests : CallEnds(r, {"waiting"})
  /\ (\A b \in Bridges : []<>~Jammed(b)) => \A r \in Requests : CallEnds(r, {"inserted"})
=============================================================================
