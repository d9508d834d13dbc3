-------------------------- MODULE SyncSessionProofs --------------------------
(***************************************************************************)
(* Requests over SyncSessions for any number of bridges and requests.      *)
(*                                                                         *)
(* AnswersMatch is not inductive: it needs that every message on the wire  *)
(* still names the slot its correlation id was issued for (Carried), and   *)
(* that a waiter sits in the table of its own bridge (NoWaiterLeaks), which *)
(* has to be one of the bridges (Placed).  What waits in a channel carries *)
(* no slot yet, so the channels matter to the typing alone.                *)
(***************************************************************************)
EXTENDS SyncSession, TLAPS

\* Every message on the wire is about the slot its correlation id asked for.
Carried == \A m \in asked \cup answers : m.slot = Wanted[m.id]

\* A call that runs, or has run, uses one of the bridges.
Placed == \A r \in Requests : request[r].state # "unused" => request[r].bridge \in Bridges

SessionInv == SessionTypeOK /\ NoWaiterLeaks /\ AnswersMatch /\ Carried /\ Placed

\* A fresh process holds no session and no waiter (SessionBridge::new).
LEMMA SessionInitInv == SessionInit => SessionInv
  BY SessionAssumption
  DEF SessionInit, SessionInv, SessionTypeOK, NoWaiterLeaks, AnswersMatch, Carried, Placed, Request

\* A message of the sink is a request of ours or carries no correlation id.
LEMMA OutboundRequests ==
  ASSUME NEW m \in Outbound
  PROVE  m.kind = "request" => m.id \in Requests
  BY DEF Outbound, Hello, Reply, Ours

\* Opening a session, losing it while it opens, and dropping a pump task with
\* its channels.
LEMMA ConnectionSteps ==
  ASSUME SessionInv, NEW b \in Bridges, Open(b) \/ Established(b) \/ OpenFails(b) \/ Close(b)
  PROVE  SessionInv'
<1> USE DEF SessionInv
<1>1. NoWaiterLeaks' /\ AnswersMatch' /\ Carried' /\ Placed'
  BY DEF Open, Established, OpenFails, Close, NoWaiterLeaks, AnswersMatch, Carried, Placed
<1>2. ASSUME NEW s, s \in Seq(Outbound), Len(s) <= Capacity,
             sink' = [sink EXCEPT ![b] = s]
      PROVE  /\ sink' \in [Bridges -> Seq(Outbound)]
             /\ \A c \in Bridges : Len(sink'[c]) <= Capacity
  BY <1>2 DEF SessionTypeOK
<1>3. <<>> \in Seq(Outbound) /\ Len(<<>>) <= Capacity /\ <<>> \in Seq(Requests)
  BY SessionAssumption
<1>4. <<Hello>> \in Seq(Outbound) /\ Len(<<Hello>>) <= Capacity
  BY SessionAssumption DEF Outbound
<1>5. CASE Open(b)
  <2>1. /\ sink' \in [Bridges -> Seq(Outbound)]
        /\ \A c \in Bridges : Len(sink'[c]) <= Capacity
    BY <1>2, <1>4, <1>5 DEF Open
  <2> QED BY <1>1, <1>5, <2>1 DEF Open, SessionTypeOK
<1>6. CASE Established(b)
  BY <1>1, <1>6 DEF Established, SessionTypeOK, chans
<1>7. CASE OpenFails(b) \/ Close(b)
  <2>1. /\ sink' \in [Bridges -> Seq(Outbound)]
        /\ \A c \in Bridges : Len(sink'[c]) <= Capacity
    BY <1>2, <1>3, <1>7 DEF OpenFails, Close
  <2>2. /\ out' \in [Bridges -> Seq(Requests)]
        /\ \A c \in Bridges : Len(out'[c]) <= Capacity
    BY <1>3, <1>7 DEF OpenFails, Close, SessionTypeOK
  <2> QED BY <1>1, <1>7, <2>1, <2>2 DEF OpenFails, Close, SessionTypeOK
<1> QED BY <1>5, <1>6, <1>7

\* The pump's half of the select that empties the callers' channel, and the
\* reply to a request of the remote.
LEMMA PumpTakes ==
  ASSUME SessionInv, NEW b \in Bridges, PumpTake(b) \/ Serve(b)
  PROVE  SessionInv'
<1> USE DEF SessionInv
<1>1. NoWaiterLeaks' /\ AnswersMatch' /\ Carried' /\ Placed'
  BY DEF PumpTake, Serve, NoWaiterLeaks, AnswersMatch, Carried, Placed
<1>2. CASE PumpTake(b)
  <2>1. out[b] \in Seq(Requests) /\ out[b] # <<>>
    BY <1>2 DEF PumpTake, SessionTypeOK
  <2>2. /\ Head(out[b]) \in Requests /\ Tail(out[b]) \in Seq(Requests)
        /\ Len(Tail(out[b])) <= Len(out[b])
    BY <2>1
  <2>3. /\ out' \in [Bridges -> Seq(Requests)]
        /\ \A c \in Bridges : Len(out'[c]) <= Capacity
    BY <1>2, <2>1, <2>2, SessionAssumption DEF PumpTake, SessionTypeOK
  <2>4. hand' \in [Bridges -> SUBSET Outbound]
    BY <1>2, <2>2 DEF PumpTake, SessionTypeOK, Outbound
  <2> QED BY <1>1, <1>2, <2>3, <2>4 DEF PumpTake, SessionTypeOK
<1>3. CASE Serve(b)
  <2>1. hand' \in [Bridges -> SUBSET Outbound]
    BY <1>3 DEF Serve, SessionTypeOK, Outbound
  <2>2. served' \in 0 .. MaxServed
    BY <1>3, SessionAssumption DEF Serve, SessionTypeOK
  <2> QED BY <1>1, <1>3, <2>1, <2>2 DEF Serve, SessionTypeOK
<1> QED BY <1>2, <1>3

\* The pump's send to the sink, and tonic's read of it: a request gets its
\* slot from its correlation id on the wire.
LEMMA SinkSteps ==
  ASSUME SessionInv, NEW b \in Bridges, Forward(b) \/ Transmit(b)
  PROVE  SessionInv'
<1> USE DEF SessionInv
<1>1. NoWaiterLeaks' /\ AnswersMatch' /\ Placed'
  BY DEF Forward, Transmit, NoWaiterLeaks, AnswersMatch, Placed
<1>2. ASSUME NEW s \in Seq(Outbound), Len(s) <= Capacity,
             sink' = [sink EXCEPT ![b] = s]
      PROVE  /\ sink' \in [Bridges -> Seq(Outbound)]
             /\ \A c \in Bridges : Len(sink'[c]) <= Capacity
  BY <1>2 DEF SessionTypeOK
<1>3. sink[b] \in Seq(Outbound) /\ Len(sink[b]) <= Capacity
  BY DEF SessionTypeOK
<1>4. CASE Forward(b)
  <2>1. PICK m \in hand[b] : sink' = [sink EXCEPT ![b] = Append(@, m)]
    BY <1>4 DEF Forward
  <2>2. m \in Outbound
    BY DEF SessionTypeOK
  <2>3. Append(sink[b], m) \in Seq(Outbound) /\ Len(Append(sink[b], m)) <= Capacity
    BY <1>3, <1>4, <2>2, SessionAssumption DEF Forward
  <2>4. sink' = [sink EXCEPT ![b] = Append(sink[b], m)]
    BY <2>1
  <2>5. /\ sink' \in [Bridges -> Seq(Outbound)]
        /\ \A c \in Bridges : Len(sink'[c]) <= Capacity
    BY <1>2, <2>3, <2>4
  <2>6. hand' \in [Bridges -> SUBSET Outbound]
    BY <1>4 DEF Forward, SessionTypeOK
  <2>7. Carried'
    BY <1>4 DEF Forward, Carried
  <2> QED BY <1>1, <1>4, <2>5, <2>6, <2>7 DEF Forward, SessionTypeOK
<1>5. CASE Transmit(b)
  <2> DEFINE m == Head(sink[b])
             w == [bridge |-> b, id |-> m.id, slot |-> Wanted[m.id]]
  <2>1. m \in Outbound /\ Tail(sink[b]) \in Seq(Outbound) /\ Len(Tail(sink[b])) <= Capacity
    BY <1>3, <1>5, SessionAssumption DEF Transmit
  <2>2. sink' = [sink EXCEPT ![b] = Tail(sink[b])]
    BY <1>5 DEF Transmit
  <2>3. /\ sink' \in [Bridges -> Seq(Outbound)]
        /\ \A c \in Bridges : Len(sink'[c]) <= Capacity
    BY <1>2, <2>1, <2>2
  <2>4. m.kind = "request" => w \in Message /\ w.slot = Wanted[w.id]
    BY <2>1, OutboundRequests DEF Message, SlotsWanted
  <2>5. asked' = IF m.kind = "request" THEN asked \cup {w} ELSE asked
    BY <1>5 DEF Transmit
  <2> HIDE DEF w, m
  <2>6. asked' \subseteq Message
    BY <2>4, <2>5 DEF SessionTypeOK
  <2>7. Carried'
    BY <1>5, <2>4, <2>5 DEF Transmit, Carried
  <2> QED BY <1>1, <1>5, <2>3, <2>6, <2>7 DEF Transmit, SessionTypeOK
<1> QED BY <1>4, <1>5

\* The first half of get_final_slot: a fresh id and its waiter.
LEMMA AskStep ==
  ASSUME SessionInv, NEW r \in Requests, NEW b \in Bridges, Ask(r, b)
  PROVE  SessionInv'
<1> USE DEF SessionInv
<1>1. SessionTypeOK'
  BY DEF Ask, SessionTypeOK, Request, chans
<1>2. \A c \in Bridges : r \in pending[c] => FALSE
  BY DEF Ask, NoWaiterLeaks
<1>3. NoWaiterLeaks'
  <2> SUFFICES ASSUME NEW c \in Bridges, NEW q \in pending'[c]
               PROVE  request'[q].bridge = c /\ request'[q].state \in {"inserted", "waiting"}
    BY DEF NoWaiterLeaks
  <2>1. CASE q = r
    <3>1. c = b
      BY <1>2, <2>1 DEF Ask, SessionTypeOK
    <3> QED BY <2>1, <3>1 DEF Ask, SessionTypeOK
  <2>2. CASE q # r
    BY <2>2 DEF Ask, SessionTypeOK, NoWaiterLeaks
  <2> QED BY <2>1, <2>2
<1>4. AnswersMatch'
  BY DEF Ask, SessionTypeOK, AnswersMatch
<1>5. Carried'
  BY DEF Ask, Carried
<1>6. Placed'
  BY DEF Ask, SessionTypeOK, Placed
<1> QED BY <1>1, <1>3, <1>4, <1>5, <1>6

\* The send of get_final_slot, on a channel that may be gone.
LEMMA SendStep ==
  ASSUME SessionInv, NEW r \in Requests, Send(r)
  PROVE  SessionInv'
<1> USE DEF SessionInv
<1> DEFINE b == request[r].bridge
<1>0. b \in Bridges /\ request[r].state = "inserted"
  BY DEF Send, Placed
<1>1. CASE conn[b] = "closed"
  <2>1. /\ request' = [request EXCEPT ![r].state = "failed"]
        /\ pending' = [pending EXCEPT ![b] = @ \ {r}]
        /\ UNCHANGED <<out, conn, hand, sink, served, asked, answers>>
    BY <1>1 DEF Send
  <2> HIDE DEF b
  <2>2. SessionTypeOK'
    BY <1>0, <2>1 DEF SessionTypeOK, Request
  <2>3. NoWaiterLeaks'
    <3> SUFFICES ASSUME NEW c \in Bridges, NEW q \in pending'[c]
                 PROVE  request'[q].bridge = c /\ request'[q].state \in {"inserted", "waiting"}
      BY DEF NoWaiterLeaks
    <3>1. q \in Requests /\ q \in pending[c] /\ request[q].bridge = c
      BY <1>0, <2>1 DEF SessionTypeOK, NoWaiterLeaks
    <3>2. q # r
      BY <1>0, <2>1, <3>1 DEF SessionTypeOK, b
    <3> QED BY <2>1, <3>1, <3>2 DEF SessionTypeOK, NoWaiterLeaks
  <2>4. AnswersMatch'
    BY <2>1 DEF AnswersMatch, SessionTypeOK, Request
  <2>5. Carried'
    BY <2>1 DEF Carried
  <2>6. Placed'
    BY <2>1, <1>0 DEF SessionTypeOK, Request, Placed, b
  <2> QED BY <2>2, <2>3, <2>4, <2>5, <2>6
<1>2. CASE conn[b] # "closed"
  <2>1. /\ request' = [request EXCEPT ![r].state =
                         IF r \in pending[b] THEN "waiting" ELSE "failed"]
        /\ Len(out[b]) < Capacity /\ out' = [out EXCEPT ![b] = Append(out[b], r)]
        /\ UNCHANGED <<pending, conn, hand, sink, served, asked, answers>>
    BY <1>2 DEF Send
  <2> HIDE DEF b
  <2>3. SessionTypeOK'
    <3>1. request' \in [Requests -> Request]
      BY <2>1 DEF SessionTypeOK, Request
    <3>2. out[b] \in Seq(Requests)
      BY <1>0 DEF SessionTypeOK
    <3>3. Append(out[b], r) \in Seq(Requests) /\ Len(Append(out[b], r)) <= Capacity
      BY <2>1, <3>2, SessionAssumption
    <3>4. /\ out' \in [Bridges -> Seq(Requests)]
          /\ \A c \in Bridges : Len(out'[c]) <= Capacity
      BY <1>0, <2>1, <3>3 DEF SessionTypeOK
    <3> QED BY <2>1, <3>1, <3>4 DEF SessionTypeOK
  <2>4. NoWaiterLeaks'
    <3> SUFFICES ASSUME NEW c \in Bridges, NEW q \in pending'[c]
                 PROVE  request'[q].bridge = c /\ request'[q].state \in {"inserted", "waiting"}
      BY DEF NoWaiterLeaks
    <3>1. q \in Requests /\ q \in pending[c] /\ request[q].bridge = c
      BY <2>1 DEF SessionTypeOK, NoWaiterLeaks
    <3>2. CASE q = r
      BY <2>1, <3>1, <3>2 DEF SessionTypeOK, Request, b
    <3>3. CASE q # r
      BY <2>1, <3>1, <3>3 DEF SessionTypeOK, Request, NoWaiterLeaks
    <3> QED BY <3>2, <3>3
  <2>5. AnswersMatch'
    BY <2>1 DEF AnswersMatch, SessionTypeOK, Request
  <2>6. Carried'
    BY <2>1 DEF Carried
  <2>7. Placed'
    BY <2>1, <1>0 DEF SessionTypeOK, Request, Placed, b
  <2> QED BY <2>3, <2>4, <2>5, <2>6, <2>7
<1> QED BY <1>1, <1>2

\* The caller's timer.
LEMMA TimeOutStep ==
  ASSUME SessionInv, NEW r \in Requests, TimeOut(r)
  PROVE  SessionInv'
<1> USE DEF SessionInv
<1>1. SessionTypeOK'
  BY DEF TimeOut, SessionTypeOK, Request, chans
<1>2. NoWaiterLeaks'
  BY DEF TimeOut, SessionTypeOK, Request, NoWaiterLeaks
<1>3. AnswersMatch' /\ Carried' /\ Placed'
  BY DEF TimeOut, SessionTypeOK, Request, AnswersMatch, Carried, Placed
<1> QED BY <1>1, <1>2, <1>3

\* The remote's answer, and what the pump does with it (complete).
LEMMA AnswerSteps ==
  ASSUME SessionInv, NEW m, (m \in asked /\ RemoteAnswers(m)) \/ (m \in answers /\ Complete(m))
  PROVE  SessionInv'
<1> USE DEF SessionInv
<1>1. CASE m \in asked /\ RemoteAnswers(m)
  BY <1>1 DEF RemoteAnswers, chans, SessionTypeOK, NoWaiterLeaks, AnswersMatch, Carried, Placed
<1>2. CASE m \in answers /\ Complete(m)
  <2>1. m \in Message /\ m.slot = Wanted[m.id]
    BY <1>2 DEF SessionTypeOK, Carried
  <2>2. m.bridge \in Bridges /\ m.id \in Requests /\ m.slot \in SlotsWanted
    BY <2>1 DEF Message
  <2>3. CASE m.id \in pending[m.bridge]
    <3> DEFINE q == [request[m.id] EXCEPT !.state = "answered", !.got = m.slot]
    <3>1. /\ request' = [request EXCEPT ![m.id] = q]
          /\ pending' = [pending EXCEPT ![m.bridge] = @ \ {m.id}]
          /\ answers' = answers \ {m}
          /\ UNCHANGED <<conn, chans, asked>>
      BY <1>2, <2>2, <2>3 DEF Complete, SessionTypeOK
    <3>2. /\ request \in [Requests -> Request] /\ pending \in [Bridges -> SUBSET Requests]
          /\ request[m.id] \in Request
      BY <2>2 DEF SessionTypeOK
    <3>3. q \in Request /\ q.state = "answered" /\ q.got = m.slot
          /\ q.bridge = request[m.id].bridge
      BY <2>2, <3>2 DEF Request
    <3> HIDE DEF q
    <3>4. SessionTypeOK'
      <4>1. request' \in [Requests -> Request] /\ pending' \in [Bridges -> SUBSET Requests]
        BY <2>2, <3>1, <3>2, <3>3
      <4> QED BY <3>1, <4>1 DEF SessionTypeOK, chans
    <3>5. NoWaiterLeaks'
      BY <2>2, <2>3, <3>1, <3>2 DEF NoWaiterLeaks
    <3>6. AnswersMatch'
      BY <2>1, <3>1, <3>2, <3>3 DEF AnswersMatch
    <3>7. Carried'
      BY <3>1 DEF Carried
    <3>8. Placed'
      BY <2>2, <2>3, <3>1, <3>2, <3>3 DEF NoWaiterLeaks, Placed
    <3> QED BY <3>4, <3>5, <3>6, <3>7, <3>8
  <2>4. CASE m.id \notin pending[m.bridge]
    BY <1>2, <2>4 DEF Complete, chans, SessionTypeOK, NoWaiterLeaks, AnswersMatch, Carried, Placed
  <2> QED BY <2>3, <2>4
<1> QED BY <1>1, <1>2

\* The connection ends: fail_pending drains the table.
LEMMA BreakStep ==
  ASSUME SessionInv, NEW b \in Bridges, Break(b)
  PROVE  SessionInv'
<1> USE DEF SessionInv
<1>1. SessionTypeOK'
  BY DEF Break, SessionTypeOK, Request
<1>2. NoWaiterLeaks'
  BY DEF Break, SessionTypeOK, Request, NoWaiterLeaks
<1>3. AnswersMatch' /\ Carried' /\ Placed'
  BY DEF Break, SessionTypeOK, Request, AnswersMatch, Carried, Placed
<1> QED BY <1>1, <1>2, <1>3

\* Every step of the callers, the pumps and the remotes.
LEMMA SessionStepInv == SessionInv /\ [SessionNext]_svars => SessionInv'
<1> SUFFICES ASSUME SessionInv, [SessionNext]_svars PROVE SessionInv'
  OBVIOUS
<1>1. CASE \E b \in Bridges : Open(b) \/ Established(b) \/ OpenFails(b) \/ Break(b) \/ Close(b)
  BY <1>1, ConnectionSteps, BreakStep
<1>6. CASE \E b \in Bridges : PumpTake(b) \/ Serve(b) \/ Forward(b) \/ Transmit(b)
  BY <1>6, PumpTakes, SinkSteps
<1>2. CASE \E r \in Requests : Send(r) \/ TimeOut(r)
  BY <1>2, SendStep, TimeOutStep
<1>3. CASE \E r \in Requests, b \in Bridges : Ask(r, b)
  BY <1>3, AskStep
<1>4. CASE (\E m \in asked : RemoteAnswers(m)) \/ (\E m \in answers : Complete(m))
  BY <1>4, AnswerSteps
<1>5. CASE UNCHANGED svars
  BY <1>5 DEF svars, chans, SessionInv, SessionTypeOK, NoWaiterLeaks, AnswersMatch, Carried, Placed
<1> QED BY <1>1, <1>2, <1>3, <1>4, <1>5, <1>6 DEF SessionNext

(***************************************************************************)
(* For any number of sessions and calls, an answer reaches only the call   *)
(* that asked for it, however late it comes (get_final_slot, complete).    *)
(***************************************************************************)
THEOREM SessionsSafe == SessionSpec => []AnswersMatch
<1>1. SessionInv => AnswersMatch
  BY DEF SessionInv
<1> QED BY SessionInitInv, SessionStepInv, <1>1, PTL DEF SessionSpec

(***************************************************************************)
(* For any number of sessions and calls, no waiter outlives its call: an   *)
(* answer, a timeout, a failed send and the end of the connection each     *)
(* take it out of the table (get_final_slot, complete, fail_pending).      *)
(***************************************************************************)
THEOREM WaitersEnd == SessionSpec => []NoWaiterLeaks
<1>1. SessionInv => NoWaiterLeaks
  BY DEF SessionInv
<1> QED BY SessionInitInv, SessionStepInv, <1>1, PTL DEF SessionSpec

\* The typing of calls, tables and messages, for any number of sessions.
THEOREM SessionsTyped == SessionSpec => []SessionTypeOK
<1>1. SessionInv => SessionTypeOK
  BY DEF SessionInv
<1> QED BY SessionInitInv, SessionStepInv, <1>1, PTL DEF SessionSpec
=============================================================================
