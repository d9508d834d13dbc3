--------------------------- MODULE LiveFeedProofs ----------------------------
(***************************************************************************)
(* The event streams, for any ring, channel and number of frames.  What a  *)
(* client has received, what its replay and its channel still hold and the *)
(* frame that is being sent are one ascending sequence, in which only the  *)
(* frame that was between ring and channel at the subscription may stand   *)
(* twice.                                                                  *)
(***************************************************************************)
EXTENDS LiveFeed, Integers, TLAPS

Clients == [pc : {"off", "replayed", "on"}, last : Ids \cup {None},
            replay : Seq(Ids), rx : Seq(Ids), lag : BOOLEAN]

FeedTypeOK ==
  /\ route \in Streams
  /\ next_id \in 1 .. MaxFrames + 1
  /\ ring \in Seq(Ids)
  /\ sending \in Ids \cup {None}
  /\ client \in Clients
  /\ seen \in Seq(Ids)
  /\ owed \subseteq Ids /\ lost \subseteq Ids /\ seam \subseteq Ids

\* The ring ends with the newest frame and has no gap.
RingTail ==
  /\ \A i \in DOMAIN ring : ring[i] = (next_id - 1 - Len(ring)) + i
  /\ sending # None => sending = next_id - 1

Ascending(q) == \A i, j \in DOMAIN q : i < j => q[i] < q[j]

Below(q, n) == \A i \in DOMAIN q : q[i] < n

\* The frames of p come before those of q; one that was between ring and channel
\* at the subscription may end p and begin q.
Joins(p, q) ==
  \A i \in DOMAIN p, j \in DOMAIN q :
    p[i] < q[j] \/ (p[i] = q[j] /\ i = Len(p) /\ j = 1 /\ q[j] \in seam)

\* What the client holds, what it is given next and what is being sent.
Line ==
  /\ Below(seen, next_id) /\ Below(client.replay, next_id) /\ Below(client.rx, next_id)
  /\ \A k \in DOMAIN seen : client.last # None /\ seen[k] <= client.last
  /\ Ascending(client.replay) /\ Ascending(client.rx)
  /\ \A k \in DOMAIN seen, i \in DOMAIN client.replay : seen[k] < client.replay[i]
  /\ Joins(client.replay, client.rx) /\ Joins(seen, client.rx)
  /\ client.pc # "on" => client.rx = <<>>
  /\ client.pc = "off" => client.replay = <<>>
  /\ sending # None =>
       \A k \in DOMAIN seen : seen[k] < sending \/ (seen[k] = sending /\ k = Len(seen))
  /\ client.pc = "on" /\ sending # None =>
       /\ Below(client.rx, sending)
       /\ Joins(client.replay, <<sending>>) /\ Joins(seen, <<sending>>)
       /\ client.rx # <<>> => Below(client.replay, sending) /\ Below(seen, sending)

FeedInv == FeedTypeOK /\ RingTail /\ Line /\ InOrder /\ NothingElseLost

-----------------------------------------------------------------------------
(* Sequences of frames. *)

\* VecDeque::pop_front and Receiver::recv: what is left when the first is taken.
LEMMA TailFacts ==
  ASSUME NEW q \in Seq(Ids), q # <<>>
  PROVE  /\ Tail(q) \in Seq(Ids) /\ Len(Tail(q)) = Len(q) - 1 /\ Len(q) > 0
         /\ \A i \in DOMAIN Tail(q) : i + 1 \in DOMAIN q /\ Tail(q)[i] = q[i + 1]
         /\ Head(q) \in Ids /\ 1 \in DOMAIN q /\ Head(q) = q[1]
         /\ Elements(q) = {Head(q)} \cup Elements(Tail(q))
<1>1. Tail(q) \in Seq(Ids) /\ Len(Tail(q)) = Len(q) - 1 /\ Len(q) > 0
  OBVIOUS
<1>2. \A i \in DOMAIN Tail(q) : i + 1 \in DOMAIN q /\ Tail(q)[i] = q[i + 1]
  OBVIOUS
<1>3. Head(q) \in Ids /\ 1 \in DOMAIN q /\ Head(q) = q[1]
  OBVIOUS
<1>4. \A i \in DOMAIN q : i = 1 \/ (i - 1 \in DOMAIN Tail(q) /\ Tail(q)[i - 1] = q[i])
  BY <1>1
<1>5. Elements(q) = {Head(q)} \cup Elements(Tail(q))
  <2>1. ASSUME NEW x \in Elements(q) PROVE x \in {Head(q)} \cup Elements(Tail(q))
    BY <2>1, <1>3, <1>4 DEF Elements
  <2>2. ASSUME NEW x \in {Head(q)} \cup Elements(Tail(q)) PROVE x \in Elements(q)
    BY <2>2, <1>2, <1>3 DEF Elements
  <2> QED BY <2>1, <2>2
<1> QED BY <1>1, <1>2, <1>3, <1>5

\* Taking the first frame keeps the order of the others.
LEMMA TailAscends ==
  ASSUME NEW q \in Seq(Ids), q # <<>>, Ascending(q)
  PROVE  Ascending(Tail(q)) /\ \A i \in DOMAIN Tail(q) : Head(q) < Tail(q)[i]
<1>1. \A i \in DOMAIN Tail(q) : i \in Int /\ i > 0
  OBVIOUS
<1>2. \A i, j \in DOMAIN Tail(q) : i < j => q[i + 1] < q[j + 1]
  BY <1>1, TailFacts DEF Ascending
<1>3. \A i \in DOMAIN Tail(q) : q[1] < q[i + 1]
  BY <1>1, TailFacts DEF Ascending
<1>4. Ascending(Tail(q))
  BY <1>2, TailFacts DEF Ascending
<1>5. \A i \in DOMAIN Tail(q) : Head(q) < Tail(q)[i]
  BY <1>3, TailFacts
<1> QED BY <1>4, <1>5

\* push_back and Sender::send: one more at the end.
LEMMA AppendFacts ==
  ASSUME NEW q \in Seq(Ids), NEW x \in Ids
  PROVE  /\ Append(q, x) \in Seq(Ids) /\ Len(Append(q, x)) = Len(q) + 1
         /\ \A i \in DOMAIN Append(q, x) :
              \/ i \in DOMAIN q /\ Append(q, x)[i] = q[i]
              \/ i = Len(q) + 1 /\ Append(q, x)[i] = x
         /\ Elements(Append(q, x)) = Elements(q) \cup {x}
<1>1. Append(q, x) \in Seq(Ids) /\ Len(Append(q, x)) = Len(q) + 1
  OBVIOUS
<1>2. \A i \in DOMAIN Append(q, x) :
        \/ i \in DOMAIN q /\ Append(q, x)[i] = q[i]
        \/ i = Len(q) + 1 /\ Append(q, x)[i] = x
  OBVIOUS
<1>3. /\ \A i \in DOMAIN q : i \in DOMAIN Append(q, x) /\ Append(q, x)[i] = q[i]
      /\ Len(q) + 1 \in DOMAIN Append(q, x) /\ Append(q, x)[Len(q) + 1] = x
  OBVIOUS
<1>4. Elements(Append(q, x)) = Elements(q) \cup {x}
  <2>1. ASSUME NEW y \in Elements(Append(q, x)) PROVE y \in Elements(q) \cup {x}
    BY <2>1, <1>2 DEF Elements
  <2>2. ASSUME NEW y \in Elements(q) \cup {x} PROVE y \in Elements(Append(q, x))
    BY <2>2, <1>3 DEF Elements
  <2> QED BY <2>1, <2>2
<1> QED BY <1>1, <1>2, <1>4

\* broadcast: the ring still ends with the newest frame.
LEMMA PushedFacts ==
  ASSUME FeedTypeOK, RingTail, next_id \in Ids
  PROVE  /\ Pushed(ring, next_id) \in Seq(Ids)
         /\ \A i \in DOMAIN Pushed(ring, next_id) :
              Pushed(ring, next_id)[i] = (next_id - Len(Pushed(ring, next_id))) + i
<1>1. PICK q : /\ Pushed(ring, next_id) = Append(q, next_id)
               /\ q \in Seq(Ids)
               /\ \A i \in DOMAIN q : q[i] = (next_id - 1 - Len(q)) + i
  <2> USE DEF FeedTypeOK, RingTail
  <2>1. CASE Len(ring) = RingCapacity
    <3>1. ring # <<>>
      BY <2>1, FeedAssumption
    <3>2. \A i \in DOMAIN Tail(ring) : Tail(ring)[i] = (next_id - 1 - Len(Tail(ring))) + i
      BY <3>1, TailFacts
    <3> QED BY <2>1, <3>1, <3>2, TailFacts DEF Pushed
  <2>2. CASE Len(ring) # RingCapacity
    BY <2>2 DEF Pushed
  <2> QED BY <2>1, <2>2
<1>2. \A i \in DOMAIN Append(q, next_id) :
        Append(q, next_id)[i] = (next_id - Len(Append(q, next_id))) + i
  BY <1>1, AppendFacts DEF FeedTypeOK
<1> QED BY <1>1, <1>2, AppendFacts

\* replay_since returns, in order, exactly the frames of the ring past `since'.
LEMMA ReplayFacts ==
  ASSUME FeedTypeOK, RingTail, NEW since \in Ids
  PROVE  /\ ReplaySince(since) \in Seq(Ids)
         /\ Ascending(ReplaySince(since))
         /\ Elements(ReplaySince(since)) = {id \in Elements(ring) : id > since}
         /\ Below(ReplaySince(since), next_id)
<1> DEFINE Cuts(k) == \A i \in DOMAIN ring : ring[i] > since <=> i >= k
           first == CHOOSE k \in 1 .. Len(ring) + 1 : Cuts(k)
           base == next_id - 1 - Len(ring)
<1>1. Len(ring) \in Nat /\ DOMAIN ring = 1 .. Len(ring) /\ base \in Int /\ since \in Int
  BY FeedAssumption DEF FeedTypeOK, Ids
<1>2. \E k \in 1 .. Len(ring) + 1 : Cuts(k)
  <2> HIDE DEF base
  <2>0. \A i \in DOMAIN ring : ring[i] = base + i
    BY DEF RingTail, base
  <2>1. CASE since <= base
    <3>1. Cuts(1)
      BY <1>1, <2>0, <2>1
    <3> QED BY <1>1, <3>1
  <2>2. CASE since > base /\ since <= base + Len(ring)
    <3>1. Cuts(since - base + 1) /\ since - base + 1 \in 1 .. Len(ring) + 1
      BY <1>1, <2>0, <2>2
    <3> QED BY <3>1
  <2>3. CASE since > base + Len(ring)
    <3>1. Cuts(Len(ring) + 1)
      BY <1>1, <2>0, <2>3
    <3> QED BY <1>1, <3>1
  <2> QED BY <1>1, <2>1, <2>2, <2>3
<1>3. first \in 1 .. Len(ring) + 1 /\ Cuts(first)
  BY <1>2
<1>4. ReplaySince(since) = SubSeq(ring, first, Len(ring))
  BY DEF ReplaySince
<1> DEFINE q == SubSeq(ring, first, Len(ring))
<1> HIDE DEF first
<1>5. q \in Seq(Ids) /\ Len(q) = Len(ring) + 1 - first /\ DOMAIN q = 1 .. Len(q)
  BY <1>1, <1>3 DEF FeedTypeOK
<1>6. \A i \in DOMAIN q : q[i] = ring[first + i - 1] /\ first + i - 1 \in DOMAIN ring /\ first + i - 1 >= first
  BY <1>1, <1>3, <1>5 DEF FeedTypeOK
<1>7. \A i \in DOMAIN ring : i >= first => i - first + 1 \in DOMAIN q /\ q[i - first + 1] = ring[i]
  BY <1>1, <1>3, <1>5, <1>6
<1> HIDE DEF q
<1>8. Elements(q) = {id \in Elements(ring) : id > since}
  <2>1. ASSUME NEW x \in Elements(q) PROVE x \in Elements(ring) /\ x > since
    BY <2>1, <1>3, <1>6 DEF Elements
  <2>2. ASSUME NEW x \in Elements(ring), x > since PROVE x \in Elements(q)
    BY <2>2, <1>3, <1>7 DEF Elements
  <2> QED BY <2>1, <2>2
<1>9. Ascending(q) /\ Below(q, next_id)
  <2>1. \A i \in DOMAIN q : q[i] = base + (first + i - 1) /\ first + i - 1 <= Len(ring)
    BY <1>1, <1>6 DEF RingTail
  <2>2. next_id \in Int /\ first \in Int
    BY <1>1, <1>3, FeedAssumption DEF FeedTypeOK
  <2>3. Ascending(q)
    BY <1>1, <1>5, <2>1, <2>2 DEF Ascending
  <2>4. Below(q, next_id)
    BY <1>1, <1>5, <2>1, <2>2 DEF Below
  <2> QED BY <2>3, <2>4
<1> QED BY <1>4, <1>5, <1>8, <1>9 DEF q

-----------------------------------------------------------------------------
(* What a client is replayed. *)

\* sse_response: what is replayed, with and without a Last-Event-ID.
LEMMA ReplayTyped ==
  ASSUME FeedTypeOK, RingTail
  PROVE  /\ Replay(client.last) \in Seq(Ids)
         /\ Ascending(Replay(client.last)) /\ Below(Replay(client.last), next_id)
         /\ \A i \in DOMAIN Replay(client.last) :
              client.last # None /\ client.last < Replay(client.last)[i]
         /\ Elements(Replay(client.last)) =
              IF client.last = None THEN {} ELSE {id \in Elements(ring) : id > client.last}
<1>1. CASE client.last = None
  <2>1. Replay(client.last) = <<>>
    BY <1>1 DEF Replay
  <2> QED BY <1>1, <2>1 DEF Ascending, Below, Elements
<1>2. CASE client.last # None
  <2>1. client.last \in Ids
    BY <1>2 DEF FeedTypeOK, Clients
  <2>2. Replay(client.last) = ReplaySince(client.last)
    BY <1>2 DEF Replay
  <2>3. \A i \in DOMAIN ReplaySince(client.last) : ReplaySince(client.last)[i] \in Elements(ReplaySince(client.last))
    BY DEF Elements
  <2>4. \A i \in DOMAIN ReplaySince(client.last) : ReplaySince(client.last)[i] > client.last
    BY <2>1, <2>3, ReplayFacts
  <2>5. \A i \in DOMAIN ReplaySince(client.last) : ReplaySince(client.last)[i] \in Ids
    BY <2>1, ReplayFacts
  <2>6. \A i \in DOMAIN ReplaySince(client.last) : client.last < ReplaySince(client.last)[i]
    BY <2>1, <2>4, <2>5, FeedAssumption DEF Ids
  <2> QED BY <1>2, <2>1, <2>2, <2>6, ReplayFacts
<1> QED BY <1>1, <1>2

-----------------------------------------------------------------------------
(* Every step keeps the invariant. *)

\* SseHub::new: nothing sent, nobody connected.
LEMMA FeedStarts == FeedInit => FeedInv
<1> SUFFICES ASSUME FeedInit PROVE FeedInv
  OBVIOUS
<1>1. client = [pc |-> "off", last |-> None, replay |-> <<>>, rx |-> <<>>, lag |-> FALSE]
  BY DEF FeedInit, Away
<1>2. FeedTypeOK
  BY <1>1, FeedAssumption DEF FeedInit, FeedTypeOK, Clients
<1>3. RingTail /\ InOrder /\ NothingElseLost
  BY <1>1 DEF FeedInit, RingTail, InOrder, NothingElseLost
<1>4. Line
  BY <1>1 DEF FeedInit, Line, Below, Ascending, Joins
<1> QED BY <1>2, <1>3, <1>4 DEF FeedInv

\* broadcast, up to the ring: the new frame comes after all others.
LEMMA BroadcastKeeps == FeedInv /\ Broadcast /\ UNCHANGED route => FeedInv'
<1> SUFFICES ASSUME FeedInv, Broadcast, UNCHANGED route PROVE FeedInv'
  OBVIOUS
<1>0. /\ next_id \in Ids /\ sending' = next_id /\ next_id' = next_id + 1 /\ sending = None
      /\ ring' = Pushed(ring, next_id)
      /\ UNCHANGED <<client, seen, lost, seam>>
      /\ next_id # None
  BY FeedAssumption DEF Broadcast, Ids
<1>1. FeedTypeOK'
  <2>1. owed' \subseteq Ids /\ next_id' \in 1 .. MaxFrames + 1
    BY <1>0, FeedAssumption DEF Broadcast, FeedInv, FeedTypeOK, Ids
  <2> QED BY <1>0, <2>1, PushedFacts DEF FeedInv, FeedTypeOK
<1>2. RingTail'
  <2>1. next_id \in Nat /\ Len(ring') \in Nat
    BY <1>0, <1>1, FeedAssumption DEF Ids, FeedTypeOK
  <2> QED BY <1>0, <2>1, PushedFacts DEF FeedInv, RingTail
<1>3. Line'
  <2>0. next_id \in Int /\ \A q \in Seq(Ids) : \A i \in DOMAIN q : q[i] \in Int
    BY <1>0, FeedAssumption DEF Ids
  <2>1. /\ Below(seen, next_id + 1) /\ Below(client.replay, next_id + 1) /\ Below(client.rx, next_id + 1)
    <3>1. seen \in Seq(Ids) /\ client.replay \in Seq(Ids) /\ client.rx \in Seq(Ids)
      BY DEF FeedInv, FeedTypeOK, Clients
    <3> QED BY <2>0, <3>1 DEF FeedInv, Line, Below
  <2>2. Joins(client.replay, <<next_id>>) /\ Joins(seen, <<next_id>>)
    <3>1. \A j \in DOMAIN <<next_id>> : <<next_id>>[j] = next_id
      OBVIOUS
    <3>2. Below(client.replay, next_id) /\ Below(seen, next_id)
      BY DEF FeedInv, Line
    <3> QED BY <3>1, <3>2 DEF Below, Joins
  <2>3. \A k \in DOMAIN seen : seen[k] < next_id
    BY DEF FeedInv, Line, Below
  <2> QED BY <1>0, <2>1, <2>2, <2>3 DEF FeedInv, Line, Below, Ascending, Joins
<1>4. InOrder'
  BY <1>0 DEF FeedInv, InOrder
<1>5. NothingElseLost'
  BY <1>0 DEF FeedInv, NothingElseLost, Broadcast, Underway, Wanted, Elements
<1> QED BY <1>1, <1>2, <1>3, <1>4, <1>5 DEF FeedInv

\* sse_response, up to replay_since: the replay goes on after what the client holds.
LEMMA ConnectKeeps == FeedInv /\ Connect /\ UNCHANGED route => FeedInv'
<1> SUFFICES ASSUME FeedInv, Connect, UNCHANGED route PROVE FeedInv'
  OBVIOUS
<1> DEFINE r == Replay(client.last)
<1>0. /\ client.pc = "off" /\ client.rx = <<>> /\ client \in Clients
      /\ client' = [client EXCEPT !.pc = "replayed", !.replay = r]
      /\ lost' = {}
      /\ owed' = IF client.last = None THEN {} ELSE {id \in Elements(ring) : id > client.last}
      /\ UNCHANGED <<route, next_id, ring, sending, seen, seam>>
  BY DEF FeedInv, FeedTypeOK, Line, Connect
<1>r. /\ r \in Seq(Ids) /\ Ascending(r) /\ Below(r, next_id)
      /\ \A i \in DOMAIN r : client.last # None /\ client.last < r[i]
      /\ Elements(r) = owed'
  BY <1>0, ReplayTyped DEF FeedInv
<1> HIDE DEF r
<1>c. /\ client'.pc = "replayed" /\ client'.replay = r /\ client'.rx = client.rx
      /\ client'.last = client.last /\ client' \in Clients
  BY <1>0, <1>r DEF Clients
<1>1. FeedTypeOK'
  <2>1. owed' \subseteq Ids
    BY <1>r DEF Elements
  <2> QED BY <1>0, <1>c, <2>1 DEF FeedInv, FeedTypeOK
<1>2. RingTail'
  BY <1>0 DEF FeedInv, RingTail
<1>3. Line'
  <2>1. \A k \in DOMAIN seen, i \in DOMAIN r : seen[k] < r[i]
    <3>1. \A k \in DOMAIN seen : seen[k] \in Int /\ seen[k] <= client.last
      BY FeedAssumption DEF FeedInv, FeedTypeOK, Line, Ids
    <3>2. \A i \in DOMAIN r : r[i] \in Int /\ client.last \in Int /\ client.last < r[i]
      BY <1>r, <1>0, FeedAssumption DEF Ids, Clients
    <3> QED BY <3>1, <3>2
  <2> QED BY <1>0, <1>c, <1>r, <2>1 DEF FeedInv, Line, Below, Ascending, Joins
<1>4. InOrder'
  BY <1>0 DEF FeedInv, InOrder
<1>5. NothingElseLost'
  BY <1>0, <1>c, <1>r DEF NothingElseLost, Underway
<1> QED BY <1>1, <1>2, <1>3, <1>4, <1>5 DEF FeedInv

\* subscribe: a frame that is not yet in the channel will come after the replay, in
\* which it may be already.
LEMMA SubscribeKeeps == FeedInv /\ Subscribe /\ UNCHANGED route => FeedInv'
<1> SUFFICES ASSUME FeedInv, Subscribe, UNCHANGED route PROVE FeedInv'
  OBVIOUS
<1>0. /\ client.pc = "replayed" /\ client.rx = <<>> /\ client \in Clients
      /\ client' = [client EXCEPT !.pc = "on"]
      /\ seam' = seam \cup ({sending} \ {None})
      /\ UNCHANGED <<route, next_id, ring, sending, seen, owed, lost>>
  BY DEF FeedInv, FeedTypeOK, Line, Subscribe
<1>c. /\ client'.pc = "on" /\ client'.replay = client.replay /\ client'.rx = client.rx
      /\ client'.last = client.last /\ client' \in Clients
  BY <1>0 DEF Clients
<1>1. FeedTypeOK'
  BY <1>0, <1>c DEF FeedInv, FeedTypeOK
<1>2. RingTail'
  BY <1>0 DEF FeedInv, RingTail
<1>3. Line'
  <2>1. ASSUME sending # None
        PROVE  Joins(client.replay, <<sending>>)' /\ Joins(seen, <<sending>>)'
    <3>1. sending \in seam' /\ sending = next_id - 1 /\ next_id \in Int
      BY <2>1, <1>0, FeedAssumption DEF FeedInv, FeedTypeOK, RingTail
    <3>2. Joins(seen, <<sending>>)'
      BY <2>1, <1>0, <3>1 DEF FeedInv, Line, Joins
    <3>3. \A i \in DOMAIN client.replay : client.replay[i] < sending \/ (client.replay[i] = sending /\ i = Len(client.replay))
      <4>1. /\ DOMAIN client.replay = 1 .. Len(client.replay) /\ Len(client.replay) \in Nat
            /\ \A i \in DOMAIN client.replay : client.replay[i] \in Int
        BY <1>0, FeedAssumption DEF Clients, Ids
      <4>2. \A i \in DOMAIN client.replay : client.replay[i] <= sending
        BY <3>1, <4>1 DEF FeedInv, Line, Below
      <4>3. \A i \in DOMAIN client.replay : i # Len(client.replay) =>
              Len(client.replay) \in DOMAIN client.replay /\ client.replay[i] < client.replay[Len(client.replay)]
        BY <4>1 DEF FeedInv, Line, Ascending
      <4> QED BY <3>1, <4>1, <4>2, <4>3
    <3>4. Joins(client.replay, <<sending>>)'
      BY <1>0, <1>c, <3>1, <3>3 DEF Joins
    <3> QED BY <3>2, <3>4
  <2>2. /\ Joins(client.replay, client.rx)' /\ Joins(seen, client.rx)'
    BY <1>0, <1>c DEF Joins
  <2>3. sending # None => Below(client.rx, sending)'
    BY <1>0, <1>c DEF Below
  <2> QED BY <1>0, <1>c, <2>1, <2>2, <2>3 DEF FeedInv, Line, Below, Ascending
<1>4. InOrder'
  BY <1>0 DEF FeedInv, InOrder
<1>5. NothingElseLost'
  BY <1>0, <1>c DEF FeedInv, NothingElseLost, Underway, Wanted
<1> QED BY <1>1, <1>2, <1>3, <1>4, <1>5 DEF FeedInv

\* broadcast, the send: the frame goes behind all others in the channel, whose
\* oldest frame may have to leave.
LEMMA SendKeeps == FeedInv /\ Send /\ UNCHANGED route => FeedInv'
<1> SUFFICES ASSUME FeedInv, Send, UNCHANGED route PROVE FeedInv'
  OBVIOUS
<1>0. /\ sending # None /\ sending \in Ids /\ sending' = None /\ client \in Clients
      /\ client.rx \in Seq(Ids) /\ client.replay \in Seq(Ids)
      /\ UNCHANGED <<route, next_id, ring, seen, owed, seam>>
  BY DEF FeedInv, FeedTypeOK, Clients, Send
<1>2. RingTail'
  BY <1>0 DEF FeedInv, RingTail
<1>4. InOrder'
  BY <1>0 DEF FeedInv, InOrder
<1>a. CASE client.pc # "on"
  <2>1. client' = client /\ lost' = lost \cup (IF client.pc = "replayed" THEN {sending} ELSE {})
    BY <1>a DEF Send
  <2>2. FeedTypeOK'
    BY <1>0, <2>1 DEF FeedInv, FeedTypeOK
  <2>3. Line'
    BY <1>a, <1>0, <2>1 DEF FeedInv, Line, Below, Ascending, Joins
  <2>4. NothingElseLost'
    <3>1. client.pc # "off" => client.pc = "replayed"
      BY <1>a, <1>0 DEF Clients
    <3> QED BY <1>0, <2>1, <3>1 DEF FeedInv, NothingElseLost, Underway, Wanted
  <2> QED BY <1>2, <1>4, <2>2, <2>3, <2>4 DEF FeedInv
<1>b. CASE client.pc = "on"
  \* kept: what the channel holds when room is made.
  <2>1. PICK kept \in Seq(Ids) :
          /\ client' = [client EXCEPT !.rx = Append(kept, sending), !.lag = client'.lag]
          /\ client'.lag \in BOOLEAN
          /\ client.rx = <<>> => kept = <<>>
          /\ \A i \in DOMAIN kept : \E j \in DOMAIN client.rx :
               kept[i] = client.rx[j] /\ j >= i
          /\ Elements(client.rx) \cup lost \subseteq Elements(kept) \cup lost'
          /\ lost' \subseteq Ids /\ lost \subseteq lost'
          /\ Ascending(kept)
    <3>0. lost \subseteq Ids /\ client'= Enqueued(client, sending)
      BY <1>b DEF FeedInv, FeedTypeOK, Send
    <3>1. CASE Len(client.rx) = ChannelCapacity
      <4>1. client.rx # <<>>
        BY <3>1, FeedAssumption
      <4>2. lost' = lost \cup {Head(client.rx)}
        BY <1>b, <3>1 DEF Send
      <4>3. client' = [client EXCEPT !.rx = Append(Tail(client.rx), sending), !.lag = TRUE]
        BY <3>0, <3>1 DEF Enqueued
      <4>4. client'.lag = TRUE
        BY <4>3, <1>0 DEF Clients
      <4>5. Ascending(Tail(client.rx))
        BY <1>0, <4>1, TailAscends DEF FeedInv, Line
      <4>6. \A i \in DOMAIN Tail(client.rx) : \E j \in DOMAIN client.rx :
               Tail(client.rx)[i] = client.rx[j] /\ j >= i
        BY <1>0, <4>1, TailFacts
      <4>7. Tail(client.rx) \in Seq(Ids) /\ lost' \subseteq Ids
        BY <1>0, <3>0, <4>1, <4>2, TailFacts
      <4>8. Elements(client.rx) \cup lost \subseteq Elements(Tail(client.rx)) \cup lost'
        BY <1>0, <4>1, <4>2, TailFacts
      <4> QED BY <4>1, <4>2, <4>3, <4>4, <4>5, <4>6, <4>7, <4>8
    <3>2. CASE Len(client.rx) # ChannelCapacity
      <4>1. lost' = lost
        BY <1>b, <3>2 DEF Send
      <4>2. client' = [client EXCEPT !.rx = Append(client.rx, sending)]
        BY <3>0, <3>2 DEF Enqueued
      <4>3. client'.lag = client.lag /\ client.lag \in BOOLEAN
        BY <4>2, <1>0 DEF Clients
      <4>4. client' = [client EXCEPT !.rx = Append(client.rx, sending), !.lag = client'.lag]
        BY <4>2, <4>3, <1>0 DEF Clients
      <4>5. Ascending(client.rx)
        BY DEF FeedInv, Line
      <4>6. \A i \in DOMAIN client.rx : \E j \in DOMAIN client.rx :
               client.rx[i] = client.rx[j] /\ j >= i
        BY <1>0
      <4> QED BY <1>0, <3>0, <4>1, <4>3, <4>4, <4>5, <4>6
    <3> QED BY <3>1, <3>2
  <2> DEFINE rx == Append(kept, sending)
  <2>2. /\ rx \in Seq(Ids) /\ Len(rx) = Len(kept) + 1 /\ Len(kept) \in Nat
        /\ DOMAIN kept = 1 .. Len(kept)
        /\ \A i \in DOMAIN rx : \/ i \in DOMAIN kept /\ rx[i] = kept[i]
                                \/ i = Len(kept) + 1 /\ rx[i] = sending
        /\ Elements(rx) = Elements(kept) \cup {sending}
    BY <1>0, <2>1, AppendFacts
  <2> HIDE DEF rx
  <2>3. /\ client'.pc = "on" /\ client'.replay = client.replay /\ client'.rx = rx
        /\ client'.last = client.last /\ client' \in Clients
    BY <1>b, <1>0, <2>1, <2>2 DEF Clients, rx
  <2>4. FeedTypeOK'
    BY <1>0, <2>1, <2>3 DEF FeedInv, FeedTypeOK
  <2>n. sending \in Int /\ next_id \in Int /\ sending = next_id - 1
        /\ \A q \in Seq(Ids) : \A i \in DOMAIN q : q[i] \in Int /\ i \in Int
    BY <1>0, FeedAssumption DEF FeedInv, FeedTypeOK, RingTail, Ids
  <2>5. \A i \in DOMAIN kept : kept[i] < sending
    BY <1>0, <1>b, <2>1 DEF FeedInv, Line, Below
  <2>6. Ascending(rx) /\ Below(rx, next_id)
    <3>1. Ascending(rx)
      BY <2>1, <2>2, <2>5, <2>n DEF Ascending
    <3>2. Below(rx, next_id)
      BY <2>1, <2>2, <2>5, <2>n DEF Below
    <3> QED BY <3>1, <3>2
  <2>7. ASSUME NEW p \in Seq(Ids), Joins(p, client.rx), Joins(p, <<sending>>),
               client.rx # <<>> => Below(p, sending)
        PROVE  Joins(p, rx)
    <3> SUFFICES ASSUME NEW i \in DOMAIN p, NEW j \in DOMAIN rx
                 PROVE  p[i] < rx[j] \/ (p[i] = rx[j] /\ i = Len(p) /\ j = 1 /\ rx[j] \in seam)
      BY DEF Joins
    <3>1. CASE j \in DOMAIN kept /\ rx[j] = kept[j]
      <4>1. PICK m \in DOMAIN client.rx : kept[j] = client.rx[m] /\ m >= j
        BY <3>1, <2>1
      <4>2. p[i] < client.rx[m] \/ (p[i] = client.rx[m] /\ i = Len(p) /\ m = 1 /\ client.rx[m] \in seam)
        BY <2>7 DEF Joins
      <4>3. m = 1 => j = 1
        BY <3>1, <4>1, <2>2, <1>0
      <4> QED BY <3>1, <4>1, <4>2, <4>3
    <3>2. CASE j = Len(kept) + 1 /\ rx[j] = sending
      <4>1. p[i] < sending \/ (p[i] = sending /\ i = Len(p) /\ sending \in seam)
        BY <2>7 DEF Joins
      <4>2. CASE client.rx = <<>>
        <5>1. j = 1
          BY <3>2, <4>2, <2>1
        <5> QED BY <3>2, <4>1, <5>1
      <4>3. CASE client.rx # <<>>
        BY <3>2, <4>3, <2>7 DEF Below
      <4> QED BY <4>2, <4>3
    <3> QED BY <3>1, <3>2, <2>2
  <2>8. Joins(client.replay, rx) /\ Joins(seen, rx)
    <3>1. Joins(client.replay, client.rx) /\ Joins(client.replay, <<sending>>)
          /\ (client.rx # <<>> => Below(client.replay, sending))
      BY <1>b, <1>0 DEF FeedInv, Line
    <3>2. Joins(seen, client.rx) /\ Joins(seen, <<sending>>)
          /\ (client.rx # <<>> => Below(seen, sending)) /\ seen \in Seq(Ids)
      BY <1>b, <1>0 DEF FeedInv, Line, FeedTypeOK
    <3> QED BY <1>0, <2>7, <3>1, <3>2
  <2>9. Joins(client.replay, client.rx)' /\ Joins(seen, client.rx)'
    BY <1>0, <2>3, <2>8 DEF Joins
  <2>10. Line'
    <3>1. Ascending(client.rx)' /\ Below(client.rx, next_id)'
      BY <1>0, <2>3, <2>6 DEF Ascending, Below
    <3> QED BY <1>0, <1>b, <2>3, <2>9, <3>1 DEF FeedInv, Line, Below, Ascending
  <2>11. NothingElseLost'
    <3>1. Underway \cup lost \subseteq Underway' \cup lost'
      BY <1>0, <2>1, <2>2, <2>3 DEF Underway
    <3> QED BY <1>0, <1>b, <2>3, <3>1 DEF FeedInv, NothingElseLost, Wanted
  <2> QED BY <1>2, <1>4, <2>4, <2>10, <2>11 DEF FeedInv
<1> QED BY <1>a, <1>b

\* The first frame of p goes from p to the end of what was received before p.
LEMMA JoinsAdvance ==
  ASSUME NEW p \in Seq(Ids), p # <<>>, NEW q \in Seq(Ids), Joins(p, q),
         NEW r \in Seq(Ids), \A k \in DOMAIN r : r[k] < Head(p)
  PROVE  Joins(Tail(p), q) /\ Joins(Append(r, Head(p)), q)
<1> DEFINE h == Head(p)
           t == Tail(p)
           a == Append(r, h)
<1>1. /\ t \in Seq(Ids) /\ Len(t) = Len(p) - 1 /\ Len(p) \in Nat /\ h \in Ids
      /\ \A i \in DOMAIN t : i \in Int /\ i + 1 \in DOMAIN p /\ t[i] = p[i + 1]
      /\ 1 \in DOMAIN p /\ h = p[1]
  BY TailFacts
<1>2. /\ Len(a) = Len(r) + 1 /\ Len(r) \in Nat
      /\ \A i \in DOMAIN a : \/ i \in DOMAIN r /\ a[i] = r[i]
                             \/ i = Len(r) + 1 /\ a[i] = h
  BY <1>1, AppendFacts
<1>3. /\ h \in Int /\ \A i \in DOMAIN r : r[i] \in Int
      /\ \A j \in DOMAIN q : q[j] \in Int
  BY <1>1, FeedAssumption DEF Ids
<1> HIDE DEF h, t, a
<1>4. Joins(t, q)
  BY <1>1 DEF Joins
<1>5. \A j \in DOMAIN q : h < q[j] \/ (h = q[j] /\ j = 1 /\ q[j] \in seam)
  BY <1>1 DEF Joins
<1>6. \A k \in DOMAIN r : r[k] < h
  BY DEF h
<1>7. \A k \in DOMAIN r, j \in DOMAIN q : r[k] < q[j]
  BY <1>3, <1>5, <1>6
<1>8. Joins(a, q)
  BY <1>2, <1>5, <1>7 DEF Joins
<1> QED BY <1>4, <1>8 DEF h, t, a

\* The loop of sse_response: a frame that is not before what the client holds goes
\* to the end of it.
LEMMA InOrderAppends ==
  ASSUME InOrder, seen \in Seq(Ids), NEW h \in Ids,
         \A k \in DOMAIN seen : seen[k] < h \/ (seen[k] = h /\ k = Len(seen) /\ h \in seam),
         seen' = Append(seen, h), seam' = seam
  PROVE  InOrder'
<1> DEFINE a == Append(seen, h)
<1>1. /\ Len(seen) \in Nat /\ DOMAIN seen = 1 .. Len(seen)
      /\ \A i \in DOMAIN a : i \in Int /\ (\/ i \in DOMAIN seen /\ a[i] = seen[i]
                                           \/ i = Len(seen) + 1 /\ a[i] = h)
  BY AppendFacts
<1> HIDE DEF a
<1>2. ASSUME NEW i \in DOMAIN a, NEW j \in DOMAIN a, i < j
      PROVE  a[i] < a[j] \/ (a[i] = a[j] /\ j = i + 1 /\ a[i] \in seam)
  <2>1. i \in DOMAIN seen /\ a[i] = seen[i]
    BY <1>1, <1>2
  <2>2. CASE j \in DOMAIN seen /\ a[j] = seen[j]
    BY <1>2, <2>1, <2>2 DEF InOrder
  <2>3. CASE j = Len(seen) + 1 /\ a[j] = h
    BY <2>1, <2>3
  <2> QED BY <1>1, <2>2, <2>3
<1>3. seen' = a
  BY DEF a
<1> QED BY <1>2, <1>3 DEF InOrder

\* The loop of sse_response, a frame of the replay.
LEMMA TakesReplay ==
  ASSUME FeedInv, client.pc = "on", client.replay # <<>>, Take(Head(client.replay)),
         UNCHANGED <<route, next_id, ring, sending, owed, lost, seam>>
  PROVE  FeedInv'
<1> DEFINE h == Head(client.replay)
           t == Tail(client.replay)
           a == Append(seen, h)
<1>0. /\ client \in Clients /\ client.rx \in Seq(Ids) /\ client.replay \in Seq(Ids)
      /\ seen \in Seq(Ids)
  BY DEF FeedInv, FeedTypeOK, Clients
<1>1. /\ t \in Seq(Ids) /\ h \in Ids /\ Len(t) = Len(client.replay) - 1
      /\ \A i \in DOMAIN t : i \in Int /\ i + 1 \in DOMAIN client.replay /\ t[i] = client.replay[i + 1]
      /\ 1 \in DOMAIN client.replay /\ h = client.replay[1]
      /\ Elements(client.replay) = {h} \cup Elements(t)
  BY <1>0, TailFacts
<1>2. /\ a \in Seq(Ids) /\ Len(a) = Len(seen) + 1 /\ Len(seen) \in Nat
      /\ \A i \in DOMAIN a : \/ i \in DOMAIN seen /\ a[i] = seen[i]
                             \/ i = Len(seen) + 1 /\ a[i] = h
      /\ Elements(a) = Elements(seen) \cup {h}
  BY <1>0, <1>1, AppendFacts
<1>3. Ascending(t) /\ \A i \in DOMAIN t : h < t[i]
  BY <1>0, TailAscends DEF FeedInv, Line
<1>n. /\ h \in Int /\ next_id \in Int /\ (sending # None => sending \in Int)
      /\ \A q \in Seq(Ids) : \A i \in DOMAIN q : q[i] \in Int
  BY <1>1, FeedAssumption DEF FeedInv, FeedTypeOK, Ids
<1>4. \A k \in DOMAIN seen : seen[k] < h
  BY <1>1 DEF FeedInv, Line
<1>5. ASSUME NEW q \in Seq(Ids), Joins(client.replay, q)
      PROVE  Joins(t, q) /\ Joins(a, q)
  BY <1>0, <1>4, <1>5, JoinsAdvance
<1>6. /\ client' = [Advance(client) EXCEPT !.last = client'.last]
      /\ \/ client'.last = h /\ seen' = a /\ h \in Wanted
         \/ client'.last = client.last /\ seen' = seen /\ h \notin Wanted
  BY <1>0, <1>1 DEF Take, Advance, Clients
<1> HIDE DEF h, t, a
<1>c. /\ client'.pc = "on" /\ client'.replay = t /\ client'.rx = client.rx /\ client' \in Clients
  <2>1. client'.last \in Ids \cup {None}
    BY <1>0, <1>1, <1>6 DEF Clients
  <2>2. client' = [client EXCEPT !.replay = t, !.last = client'.last]
    BY <1>0, <1>6 DEF Advance, Clients, t
  <2> QED BY <1>0, <1>1, <2>1, <2>2 DEF Clients
<1>7. FeedTypeOK'
  BY <1>0, <1>2, <1>6, <1>c DEF FeedInv, FeedTypeOK
<1>8. RingTail'
  BY DEF FeedInv, RingTail
<1>9. NothingElseLost'
  <2>1. Underway \subseteq Underway' \cup {h} /\ Elements(seen) \subseteq Elements(seen')
    BY <1>1, <1>2, <1>6, <1>c DEF Underway
  <2>2. h \in Wanted => h \in Elements(seen')
    BY <1>2, <1>6
  <2> QED BY <2>1, <2>2, <1>c DEF FeedInv, NothingElseLost, Wanted
<1>10. InOrder'
  BY <1>0, <1>1, <1>4, <1>6, InOrderAppends DEF FeedInv, InOrder, a
<1>11. Line'
  <2> DEFINE Late(w, x) == \A k \in DOMAIN w : w[k] < x \/ (w[k] = x /\ k = Len(w))
  <2>1. Below(t, next_id) /\ h < next_id
    BY <1>1 DEF FeedInv, Line, Below
  <2>2. Below(seen', next_id)
    BY <1>2, <1>6, <2>1 DEF FeedInv, Line, Below
  <2>3. \A k \in DOMAIN seen' : client'.last # None /\ seen'[k] <= client'.last
    <3>1. CASE seen' = seen /\ client'.last = client.last
      BY <3>1 DEF FeedInv, Line
    <3>2. CASE seen' = a /\ client'.last = h
      <4>1. h # None
        BY <1>1, FeedAssumption DEF Ids
      <4>2. \A k \in DOMAIN seen : seen[k] <= h
        BY <1>0, <1>4, <1>n
      <4> QED BY <3>2, <4>1, <4>2, <1>2, <1>n
    <3> QED BY <3>1, <3>2, <1>6
  <2>4. \A k \in DOMAIN seen', i \in DOMAIN t : seen'[k] < t[i]
    <3>1. \A k \in DOMAIN seen, i \in DOMAIN t : seen[k] < t[i]
      BY <1>1 DEF FeedInv, Line
    <3>2. \A k \in DOMAIN a, i \in DOMAIN t : a[k] < t[i]
      BY <1>2, <1>3, <3>1
    <3> QED BY <1>6, <3>1, <3>2
  <2>5. Joins(t, client.rx) /\ Joins(a, client.rx) /\ Joins(seen, client.rx)
    BY <1>0, <1>5 DEF FeedInv, Line
  <2>6. ASSUME sending # None
        PROVE  /\ Late(seen', sending)
               /\ Joins(t, <<sending>>) /\ Joins(seen, <<sending>>) /\ Joins(a, <<sending>>)
               /\ client.rx # <<>> => Below(t, sending) /\ Below(seen', sending)
    <3>1. <<sending>> \in Seq(Ids)
      BY <2>6 DEF FeedInv, FeedTypeOK
    <3>2. /\ Joins(client.replay, <<sending>>) /\ Joins(seen, <<sending>>)
          /\ client.rx # <<>> => Below(client.replay, sending) /\ Below(seen, sending)
      BY <2>6 DEF FeedInv, Line
    <3>3. Joins(t, <<sending>>) /\ Joins(a, <<sending>>)
      BY <3>1, <3>2, <1>5
    <3>4. \A p : Joins(p, <<sending>>) => Late(p, sending)
      BY DEF Joins
    <3>5. Late(seen', sending)
      BY <3>2, <3>3, <3>4, <1>6
    <3>6. client.rx # <<>> => Below(t, sending) /\ Below(seen', sending)
      BY <3>2, <1>1, <1>2, <1>6 DEF Below
    <3> QED BY <3>2, <3>3, <3>5, <3>6
  <2> HIDE DEF Late
  <2>7. /\ Joins(client.replay, client.rx)' /\ Joins(seen, client.rx)'
        /\ Below(client.replay, next_id)' /\ Below(seen, next_id)' /\ Below(client.rx, next_id)'
        /\ Ascending(client.replay)' /\ Ascending(client.rx)'
    BY <1>3, <1>6, <1>c, <2>1, <2>2, <2>5 DEF FeedInv, Line, Joins, Below, Ascending
  <2>8. sending # None =>
          /\ Below(client.rx, sending)'
          /\ Joins(client.replay, <<sending>>)' /\ Joins(seen, <<sending>>)'
          /\ (client.rx # <<>>)' => Below(client.replay, sending)' /\ Below(seen, sending)'
    BY <1>6, <1>c, <2>6 DEF FeedInv, Line, Joins, Below
  <2> QED BY <1>c, <2>3, <2>4, <2>6, <2>7, <2>8 DEF Line, Late
<1> QED BY <1>7, <1>8, <1>9, <1>10, <1>11 DEF FeedInv

\* The loop of sse_response, a frame of the channel: the replay is over.
LEMMA TakesLive ==
  ASSUME FeedInv, client.pc = "on", client.replay = <<>>, client.rx # <<>>,
         Take(Head(client.rx)),
         UNCHANGED <<route, next_id, ring, sending, owed, lost, seam>>
  PROVE  FeedInv'
<1> DEFINE h == Head(client.rx)
           t == Tail(client.rx)
           a == Append(seen, h)
<1>0. /\ client \in Clients /\ client.rx \in Seq(Ids) /\ seen \in Seq(Ids)
  BY DEF FeedInv, FeedTypeOK, Clients
<1>1. /\ t \in Seq(Ids) /\ h \in Ids
      /\ \A i \in DOMAIN t : i + 1 \in DOMAIN client.rx /\ t[i] = client.rx[i + 1]
      /\ 1 \in DOMAIN client.rx /\ h = client.rx[1]
      /\ Elements(client.rx) = {h} \cup Elements(t)
  BY <1>0, TailFacts
<1>2. /\ a \in Seq(Ids)
      /\ \A i \in DOMAIN a : \/ i \in DOMAIN seen /\ a[i] = seen[i]
                             \/ i = Len(seen) + 1 /\ a[i] = h
      /\ Elements(a) = Elements(seen) \cup {h}
  BY <1>0, <1>1, AppendFacts
<1>3. Ascending(t) /\ \A i \in DOMAIN t : h < t[i]
  BY <1>0, TailAscends DEF FeedInv, Line
<1>n. /\ h \in Int /\ h # None
      /\ \A q \in Seq(Ids) : \A i \in DOMAIN q : q[i] \in Int
  BY <1>1, FeedAssumption DEF Ids
<1>4. \A k \in DOMAIN seen : seen[k] < h \/ (seen[k] = h /\ k = Len(seen) /\ h \in seam)
  BY <1>1 DEF FeedInv, Line, Joins
<1>5. \A k \in DOMAIN seen : seen[k] <= h
  BY <1>0, <1>4, <1>n
<1>6. /\ client' = [Advance(client) EXCEPT !.last = client'.last]
      /\ \/ client'.last = h /\ seen' = a /\ h \in Wanted
         \/ client'.last = client.last /\ seen' = seen /\ h \notin Wanted
  BY <1>0, <1>1 DEF Take, Advance, Clients
<1> HIDE DEF h, t, a
<1>c. /\ client'.pc = "on" /\ client'.replay = <<>> /\ client'.rx = t /\ client' \in Clients
  <2>1. client'.last \in Ids \cup {None}
    BY <1>0, <1>1, <1>6 DEF Clients
  <2>2. client' = [client EXCEPT !.rx = t, !.last = client'.last]
    BY <1>0, <1>6 DEF Advance, Clients, t
  <2> QED BY <1>0, <1>1, <2>1, <2>2 DEF Clients
<1>7. FeedTypeOK'
  BY <1>0, <1>2, <1>6, <1>c DEF FeedInv, FeedTypeOK
<1>8. RingTail'
  BY DEF FeedInv, RingTail
<1>9. NothingElseLost'
  <2>1. Underway \subseteq Underway' \cup {h} /\ Elements(seen) \subseteq Elements(seen')
    BY <1>1, <1>2, <1>6, <1>c DEF Underway
  <2>2. h \in Wanted => h \in Elements(seen')
    BY <1>2, <1>6
  <2> QED BY <2>1, <2>2, <1>c DEF FeedInv, NothingElseLost, Wanted
<1>10. InOrder'
  BY <1>0, <1>1, <1>4, <1>6, InOrderAppends DEF FeedInv, InOrder, a
<1>11. Line'
  <2>1. Below(t, next_id) /\ h < next_id
    BY <1>1 DEF FeedInv, Line, Below
  <2>2. Below(seen', next_id)
    BY <1>2, <1>6, <2>1 DEF FeedInv, Line, Below
  <2>3. \A k \in DOMAIN seen' : client'.last # None /\ seen'[k] <= client'.last
    <3>1. CASE seen' = seen /\ client'.last = client.last
      BY <3>1 DEF FeedInv, Line
    <3>2. CASE seen' = a /\ client'.last = h
      BY <3>2, <1>2, <1>5, <1>n
    <3> QED BY <3>1, <3>2, <1>6
  <2>4. \A k \in DOMAIN seen', i \in DOMAIN t : seen'[k] < t[i]
    <3>1. \A k \in DOMAIN seen, i \in DOMAIN t : seen[k] < t[i]
      BY <1>0, <1>1, <1>3, <1>5, <1>n
    <3>2. \A k \in DOMAIN a, i \in DOMAIN t : a[k] < t[i]
      BY <1>2, <1>3, <3>1
    <3> QED BY <1>6, <3>1, <3>2
  <2>5. sending # None => Below(t, sending) /\ Below(seen', sending)
    <3>1. sending # None => Below(client.rx, sending) /\ Below(seen, sending)
      BY DEF FeedInv, Line
    <3>2. sending # None => h < sending /\ Below(t, sending)
      BY <3>1, <1>1 DEF Below
    <3> QED BY <3>1, <3>2, <1>2, <1>6 DEF Below
  <2>6. sending # None => Joins(client.replay, <<sending>>)' /\ Joins(seen, <<sending>>)'
    <3>1. \A j \in DOMAIN <<sending>> : <<sending>>[j] = sending
      OBVIOUS
    <3> QED BY <3>1, <1>c, <2>5 DEF Joins, Below
  <2>7. Joins(client.replay, client.rx)' /\ Joins(seen, client.rx)'
    BY <1>c, <2>4 DEF Joins
  <2>8. /\ Below(client.replay, next_id)' /\ Below(seen, next_id)' /\ Below(client.rx, next_id)'
        /\ Ascending(client.replay)' /\ Ascending(client.rx)'
    BY <1>3, <1>c, <2>1, <2>2 DEF Below, Ascending
  <2>9. sending # None => /\ Below(client.rx, sending)' /\ Below(client.replay, sending)'
                          /\ Below(seen, sending)'
    BY <1>c, <2>5 DEF Below
  <2>10. sending # None =>
           \A k \in DOMAIN seen' : seen'[k] < sending \/ (seen'[k] = sending /\ k = Len(seen'))
    BY <2>5 DEF Below
  <2> QED BY <1>c, <2>3, <2>6, <2>7, <2>8, <2>9, <2>10 DEF Line
<1> QED BY <1>7, <1>8, <1>9, <1>10, <1>11 DEF FeedInv

\* The loop of sse_response; a lag notice changes nothing else.
LEMMA DeliverKeeps == FeedInv /\ Deliver /\ UNCHANGED route => FeedInv'
<1> SUFFICES ASSUME FeedInv, Deliver, UNCHANGED route PROVE FeedInv'
  OBVIOUS
<1>0. client.pc = "on" /\ UNCHANGED <<route, next_id, ring, sending, owed, lost, seam>>
  BY DEF Deliver
<1>1. CASE client.replay # <<>> /\ Take(Head(client.replay))
  BY <1>0, <1>1, TakesReplay
<1>2. CASE client' = [client EXCEPT !.lag = FALSE] /\ UNCHANGED seen
  <2>1. /\ client'.pc = client.pc /\ client'.replay = client.replay /\ client'.rx = client.rx
        /\ client'.last = client.last /\ client' \in Clients
    BY <1>2 DEF FeedInv, FeedTypeOK, Clients
  <2>2. FeedTypeOK'
    BY <1>0, <1>2, <2>1 DEF FeedInv, FeedTypeOK
  <2>3. RingTail' /\ InOrder'
    BY <1>0, <1>2 DEF FeedInv, RingTail, InOrder
  <2>4. NothingElseLost'
    BY <1>0, <1>2, <2>1 DEF FeedInv, NothingElseLost, Underway, Wanted
  <2>5. Line'
    BY <1>0, <1>2, <2>1 DEF FeedInv, Line, Below, Ascending, Joins
  <2> QED BY <2>2, <2>3, <2>4, <2>5 DEF FeedInv
<1>3. CASE client.replay = <<>> /\ client.rx # <<>> /\ Take(Head(client.rx))
  BY <1>0, <1>3, TakesLive
<1> QED BY <1>1, <1>2, <1>3 DEF Deliver

\* The connection drops, or the server with it: what was received stays.
LEMMA LeavingKeeps == FeedInv /\ (Disconnect \/ RestartServer) /\ UNCHANGED route => FeedInv'
<1> SUFFICES ASSUME FeedInv, Disconnect \/ RestartServer, UNCHANGED route PROVE FeedInv'
  OBVIOUS
<1>0. client' = Away(client.last) /\ client \in Clients
  BY DEF FeedInv, FeedTypeOK, Disconnect, RestartServer
<1>c. /\ client'.pc = "off" /\ client'.replay = <<>> /\ client'.rx = <<>>
      /\ client'.last = client.last /\ client' \in Clients
  BY <1>0 DEF Away, Clients
<1>1. NothingElseLost'
  BY <1>c DEF NothingElseLost
<1>2. CASE Disconnect
  <2>1. UNCHANGED <<route, next_id, ring, sending, seen, owed, lost, seam>>
    BY <1>2 DEF Disconnect
  <2>2. FeedTypeOK' /\ RingTail' /\ InOrder'
    BY <1>c, <2>1 DEF FeedInv, FeedTypeOK, RingTail, InOrder
  <2>3. Line'
    BY <1>c, <2>1 DEF FeedInv, Line, Below, Ascending, Joins
  <2> QED BY <1>1, <2>2, <2>3 DEF FeedInv
<1>3. CASE RestartServer
  <2>1. /\ next_id' = 1 /\ ring' = <<>> /\ sending' = None /\ seen' = <<>>
        /\ owed' = {} /\ lost' = {} /\ seam' = {}
    BY <1>3 DEF RestartServer
  <2>2. FeedTypeOK'
    BY <1>c, <2>1, FeedAssumption DEF FeedInv, FeedTypeOK
  <2>3. RingTail' /\ InOrder'
    BY <2>1 DEF RingTail, InOrder
  <2>4. Line'
    BY <1>c, <2>1 DEF Line, Below, Ascending, Joins
  <2> QED BY <1>1, <2>2, <2>3, <2>4 DEF FeedInv
<1> QED BY <1>2, <1>3

\* The hub and the response task, step by step.
LEMMA FeedStep == FeedInv /\ [FeedNext]_fvars => FeedInv'
<1>1. CASE UNCHANGED fvars
  BY <1>1 DEF fvars, FeedInv, FeedTypeOK, RingTail, Line, Below, Ascending, Joins,
     InOrder, NothingElseLost, Underway, Wanted
<1>2. CASE FeedNext
  BY <1>2, BroadcastKeeps, SendKeeps, ConnectKeeps, SubscribeKeeps, DeliverKeeps, LeavingKeeps
     DEF FeedNext
<1> QED BY <1>1, <1>2

-----------------------------------------------------------------------------
(* The theorems. *)

(***************************************************************************)
(* Whatever the sizes of ring and channel and however often a client drops *)
(* off and comes back: a frame it should get is received or on its way,    *)
(* unless it was sent between replay and subscription or the channel       *)
(* overflowed (broadcast, replay_since, sse_response).                     *)
(***************************************************************************)
THEOREM NothingElseLostHolds == FeedSpec => []NothingElseLost
<1>1. FeedInv => NothingElseLost
  BY DEF FeedInv
<1> QED BY <1>1, FeedStarts, FeedStep, PTL DEF FeedSpec

(***************************************************************************)
(* Frames are received in the order of their ids, each once but for the    *)
(* one that was between ring and channel at a subscription (broadcast,     *)
(* replay_since, sse_response).                                            *)
(***************************************************************************)
THEOREM InOrderHolds == FeedSpec => []InOrder
<1>1. FeedInv => InOrder
  BY DEF FeedInv
<1> QED BY <1>1, FeedStarts, FeedStep, PTL DEF FeedSpec

=============================================================================
