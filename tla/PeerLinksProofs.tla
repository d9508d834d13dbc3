-------------------------- MODULE PeerLinksProofs ----------------------------
(***************************************************************************)
(* The registry and the outbound sessions, for any number of configured    *)
(* peers, probing tasks, bridges, changes of id and failures.  Neither     *)
(* invariant is inductive by itself: which handle owns a bridge, and under *)
(* which key its opener will clear it, has to be known as well.            *)
(***************************************************************************)
EXTENDS PeerLinks, TLAPS

ConnState == {"unused", "opening", "up", "closing", "closed"}

Probe == [pc : {"idle", "answered", "learned", "ensure"}, handle : Handles \cup {NoId},
          id : Ids \cup {NoId}, prev : Ids \cup {NoId}]

\* The variables the argument reads, and that a probe under way has a handle.
LinksTypeOK ==
  /\ conn \in [Bridges -> ConnState]
  /\ sessions \subseteq Keys \X Bridges
  /\ learned \in [Handles -> Ids \cup {NoId}]
  /\ started \in [Handles -> BOOLEAN]
  /\ outbound \in [Handles -> Bridges \cup {NoBridge}]
  /\ as \in [Handles -> Keys]
  /\ remote_id \in [Handles -> Ids]
  /\ probe \in [Probers -> Probe]
  /\ \A c \in Probers : probe[c].pc # "idle" => probe[c].handle \in Handles
  /\ \A c \in Probers : probe[c].pc \in {"answered", "learned"} => probe[c].id \in Ids

\* A bridge that is being opened or pumped by a handle has no other handle.
Owned ==
  /\ \A h \in Handles : outbound[h] # NoBridge
                          => conn[outbound[h]] \in {"opening", "up", "closing"}
  /\ \A g, h \in Handles : outbound[g] = outbound[h] /\ outbound[h] # NoBridge => g = h

\* A listed bridge has been handed out; it is dead only if its key was changed
\* while it was being opened; until then its opener knows its key.
Listed ==
  \A k \in Keys, b \in Bridges : <<k, b>> \in sessions =>
    /\ conn[b] # "unused"
    /\ conn[b] = "closed" => b \in renamed
    /\ \A h \in Handles : outbound[h] = b /\ conn[b] = "opening"
                            => k = as[h] \/ b \in renamed

LinksInv == LinksTypeOK /\ OneOutbound /\ Owned /\ Listed

-----------------------------------------------------------------------------
(* Re-keying. *)

\* A key is a key: names and ids, and no absent one.
LEMMA KeyFacts ==
  /\ \A h \in Handles : Name[h] \in Keys /\ Name[h] \notin Ids
  /\ Ids \subseteq Keys
  /\ NoId \notin Keys /\ NoBridge \notin Bridges
BY LinksAssumption DEF Keys

\* migrate_peer_id moves the entries of one key and no other.
LEMMA MigrateFacts ==
  ASSUME NEW rel, rel \subseteq Keys \X Bridges, NEW from, NEW to \in Keys
  PROVE  /\ Migrate(rel, from, to) \subseteq Keys \X Bridges
         /\ \A k \in Keys, b \in Bridges : <<k, b>> \in Migrate(rel, from, to) =>
              <<k, b>> \in rel \/ (k = to /\ from # to /\ <<from, b>> \in rel)
<1>1. CASE from = NoId \/ from = to
  BY <1>1 DEF Migrate
<1>2. CASE ~(from = NoId \/ from = to)
  <2>1. Migrate(rel, from, to) = {IF e[1] = from THEN <<to, e[2]>> ELSE e : e \in rel}
    BY <1>2 DEF Migrate
  <2>2. ASSUME NEW e \in rel
        PROVE  \E k \in Keys, b \in Bridges : e = <<k, b>>
    OBVIOUS
  <2>3. Migrate(rel, from, to) \subseteq Keys \X Bridges
    BY <2>1, <2>2
  <2>4. ASSUME NEW k \in Keys, NEW b \in Bridges, <<k, b>> \in Migrate(rel, from, to)
        PROVE  <<k, b>> \in rel \/ (k = to /\ from # to /\ <<from, b>> \in rel)
    <3>1. PICK e \in rel : <<k, b>> = IF e[1] = from THEN <<to, e[2]>> ELSE e
      BY <2>1, <2>4
    <3>2. PICK x \in Keys, y \in Bridges : e = <<x, y>>
      BY <2>2
    <3> QED BY <1>2, <3>1, <3>2
  <2> QED BY <2>3, <2>4
<1> QED BY <1>1, <1>2

\* Two migrations to id, from an old key and from a configured name: a bridge
\* that is being opened keeps its keys or is recorded as renamed.
LEMMA RekeyListed ==
  ASSUME LinksInv, NEW old, NEW h \in Handles, NEW id \in Ids,
         sessions' = Migrate(Migrate(sessions, old, id), Name[h], id),
         renamed' = renamed \cup MovedWhileOpening(old, id) \cup MovedWhileOpening(Name[h], id),
         conn' = conn, outbound' = outbound,
         \A g \in Handles : outbound[g] # NoBridge /\ conn[outbound[g]] = "opening"
                              => as'[g] = as[g]
  PROVE  sessions' \subseteq Keys \X Bridges /\ Listed'
<1> DEFINE mid == Migrate(sessions, old, id)
<1>1. sessions \subseteq Keys \X Bridges /\ id \in Keys
  BY KeyFacts DEF LinksInv, LinksTypeOK
<1>2. /\ mid \subseteq Keys \X Bridges
      /\ \A k \in Keys, b \in Bridges : <<k, b>> \in mid =>
           <<k, b>> \in sessions \/ (k = id /\ old # id /\ <<old, b>> \in sessions)
  BY <1>1, MigrateFacts
<1> HIDE DEF mid
<1>3. /\ sessions' \subseteq Keys \X Bridges
      /\ \A k \in Keys, b \in Bridges : <<k, b>> \in sessions' =>
           <<k, b>> \in mid \/ (k = id /\ Name[h] # id /\ <<Name[h], b>> \in mid)
  BY <1>1, <1>2, MigrateFacts DEF mid
<1>4. ASSUME NEW k \in Keys, NEW b \in Bridges, <<k, b>> \in sessions'
      PROVE  /\ \E x \in Keys : <<x, b>> \in sessions
             /\ \/ <<k, b>> \in sessions
                \/ old # id /\ <<old, b>> \in sessions
                \/ Name[h] # id /\ <<Name[h], b>> \in sessions
  <2>1. /\ Name[h] \in Keys /\ Name[h] # id
    BY KeyFacts
  <2>2. \/ <<k, b>> \in sessions
        \/ old # id /\ <<old, b>> \in sessions
        \/ Name[h] # id /\ <<Name[h], b>> \in sessions
    BY <1>2, <1>3, <1>4, <2>1
  <2>3. <<old, b>> \in sessions => old \in Keys
    BY <1>1
  <2> QED BY <2>1, <2>2, <2>3
<1>5. Listed'
  <2> SUFFICES ASSUME NEW k \in Keys, NEW b \in Bridges, <<k, b>> \in sessions'
               PROVE  /\ conn[b] # "unused"
                      /\ conn[b] = "closed" => b \in renamed'
                      /\ \A g \in Handles : outbound[g] = b /\ conn[b] = "opening"
                                              => k = as'[g] \/ b \in renamed'
    BY DEF Listed
  <2>1. conn[b] # "unused" /\ (conn[b] = "closed" => b \in renamed)
    BY <1>4 DEF LinksInv, Listed
  <2>2. ASSUME NEW g \in Handles, outbound[g] = b, conn[b] = "opening", b \notin renamed'
        PROVE  k = as'[g]
    <3>1. <<k, b>> \in sessions
      BY <1>4, <2>2 DEF MovedWhileOpening
    <3>2. as'[g] = as[g]
      BY <2>2, KeyFacts
    <3> QED BY <2>2, <3>1, <3>2 DEF LinksInv, Listed
  <2> QED BY <2>1, <2>2
<1> QED BY <1>3, <1>5

-----------------------------------------------------------------------------
(* The steps. *)

\* Nothing is listed and nothing is open at the start.
LEMMA LinksInitInv == LinksInit => LinksInv
<1> SUFFICES ASSUME LinksInit PROVE LinksInv
  OBVIOUS
<1>1. LinksTypeOK
  BY KeyFacts, LinksAssumption DEF LinksInit, LinksTypeOK, Idle, Probe, ConnState
<1> QED BY <1>1, KeyFacts DEF LinksInit, LinksInv, OneOutbound, Owned, Listed

\* The steps of a probe that only move the probe, or learn an id.
LEMMA ProbeMoves ==
  ASSUME LinksInv, NEW c \in Probers,
         \/ \E h \in Handles : ProbeCached(c, h) \/ ProbeAnswered(c, h)
         \/ ProbeLearns(c) \/ EnsureNothing(c) \/ EnsureRefused(c)
  PROVE  LinksInv'
<1> USE DEF LinksInv
<1>1. UNCHANGED <<conn, sessions, started, outbound, as, remote_id, renamed>>
  BY DEF ProbeCached, ProbeAnswered, ProbeLearns, EnsureNothing, EnsureRefused, RestOfProbe
<1>2. learned' \in [Handles -> Ids \cup {NoId}]
  BY DEF ProbeCached, ProbeAnswered, ProbeLearns, EnsureNothing, EnsureRefused, LinksTypeOK
<1>3. PICK p : /\ p \in Probe
               /\ p.pc # "idle" => p.handle \in Handles
               /\ p.pc \in {"answered", "learned"} => p.id \in Ids
               /\ probe' = [probe EXCEPT ![c] = p]
  <2>1. CASE \E h \in Handles : ProbeCached(c, h)
    BY <2>1 DEF ProbeCached, Idle, Probe
  <2>2. CASE \E h \in Handles : ProbeAnswered(c, h)
    BY <2>2 DEF ProbeAnswered, Probe, LinksTypeOK
  <2>3. CASE ProbeLearns(c)
    BY <2>3 DEF ProbeLearns, Probe, LinksTypeOK
  <2>4. CASE EnsureNothing(c) \/ EnsureRefused(c)
    BY <2>4 DEF EnsureNothing, EnsureRefused, Idle, Probe
  <2> QED BY <2>1, <2>2, <2>3, <2>4
<1>4. LinksTypeOK'
  BY <1>1, <1>2, <1>3 DEF LinksTypeOK
<1> QED BY <1>1, <1>4 DEF OneOutbound, Owned, Listed

\* A probe collapses the aliases of its handle into the id it was answered with.
LEMMA ProbeRekeysStep ==
  ASSUME LinksInv, NEW c \in Probers, ProbeRekeys(c)
  PROVE  LinksInv'
<1> USE DEF LinksInv
<1>1. probe[c].handle \in Handles /\ probe[c].id \in Ids /\ probe[c] \in Probe
  BY DEF ProbeRekeys, LinksTypeOK
<1>2. UNCHANGED <<conn, learned, started, outbound, as, remote_id>>
  BY DEF ProbeRekeys, RestOfProbe
<1>3. sessions' \subseteq Keys \X Bridges /\ Listed'
  BY <1>1, <1>2, RekeyListed DEF ProbeRekeys
<1>4. probe' = [probe EXCEPT ![c].pc = "ensure"]
  BY DEF ProbeRekeys
<1>5. LinksTypeOK'
  BY <1>1, <1>2, <1>3, <1>4 DEF LinksTypeOK, Probe
<1> QED BY <1>2, <1>3, <1>5 DEF OneOutbound, Owned

\* A session is opened: the flag was down, the bridge is unused, hence unlisted
\* and no one else's.
LEMMA EnsureOpensStep ==
  ASSUME LinksInv, NEW c \in Probers, NEW b \in Bridges, EnsureOpens(c, b)
  PROVE  LinksInv'
<1> USE DEF LinksInv
<1> DEFINE h == probe[c].handle
           k == IF learned[h] # NoId THEN learned[h] ELSE Name[h]
<1>1. h \in Handles /\ k \in Keys
  BY KeyFacts DEF EnsureOpens, LinksTypeOK
<1>2. /\ probe[c].pc = "ensure"
      /\ ~started[h] /\ conn[b] = "unused"
      /\ started' = [started EXCEPT ![h] = TRUE]
      /\ outbound' = [outbound EXCEPT ![h] = b]
      /\ as' = [as EXCEPT ![h] = k]
      /\ sessions' = sessions \cup {<<k, b>>}
      /\ conn' = [conn EXCEPT ![b] = "opening"]
      /\ probe' = [probe EXCEPT ![c] = Idle]
      /\ UNCHANGED <<learned, remote_id, renamed>>
  BY DEF EnsureOpens, Fresh, Unused
<1> HIDE DEF h, k
<1>3. LinksTypeOK'
  <2>1. Idle \in Probe /\ Idle.pc = "idle"
    BY DEF Idle, Probe
  <2>2. sessions' \subseteq Keys \X Bridges
    BY <1>1, <1>2 DEF LinksTypeOK
  <2>3. conn' \in [Bridges -> ConnState] /\ started' \in [Handles -> BOOLEAN]
    BY <1>2 DEF LinksTypeOK, ConnState
  <2>4. outbound' \in [Handles -> Bridges \cup {NoBridge}] /\ as' \in [Handles -> Keys]
    BY <1>1, <1>2 DEF LinksTypeOK
  <2>5. /\ probe' \in [Probers -> Probe]
        /\ \A d \in Probers : probe'[d] = IF d = c THEN Idle ELSE probe[d]
    BY <1>2, <2>1 DEF LinksTypeOK
  <2> QED BY <1>2, <2>1, <2>2, <2>3, <2>4, <2>5 DEF LinksTypeOK
<1>4. \A g \in Handles : outbound[g] # b
  BY <1>2, KeyFacts DEF Owned
<1>5. OneOutbound'
  BY <1>1, <1>2, <1>4, KeyFacts DEF OneOutbound, LinksTypeOK
<1>6. Owned'
  BY <1>1, <1>2, <1>4, KeyFacts DEF Owned, LinksTypeOK
<1>7. Listed'
  <2> SUFFICES ASSUME NEW x \in Keys, NEW a \in Bridges, <<x, a>> \in sessions'
               PROVE  /\ conn'[a] # "unused"
                      /\ conn'[a] = "closed" => a \in renamed
                      /\ \A g \in Handles : outbound'[g] = a /\ conn'[a] = "opening"
                                              => x = as'[g] \/ a \in renamed
    BY <1>2 DEF Listed
  <2>1. CASE a = b
    <3>1. x = k
      BY <1>2, <2>1 DEF Listed
    <3>2. \A g \in Handles : outbound'[g] = b => g = h
      BY <1>1, <1>2, <1>4 DEF LinksTypeOK
    <3> QED BY <1>1, <1>2, <2>1, <3>1, <3>2 DEF LinksTypeOK
  <2>2. CASE a # b
    <3>1. <<x, a>> \in sessions /\ conn'[a] = conn[a]
      BY <1>2, <2>2 DEF LinksTypeOK
    <3>2. \A g \in Handles : outbound'[g] = a => g # h /\ outbound[g] = a /\ as'[g] = as[g]
      BY <1>1, <1>2, <2>2 DEF LinksTypeOK
    <3> QED BY <3>1, <3>2 DEF Listed
  <2> QED BY <2>1, <2>2
<1> QED BY <1>3, <1>5, <1>6, <1>7

\* The open call of a handle returns, one way or the other.
LEMMA OpenSteps ==
  ASSUME LinksInv, NEW h \in Handles, OpenSucceeds(h) \/ OpenFails(h)
  PROVE  LinksInv'
<1> USE DEF LinksInv
<1> DEFINE b == outbound[h]
<1>1. b \in Bridges /\ conn[b] = "opening" /\ \A g \in Handles : outbound[g] = b => g = h
  BY KeyFacts DEF OpenSucceeds, OpenFails, LinksTypeOK, Owned
<1>2. CASE OpenSucceeds(h)
  <2>1. /\ conn' = [conn EXCEPT ![b] = "up"]
        /\ UNCHANGED <<sessions, learned, started, outbound, as, probe, remote_id, renamed>>
    BY <1>2 DEF OpenSucceeds
  <2> HIDE DEF b
  <2>2. LinksTypeOK'
    BY <1>1, <2>1 DEF LinksTypeOK, ConnState
  <2>3. OneOutbound' /\ Owned'
    BY <1>1, <2>1 DEF OneOutbound, Owned, LinksTypeOK
  <2>4. Listed'
    BY <1>1, <2>1 DEF Listed, LinksTypeOK
  <2> QED BY <2>2, <2>3, <2>4
<1>3. CASE OpenFails(h)
  <2>1. /\ sessions' = sessions \ {<<as[h], b>>}
        /\ started' = [started EXCEPT ![h] = FALSE]
        /\ outbound' = [outbound EXCEPT ![h] = NoBridge]
        /\ conn' = [conn EXCEPT ![b] = "closed"]
        /\ UNCHANGED <<learned, as, probe, remote_id, renamed>>
    BY <1>3 DEF OpenFails
  <2>2. LinksTypeOK'
    BY <1>1, <2>1 DEF LinksTypeOK, ConnState
  <2>3. OneOutbound'
    BY <1>1, <2>1 DEF OneOutbound, LinksTypeOK
  <2>4. Owned'
    BY <1>1, <2>1 DEF Owned, LinksTypeOK
  <2>5. Listed'
    <3> SUFFICES ASSUME NEW k \in Keys, NEW a \in Bridges, <<k, a>> \in sessions'
                 PROVE  /\ conn'[a] # "unused"
                        /\ conn'[a] = "closed" => a \in renamed
                        /\ \A g \in Handles : outbound'[g] = a /\ conn'[a] = "opening"
                                                => k = as[g] \/ a \in renamed
      BY <2>1 DEF Listed
    <3>1. <<k, a>> \in sessions /\ <<k, a>> # <<as[h], b>>
      BY <2>1
    <3>2. CASE a = b
      <4>1. b \in renamed
        BY <1>1, <3>1, <3>2 DEF Listed
      <4> QED BY <1>1, <2>1, <3>2, <4>1 DEF LinksTypeOK
    <3>3. CASE a # b
      <4>1. conn'[a] = conn[a] /\ \A g \in Handles : outbound'[g] = a => outbound[g] = a
        BY <1>1, <2>1, <3>3, KeyFacts DEF LinksTypeOK
      <4> QED BY <3>1, <4>1 DEF Listed
    <3> QED BY <3>2, <3>3
  <2> QED BY <2>2, <2>3, <2>4, <2>5
<1> QED BY <1>2, <1>3

\* The Hello of the remote re-keys the session of a task whose bridge is up.
LEMMA HelloStep ==
  ASSUME LinksInv, NEW h \in Handles, HelloRenames(h)
  PROVE  LinksInv'
<1> USE DEF LinksInv
<1> DEFINE id == remote_id[h]
<1>1. id \in Ids /\ id \in Keys
  BY KeyFacts DEF LinksTypeOK
<1>2. /\ outbound[h] # NoBridge /\ conn[outbound[h]] = "up"
      /\ sessions' = Migrate(Migrate(sessions, as[h], id), Name[h], id)
      /\ renamed' = renamed \cup MovedWhileOpening(as[h], id) \cup MovedWhileOpening(Name[h], id)
      /\ learned' = [learned EXCEPT ![h] = id]
      /\ as' = [as EXCEPT ![h] = id]
      /\ UNCHANGED <<conn, started, outbound, probe, remote_id>>
  BY DEF HelloRenames
<1> HIDE DEF id
<1>3. \A g \in Handles : outbound[g] # NoBridge /\ conn[outbound[g]] = "opening"
                           => as'[g] = as[g]
  BY <1>2 DEF LinksTypeOK
<1>4. sessions' \subseteq Keys \X Bridges /\ Listed'
  BY <1>1, <1>2, <1>3, RekeyListed
<1>5. LinksTypeOK'
  BY <1>1, <1>2, <1>4 DEF LinksTypeOK
<1> QED BY <1>2, <1>4, <1>5 DEF OneOutbound, Owned

\* A connection breaks, because of the network or of a remote that came back
\* under another id.
LEMMA BreakSteps ==
  ASSUME LinksInv,
         \/ \E b \in Bridges : Breaks(b)
         \/ \E h \in Handles, id \in Ids : RemoteRenamed(h, id)
  PROVE  LinksInv'
<1> USE DEF LinksInv
<1>1. /\ \A b \in Bridges : conn'[b] = conn[b] \/ (conn[b] = "up" /\ conn'[b] = "closing")
      /\ conn' \in [Bridges -> ConnState]
  BY DEF Breaks, RemoteRenamed, LinksTypeOK, ConnState
<1>2. UNCHANGED <<sessions, learned, started, outbound, as, probe, renamed>>
  BY DEF Breaks, RemoteRenamed
<1>3. remote_id' \in [Handles -> Ids]
  BY DEF Breaks, RemoteRenamed, LinksTypeOK
<1>4. LinksTypeOK'
  BY <1>1, <1>2, <1>3 DEF LinksTypeOK
<1>5. OneOutbound' /\ Owned'
  BY <1>1, <1>2, KeyFacts DEF OneOutbound, Owned, LinksTypeOK
<1>6. Listed'
  BY <1>1, <1>2 DEF Listed
<1> QED BY <1>4, <1>5, <1>6

\* The pump ends: the bridge leaves every key, and its handle, if any, is free.
LEMMA PumpEndsStep ==
  ASSUME LinksInv, NEW b \in Bridges, PumpEnds(b)
  PROVE  LinksInv'
<1> USE DEF LinksInv
<1>1. /\ conn[b] = "closing"
      /\ sessions' = {e \in sessions : e[2] # b}
      /\ started' = [h \in Handles |-> h \notin {g \in Handles : outbound[g] = b} /\ started[h]]
      /\ outbound' = [h \in Handles |-> IF outbound[h] = b THEN NoBridge ELSE outbound[h]]
      /\ conn' = [conn EXCEPT ![b] = "closed"]
      /\ UNCHANGED <<learned, as, probe, remote_id, renamed>>
  BY DEF PumpEnds, ClearBridge
<1>2. LinksTypeOK'
  BY <1>1 DEF LinksTypeOK, ConnState
<1>3. OneOutbound'
  <2>1. ASSUME NEW h \in Handles
        PROVE  started'[h] <=> outbound'[h] # NoBridge
    BY <1>1, KeyFacts DEF OneOutbound, LinksTypeOK
  <2>2. ASSUME NEW a \in Bridges, conn'[a] = "opening"
        PROVE  \E h \in Handles : outbound'[h] = a
    BY <1>1, <2>2 DEF OneOutbound, LinksTypeOK
  <2> QED BY <2>1, <2>2 DEF OneOutbound
<1>4. Owned'
  BY <1>1 DEF Owned, LinksTypeOK
<1>5. Listed'
  <2> SUFFICES ASSUME NEW k \in Keys, NEW a \in Bridges, <<k, a>> \in sessions'
               PROVE  /\ conn'[a] # "unused"
                      /\ conn'[a] = "closed" => a \in renamed
                      /\ \A g \in Handles : outbound'[g] = a /\ conn'[a] = "opening"
                                              => k = as[g] \/ a \in renamed
    BY <1>1 DEF Listed
  <2>1. a # b /\ <<k, a>> \in sessions
    BY <1>1
  <2>2. conn'[a] = conn[a] /\ \A g \in Handles : outbound'[g] = a => outbound[g] = a
    BY <1>1, <2>1, KeyFacts DEF LinksTypeOK
  <2> QED BY <2>1, <2>2 DEF Listed
<1> QED BY <1>2, <1>3, <1>4, <1>5

\* A remote dials us.
LEMMA AcceptStep ==
  ASSUME LinksInv, NEW k \in Ids, NEW b \in Bridges, Accept(k, b)
  PROVE  LinksInv'
<1> USE DEF LinksInv
<1>1. /\ conn[b] = "unused"
      /\ conn' = [conn EXCEPT ![b] = "up"]
      /\ sessions' = sessions \cup {<<k, b>>}
      /\ UNCHANGED <<learned, started, outbound, as, probe, remote_id, renamed>>
  BY DEF Accept, Fresh, Unused
<1>2. LinksTypeOK'
  <2>1. sessions' \subseteq Keys \X Bridges
    BY <1>1, KeyFacts DEF LinksTypeOK
  <2>2. conn' \in [Bridges -> ConnState]
    BY <1>1 DEF LinksTypeOK, ConnState
  <2> QED BY <1>1, <2>1, <2>2 DEF LinksTypeOK
<1>3. OneOutbound' /\ Owned'
  BY <1>1 DEF OneOutbound, Owned, LinksTypeOK
<1>4. Listed'
  BY <1>1 DEF Listed, LinksTypeOK
<1> QED BY <1>2, <1>3, <1>4

\* URLs come and go without a trace in the sessions.
LEMMA UrlSteps ==
  ASSUME LinksInv,
         \/ \E k \in Ids : HealthAsked(k)
         \/ \E k \in Keys, u \in Urls : UrlFails(k, u)
         \/ \E u \in Urls : DemotionEnds(u)
  PROVE  LinksInv'
<1>1. UNCHANGED <<conn, sessions, learned, started, outbound, as, probe, remote_id, renamed>>
  BY DEF HealthAsked, UrlFails, DemotionEnds
<1> QED BY <1>1 DEF LinksInv, LinksTypeOK, OneOutbound, Owned, Listed

\* Every step of the probes, the session tasks, the service and the remotes.
LEMMA LinksStepInv == LinksInv /\ [LinksNext]_links => LinksInv'
<1> SUFFICES ASSUME LinksInv, [LinksNext]_links PROVE LinksInv'
  OBVIOUS
<1>1. CASE UNCHANGED links
  BY <1>1 DEF links, LinksInv, LinksTypeOK, OneOutbound, Owned, Listed
<1>2. CASE \E c \in Probers : ProbeStep(c)
  BY <1>2, ProbeMoves, ProbeRekeysStep, EnsureOpensStep DEF ProbeStep
<1>3. CASE \E h \in Handles : OpenSucceeds(h) \/ OpenFails(h) \/ HelloRenames(h)
  BY <1>3, OpenSteps, HelloStep
<1>4. CASE \E b \in Bridges : Breaks(b) \/ PumpEnds(b)
  BY <1>4, BreakSteps, PumpEndsStep
<1>5. CASE \E k \in Ids, b \in Bridges : Accept(k, b)
  BY <1>5, AcceptStep
<1>6. CASE \E h \in Handles, id \in Ids : RemoteRenamed(h, id)
  BY <1>6, BreakSteps
<1>7. CASE \/ \E k \in Ids : HealthAsked(k)
           \/ \E k \in Keys, u \in Urls : UrlFails(k, u)
           \/ \E u \in Urls : DemotionEnds(u)
  BY <1>7, UrlSteps
<1> QED BY <1>1, <1>2, <1>3, <1>4, <1>5, <1>6, <1>7 DEF LinksNext

(***************************************************************************)
(* However many tasks probe a configured peer, it has at most one outbound *)
(* session, and a session being opened belongs to a peer                   *)
(* (ensure_sync_session, session_started).                                 *)
(***************************************************************************)
THEOREM OneOutboundHolds == LinksSpec => []OneOutbound
<1>1. LinksInv => OneOutbound
  BY DEF LinksInv
<1> QED BY <1>1, LinksInitInv, LinksStepInv, PTL DEF LinksSpec

(***************************************************************************)
(* However often peers are re-keyed, by probes or by Hellos, the registry  *)
(* lists no session that is over, save one whose peer was re-keyed while   *)
(* it was being opened (clear_session_by_bridge_id, migrate_peer_id).      *)
(***************************************************************************)
THEOREM NoDeadSessionsHolds == LinksSpec => []NoDeadSessions
<1>1. LinksInv => NoDeadSessions
  <2> SUFFICES ASSUME LinksInv, NEW k \in Keys, NEW b \in RouteSessions(k), conn[b] = "closed"
               PROVE  b \in renamed
    BY DEF NoDeadSessions
  <2>1. b \in Bridges /\ <<k, b>> \in sessions
    BY DEF RouteSessions, LinksInv, LinksTypeOK
  <2> QED BY <2>1 DEF LinksInv, Listed
<1> QED BY <1>1, LinksInitInv, LinksStepInv, PTL DEF LinksSpec
=============================================================================
