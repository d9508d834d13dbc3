------------------------------ MODULE PeerLinks ------------------------------
(***************************************************************************)
(* How an indexer finds its way to its peers (peer/client.rs,              *)
(* peer/registry.rs, peer/service.rs): the registry of routes per peer id, *)
(* the handles of the configured peers with their health probes and        *)
(* outbound SyncSession, and the sessions remotes open towards us.         *)
(*                                                                         *)
(* Several tasks probe one handle at the same time (maintain_sessions, the *)
(* walker through logical_peer_ids), each with awaits between its steps.   *)
(* A remote may come back under another peer id.  Networks are left out:   *)
(* they are compared once.                                                 *)
(***************************************************************************)
EXTENDS Integers

CONSTANTS
  Bridges,     \* bridge ids, a finite set of numbers: bounds the sessions of a behaviour
  Handles,     \* configured peers (PeerHandle with open_sync_session)
  Probers,     \* tasks that probe handles
  Ids,         \* the ids remotes go by
  Name,        \* Name[h]: the configured name, the id until one is learned
  StaticUrl,   \* Name[h]'s URL
  AdvertisedUrls,
  Advertised,  \* Advertised[id]: the URL that peer advertises, as a set of at most one
  FirstId,     \* FirstId[h]: the id of the remote behind h at the start
  MaxRestarts, \* bound on remotes that come back with another id
  MaxFaults,   \* bound on failed calls and broken connections
  NoId, NoBridge

Keys == Ids \cup {Name[h] : h \in Handles}
StaticUrls == {StaticUrl[h] : h \in Handles}
Urls == StaticUrls \cup AdvertisedUrls

ASSUME LinksAssumption ==
  /\ FirstId \in [Handles -> Ids]
  /\ \A h \in Handles : Name[h] \notin Ids
  /\ AdvertisedUrls \cap StaticUrls = {}
  /\ Advertised \in [Ids -> SUBSET AdvertisedUrls]
  /\ NoId \notin Keys /\ NoBridge \notin Bridges /\ Bridges \subseteq Nat

VARIABLES
  conn,       \* the state of each bridge's connection
  urls,       \* the registry: <<key, url>>
  sessions,   \* the registry: <<key, bridge>>
  demoted,    \* demoted_urls
  learned,    \* learned[h]: remote_peer_id
  started,    \* started[h]: session_started
  outbound,   \* outbound[h]: the bridge being opened or pumped, NoBridge if none
  as,         \* as[h]: the id under which that task knows the remote
  probe,      \* probe[c]: the health probe task c is in
  cached,     \* handles with a last_health
  remote_id,  \* the id the remote behind h answers with
  renamed,    \* bridges whose key was re-keyed while they were being opened
  restarts, faults

links == <<conn, urls, sessions, demoted, learned, started, outbound, as, probe,
           cached, remote_id, renamed, restarts, faults>>

Idle == [pc |-> "idle", handle |-> NoId, id |-> NoId, prev |-> NoId]

\* PeerHandle::new seeds the registry with the configured URL under the name.
LinksInit ==
  /\ conn = [b \in Bridges |-> "unused"]
  /\ urls = {<<Name[h], StaticUrl[h]>> : h \in Handles}
  /\ sessions = {} /\ demoted = {} /\ renamed = {}
  /\ learned = [h \in Handles |-> NoId]
  /\ started = [h \in Handles |-> FALSE]
  /\ outbound = [h \in Handles |-> NoBridge]
  /\ as = [h \in Handles |-> Name[h]]
  /\ probe = [c \in Probers |-> Idle] /\ cached = {}
  /\ remote_id = FirstId
  /\ restarts = MaxRestarts /\ faults = MaxFaults

-----------------------------------------------------------------------------
(* The registry.  An entry exists while it has a URL or a session. *)

\* add_url: a demoted URL is not listed again before its time is over.
AddUrl(u, k, url) == IF url \in demoted THEN u ELSE u \cup {<<k, url>>}

\* Mutant of Migrate: the old entry is copied, not moved.
MigrateCopies(rel, from, to) == rel \cup {<<to, e[2]>> : e \in {r \in rel : r[1] = from}}

\* migrate_peer_id, on either half of the registry.
Migrate(rel, from, to) ==
  IF from = NoId \/ from = to THEN rel
  ELSE {IF e[1] = from THEN <<to, e[2]>> ELSE e : e \in rel}

\* clear_session_by_bridge_id: under whichever key it is listed.
ClearBridge(b) == {e \in sessions : e[2] # b}

\* is_empty, logical_peer_ids: the ids of configured peers, then the other keys.
LogicalPeers ==
  LET mine == {IF learned[h] # NoId THEN learned[h] ELSE Name[h] : h \in Handles}
      aliases == {Name[h] : h \in {g \in Handles : learned[g] # NoId}}
  IN  mine \cup ({e[1] : e \in urls \cup sessions} \ aliases)

\* fetch_from_logical_peer: the URLs and the sessions that lead to k.
RouteUrls(k) ==
  {StaticUrl[h] : h \in {g \in Handles : k \in {learned[g], Name[g]}}}
  \cup {e[2] : e \in {r \in urls : r[1] = k}}
RouteSessions(k) == {e[2] : e \in {r \in sessions : r[1] = k}}

-----------------------------------------------------------------------------
(* Health probes. *)

RestOfProbe == UNCHANGED <<conn, demoted, started, outbound, remote_id, restarts>>

\* A probe within HEALTH_CACHE_TTL of an earlier one: only the session is ensured.
ProbeCached(c, h) ==
  /\ probe[c].pc = "idle"
  /\ h \in cached
  /\ probe' = [probe EXCEPT ![c] = [Idle EXCEPT !.pc = "ensure", !.handle = h]]
  /\ UNCHANGED <<urls, sessions, learned, as, cached, renamed, faults>> /\ RestOfProbe

\* get_health answers; the handle's previous id is read.
ProbeAnswered(c, h) ==
  /\ probe[c].pc = "idle"
  /\ probe' = [probe EXCEPT ![c] =
       [pc |-> "answered", handle |-> h, id |-> remote_id[h], prev |-> learned[h]]]
  /\ UNCHANGED <<urls, sessions, learned, as, cached, renamed, faults>> /\ RestOfProbe

\* The new id is stored.
ProbeLearns(c) ==
  /\ probe[c].pc = "answered"
  /\ learned' = [learned EXCEPT ![probe[c].handle] = probe[c].id]
  /\ probe' = [probe EXCEPT ![c].pc = "learned"]
  /\ UNCHANGED <<urls, sessions, as, cached, renamed, faults>> /\ RestOfProbe

\* The bridges that from -> to moves away from the key their opener knows.
MovedWhileOpening(from, to) ==
  {b \in Bridges : conn[b] = "opening" /\ <<from, b>> \in sessions /\ from # to}

\* Previous alias and configured name collapse into the id; the URL is listed;
\* the answer is cached.
ProbeRekeys(c) ==
  LET h == probe[c].handle
      id == probe[c].id
  IN  /\ probe[c].pc = "learned"
      /\ sessions' = Migrate(Migrate(sessions, probe[c].prev, id), Name[h], id)
      /\ urls' = AddUrl(Migrate(Migrate(urls, probe[c].prev, id), Name[h], id),
                        id, StaticUrl[h])
      /\ renamed' = renamed \cup MovedWhileOpening(probe[c].prev, id)
                            \cup MovedWhileOpening(Name[h], id)
      /\ cached' = cached \cup {h}
      /\ probe' = [probe EXCEPT ![c].pc = "ensure"]
      /\ UNCHANGED <<learned, as, faults>> /\ RestOfProbe

-----------------------------------------------------------------------------
(* The outbound session of a handle. *)

Unused == {b \in Bridges : conn[b] = "unused"}

\* BRIDGE_IDS.fetch_add
Fresh(b) == b \in Unused /\ \A c \in Unused : b <= c

\* ensure_sync_session when a session task is alive already (or the instance is
\* out of bridges).
EnsureNothing(c) ==
  /\ probe[c].pc = "ensure"
  /\ started[probe[c].handle] \/ Unused = {}
  /\ probe' = [probe EXCEPT ![c] = Idle]
  /\ UNCHANGED <<urls, sessions, learned, as, cached, renamed, faults>> /\ RestOfProbe

\* The connection cannot be made: the flag is given back, nothing was listed.
EnsureRefused(c) ==
  /\ probe[c].pc = "ensure"
  /\ ~started[probe[c].handle] /\ faults > 0
  /\ faults' = faults - 1
  /\ probe' = [probe EXCEPT ![c] = Idle]
  /\ UNCHANGED <<urls, sessions, learned, as, cached, renamed>> /\ RestOfProbe

\* Mutant of EnsureOpens: the flag is set without being tested.
EnsureOpensAgain(c, b) ==
  LET h == probe[c].handle
      k == IF learned[h] # NoId THEN learned[h] ELSE Name[h]
  IN  /\ probe[c].pc = "ensure"
      /\ Fresh(b)
      /\ started' = [started EXCEPT ![h] = TRUE]
      /\ outbound' = [outbound EXCEPT ![h] = b]
      /\ as' = [as EXCEPT ![h] = k]
      /\ sessions' = sessions \cup {<<k, b>>}
      /\ conn' = [conn EXCEPT ![b] = "opening"]
      /\ probe' = [probe EXCEPT ![c] = Idle]
      /\ UNCHANGED <<urls, demoted, learned, cached, remote_id, renamed, restarts, faults>>

\* ensure_sync_session: the flag is taken and the bridge is listed under the id
\* known so far, before the SyncSession call is made.
EnsureOpens(c, b) ==
  LET h == probe[c].handle
      k == IF learned[h] # NoId THEN learned[h] ELSE Name[h]
  IN  /\ probe[c].pc = "ensure"
      /\ ~started[h]
      /\ Fresh(b)
      /\ started' = [started EXCEPT ![h] = TRUE]
      /\ outbound' = [outbound EXCEPT ![h] = b]
      /\ as' = [as EXCEPT ![h] = k]
      /\ sessions' = sessions \cup {<<k, b>>}
      /\ conn' = [conn EXCEPT ![b] = "opening"]
      /\ probe' = [probe EXCEPT ![c] = Idle]
      /\ UNCHANGED <<urls, demoted, learned, cached,
                     remote_id, renamed, restarts, faults>>

\* The call succeeds: the pump task starts.
OpenSucceeds(h) ==
  LET b == outbound[h] IN
  /\ b # NoBridge /\ conn[b] = "opening"
  /\ conn' = [conn EXCEPT ![b] = "up"]
  /\ UNCHANGED <<urls, sessions, demoted, learned, started, outbound, as, probe, cached,
                 remote_id, renamed, restarts, faults>>

\* The call fails: the bridge is cleared under the key it was listed with.
OpenFails(h) ==
  LET b == outbound[h] IN
  /\ b # NoBridge /\ conn[b] = "opening" /\ faults > 0
  /\ sessions' = sessions \ {<<as[h], b>>}
  /\ started' = [started EXCEPT ![h] = FALSE]
  /\ outbound' = [outbound EXCEPT ![h] = NoBridge]
  /\ conn' = [conn EXCEPT ![b] = "closed"]
  /\ faults' = faults - 1
  /\ UNCHANGED <<urls, demoted, learned, as, probe, cached, remote_id, renamed, restarts>>

\* The remote's Hello names an id the task does not know it by.
HelloRenames(h) ==
  LET b == outbound[h]
      id == remote_id[h]
  IN  /\ b # NoBridge /\ conn[b] = "up"
      /\ id # as[h]
      /\ sessions' = Migrate(Migrate(sessions, as[h], id), Name[h], id)
      /\ urls' = Migrate(Migrate(urls, as[h], id), Name[h], id)
                   \cup {<<id, u>> : u \in Advertised[id] \ demoted}
      /\ renamed' = renamed \cup MovedWhileOpening(as[h], id)
                            \cup MovedWhileOpening(Name[h], id)
      /\ learned' = [learned EXCEPT ![h] = id]
      /\ as' = [as EXCEPT ![h] = id]
      /\ UNCHANGED <<conn, demoted, started, outbound, probe, cached, remote_id,
                     restarts, faults>>

\* The connection of any session breaks.
Breaks(b) ==
  /\ faults > 0
  /\ conn[b] = "up"
  /\ conn' = [conn EXCEPT ![b] = "closing"]
  /\ faults' = faults - 1
  /\ UNCHANGED <<urls, sessions, demoted, learned, started, outbound, as, probe, cached,
                 remote_id, renamed, restarts>>

\* Mutant of PumpEnds: the session is cleared under the id the task knows.
PumpEndsByKey(b) ==
  LET mine == {h \in Handles : outbound[h] = b} IN
  /\ conn[b] = "closing"
  /\ sessions' = sessions \ {<<as[h], b>> : h \in mine}
  /\ started' = [h \in Handles |-> h \notin mine /\ started[h]]
  /\ outbound' = [h \in Handles |-> IF h \in mine THEN NoBridge ELSE outbound[h]]
  /\ conn' = [conn EXCEPT ![b] = "closed"]
  /\ UNCHANGED <<urls, demoted, learned, as, probe, cached, remote_id, renamed,
                 restarts, faults>>

\* Mutant of PumpEnds: the handle does not learn that its session ended.
PumpEndsSilently(b) ==
  /\ conn[b] = "closing"
  /\ sessions' = ClearBridge(b)
  /\ conn' = [conn EXCEPT ![b] = "closed"]
  /\ UNCHANGED <<urls, demoted, learned, started, outbound, as, probe, cached, remote_id,
                 renamed, restarts, faults>>

\* The end of the pump task: the bridge leaves the registry; the handle of an
\* outbound session may open the next one.
PumpEnds(b) ==
  LET mine == {h \in Handles : outbound[h] = b} IN
  /\ conn[b] = "closing"
  /\ sessions' = ClearBridge(b)
  /\ started' = [h \in Handles |-> h \notin mine /\ started[h]]
  /\ outbound' = [h \in Handles |-> IF h \in mine THEN NoBridge ELSE outbound[h]]
  /\ conn' = [conn EXCEPT ![b] = "closed"]
  /\ UNCHANGED <<urls, demoted, learned, as, probe, cached, remote_id, renamed,
                 restarts, faults>>

-----------------------------------------------------------------------------
(* The service side, and the remotes. *)

\* sync_session: a remote dials us; its Hello gives the key and maybe a URL.
Accept(k, b) ==
  /\ Fresh(b)
  /\ conn' = [conn EXCEPT ![b] = "up"]
  /\ sessions' = sessions \cup {<<k, b>>}
  /\ urls' = urls \cup {<<k, u>> : u \in Advertised[k] \ demoted}
  /\ UNCHANGED <<demoted, learned, started, outbound,
                 as, probe, cached, remote_id, renamed, restarts, faults>>

\* get_health of the service: a remote probes us and advertises a URL.
HealthAsked(k) ==
  /\ urls' = urls \cup {<<k, u>> : u \in Advertised[k] \ demoted}
  /\ UNCHANGED <<conn, sessions, demoted, learned, started, outbound, as, probe,
                 cached, remote_id, renamed, restarts, faults>>

\* The remote behind h comes back under another id: the session with it is over.
RemoteRenamed(h, id) ==
  /\ restarts > 0
  /\ id # remote_id[h]
  /\ remote_id' = [remote_id EXCEPT ![h] = id]
  /\ restarts' = restarts - 1
  /\ conn' = [b \in Bridges |->
       IF b = outbound[h] /\ conn[b] = "up" THEN "closing" ELSE conn[b]]
  /\ UNCHANGED <<urls, sessions, demoted, learned, started, outbound, as, probe,
                 cached, renamed, faults>>

\* A fetch through a URL fails: an advertised URL is dropped and demoted.
UrlFails(k, u) ==
  /\ faults > 0
  /\ k \in LogicalPeers /\ u \in RouteUrls(k) \ StaticUrls
  /\ urls' = urls \ {<<k, u>>}
  /\ demoted' = demoted \cup {u}
  /\ faults' = faults - 1
  /\ UNCHANGED <<conn, sessions, learned, started, outbound, as, probe, cached, remote_id,
                 renamed, restarts>>

\* URL_DEMOTE_TTL passes.
DemotionEnds(u) ==
  /\ u \in demoted
  /\ demoted' = demoted \ {u}
  /\ UNCHANGED <<conn, urls, sessions, learned, started, outbound, as, probe,
                 cached, remote_id, renamed, restarts, faults>>

ProbeStep(c) ==
  \/ \E h \in Handles : ProbeCached(c, h)
  \/ \E h \in Handles : ProbeAnswered(c, h)
  \/ ProbeLearns(c) \/ ProbeRekeys(c)
  \/ EnsureNothing(c) \/ EnsureRefused(c) \/ \E b \in Bridges : EnsureOpens(c, b)

LinksNext ==
  \/ \E c \in Probers : ProbeStep(c)
  \/ \E h \in Handles : OpenSucceeds(h) \/ OpenFails(h) \/ HelloRenames(h)
  \/ \E b \in Bridges : Breaks(b) \/ PumpEnds(b)
  \/ \E k \in Ids, b \in Bridges : Accept(k, b)
  \/ \E k \in Ids : HealthAsked(k)
  \/ \E h \in Handles, id \in Ids : RemoteRenamed(h, id)
  \/ \E k \in Keys, u \in Urls : UrlFails(k, u)
  \/ \E u \in Urls : DemotionEnds(u)

(***************************************************************************)
(* maintain_sessions probes every handle for ever, and what a probe cached *)
(* expires: strong fairness for a probe that asks.  Pump tasks and open    *)
(* calls run to their end.  No fairness for failures and inbound dials.    *)
(***************************************************************************)
LinksSpec ==
  /\ LinksInit /\ [][LinksNext]_links
  /\ \A c \in Probers : WF_links(ProbeStep(c))
  /\ \A c \in Probers, h \in Handles : SF_links(ProbeAnswered(c, h))
  /\ \A h \in Handles : WF_links(OpenSucceeds(h)) /\ WF_links(HelloRenames(h))
  /\ \A b \in Bridges : WF_links(PumpEnds(b))

-----------------------------------------------------------------------------
(***************************************************************************)
(* The registry hands out no dead session: one whose pump has ended or     *)
(* whose call failed is listed nowhere, even if its peer was re-keyed any  *)
(* number of times meanwhile.  The one exception the code has: a peer that *)
(* was re-keyed while the session was being opened, because a failed open  *)
(* clears the bridge under the key it was listed with                      *)
(* (ensure_sync_session, clear_session_by_id).                             *)
(***************************************************************************)
NoDeadSessions ==
  \A k \in Keys : \A b \in RouteSessions(k) : conn[b] = "closed" => b \in renamed

(***************************************************************************)
(* A configured peer has at most one outbound session, although several    *)
(* tasks probe it and reopen it at the same time (session_started).        *)
(***************************************************************************)
OneOutbound ==
  /\ \A h \in Handles : started[h] <=> outbound[h] # NoBridge
  /\ \A b \in Bridges : conn[b] = "opening" => \E h \in Handles : outbound[h] = b

\* A handle that lost its session gets a new one as long as bridges last.
SessionReturns ==
  \A h \in Handles :
    <>[](Unused # {} \/ started[h] => started[h] /\ conn[outbound[h]] = "up")

(***************************************************************************)
(* Mutual dials are one logical peer: in the end the configured name leads *)
(* nowhere, and the URL and the outbound session of a peer that kept its   *)
(* id are listed under that id only, so that a fetch asks it once (health, *)
(* migrate_peer_id).  After a change of id a probe that was answered before*)
(* it and finishes after it may list the URL under the old id for good.    *)
(***************************************************************************)
AliasesCollapse ==
  \A h \in Handles :
    <>[](\A e \in urls \cup sessions :
           e[2] \in {StaticUrl[h], outbound[h]} =>
             e[1] # Name[h] /\ (restarts = MaxRestarts => e[1] = remote_id[h]))
=============================================================================
