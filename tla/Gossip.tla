------------------------------- MODULE Gossip -------------------------------
(***************************************************************************)
(* Gossip (code/devcore/gossip): what nodes tell each other about third    *)
(* ones.  Every 5 s _daemon_io of a node takes a snapshot of its peers,    *)
(* drops the dead ones from its database, forgets entries that are an hour *)
(* old, and then, for every peer of the snapshot, on the toss of a coin,   *)
(* makes a new entry about it and sends it up to five entries; the watcher *)
(* of the receiver stores what it is sent.                                 *)
(*                                                                         *)
(* The unit of time is the period of the rounds.  Addresses and keys are   *)
(* left out: nothing reads them; so are the places of the entries in their *)
(* array.  Packets may be lost, late and repeated.                         *)
(***************************************************************************)
EXTENDS Naturals, FiniteSetsExt, Functions

CONSTANTS Nodes,
          Silent,           \* hosts that were peers and have gone
          Links,            \* the peers each node has at first
          GOSSIP_DEAD_DT,   \* age at which an entry is forgotten
          Garbage,          \* the uid of what was not an entry
          MaxTime,          \* bound: the clock
          MaxFlight         \* bound: packets on their way

(* No node is its own peer. *)
ASSUME LinksAssumption ==
  /\ Links \in [Nodes -> SUBSET (Nodes \cup Silent)]
  /\ \A n \in Nodes : n \notin Links[n]

VARIABLES gclock,    \* the time
          peers,     \* the peers in the database of each node
          gossips,   \* the entries of each node
          round,     \* peers of the snapshot still to be gossiped to
          due,       \* nodes whose last_gossiped is 5 s ago
          flight,    \* PACK_GOSSIP packets on their way
          crashed,   \* nodes that died of a memory fault
          listed     \* history: when a node was last somebody's peer

gvars == <<gclock, peers, gossips, round, due, flight, crashed, listed>>

Hosts == Nodes \cup Silent

GInit ==
  /\ gclock = 1
  /\ peers = Links
  /\ gossips = [n \in Nodes |-> {}]
  /\ round = [n \in Nodes |-> {}]
  /\ due = Nodes
  /\ flight = {}
  /\ crashed = {}
  /\ listed = [u \in Hosts |-> 1]

-----------------------------------------------------------------------------
(* gossip_create_entry *)
CreateEntry(uid) == [uid |-> uid, version |-> 0, timestamp |-> gclock]

(* Mutant of Cleanup: an entry that is kept is as good as new. *)
CleanupRenews(g) == {[e EXCEPT !.timestamp = gclock] : e \in g}

(* gossip_cleanup *)
Cleanup(g) == {e \in g : gclock - e.timestamp < GOSSIP_DEAD_DT}

(***************************************************************************)
(* gossip_new_entry: versions decide, and no code ever raises a version.   *)
(***************************************************************************)
NewEntry(g, self, e) ==
  IF e.uid = self \/ \E x \in g : x.uid = e.uid /\ e.version <= x.version
  THEN g
  ELSE {x \in g : x.uid # e.uid} \cup {e}

(* gossip_new_entry for each entry of a packet; their uids are distinct. *)
NewEntries(g, self, data) ==
  LET new == {e \in data : NewEntry(g, self, e) # g}
  IN  {x \in g : \A e \in new : x.uid # e.uid} \cup new

(* gossip_random_entries: a shuffle, of which the first n are taken. *)
RandomEntries(g, n) ==
  LET k == IF n < Cardinality(g) THEN n ELSE Cardinality(g)
  IN  {s \in [1 .. k -> g] : IsInjective(s)}

(***************************************************************************)
(* gossip_to_data: gossip_iter passes the address of its pointer to the    *)
(* array, and entries[i] is read as if it were a table of pointers.  The   *)
(* first entry is the first of the array; where the others come from is    *)
(* undefined: the process dies, or they are not entries.                   *)
(***************************************************************************)
NotAnEntry == [uid |-> Garbage, version |-> 0, timestamp |-> 0]
ToData(entries) == {entries[1]} \cup {NotAnEntry : i \in DOMAIN entries \ {1}}

-----------------------------------------------------------------------------
Known(u, p, r) == \E n \in Nodes : u \in p[n] \cup r[n]

(* A round of _daemon_io; dead are the peers ping_iter found dead. *)
StartRound(n, dead) ==
  /\ n \notin crashed
  /\ round[n] = {}
  /\ n \in due
  /\ dead \subseteq peers[n]
  /\ peers' = [peers EXCEPT ![n] = @ \ dead]
  /\ gossips' = [gossips EXCEPT ![n] = Cleanup(@)]
  /\ round' = [round EXCEPT ![n] = peers[n]]
  /\ due' = due \ {n}
  /\ UNCHANGED <<gclock, flight, crashed, listed>>

(* gossip_iter, when the coin says no. *)
SkipPeer(n, p) ==
  /\ n \notin crashed
  /\ p \in round[n]
  /\ round' = [round EXCEPT ![n] = @ \ {p}]
  /\ UNCHANGED <<gclock, peers, gossips, due, flight, crashed, listed>>

(* gossip_iter: the peer itself becomes news, and gets five entries. *)
GossipIter(n, p) ==
  LET g == NewEntry(gossips[n], n, CreateEntry(p))
  IN  /\ n \notin crashed
      /\ p \in round[n]
      /\ round' = [round EXCEPT ![n] = @ \ {p}]
      /\ gossips' = [gossips EXCEPT ![n] = g]
      /\ \E entries \in RandomEntries(g, 5) :
           flight' = IF p \in Silent THEN flight
                     ELSE flight \cup {[to |-> p, data |-> ToData(entries)]}
      /\ Cardinality(flight') <= MaxFlight
      /\ UNCHANGED <<gclock, peers, due, crashed, listed>>

(* The other outcome of gossip_to_data for two entries or more. *)
GossipIterDies(n, p) ==
  /\ n \notin crashed
  /\ p \in round[n]
  /\ Cardinality(NewEntry(gossips[n], n, CreateEntry(p))) > 1
  /\ crashed' = crashed \cup {n}
  /\ peers' = [peers EXCEPT ![n] = {}]
  /\ gossips' = [gossips EXCEPT ![n] = {}]
  /\ round' = [round EXCEPT ![n] = {}]
  /\ UNCHANGED <<gclock, due, flight, listed>>

(* soter2_hnd_GOSSIP and gossip_from_packet; the packet may come again. *)
FromPacket(m) ==
  /\ m \in flight
  /\ m.to \notin crashed
  /\ gossips' = [gossips EXCEPT ![m.to] = NewEntries(@, m.to, m.data)]
  /\ flight' \in {flight, flight \ {m}}
  /\ UNCHANGED <<gclock, peers, round, due, crashed, listed>>

LosePacket(m) ==
  /\ m \in flight
  /\ flight' = flight \ {m}
  /\ UNCHANGED <<gclock, peers, gossips, round, due, crashed, listed>>

GTick ==
  /\ gclock < MaxTime
  /\ gclock' = gclock + 1
  /\ listed' = [u \in Hosts |-> IF Known(u, peers, round) THEN gclock' ELSE listed[u]]
  /\ due' = Nodes
  /\ UNCHANGED <<peers, gossips, round, flight, crashed>>

GNext ==
  \/ \E n \in Nodes : \E dead \in SUBSET peers[n] : StartRound(n, dead)
  \/ \E n \in Nodes, p \in Hosts : SkipPeer(n, p) \/ GossipIter(n, p) \/ GossipIterDies(n, p)
  \/ \E m \in flight : FromPacket(m) \/ LosePacket(m)
  \/ GTick

GSpec == GInit /\ [][GNext]_gvars

-----------------------------------------------------------------------------
Copies == UNION ({gossips[n] : n \in Nodes} \cup {m.data : m \in flight})

(***************************************************************************)
(* However often an entry is passed on, and whoever stores it in between,  *)
(* it does not get younger: no copy is younger than the last moment at     *)
(* which some node had the peer.  So what is said of a node that is gone   *)
(* gets an hour old everywhere.                                            *)
(***************************************************************************)
NeverRejuvenated == \A e \in Copies : e.uid \in Hosts => e.timestamp <= listed[e.uid]

(* gossip_to_data packs the entries it is given: gossip/system.h says so.  *)
PacksGivenEntries == \A m \in flight : \A e \in m.data : e.uid # Garbage
=============================================================================
