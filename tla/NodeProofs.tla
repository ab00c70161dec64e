------------------------------ MODULE NodeProofs ------------------------------
(***************************************************************************)
(* Theorems about the parts of a node around the reliable connection: the  *)
(* queues of the dispatcher and the watcher, the peers database, NAT       *)
(* detection, gossip and the way of a packet.                              *)
(***************************************************************************)
EXTENDS DispatcherWorker, WatcherWorker, PacketPath, PeersDb, Gossip, NatDetect,
        TLAPS, FiniteSetTheorems

-----------------------------------------------------------------------------
(* The dispatcher's queue. *)

(* A round that was woken goes on popping until the queue is empty. *)
DInv == r \in BOOLEAN /\ event \in BOOLEAN /\ OnlyTimeoutsOverlook

(***************************************************************************)
(* Only a round of _rudp_dispatcher_worker that timed out leaves a packet  *)
(* lying in the queue without a wake-up to come.                           *)
(***************************************************************************)
THEOREM OnlyTimeouts == DSpec => []OnlyTimeoutsOverlook
<1>1. DInit => DInv
  BY DEF DInit, QInit, DInv, OnlyTimeoutsOverlook
<1>2. DInv /\ [DNext]_dvars => DInv'
  <2> SUFFICES ASSUME DInv, [DNext]_dvars PROVE DInv'
    OBVIOUS
  <2> USE DEF DInv, OnlyTimeoutsOverlook, NoLostWakeup
  <2>1. ASSUME NEW p \in Producers, Push(p), UNCHANGED r PROVE DInv'
    BY <2>1 DEF Push
  <2>2. ASSUME NEW p \in Producers, Notify(p), UNCHANGED r PROVE DInv'
    BY <2>2 DEF Notify
  <2>3. CASE (Stop \/ End) /\ UNCHANGED r
    BY <2>3 DEF Stop, End
  <2>4. CASE LoopHead /\ UNCHANGED r
    BY <2>4 DEF LoopHead, Goto
  <2>5. CASE WaitPassed
    BY <2>5 DEF WaitPassed, PollReady, PollTimeout, ReadEvent, Goto
  <2>6. CASE CheckTimeouts
    BY <2>6 DEF CheckTimeouts, Goto
  <2>7. CASE DrainAlways \/ (ReadEvent("clear2", "pop_all") /\ UNCHANGED r)
    BY <2>7 DEF DrainAlways, ReadEvent
  <2>8. CASE PopAll
    BY <2>8 DEF PopAll, Pop, PopEmpty, Goto
  <2>9. CASE UNCHANGED dvars
    BY <2>9 DEF dvars, qVars
  <2> QED
    BY <2>1, <2>2, <2>3, <2>4, <2>5, <2>6, <2>7, <2>8, <2>9 DEF DNext, Environment, DWorker
<1>3. DInv => OnlyTimeoutsOverlook
  BY DEF DInv
<1> QED
  BY <1>1, <1>2, <1>3, PTL DEF DSpec

-----------------------------------------------------------------------------
(* The peers database. *)

Entries == [state : PeerStates, last_seen : Int, heard : Nat]
Tables == UNION {[D -> Entries] : D \in SUBSET Uids}

(* What is known of when the peers in a table were heard of. *)
Heard(d, t) == \A u \in DOMAIN d : d[u].heard <= t /\ d[u].last_seen = LastSeen(d[u].heard)

PTypeOK ==
  /\ now \in Nat
  /\ db \in Tables
  /\ waiter \in [pc : {"idle", "poll", "read", "drain", "look"}, uid : Uids \cup {0},
                 state : PeerStates, since : BOOLEAN]
  /\ iod \in [pc : {"loop", "waited", "ping"}, now : Nat, snapshot : Tables]

PInv ==
  /\ PTypeOK
  /\ waiter.since => Matches(db, waiter.uid, waiter.state)
  /\ WaiterSeesChange
  /\ iod.now <= now
  /\ Heard(db, now) /\ Heard(iod.snapshot, now)

(* A table whose entries are those of another, but for one. *)
LEMMA TableWith ==
  ASSUME NEW d \in Tables, NEW u \in Uids, NEW e \in Entries, NEW t \in Nat,
         Heard(d, t), e.heard <= t, e.last_seen = LastSeen(e.heard)
  PROVE  LET n == [v \in DOMAIN d \cup {u} |-> IF v = u THEN e ELSE d[v]]
         IN  n \in Tables /\ Heard(n, t)
<1>1. PICK D \in SUBSET Uids : d \in [D -> Entries]
  BY DEF Tables
<1>2. [v \in DOMAIN d \cup {u} |-> IF v = u THEN e ELSE d[v]] \in [D \cup {u} -> Entries]
  BY <1>1
<1> QED
  BY <1>1, <1>2 DEF Tables, Heard

(* A table without one of its keys. *)
LEMMA TableWithout ==
  ASSUME NEW d \in Tables, NEW u, NEW t \in Nat, Heard(d, t)
  PROVE  LET n == Restrict(d, DOMAIN d \ {u})
         IN  n \in Tables /\ Heard(n, t) /\ DOMAIN n = DOMAIN d \ {u}
<1>1. PICK D \in SUBSET Uids : d \in [D -> Entries]
  BY DEF Tables
<1>2. [v \in DOMAIN d \ {u} |-> d[v]] \in [D \ {u} -> Entries]
  BY <1>1
<1> QED
  BY <1>1, <1>2 DEF Tables, Heard, Restrict

(* A table with a state changed. *)
LEMMA TableState ==
  ASSUME NEW d \in Tables, NEW u \in DOMAIN d, NEW s \in PeerStates, NEW t \in Nat, Heard(d, t)
  PROVE  [d EXCEPT ![u].state = s] \in Tables /\ Heard([d EXCEPT ![u].state = s], t)
<1>1. PICK D \in SUBSET Uids : d \in [D -> Entries]
  BY DEF Tables
<1> DEFINE e == [d[u] EXCEPT !.state = s]
<1>2. d[u] \in Entries
  BY <1>1
<1>3. e \in Entries /\ e.heard = d[u].heard /\ e.last_seen = d[u].last_seen
  BY <1>2 DEF Entries
<1>4. [d EXCEPT ![u].state = s] = [d EXCEPT ![u] = e]
  BY <1>1
<1> HIDE DEF e
<1>5. [d EXCEPT ![u] = e] \in [D -> Entries]
  BY <1>1, <1>3
<1> QED
  BY <1>1, <1>3, <1>4, <1>5 DEF Tables, Heard

(* A table with a time changed. *)
LEMMA TableHeard ==
  ASSUME NEW d \in Tables, NEW from, NEW t \in Nat, Heard(d, t)
  PROVE  LET n == [u \in DOMAIN d |->
                     IF u \in from THEN [d[u] EXCEPT !.last_seen = LastSeen(t), !.heard = t] ELSE d[u]]
         IN  n \in Tables /\ Heard(n, t) /\ DOMAIN n = DOMAIN d
<1>1. PICK D \in SUBSET Uids : d \in [D -> Entries]
  BY DEF Tables
<1> DEFINE e(u) == [d[u] EXCEPT !.last_seen = LastSeen(t), !.heard = t]
<1>2. ASSUME NEW u \in D
      PROVE  e(u) \in Entries /\ e(u).heard = t /\ e(u).last_seen = LastSeen(t)
  <2>1. LastSeen(t) \in Int
    BY TimeAssumption DEF LastSeen
  <2> QED
    BY <1>1, <1>2, <2>1 DEF Entries
<1> HIDE DEF e
<1> DEFINE n == [u \in DOMAIN d |-> IF u \in from THEN e(u) ELSE d[u]]
<1>3. n \in [D -> Entries] /\ \A u \in D : n[u] = IF u \in from THEN e(u) ELSE d[u]
  BY <1>1, <1>2
<1> HIDE DEF n
<1>4. n \in Tables /\ Heard(n, t) /\ DOMAIN n = DOMAIN d
  BY <1>1, <1>2, <1>3 DEF Tables, Heard
<1> QED
  BY <1>4 DEF n, e

-----------------------------------------------------------------------------
(* What a change of the table does to the waiter. *)
LEMMA DbBecomesEffect ==
  ASSUME PInv, NEW d \in Tables, NEW changed \in BOOLEAN, DbBecomes(d, changed), Heard(d, now)
  PROVE  /\ now' = now /\ db' = d /\ Heard(db, now)'
         /\ waiter' \in [pc : {"idle", "poll", "read", "drain", "look"}, uid : Uids \cup {0},
                         state : PeerStates, since : BOOLEAN]
         /\ waiter'.pc = waiter.pc
         /\ waiter'.since => Matches(db', waiter'.uid, waiter'.state)
         /\ waiter'.since => waiter.since \/ changed
<1>1. now' = now /\ db' = d /\ waiter' = [waiter EXCEPT !.since = Since(d, changed)]
  BY DEF DbBecomes
<1>2. Since(d, changed) \in BOOLEAN
  BY DEF Since, Matches, PInv, PTypeOK
<1>3. /\ waiter' \in [pc : {"idle", "poll", "read", "drain", "look"}, uid : Uids \cup {0},
                       state : PeerStates, since : BOOLEAN]
      /\ waiter'.pc = waiter.pc /\ waiter'.uid = waiter.uid /\ waiter'.state = waiter.state
      /\ waiter'.since = Since(d, changed)
  BY <1>1, <1>2 DEF PInv, PTypeOK
<1> QED
  BY <1>1, <1>3 DEF Since, Matches, Heard

(* The empty table. *)
LEMMA NoPeersTable == NoPeers \in Tables /\ \A t : Heard(NoPeers, t)
<1>1. NoPeers \in [{} -> Entries] /\ DOMAIN NoPeers = {}
  BY DEF NoPeers
<1> QED
  BY <1>1 DEF Tables, Heard

(* The empty database satisfies the invariant. *)
LEMMA PInitInv == PInit => PInv
<1> SUFFICES ASSUME PInit PROVE PInv
  OBVIOUS
<1> QED
  BY NoPeersTable DEF PInit, PInv, PTypeOK, WaiterSeesChange, Heard, PeerStates

IoTypeOK == iod \in [pc : {"loop", "waited", "ping"}, now : Nat, snapshot : Tables]

(* The steps on the table. *)
LEMMA DbStep ==
  ASSUME PInv, NEW d \in Tables, NEW changed \in BOOLEAN, DbBecomes(d, changed), Heard(d, now),
         UNCHANGED statchange, IoTypeOK', iod'.now <= now, Heard(iod'.snapshot, now),
         changing' = changing \/ (\E t \in Changers : changing' = changing \cup {t}),
         changed => changing' # {}
  PROVE  PInv'
<1>1. /\ now' = now /\ db' = d /\ Heard(db, now)'
      /\ waiter' \in [pc : {"idle", "poll", "read", "drain", "look"}, uid : Uids \cup {0},
                      state : PeerStates, since : BOOLEAN]
      /\ waiter'.pc = waiter.pc
      /\ waiter'.since => Matches(db', waiter'.uid, waiter'.state)
      /\ waiter'.since => waiter.since \/ changed
  BY DbBecomesEffect
<1>2. changing # {} => changing' # {}
  OBVIOUS
<1> QED
  BY <1>1, <1>2 DEF PInv, PTypeOK, WaiterSeesChange, IoTypeOK

(* Every step on the database keeps the invariant. *)
LEMMA PNextInv == PInv /\ [PNext]_pvars => PInv'
<1> SUFFICES ASSUME PInv, [PNext]_pvars PROVE PInv'
  OBVIOUS
<1>0. /\ now \in Nat /\ db \in Tables /\ iod.snapshot \in Tables
      /\ IoTypeOK /\ iod.now <= now
      /\ Heard(db, now) /\ Heard(iod.snapshot, now)
  BY DEF PInv, PTypeOK, IoTypeOK
<1>00. UNCHANGED iod => IoTypeOK' /\ iod'.now <= now /\ Heard(iod'.snapshot, now)
  BY <1>0 DEF IoTypeOK
<1>1. ASSUME NEW u \in Uids, NEW s \in {"INITED", "ACTIVE"}, PeersDbAdd(u, s) PROVE PInv'
  <2> DEFINE e == [state |-> s, last_seen |-> LastSeen(now), heard |-> now]
             n == [v \in DOMAIN db \cup {u} |-> IF v = u THEN e ELSE db[v]]
  <2>1. e \in Entries /\ e.heard = now /\ e.last_seen = LastSeen(e.heard)
    BY <1>0, TimeAssumption DEF Entries, PeerStates, LastSeen
  <2>2. DbBecomes(n, FALSE) /\ UNCHANGED <<statchange, changing, iod>>
    BY <1>1 DEF PeersDbAdd
  <2> HIDE DEF e
  <2>3. n \in Tables /\ Heard(n, now)
    BY <1>0, <2>1, TableWith
  <2> HIDE DEF n
  <2> QED
    BY <1>00, <2>2, <2>3, DbStep
<1>2. ASSUME NEW u \in Uids, PeersDbRemove(u) PROVE PInv'
  <2> DEFINE n == Restrict(db, DOMAIN db \ {u})
  <2>1. DbBecomes(n, FALSE) /\ UNCHANGED <<statchange, changing, iod>>
    BY <1>2 DEF PeersDbRemove
  <2>2. n \in Tables /\ Heard(n, now)
    BY <1>0, TableWithout
  <2> HIDE DEF n
  <2> QED
    BY <1>00, <2>1, <2>2, DbStep
<1>12. ASSUME NEW u \in Uids, PeersDbUtime(u) PROVE PInv'
  <2> DEFINE n == Refreshed({u})
  <2>1. DbBecomes(n, FALSE) /\ UNCHANGED <<statchange, changing, iod>>
    BY <1>12 DEF PeersDbUtime
  <2>2. n \in Tables /\ Heard(n, now)
    BY <1>0, TableHeard, ZenonT(40) DEF Refreshed
  <2> HIDE DEF n
  <2> QED
    BY <1>00, <2>1, <2>2, DbStep
<1>3. ASSUME NEW t \in Changers, NEW u \in Uids, NEW s \in {"NATPUNCHING", "ACTIVE"}, Schange(t, u, s)
      PROVE  PInv'
  <2> DEFINE n == [db EXCEPT ![u].state = s]
  <2>1. /\ DbBecomes(n, TRUE) /\ UNCHANGED <<statchange, iod>> /\ u \in DOMAIN db
        /\ changing' = changing \cup {t}
    BY <1>3 DEF Schange
  <2>2. n \in Tables /\ Heard(n, now)
    BY <1>0, <2>1, TableState DEF PeerStates
  <2> HIDE DEF n
  <2> QED
    BY <1>00, <2>1, <2>2, DbStep
<1>4. ASSUME NEW t \in Changers, SchangeNotify(t) PROVE PInv'
  BY <1>4 DEF SchangeNotify, PInv, PTypeOK, WaiterSeesChange
<1>5. ASSUME NEW u \in Uids, WaitCall(u, "ACTIVE") PROVE PInv'
  BY <1>5 DEF WaitCall, PInv, PTypeOK, WaiterSeesChange, PeerStates
<1>6. CASE Wait
  <2>1. CASE WaitPoll \/ WaitRead("read", "drain") \/ WaitRead("drain", "look")
    BY <2>1 DEF WaitPoll, WaitRead, WaitGoes, PInv, PTypeOK, WaiterSeesChange
  <2>2. CASE WaitLook
    BY <2>2 DEF WaitLook, WaitGoes, PInv, PTypeOK, WaiterSeesChange
  <2> QED
    BY <1>6, <2>1, <2>2 DEF Wait
<1>7. CASE IoBegin \/ IoSnapshot \/ IoBusy
  <2>1. iod' \in [pc : {"loop", "waited", "ping"}, now : Nat, snapshot : Tables]
    BY <1>0, <1>7, NoPeersTable DEF IoBegin, IoSnapshot, IoBusy, IoTypeOK
  <2>2. iod'.now <= now /\ Heard(iod'.snapshot, now)
    <3>1. CASE IoBegin
      BY <1>0, <3>1 DEF IoBegin, IoTypeOK
    <3>2. CASE IoSnapshot
      BY <1>0, <3>2 DEF IoSnapshot, IoTypeOK
    <3>3. CASE IoBusy
      BY <1>0, <3>3, NoPeersTable DEF IoBusy, IoTypeOK
    <3> QED
      BY <1>7, <3>1, <3>2, <3>3
  <2>3. UNCHANGED <<now, db, statchange, changing, waiter>>
    BY <1>7 DEF IoBegin, IoSnapshot, IoBusy
  <2> QED
    BY <2>1, <2>2, <2>3 DEF PInv, PTypeOK, WaiterSeesChange
<1>8. ASSUME NEW u \in Uids, IoPing(u) PROVE PInv'
  <2> DEFINE n == Restrict(iod.snapshot, DOMAIN iod.snapshot \ {u})
             d == IF FoundDead(iod.snapshot[u]) THEN Restrict(db, DOMAIN db \ {u}) ELSE db
  <2>1. DbBecomes(d, FALSE) /\ UNCHANGED <<statchange, changing>> /\ iod' = [iod EXCEPT !.snapshot = n]
    BY <1>8 DEF IoPing
  <2>2. n \in Tables /\ Heard(n, now)
    BY <1>0, TableWithout
  <2>3. d \in Tables /\ Heard(d, now)
    BY <1>0, TableWithout
  <2> HIDE DEF n, d
  <2>4. IoTypeOK' /\ iod'.now <= now /\ Heard(iod'.snapshot, now)
    BY <1>0, <2>1, <2>2 DEF IoTypeOK
  <2> QED
    BY <2>1, <2>3, <2>4, DbStep
<1>9. ASSUME NEW from \in SUBSET DOMAIN db, IoPackets(from) PROVE PInv'
  <2> DEFINE d == Refreshed(from)
  <2>1. DbBecomes(d, FALSE) /\ UNCHANGED <<statchange, changing>> /\ iod' = [iod EXCEPT !.pc = "loop"]
    BY <1>9 DEF IoPackets
  <2>2. d \in Tables /\ Heard(d, now)
    BY <1>0, TableHeard, ZenonT(40) DEF Refreshed
  <2> HIDE DEF d
  <2>3. IoTypeOK' /\ iod'.now <= now /\ Heard(iod'.snapshot, now)
    BY <1>0, <2>1 DEF IoTypeOK
  <2> QED
    BY <2>1, <2>2, <2>3, DbStep
<1>10. CASE PTick
  <2>1. ASSUME NEW d \in Tables, Heard(d, now) PROVE Heard(d, now + 1)
    <3>1. \A u \in DOMAIN d : d[u].heard \in Nat
      BY DEF Tables, Entries
    <3> QED
      BY <1>0, <2>1, <3>1 DEF Heard
  <2>2. now' = now + 1 /\ UNCHANGED <<db, statchange, changing, waiter, iod>>
    BY <1>10 DEF PTick
  <2>3. iod.now <= now + 1 /\ now + 1 \in Nat
    BY <1>0 DEF IoTypeOK
  <2> QED
    BY <1>0, <2>1, <2>2, <2>3 DEF PInv, PTypeOK, WaiterSeesChange
<1>11. CASE UNCHANGED pvars
  BY <1>11 DEF pvars, PInv, PTypeOK, WaiterSeesChange
<1> QED
  BY <1>1, <1>2, <1>3, <1>4, <1>5, <1>6, <1>7, <1>8, <1>9, <1>10, <1>11, <1>12 DEF PNext

(***************************************************************************)
(* The database of peers, its waiter and the rounds of _daemon_io: who is  *)
(* told of a change, and how old what each of them works with may be.      *)
(***************************************************************************)
THEOREM PInvariant == PSpec => []PInv
<1>1. PInit => PInv
  BY PInitInv
<1>2. PInv /\ [PNext]_pvars => PInv'
  BY PNextInv
<1> QED
  BY <1>1, <1>2, PTL DEF PSpec

(***************************************************************************)
(* A thread in peers_db_wait is told of each change that peers_db_schange  *)
(* makes while it waits.                                                   *)
(***************************************************************************)
THEOREM WaiterIsTold == PSpec => []WaiterSeesChange
<1>1. PInv => WaiterSeesChange
  BY DEF PInv
<1> QED
  BY <1>1, PInvariant, PTL

(***************************************************************************)
(* ping_iter gives up only peers that were silent for DeadAfter by the     *)
(* time the round of _daemon_io works with, and no peer heard of since,    *)
(* if they were last heard of before the clock outgrew last_seen.          *)
(***************************************************************************)
THEOREM BuriesTheDeadOnly == PSpec => NotBuriedAlive
<1> DEFINE Dead == \A u \in Uids : Buried(u) /\ iod.snapshot[u].heard < TimeWidth
                                   => Silence(u) >= DeadAfter
<1>1. PInv /\ PInv' /\ [PNext]_pvars => [Dead]_pvars
  <2> SUFFICES ASSUME PInv, PNext, NEW u \in Uids,
                      Buried(u), iod.snapshot[u].heard < TimeWidth
               PROVE  Silence(u) >= DeadAfter
    BY DEF pvars
  <2>1. (\E v \in Uids : IoPing(v)) \/ (\E from \in SUBSET DOMAIN db : IoPackets(from))
    BY DEF Buried, PNext, PeersDbAdd, PeersDbRemove, PeersDbUtime, Schange, SchangeNotify,
           WaitCall, Wait, WaitPoll, WaitRead, WaitLook, WaitGoes, IoBegin, IoSnapshot,
           IoBusy, PTick
  <2>2. CASE \E from \in SUBSET DOMAIN db : IoPackets(from)
    BY <2>2 DEF Buried, IoPackets, DbBecomes, Refreshed
  <2>3. ASSUME NEW v \in Uids, IoPing(v) PROVE Silence(u) >= DeadAfter
    <3>1. v = u /\ FoundDead(iod.snapshot[u]) /\ u \in DOMAIN iod.snapshot
      BY <2>3 DEF Buried, IoPing, DbBecomes, Restrict
    <3>2. /\ iod.now \in Nat /\ iod.snapshot[u].heard \in Nat
          /\ iod.snapshot[u].last_seen = LastSeen(iod.snapshot[u].heard)
      <4>1. iod.snapshot \in Tables /\ Heard(iod.snapshot, now)
        BY DEF PInv, PTypeOK
      <4>2. iod.snapshot[u] \in Entries
        BY <3>1, <4>1 DEF Tables
      <4> QED
        BY <3>1, <4>1, <4>2 DEF PInv, PTypeOK, IoTypeOK, Heard, Entries
    <3>3. LastSeen(iod.snapshot[u].heard) = iod.snapshot[u].heard
      BY <3>2, TimeAssumption DEF LastSeen
    <3> QED
      BY <3>1, <3>2, <3>3, TimeAssumption DEF FoundDead, Silence
  <2> QED
    BY <2>1, <2>2, <2>3
<1> QED
  BY <1>1, PInvariant, PTL DEF PSpec, NotBuriedAlive
-----------------------------------------------------------------------------
(* NAT detection. *)

Kinds == [kind : NatKinds, repeats : BOOLEAN]
Reqs  == [pc : {"join", "bind", "ask 1", "wait 1", "ask 2", "wait 2", "end"},
          first_i : Nat, second_i : Nat, addr : Nat]

NTypeOK ==
  /\ nat \in Kinds
  /\ resolving \subseteq Servers
  /\ q \in Seq(Servers)
  /\ req \in Reqs
  /\ sock_open \in BOOLEAN
  /\ failed \in BOOLEAN
  /\ answers \subseteq Nat /\ asked \subseteq Servers
  /\ nat_type \in NatKinds \cup {"none", "NAT_ERROR"}

(* Each server is resolved once, and all are when the threads are joined. *)
Resolved ==
  /\ \A i, j \in DOMAIN q : q[i] = q[j] => i = j
  /\ \A i \in DOMAIN q : q[i] \notin resolving
  /\ req.pc # "join" => resolving = {}
  /\ req.pc \notin {"join", "end"} => Len(q) >= 2
  /\ ~failed /\ NToResolve # 0 => Len(q) + Cardinality(resolving) = Cardinality(Servers)

(* On a socket that was never closed the two servers are the first two. *)
FirstTwo == sock_open /\ req.pc # "end" => req.first_i = 1 /\ req.second_i = 2

(* The one server asked: its request is on its way, or its answer, or lost. *)
AskedOnly(s) ==
  /\ asked \subseteq {s} /\ answers \subseteq {SeenBy(s)}
  /\ asked = {} \/ answers = {}

(* Where requests and answers are, if answers come once. *)
Asking ==
  sock_open /\ ~nat.repeats =>
    /\ req.pc \in {"join", "bind", "ask 1", "ask 2"} => asked = {} /\ answers = {}
    /\ req.pc = "wait 1" => AskedOnly(q[1])
    /\ req.pc = "wait 2" => AskedOnly(q[2])
    /\ req.pc \in {"ask 2", "wait 2"} => req.addr = SeenBy(q[1])

Closed ==
  /\ ~sock_open => failed /\ req.pc \in {"bind", "end"}
  /\ req.pc # "end" => nat_type = "none"

NInv ==
  /\ NTypeOK /\ Resolved /\ FirstTwo /\ Asking /\ Closed
  /\ TypeIsRight
  /\ nat_type = "NAT_ERROR" /\ NToResolve # 0 /\ Cardinality(Servers) >= 2 => failed

(* What servers see of the host. *)
LEMMA SeenByTyped ==
  ASSUME nat \in Kinds, NEW s \in Servers
  PROVE  SeenBy(s) \in Nat
BY ServersAssumption DEF Kinds, NatKinds, SeenBy, Port

(* Two servers are told the same port unless the NAT is symmetric. *)
LEMMA ClassifyIsRight ==
  ASSUME nat \in Kinds, NEW s \in Servers, NEW t \in Servers, s # t
  PROVE  Classify(SeenBy(s), SeenBy(t)) = nat.kind
<1>1. nat.kind \in NatKinds /\ s \in Nat /\ t \in Nat
  BY ServersAssumption DEF Kinds
<1>2. CASE nat.kind = "NAT_STATIC"
  BY <1>2 DEF Classify, SeenBy, Port
<1>3. CASE nat.kind = "NAT_DYNAMIC"
  BY <1>3 DEF Classify, SeenBy, Port
<1>4. CASE nat.kind = "NAT_SYMMETRIC"
  <2>1. SeenBy(s) = Port + 1 + s /\ SeenBy(t) = Port + 1 + t
    BY <1>4 DEF SeenBy
  <2> QED
    BY <1>1, <1>4, <2>1 DEF Classify, Port
<1> QED
  BY <1>1, <1>2, <1>3, <1>4 DEF NatKinds

(* The number of names being resolved. *)
LEMMA ResolvingCount ==
  ASSUME NTypeOK
  PROVE  /\ Cardinality(resolving) \in Nat
         /\ \A s \in resolving : Cardinality(resolving \ {s}) = Cardinality(resolving) - 1
<1>1. IsFiniteSet(resolving)
  BY ServersAssumption, FS_Subset DEF NTypeOK
<1> QED
  BY <1>1, FS_CardinalityType, FS_RemoveElement

(* Before the first name is resolved the invariant holds. *)
LEMMA NInitInv == NInit => NInv
<1> SUFFICES ASSUME NInit PROVE NInv
  OBVIOUS
<1>1. NTypeOK
  <2>1. resolving \subseteq Servers /\ nat \in Kinds
    BY DEF NInit, Kinds
  <2>2. q \in Seq(Servers)
    BY DEF NInit
  <2>3. req \in Reqs
    BY DEF NInit, Reqs
  <2> QED
    BY <2>1, <2>2, <2>3 DEF NInit, NTypeOK
<1>2. Resolved
  BY FS_CardinalityType, ServersAssumption DEF NInit, Resolved
<1> QED
  BY <1>1, <1>2 DEF NInit, NInv, FirstTwo, Asking, Closed, TypeIsRight, NatKinds

(* A name is resolved, or is not. *)
LEMMA ResolveStep ==
  ASSUME NInv, NEW s \in Servers, Resolve(s)
  PROVE  NInv'
<1>0. /\ s \in resolving /\ resolving' = resolving \ {s} /\ req.pc = "join"
      /\ UNCHANGED <<nat, req, sock_open, answers, asked, nat_type>>
      /\ q \in Seq(Servers)
  BY DEF Resolve, NInv, NTypeOK, Resolved
<1>1. CASE q' = Append(q, s) /\ UNCHANGED failed
  <2>1. /\ q' \in Seq(Servers) /\ Len(q') = Len(q) + 1
        /\ DOMAIN q' = DOMAIN q \cup {Len(q) + 1}
        /\ \A i \in DOMAIN q : q'[i] = q[i] /\ q[i] # s
        /\ q'[Len(q) + 1] = s
    BY <1>0, <1>1 DEF NInv, Resolved
  <2>2. Resolved'
    <3>1. /\ \A i, j \in DOMAIN q' : q'[i] = q'[j] => i = j
          /\ \A i \in DOMAIN q' : q'[i] \notin resolving'
      BY <1>0, <2>1 DEF NInv, Resolved
    <3>2. ~failed /\ NToResolve # 0 => Len(q') + Cardinality(resolving') = Cardinality(Servers)
      BY <1>0, <2>1, ResolvingCount DEF NInv, Resolved
    <3> QED
      BY <1>0, <1>1, <3>1, <3>2 DEF Resolved
  <2> QED
    BY <1>0, <1>1, <2>1, <2>2 DEF NInv, NTypeOK, FirstTwo, Asking, Closed, TypeIsRight
<1>2. CASE failed' = TRUE /\ UNCHANGED q
  BY <1>0, <1>2 DEF NInv, NTypeOK, Resolved, FirstTwo, Asking, Closed, TypeIsRight
<1> QED
  BY <1>1, <1>2 DEF Resolve

(* A request with one field changed. *)
LEMMA ReqWith ==
  ASSUME NTypeOK, NEW to \in {"join", "bind", "ask 1", "wait 1", "ask 2", "wait 2", "end"}
  PROVE  LET n == [req EXCEPT !.pc = to]
         IN  /\ n \in Reqs /\ n.pc = to /\ n.first_i = req.first_i
             /\ n.second_i = req.second_i /\ n.addr = req.addr
BY DEF NTypeOK, Reqs

(* The threads are joined. *)
LEMMA JoinStep ==
  ASSUME NInv, Join
  PROVE  NInv'
<1>1. /\ req.pc = "join" /\ resolving = {} /\ sock_open /\ q \in Seq(Servers)
      /\ UNCHANGED <<nat, resolving, q, sock_open, answers, asked, failed>>
  BY DEF Join, NInv, NTypeOK, Closed
<1>2. CASE Len(q) < 2 /\ Ends("NAT_ERROR")
  <2>1. req' \in Reqs /\ req'.pc = "end" /\ nat_type' = "NAT_ERROR"
    BY <1>2, ReqWith DEF Ends, NInv
  <2>2. NToResolve # 0 /\ Cardinality(Servers) >= 2 => failed
    BY <1>1, <1>2, FS_EmptySet DEF NInv, Resolved, NTypeOK
  <2> QED
    BY <1>1, <2>1, <2>2 DEF NInv, NTypeOK, Resolved, FirstTwo, Asking, Closed, TypeIsRight, NatKinds
<1>3. CASE ~(Len(q) < 2) /\ req' = [req EXCEPT !.pc = "bind"] /\ UNCHANGED nat_type
  <2>1. /\ req' \in Reqs /\ req'.pc = "bind" /\ req'.first_i = req.first_i
        /\ req'.second_i = req.second_i
    BY <1>3, ReqWith DEF NInv
  <2>2. Len(q) >= 2
    BY <1>1, <1>3
  <2> QED
    BY <1>1, <1>3, <2>1, <2>2 DEF NInv, NTypeOK, Resolved, FirstTwo, Asking, Closed, TypeIsRight
<1> QED
  BY <1>2, <1>3 DEF Join

(* The socket is bound, or was closed before. *)
LEMMA BindStep ==
  ASSUME NInv, Bind
  PROVE  NInv'
<1>1. /\ req.pc = "bind" /\ UNCHANGED <<nat, resolving, q, sock_open, answers, asked, failed>>
  BY DEF Bind
<1>2. CASE sock_open /\ req' = [req EXCEPT !.pc = "ask 1"] /\ UNCHANGED nat_type
  <2>1. /\ req' \in Reqs /\ req'.pc = "ask 1" /\ req'.first_i = req.first_i
        /\ req'.second_i = req.second_i
    BY <1>2, ReqWith DEF NInv
  <2> QED
    BY <1>1, <1>2, <2>1 DEF NInv, NTypeOK, Resolved, FirstTwo, Asking, Closed, TypeIsRight
<1>3. CASE ~sock_open /\ Ends("NAT_ERROR")
  <2>1. req' \in Reqs /\ req'.pc = "end" /\ nat_type' = "NAT_ERROR"
    BY <1>3, ReqWith DEF Ends, NInv
  <2> QED
    BY <1>1, <1>3, <2>1 DEF NInv, NTypeOK, Resolved, FirstTwo, Asking, Closed, TypeIsRight, NatKinds
<1> QED
  BY <1>2, <1>3 DEF Bind

(* A server is asked. *)
LEMMA AskStep ==
  ASSUME NInv, Ask
  PROVE  NInv'
<1> DEFINE to == IF req.pc = "ask 1" THEN "wait 1" ELSE "wait 2"
           s  == q[IF req.pc = "ask 1" THEN req.first_i ELSE req.second_i]
<1>1. /\ req.pc \in {"ask 1", "ask 2"} /\ asked' = asked \cup {s}
      /\ req' = [req EXCEPT !.pc = to]
      /\ UNCHANGED <<nat, resolving, q, sock_open, answers, failed, nat_type>>
  BY DEF Ask
<1>2. /\ req' \in Reqs /\ req'.pc = to /\ req'.first_i = req.first_i
      /\ req'.second_i = req.second_i /\ req'.addr = req.addr
  BY <1>1, ReqWith DEF NInv
<1>3. sock_open
  BY <1>1 DEF NInv, Closed
<1>4. /\ req.pc = "ask 1" => s = q[1]
      /\ req.pc = "ask 2" => s = q[2]
  BY <1>1, <1>3 DEF NInv, FirstTwo
<1> HIDE DEF s
<1>6. s \in Servers
  <2>1. Len(q) >= 2 /\ q \in Seq(Servers)
    BY <1>1 DEF NInv, NTypeOK, Resolved
  <2>2. q[1] \in Servers /\ q[2] \in Servers
    BY <2>1
  <2> QED
    BY <1>1, <1>4, <2>2
<1>5. Asking'
  <2>1. ~nat.repeats => asked = {} /\ answers = {} /\ (req.pc = "ask 2" => req.addr = SeenBy(q[1]))
    BY <1>1, <1>3 DEF NInv, Asking
  <2>2. CASE req.pc = "ask 1"
    <3>1. req'.pc = "wait 1" /\ (~nat.repeats => asked' = {q[1]} /\ answers' = {})
      BY <1>1, <1>2, <1>4, <2>1, <2>2
    <3> QED
      BY <1>1, <3>1 DEF Asking, AskedOnly
  <2>3. CASE req.pc = "ask 2"
    <3>1. req'.pc = "wait 2" /\ (~nat.repeats => asked' = {q[2]} /\ answers' = {} /\ req'.addr = SeenBy(q[1]))
      BY <1>1, <1>2, <1>4, <2>1, <2>3
    <3>2. SeenBy(q[1])' = SeenBy(q[1])
      BY <1>1 DEF SeenBy
    <3> QED
      BY <1>1, <3>1, <3>2 DEF Asking, AskedOnly
  <2> QED
    BY <1>1, <2>2, <2>3
<1> QED
  BY <1>1, <1>2, <1>3, <1>6, <1>5 DEF NInv, NTypeOK, Resolved, FirstTwo, Closed, TypeIsRight

(* An answer comes. *)
LEMMA AnsweredStep ==
  ASSUME NInv, NEW port, Answered(port)
  PROVE  NInv'
<1>1. /\ req.pc \in {"wait 1", "wait 2"} /\ port \in answers
      /\ answers' = answers \ {port} \/ (answers' = answers /\ nat.repeats)
      /\ UNCHANGED <<nat, resolving, q, sock_open, asked, failed>>
  BY DEF Answered
<1>2. /\ nat \in Kinds /\ nat.kind \in NatKinds /\ sock_open /\ Len(q) >= 2 /\ q \in Seq(Servers)
      /\ q[1] \in Servers /\ q[2] \in Servers /\ q[1] # q[2]
  <2>1. nat \in Kinds /\ nat.kind \in NatKinds /\ sock_open /\ Len(q) >= 2 /\ q \in Seq(Servers)
    BY <1>1 DEF NInv, NTypeOK, Kinds, Closed, Resolved
  <2>2. 1 \in DOMAIN q /\ 2 \in DOMAIN q
    BY <2>1
  <2>3. q[1] # q[2]
    BY <2>2 DEF NInv, Resolved
  <2> QED
    BY <2>1, <2>2, <2>3
<1>3. CASE req.pc = "wait 1" /\ req' = [req EXCEPT !.pc = "ask 2", !.addr = port] /\ UNCHANGED nat_type
  <2>1. port \in Nat /\ req \in Reqs
    BY <1>1 DEF NInv, NTypeOK
  <2>2. /\ req' \in Reqs /\ req'.pc = "ask 2" /\ req'.addr = port
        /\ req'.first_i = req.first_i /\ req'.second_i = req.second_i
    BY <1>3, <2>1 DEF Reqs
  <2>3. Asking'
    BY <1>1, <1>3, <2>2 DEF NInv, Asking, AskedOnly, SeenBy
  <2> QED
    BY <1>1, <1>2, <1>3, <2>2, <2>3 DEF NInv, NTypeOK, Resolved, FirstTwo, Closed, TypeIsRight
<1>4. CASE req.pc = "wait 2" /\ Ends(Classify(req.addr, port))
  <2>1. req' \in Reqs /\ req'.pc = "end" /\ nat_type' = Classify(req.addr, port)
    BY <1>4, ReqWith DEF Ends, NInv
  <2>2. nat_type' \in NatKinds
    BY <2>1 DEF Classify, NatKinds
  <2>3. ~nat.repeats => nat_type' = nat.kind
    <3>1. ~nat.repeats => req.addr = SeenBy(q[1]) /\ port = SeenBy(q[2])
      BY <1>1, <1>2, <1>4 DEF NInv, Asking, AskedOnly
    <3>2. Classify(SeenBy(q[1]), SeenBy(q[2])) = nat.kind
      BY <1>2, ClassifyIsRight
    <3> QED
      BY <2>1, <3>1, <3>2
  <2> QED
    BY <1>1, <1>2, <2>1, <2>2, <2>3 DEF NInv, NTypeOK, Resolved, FirstTwo, Asking, Closed, TypeIsRight, NatKinds
<1> QED
  BY <1>1, <1>3, <1>4 DEF Answered

(* No answer comes in time. *)
LEMMA UnansweredStep ==
  ASSUME NInv, Unanswered
  PROVE  NInv'
<1>1. /\ req.pc \in {"wait 1", "wait 2"} /\ sock_open' = FALSE /\ failed' = TRUE
      /\ UNCHANGED <<nat, resolving, q, answers, asked>>
  BY DEF Unanswered
<1>2. /\ req' \in Reqs
      /\ \/ req'.pc = "end" /\ nat_type' = "NAT_ERROR"
         \/ req'.pc = "bind" /\ nat_type' = nat_type
  <2>1. CASE Ends("NAT_ERROR")
    BY <2>1, ReqWith DEF Ends, NInv
  <2>2. ASSUME NEW first \in Nat, NEW second \in Nat, UNCHANGED nat_type,
               req' = [req EXCEPT !.pc = "bind", !.first_i = first, !.second_i = second]
        PROVE  req' \in Reqs /\ req'.pc = "bind" /\ nat_type' = nat_type
    BY <2>2 DEF NInv, NTypeOK, Reqs
  <2>3. req.first_i \in Nat /\ req.second_i \in Nat
    BY DEF NInv, NTypeOK, Reqs
  <2>4. Skip(req.first_i, req.second_i) \in Nat /\ Skip(req.second_i, req.first_i) \in Nat
    BY <2>3 DEF Skip
  <2> QED
    BY <2>1, <2>2, <2>3, <2>4 DEF Unanswered
<1> QED
  BY <1>1, <1>2 DEF NInv, NTypeOK, Resolved, FirstTwo, Asking, Closed, TypeIsRight, NatKinds

(* Every step of the detection keeps the invariant. *)
LEMMA NNextInv == NInv /\ [NNext]_nvars => NInv'
<1> SUFFICES ASSUME NInv, [NNext]_nvars PROVE NInv'
  OBVIOUS
<1>1. ASSUME NEW s \in Servers, ServerAnswers(s) PROVE NInv'
  <2>1. /\ s \in asked /\ asked' = asked \ {s}
        /\ answers' = IF sock_open THEN answers \cup {SeenBy(s)} ELSE answers
        /\ UNCHANGED <<nat, resolving, q, req, sock_open, failed, nat_type>>
    BY <1>1 DEF ServerAnswers
  <2>2. SeenBy(s) \in Nat
    BY SeenByTyped DEF NInv, NTypeOK
  <2>3. Asking'
    BY <2>1 DEF NInv, Asking, AskedOnly, SeenBy
  <2> QED
    BY <2>1, <2>2, <2>3 DEF NInv, NTypeOK, Resolved, FirstTwo, Closed, TypeIsRight
<1>2. ASSUME NEW s \in Servers, LoseRequest(s) PROVE NInv'
  BY <1>2 DEF LoseRequest, NInv, NTypeOK, Resolved, FirstTwo, Asking, AskedOnly, SeenBy, Closed, TypeIsRight
<1>3. CASE UNCHANGED nvars
  BY <1>3 DEF nvars, NInv, NTypeOK, Resolved, FirstTwo, Asking, AskedOnly, SeenBy, Closed, TypeIsRight
<1> QED
  BY <1>1, <1>2, <1>3, ResolveStep, JoinStep, BindStep, AskStep, AnsweredStep, UnansweredStep DEF NNext

(***************************************************************************)
(* What the threads of nat_parallel_req have, and what nat_get_type has of *)
(* it: answers come from servers that were asked.                          *)
(***************************************************************************)
THEOREM NInvariant == NSpec => []NInv
<1>1. NInit => NInv
  BY NInitInv
<1>2. NInv /\ [NNext]_nvars => NInv'
  BY NNextInv
<1> QED
  BY <1>1, <1>2, PTL DEF NSpec

(***************************************************************************)
(* nat_get_type finds the kind of NAT there is if no answer comes twice:   *)
(* its two answers are of two servers, and the retry after a lost one gets *)
(* nowhere.                                                                *)
(***************************************************************************)
THEOREM FindsTheType == NSpec => []TypeIsRight
<1>1. NInv => TypeIsRight
  BY DEF NInv
<1> QED
  BY <1>1, NInvariant, PTL

(***************************************************************************)
(* nat_parallel_req ends in an error only if a name or a request failed,   *)
(* when there are threads enough for the names.                            *)
(***************************************************************************)
THEOREM NoFalseAlarms == NSpec => []NoFalseAlarm
<1>1. NInv => NoFalseAlarm
  <2> SUFFICES ASSUME NInv, nat_type = "NAT_ERROR",
                      Cardinality(Servers) \in 2 .. STUN_PARALLEL_RESOLUTION_LIMIT
               PROVE  failed
    BY DEF NoFalseAlarm
  <2>1. Cardinality(Servers) \in Nat /\ Cardinality(Servers) >= 2
    BY ServersAssumption, FS_CardinalityType
  <2>2. ThreadsN = Cardinality(Servers)
    BY ServersAssumption, <2>1 DEF ThreadsN
  <2>3. \A n \in Nat \ {0} : n \div n = 1
    OBVIOUS
  <2>4. NToResolve = 1
    BY <2>1, <2>2, <2>3 DEF NToResolve
  <2> QED
    BY <2>1, <2>4 DEF NInv
<1> QED
  BY <1>1, NInvariant, PTL
-----------------------------------------------------------------------------
(* Gossip. *)

News == [uid : Hosts \cup {Garbage}, version : Nat, timestamp : Nat]

(* Entries about peers, none younger than the last time it was one. *)
Fresh(S, l) ==
  /\ S \subseteq News /\ IsFiniteSet(S)
  /\ \A e \in S : e.uid \in Hosts => e.timestamp <= l[e.uid]

GTypeOK ==
  /\ gclock \in Nat
  /\ peers \in [Nodes -> SUBSET Hosts]
  /\ round \in [Nodes -> SUBSET Hosts]
  /\ gossips \in [Nodes -> SUBSET News]
  /\ listed \in [Hosts -> Nat]
  /\ \A m \in flight : m.to \in Nodes

(* A peer of today was listed today; no node gossips to itself. *)
Listed ==
  /\ \A u \in Hosts : listed[u] <= gclock /\ (Known(u, peers, round) => listed[u] = gclock)
  /\ \A n \in Nodes : n \notin peers[n] \cup round[n]

GInv ==
  /\ GTypeOK /\ Listed
  /\ \A n \in Nodes : Fresh(gossips[n], listed)
  /\ \A m \in flight : Fresh(m.data, listed)

-----------------------------------------------------------------------------
(* Some of a set of fresh entries. *)
LEMMA FreshSubset ==
  ASSUME NEW l, NEW S, Fresh(S, l), NEW T \in SUBSET S
  PROVE  Fresh(T, l)
BY FS_Subset DEF Fresh

(* Two sets of fresh entries. *)
LEMMA FreshUnion ==
  ASSUME NEW l, NEW S, Fresh(S, l), NEW T, Fresh(T, l)
  PROVE  Fresh(S \cup T, l)
BY FS_Union DEF Fresh

(* One fresh entry. *)
LEMMA FreshOne ==
  ASSUME NEW l, NEW e \in News, e.uid \in Hosts => e.timestamp <= l[e.uid]
  PROVE  Fresh({e}, l)
BY FS_Singleton DEF Fresh

(* An entry about a present peer, made now, is fresh. *)
LEMMA NewEntryFresh ==
  ASSUME GInv, NEW n \in Nodes, NEW p \in round[n]
  PROVE  /\ Fresh(NewEntry(gossips[n], n, CreateEntry(p)), listed)
         /\ NewEntry(gossips[n], n, CreateEntry(p)) # {}
<1> DEFINE e == CreateEntry(p)
<1>1. p \in Hosts /\ p # n /\ listed[p] = gclock /\ gclock \in Nat
  BY DEF GInv, GTypeOK, Listed, Known
<1>2. e \in News /\ e.uid = p /\ e.timestamp = gclock
  <2>1. e = [uid |-> p, version |-> 0, timestamp |-> gclock]
    BY DEF CreateEntry
  <2> HIDE DEF e
  <2>2. e.uid = p /\ e.timestamp = gclock
    BY <2>1
  <2>3. e \in News
    BY <1>1, <2>1 DEF News
  <2> QED
    BY <2>2, <2>3
<1> HIDE DEF e
<1>3. Fresh({e}, listed)
  <2>1. listed[e.uid] = gclock /\ gclock <= gclock
    BY <1>1, <1>2
  <2>2. e.timestamp <= listed[e.uid]
    BY <1>2, <2>1
  <2> QED
    BY <1>2, <2>2, FreshOne
<1>4. Fresh(gossips[n], listed)
  BY DEF GInv
<1>5. CASE \E x \in gossips[n] : x.uid = e.uid /\ e.version <= x.version
  BY <1>1, <1>2, <1>4, <1>5 DEF NewEntry, e
<1>6. CASE ~ \E x \in gossips[n] : x.uid = e.uid /\ e.version <= x.version
  <2>1. NewEntry(gossips[n], n, e) = {x \in gossips[n] : x.uid # e.uid} \cup {e}
    BY <1>1, <1>2, <1>6 DEF NewEntry
  <2>2. Fresh({x \in gossips[n] : x.uid # e.uid}, listed)
    BY <1>4, FreshSubset
  <2>3. Fresh({x \in gossips[n] : x.uid # e.uid} \cup {e}, listed)
    BY <1>3, <2>2, FreshUnion
  <2> QED
    BY <2>1, <2>3 DEF e
<1> QED
  BY <1>5, <1>6

(* What gossip_to_data packs of fresh entries is fresh, or of nobody. *)
LEMMA ToDataFresh ==
  ASSUME NEW l \in [Hosts -> Nat], NEW g, Fresh(g, l), g # {}, NEW entries \in RandomEntries(g, 5)
  PROVE  Fresh(ToData(entries), l)
<1>1. Cardinality(g) \in Nat /\ Cardinality(g) # 0
  BY FS_CardinalityType, FS_EmptySet DEF Fresh
<1>2. PICK k \in Nat : k >= 1 /\ entries \in [1 .. k -> g]
  <2>1. PICK k : k = (IF 5 < Cardinality(g) THEN 5 ELSE Cardinality(g)) /\ entries \in [1 .. k -> g]
    BY DEF RandomEntries
  <2> QED
    BY <1>1, <2>1
<1>3. entries[1] \in g
  BY <1>2
<1>4. Fresh({entries[1]}, l)
  BY <1>3, FreshSubset
<1>5. NotAnEntry \in News /\ NotAnEntry.timestamp = 0
  BY DEF NotAnEntry, News
<1>6. NotAnEntry.uid \in Hosts => NotAnEntry.timestamp <= l[NotAnEntry.uid]
  BY <1>5
<1>7. Fresh({NotAnEntry}, l)
  BY <1>5, <1>6, FreshOne
<1>8. Fresh({entries[1]} \cup {NotAnEntry}, l)
  BY <1>4, <1>7, FreshUnion
<1> QED
  BY <1>8, FreshSubset DEF ToData

(* The history only grows. *)
LEMMA FreshLater ==
  ASSUME NEW S, NEW l \in [Hosts -> Nat], NEW k \in [Hosts -> Nat],
         \A u \in Hosts : l[u] <= k[u], Fresh(S, l)
  PROVE  Fresh(S, k)
<1>1. ASSUME NEW e \in S, e.uid \in Hosts PROVE e.timestamp <= k[e.uid]
  <2>1. e.timestamp \in Nat /\ e.timestamp <= l[e.uid] /\ l[e.uid] \in Nat /\ k[e.uid] \in Nat
    BY <1>1 DEF Fresh, News
  <2> QED
    BY <1>1, <2>1
<1> QED
  BY <1>1 DEF Fresh

(* Nodes without gossip satisfy the invariant. *)
LEMMA GInitInv == GInit => GInv
<1> SUFFICES ASSUME GInit PROVE GInv
  OBVIOUS
<1>1. Fresh({}, listed)
  BY FS_EmptySet DEF Fresh
<1>2. GTypeOK
  BY LinksAssumption DEF GInit, GTypeOK, Hosts
<1>3. Listed
  BY LinksAssumption DEF GInit, Listed
<1> QED
  BY <1>1, <1>2, <1>3 DEF GInit, GInv

(* Nobody becomes a peer. *)
LEMMA KnownLess ==
  ASSUME NEW p, NEW r1, NEW p2, NEW r2, \A n \in Nodes : p2[n] \cup r2[n] \subseteq p[n] \cup r1[n], NEW u
  PROVE  Known(u, p2, r2) => Known(u, p, r1)
BY DEF Known

(* A step that adds no peer, and fresh entries only. *)
LEMMA PeersStep ==
  ASSUME GInv, UNCHANGED <<gclock, listed, flight>>,
         peers' \in [Nodes -> SUBSET Hosts], round' \in [Nodes -> SUBSET Hosts],
         \A n \in Nodes : peers'[n] \cup round'[n] \subseteq peers[n] \cup round[n],
         gossips' \in [Nodes -> SUBSET News], \A n \in Nodes : Fresh(gossips'[n], listed)
  PROVE  GInv'
<1>1. \A u : Known(u, peers', round') => Known(u, peers, round)
  BY KnownLess
<1>2. Listed'
  BY <1>1 DEF GInv, Listed
<1> QED
  BY <1>2 DEF GInv, GTypeOK

(* Every step of gossip keeps the invariant. *)
LEMMA GNextInv == GInv /\ [GNext]_gvars => GInv'
<1> SUFFICES ASSUME GInv, [GNext]_gvars PROVE GInv'
  OBVIOUS
<1>0. GTypeOK /\ \A n \in Nodes : Fresh(gossips[n], listed)
  BY DEF GInv
<1>1. ASSUME NEW n \in Nodes, NEW dead \in SUBSET peers[n], StartRound(n, dead) PROVE GInv'
  <2>1. /\ peers' = [peers EXCEPT ![n] = @ \ dead] /\ round' = [round EXCEPT ![n] = peers[n]]
        /\ gossips' = [gossips EXCEPT ![n] = Cleanup(gossips[n])]
        /\ UNCHANGED <<gclock, listed, flight>>
    BY <1>1 DEF StartRound
  <2>2. Cleanup(gossips[n]) \subseteq gossips[n]
    BY DEF Cleanup
  <2>3. Fresh(Cleanup(gossips[n]), listed)
    BY <1>0, <2>2, FreshSubset
  <2>4. gossips' \in [Nodes -> SUBSET News] /\ \A o \in Nodes : Fresh(gossips'[o], listed)
    BY <1>0, <2>1, <2>2, <2>3 DEF GTypeOK
  <2>5. /\ peers' \in [Nodes -> SUBSET Hosts] /\ round' \in [Nodes -> SUBSET Hosts]
        /\ \A o \in Nodes : peers'[o] \cup round'[o] \subseteq peers[o] \cup round[o]
    BY <1>0, <2>1 DEF GTypeOK
  <2> QED
    BY <2>1, <2>4, <2>5, PeersStep
<1>2. ASSUME NEW n \in Nodes, NEW p \in Hosts, SkipPeer(n, p) PROVE GInv'
  <2>1. round' = [round EXCEPT ![n] = @ \ {p}] /\ UNCHANGED <<gclock, listed, flight, peers, gossips>>
    BY <1>2 DEF SkipPeer
  <2>2. /\ peers' \in [Nodes -> SUBSET Hosts] /\ round' \in [Nodes -> SUBSET Hosts]
        /\ \A o \in Nodes : peers'[o] \cup round'[o] \subseteq peers[o] \cup round[o]
    BY <1>0, <2>1 DEF GTypeOK
  <2> QED
    BY <1>0, <2>1, <2>2, PeersStep DEF GTypeOK
<1>3. ASSUME NEW n \in Nodes, NEW p \in Hosts, GossipIter(n, p) PROVE GInv'
  <2> DEFINE g == NewEntry(gossips[n], n, CreateEntry(p))
  <2>1. /\ p \in round[n] /\ round' = [round EXCEPT ![n] = @ \ {p}]
        /\ gossips' = [gossips EXCEPT ![n] = g]
        /\ UNCHANGED <<gclock, listed, peers>>
    BY <1>3 DEF GossipIter
  <2>2. PICK entries \in RandomEntries(g, 5) :
           flight' = IF p \in Silent THEN flight
                     ELSE flight \cup {[to |-> p, data |-> ToData(entries)]}
    BY <1>3 DEF GossipIter
  <2>3. Fresh(g, listed) /\ g # {}
    BY <2>1, NewEntryFresh
  <2> HIDE DEF g
  <2>4. Fresh(ToData(entries), listed)
    BY <1>0, <2>3, ToDataFresh DEF GTypeOK
  <2>5. p \in Silent \/ p \in Nodes
    BY DEF Hosts
  <2>6. \A m \in flight' : m.to \in Nodes /\ Fresh(m.data, listed)
    BY <2>2, <2>4, <2>5 DEF GInv, GTypeOK
  <2>7. gossips' \in [Nodes -> SUBSET News] /\ \A o \in Nodes : Fresh(gossips'[o], listed)
    BY <1>0, <2>1, <2>3 DEF GTypeOK, Fresh
  <2>8. /\ round' \in [Nodes -> SUBSET Hosts]
        /\ \A o \in Nodes : round'[o] \subseteq round[o]
    BY <1>0, <2>1 DEF GTypeOK
  <2>9. \A u : Known(u, peers', round') => Known(u, peers, round)
    BY <2>1, <2>8, KnownLess
  <2>10. Listed'
    BY <2>1, <2>8, <2>9 DEF GInv, Listed
  <2> QED
    BY <1>0, <2>1, <2>6, <2>7, <2>8, <2>10 DEF GInv, GTypeOK
<1>4. ASSUME NEW n \in Nodes, NEW p \in Hosts, GossipIterDies(n, p) PROVE GInv'
  <2>1. /\ peers' = [peers EXCEPT ![n] = {}] /\ round' = [round EXCEPT ![n] = {}]
        /\ gossips' = [gossips EXCEPT ![n] = {}]
        /\ UNCHANGED <<gclock, listed, flight>>
    BY <1>4 DEF GossipIterDies
  <2>2. Fresh({}, listed)
    BY <1>0, FreshSubset
  <2>3. gossips' \in [Nodes -> SUBSET News] /\ \A o \in Nodes : Fresh(gossips'[o], listed)
    BY <1>0, <2>1, <2>2 DEF GTypeOK
  <2>4. /\ peers' \in [Nodes -> SUBSET Hosts] /\ round' \in [Nodes -> SUBSET Hosts]
        /\ \A o \in Nodes : peers'[o] \cup round'[o] \subseteq peers[o] \cup round[o]
    BY <1>0, <2>1 DEF GTypeOK
  <2> QED
    BY <2>1, <2>3, <2>4, PeersStep
<1>5. ASSUME NEW m \in flight, FromPacket(m) PROVE GInv'
  <2> DEFINE g == NewEntries(gossips[m.to], m.to, m.data)
  <2>1. /\ gossips' = [gossips EXCEPT ![m.to] = g]
        /\ flight' \subseteq flight
        /\ UNCHANGED <<gclock, listed, peers, round>>
    BY <1>5 DEF FromPacket
  <2>2. m.to \in Nodes /\ Fresh(gossips[m.to], listed) /\ Fresh(m.data, listed)
    BY DEF GInv, GTypeOK
  <2>3. g \subseteq gossips[m.to] \cup m.data
    BY DEF NewEntries
  <2>4. Fresh(g, listed)
    BY <2>2, <2>3, FreshUnion, FreshSubset
  <2> HIDE DEF g
  <2>5. gossips' \in [Nodes -> SUBSET News] /\ \A o \in Nodes : Fresh(gossips'[o], listed)
    BY <1>0, <2>1, <2>2, <2>4 DEF GTypeOK, Fresh
  <2> QED
    BY <1>0, <2>1, <2>5 DEF GInv, GTypeOK, Listed
<1>6. ASSUME NEW m \in flight, LosePacket(m) PROVE GInv'
  BY <1>6 DEF LosePacket, GInv, GTypeOK, Listed
<1>7. CASE GTick
  <2>1. /\ gclock' = gclock + 1
        /\ listed' = [u \in Hosts |-> IF Known(u, peers, round) THEN gclock + 1 ELSE listed[u]]
        /\ UNCHANGED <<peers, gossips, round, flight>>
    BY <1>7 DEF GTick
  <2>2. listed' \in [Hosts -> Nat] /\ \A u \in Hosts : listed[u] <= listed'[u]
    BY <1>0, <2>1 DEF GTypeOK, GInv, Listed
  <2>3. \A u \in Hosts : listed'[u] <= gclock' /\ (Known(u, peers, round) => listed'[u] = gclock')
    BY <1>0, <2>1 DEF GTypeOK, GInv, Listed
  <2>4. \A S : Fresh(S, listed) => Fresh(S, listed')
    BY <1>0, <2>2, FreshLater DEF GTypeOK
  <2> QED
    BY <1>0, <2>1, <2>2, <2>3, <2>4 DEF GInv, GTypeOK, Listed
<1>8. CASE UNCHANGED gvars
  BY <1>8 DEF gvars, GInv, GTypeOK, Listed
<1> QED
  BY <1>1, <1>2, <1>3, <1>4, <1>5, <1>6, <1>7, <1>8 DEF GNext

(***************************************************************************)
(* No copy of an entry is younger than the last time its subject was a     *)
(* peer of some node, whatever gossip_iter and gossip_from_packet pass on. *)
(***************************************************************************)
THEOREM GossipAges == GSpec => []NeverRejuvenated
<1>1. GInit => GInv
  BY GInitInv
<1>2. GInv /\ [GNext]_gvars => GInv'
  BY GNextInv
<1>3. GInv => NeverRejuvenated
  <2> SUFFICES ASSUME GInv, NEW e \in Copies, e.uid \in Hosts PROVE e.timestamp <= listed[e.uid]
    BY DEF NeverRejuvenated
  <2>1. (\E n \in Nodes : e \in gossips[n]) \/ (\E m \in flight : e \in m.data)
    BY DEF Copies
  <2> QED
    BY <2>1 DEF GInv, Fresh
<1> QED
  BY <1>1, <1>2, <1>3, PTL DEF GSpec
-----------------------------------------------------------------------------
(* The way of a packet. *)

Packets == [seq : Nat \X {0}, d_size : Nat \X Nat, packtype : Types]

PPTypeOK ==
  /\ packed \in Seq(Packets) /\ outq \in Seq(Packets)
  /\ accepted \in Seq(Packets) /\ inq \in Seq(Packets)
  /\ disp \in Seq(Packets) /\ wtch \in Seq(Packets)

(* Packets _daemon_io has come to, and where in "accepted" they are. *)
Come == Len(accepted) - Len(inq)
RudpAt  == {n \in 1 .. Come : OfConnection(accepted[n])}
OtherAt == {n \in 1 .. Come : ~OfConnection(accepted[n])}

(* What is queued was sent; a datagram too, if its checksum is right. *)
Genuine ==
  /\ ToSet(outq) \subseteq ToSet(packed)
  /\ ToSet(accepted) \subseteq ToSet(packed)
  /\ \A d \in wire : Refused(d) \/ \E p \in ToSet(packed) : d = ToWire(p)

Passed ==
  /\ Len(inq) <= Len(accepted)
  /\ \A i \in 1 .. Len(inq) : inq[i] = accepted[Come + i]
  /\ TakenAt(disp, accepted, RudpAt)
  /\ TakenAt(wtch, accepted, OtherAt)

PPInv == PPTypeOK /\ Genuine /\ Passed

-----------------------------------------------------------------------------
(* A packet with two fields changed. *)
LEMMA WithBoth ==
  ASSUME NEW p, NEW a, NEW b, NEW c, p = [seq |-> a, d_size |-> b, packtype |-> c], NEW x, NEW y
  PROVE  [p EXCEPT !.seq = x, !.d_size = y] = [seq |-> x, d_size |-> y, packtype |-> c]
<1> DEFINE q0 == [p EXCEPT !.seq = x, !.d_size = y]
<1>1. q0.seq = x /\ q0.d_size = y /\ q0.packtype = c /\ DOMAIN q0 = {"seq", "d_size", "packtype"}
  OBVIOUS
<1>2. q0 = [f \in DOMAIN q0 |-> q0[f]]
  OBVIOUS
<1> HIDE DEF q0
<1>3. q0 = [seq |-> x, d_size |-> y, packtype |-> c]
  BY <1>1, <1>2
<1> QED
  BY <1>3 DEF q0

(* A packet with the byte order of its numbers changed. *)
LEMMA SwapBoth ==
  ASSUME NEW p, p = [seq |-> p.seq, d_size |-> p.d_size, packtype |-> p.packtype]
  PROVE  [p EXCEPT !.seq = Swap(@), !.d_size = Swap(@)]
           = [seq |-> Swap(p.seq), d_size |-> Swap(p.d_size), packtype |-> p.packtype]
<1>1. [p EXCEPT !.seq = Swap(@), !.d_size = Swap(@)]
        = [p EXCEPT !.seq = Swap(p.seq), !.d_size = Swap(p.d_size)]
  OBVIOUS
<1> DEFINE x == Swap(p.seq)
           y == Swap(p.d_size)
<1>2. [p EXCEPT !.seq = x, !.d_size = y] = [seq |-> x, d_size |-> y, packtype |-> p.packtype]
  <2> HIDE DEF x, y
  <2> QED
    BY WithBoth
<1> QED
  BY <1>1, <1>2

(* The fields of a packet. *)
LEMMA PacketShape ==
  ASSUME NEW p \in Packets
  PROVE  p = [seq |-> p.seq, d_size |-> p.d_size, packtype |-> p.packtype]
BY DEF Packets

(* A packet on the wire. *)
LEMMA Converted ==
  ASSUME NEW p \in Packets
  PROVE  ToWire(p) = [pkt   |-> [seq |-> Swap(p.seq), d_size |-> Swap(p.d_size), packtype |-> p.packtype],
                      chsum |-> <<Swap(p.seq), Swap(p.d_size), p.packtype>>]
<1> DEFINE w == [p EXCEPT !.seq = Swap(@), !.d_size = Swap(@)]
<1>1. ToWire(p) = [pkt |-> w, chsum |-> Crc32(w)]
  BY DEF ToWire
<1>2. w = [seq |-> Swap(p.seq), d_size |-> Swap(p.d_size), packtype |-> p.packtype]
  BY PacketShape, SwapBoth
<1> HIDE DEF w
<1>3. Crc32(w) = <<Swap(p.seq), Swap(p.d_size), p.packtype>>
  BY <1>2 DEF Crc32
<1> QED
  BY <1>1, <1>2, <1>3

(* The two conversions undo each other, and the checksum fits. *)
LEMMA ConvertBack ==
  ASSUME NEW p \in Packets
  PROVE  FromWire(ToWire(p)) = p /\ ~Refused(ToWire(p))
<1> DEFINE w == ToWire(p).pkt
<1>1. /\ w = [seq |-> Swap(p.seq), d_size |-> Swap(p.d_size), packtype |-> p.packtype]
      /\ ToWire(p).chsum = <<Swap(p.seq), Swap(p.d_size), p.packtype>>
  BY Converted
<1> HIDE DEF w
<1>2. /\ w.seq = Swap(p.seq) /\ w.d_size = Swap(p.d_size) /\ w.packtype = p.packtype
      /\ w = [seq |-> w.seq, d_size |-> w.d_size, packtype |-> w.packtype]
  BY <1>1
<1>3. Swap(w.seq) = p.seq /\ Swap(w.d_size) = p.d_size
  BY <1>2 DEF Packets, Swap
<1>4. FromWire(ToWire(p)) = [w EXCEPT !.seq = Swap(@), !.d_size = Swap(@)]
  BY DEF FromWire, w
<1>5. FromWire(ToWire(p)) = [seq |-> Swap(w.seq), d_size |-> Swap(w.d_size), packtype |-> w.packtype]
  BY <1>2, <1>4, SwapBoth
<1>6. FromWire(ToWire(p)) = p
  BY <1>2, <1>3, <1>5, PacketShape
<1>7. ~Refused(ToWire(p))
  BY <1>1, <1>2 DEF Refused, Crc32, w
<1> QED
  BY <1>6, <1>7

(* Damage does not pass the checksum. *)
LEMMA DamageRefused ==
  ASSUME NEW p \in Packets
  PROVE  /\ Refused([ToWire(p) EXCEPT !.pkt.seq = <<9, 9>>])
         /\ Refused([ToWire(p) EXCEPT !.pkt.packtype = "PACK_NULL"])
         /\ Refused([ToWire(p) EXCEPT !.chsum = << >>])
<1> DEFINE w == [seq |-> Swap(p.seq), d_size |-> Swap(p.d_size), packtype |-> p.packtype]
           c == <<Swap(p.seq), Swap(p.d_size), p.packtype>>
<1>1. ToWire(p) = [pkt |-> w, chsum |-> c]
  BY Converted
<1>2. Swap(p.seq)[1] = 0 /\ p.packtype # "PACK_NULL"
  BY TypesAssumption DEF Packets, Swap
<1>3. [ToWire(p) EXCEPT !.pkt.seq = <<9, 9>>]
        = [pkt |-> [seq |-> <<9, 9>>, d_size |-> Swap(p.d_size), packtype |-> p.packtype], chsum |-> c]
  BY <1>1
<1>4. [ToWire(p) EXCEPT !.pkt.packtype = "PACK_NULL"]
        = [pkt |-> [seq |-> Swap(p.seq), d_size |-> Swap(p.d_size), packtype |-> "PACK_NULL"], chsum |-> c]
  BY <1>1
<1>5. [ToWire(p) EXCEPT !.chsum = << >>] = [pkt |-> w, chsum |-> << >>]
  BY <1>1
<1>6. Refused([ToWire(p) EXCEPT !.pkt.seq = <<9, 9>>])
  BY <1>2, <1>3 DEF Refused, Crc32
<1>7. Refused([ToWire(p) EXCEPT !.pkt.packtype = "PACK_NULL"])
  BY <1>2, <1>4 DEF Refused, Crc32
<1>8. Refused([ToWire(p) EXCEPT !.chsum = << >>])
  BY <1>5 DEF Refused, Crc32
<1> QED
  BY <1>6, <1>7, <1>8

-----------------------------------------------------------------------------
(* A queue with an element more. *)
LEMMA AppendSeq ==
  ASSUME NEW S, NEW q0 \in Seq(S), NEW e \in S
  PROVE  /\ Append(q0, e) \in Seq(S) /\ Len(Append(q0, e)) = Len(q0) + 1
         /\ DOMAIN q0 = 1 .. Len(q0) /\ Len(q0) \in Nat
         /\ DOMAIN Append(q0, e) = 1 .. (Len(q0) + 1)
         /\ \A i \in 1 .. Len(q0) : Append(q0, e)[i] = q0[i]
         /\ Append(q0, e)[Len(q0) + 1] = e
         /\ ToSet(Append(q0, e)) = ToSet(q0) \cup {e}
<1>1. /\ Append(q0, e) \in Seq(S) /\ Len(Append(q0, e)) = Len(q0) + 1
      /\ DOMAIN q0 = 1 .. Len(q0) /\ Len(q0) \in Nat
      /\ DOMAIN Append(q0, e) = 1 .. (Len(q0) + 1)
      /\ \A i \in 1 .. Len(q0) : Append(q0, e)[i] = q0[i]
      /\ Append(q0, e)[Len(q0) + 1] = e
  OBVIOUS
<1>2. 1 .. (Len(q0) + 1) = 1 .. Len(q0) \cup {Len(q0) + 1}
  BY <1>1
<1>3. ToSet(Append(q0, e)) = ToSet(q0) \cup {e}
  BY <1>1, <1>2 DEF ToSet
<1> QED
  BY <1>1, <1>3

(* A queue whose first element is taken. *)
LEMMA TailSeq ==
  ASSUME NEW S, NEW q0 \in Seq(S), q0 # << >>
  PROVE  /\ Tail(q0) \in Seq(S) /\ Len(Tail(q0)) = Len(q0) - 1 /\ Len(q0) \in Nat /\ Len(q0) >= 1
         /\ Head(q0) = q0[1] /\ Head(q0) \in S /\ Head(q0) \in ToSet(q0)
         /\ \A i \in 1 .. (Len(q0) - 1) : Tail(q0)[i] = q0[i + 1]
         /\ ToSet(Tail(q0)) \subseteq ToSet(q0)
<1>1. /\ Tail(q0) \in Seq(S) /\ Len(q0) \in Nat /\ Len(q0) >= 1 /\ Head(q0) = q0[1]
      /\ DOMAIN q0 = 1 .. Len(q0) /\ Len(Tail(q0)) = Len(q0) - 1
      /\ DOMAIN Tail(q0) = 1 .. (Len(q0) - 1)
      /\ \A i \in 1 .. (Len(q0) - 1) : Tail(q0)[i] = q0[i + 1]
      /\ q0[1] \in S
  OBVIOUS
<1>2. \A i \in 1 .. (Len(q0) - 1) : i + 1 \in 1 .. Len(q0)
  BY <1>1
<1> QED
  BY <1>1, <1>2 DEF ToSet

(* Another place is taken, behind the others. *)
LEMMA TakenMore ==
  ASSUME NEW S, NEW sub \in Seq(S), NEW s, NEW c \in Nat, NEW places \in SUBSET (1 .. c),
         s[c + 1] \in S, TakenAt(sub, s, places)
  PROVE  TakenAt(Append(sub, s[c + 1]), s, places \cup {c + 1})
<1>1. PICK at \in [DOMAIN sub -> places] :
        /\ \A i \in DOMAIN sub : sub[i] = s[at[i]]
        /\ \A i, j \in DOMAIN sub : i < j => at[i] < at[j]
        /\ \A n \in places : \E i \in DOMAIN sub : at[i] = n
  BY DEF TakenAt
<1> DEFINE new == Append(sub, s[c + 1])
           to  == [i \in 1 .. (Len(sub) + 1) |-> IF i = Len(sub) + 1 THEN c + 1 ELSE at[i]]
<1>2. /\ DOMAIN sub = 1 .. Len(sub) /\ Len(sub) \in Nat /\ DOMAIN new = 1 .. (Len(sub) + 1)
      /\ \A i \in 1 .. Len(sub) : new[i] = sub[i]
      /\ new[Len(sub) + 1] = s[c + 1]
  BY AppendSeq
<1> HIDE DEF new
<1>3. /\ \A i \in 1 .. Len(sub) : to[i] = at[i] /\ at[i] \in places /\ at[i] \in 1 .. c
      /\ to[Len(sub) + 1] = c + 1
  <2>1. \A i \in 1 .. Len(sub) : i # Len(sub) + 1 /\ i \in 1 .. (Len(sub) + 1)
    BY <1>2
  <2>2. \A i \in 1 .. Len(sub) : at[i] \in places
    BY <1>1, <1>2
  <2>3. to[Len(sub) + 1] = c + 1
    BY <1>2
  <2>4. \A i \in 1 .. Len(sub) : to[i] = at[i]
    BY <2>1
  <2> QED
    BY <2>2, <2>3, <2>4
<1>4. to \in [DOMAIN new -> places \cup {c + 1}]
  BY <1>2, <1>3
<1> HIDE DEF to
<1>5. \A i \in DOMAIN new : i \in 1 .. Len(sub) \/ i = Len(sub) + 1
  BY <1>2
<1>6. \A i \in DOMAIN new : new[i] = s[to[i]]
  BY <1>1, <1>2, <1>3, <1>5
<1>7. \A i, j \in DOMAIN new : i < j => to[i] < to[j]
  <2>1. ASSUME NEW i \in DOMAIN new, NEW j \in DOMAIN new, i < j PROVE to[i] < to[j]
    <3>1. i \in 1 .. Len(sub)
      BY <1>2, <2>1
    <3>2. CASE j \in 1 .. Len(sub)
      BY <1>1, <1>2, <1>3, <2>1, <3>1, <3>2
    <3>3. CASE j = Len(sub) + 1
      BY <1>3, <3>1, <3>3
    <3> QED
      BY <1>5, <3>2, <3>3
  <2> QED
    BY <2>1
<1>8. \A n \in places \cup {c + 1} : \E i \in DOMAIN new : to[i] = n
  <2>1. ASSUME NEW n \in places PROVE \E i \in DOMAIN new : to[i] = n
    <3>1. PICK i \in DOMAIN sub : at[i] = n
      BY <1>1, <2>1
    <3> QED
      BY <1>2, <1>3, <3>1
  <2>2. Len(sub) + 1 \in DOMAIN new
    BY <1>2
  <2> QED
    BY <1>3, <2>1, <2>2
<1>9. TakenAt(new, s, places \cup {c + 1})
  BY <1>4, <1>6, <1>7, <1>8 DEF TakenAt
<1> QED
  BY <1>9 DEF new

(* The places do not change when the sequence gets longer. *)
LEMMA TakenLonger ==
  ASSUME NEW sub, NEW s, NEW t, NEW places, \A n \in places : t[n] = s[n], TakenAt(sub, s, places)
  PROVE  TakenAt(sub, t, places)
<1>1. PICK at \in [DOMAIN sub -> places] :
        /\ \A i \in DOMAIN sub : sub[i] = s[at[i]]
        /\ \A i, j \in DOMAIN sub : i < j => at[i] < at[j]
        /\ \A n \in places : \E i \in DOMAIN sub : at[i] = n
  BY DEF TakenAt
<1>2. \A i \in DOMAIN sub : sub[i] = t[at[i]]
  BY <1>1
<1> QED
  BY <1>1, <1>2 DEF TakenAt

(* Before the first packet the invariant holds. *)
LEMMA PPInitInv == PPInit => PPInv
<1> SUFFICES ASSUME PPInit PROVE PPInv
  OBVIOUS
<1>1. /\ PPTypeOK /\ Len(inq) = 0 /\ Len(accepted) = 0
      /\ DOMAIN disp = {} /\ DOMAIN wtch = {} /\ DOMAIN accepted = {} /\ DOMAIN outq = {}
  BY DEF PPInit, PPTypeOK
<1>2. RudpAt = {} /\ OtherAt = {}
  BY <1>1 DEF RudpAt, OtherAt, Come
<1>3. Genuine
  BY <1>1 DEF PPInit, Genuine, ToSet
<1>4. ASSUME NEW h, DOMAIN h = {} PROVE TakenAt(h, accepted, {})
  <2>1. [x \in {} |-> 0] \in [DOMAIN h -> {}]
    BY <1>4
  <2> QED
    BY <1>4, <2>1 DEF TakenAt
<1> QED
  BY <1>1, <1>2, <1>3, <1>4 DEF PPInv, Passed

(* A packet the listener takes comes behind the others. *)
LEMMA TakeStep ==
  ASSUME PPInv, NEW p \in Packets, p \in ToSet(packed), UNCHANGED <<packed, outq, disp, wtch>>,
         inq' = Append(inq, p), accepted' = Append(accepted, p), wire' \subseteq wire
  PROVE  PPInv'
<1>1. accepted \in Seq(Packets) /\ inq \in Seq(Packets) /\ Len(inq) <= Len(accepted)
  BY DEF PPInv, PPTypeOK, Passed
<1>2. /\ inq' \in Seq(Packets) /\ Len(inq') = Len(inq) + 1 /\ Len(inq) \in Nat
      /\ \A i \in 1 .. Len(inq) : inq'[i] = inq[i]
      /\ inq'[Len(inq) + 1] = p
  BY <1>1, AppendSeq
<1>3. /\ accepted' \in Seq(Packets) /\ Len(accepted') = Len(accepted) + 1 /\ Len(accepted) \in Nat
      /\ \A i \in 1 .. Len(accepted) : accepted'[i] = accepted[i]
      /\ accepted'[Len(accepted) + 1] = p
      /\ ToSet(accepted') = ToSet(accepted) \cup {p}
  BY <1>1, AppendSeq
<1>4. Come' = Come /\ Come \in Nat /\ Come <= Len(accepted)
  BY <1>1, <1>2, <1>3 DEF Come
<1>5. \A n \in 1 .. Come : accepted'[n] = accepted[n]
  BY <1>3, <1>4
<1>6. RudpAt' = RudpAt /\ OtherAt' = OtherAt
  BY <1>4, <1>5 DEF RudpAt, OtherAt
<1>7. TakenAt(disp, accepted', RudpAt) /\ TakenAt(wtch, accepted', OtherAt)
  BY <1>5, TakenLonger DEF PPInv, Passed, RudpAt, OtherAt
<1>8. \A i \in 1 .. Len(inq') : inq'[i] = accepted'[Come + i]
  <2>1. ASSUME NEW i \in 1 .. Len(inq) PROVE inq'[i] = accepted'[Come + i]
    <3>1. Come + i \in 1 .. Len(accepted)
      BY <1>1, <1>2, <1>3, <1>4 DEF Come
    <3> QED
      BY <1>2, <1>3, <3>1 DEF PPInv, Passed
  <2>2. Come + (Len(inq) + 1) = Len(accepted) + 1
    BY <1>2, <1>3 DEF Come
  <2>3. \A i \in 1 .. Len(inq') : i \in 1 .. Len(inq) \/ i = Len(inq) + 1
    BY <1>2
  <2> QED
    BY <1>2, <1>3, <2>1, <2>2, <2>3
<1>9. Genuine'
  BY <1>3 DEF PPInv, Genuine
<1>10. Passed'
  <2>1. Len(inq') <= Len(accepted')
    BY <1>1, <1>2, <1>3
  <2>2. TakenAt(disp', accepted', RudpAt') /\ TakenAt(wtch', accepted', OtherAt')
    BY <1>6, <1>7
  <2>3. \A i \in 1 .. Len(inq') : inq'[i] = accepted'[Come' + i]
    BY <1>4, <1>8
  <2> QED
    BY <2>1, <2>2, <2>3 DEF Passed
<1> QED
  BY <1>2, <1>3, <1>9, <1>10 DEF PPInv, PPTypeOK

(* _daemon_io passes a packet on. *)
LEMMA PassStep ==
  ASSUME PPInv, inq # << >>, UNCHANGED <<packed, outq, wire, accepted>>, inq' = Tail(inq),
         disp' = IF IsRudp(Head(inq)) THEN Append(disp, Head(inq)) ELSE disp,
         wtch' = IF IsRudp(Head(inq)) THEN wtch ELSE Append(wtch, Head(inq))
  PROVE  PPInv'
<1>1. /\ accepted \in Seq(Packets) /\ inq \in Seq(Packets) /\ Len(inq) <= Len(accepted)
      /\ disp \in Seq(Packets) /\ wtch \in Seq(Packets) /\ Len(accepted) \in Nat
  BY DEF PPInv, PPTypeOK, Passed
<1>2. /\ inq' \in Seq(Packets) /\ Len(inq') = Len(inq) - 1 /\ Len(inq) \in Nat /\ Len(inq) >= 1
      /\ Head(inq) = inq[1] /\ Head(inq) \in Packets
      /\ \A i \in 1 .. (Len(inq) - 1) : inq'[i] = inq[i + 1]
  BY <1>1, TailSeq
<1>3. Come \in Nat /\ Come' = Come + 1
  BY <1>1, <1>2 DEF Come
<1>4. Head(inq) = accepted[Come + 1]
  BY <1>2 DEF PPInv, Passed
<1>5. 1 .. (Come + 1) = 1 .. Come \cup {Come + 1}
  BY <1>3
<1>6. RudpAt \in SUBSET (1 .. Come) /\ OtherAt \in SUBSET (1 .. Come)
  BY DEF RudpAt, OtherAt
<1>7. \A i \in 1 .. Len(inq') : inq'[i] = accepted[Come' + i]
  <2>1. ASSUME NEW i \in 1 .. (Len(inq) - 1) PROVE inq'[i] = accepted[Come + 1 + i]
    <3>1. i + 1 \in 1 .. Len(inq) /\ Come + (i + 1) = Come + 1 + i
      BY <1>2, <1>3
    <3>2. inq[i + 1] = accepted[Come + (i + 1)]
      BY <3>1 DEF PPInv, Passed
    <3> QED
      BY <1>2, <3>1, <3>2
  <2> QED
    BY <1>2, <1>3, <2>1
<1>8. OfConnection(Head(inq)) <=> IsRudp(Head(inq))
  BY DEF OfConnection, IsRudp
<1>9. CASE IsRudp(Head(inq))
  <2>1. RudpAt' = RudpAt \cup {Come + 1} /\ OtherAt' = OtherAt
    BY <1>3, <1>4, <1>5, <1>8, <1>9 DEF RudpAt, OtherAt
  <2>2. TakenAt(Append(disp, accepted[Come + 1]), accepted, RudpAt \cup {Come + 1})
    BY <1>1, <1>2, <1>3, <1>4, <1>6, TakenMore, ZenonT(40) DEF PPInv, Passed
  <2>3. TakenAt(disp', accepted', RudpAt') /\ TakenAt(wtch', accepted', OtherAt')
    BY <1>4, <1>9, <2>1, <2>2 DEF PPInv, Passed
  <2>4. disp' \in Seq(Packets) /\ wtch' \in Seq(Packets)
    BY <1>1, <1>2, <1>9, AppendSeq
  <2> QED
    BY <1>1, <1>2, <1>7, <2>3, <2>4 DEF PPInv, PPTypeOK, Genuine, Passed
<1>10. CASE ~IsRudp(Head(inq))
  <2>1. RudpAt' = RudpAt /\ OtherAt' = OtherAt \cup {Come + 1}
    BY <1>3, <1>4, <1>5, <1>8, <1>10 DEF RudpAt, OtherAt
  <2>2. TakenAt(Append(wtch, accepted[Come + 1]), accepted, OtherAt \cup {Come + 1})
    BY <1>1, <1>2, <1>3, <1>4, <1>6, TakenMore, ZenonT(40) DEF PPInv, Passed
  <2>3. TakenAt(disp', accepted', RudpAt') /\ TakenAt(wtch', accepted', OtherAt')
    BY <1>4, <1>10, <2>1, <2>2 DEF PPInv, Passed
  <2>4. disp' \in Seq(Packets) /\ wtch' \in Seq(Packets)
    BY <1>1, <1>2, <1>10, AppendSeq
  <2> QED
    BY <1>1, <1>2, <1>7, <2>3, <2>4 DEF PPInv, PPTypeOK, Genuine, Passed
<1> QED
  BY <1>9, <1>10

(* Every step on a packet's way keeps the invariant. *)
LEMMA PPNextInv == PPInv /\ [PPNext]_ppvars => PPInv'
<1> SUFFICES ASSUME PPInv, [PPNext]_ppvars PROVE PPInv'
  OBVIOUS
<1>1. /\ packed \in Seq(Packets) /\ outq \in Seq(Packets) /\ accepted \in Seq(Packets)
      /\ ToSet(packed) \subseteq Packets
  BY DEF PPInv, PPTypeOK, ToSet
<1>2. ASSUME UNCHANGED <<accepted, inq, disp, wtch>> PROVE Passed'
  BY <1>2 DEF PPInv, Passed, Come, RudpAt, OtherAt
<1>3. ASSUME NEW type \in Types, SenderSend(type) PROVE PPInv'
  <2> DEFINE p == MakePack(type, Len(packed) + 1)
  <2>1. p \in Packets
    BY <1>1 DEF MakePack, Packets
  <2>2. packed' = Append(packed, p) /\ outq' = Append(outq, p) /\ UNCHANGED <<wire, accepted, inq, disp, wtch>>
    BY <1>3 DEF SenderSend, Receiver
  <2> HIDE DEF p
  <2>3. /\ packed' \in Seq(Packets) /\ ToSet(packed') = ToSet(packed) \cup {p}
        /\ outq' \in Seq(Packets) /\ ToSet(outq') = ToSet(outq) \cup {p}
    BY <1>1, <2>1, <2>2, AppendSeq
  <2>4. Genuine'
    <3>1. ToSet(outq') \subseteq ToSet(packed') /\ ToSet(accepted') \subseteq ToSet(packed')
      BY <2>2, <2>3 DEF PPInv, Genuine, ToSet
    <3>2. \A d \in wire' : Refused(d) \/ \E x \in ToSet(packed') : d = ToWire(x)
      BY <2>2, <2>3 DEF PPInv, Genuine
    <3> QED
      BY <3>1, <3>2 DEF Genuine
  <2> QED
    BY <1>2, <2>2, <2>3, <2>4 DEF PPInv, PPTypeOK
<1>4. ASSUME NEW i \in DOMAIN packed, SenderResend(i) PROVE PPInv'
  <2>1. packed[i] \in Packets /\ packed[i] \in ToSet(packed)
    BY <1>1, <1>4 DEF ToSet
  <2>2. outq' = <<packed[i]>> /\ UNCHANGED <<packed, wire, accepted, inq, disp, wtch>>
    BY <1>4 DEF SenderResend, Receiver
  <2>3. outq' \in Seq(Packets) /\ ToSet(outq') = {packed[i]}
    BY <2>1, <2>2 DEF ToSet
  <2>4. Genuine'
    BY <2>1, <2>2, <2>3 DEF PPInv, Genuine
  <2> QED
    BY <1>2, <2>2, <2>3, <2>4 DEF PPInv, PPTypeOK
<1>5. ASSUME SenderTransmit PROVE PPInv'
  <2>1. /\ outq # << >> /\ wire' = wire \cup {ToWire(Head(outq))} /\ outq' = Tail(outq)
        /\ UNCHANGED <<packed, accepted, inq, disp, wtch>>
    BY <1>5 DEF SenderTransmit, Receiver
  <2>2. outq' \in Seq(Packets) /\ Head(outq) \in ToSet(outq) /\ ToSet(outq') \subseteq ToSet(outq)
    BY <1>1, <2>1, TailSeq
  <2>3. Genuine'
    BY <2>1, <2>2 DEF PPInv, Genuine
  <2> QED
    BY <1>2, <2>1, <2>2, <2>3 DEF PPInv, PPTypeOK
<1>6. ASSUME wire' \subseteq wire, UNCHANGED <<packed, outq, accepted, inq, disp, wtch>> PROVE PPInv'
  BY <1>2, <1>6 DEF PPInv, PPTypeOK, Genuine
<1>7. ASSUME NEW d \in wire, DamageDatagram(d) PROVE PPInv'
  <2>1. ~Refused(d) /\ UNCHANGED <<packed, outq, accepted, inq, disp, wtch>>
    BY <1>7 DEF DamageDatagram, Receiver
  <2>2. PICK p \in Packets : d = ToWire(p)
    BY <1>1, <2>1 DEF PPInv, Genuine
  <2>3. \A e \in wire' : e \in wire \/ Refused(e)
    BY <1>7, <2>2, DamageRefused DEF DamageDatagram
  <2>4. Genuine'
    BY <2>1, <2>3 DEF PPInv, Genuine
  <2> QED
    BY <1>2, <2>1, <2>4 DEF PPInv, PPTypeOK
<1>8. ASSUME NEW d \in wire, ListenerRecv(d) PROVE PPInv'
  <2>1. wire' \subseteq wire /\ UNCHANGED <<packed, outq, disp, wtch>>
    BY <1>8 DEF ListenerRecv
  <2>2. CASE Refused(d)
    BY <1>6, <1>8, <2>1, <2>2 DEF ListenerRecv
  <2>3. CASE ~Refused(d)
    <3>1. PICK p \in ToSet(packed) : d = ToWire(p)
      BY <2>3 DEF PPInv, Genuine
    <3>2. p \in Packets /\ FromWire(d) = p
      BY <1>1, <3>1, ConvertBack
    <3>3. inq' = Append(inq, p) /\ accepted' = Append(accepted, p)
      BY <1>8, <2>3, <3>2 DEF ListenerRecv
    <3> QED
      BY <2>1, <3>1, <3>2, <3>3, TakeStep
  <2> QED
    BY <2>2, <2>3
<1>9. ASSUME IoNextPacket PROVE PPInv'
  <2>1. UNCHANGED <<packed, outq, wire, accepted>>
    BY <1>9 DEF IoNextPacket
  <2>2. CASE inq = << >>
    BY <1>6, <1>9, <2>1, <2>2 DEF IoNextPacket
  <2>3. CASE inq # << >>
    BY <1>9, <2>1, <2>3, PassStep DEF IoNextPacket
  <2> QED
    BY <2>2, <2>3
<1>10. ASSUME ListenerNotify \/ IoWait \/ IoDrain \/ UNCHANGED ppvars PROVE PPInv'
  BY <1>6, <1>10 DEF ListenerNotify, IoWait, IoDrain, ppvars
<1>11. ASSUME NEW d \in wire, LoseDatagram(d) PROVE PPInv'
  BY <1>6, <1>11 DEF LoseDatagram, Receiver
<1> QED
  BY <1>3, <1>4, <1>5, <1>7, <1>8, <1>9, <1>10, <1>11 DEF PPNext

(***************************************************************************)
(* What the dispatcher and the watcher get is what was sent, field by      *)
(* field, in the order of arrival, each packet at the right one of the two,*)
(* for every number and kind of packets, losses, damages and repeats.      *)
(***************************************************************************)
THEOREM PacketsArrive == PPSpec => []ArrivesAsSent
<1>1. PPInit => PPInv
  BY PPInitInv
<1>2. PPInv /\ [PPNext]_ppvars => PPInv'
  BY PPNextInv
<1>3. PPInv => ArrivesAsSent
  <2> SUFFICES ASSUME PPInv PROVE ArrivesAsSent
    OBVIOUS
  <2>1. /\ accepted \in Seq(Packets) /\ inq \in Seq(Packets) /\ Len(inq) <= Len(accepted)
        /\ Len(accepted) \in Nat /\ Len(inq) \in Nat
    BY DEF PPInv, PPTypeOK, Passed
  <2>2. Come \in Nat /\ Come + Len(inq) = Len(accepted)
    BY <2>1 DEF Come
  <2> DEFINE rest == SubSeq(accepted, Come + 1, Len(accepted))
  <2>3. rest = [i \in 1 .. (Len(accepted) - (Come + 1) + 1) |-> accepted[i + (Come + 1) - 1]]
    BY <2>1, <2>2
  <2>4. Len(accepted) - (Come + 1) + 1 = Len(inq)
    BY <2>1, <2>2
  <2>5. inq = [i \in 1 .. Len(inq) |-> inq[i]]
    BY <2>1
  <2>6. \A i \in 1 .. Len(inq) : inq[i] = accepted[i + (Come + 1) - 1]
    BY <2>1, <2>2 DEF PPInv, Passed
  <2>7. inq = rest
    BY <2>3, <2>4, <2>5, <2>6
  <2> QED
    BY <2>7 DEF PPInv, Passed, Genuine, ArrivesAsSent, RudpAt, OtherAt, Come
<1> QED
  BY <1>1, <1>2, <1>3, PTL DEF PPSpec

-----------------------------------------------------------------------------
(* The queue of the watcher, for any number of producers and packets. *)

(* Wake-ups the worker has had or is yet to have for what is in the queue. *)
Owed == Cardinality(notifying) + (IF event THEN 1 ELSE 0)
          + (IF pc \in {"drain", "pop"} THEN 1 ELSE 0)

(* There is a packet for each of them. *)
Backed ==
  /\ pc # "ended" => Owed <= Len(packets)
  /\ pc = "read" => event

WInv == TypeOK /\ Backed

LEMMA NotifyingCount ==
  ASSUME TypeOK
  PROVE  /\ IsFiniteSet(notifying) /\ Cardinality(notifying) \in Nat
         /\ \A p \in Producers : p \notin notifying =>
               Cardinality(notifying \cup {p}) = Cardinality(notifying) + 1
         /\ \A p \in notifying :
               Cardinality(notifying \ {p}) = Cardinality(notifying) - 1
<1>1. IsFiniteSet(notifying)
  BY QueueAssumption, FS_Subset DEF TypeOK, QTypeOK
<1> QED
  BY <1>1, FS_CardinalityType, FS_AddElement, FS_RemoveElement

LEMMA EmptyIsSeq == << >> \in Seq(1 .. MaxPackets)
  OBVIOUS

(* Popping a packet keeps both sequences sequences of packets. *)
LEMMA PopIsSeq ==
  ASSUME QTypeOK, packets # << >>
  PROVE  /\ Tail(packets) \in Seq(1 .. MaxPackets)
         /\ Append(handled, Head(packets)) \in Seq(1 .. MaxPackets)
<1>1. ASSUME NEW S, NEW l \in Seq(S), NEW h \in Seq(S), l # << >>
      PROVE  Tail(l) \in Seq(S) /\ Append(h, Head(l)) \in Seq(S)
  BY <1>1
<1>2. packets \in Seq(1 .. MaxPackets) /\ handled \in Seq(1 .. MaxPackets)
  BY DEF QTypeOK
<1> QED
  BY <1>1, <1>2

LEMMA WTypeStep == TypeOK /\ [Next]_qVars => TypeOK'
<1> SUFFICES ASSUME TypeOK, [Next]_qVars PROVE TypeOK'
  OBVIOUS
<1> USE QueueAssumption DEF TypeOK, QTypeOK
<1>1. ASSUME NEW p \in Producers, Push(p) PROVE TypeOK'
  BY <1>1 DEF Push
<1>2. ASSUME NEW p \in Producers, Notify(p) PROVE TypeOK'
  BY <1>2 DEF Notify
<1>3. CASE Stop \/ End
  BY <1>3, EmptyIsSeq DEF Stop, End
<1>4. CASE \/ LoopHead \/ PollReady \/ PollTimeout("loop")
           \/ ReadEvent("read", "drain") \/ ReadEvent("drain", "pop")
  BY <1>4 DEF LoopHead, PollReady, PollTimeout, ReadEvent, Goto
<1>5. CASE HandleOne
  <2>1. CASE packets = << >>
    BY <1>5, <2>1, EmptyIsSeq DEF HandleOne
  <2>2. CASE packets # << >>
    BY <1>5, <2>2, PopIsSeq DEF HandleOne
  <2> QED
    BY <2>1, <2>2
<1>6. CASE UNCHANGED qVars
  BY <1>6 DEF qVars
<1> QED
  BY <1>1, <1>2, <1>3, <1>4, <1>5, <1>6 DEF Next, Environment, Worker

LEMMA BackedStep == WInv /\ [Next]_qVars => Backed'
<1> SUFFICES ASSUME WInv, [Next]_qVars PROVE Backed'
  OBVIOUS
<1>0. /\ Cardinality(notifying) \in Nat /\ Len(packets) \in Nat
      /\ packets \in Seq(1 .. MaxPackets) /\ event \in BOOLEAN
  BY NotifyingCount DEF WInv, TypeOK, QTypeOK
<1> USE DEF WInv, Backed, Owed
<1>1. ASSUME NEW p \in Producers, Push(p) PROVE Backed'
  <2>1. Cardinality(notifying') = Cardinality(notifying) + 1
    BY <1>1, NotifyingCount DEF Push
  <2>2. Len(packets') = Len(packets) + 1
    BY <1>0, <1>1 DEF Push
  <2> QED
    BY <1>0, <1>1, <2>1, <2>2 DEF Push
<1>2. ASSUME NEW p \in Producers, Notify(p) PROVE Backed'
  <2>1. Cardinality(notifying') = Cardinality(notifying) - 1
    BY <1>2, NotifyingCount DEF Notify
  <2> QED
    BY <1>0, <1>2, <2>1 DEF Notify
<1>3. CASE Stop \/ End
  BY <1>0, <1>3 DEF Stop, End
<1>4. CASE LoopHead \/ PollReady \/ PollTimeout("loop")
  BY <1>0, <1>4 DEF LoopHead, PollReady, PollTimeout, Goto
<1>5. CASE ReadEvent("read", "drain") \/ ReadEvent("drain", "pop")
  BY <1>0, <1>5 DEF ReadEvent
<1>6. CASE HandleOne
  <2>1. packets # << >>
    BY <1>0, <1>6 DEF HandleOne
  <2>2. Len(packets') = Len(packets) - 1
    BY <1>0, <1>6, <2>1 DEF HandleOne
  <2> QED
    BY <1>0, <1>6, <2>2 DEF HandleOne
<1>7. CASE UNCHANGED qVars
  BY <1>7 DEF qVars
<1> QED
  BY <1>1, <1>2, <1>3, <1>4, <1>5, <1>6, <1>7 DEF Next, Environment, Worker

(***************************************************************************)
(* Each wake-up of watcher_worker finds a packet: every wake-up is backed  *)
(* by a notification and every notification by a packet still queued.      *)
(***************************************************************************)
THEOREM WakeUpsAreBacked == Spec => []WakeFindsPacket
<1>1. QInit => WInv
  <2> SUFFICES ASSUME QInit PROVE WInv
    OBVIOUS
  <2>1. TypeOK
    <3>1. packets \in Seq(1 .. MaxPackets) /\ handled \in Seq(1 .. MaxPackets)
      BY EmptyIsSeq DEF QInit
    <3>2. /\ event = FALSE /\ pushed = 0 /\ notifying = {}
          /\ is_running = TRUE /\ pc = "loop"
      BY DEF QInit
    <3>3. pushed \in 0 .. MaxPackets
      BY <3>2, QueueAssumption
    <3> QED
      BY <3>1, <3>2, <3>3 DEF TypeOK, QTypeOK
  <2>2. Cardinality(notifying) = 0 /\ Len(packets) = 0
    BY FS_EmptySet DEF QInit
  <2> QED
    BY <2>1, <2>2 DEF QInit, WInv, Backed, Owed
<1>2. WInv => WakeFindsPacket
  <2> SUFFICES ASSUME WInv, pc \in {"drain", "pop"} PROVE packets # << >>
    BY DEF WakeFindsPacket
  <2>1. Cardinality(notifying) \in Nat
    BY NotifyingCount DEF WInv
  <2>2. 1 <= Len(packets)
    BY <2>1 DEF WInv, Backed, Owed, TypeOK, QTypeOK
  <2> QED
    BY <2>2
<1>3. WInv /\ [Next]_qVars => WInv'
  BY WTypeStep, BackedStep DEF WInv
<1> QED
  BY <1>1, <1>2, <1>3, PTL DEF Spec
=============================================================================
