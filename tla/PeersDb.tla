------------------------------- MODULE PeersDb -------------------------------
(***************************************************************************)
(* The peers database (code/devcore/peersyst/src/peerdb.c) with the        *)
(* threads that share it: handlers change the state of an entry and then   *)
(* notify, a thread waits in peers_db_wait for a state, and _daemon_io     *)
(* (interface/src/daemons.c) buries the peers it has not heard of.         *)
(*                                                                         *)
(* Each peers_db operation holds the lock of the table and is one step,    *)
(* but peers_db_schange notifies after it has unlocked.  The time that     *)
(* _daemon_io works with is read before its wait of up to a second; a      *)
(* last_seen is the time modulo the width of its type.                     *)
(***************************************************************************)
EXTENDS Integers, Functions

CONSTANTS Uids,
          Changers,    \* threads that call peers_db_schange
          TimeWidth,   \* 2^32 ms
          DeadAfter,   \* 10 s
          MaxNow       \* bound: the time, more than TimeWidth

ASSUME TimeAssumption == TimeWidth \in Nat \ {0} /\ DeadAfter \in Nat

VARIABLES now,         \* mt_time_get_millis_monocoarse
          db,          \* the entries; heard is the last_seen that was meant
          statchange,  \* the eventfd counter is not zero
          changing,    \* changers that have unlocked and not yet notified
          waiter,      \* the call of peers_db_wait
          iod          \* _daemon_io

pvars == <<now, db, statchange, changing, waiter, iod>>

PeerStates == {"INITED", "NATPUNCHING", "ACTIVE"}
NoPeers == [u \in {} |-> 0]

PInit ==
  /\ now = 0
  /\ db = NoPeers
  /\ statchange = FALSE
  /\ changing = {}
  /\ waiter = [pc |-> "idle", uid |-> 0, state |-> "ACTIVE", since |-> FALSE]
  /\ iod = [pc |-> "loop", now |-> 0, snapshot |-> NoPeers]

-----------------------------------------------------------------------------
Matches(d, u, s) == u \in DOMAIN d /\ d[u].state = s

(* History: a change made during the wait is why the entry matches. *)
Since(d, changed) ==
  /\ Matches(d, waiter.uid, waiter.state)
  /\ waiter.since \/ (changed /\ waiter.pc # "idle")

(* A step of another thread on the table. *)
DbBecomes(d, changed) ==
  /\ db' = d
  /\ waiter' = [waiter EXCEPT !.since = Since(d, changed)]
  /\ UNCHANGED now

LastSeen(t) == t % TimeWidth

(* s2_sys_new_peer, soter2_hnd_HELLO: peers_db_add, which does not notify. *)
PeersDbAdd(u, s) ==
  /\ DbBecomes([v \in DOMAIN db \cup {u} |->
                  IF v = u THEN [state |-> s, last_seen |-> LastSeen(now), heard |-> now]
                  ELSE db[v]], FALSE)
  /\ UNCHANGED <<statchange, changing, iod>>

(* peers_db_remove, from s2_sys_closeconn. *)
PeersDbRemove(u) ==
  /\ u \in DOMAIN db
  /\ DbBecomes(Restrict(db, DOMAIN db \ {u}), FALSE)
  /\ UNCHANGED <<statchange, changing, iod>>

(* peers_db_utime of the peers in from. *)
Refreshed(from) ==
  [u \in DOMAIN db |->
     IF u \in from THEN [db[u] EXCEPT !.last_seen = LastSeen(now), !.heard = now] ELSE db[u]]

(* soter2_hnd_PING and soter2_hnd_PONG: peers_db_utime. *)
PeersDbUtime(u) ==
  /\ u \in DOMAIN db
  /\ DbBecomes(Refreshed({u}), FALSE)
  /\ UNCHANGED <<statchange, changing, iod>>

(* Mutant of Schange and Notify together: the notification comes first. *)
SchangeNotifying(t, u, s) ==
  /\ t \notin changing
  /\ u \in DOMAIN db
  /\ statchange' = TRUE
  /\ changing' = changing \cup {t}
  /\ UNCHANGED <<now, db, waiter, iod>>

SchangeLate(t, u, s) ==
  \/ SchangeNotifying(t, u, s)
  \/ /\ t \in changing
     /\ changing' = changing \ {t}
     /\ u \in DOMAIN db
     /\ DbBecomes([db EXCEPT ![u].state = s], TRUE)
     /\ UNCHANGED <<statchange, iod>>

(* peers_db_schange up to the unlock. *)
Schange(t, u, s) ==
  /\ t \notin changing
  /\ u \in DOMAIN db
  /\ DbBecomes([db EXCEPT ![u].state = s], TRUE)
  /\ changing' = changing \cup {t}
  /\ UNCHANGED <<statchange, iod>>

(* The mt_evsock_notify of peers_db_schange. *)
SchangeNotify(t) ==
  /\ t \in changing
  /\ statchange' = TRUE
  /\ changing' = changing \ {t}
  /\ UNCHANGED <<now, db, waiter, iod>>

-----------------------------------------------------------------------------
(* peers_db_wait: poll, read, drain, look, and from the top. *)
WaitGoes(from, to) ==
  /\ waiter.pc = from
  /\ waiter' = [waiter EXCEPT !.pc = to]
  /\ UNCHANGED <<now, db, changing, iod>>

WaitCall(u, s) ==
  /\ waiter.pc = "idle"
  /\ waiter' = [pc |-> "poll", uid |-> u, state |-> s, since |-> FALSE]
  /\ UNCHANGED <<now, db, statchange, changing, iod>>

WaitPoll == statchange /\ WaitGoes("poll", "read") /\ UNCHANGED statchange

WaitRead(from, to) == WaitGoes(from, to) /\ statchange' = FALSE

WaitLook ==
  /\ WaitGoes("look", IF Matches(db, waiter.uid, waiter.state) THEN "idle" ELSE "poll")
  /\ UNCHANGED statchange

Wait ==
  \/ WaitPoll
  \/ WaitRead("read", "drain")
  \/ WaitRead("drain", "look")
  \/ WaitLook

-----------------------------------------------------------------------------
(* ctx.now_ms is set; the wait for packets follows. *)
IoBegin ==
  /\ iod.pc = "loop"
  /\ iod' = [iod EXCEPT !.pc = "waited", !.now = now]
  /\ UNCHANGED <<now, db, statchange, changing, waiter>>

(* peers_db_snapshot *)
IoSnapshot ==
  /\ iod.pc = "waited"
  /\ iod' = [iod EXCEPT !.pc = "ping", !.snapshot = db]
  /\ UNCHANGED <<now, db, statchange, changing, waiter>>

(* goto skip_addt: packets came fast, and no peer is looked at. *)
IoBusy ==
  /\ iod.pc = "waited"
  /\ iod' = [iod EXCEPT !.pc = "ping", !.snapshot = NoPeers]
  /\ UNCHANGED <<now, db, statchange, changing, waiter>>

(* Mutant of FoundDead: the difference is unsigned. *)
FoundDeadUnsigned(info) == (iod.now - info.last_seen) % TimeWidth >= DeadAfter

(* The test of ping_iter: 64 bits less 32 bits, signed. *)
FoundDead(info) == iod.now - info.last_seen >= DeadAfter

(* ping_iter and, if the peer is dead, peers_db_remove. *)
IoPing(u) ==
  /\ iod.pc = "ping"
  /\ u \in DOMAIN iod.snapshot
  /\ iod' = [iod EXCEPT !.snapshot = Restrict(@, DOMAIN @ \ {u})]
  /\ DbBecomes(IF FoundDead(iod.snapshot[u]) THEN Restrict(db, DOMAIN db \ {u}) ELSE db,
               FALSE)
  /\ UNCHANGED <<statchange, changing>>

(* The packets of some peers are dispatched; peers_db_utime. *)
IoPackets(from) ==
  /\ iod.pc = "ping" /\ iod.snapshot = NoPeers
  /\ iod' = [iod EXCEPT !.pc = "loop"]
  /\ DbBecomes(Refreshed(from), FALSE)
  /\ UNCHANGED <<statchange, changing>>

PTick ==
  /\ now < MaxNow
  /\ now' = now + 1
  /\ UNCHANGED <<db, statchange, changing, waiter, iod>>

PNext ==
  \/ \E u \in Uids : \E s \in {"INITED", "ACTIVE"} : PeersDbAdd(u, s)
  \/ \E u \in Uids : PeersDbRemove(u) \/ PeersDbUtime(u) \/ IoPing(u)
  \/ \E t \in Changers, u \in Uids, s \in {"NATPUNCHING", "ACTIVE"} : Schange(t, u, s)
  \/ \E t \in Changers : SchangeNotify(t)
  \/ \E u \in Uids : WaitCall(u, "ACTIVE")
  \/ Wait
  \/ IoBegin \/ IoSnapshot \/ IoBusy
  \/ \E from \in SUBSET DOMAIN db : IoPackets(from)
  \/ PTick

PSpec == PInit /\ [][PNext]_pvars

-----------------------------------------------------------------------------
(***************************************************************************)
(* A thread alone in peers_db_wait does not miss a change made while it    *)
(* waits: it does not go back to poll with the state it waits for in the   *)
(* table unless a notification is still to come.                           *)
(***************************************************************************)
WaiterSeesChange ==
  waiter.pc = "poll" /\ waiter.since => statchange \/ changing # {}

(* _daemon_io takes u off the database for dead. *)
Buried(u) ==
  iod.pc = "ping" /\ iod' # iod /\ u \in DOMAIN db /\ u \notin DOMAIN db'

(* How long u had been silent, by the snapshot and the time _daemon_io has. *)
Silence(u) == iod.now - iod.snapshot[u].heard

(***************************************************************************)
(* ping_iter buries no peer that, by the snapshot of this round, had been  *)
(* heard of less than 10 s before the time the round works with, and none  *)
(* that was heard of after that time, while the round waited for packets:  *)
(* as long as it was heard of before the clock outgrew the type of         *)
(* last_seen, 49.7 days after boot.                                        *)
(***************************************************************************)
NotBuriedAlive ==
  [][\A u \in Uids : Buried(u) /\ iod.snapshot[u].heard < TimeWidth
       => Silence(u) >= DeadAfter]_pvars

(***************************************************************************)
(* What ping_iter says of a peer it buries, "Dead peer detected"           *)
(* (interface/src/daemons.c:37): it has been silent for 10 s, whatever the *)
(* clock shows.                                                            *)
(***************************************************************************)
DetectedDeadIsDead ==
  [][\A u \in Uids : Buried(u) => Silence(u) >= DeadAfter]_pvars
=============================================================================
