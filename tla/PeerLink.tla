------------------------------ MODULE PeerLink ------------------------------
(***************************************************************************)
(* How two soter2 nodes come to know each other, keep each other alive and *)
(* part: the handlers of interface/src/handlers.c, the daemons of          *)
(* interface/src/daemons.c and the calls of interface/src/system.c, on the *)
(* peers database and the table of RUDP connections.  Each node is seen as *)
(* far as it concerns the other one: its entry in peers_db, its connection *)
(* in the dispatcher, and what each of its threads is in the middle of.    *)
(*                                                                         *)
(* Atomicity.  Every peers_db operation and every table operation runs     *)
(* under the lock of its table; what a thread does between two of them is  *)
(* not protected, so each thread that reads an entry and acts on the copy  *)
(* later has a program counter:                                            *)
(*   hnd   the watcher, with the state a handler has read                  *)
(*   io    _daemon_io, between its snapshot and the removal of a dead peer *)
(*   st    _daemon_st, between its snapshot and rudp_est_connection        *)
(*   http  the HTTP thread, inside a connect or disconnect request         *)
(*                                                                         *)
(* UDP delays and reorders packets, and loses and repeats them as far as   *)
(* env says.  What is on its way to a node is a bag: so many packets of    *)
(* each type, at most MaxCopies of it, beyond which packets are lost.      *)
(* Time is abstracted to the step Expire: ten seconds have passed since    *)
(* last_seen.                                                              *)
(***************************************************************************)
EXTENDS Naturals, FiniteSets

CONSTANTS
  Nodes,         \* the two nodes
  Environments,  \* what users, network and hosts may do in a behaviour
  MaxCopies      \* bound: packets of each type on their way to a node

(***************************************************************************)
(* An environment: connects bounds the connect requests; if disconnects,   *)
(* users may disconnect; if duplicates, UDP repeats packets; if losses, it *)
(* loses them and a node may hear nothing for 10 s; if crashes, one node   *)
(* may stop for good.                                                      *)
(***************************************************************************)
Environment ==
  [connects : Nat, disconnects : BOOLEAN, duplicates : BOOLEAN,
   losses : BOOLEAN, crashes : BOOLEAN]

Types == {"PUNCH", "ACK", "PING", "PONG", "FIN"}

ASSUME LinkAssumption ==
  /\ Environments \subseteq Environment
  /\ \A n \in Nodes : \E m \in Nodes : Nodes = {n, m} /\ n # m
  /\ MaxCopies \in [Types -> Nat \ {0}]

VARIABLES
  peer,      \* state of the other node's entry in peers_db, or "none"
  overdue,   \* its last_seen is 10 s or more ago
  conn,      \* the dispatcher has a connection to the other node
  hnd, io, st, http,   \* program counters
  net,       \* how many packets of each type are on their way to each node
  connects,  \* connect requests so far
  alive,     \* the node runs
  heard,     \* history: the node has received a packet of the other one
  told,      \* history: the last the user was told is "Disconnected"
  renewed,   \* history: a connect request has overwritten an active peer
  env        \* the environment, which does not change

vars == <<peer, overdue, conn, hnd, io, st, http, net, connects, alive, heard, told, renewed, env>>

Other(n) == CHOOSE m \in Nodes : m # n

States == {"INITED", "NATPUNCHING", "ACTIVE"}
Idle   == [type |-> "none", info |-> "none"]

Init ==
  /\ peer     = [n \in Nodes |-> "none"]
  /\ overdue  = [n \in Nodes |-> FALSE]
  /\ conn     = [n \in Nodes |-> FALSE]
  /\ hnd      = [n \in Nodes |-> Idle]
  /\ io       = [n \in Nodes |-> "idle"]
  /\ st       = [n \in Nodes |-> "idle"]
  /\ http     = [n \in Nodes |-> "idle"]
  /\ net      = [n \in Nodes |-> [t \in Types |-> 0]]
  /\ connects = 0
  /\ alive    = [n \in Nodes |-> TRUE]
  /\ heard    = [n \in Nodes |-> FALSE]
  /\ told     = [n \in Nodes |-> FALSE]
  /\ renewed  = FALSE
  /\ env \in Environments

-----------------------------------------------------------------------------
(* The network. *)

(* The count c of packets of type t, unless they are too many. *)
AtMost(t, c) == IF c > MaxCopies[t] THEN MaxCopies[t] ELSE c

(* What is left of the packets of type t to n when one has been received. *)
Left(n, t) == IF env.duplicates THEN {net[n][t], net[n][t] - 1} ELSE {net[n][t] - 1}

(* net after n has received a packet of type t. *)
Receives(n, t) ==
  /\ net[n][t] > 0
  /\ \E left \in Left(n, t) : net' = [net EXCEPT ![n][t] = left]

(* net after n has received one of type t and answered with k of type s. *)
Answers(n, t, s, k) ==
  /\ net[n][t] > 0
  /\ \E left \in Left(n, t) :
       net' = [net EXCEPT ![n][t] = left, ![Other(n)][s] = AtMost(s, @ + k)]

(* net after n has sent k packets of type t. *)
Sends(n, t, k) == net' = [net EXCEPT ![Other(n)][t] = AtMost(t, @ + k)]

(* _daemon_io passes a packet on and refreshes last_seen (peers_db_utime). *)
Hear(n) ==
  /\ heard' = [heard EXCEPT ![n] = TRUE]
  /\ overdue' = [overdue EXCEPT ![n] = FALSE]

Lose(n, t) ==
  /\ env.losses
  /\ net[n][t] > 0
  /\ net' = [net EXCEPT ![n][t] = @ - 1]
  /\ UNCHANGED <<peer, overdue, conn, hnd, io, st, http, connects, alive, heard, told, renewed, env>>

-----------------------------------------------------------------------------
(* The watcher: handlers of PUNCH, ACK, PING and PONG. *)

(* Mutant of PunchRead: an unknown peer is not added, its info left as it is. *)
PunchReadUnadded(n) ==
  /\ alive[n] /\ hnd[n] = Idle
  /\ Receives(n, "PUNCH")
  /\ Hear(n)
  /\ hnd' = [hnd EXCEPT ![n] = [type |-> "PUNCH", info |-> peer[n]]]
  /\ UNCHANGED <<peer, conn, io, st, http, connects, alive, told, renewed, env>>

(***************************************************************************)
(* soter2_hnd_PUNCH up to the test of the state: peers_db_get, and for an  *)
(* unknown peer peers_db_reconstruct and peers_db_add.                     *)
(***************************************************************************)
PunchRead(n) ==
  /\ alive[n] /\ hnd[n] = Idle
  /\ Receives(n, "PUNCH")
  /\ Hear(n)
  /\ LET info == IF peer[n] = "none" THEN "INITED" ELSE peer[n]
     IN  /\ peer' = [peer EXCEPT ![n] = info]
         /\ hnd' = [hnd EXCEPT ![n] = [type |-> "PUNCH", info |-> info]]
         /\ told' = [told EXCEPT ![n] = @ /\ peer[n] # "none"]
  /\ UNCHANGED <<conn, io, st, http, connects, alive, renewed, env>>

(* peers_db_schange: nothing happens if the entry has been removed. *)
Schange(n, state) ==
  peer' = [peer EXCEPT ![n] = IF @ = "none" THEN "none" ELSE state]

(* Mutant of PunchApply: the handshake is taken as done. *)
PunchActivates(n) ==
  LET info == hnd[n].info IN
  /\ alive[n] /\ hnd[n].type = "PUNCH"
  /\ hnd' = [hnd EXCEPT ![n] = Idle]
  /\ \/ /\ info \in {"INITED", "NATPUNCHING"}
        /\ Sends(n, "ACK", 1)
        /\ Schange(n, "ACTIVE")
     \/ /\ info = "ACTIVE"
        /\ UNCHANGED <<net, peer>>
  /\ UNCHANGED <<overdue, conn, io, st, http, connects, alive, heard, told, renewed, env>>

(* The rest of soter2_hnd_PUNCH, on the copy read: an active peer gets no answer. *)
PunchApply(n) ==
  LET info == hnd[n].info IN
  /\ alive[n] /\ hnd[n].type = "PUNCH"
  /\ hnd' = [hnd EXCEPT ![n] = Idle]
  /\ \/ /\ info = "INITED"
        /\ Sends(n, "ACK", 1)
        /\ Schange(n, "NATPUNCHING")
     \/ /\ info = "NATPUNCHING"
        /\ Sends(n, "ACK", 1)
        /\ UNCHANGED peer
     \/ /\ info = "ACTIVE"
        /\ UNCHANGED <<net, peer>>
  /\ UNCHANGED <<overdue, conn, io, st, http, connects, alive, heard, told, renewed, env>>

(* soter2_hnd_ACK up to peers_db_get; an unknown peer is dropped. *)
AckRead(n) ==
  /\ alive[n] /\ hnd[n] = Idle
  /\ Receives(n, "ACK")
  /\ Hear(n)
  /\ hnd' = IF peer[n] = "none" THEN hnd
            ELSE [hnd EXCEPT ![n] = [type |-> "ACK", info |-> peer[n]]]
  /\ UNCHANGED <<peer, conn, io, st, http, connects, alive, told, renewed, env>>

(* Mutant of AckReply: an acknowledgement is never answered. *)
AckNoReply(info) == 0

(* How many acknowledgements answer one: a node not punched yet sends its own. *)
AckReply(info) == IF info = "INITED" THEN 1 ELSE 0

(* The rest of soter2_hnd_ACK. *)
AckApply(n) ==
  /\ alive[n] /\ hnd[n].type = "ACK"
  /\ hnd' = [hnd EXCEPT ![n] = Idle]
  /\ Sends(n, "ACK", AckReply(hnd[n].info))
  /\ Schange(n, "ACTIVE")
  /\ UNCHANGED <<overdue, conn, io, st, http, connects, alive, heard, told, renewed, env>>

(* soter2_hnd_PING answers whoever asks, soter2_hnd_PONG only takes note. *)
PingPong(n) ==
  /\ alive[n] /\ hnd[n] = Idle
  /\ Answers(n, "PING", "PONG", 1) \/ Receives(n, "PONG")
  /\ Hear(n)
  /\ UNCHANGED <<peer, conn, hnd, io, st, http, connects, alive, told, renewed, env>>

-----------------------------------------------------------------------------
(* The RUDP dispatcher and its table. *)

(* How many PACK_FIN rudp_close_conncetion sends: if there is a connection, two. *)
Fin(n) == IF conn[n] THEN 2 ELSE 0

(* The PACK_FIN branch of the dispatcher; without a connection it is dropped. *)
HandleFin(n) ==
  /\ alive[n]
  /\ Answers(n, "FIN", "FIN", Fin(n))
  /\ conn' = [conn EXCEPT ![n] = FALSE]
  /\ Hear(n)
  /\ UNCHANGED <<peer, hnd, io, st, http, connects, alive, told, renewed, env>>

-----------------------------------------------------------------------------
(* _daemon_io: pings, and the removal of dead peers. *)

(* ping_iter on a peer silent for 3 s. *)
Ping(n) ==
  /\ alive[n] /\ io[n] = "idle"
  /\ peer[n] # "none"
  /\ Sends(n, "PING", 1)
  /\ UNCHANGED <<peer, overdue, conn, hnd, io, st, http, connects, alive, heard, told, renewed, env>>

(* Ten seconds have passed since last_seen. *)
Expire(n) ==
  /\ env.losses \/ ~alive[Other(n)]
  /\ alive[n] /\ peer[n] # "none" /\ ~overdue[n]
  /\ overdue' = [overdue EXCEPT ![n] = TRUE]
  /\ UNCHANGED <<peer, conn, hnd, io, st, http, net, connects, alive, heard, told, renewed, env>>

(* peers_db_snapshot shows a dead peer. *)
FindDead(n) ==
  /\ alive[n] /\ io[n] = "idle"
  /\ peer[n] # "none" /\ overdue[n]
  /\ io' = [io EXCEPT ![n] = "close"]
  /\ UNCHANGED <<peer, overdue, conn, hnd, st, http, net, connects, alive, heard, told, renewed, env>>

(* ping_iter closes the connection of the dead peer. *)
CloseDead(n) ==
  /\ alive[n] /\ io[n] = "close"
  /\ io' = [io EXCEPT ![n] = "remove"]
  /\ Sends(n, "FIN", Fin(n))
  /\ conn' = [conn EXCEPT ![n] = FALSE]
  /\ UNCHANGED <<peer, overdue, hnd, st, http, connects, alive, heard, told, renewed, env>>

(* Mutant of RemoveDead: the entry stays, as after ping_iter returning 0. *)
RemoveNothing(n) ==
  /\ alive[n] /\ io[n] = "remove"
  /\ io' = [io EXCEPT ![n] = "idle"]
  /\ UNCHANGED <<peer, overdue, conn, hnd, st, http, net, connects, alive, heard, told, renewed, env>>

(* peers_db_remove of the peer found dead, whatever it is by now. *)
RemoveDead(n) ==
  /\ alive[n] /\ io[n] = "remove"
  /\ io' = [io EXCEPT ![n] = "idle"]
  /\ peer' = [peer EXCEPT ![n] = "none"]
  /\ overdue' = [overdue EXCEPT ![n] = FALSE]
  /\ UNCHANGED <<conn, hnd, st, http, net, connects, alive, heard, told, renewed, env>>

-----------------------------------------------------------------------------
(* _daemon_st: a connection for every active peer. *)

(* peers_db_snapshot shows an active peer. *)
FindActive(n) ==
  /\ alive[n] /\ st[n] = "idle"
  /\ peer[n] = "ACTIVE"
  /\ st' = [st EXCEPT ![n] = "est"]
  /\ UNCHANGED <<peer, overdue, conn, hnd, io, http, net, connects, alive, heard, told, renewed, env>>

(* rudp_est_connection, unless rudp_get_connection finds a connection. *)
Establish(n) ==
  /\ alive[n] /\ st[n] = "est"
  /\ st' = [st EXCEPT ![n] = "idle"]
  /\ conn' = [conn EXCEPT ![n] = TRUE]
  /\ UNCHANGED <<peer, overdue, hnd, io, http, net, connects, alive, heard, told, renewed, env>>

-----------------------------------------------------------------------------
(* The HTTP thread. *)

(* handle_peer_connect: s2_sys_new_peer overwrites whatever entry there is. *)
Connect(n) ==
  /\ alive[n] /\ http[n] = "idle"
  /\ connects < env.connects
  /\ connects' = connects + 1
  /\ peer' = [peer EXCEPT ![n] = "INITED"]
  /\ overdue' = [overdue EXCEPT ![n] = FALSE]
  /\ told' = [told EXCEPT ![n] = FALSE]
  /\ renewed' = (renewed \/ peer[n] = "ACTIVE")
  /\ http' = [http EXCEPT ![n] = "punch"]
  /\ UNCHANGED <<conn, hnd, io, st, net, alive, heard, env>>

(* s2_sys_nat_punch, and whether it found an entry. *)
NatPunch(n) ==
  /\ alive[n] /\ http[n] = "punch"
  /\ \/ /\ peer[n] # "none"
        /\ Sends(n, "PUNCH", 1)
        /\ http' = [http EXCEPT ![n] = "idle"]
     \/ /\ peer[n] = "none"
        /\ http' = [http EXCEPT ![n] = "unpunched"]
        /\ UNCHANGED net
  /\ UNCHANGED <<peer, overdue, conn, hnd, io, st, connects, alive, heard, told, renewed, env>>

(* handle_peer_connect after a failed punch: peers_db_remove, and an error. *)
GiveUp(n) ==
  /\ alive[n] /\ http[n] = "unpunched"
  /\ http' = [http EXCEPT ![n] = "idle"]
  /\ peer' = [peer EXCEPT ![n] = "none"]
  /\ overdue' = [overdue EXCEPT ![n] = FALSE]
  /\ UNCHANGED <<conn, hnd, io, st, net, connects, alive, heard, told, renewed, env>>

(* Mutant of Disconnect: the entry stays in the database. *)
DisconnectKeepsPeer(n) ==
  /\ env.disconnects
  /\ alive[n] /\ http[n] = "idle"
  /\ peer[n] # "none"
  /\ http' = [http EXCEPT ![n] = "close"]
  /\ UNCHANGED <<peer, overdue, conn, hnd, io, st, net, connects, alive, heard, told, renewed, env>>

(* s2_sys_closeconn: peers_db_check and peers_db_remove. *)
Disconnect(n) ==
  /\ env.disconnects
  /\ alive[n] /\ http[n] = "idle"
  /\ peer[n] # "none"
  /\ peer' = [peer EXCEPT ![n] = "none"]
  /\ overdue' = [overdue EXCEPT ![n] = FALSE]
  /\ http' = [http EXCEPT ![n] = "close"]
  /\ UNCHANGED <<conn, hnd, io, st, net, connects, alive, heard, told, renewed, env>>

(* s2_sys_closeconn: rudp_close_conncetion, and the answer to the user. *)
CloseConn(n) ==
  /\ alive[n] /\ http[n] = "close"
  /\ http' = [http EXCEPT ![n] = "idle"]
  /\ Sends(n, "FIN", Fin(n))
  /\ conn' = [conn EXCEPT ![n] = FALSE]
  /\ told' = [told EXCEPT ![n] = peer[n] = "none"]
  /\ UNCHANGED <<peer, overdue, hnd, io, st, connects, alive, heard, renewed, env>>

(* The process of one node ends without a word. *)
Crash(n) ==
  /\ env.crashes
  /\ \A m \in Nodes : alive[m]
  /\ alive' = [alive EXCEPT ![n] = FALSE]
  /\ UNCHANGED <<peer, overdue, conn, hnd, io, st, http, net, connects, heard, told, renewed, env>>

-----------------------------------------------------------------------------
Handlers(n)   == PunchRead(n) \/ PunchApply(n) \/ AckRead(n) \/ AckApply(n)
Keepalive(n)  == PingPong(n) \/ Ping(n) \/ Expire(n)
DaemonIo(n)   == FindDead(n) \/ CloseDead(n) \/ RemoveDead(n)
DaemonSt(n)   == FindActive(n) \/ Establish(n)
HttpThread(n) ==
  Connect(n) \/ NatPunch(n) \/ GiveUp(n) \/ Disconnect(n) \/ CloseConn(n)

Next ==
  \E n \in Nodes :
    \/ Handlers(n)
    \/ Keepalive(n)
    \/ HandleFin(n)
    \/ DaemonIo(n)
    \/ DaemonSt(n)
    \/ HttpThread(n)
    \/ Crash(n)
    \/ \E t \in Types : Lose(n, t)

Spec == Init /\ [][Next]_vars

(***************************************************************************)
(* Every thread goes on, every packet that is not lost is handled, and     *)
(* time passes.                                                            *)
(***************************************************************************)
Fairness ==
  \A n \in Nodes :
    /\ SF_vars(PunchRead(n)) /\ SF_vars(AckRead(n)) /\ SF_vars(PingPong(n))
    /\ WF_vars(PunchApply(n)) /\ WF_vars(AckApply(n))
    /\ WF_vars(HandleFin(n)) /\ WF_vars(Expire(n))
    /\ WF_vars(FindDead(n)) /\ WF_vars(CloseDead(n)) /\ WF_vars(RemoveDead(n))
    /\ WF_vars(FindActive(n)) /\ WF_vars(Establish(n))
    /\ WF_vars(NatPunch(n)) /\ WF_vars(GiveUp(n)) /\ WF_vars(CloseConn(n))

-----------------------------------------------------------------------------
(* The counts of packets are numbers within their bounds. *)
NetOK ==
  /\ net \in [Nodes -> [Types -> Nat]]
  /\ \A n \in Nodes, t \in Types : net[n][t] <= MaxCopies[t]

TypeOK ==
  /\ peer \in [Nodes -> States \cup {"none"}]
  /\ overdue \in [Nodes -> BOOLEAN]
  /\ conn \in [Nodes -> BOOLEAN]
  /\ hnd \in [Nodes -> [type : {"PUNCH", "ACK"}, info : States] \cup {Idle}]
  /\ io \in [Nodes -> {"idle", "close", "remove"}]
  /\ st \in [Nodes -> {"idle", "est"}]
  /\ http \in [Nodes -> {"idle", "punch", "unpunched", "close"}]
  /\ NetOK
  /\ connects \in 0 .. env.connects
  /\ alive \in [Nodes -> BOOLEAN]
  /\ heard \in [Nodes -> BOOLEAN]
  /\ told \in [Nodes -> BOOLEAN]
  /\ renewed \in BOOLEAN
  /\ env \in Environments

(***************************************************************************)
(* A peer is taken as active, and gets a connection, only when packets     *)
(* have come through in both directions: the NAT of each side has been     *)
(* punched (soter2_hnd_PUNCH and soter2_hnd_ACK).                          *)
(***************************************************************************)
BothWays ==
  \A n \in Nodes : peer[n] = "ACTIVE" \/ conn[n] => \A m \in Nodes : heard[m]

(* A user disconnects, or a node has stopped. *)
Parting == \E n \in Nodes : http[n] = "close" \/ ~alive[n]

(***************************************************************************)
(* One connect request is enough, whichever of the users makes it, and     *)
(* also if both do, or one does twice: with no packet lost, both nodes     *)
(* become active and have a connection at the same time.  Exceptions: they *)
(* part first, or a connect request comes so late that it overwrites a     *)
(* peer that is active already (s2_sys_new_peer), whose other side then    *)
(* leaves the new punch unanswered (soter2_hnd_PUNCH).                     *)
(***************************************************************************)
FirstContact ==
  \/ [](connects = 0)
  \/ <>(Parting \/ renewed \/ \A n \in Nodes : peer[n] = "ACTIVE" /\ conn[n])

(* A node that stopped is removed from the database of the other (ping_iter). *)
DeadPeerForgotten ==
  \A n \in Nodes : ~alive[Other(n)] /\ alive[n] ~> ~alive[n] \/ peer[n] = "none"

(***************************************************************************)
(* The farewell after a single connect request ends: although every        *)
(* PACK_FIN that finds a connection is answered by two of them, and        *)
(* _daemon_st gives an active peer a new connection at once, no PACK_FIN   *)
(* travels for ever.                                                       *)
(***************************************************************************)
FinsCease ==
  <>[](connects > 1 \/ \A n \in Nodes : alive[n] => net[n]["FIN"] = 0)

(***************************************************************************)
(* What the user was told: after "Disconnected from peer" there is no      *)
(* connection to it, until a new connect or punch.                         *)
(***************************************************************************)
DisconnectHolds == \A n \in Nodes : told[n] => ~conn[n]
=============================================================================
