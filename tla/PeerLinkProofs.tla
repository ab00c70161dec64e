--------------------------- MODULE PeerLinkProofs ---------------------------
(***************************************************************************)
(* Proofs for PeerLink, for every choice of what users and network may do. *)
(*                                                                         *)
(* BothWays is not inductive by itself: that a node becomes active on an   *)
(* acknowledgement says something of the other direction only because of   *)
(* what had to happen before an acknowledgement could be sent.  Caused     *)
(* adds this for the packets on their way and for what each thread is in   *)
(* the middle of.                                                          *)
(***************************************************************************)
EXTENDS PeerLink, TLAPS

BothHeard(n) == heard[n] /\ heard[Other(n)]

(* What must have come before each trace of an acknowledgement. *)
Caused(n) ==
  /\ net[n]["ACK"] > 0 => heard[Other(n)]
  /\ hnd[n].type = "PUNCH" => heard[n]
  /\ hnd[n].type = "ACK" => BothHeard(n)
  /\ peer[n] = "ACTIVE" \/ st[n] = "est" \/ conn[n] => BothHeard(n)

IInv == TypeOK /\ \A n \in Nodes : Caused(n)

-----------------------------------------------------------------------------
(* There is exactly one other node. *)
LEMMA TheOther ==
  ASSUME NEW n \in Nodes
  PROVE  /\ Other(n) \in Nodes
         /\ Other(n) # n
         /\ Nodes = {n, Other(n)}
         /\ Other(Other(n)) = n
<1>1. PICK m \in Nodes : Nodes = {n, m} /\ n # m
  BY LinkAssumption
<1>2. \A k \in Nodes : k # n => k = m
  BY <1>1
<1>3. Other(n) \in Nodes /\ Other(n) # n
  BY <1>1 DEF Other
<1>4. Other(n) = m
  BY <1>2, <1>3
<1>5. Other(m) \in Nodes /\ Other(m) # m
  BY <1>1 DEF Other
<1>6. Other(m) = n
  BY <1>1, <1>5
<1> QED
  BY <1>1, <1>3, <1>4, <1>6

(* The bound of an environment is a number. *)
LEMMA ConnectsBound == env \in Environments => env.connects \in Nat
  BY LinkAssumption DEF Environment

(* The initial state, in which nothing has been sent, satisfies the invariant. *)
LEMMA InitEstablishes == Init => IInv
<1> SUFFICES ASSUME Init
             PROVE  IInv
  OBVIOUS
<1>1. connects \in 0 .. env.connects
  BY ConnectsBound DEF Init
<1>2. NetOK
  BY LinkAssumption DEF Init, NetOK
<1>3. TypeOK
  BY <1>1, <1>2 DEF Init, TypeOK, Idle, States
<1>4. ASSUME NEW n \in Nodes
      PROVE  Caused(n)
  BY <1>4 DEF Init, Caused, BothHeard, Idle, States, Types
<1> QED
  BY <1>3, <1>4 DEF IInv

(* A count within its bound stays so. *)
LEMMA Bounded ==
  ASSUME NEW t \in Types, NEW c \in Nat
  PROVE  /\ AtMost(t, c) \in Nat
         /\ AtMost(t, c) <= MaxCopies[t]
         /\ AtMost(t, c) > 0 => c > 0
  BY LinkAssumption DEF AtMost

(* Sending adds packets of one type to those on their way to the other node. *)
LEMMA SendsNet ==
  ASSUME NetOK, NEW n \in Nodes, NEW t \in Types, NEW k \in Nat, Sends(n, t, k)
  PROVE  /\ NetOK'
         /\ net'[n] = net[n]
         /\ \A s \in Types : s # t => net'[Other(n)][s] = net[Other(n)][s]
<1>1. Other(n) \in Nodes /\ Other(n) # n
  BY TheOther
<1>2. net[Other(n)][t] + k \in Nat
  BY <1>1 DEF NetOK
<1>3. /\ AtMost(t, net[Other(n)][t] + k) \in Nat
      /\ AtMost(t, net[Other(n)][t] + k) <= MaxCopies[t]
  BY <1>2, Bounded
<1> QED
  BY <1>1, <1>3 DEF NetOK, Sends

(* Receiving takes at most one packet, and there was one. *)
LEMMA ReceivesNet ==
  ASSUME NetOK, NEW n \in Nodes, NEW t \in Types, Receives(n, t)
  PROVE  /\ NetOK'
         /\ net[n][t] > 0
         /\ \A s \in Types : net'[n][s] > 0 => net[n][s] > 0
         /\ net'[Other(n)] = net[Other(n)]
<1>1. Other(n) \in Nodes /\ Other(n) # n
  BY TheOther
<1>2. PICK left \in Left(n, t) : net' = [net EXCEPT ![n][t] = left]
  BY DEF Receives
<1>3. net[n][t] \in Nat /\ net[n][t] > 0 /\ net[n][t] <= MaxCopies[t]
  BY DEF NetOK, Receives
<1>4. left \in Nat /\ left <= MaxCopies[t]
  BY <1>2, <1>3, LinkAssumption DEF Left
<1> QED
  BY <1>1, <1>2, <1>3, <1>4 DEF NetOK

(* An answer is a receipt and a sending in one step. *)
LEMMA AnswersNet ==
  ASSUME NetOK, NEW n \in Nodes, NEW t \in Types, NEW a \in Types, NEW k \in Nat,
         Answers(n, t, a, k)
  PROVE  /\ NetOK'
         /\ net[n][t] > 0
         /\ \A s \in Types : net'[n][s] > 0 => net[n][s] > 0
         /\ \A s \in Types : s # a => net'[Other(n)][s] = net[Other(n)][s]
<1>1. Other(n) \in Nodes /\ Other(n) # n
  BY TheOther
<1>2. PICK left \in Left(n, t) :
        net' = [net EXCEPT ![n][t] = left, ![Other(n)][a] = AtMost(a, @ + k)]
  BY DEF Answers
<1>3. net[n][t] \in Nat /\ net[n][t] > 0 /\ net[n][t] <= MaxCopies[t]
  BY DEF NetOK, Answers
<1>4. left \in Nat /\ left <= MaxCopies[t]
  BY <1>2, <1>3, LinkAssumption DEF Left
<1>5. net[Other(n)][a] + k \in Nat
  BY <1>1 DEF NetOK
<1>6. /\ AtMost(a, net[Other(n)][a] + k) \in Nat
      /\ AtMost(a, net[Other(n)][a] + k) <= MaxCopies[a]
  BY <1>5, Bounded
<1>7. net' = [net EXCEPT ![n][t] = left,
                         ![Other(n)][a] = AtMost(a, net[Other(n)][a] + k)]
  BY <1>1, <1>2 DEF NetOK
<1> QED
  BY <1>1, <1>3, <1>4, <1>6, <1>7 DEF NetOK

(* The types are kept by every step. *)
LEMMA TypePreserved ==
  ASSUME TypeOK, [Next]_vars
  PROVE  TypeOK'
<1> USE DEF TypeOK, Idle, States, Types
<1>1. CASE UNCHANGED vars
  BY <1>1 DEF vars, NetOK
<1>2. ASSUME NEW n \in Nodes, Handlers(n)
      PROVE  TypeOK'
  <2>2. CASE PunchRead(n)
    <3>1. NetOK'
      BY <2>2, ReceivesNet DEF PunchRead
    <3> QED
      BY <2>2, <3>1 DEF PunchRead, Hear
  <2>3. CASE PunchApply(n)
    <3>1. NetOK'
      <4>1. CASE Sends(n, "ACK", 1)
        BY <4>1, SendsNet
      <4>2. CASE UNCHANGED net
        BY <4>2 DEF NetOK
      <4> QED
        BY <2>3, <4>1, <4>2 DEF PunchApply
    <3> QED
      BY <2>3, <3>1 DEF PunchApply, Schange
  <2>4. CASE AckRead(n)
    <3>1. NetOK'
      BY <2>4, ReceivesNet DEF AckRead
    <3>2. hnd' \in [Nodes -> [type : {"PUNCH", "ACK"}, info : States] \cup {Idle}]
      BY <2>4 DEF AckRead
    <3> QED
      BY <2>4, <3>1, <3>2 DEF AckRead, Hear
  <2>5. CASE AckApply(n)
    <3>1. NetOK'
      BY <2>5, SendsNet DEF AckApply, AckReply
    <3> QED
      BY <2>5, <3>1 DEF AckApply, Schange
  <2> QED
    BY <1>2, <2>2, <2>3, <2>4, <2>5 DEF Handlers
<1>3. ASSUME NEW n \in Nodes, Keepalive(n) \/ HandleFin(n)
      PROVE  TypeOK'
  <2>2. CASE PingPong(n)
    <3>1. NetOK'
      BY <2>2, AnswersNet, ReceivesNet DEF PingPong
    <3> QED
      BY <2>2, <3>1 DEF PingPong, Hear
  <2>3. CASE Ping(n)
    <3>1. NetOK'
      BY <2>3, SendsNet DEF Ping
    <3> QED
      BY <2>3, <3>1 DEF Ping
  <2>4. CASE Expire(n)
    BY <2>4 DEF Expire, NetOK
  <2>5. CASE HandleFin(n)
    <3>1. NetOK'
      BY <2>5, AnswersNet DEF HandleFin, Fin
    <3> QED
      BY <2>5, <3>1 DEF HandleFin, Hear
  <2> QED
    BY <1>3, <2>2, <2>3, <2>4, <2>5 DEF Keepalive
<1>4. ASSUME NEW n \in Nodes, DaemonIo(n) \/ DaemonSt(n)
      PROVE  TypeOK'
  <2>2. CASE FindDead(n) \/ RemoveDead(n)
    BY <2>2 DEF FindDead, RemoveDead, NetOK
  <2>3. CASE CloseDead(n)
    <3>1. NetOK'
      BY <2>3, SendsNet DEF CloseDead, Fin
    <3> QED
      BY <2>3, <3>1 DEF CloseDead
  <2>4. CASE FindActive(n) \/ Establish(n)
    BY <2>4, ZenonT(40) DEF FindActive, Establish, NetOK
  <2> QED
    BY <1>4, <2>2, <2>3, <2>4 DEF DaemonIo, DaemonSt
<1>5. ASSUME NEW n \in Nodes, HttpThread(n)
      PROVE  TypeOK'
  <2>2. CASE Connect(n)
    <3>1. env \in Environments /\ env' = env /\ connects' = connects + 1
          /\ connects \in 0 .. env.connects /\ connects < env.connects
      BY <2>2 DEF Connect
    <3>2. connects' \in 0 .. env'.connects
      BY <3>1, ConnectsBound
    <3> QED
      BY <2>2, <3>2 DEF Connect, NetOK
  <2>3. CASE NatPunch(n)
    <3>1. NetOK'
      <4>1. CASE Sends(n, "PUNCH", 1)
        BY <4>1, SendsNet
      <4>2. CASE UNCHANGED net
        BY <4>2 DEF NetOK
      <4> QED
        BY <2>3, <4>1, <4>2 DEF NatPunch
    <3> QED
      BY <2>3, <3>1 DEF NatPunch
  <2>4. CASE Disconnect(n) \/ GiveUp(n)
    BY <2>4 DEF Disconnect, GiveUp, NetOK
  <2>5. CASE CloseConn(n)
    <3>1. NetOK'
      BY <2>5, SendsNet DEF CloseConn, Fin
    <3> QED
      BY <2>5, <3>1 DEF CloseConn
  <2> QED
    BY <1>5, <2>2, <2>3, <2>4, <2>5 DEF HttpThread
<1>6. ASSUME NEW n \in Nodes, Crash(n) \/ \E t \in Types : Lose(n, t)
      PROVE  TypeOK'
  <2>1. CASE Crash(n)
    BY <2>1 DEF Crash, NetOK
  <2>2. ASSUME NEW t \in Types, Lose(n, t)
        PROVE  TypeOK'
    <3>1. net[n][t] > 0 /\ net' = [net EXCEPT ![n][t] = @ - 1]
      BY <2>2 DEF Lose
    <3>2. net[n][t] - 1 \in Nat /\ net[n][t] - 1 <= MaxCopies[t]
      BY <2>2, <3>1, LinkAssumption DEF NetOK
    <3>3. NetOK'
      BY <3>1, <3>2 DEF NetOK
    <3> QED
      BY <2>2, <3>3 DEF Lose
  <2> QED
    BY <1>6, <2>1, <2>2
<1> QED
  BY <1>1, <1>2, <1>3, <1>4, <1>5, <1>6 DEF Next

-----------------------------------------------------------------------------
(***************************************************************************)
(* What must have come before stays so: the histories only grow, and an    *)
(* acknowledgement is only sent by a node that has heard from the other.   *)
(***************************************************************************)
LEMMA CausePreserved ==
  ASSUME IInv, [Next]_vars, NEW k \in Nodes
  PROVE  Caused(k)'
<1> USE DEF IInv, TypeOK, Caused, BothHeard, Idle, States, Types
<1>0. \A n \in Nodes : /\ Other(n) \in Nodes /\ Other(n) # n
                       /\ k = n \/ k = Other(n)
                       /\ Other(Other(n)) = n
  BY TheOther
<1>1. CASE UNCHANGED vars
  BY <1>0, <1>1 DEF vars
<1>2. ASSUME NEW n \in Nodes, Handlers(n)
      PROVE  Caused(k)'
  <2>1. CASE PunchRead(n)
    <3>1. /\ \A s \in Types : net'[n][s] > 0 => net[n][s] > 0
          /\ net'[Other(n)] = net[Other(n)]
      BY <2>1, ReceivesNet DEF PunchRead
    <3> QED
      BY <1>0, <2>1, <3>1 DEF PunchRead, Hear
  <2>2. CASE PunchApply(n)
    <3>1. \/ UNCHANGED net
          \/ /\ net'[n] = net[n]
             /\ hnd[n].type = "PUNCH"
      BY <2>2, SendsNet DEF PunchApply
    <3> QED
      BY <1>0, <2>2, <3>1 DEF PunchApply, Schange
  <2>3. CASE AckRead(n)
    <3>1. /\ net[n]["ACK"] > 0
          /\ \A s \in Types : net'[n][s] > 0 => net[n][s] > 0
          /\ net'[Other(n)] = net[Other(n)]
      BY <2>3, ReceivesNet DEF AckRead
    <3> QED
      BY <1>0, <2>3, <3>1 DEF AckRead, Hear
  <2>4. CASE AckApply(n)
    <3>1. net'[n] = net[n]
      BY <2>4, SendsNet DEF AckApply, AckReply
    <3> QED
      BY <1>0, <2>4, <3>1 DEF AckApply, Schange
  <2> QED
    BY <1>2, <2>1, <2>2, <2>3, <2>4 DEF Handlers
<1>3. ASSUME NEW n \in Nodes, Keepalive(n) \/ HandleFin(n)
      PROVE  Caused(k)'
  <2>1. CASE PingPong(n)
    <3>1. /\ net'[n]["ACK"] > 0 => net[n]["ACK"] > 0
          /\ net'[Other(n)]["ACK"] = net[Other(n)]["ACK"]
      BY <2>1, AnswersNet, ReceivesNet DEF PingPong
    <3> QED
      BY <1>0, <2>1, <3>1 DEF PingPong, Hear
  <2>2. CASE Ping(n)
    <3>1. net'[n] = net[n] /\ net'[Other(n)]["ACK"] = net[Other(n)]["ACK"]
      BY <2>2, SendsNet DEF Ping
    <3> QED
      BY <1>0, <2>2, <3>1 DEF Ping
  <2>3. CASE Expire(n)
    BY <1>0, <2>3 DEF Expire
  <2>4. CASE HandleFin(n)
    <3>1. /\ net'[n]["ACK"] > 0 => net[n]["ACK"] > 0
          /\ net'[Other(n)]["ACK"] = net[Other(n)]["ACK"]
      BY <2>4, AnswersNet DEF HandleFin, Fin
    <3> QED
      BY <1>0, <2>4, <3>1 DEF HandleFin, Hear
  <2> QED
    BY <1>3, <2>1, <2>2, <2>3, <2>4 DEF Keepalive
<1>4. ASSUME NEW n \in Nodes, DaemonIo(n) \/ DaemonSt(n)
      PROVE  Caused(k)'
  <2>1. CASE FindDead(n) \/ RemoveDead(n) \/ FindActive(n) \/ Establish(n)
    BY <1>0, <2>1 DEF FindDead, RemoveDead, FindActive, Establish
  <2>2. CASE CloseDead(n)
    <3>1. net'[n] = net[n] /\ net'[Other(n)]["ACK"] = net[Other(n)]["ACK"]
      BY <2>2, SendsNet DEF CloseDead, Fin
    <3> QED
      BY <1>0, <2>2, <3>1 DEF CloseDead
  <2> QED
    BY <1>4, <2>1, <2>2 DEF DaemonIo, DaemonSt
<1>5. ASSUME NEW n \in Nodes, HttpThread(n)
      PROVE  Caused(k)'
  <2>1. CASE Connect(n) \/ GiveUp(n) \/ Disconnect(n)
    BY <1>0, <2>1 DEF Connect, GiveUp, Disconnect
  <2>2. CASE NatPunch(n)
    <3>1. /\ net'[n]["ACK"] = net[n]["ACK"]
          /\ net'[Other(n)]["ACK"] = net[Other(n)]["ACK"]
      BY <2>2, SendsNet DEF NatPunch
    <3> QED
      BY <1>0, <2>2, <3>1 DEF NatPunch
  <2>3. CASE CloseConn(n)
    <3>1. net'[n] = net[n] /\ net'[Other(n)]["ACK"] = net[Other(n)]["ACK"]
      BY <2>3, SendsNet DEF CloseConn, Fin
    <3> QED
      BY <1>0, <2>3, <3>1 DEF CloseConn
  <2> QED
    BY <1>5, <2>1, <2>2, <2>3 DEF HttpThread
<1>6. ASSUME NEW n \in Nodes, Crash(n) \/ \E t \in Types : Lose(n, t)
      PROVE  Caused(k)'
  <2>1. CASE Crash(n)
    BY <1>0, <2>1 DEF Crash
  <2>2. ASSUME NEW t \in Types, Lose(n, t)
        PROVE  Caused(k)'
    <3>1. /\ net[n] \in [Types -> Nat]
          /\ net' = [net EXCEPT ![n][t] = @ - 1]
      BY <2>2 DEF Lose, NetOK
    <3>2. net'[n]["ACK"] > 0 => net[n]["ACK"] > 0
      BY <3>1 DEF NetOK
    <3>3. net'[Other(n)] = net[Other(n)]
      BY <1>0, <3>1 DEF NetOK
    <3> QED
      BY <1>0, <2>2, <3>2, <3>3 DEF Lose
  <2> QED
    BY <1>6, <2>1, <2>2
<1> QED
  BY <1>1, <1>2, <1>3, <1>4, <1>5, <1>6 DEF Next

(* The invariant holds throughout. *)
LEMMA Invariance == Spec => []IInv
<1>1. IInv /\ [Next]_vars => IInv'
  BY TypePreserved, CausePreserved DEF IInv
<1> QED
  BY InitEstablishes, <1>1, PTL DEF Spec

-----------------------------------------------------------------------------
(* The variables of both nodes keep their types. *)
THEOREM TypeCorrect == Spec => []TypeOK
  BY Invariance, PTL DEF IInv

(***************************************************************************)
(* Whatever the users do and the network loses, repeats or delays, a node  *)
(* takes the other as active, or has a connection to it, only if packets   *)
(* have come through in both directions.                                   *)
(***************************************************************************)
THEOREM ActiveWasPunched == Spec => []BothWays
<1>1. IInv => BothWays
  BY TheOther DEF IInv, Caused, BothHeard, BothWays
<1> QED
  BY <1>1, Invariance, PTL
=============================================================================
