------------------------------- MODULE MCNode -------------------------------
(* The parts of a node around the reliable connection, on small instances: *)
(* a behaviour is one of the watcher, of the dispatcher's queue, of a      *)
(* packet's way from node to node, of the peers database, of gossip, of    *)
(* NAT detection or of an encrypted session.  The last is over datagrams   *)
(* and has its calls in any order, which covers the example's order and    *)
(* the RUDP connection.                                                    *)
EXTENDS WatcherWorker, DispatcherWorker, PacketPath, PeersDb, Gossip, NatDetect, E2eeSession

VARIABLE system   \* which of them; fixed

nodevars == <<system, dvars, ppvars, pvars, gvars, nvars, evars>>

(* Every node has the others as peers, and one the silent hosts too. *)
OneHasSilent ==
  [n \in Nodes |-> (Nodes \ {n}) \cup
     (IF n = CHOOSE m \in Nodes : TRUE THEN Silent ELSE {})]

NodeInit ==
  /\ system \in {"watcher", "dispatcher", "path", "peers", "gossip", "nat", "e2ee"}
  /\ DInit
  /\ PPInit /\ PInit /\ GInit /\ NInit /\ EInit
  /\ over = "udp" /\ usage = "any"
  /\ system # "nat" => nat = CHOOSE n \in [kind : NatKinds, repeats : BOOLEAN] : TRUE

OnQueue(s) == system = s /\ UNCHANGED <<system, ppvars, pvars, gvars, nvars, evars>>
OnPath  == system = "path" /\ UNCHANGED <<system, dvars, pvars, gvars, nvars, evars>>
OnPeers == system = "peers" /\ UNCHANGED <<system, dvars, ppvars, gvars, nvars, evars>>
OnTalk  == system = "gossip" /\ UNCHANGED <<system, dvars, ppvars, pvars, nvars, evars>>
OnNat   == system = "nat" /\ UNCHANGED <<system, dvars, ppvars, pvars, gvars, evars>>
OnE2ee  == system = "e2ee" /\ UNCHANGED <<system, dvars, ppvars, pvars, gvars, nvars>>

NodeNext ==
  \/ OnQueue("watcher") /\ Next /\ UNCHANGED r
  \/ OnQueue("dispatcher") /\ DNext
  \/ OnPath /\ PPNext
  \/ OnPeers /\ PNext
  \/ OnTalk /\ GNext
  \/ OnNat /\ NNext
  \/ OnE2ee /\ ENext

NodeSpec == NodeInit /\ [][NodeNext]_nodevars
=============================================================================
