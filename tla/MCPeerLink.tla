----------------------------- MODULE MCPeerLink -----------------------------
EXTENDS PeerLink, TLC

(* The two nodes run the same program. *)
NodeSymmetry == Permutations(Nodes)

(* A single connect request, and nothing goes wrong. *)
Calm == [connects |-> 1, disconnects |-> FALSE, duplicates |-> FALSE,
         losses |-> FALSE, crashes |-> FALSE]

(***************************************************************************)
(* For the safety properties: two connect requests, of either user, while  *)
(* packets are lost and hosts are silent, or while packets are repeated.   *)
(***************************************************************************)
Wild == {[Calm EXCEPT !.connects = 2, !.losses = TRUE],
         [Calm EXCEPT !.connects = 2, !.duplicates = TRUE]}

OneParts == {[Calm EXCEPT !.disconnects = TRUE]}

(***************************************************************************)
(* For the liveness properties, one kind of event in each behaviour: two   *)
(* connect requests, of one user or of both, a node stops, or the users    *)
(* disconnect.                                                             *)
(***************************************************************************)
OneEvent == {[Calm EXCEPT !.connects = 2], [Calm EXCEPT !.crashes = TRUE]} \cup OneParts

(***************************************************************************)
(* Where packets are lost, one too many is one lost; where they are        *)
(* repeated, one copy is as good as many.                                  *)
(***************************************************************************)
Few == [PUNCH |-> 2, ACK |-> 2, PING |-> 1, PONG |-> 1, FIN |-> 1]

(***************************************************************************)
(* Nothing but pings and pongs, which are sent for ever, comes in such     *)
(* numbers that one is lost.                                               *)
(***************************************************************************)
Enough == [PUNCH |-> 3, ACK |-> 4, PING |-> 1, PONG |-> 1, FIN |-> 10]

FairSpec == Spec /\ Fairness
=============================================================================
