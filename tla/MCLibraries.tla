---------------------------- MODULE MCLibraries -----------------------------
(* The libraries of code/devcore on small instances: a behaviour uses the  *)
(* ring, another container, an HTTP message, the sessions of QUIC or the   *)
(* SOCKS5 proxy.                                                           *)
EXTENDS ProtQueue, Containers, HttpMessages, QuicCore, Socks5

(* Keys are numbers, and their own hashes. *)
KeyIsHash == [k \in Keys |-> k]

boxvars == <<arr, tab, heap, ht, mixed, call, ret>>

(* What was first in a system matters only where it is used. *)
LibrariesInit ==
  /\ CInit /\ HInit /\ CoreInit /\ XInit
  /\ Init
  /\ kind # "http" => message = CHOOSE m \in Requests : TRUE
  /\ kind # "ring" => /\ out = CHOOSE e \in Elements : TRUE
                      /\ \A i \in DOMAIN elements : elements[i] = out

OnRing  == kind = "ring" /\ UNCHANGED <<kind, boxvars, hvars, quicvars, xvars>>
OnBox   == UNCHANGED <<kind, vars, hvars, quicvars, xvars>>
OnHttp  == kind = "http" /\ UNCHANGED <<kind, vars, boxvars, quicvars, xvars>>
OnQuic  == kind = "quic" /\ UNCHANGED <<kind, vars, boxvars, hvars, xvars>>
OnSocks == kind = "socks5" /\ UNCHANGED <<kind, vars, boxvars, hvars, quicvars>>

LibrariesNext ==
  \/ OnRing /\ Pop
  \/ \E e \in Elements : OnRing /\ Push(e)
  \/ \E e \in Elements : OnRing /\ Upush(e)
  \/ OnBox /\ CNext
  \/ OnHttp /\ HNext
  \/ OnQuic /\ CoreNext
  \/ OnSocks /\ XNext

LibrariesSpec ==
  LibrariesInit /\ [][LibrariesNext]_<<kind, vars, boxvars, hvars, quicvars, xvars>>
=============================================================================
