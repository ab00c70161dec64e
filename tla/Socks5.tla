-------------------------------- MODULE Socks5 --------------------------------
(***************************************************************************)
(* The SOCKS5 proxy (code/devcore/proxy/src/socks5.c): an accept loop that *)
(* gives each client a detached thread, which handles the greeting and the *)
(* request, has the remote host connected by the connection_handler of the *)
(* application (that of code/quic/src/socks5_test.c), replies and relays.  *)
(*                                                                         *)
(* All threads share the table of descriptors, which gives out the lowest  *)
(* that is free; what a thread keeps is a number.  The bytes relayed are   *)
(* left out.                                                               *)
(***************************************************************************)
EXTENDS Integers, FiniteSetsExt

CONSTANTS Threads,     \* one for each client
          MaxFd,       \* bound: descriptors
          MaxAddrs     \* bound: addresses of a name

(* A descriptor is nobody's, or one thread's. *)
ASSUME DescriptorsAssumption == MaxFd \in Nat /\ "free" \notin Threads

VARIABLES fds,         \* whose each descriptor is: a thread's, or "free"
          thr,         \* the threads of the clients
          active,      \* is_active
          spoiled      \* a descriptor that was never set has been closed

xvars == <<fds, thr, active, spoiled>>

NoFd == -1
Idle == [pc |-> "none", client |-> NoFd, remote |-> NoFd, type |-> "none",
         tried |-> 0]

XInit ==
  /\ fds = [f \in 1 .. MaxFd |-> "free"]
  /\ thr = [t \in Threads |-> Idle]
  /\ active = TRUE
  /\ spoiled = FALSE

Free == {f \in DOMAIN fds : fds[f] = "free"}
Lowest == Min(Free)

(* socket and accept4; close of a number, whatever it stands for. *)
Opened(t) == [fds EXCEPT ![Lowest] = t]
Closed(f) == [g \in DOMAIN fds |-> IF g = f THEN "free" ELSE fds[g]]

Becomes(t, r) == thr' = [thr EXCEPT ![t] = r]

-----------------------------------------------------------------------------
(***************************************************************************)
(* prx_socks5_accept_loop.  When an option cannot be set or memory is      *)
(* short, the client is forgotten and its socket stays open.               *)
(***************************************************************************)
AcceptClient(t) ==
  /\ active /\ thr[t].pc = "none" /\ Free # {}
  /\ \/ /\ fds' = Opened(t)
        /\ Becomes(t, [Idle EXCEPT !.pc = "greeting", !.client = Lowest])
     \/ /\ fds' = Opened(t)
        /\ Becomes(t, [Idle EXCEPT !.pc = "forgotten", !.client = Lowest])
     \/ /\ Becomes(t, [Idle EXCEPT !.pc = "done"])   \* no thread: closed again
        /\ UNCHANGED fds
  /\ UNCHANGED <<active, spoiled>>

(* __stas5_handle_greeting; a client with no method in common is closed. *)
Greeting(t) ==
  /\ thr[t].pc = "greeting"
  /\ \/ /\ Becomes(t, [thr[t] EXCEPT !.pc = "request"])
        /\ UNCHANGED fds
     \/ /\ fds' = Closed(thr[t].client)
        /\ Becomes(t, [thr[t] EXCEPT !.pc = "done"])
  /\ UNCHANGED <<active, spoiled>>

(* prx_socks5_handle_request *)
HandleRequest(t, type) ==
  /\ thr[t].pc = "request"
  /\ Becomes(t, [thr[t] EXCEPT !.pc = "resolve", !.type = type])
  /\ UNCHANGED <<fds, active, spoiled>>

(***************************************************************************)
(* A request that is refused: remote was never set, and is closed all the  *)
(* same.  It may be the number of any descriptor, or of none.              *)
(***************************************************************************)
RefuseRequest(t, garbage) ==
  /\ thr[t].pc = "request"
  /\ fds' = Closed(garbage)
  /\ Becomes(t, [thr[t] EXCEPT !.pc = "close_client"])
  /\ spoiled' = TRUE
  /\ UNCHANGED active

-----------------------------------------------------------------------------
(* Mutant of Unresolved: the number of the last attempt is kept. *)
UnresolvedKept(t, f) == [thr[t] EXCEPT !.pc = "reply", !.remote = f]

(* prx_resolve_address answers -1; connection_handler sets the number. *)
Unresolved(t, f) == [thr[t] EXCEPT !.pc = "reply", !.remote = NoFd]

(* An address: connected, or else the socket is left open. *)
ResolveIp(t) ==
  /\ thr[t].pc = "resolve" /\ thr[t].type = "ip" /\ Free # {}
  /\ fds' = Opened(t)
  /\ \/ Becomes(t, [thr[t] EXCEPT !.pc = "reply", !.remote = Lowest])
     \/ Becomes(t, Unresolved(t, Lowest))
  /\ UNCHANGED <<active, spoiled>>

(***************************************************************************)
(* A name: its addresses are tried in turn.  ln_tsock_connectx answers 1   *)
(* for a connected socket, 0 when its time is up and -1 for an error; 0 is *)
(* what this loop takes for a connection.                                  *)
(***************************************************************************)
TryAddress(t, connectx) ==
  /\ thr[t].pc = "resolve" /\ thr[t].type = "domain" /\ Free # {}
  /\ thr[t].tried < MaxAddrs
  /\ fds' = Opened(t)
  /\ Becomes(t, IF connectx = 0
                THEN [thr[t] EXCEPT !.pc = "reply", !.remote = Lowest]
                ELSE [thr[t] EXCEPT !.pc = "close_try", !.remote = Lowest, !.tried = @ + 1])
  /\ UNCHANGED <<active, spoiled>>

CloseTry(t) ==
  /\ thr[t].pc = "close_try"
  /\ fds' = Closed(thr[t].remote)
  /\ Becomes(t, [thr[t] EXCEPT !.pc = "resolve"])
  /\ UNCHANGED <<active, spoiled>>

(* No address is left, or the name is unknown. *)
NoAddress(t) ==
  /\ thr[t].pc = "resolve" /\ thr[t].type = "domain"
  /\ Becomes(t, Unresolved(t, thr[t].remote))
  /\ UNCHANGED <<fds, active, spoiled>>

-----------------------------------------------------------------------------
(* __stas5_send_ip_reply or __stas5_send_domain_reply, and the test after it. *)
Reply(t) ==
  /\ thr[t].pc = "reply"
  /\ Becomes(t, [thr[t] EXCEPT !.pc = IF thr[t].remote > 0 THEN "tunnel" ELSE "close_remote"])
  /\ UNCHANGED <<fds, active, spoiled>>

(* The relaying ends: an end of stream, an error, or is_active was cleared. *)
TunnelEnds(t) ==
  /\ thr[t].pc = "tunnel"
  /\ Becomes(t, [thr[t] EXCEPT !.pc = "close_remote"])
  /\ UNCHANGED <<fds, active, spoiled>>

(* The label err. *)
CloseRemote(t) ==
  /\ thr[t].pc = "close_remote"
  /\ fds' = Closed(thr[t].remote)
  /\ Becomes(t, [thr[t] EXCEPT !.pc = "close_client"])
  /\ UNCHANGED <<active, spoiled>>

CloseClient(t) ==
  /\ thr[t].pc = "close_client"
  /\ fds' = Closed(thr[t].client)
  /\ Becomes(t, [thr[t] EXCEPT !.pc = "done"])
  /\ UNCHANGED <<active, spoiled>>

Deactivate ==
  /\ active
  /\ active' = FALSE
  /\ UNCHANGED <<fds, thr, spoiled>>

XNext ==
  \/ \E t \in Threads :
       \/ AcceptClient(t) \/ Greeting(t)
       \/ \E type \in {"ip", "domain"} : HandleRequest(t, type)
       \/ \E garbage \in {NoFd} \cup DOMAIN fds : RefuseRequest(t, garbage)
       \/ ResolveIp(t) \/ CloseTry(t) \/ NoAddress(t)
       \/ \E connectx \in {-1, 0, 1} : TryAddress(t, connectx)
       \/ Reply(t) \/ TunnelEnds(t) \/ CloseRemote(t) \/ CloseClient(t)
  \/ Deactivate

XSpec == XInit /\ [][XNext]_xvars

-----------------------------------------------------------------------------
(***************************************************************************)
(* The two descriptors of a tunnel are open and its own, however other     *)
(* threads open and close theirs meanwhile, as long as no request was      *)
(* refused.                                                                *)
(***************************************************************************)
TunnelOwnsSockets ==
  \A t \in Threads : thr[t].pc = "tunnel" /\ ~spoiled =>
    fds[thr[t].client] = t /\ fds[thr[t].remote] = t
=============================================================================
