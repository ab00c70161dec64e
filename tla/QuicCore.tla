------------------------------- MODULE QuicCore -------------------------------
(***************************************************************************)
(* The wrapper of picoquic (code/devcore/quic/src/quic.c) with its two     *)
(* threads: a daemon that sends, waits and receives, as the one of         *)
(* code/quic/src, and an application that waits for a session and then     *)
(* sends, waits for packets and reads them in any order it likes.          *)
(*                                                                         *)
(* picoquic is external: it keeps the data of quic_send until it is asked  *)
(* for packets, and calls _quic_core_cb while a datagram is handed to it.  *)
(* A message is a number.  The array of sessions has a home in memory and  *)
(* may get another one when it grows.                                      *)
(***************************************************************************)
EXTENDS Naturals, Sequences

CONSTANTS Cnxs,         \* connections, in picoquic
          MaxSent,      \* bound: calls of quic_send
          MaxCalled     \* bound: messages that come in on a connection

VARIABLES cnx,          \* of each connection: its state, messages called back
          sessions,     \* the array: its elements, its home and its capacity
          new_sessions, \* pointers to sessions
          evs,          \* the eventfds that are set
          unsent,       \* messages added to a stream and in no packet yet
          daemon,       \* where the daemon is
          app,          \* the application
          is_running,
          emptied       \* history: the application has found no packet left to
                        \* read since it last waited for one

quicvars == <<cnx, sessions, new_sessions, evs, unsent, daemon, app, is_running, emptied>>

NoSession == [home |-> 0, index |-> 0]

CoreInit ==
  /\ cnx = [c \in Cnxs |-> [state |-> "none", called |-> 0]]
  /\ sessions = [array |-> << >>, home |-> 1, head |-> 1]
  /\ new_sessions = << >>
  /\ evs = {}
  /\ unsent = 0
  /\ daemon = "send"
  /\ app = [pc |-> "start", session |-> NoSession, sent |-> 0]
  /\ is_running = TRUE
  /\ emptied = TRUE

Data == <<cnx, sessions, new_sessions>>

-----------------------------------------------------------------------------
(* Mutant of PrepareNextPacket: one packet for each round. *)
PrepareOnePacket ==
  /\ daemon = "send"
  /\ unsent > 0
  /\ unsent' = unsent - 1
  /\ daemon' = "poll"
  /\ UNCHANGED <<Data, evs, app, emptied, is_running>>

(* quic_core_senditer: packets are made and sent until there are no more, *)
PrepareNextPacket ==
  /\ daemon = "send"
  /\ unsent > 0
  /\ unsent' = unsent - 1
  /\ UNCHANGED <<Data, evs, daemon, app, emptied, is_running>>

SendIterEnds ==
  /\ daemon = "send"
  /\ unsent = 0
  /\ daemon' = "poll"
  /\ evs' = evs \cup {"done"}
  /\ UNCHANGED <<Data, unsent, app, emptied, is_running>>

(***************************************************************************)
(* quic_wait_recviter: woken by quic_send, by a datagram or by time; the   *)
(* event is drained, and the datagrams, if any, come first.                *)
(***************************************************************************)
PollReturns ==
  /\ daemon = "poll"
  /\ evs' = evs \ {"outgoing"}
  /\ daemon' \in {"receive", "loop"}
  /\ UNCHANGED <<Data, unsent, app, emptied, is_running>>

(* quic_core_recviter finds no more datagrams. *)
ReceiveEnds ==
  /\ daemon = "receive"
  /\ daemon' = "loop"
  /\ UNCHANGED <<Data, evs, unsent, app, emptied, is_running>>

(* The loop of the daemon; quic_core_senditer drains outgoing_done_ev. *)
DaemonLoop ==
  /\ daemon = "loop"
  /\ daemon' = IF is_running THEN "send" ELSE "ended"
  /\ evs' = IF is_running THEN evs \ {"done"} ELSE evs
  /\ UNCHANGED <<Data, unsent, app, emptied, is_running>>

-----------------------------------------------------------------------------
(* _quic_core_cb, called while datagrams are received. *)

(* dyn_array_push: when full, realloc, which may move the array. *)
Pushed(c) ==
  LET full == Len(sessions.array) >= sessions.head - 1
  IN  [array : {Append(sessions.array, [cnx |-> c, inc_pkts |-> << >>])},
       home : IF full THEN {sessions.home, sessions.home + 1} ELSE {sessions.home},
       head : {IF full THEN 2 * sessions.head ELSE sessions.head}]

(* Mutant of RegisterSession: the pointer is taken before the push. *)
RegisterSessionEarly(c) ==
  /\ daemon = "receive" /\ cnx[c].state = "none"
  /\ cnx' = [cnx EXCEPT ![c].state = "ready"]
  /\ sessions' \in Pushed(c)
  /\ new_sessions' = Append(new_sessions,
       [home |-> sessions.home, index |-> Len(sessions'.array)])
  /\ daemon' = "notify_session"
  /\ UNCHANGED <<evs, unsent, app, emptied, is_running>>

(* _quic_register_session *)
RegisterSession(c) ==
  /\ daemon = "receive" /\ cnx[c].state = "none"
  /\ cnx' = [cnx EXCEPT ![c].state = "ready"]
  /\ sessions' \in Pushed(c)
  /\ new_sessions' = Append(new_sessions,
       [home |-> sessions'.home, index |-> Len(sessions'.array)])
  /\ daemon' = "notify_session"
  /\ UNCHANGED <<evs, unsent, app, emptied, is_running>>

(* _find_session_by_cnx: the first session of the connection, or 0. *)
FindSession(c) ==
  LET at == {i \in DOMAIN sessions.array : sessions.array[i].cnx = c}
  IN  IF at = {} THEN 0 ELSE CHOOSE i \in at : \A j \in at : i <= j

(* Stream data, or its end, for a connection whose session is found. *)
StreamData(c) ==
  LET i == FindSession(c)
  IN  /\ daemon = "receive" /\ cnx[c].state = "ready" /\ cnx[c].called < MaxCalled
      /\ cnx' = [cnx EXCEPT ![c].called = @ + 1]
      /\ IF i = 0 THEN UNCHANGED <<sessions, daemon>>
         ELSE /\ sessions' = [sessions EXCEPT !.array[i].inc_pkts = Append(@, cnx[c].called + 1)]
              /\ daemon' = "notify_incoming"
      /\ UNCHANGED <<new_sessions, evs, unsent, app, emptied, is_running>>

(***************************************************************************)
(* A connection is closed or reset: _quic_unregister_session looks at the  *)
(* first session only; then the whole core is stopped.                     *)
(***************************************************************************)
CloseCnx(c) ==
  /\ daemon = "receive" /\ cnx[c].state = "ready"
  /\ cnx' = [cnx EXCEPT ![c].state = "closed"]
  /\ sessions' = IF FindSession(c) = 1 THEN [sessions EXCEPT !.array = Tail(@)] ELSE sessions
  /\ is_running' = FALSE
  /\ UNCHANGED <<new_sessions, evs, unsent, daemon, app, emptied>>

CallbackNotifies ==
  /\ daemon \in {"notify_session", "notify_incoming"}
  /\ evs' = evs \cup {IF daemon = "notify_session" THEN "session" ELSE "incoming"}
  /\ daemon' = "receive"
  /\ UNCHANGED <<Data, unsent, app, emptied, is_running>>

-----------------------------------------------------------------------------
(* quic_wait_session: a session that is there, or one that is waited for. *)
WaitSession ==
  /\ app.pc = "start"
  /\ new_sessions # << >> \/ "session" \in evs
  /\ evs' = IF new_sessions = << >> THEN evs \ {"session"} ELSE evs
  /\ app' = [app EXCEPT !.pc = "pop_session"]
  /\ UNCHANGED <<Data, unsent, daemon, emptied, is_running>>

PopSession ==
  /\ app.pc = "pop_session"
  /\ app' = [app EXCEPT !.pc = "ready",
               !.session = IF new_sessions = << >> THEN NoSession ELSE Head(new_sessions)]
  /\ new_sessions' = IF new_sessions = << >> THEN << >> ELSE Tail(new_sessions)
  /\ UNCHANGED <<cnx, sessions, evs, unsent, daemon, emptied, is_running>>

(* quic_send: picoquic_add_to_stream, then the notification. *)
QuicSend ==
  /\ app.pc = "ready" /\ app.sent < MaxSent
  /\ unsent' = unsent + 1
  /\ app' = [app EXCEPT !.pc = "notify", !.sent = @ + 1]
  /\ UNCHANGED <<Data, evs, daemon, emptied, is_running>>

QuicSendNotifies ==
  /\ app.pc = "notify"
  /\ evs' = evs \cup {"outgoing"}
  /\ app' = [app EXCEPT !.pc = "ready"]
  /\ UNCHANGED <<Data, unsent, daemon, emptied, is_running>>

WaitCalled ==
  /\ app.pc = "ready"
  /\ app' = [app EXCEPT !.pc = "wait"]
  /\ UNCHANGED <<Data, evs, unsent, daemon, emptied, is_running>>

(* quic_wait_incpkt: the wait and the drain. *)
WaitIncpkt ==
  /\ app.pc = "wait"
  /\ "incoming" \in evs
  /\ evs' = evs \ {"incoming"}
  /\ app' = [app EXCEPT !.pc = "ready"]
  /\ emptied' = FALSE
  /\ UNCHANGED <<Data, unsent, daemon, is_running>>

(* The session the application reads from, if its pointer is any good. *)
Pointed == IF app.session.home = sessions.home /\ app.session.index <= Len(sessions.array)
           THEN app.session.index ELSE 0

Inbox == IF Pointed = 0 THEN << >> ELSE sessions.array[Pointed].inc_pkts

(* quic_recv: one packet, *)
QuicRecv ==
  /\ app.pc = "ready" /\ Inbox # << >>
  /\ sessions' = [sessions EXCEPT !.array[Pointed].inc_pkts = Tail(@)]
  /\ UNCHANGED <<cnx, new_sessions, evs, unsent, daemon, app, emptied, is_running>>

(* or none. *)
QuicRecvEmpty ==
  /\ app.pc = "ready" /\ Inbox = << >>
  /\ emptied' = TRUE
  /\ UNCHANGED <<Data, evs, unsent, daemon, app, is_running>>

(* quic_core_wait_done, after its sleep. *)
WaitDone ==
  /\ app.pc = "ready" /\ "done" \in evs
  /\ evs' = evs \ {"done"}
  /\ UNCHANGED <<Data, unsent, daemon, app, emptied, is_running>>

(* quic_core_stop *)
CoreStop ==
  /\ app.pc = "ready" /\ is_running
  /\ is_running' = FALSE
  /\ UNCHANGED <<Data, evs, unsent, daemon, app, emptied>>

CoreNext ==
  \/ PrepareNextPacket \/ SendIterEnds \/ PollReturns \/ ReceiveEnds \/ DaemonLoop
  \/ \E c \in Cnxs : RegisterSession(c) \/ StreamData(c) \/ CloseCnx(c)
  \/ CallbackNotifies
  \/ WaitSession \/ PopSession \/ QuicSend \/ QuicSendNotifies \/ WaitCalled
  \/ WaitIncpkt \/ QuicRecv \/ QuicRecvEmpty \/ WaitDone \/ CoreStop

CoreSpec == CoreInit /\ [][CoreNext]_quicvars

-----------------------------------------------------------------------------
OneReady == \A c, d \in Cnxs : cnx[c].state # "none" /\ cnx[d].state # "none" => c = d

(***************************************************************************)
(* The daemon does not go to sleep on data the application has handed over *)
(* while it was sending or receiving, nor the application on packets of    *)
(* its session: a wake-up is there or on its way.  The application must    *)
(* have read until quic_recv found nothing after its last quic_wait_incpkt *)
(* for this, since one wake-up may stand for several packets; one that     *)
(* reads a packet for each wait may leave the rest lying.  (For one        *)
(* session, that is: a second may move the array under the pointer.)       *)
(***************************************************************************)
NothingOverlooked ==
  /\ daemon = "poll" /\ unsent > 0 => "outgoing" \in evs \/ app.pc = "notify"
  /\ OneReady /\ app.pc = "wait" /\ emptied /\ Inbox # << >>
       => "incoming" \in evs \/ daemon = "notify_incoming"

(***************************************************************************)
(* When quic_wait_session first returns, there is a session, and until a   *)
(* second connection is ready or this one closed the pointer is to it.     *)
(***************************************************************************)
SessionWhenTold ==
  /\ app.pc = "ready" => app.session # NoSession
  /\ app.session # NoSession /\ OneReady => Pointed # 0 \/ ~is_running
=============================================================================
