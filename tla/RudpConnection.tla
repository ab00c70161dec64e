--------------------------- MODULE RudpConnection ---------------------------
(***************************************************************************)
(* One direction of a soter2 RUDP connection (code/devcore/rudp): the      *)
(* send half of the rudp_connection of one host, the receive half of the   *)
(* rudp_connection of the other, and the UDP network between them.         *)
(*                                                                         *)
(* The two halves of one rudp_connection share only the field "closed".    *)
(* The reverse direction therefore appears here as the single step         *)
(* ReverseTimeouts, which closes the receiving host's connection.          *)
(*                                                                         *)
(* Atomicity.  Every action runs under the lock the code holds:            *)
(* rudp_conn_send, the PACK_RACK branch and _rudp_conn_timeouts hold the   *)
(* lock of pkts_fhost, and the receive half is only written by the         *)
(* dispatcher thread.  The one test made before the lock is taken, that    *)
(* of "closed" in rudp_conn_send, is a step of its own (SendCheck).        *)
(*                                                                         *)
(* The network is the set of everything ever sent: a packet may be lost    *)
(* (never received), duplicated, delayed and reordered at will.            *)
(*                                                                         *)
(* Time is abstracted: which packets are due for retransmission, whether   *)
(* the acknowledgement timers have run out and how avg_rtt_ms compares     *)
(* with 30 and 100 ms are nondeterministic.                                *)
(***************************************************************************)
EXTENDS Integers, Sequences, FiniteSets

CONSTANTS
  UINT32_MAX,               \* largest sequence number, and the mark "none yet"
  RUDP_SEND_WINDOW,         \* most packets in flight
  RUDP_REORDER_WINDOW,      \* largest distance of a packet kept for reordering
  RUDP_RETRANSMISSION_CAP,  \* retransmissions before the connection is given up
  AckThresholdMin,          \* 2 in the code
  AckThresholdMax,          \* 16 in the code
  Callers,                  \* application threads that call rudp_conn_send
  MaxSends                  \* bound: messages accepted in one behaviour

(***************************************************************************)
(* NoWrap restricts the model to the life of a connection before its       *)
(* sequence numbers reach the end of uint32_t.                             *)
(***************************************************************************)
ASSUME SizesAssumption ==
  /\ UINT32_MAX \in Nat \ {0}
  /\ RUDP_SEND_WINDOW \in Nat \ {0}
  /\ RUDP_REORDER_WINDOW \in Nat
  /\ RUDP_RETRANSMISSION_CAP \in Nat
  /\ MaxSends \in Nat

ASSUME ThresholdAssumption ==
  /\ AckThresholdMin \in Nat \ {0}
  /\ AckThresholdMax \in Nat
  /\ AckThresholdMin <= AckThresholdMax

ASSUME WindowAssumption == RUDP_SEND_WINDOW <= RUDP_REORDER_WINDOW

ASSUME NoWrap == MaxSends + RUDP_REORDER_WINDOW <= UINT32_MAX

ASSUME HalfRange == 2 * RUDP_REORDER_WINDOW < UINT32_MAX

VARIABLES
  (* send half *)
  nsent,              \* messages accepted so far: message m is the m-th one
  current_seq,        \* sequence number of the next packet
  pkts_fhost,         \* packets in flight
  retransmit_count,   \* retransmissions of the packet of each message
  closed,             \* conn->closed on the sending host
  admitted,           \* callers past the test of "closed", not yet locked
  given_up,           \* history: messages dropped at the retransmission cap
  (* network *)
  net_data, net_rack, \* every PACK_DATA, every PACK_RACK sent
  (* receive half *)
  pkts_net,           \* packets passed in and not yet examined
  pkts_reorder_buf,   \* packets ahead of a gap
  last_recved_seq,    \* last packet put in order
  pkts_reordered,     \* queue the application pops
  read,               \* history: packets the application has popped
  packets_since_ack, ack_threshold, last_ack_sent_seq,
  rcv_closed          \* conn->closed on the receiving host

sendVars == <<nsent, current_seq, pkts_fhost, retransmit_count, closed,
              admitted, given_up>>
rcvVars  == <<pkts_net, pkts_reorder_buf, last_recved_seq, pkts_reordered>>
ackVars  == <<packets_since_ack, ack_threshold, last_ack_sent_seq>>
vars     == <<sendVars, net_data, net_rack, rcvVars, ackVars, read, rcv_closed>>

-----------------------------------------------------------------------------
Seqs == 0 .. UINT32_MAX
Msgs == 1 .. MaxSends

(* A protopack, down to what the protocol tells apart. *)
Packet == [seq : Seqs, msg : Msgs]

(* Mutant of Succ: the counter is not advanced. *)
SuccForgotten(s) == s

(* The uint32_t increment. *)
Succ(s) == IF s = UINT32_MAX THEN 0 ELSE s + 1

(* expected, and next_needed, in the receiver; UINT32_MAX means none yet. *)
NextNeeded(last) == IF last = UINT32_MAX THEN 0 ELSE last + 1

(* (int32_t)(a - b): the distance modulo 2^32, read as a signed number. *)
SignedDiff(a, b) ==
  LET d == a - b
  IN  IF 2 * d > UINT32_MAX            THEN d - (UINT32_MAX + 1)
      ELSE IF 2 * d < -(UINT32_MAX + 1) THEN d + (UINT32_MAX + 1)
      ELSE d

(* A packet is kept for reordering unless it is old or too far ahead. *)
InReorderWindow(p) ==
  LET diff == SignedDiff(p.seq, NextNeeded(last_recved_seq))
  IN  diff >= 0 /\ diff <= RUDP_REORDER_WINDOW

Init ==
  /\ nsent = 0
  /\ current_seq = 0
  /\ pkts_fhost = {}
  /\ retransmit_count = [m \in Msgs |-> 0]
  /\ closed = FALSE
  /\ admitted = {}
  /\ given_up = {}
  /\ net_data = {}
  /\ net_rack = {}
  /\ pkts_net = {}
  /\ pkts_reorder_buf = {}
  /\ last_recved_seq = UINT32_MAX
  /\ pkts_reordered = << >>
  /\ read = << >>
  /\ packets_since_ack = 0
  /\ ack_threshold = AckThresholdMin
  /\ last_ack_sent_seq = UINT32_MAX
  /\ rcv_closed = FALSE

-----------------------------------------------------------------------------
(* Send half. *)

(***************************************************************************)
(* rudp_conn_send up to the lock.  A closed connection answers ENOTCONN    *)
(* and changes nothing.                                                    *)
(***************************************************************************)
SendCheck(c) ==
  /\ c \notin admitted
  /\ ~closed
  /\ admitted' = admitted \cup {c}
  /\ UNCHANGED <<nsent, current_seq, pkts_fhost, retransmit_count, closed,
                 given_up, net_data, net_rack, rcvVars, ackVars, read, rcv_closed>>

(* Mutant of WindowFull: the limit is not tested. *)
WindowNeverFull == FALSE

WindowFull == Cardinality(pkts_fhost) >= RUDP_SEND_WINDOW

(* rudp_conn_send under the lock of pkts_fhost, window full: EAGAIN. *)
SendAgain(c) ==
  /\ c \in admitted
  /\ WindowFull
  /\ admitted' = admitted \ {c}
  /\ UNCHANGED <<nsent, current_seq, pkts_fhost, retransmit_count, closed,
                 given_up, net_data, net_rack, rcvVars, ackVars, read, rcv_closed>>

(* rudp_conn_send under the lock, room in the window. *)
SendLocked(c) ==
  /\ c \in admitted
  /\ ~WindowFull
  /\ nsent < MaxSends
  /\ LET pkt == [seq |-> current_seq, msg |-> nsent + 1]
     IN  /\ net_data' = net_data \cup {pkt}
         /\ pkts_fhost' = pkts_fhost \cup {pkt}
         /\ retransmit_count' = [retransmit_count EXCEPT ![nsent + 1] = 0]
  /\ nsent' = nsent + 1
  /\ current_seq' = Succ(current_seq)
  /\ admitted' = admitted \ {c}
  /\ UNCHANGED <<closed, given_up, net_rack, rcvVars, ackVars, read, rcv_closed>>

(* Mutant of Covered: one packet too many is taken as acknowledged. *)
CoveredOneMore(a) == {p \in pkts_fhost : p.seq <= a + 1}

(* A PACK_RACK acknowledges every packet up to its seq. *)
Covered(a) == {p \in pkts_fhost : p.seq <= a}

(* The PACK_RACK branch of _rudp_dispatcher_net_handler. *)
HandleRack(a) ==
  /\ a \in net_rack
  /\ pkts_fhost' = pkts_fhost \ Covered(a)
  /\ UNCHANGED <<nsent, current_seq, retransmit_count, closed, admitted,
                 given_up, net_data, net_rack, rcvVars, ackVars, read, rcv_closed>>

(* Mutant of Capped: one retransmission more. *)
CappedLater == {p \in pkts_fhost : retransmit_count[p.msg] > RUDP_RETRANSMISSION_CAP}

Capped == {p \in pkts_fhost : retransmit_count[p.msg] >= RUDP_RETRANSMISSION_CAP}

(* retransmit_count++ for the packets of due that are sent again. *)
Retransmit(due) ==
  retransmit_count' = [m \in Msgs |->
     IF \E p \in due : p.msg = m THEN retransmit_count[m] + 1
                                 ELSE retransmit_count[m]]

(* Mutant of GiveUp: the connection stays open. *)
GiveUpOpen(p) ==
  /\ pkts_fhost' = pkts_fhost \ {p}
  /\ given_up' = given_up \cup {p.msg}
  /\ UNCHANGED closed

(* Mutant of GiveUp: nothing more is done once the connection is closed. *)
GiveUpOnce(p) ==
  /\ pkts_fhost' = IF closed THEN pkts_fhost ELSE pkts_fhost \ {p}
  /\ given_up' = given_up \cup {p.msg}
  /\ closed' = TRUE

(* A packet at the cap is dropped and the connection closed. *)
GiveUp(p) ==
  /\ pkts_fhost' = pkts_fhost \ {p}
  /\ given_up' = given_up \cup {p.msg}
  /\ closed' = TRUE

(***************************************************************************)
(* _rudp_conn_timeouts: the packets whose backoff has run out are sent     *)
(* again.  At the first packet found at the cap the connection is closed,  *)
(* that packet alone is dropped, and the scan ends; the packets before it  *)
(* in the array may already have been sent again.  A closed connection is  *)
(* still scanned: the dispatcher does not test "closed".                   *)
(***************************************************************************)
Timeouts ==
  \E due \in SUBSET (pkts_fhost \ Capped) :
    /\ Retransmit(due)
    /\ \/ /\ Capped = {}
          /\ due # {}
          /\ UNCHANGED <<pkts_fhost, closed, given_up>>
       \/ \E p \in Capped : GiveUp(p)
    /\ UNCHANGED <<nsent, current_seq, admitted, net_data, net_rack, rcvVars,
                   ackVars, read, rcv_closed>>

-----------------------------------------------------------------------------
(* Receive half.  Packets with the same seq are copies of one packet, so   *)
(* the queue pkts_net is the set of the packets in it: what the code does  *)
(* with them does not depend on their order or number.                     *)

(* Mutant of Deliverable: at most one packet is handed over. *)
DeliverableOne(buf, next, k) == k = 0 \/ (k = 1 /\ \E p \in buf : p.seq = next)

(***************************************************************************)
(* The k packets that follow last in the buffer, which the code keeps      *)
(* sorted: each one must be found at the head, so nothing smaller than it  *)
(* may be left in front of it.                                             *)
(***************************************************************************)
Deliverable(buf, next, k) ==
  \A i \in 0 .. (k - 1) :
    \E p \in buf :
      /\ p.seq = next + i
      /\ \A q \in buf : q.seq < p.seq => q.seq >= next

AtSeq(buf, s) == CHOOSE p \in buf : p.seq = s

(***************************************************************************)
(* _rudp_conn_reordering, called with the expected packet already in       *)
(* pkts_net: examine all of pkts_net, then hand over the run of            *)
(* consecutive packets at the head of the buffer.                          *)
(***************************************************************************)
Reordering(net) ==
  LET next == NextNeeded(last_recved_seq)
      seen == {b.seq : b \in pkts_reorder_buf}
      buf  == pkts_reorder_buf
                \cup {p \in net : InReorderWindow(p) /\ p.seq \notin seen}
  IN  \E k \in 0 .. (RUDP_REORDER_WINDOW + 1) :
        /\ Deliverable(buf, next, k)
        /\ ~ Deliverable(buf, next, k + 1)
        /\ pkts_net' = {}
        /\ pkts_reorder_buf' = {p \in buf : p.seq \notin next .. (next + k - 1)}
        /\ pkts_reordered' = pkts_reordered
                               \o [i \in 1 .. k |-> AtSeq(buf, next + i - 1)]
        /\ last_recved_seq' = IF k = 0 THEN last_recved_seq ELSE next + k - 1

(***************************************************************************)
(* ack_threshold after an acknowledgement: up by two on a fast link, down  *)
(* by one on a slow one, clamped.                                          *)
(***************************************************************************)
NextThresholds ==
  { ack_threshold,
    IF ack_threshold + 2 < AckThresholdMax THEN ack_threshold + 2
                                           ELSE AckThresholdMax,
    IF ack_threshold > AckThresholdMin THEN ack_threshold - 1
                                       ELSE AckThresholdMin }

(***************************************************************************)
(* packets_since_ack is only compared with ack_threshold, so it may stop   *)
(* counting at the largest threshold: the comparison does not change.      *)
(***************************************************************************)
SinceAck == IF packets_since_ack < AckThresholdMax THEN packets_since_ack + 1
                                                   ELSE AckThresholdMax

(* Mutant of ShouldSendAck: one packet more than the threshold. *)
ShouldSendAckLater(unexpected, timer) ==
  \/ unexpected
  \/ SinceAck > ack_threshold
  \/ timer
  \/ last_ack_sent_seq = UINT32_MAX

(* Mutant of ShouldSendAck: a packet out of order or repeated gets no answer. *)
ShouldSendAckInOrder(unexpected, timer) ==
  ~unexpected /\ (SinceAck >= ack_threshold \/ timer \/ last_ack_sent_seq = UINT32_MAX)

(* should_send_ack; timer stands for the two tests of last_ack_timestamp. *)
ShouldSendAck(unexpected, timer) ==
  \/ unexpected
  \/ SinceAck >= ack_threshold
  \/ timer
  \/ last_ack_sent_seq = UINT32_MAX

(***************************************************************************)
(* The acknowledgement part of the PACK_DATA branch, on the value that     *)
(* last_recved_seq has after reordering.                                   *)
(***************************************************************************)
Acknowledge(unexpected) ==
  \E timer \in BOOLEAN :
    IF ShouldSendAck(unexpected, timer) /\ last_recved_seq' # UINT32_MAX
    THEN /\ net_rack' = net_rack \cup {last_recved_seq'}
         /\ last_ack_sent_seq' = last_recved_seq'
         /\ packets_since_ack' = 0
         /\ ack_threshold' \in NextThresholds
    ELSE /\ packets_since_ack' = SinceAck
         /\ UNCHANGED <<net_rack, last_ack_sent_seq, ack_threshold>>

(* The PACK_DATA branch of _rudp_dispatcher_net_handler. *)
HandleData(p) ==
  LET unexpected == p.seq # NextNeeded(last_recved_seq)
  IN  /\ p \in net_data
      /\ \/ /\ unexpected
            /\ pkts_net' = pkts_net \cup {p}
            /\ UNCHANGED <<pkts_reorder_buf, pkts_reordered, last_recved_seq>>
         \/ /\ ~unexpected
            /\ Reordering(pkts_net \cup {p})
      /\ Acknowledge(unexpected)
      /\ UNCHANGED <<sendVars, net_data, read, rcv_closed>>

(* rudp_conn_recv; a closed connection answers ENOTCONN. *)
Recv ==
  /\ ~rcv_closed
  /\ pkts_reordered # << >>
  /\ read' = Append(read, Head(pkts_reordered))
  /\ pkts_reordered' = Tail(pkts_reordered)
  /\ UNCHANGED <<sendVars, net_data, net_rack, pkts_net, pkts_reorder_buf,
                 last_recved_seq, ackVars, rcv_closed>>

(* The retransmission cap of the reverse direction closes this connection. *)
ReverseTimeouts ==
  /\ ~rcv_closed
  /\ rcv_closed' = TRUE
  /\ UNCHANGED <<sendVars, net_data, net_rack, rcvVars, ackVars, read>>

-----------------------------------------------------------------------------
Send == \E c \in Callers : SendCheck(c) \/ SendAgain(c) \/ SendLocked(c)

Next ==
  \/ Send
  \/ \E a \in net_rack : HandleRack(a)
  \/ Timeouts
  \/ \E p \in net_data : HandleData(p)
  \/ Recv
  \/ ReverseTimeouts

Spec == Init /\ [][Next]_vars

(***************************************************************************)
(* Fairness, each liveness property naming what it rests on.  TimerRuns:   *)
(* _rudp_dispatcher_worker wakes at least every 100 ms and then scans      *)
(* every connection, and time passes, so a packet in flight is due sooner  *)
(* or later.  LinkCarries: the network does not cut the link; a copy of    *)
(* each packet sent, and each acknowledgement, keeps getting through.      *)
(***************************************************************************)
TimerRuns == WF_vars(Timeouts)

LinkCarries ==
  /\ \A m \in Msgs : WF_vars(\E p \in net_data : p.msg = m /\ HandleData(p))
  /\ \A a \in Seqs : WF_vars(HandleRack(a))

-----------------------------------------------------------------------------
TypeOK ==
  /\ nsent \in 0 .. MaxSends
  /\ current_seq \in Seqs
  /\ pkts_fhost \subseteq Packet
  /\ retransmit_count \in [Msgs -> 0 .. RUDP_RETRANSMISSION_CAP]
  /\ closed \in BOOLEAN
  /\ admitted \subseteq Callers
  /\ given_up \subseteq Msgs
  /\ net_data \subseteq Packet
  /\ net_rack \subseteq Seqs
  /\ pkts_net \subseteq Packet
  /\ pkts_reorder_buf \subseteq Packet
  /\ last_recved_seq \in Seqs
  /\ pkts_reordered \in Seq(Packet)
  /\ read \in Seq(Packet)
  /\ packets_since_ack \in 0 .. AckThresholdMax
  /\ ack_threshold \in AckThresholdMin .. AckThresholdMax
  /\ last_ack_sent_seq \in Seqs
  /\ rcv_closed \in BOOLEAN

(* What the application has been handed or will pop next, in order. *)
Delivered == read \o pkts_reordered

Pending(m) == \E p \in pkts_fhost : p.msg = m

(***************************************************************************)
(* The application receives the messages in the order rudp_conn_send       *)
(* accepted them: none twice, none skipped (_rudp_conn_reordering).        *)
(***************************************************************************)
InOrderDelivery == \A i \in 1 .. Len(Delivered) : Delivered[i].msg = i

(***************************************************************************)
(* A message leaves pkts_fhost only when the other host has put it in      *)
(* order, or when the retransmission cap has been reached, and then the    *)
(* connection is closed: no acknowledgement, however late or repeated,     *)
(* drops a message that was not delivered (PACK_RACK branch).              *)
(***************************************************************************)
NoSilentLoss ==
  /\ \A m \in 1 .. nsent : Pending(m) \/ m <= Len(Delivered) \/ m \in given_up
  /\ given_up # {} => closed

(***************************************************************************)
(* _rudp_conn_reordering only runs when the expected packet arrives.  That *)
(* is enough: between handlers the packet needed next is never left lying  *)
(* in pkts_net or in pkts_reorder_buf.                                     *)
(***************************************************************************)
HeadNotStuck ==
  \A p \in pkts_net \cup pkts_reorder_buf : p.seq # NextNeeded(last_recved_seq)

(***************************************************************************)
(* While the connection is open the send window keeps every packet not yet *)
(* delivered within reach of the receiver: none is dropped as old or as    *)
(* too far ahead (RUDP_SEND_WINDOW against RUDP_REORDER_WINDOW).           *)
(***************************************************************************)
WithinReach ==
  ~closed => \A p \in net_data : p.msg > Len(Delivered) => InReorderWindow(p)

(***************************************************************************)
(* Once acknowledgements have begun, fewer than ack_threshold packets go   *)
(* unanswered.                                                             *)
(***************************************************************************)
AckCadence ==
  last_ack_sent_seq # UINT32_MAX => packets_since_ack < ack_threshold

(***************************************************************************)
(* The connection is a reliable channel: positions in the stream of        *)
(* accepted messages are what the packets carry.                           *)
(***************************************************************************)
Channel == INSTANCE ReliableChannel WITH
  Window      <- RUDP_SEND_WINDOW,
  Messages    <- Msgs,
  accepted    <- [i \in 1 .. nsent |-> i],
  delivered   <- [i \in 1 .. Len(Delivered) |-> Delivered[i].msg],
  taken       <- Len(read),
  unconfirmed <- {p.msg : p \in pkts_fhost},
  broken      <- closed

(***************************************************************************)
(* The whole of rudp_conn_send, the handlers and the timer, over a network *)
(* that loses, repeats and reorders packets, implements the channel.       *)
(***************************************************************************)
ImplementsChannel == Channel!ChSpec

(***************************************************************************)
(* Every packet in flight leaves pkts_fhost, acknowledged or given up,     *)
(* also on a connection that is already closed.                            *)
(***************************************************************************)
InFlightSettles ==
  TimerRuns => \A m \in Msgs : Pending(m) ~> ~Pending(m)

(***************************************************************************)
(* On a link that keeps carrying copies, every accepted message is         *)
(* delivered and acknowledged unless the connection is closed: a lost or   *)
(* withheld acknowledgement is made good by the answer to a duplicate,     *)
(* whenever the retransmission timer runs.                                 *)
(***************************************************************************)
EventuallyAcknowledged ==
  LinkCarries =>
    \A m \in Msgs : nsent >= m ~> closed \/ (~Pending(m) /\ m <= Len(Delivered))
=============================================================================
