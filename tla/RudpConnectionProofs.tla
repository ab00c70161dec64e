------------------------ MODULE RudpConnectionProofs ------------------------
(***************************************************************************)
(* Theorems about RudpConnection, for every window, cap, threshold and     *)
(* number of callers that satisfy the assumptions of that module.          *)
(***************************************************************************)
EXTENDS RudpConnection, TLAPS, FiniteSetTheorems

(* The number of packets put in order so far. *)
Rcvd == Len(Delivered)

(* A run of packets handed over by _rudp_conn_reordering is a sequence. *)
LEMMA RunIsSeq ==
  ASSUME NEW buf, buf \subseteq Packet, NEW next \in Int, NEW k \in Nat,
         Deliverable(buf, next, k)
  PROVE  /\ [i \in 1 .. k |-> AtSeq(buf, next + i - 1)] \in Seq(Packet)
         /\ \A i \in 1 .. k : /\ AtSeq(buf, next + i - 1) \in buf
                              /\ AtSeq(buf, next + i - 1).seq = next + i - 1
<1>1. ASSUME NEW i \in 1 .. k
      PROVE  /\ AtSeq(buf, next + i - 1) \in buf
             /\ AtSeq(buf, next + i - 1).seq = next + i - 1
  <2>1. i - 1 \in 0 .. (k - 1) /\ next + (i - 1) = next + i - 1
    OBVIOUS
  <2>2. \E p \in buf : p.seq = next + i - 1
    BY <2>1 DEF Deliverable
  <2> QED
    BY <2>2 DEF AtSeq
<1>2. [i \in 1 .. k |-> AtSeq(buf, next + i - 1)] \in [1 .. k -> Packet]
  BY <1>1
<1> QED
  BY <1>1, <1>2

-----------------------------------------------------------------------------
(* Type correctness. *)

LEMMA TypeInit == Init => TypeOK
<1> SUFFICES ASSUME Init PROVE TypeOK
  OBVIOUS
<1>1. pkts_reordered \in Seq(Packet) /\ read \in Seq(Packet)
  BY DEF Init
<1>2. retransmit_count \in [Msgs -> 0 .. RUDP_RETRANSMISSION_CAP]
  BY SizesAssumption DEF Init
<1>3. ack_threshold \in AckThresholdMin .. AckThresholdMax
  BY ThresholdAssumption DEF Init
<1>4. /\ nsent \in 0 .. MaxSends
      /\ current_seq \in Seqs
      /\ last_recved_seq \in Seqs
      /\ packets_since_ack \in 0 .. AckThresholdMax
      /\ last_ack_sent_seq \in Seqs
  BY SizesAssumption, ThresholdAssumption DEF Init, Seqs
<1>5. /\ pkts_fhost = {} /\ admitted = {} /\ given_up = {} /\ net_data = {}
      /\ net_rack = {} /\ pkts_net = {} /\ pkts_reorder_buf = {}
      /\ closed = FALSE /\ rcv_closed = FALSE
  BY DEF Init
<1> QED
  BY <1>1, <1>2, <1>3, <1>4, <1>5 DEF TypeOK

LEMMA TypeAck ==
  ASSUME TypeOK, last_recved_seq' \in Seqs, NEW u \in BOOLEAN, Acknowledge(u)
  PROVE  /\ net_rack' \subseteq Seqs
         /\ packets_since_ack' \in 0 .. AckThresholdMax
         /\ ack_threshold' \in AckThresholdMin .. AckThresholdMax
         /\ last_ack_sent_seq' \in Seqs
  BY ThresholdAssumption DEF TypeOK, Acknowledge, NextThresholds, SinceAck

LEMMA TypeStep == TypeOK /\ [Next]_vars => TypeOK'
<1> SUFFICES ASSUME TypeOK, [Next]_vars PROVE TypeOK'
  OBVIOUS
<1> USE SizesAssumption, ThresholdAssumption
<1>1. ASSUME NEW c \in Callers, SendCheck(c) PROVE TypeOK'
  BY <1>1 DEF TypeOK, SendCheck, rcvVars, ackVars
<1>2. ASSUME NEW c \in Callers, SendAgain(c) PROVE TypeOK'
  BY <1>2 DEF TypeOK, SendAgain, rcvVars, ackVars
<1>3. ASSUME NEW c \in Callers, SendLocked(c) PROVE TypeOK'
  BY <1>3 DEF TypeOK, SendLocked, rcvVars, ackVars, Packet, Succ, Seqs, Msgs
<1>4. ASSUME NEW a \in net_rack, HandleRack(a) PROVE TypeOK'
  BY <1>4 DEF TypeOK, HandleRack, rcvVars, ackVars
<1>5. ASSUME Timeouts PROVE TypeOK'
  <2>1. PICK due \in SUBSET (pkts_fhost \ Capped) :
          /\ Retransmit(due)
          /\ \/ UNCHANGED <<pkts_fhost, closed, given_up>>
             \/ \E p \in Capped : GiveUp(p)
    BY <1>5 DEF Timeouts
  <2>2. retransmit_count' \in [Msgs -> 0 .. RUDP_RETRANSMISSION_CAP]
    <3>1. ASSUME NEW m \in Msgs, NEW p \in due, p.msg = m
          PROVE  retransmit_count[m] + 1 \in 0 .. RUDP_RETRANSMISSION_CAP
      BY <3>1 DEF TypeOK, Capped
    <3>2. \A m \in Msgs : retransmit_count[m] \in 0 .. RUDP_RETRANSMISSION_CAP
      BY DEF TypeOK
    <3> QED
      BY <2>1, <3>1, <3>2 DEF Retransmit
  <2>3. pkts_fhost' \subseteq Packet /\ closed' \in BOOLEAN /\ given_up' \subseteq Msgs
    BY <2>1 DEF TypeOK, Capped, GiveUp, Packet
  <2> QED
    BY <1>5, <2>2, <2>3 DEF TypeOK, Timeouts, rcvVars, ackVars
<1>6. ASSUME NEW p \in net_data, HandleData(p) PROVE TypeOK'
  <2> DEFINE next == NextNeeded(last_recved_seq)
             unexpected == p.seq # next
  <2>1. p \in Packet
    BY DEF TypeOK
  <2>2. /\ pkts_net' \subseteq Packet
        /\ pkts_reorder_buf' \subseteq Packet
        /\ pkts_reordered' \in Seq(Packet)
        /\ last_recved_seq' \in Seqs
    <3>1. CASE unexpected
      BY <1>6, <2>1, <3>1 DEF HandleData, TypeOK
    <3>2. CASE ~unexpected
      <4> DEFINE net == pkts_net \cup {p}
                 seen == {b.seq : b \in pkts_reorder_buf}
                 buf == pkts_reorder_buf
                          \cup {q \in net : InReorderWindow(q) /\ q.seq \notin seen}
      <4>1. Reordering(net)
        BY <1>6, <3>2 DEF HandleData
      <4>2. PICK k \in 0 .. (RUDP_REORDER_WINDOW + 1) :
              /\ Deliverable(buf, next, k)
              /\ pkts_net' = {}
              /\ pkts_reorder_buf' = {q \in buf : q.seq \notin next .. (next + k - 1)}
              /\ pkts_reordered' = pkts_reordered
                               \o [i \in 1 .. k |-> AtSeq(buf, next + i - 1)]
              /\ last_recved_seq' = IF k = 0 THEN last_recved_seq ELSE next + k - 1
        BY <4>1 DEF Reordering
      <4>3. buf \subseteq Packet /\ next \in Int
        BY <2>1 DEF TypeOK, NextNeeded, Seqs
      <4> HIDE DEF buf, next
      <4>4. /\ [i \in 1 .. k |-> AtSeq(buf, next + i - 1)] \in Seq(Packet)
            /\ \A i \in 1 .. k : /\ AtSeq(buf, next + i - 1) \in buf
                                 /\ AtSeq(buf, next + i - 1).seq = next + i - 1
        <5>1. k \in Nat /\ Deliverable(buf, next, k)
          BY <4>2
        <5> QED
          BY <4>3, <5>1, RunIsSeq
      <4>5. last_recved_seq' \in Seqs
        <5>1. CASE k = 0
          BY <4>2, <5>1 DEF TypeOK
        <5>2. CASE k # 0
          <6>1. AtSeq(buf, next + k - 1) \in Packet
            BY <4>3, <4>4, <5>2
          <6> QED
            BY <4>2, <4>4, <5>2, <6>1 DEF Packet
        <5> QED BY <5>1, <5>2
      <4>6. pkts_reordered' \in Seq(Packet)
        BY <4>2, <4>4 DEF TypeOK
      <4> QED
        BY <4>2, <4>3, <4>5, <4>6
    <3> QED BY <3>1, <3>2
  <2>3. /\ net_rack' \subseteq Seqs
        /\ packets_since_ack' \in 0 .. AckThresholdMax
        /\ ack_threshold' \in AckThresholdMin .. AckThresholdMax
        /\ last_ack_sent_seq' \in Seqs
    <3>1. Acknowledge(unexpected)
      BY <1>6 DEF HandleData
    <3> QED
      BY <2>2, <3>1, TypeAck
  <2> QED
    BY <1>6, <2>2, <2>3 DEF TypeOK, HandleData, sendVars
<1>7. ASSUME Recv PROVE TypeOK'
  BY <1>7 DEF TypeOK, Recv, sendVars, ackVars
<1>8. ASSUME ReverseTimeouts PROVE TypeOK'
  BY <1>8 DEF TypeOK, ReverseTimeouts, sendVars, rcvVars, ackVars
<1>9. ASSUME UNCHANGED vars PROVE TypeOK'
  BY <1>9 DEF TypeOK, vars, sendVars, rcvVars, ackVars
<1> QED
  BY <1>1, <1>2, <1>3, <1>4, <1>5, <1>6, <1>7, <1>8, <1>9 DEF Next, Send

(* Every variable of the connection keeps its type. *)
THEOREM TypeCorrect == Spec => []TypeOK
  BY TypeInit, TypeStep, PTL DEF Spec

-----------------------------------------------------------------------------
(* The inductive invariant. *)

(* Before the numbers wrap, the packet of message m has seq m - 1. *)
Numbering ==
  /\ current_seq = nsent
  /\ \A p \in net_data : p.seq = p.msg - 1 /\ p.msg <= nsent
  /\ pkts_fhost \subseteq net_data
  /\ pkts_net \subseteq net_data
  /\ pkts_reorder_buf \subseteq net_data

(* The receiver has handed over the messages 1 .. Rcvd. *)
Prefix ==
  /\ Rcvd <= nsent
  /\ last_recved_seq = IF Rcvd = 0 THEN UINT32_MAX ELSE Rcvd - 1
  /\ InOrderDelivery

(* What is kept is not what is needed next. *)
Waiting ==
  /\ \A p \in pkts_net : p.seq # Rcvd
  /\ \A p \in pkts_reorder_buf : p.seq > Rcvd

(* Only packets put in order are acknowledged. *)
AcksBehind == \A a \in net_rack : a < Rcvd

FlightBounded ==
  IsFiniteSet(pkts_fhost) /\ Cardinality(pkts_fhost) <= RUDP_SEND_WINDOW

IInv == TypeOK /\ Numbering /\ Prefix /\ Waiting /\ AcksBehind /\ NoSilentLoss
          /\ FlightBounded

(* With no wrap, the signed distance test is the plain window test. *)
LEMMA WindowMeaning ==
  ASSUME NEW s \in 0 .. MaxSends, NEW n \in 0 .. MaxSends
  PROVE  LET d == SignedDiff(s, n)
         IN  (d >= 0 /\ d <= RUDP_REORDER_WINDOW)
               <=> (n <= s /\ s <= n + RUDP_REORDER_WINDOW)
  BY SizesAssumption, NoWrap, HalfRange DEF SignedDiff

LEMMA DeliveredType ==
  ASSUME TypeOK
  PROVE  Delivered \in Seq(Packet) /\ Rcvd \in Nat
  BY DEF TypeOK, Delivered, Rcvd

LEMMA NextIsRcvd ==
  ASSUME TypeOK, Prefix
  PROVE  NextNeeded(last_recved_seq) = Rcvd /\ Rcvd \in 0 .. MaxSends
<1>1. Rcvd \in Nat
  BY DeliveredType
<1> QED
  BY <1>1, SizesAssumption, NoWrap DEF TypeOK, Prefix, NextNeeded

(* Popping the queue moves a packet from one part of Delivered to the other. *)
LEMMA RecvKeepsDelivered ==
  ASSUME TypeOK, Recv
  PROVE  Delivered' = Delivered
<1>1. /\ read \in Seq(Packet) /\ pkts_reordered \in Seq(Packet)
      /\ pkts_reordered # << >>
      /\ read' = Append(read, Head(pkts_reordered))
      /\ pkts_reordered' = Tail(pkts_reordered)
  BY DEF TypeOK, Recv
<1>2. ASSUME NEW r \in Seq(Packet), NEW q \in Seq(Packet), q # << >>
      PROVE  Append(r, Head(q)) \o Tail(q) = r \o q
  BY <1>2
<1> QED
  BY <1>1, <1>2 DEF Delivered

(* A run appended to the queue is appended to Delivered. *)
LEMMA RunExtendsDelivered ==
  ASSUME TypeOK, NEW run \in Seq(Packet),
         pkts_reordered' = pkts_reordered \o run, read' = read
  PROVE  /\ Rcvd' = Rcvd + Len(run)
         /\ \A i \in 1 .. Rcvd : Delivered'[i] = Delivered[i]
         /\ \A i \in 1 .. Len(run) : Delivered'[Rcvd + i] = run[i]
<1>1. ASSUME NEW r \in Seq(Packet), NEW q \in Seq(Packet)
      PROVE  /\ Len(r \o (q \o run)) = Len(r \o q) + Len(run)
             /\ \A i \in 1 .. Len(r \o q) : (r \o (q \o run))[i] = (r \o q)[i]
             /\ \A i \in 1 .. Len(run) : (r \o (q \o run))[Len(r \o q) + i] = run[i]
  OBVIOUS
<1> QED
  BY <1>1 DEF TypeOK, Delivered, Rcvd

(***************************************************************************)
(* What _rudp_conn_reordering leaves behind: the stream grows by a run of  *)
(* its next messages, and what is left in the buffer lies beyond a gap.    *)
(***************************************************************************)
LEMMA ReorderingKeeps ==
  ASSUME IInv, NEW p \in net_data, Reordering(pkts_net \cup {p}),
         UNCHANGED <<nsent, current_seq, pkts_fhost, net_data, read>>
  PROVE  Numbering' /\ Prefix' /\ Waiting' /\ Rcvd <= Rcvd'
<1> USE DEF IInv
<1> DEFINE net == pkts_net \cup {p}
           seen == {b.seq : b \in pkts_reorder_buf}
           buf == pkts_reorder_buf
                    \cup {q \in net : InReorderWindow(q) /\ q.seq \notin seen}
<1>0. NextNeeded(last_recved_seq) = Rcvd /\ Rcvd \in 0 .. MaxSends /\ Rcvd \in Nat
  BY NextIsRcvd
<1>1. PICK k \in 0 .. (RUDP_REORDER_WINDOW + 1) :
        /\ Deliverable(buf, Rcvd, k)
        /\ ~ Deliverable(buf, Rcvd, k + 1)
        /\ pkts_net' = {}
        /\ pkts_reorder_buf' = {q \in buf : q.seq \notin Rcvd .. (Rcvd + k - 1)}
        /\ pkts_reordered' = pkts_reordered
                               \o [i \in 1 .. k |-> AtSeq(buf, Rcvd + i - 1)]
        /\ last_recved_seq' = IF k = 0 THEN last_recved_seq ELSE Rcvd + k - 1
  BY <1>0 DEF Reordering
<1>2. buf \subseteq net_data
  BY DEF Numbering
<1>3. \A q \in net_data : q \in Packet /\ q.seq \in 0 .. MaxSends /\ q.msg \in Msgs
  BY SizesAssumption DEF TypeOK, Numbering, Packet, Msgs, Seqs
<1>4. \A q \in buf : q.seq >= Rcvd
  <2>1. \A q \in pkts_reorder_buf : q.seq >= Rcvd
    BY <1>0, <1>3 DEF Waiting, Numbering
  <2>2. ASSUME NEW q \in net, InReorderWindow(q) PROVE q.seq >= Rcvd
    <3>1. q \in net_data
      BY DEF Numbering
    <3> QED
      BY <1>0, <1>3, <2>2, <3>1, WindowMeaning DEF InReorderWindow
  <2> QED
    BY <2>1, <2>2
<1> HIDE DEF buf
<1> DEFINE run == [i \in 1 .. k |-> AtSeq(buf, Rcvd + i - 1)]
<1>5. /\ run \in Seq(Packet) /\ Len(run) = k
      /\ \A i \in 1 .. k : run[i] \in net_data /\ run[i].seq = Rcvd + i - 1
  <2>1. buf \subseteq Packet /\ k \in Nat /\ Rcvd \in Int /\ Deliverable(buf, Rcvd, k)
    BY <1>0, <1>1, <1>2, <1>3, SizesAssumption
  <2>2. /\ run \in Seq(Packet)
        /\ \A i \in 1 .. k : /\ AtSeq(buf, Rcvd + i - 1) \in buf
                             /\ AtSeq(buf, Rcvd + i - 1).seq = Rcvd + i - 1
    BY <2>1, RunIsSeq
  <2> QED
    BY <1>2, <2>1, <2>2
<1> HIDE DEF run
<1>6. /\ Rcvd' = Rcvd + k
      /\ \A i \in 1 .. Rcvd : Delivered'[i] = Delivered[i]
      /\ \A i \in 1 .. k : Delivered'[Rcvd + i] = run[i]
  <2>1. pkts_reordered' = pkts_reordered \o run
    BY <1>1 DEF run
  <2> QED
    BY <1>5, <2>1, RunExtendsDelivered
<1>7. k \in Nat
  BY SizesAssumption
<1>8. Numbering'
  BY <1>1, <1>2 DEF Numbering
<1>9. Prefix'
  <2>1. Rcvd' <= nsent'
    <3>1. CASE k = 0
      BY <1>0, <1>6, <3>1 DEF Prefix
    <3>2. CASE k # 0
      <4>1. run[k] \in net_data /\ run[k].seq = Rcvd + k - 1
        BY <1>5, <1>7, <3>2
      <4>2. /\ run[k].msg \in Msgs /\ run[k].msg <= nsent
            /\ run[k].seq = run[k].msg - 1
        BY <1>3, <4>1 DEF Numbering
      <4>3. nsent \in Nat /\ nsent' = nsent
        BY DEF TypeOK
      <4> QED
        BY <1>0, <1>6, <1>7, <4>1, <4>2, <4>3 DEF Msgs
    <3> QED BY <3>1, <3>2
  <2>2. last_recved_seq' = IF Rcvd' = 0 THEN UINT32_MAX ELSE Rcvd' - 1
    BY <1>0, <1>1, <1>6, <1>7 DEF Prefix
  <2>3. InOrderDelivery'
    <3>1. ASSUME NEW i \in 1 .. Rcvd' PROVE Delivered'[i].msg = i
      <4>1. CASE i <= Rcvd
        BY <1>0, <1>6, <4>1 DEF Prefix, InOrderDelivery, Rcvd
      <4>2. CASE i > Rcvd
        <5>1. i - Rcvd \in 1 .. k /\ i = Rcvd + (i - Rcvd)
          BY <1>0, <1>6, <1>7, <4>2
        <5>2. Delivered'[i] = run[i - Rcvd]
          BY <1>6, <5>1
        <5>3. run[i - Rcvd] \in net_data /\ run[i - Rcvd].seq = Rcvd + (i - Rcvd) - 1
          BY <1>5, <5>1
        <5>4. run[i - Rcvd].seq = i - 1
          BY <1>0, <1>7, <5>1, <5>3
        <5>5. run[i - Rcvd].seq = run[i - Rcvd].msg - 1 /\ run[i - Rcvd].msg \in Msgs
          BY <1>3, <5>3 DEF Numbering
        <5> QED
          BY <1>0, <1>6, <1>7, <5>2, <5>4, <5>5 DEF Msgs
      <4> QED BY <1>0, <1>6, <1>7, <4>1, <4>2
    <3> QED
      BY <3>1 DEF InOrderDelivery, Rcvd
  <2> QED
    BY <2>1, <2>2, <2>3 DEF Prefix
<1>10. Waiting'
  <2>1. ASSUME NEW q \in pkts_reorder_buf' PROVE q.seq > Rcvd'
    <3>1. q \in buf /\ q.seq \notin Rcvd .. (Rcvd + k - 1) /\ q.seq >= Rcvd /\ q.seq \in Nat
      BY <1>1, <1>2, <1>3, <1>4
    <3>2. q.seq # Rcvd + k
      <4>1. SUFFICES ASSUME q.seq = Rcvd + k PROVE Deliverable(buf, Rcvd, k + 1)
        BY <1>1
      <4>2. ASSUME NEW i \in 0 .. k
            PROVE  \E b \in buf : /\ b.seq = Rcvd + i
                                  /\ \A c \in buf : c.seq < b.seq => c.seq >= Rcvd
        <5>1. CASE i = k
          BY <1>4, <3>1, <4>1, <5>1
        <5>2. CASE i # k
          <6>1. i \in 0 .. (k - 1)
            BY <1>7, <5>2
          <6> QED
            BY <1>1, <6>1 DEF Deliverable
        <5> QED BY <5>1, <5>2
      <4> QED
        BY <1>7, <4>2 DEF Deliverable
    <3> QED
      BY <1>0, <1>6, <1>7, <3>1, <3>2
  <2> QED
    BY <1>1, <2>1 DEF Waiting
<1> QED
  BY <1>0, <1>6, <1>7, <1>8, <1>9, <1>10

LEMMA IInvInit == Init => IInv
<1> SUFFICES ASSUME Init PROVE IInv
  OBVIOUS
<1>1. TypeOK
  BY TypeInit
<1>2. Rcvd = 0
  BY DEF Init, Rcvd, Delivered
<1>3. Numbering /\ Waiting /\ AcksBehind
  BY DEF Init, Numbering, Waiting, AcksBehind
<1>4. Prefix
  BY <1>2 DEF Init, Prefix, InOrderDelivery, Rcvd
<1>5. NoSilentLoss
  BY DEF Init, NoSilentLoss
<1>6. FlightBounded
  BY FS_EmptySet, SizesAssumption DEF Init, FlightBounded
<1> QED
  BY <1>1, <1>3, <1>4, <1>5, <1>6 DEF IInv

(* A step that leaves the receive half alone leaves these parts alone. *)
LEMMA ReceiverUntouched ==
  ASSUME IInv, UNCHANGED <<rcvVars, read>>
  PROVE  Delivered' = Delivered /\ Rcvd' = Rcvd
  BY DEF rcvVars, Delivered, Rcvd

LEMMA SendLockedKeeps ==
  ASSUME IInv, TypeOK', NEW c \in Callers, SendLocked(c)
  PROVE  IInv'
<1> USE DEF IInv
<1> DEFINE pkt == [seq |-> current_seq, msg |-> nsent + 1]
<1>1. /\ net_data' = net_data \cup {pkt}
      /\ pkts_fhost' = pkts_fhost \cup {pkt}
      /\ nsent' = nsent + 1 /\ nsent \in Nat /\ nsent < MaxSends
      /\ current_seq' = nsent + 1
      /\ UNCHANGED <<closed, given_up, net_rack, rcvVars, read>>
  BY SizesAssumption, NoWrap DEF SendLocked, TypeOK, Numbering, Succ
<1>2. Delivered' = Delivered /\ Rcvd' = Rcvd /\ Rcvd \in Nat
  BY <1>1, ReceiverUntouched, DeliveredType
<1>3. pkt.seq = nsent /\ pkt.msg = nsent + 1
  BY DEF Numbering
<1> HIDE DEF pkt
<1>4. Numbering'
  <2>1. \A p \in net_data' : p.seq = p.msg - 1 /\ p.msg <= nsent'
    <3>1. ASSUME NEW p \in net_data PROVE p.msg \in Int
      BY DEF TypeOK, Packet, Msgs
    <3> QED
      BY <1>1, <1>3, <3>1 DEF Numbering
  <2> QED
    BY <1>1, <2>1 DEF Numbering, rcvVars
<1>5. Prefix' /\ Waiting' /\ AcksBehind'
  BY <1>1, <1>2 DEF Prefix, Waiting, AcksBehind, InOrderDelivery, rcvVars
<1>6. NoSilentLoss'
  <2>1. ASSUME NEW m \in 1 .. nsent'
        PROVE  Pending(m)' \/ m <= Len(Delivered)' \/ m \in given_up'
    <3>1. CASE m = nsent + 1
      BY <1>1, <1>3, <3>1 DEF Pending
    <3>2. CASE m \in 1 .. nsent
      BY <1>1, <1>2, <3>2 DEF NoSilentLoss, Pending
    <3> QED BY <1>1, <3>1, <3>2
  <2> QED
    BY <1>1, <2>1 DEF NoSilentLoss
<1>7. FlightBounded'
  <2>1. Cardinality(pkts_fhost) < RUDP_SEND_WINDOW /\ IsFiniteSet(pkts_fhost)
        /\ Cardinality(pkts_fhost) \in Nat
    BY FS_CardinalityType, SizesAssumption DEF SendLocked, WindowFull, FlightBounded
  <2>2. /\ IsFiniteSet(pkts_fhost \cup {pkt})
        /\ \/ Cardinality(pkts_fhost \cup {pkt}) = Cardinality(pkts_fhost)
           \/ Cardinality(pkts_fhost \cup {pkt}) = Cardinality(pkts_fhost) + 1
    BY <2>1, FS_AddElement
  <2> QED
    BY <1>1, <2>1, <2>2, SizesAssumption DEF FlightBounded
<1> QED
  BY <1>4, <1>5, <1>6, <1>7

(* Removing packets from pkts_fhost keeps it within the window. *)
LEMMA ShrinkingFlight ==
  ASSUME FlightBounded, pkts_fhost' \subseteq pkts_fhost
  PROVE  FlightBounded'
<1>1. /\ IsFiniteSet(pkts_fhost')
      /\ Cardinality(pkts_fhost') <= Cardinality(pkts_fhost)
      /\ Cardinality(pkts_fhost) \in Nat /\ Cardinality(pkts_fhost') \in Nat
  BY FS_Subset, FS_CardinalityType DEF FlightBounded
<1> QED
  BY <1>1, SizesAssumption DEF FlightBounded

LEMMA HandleRackKeeps ==
  ASSUME IInv, TypeOK', NEW a \in net_rack, HandleRack(a)
  PROVE  IInv'
<1> USE DEF IInv
<1>1. /\ pkts_fhost' = pkts_fhost \ Covered(a)
      /\ UNCHANGED <<nsent, current_seq, closed, given_up, net_data, net_rack,
                     rcvVars, read>>
  BY DEF HandleRack
<1>2. Delivered' = Delivered /\ Rcvd' = Rcvd /\ Rcvd \in Nat
  BY <1>1, ReceiverUntouched, DeliveredType
<1>3. Numbering' /\ Prefix' /\ Waiting' /\ AcksBehind'
  BY <1>1, <1>2 DEF Numbering, Prefix, Waiting, AcksBehind, InOrderDelivery, rcvVars
<1>4. ASSUME NEW p \in Covered(a) PROVE p.msg <= Rcvd
  <2>1. p \in net_data /\ p.seq <= a /\ a < Rcvd
    BY DEF Covered, AcksBehind, Numbering
  <2>2. p.seq = p.msg - 1 /\ p.msg \in Int /\ a \in Int
    BY <2>1, SizesAssumption, SMTT(30) DEF Numbering, TypeOK, Packet, Msgs, Seqs
  <2> QED
    BY <1>2, <2>1, <2>2
<1>5. NoSilentLoss'
  <2>1. ASSUME NEW m \in 1 .. nsent
        PROVE  Pending(m)' \/ m <= Len(Delivered)' \/ m \in given_up'
    <3>1. CASE Pending(m)
      BY <1>1, <1>2, <1>4, <3>1 DEF Pending, Rcvd
    <3>2. CASE ~Pending(m)
      BY <1>1, <1>2, <3>2 DEF NoSilentLoss
    <3> QED BY <3>1, <3>2
  <2> QED
    BY <1>1, <2>1 DEF NoSilentLoss
<1>6. FlightBounded'
  BY <1>1, ShrinkingFlight
<1> QED
  BY <1>3, <1>5, <1>6

LEMMA TimeoutsKeeps ==
  ASSUME IInv, TypeOK', Timeouts
  PROVE  IInv'
<1> USE DEF IInv
<1>1. /\ UNCHANGED <<nsent, current_seq, net_data, net_rack, rcvVars, read>>
      /\ \/ UNCHANGED <<pkts_fhost, closed, given_up>>
         \/ \E p \in Capped : GiveUp(p)
  BY DEF Timeouts
<1>2. Delivered' = Delivered /\ Rcvd' = Rcvd
  BY <1>1, ReceiverUntouched
<1>3. pkts_fhost' \subseteq pkts_fhost
  BY <1>1 DEF GiveUp
<1>4. Numbering' /\ Prefix' /\ Waiting' /\ AcksBehind'
  BY <1>1, <1>2, <1>3
     DEF Numbering, Prefix, Waiting, AcksBehind, InOrderDelivery, rcvVars
<1>5. NoSilentLoss'
  <2>1. CASE UNCHANGED <<pkts_fhost, closed, given_up>>
    BY <1>1, <1>2, <2>1 DEF NoSilentLoss, Pending
  <2>2. ASSUME NEW p \in Capped, GiveUp(p) PROVE NoSilentLoss'
    <3>1. /\ pkts_fhost' = pkts_fhost \ {p}
          /\ given_up' = given_up \cup {p.msg}
          /\ closed' = TRUE
      BY <2>2 DEF GiveUp
    <3> QED
      BY <1>1, <1>2, <3>1 DEF NoSilentLoss, Pending
  <2> QED BY <1>1, <2>1, <2>2
<1>6. FlightBounded'
  BY <1>3, ShrinkingFlight
<1> QED
  BY <1>4, <1>5, <1>6

(* What the PACK_DATA branch does to the stream. *)
LEMMA HandleDataStream ==
  ASSUME IInv, NEW p \in net_data, HandleData(p)
  PROVE  Numbering' /\ Prefix' /\ Waiting' /\ Rcvd <= Rcvd'
<1> USE DEF IInv
<1> DEFINE unexpected == p.seq # NextNeeded(last_recved_seq)
<1>1. UNCHANGED <<nsent, current_seq, pkts_fhost, net_data, read>>
  BY DEF HandleData, sendVars
<1>2. NextNeeded(last_recved_seq) = Rcvd /\ Rcvd \in Nat
  BY NextIsRcvd
<1>3. CASE unexpected
  <2>1. /\ pkts_net' = pkts_net \cup {p}
        /\ UNCHANGED <<pkts_reorder_buf, pkts_reordered, last_recved_seq>>
    BY <1>3 DEF HandleData
  <2>2. Delivered' = Delivered /\ Rcvd' = Rcvd
    BY <1>1, <2>1 DEF Delivered, Rcvd
  <2> QED
    BY <1>1, <1>2, <1>3, <2>1, <2>2
       DEF Numbering, Prefix, Waiting, InOrderDelivery
<1>4. CASE ~unexpected
  BY <1>1, <1>4, ReorderingKeeps DEF HandleData
<1> QED BY <1>3, <1>4

LEMMA HandleDataKeeps ==
  ASSUME IInv, TypeOK', NEW p \in net_data, HandleData(p)
  PROVE  IInv'
<1> USE DEF IInv
<1>1. /\ UNCHANGED <<nsent, current_seq, pkts_fhost, closed, given_up, net_data, read>>
      /\ \E u \in BOOLEAN : Acknowledge(u)
  BY DEF HandleData, sendVars
<1>2. Rcvd \in Nat
  BY DeliveredType
<1>3. Rcvd' \in Nat
  BY DeliveredType DEF Rcvd, TypeOK, Delivered
<1>4. Numbering' /\ Prefix' /\ Waiting' /\ Rcvd <= Rcvd'
  BY HandleDataStream
<1>5. AcksBehind'
  <2>1. \/ net_rack' = net_rack
        \/ last_recved_seq' # UINT32_MAX /\ net_rack' = net_rack \cup {last_recved_seq'}
    BY <1>1 DEF Acknowledge
  <2>2. \A a \in net_rack : a \in Int /\ a < Rcvd'
    BY <1>2, <1>3, <1>4 DEF AcksBehind, TypeOK, Seqs
  <2>3. ASSUME last_recved_seq' # UINT32_MAX PROVE last_recved_seq' < Rcvd'
    <3>1. last_recved_seq' = IF Rcvd' = 0 THEN UINT32_MAX ELSE Rcvd' - 1
      BY <1>4 DEF Prefix
    <3>2. last_recved_seq' = Rcvd' - 1
      BY <2>3, <3>1
    <3>3. \A r \in Nat : r - 1 < r
      OBVIOUS
    <3> QED
      BY <1>3, <3>2, <3>3
  <2> QED
    BY <2>1, <2>2, <2>3 DEF AcksBehind
<1>6. NoSilentLoss'
  <2>1. Len(Delivered) \in Nat /\ Len(Delivered)' \in Nat /\ Len(Delivered) <= Len(Delivered)'
    BY <1>2, <1>3, <1>4 DEF Rcvd
  <2>2. ASSUME NEW m \in 1 .. nsent
        PROVE  Pending(m)' \/ m <= Len(Delivered)' \/ m \in given_up'
    BY <1>1, <2>1 DEF NoSilentLoss, Pending
  <2> QED
    BY <1>1, <2>2 DEF NoSilentLoss
<1>7. FlightBounded'
  BY <1>1 DEF FlightBounded
<1> QED
  BY <1>4, <1>5, <1>6, <1>7

(* The steps that change neither pkts_fhost nor what has been put in order. *)
LEMMA OthersKeep ==
  ASSUME IInv, TypeOK', Delivered' = Delivered,
         UNCHANGED <<nsent, current_seq, pkts_fhost, closed, given_up, net_data,
                     net_rack, pkts_net, pkts_reorder_buf, last_recved_seq>>
  PROVE  IInv'
<1>1. Rcvd' = Rcvd
  BY DEF Rcvd
<1>2. Numbering' /\ Prefix' /\ Waiting' /\ AcksBehind'
  BY <1>1 DEF IInv, Numbering, Prefix, Waiting, AcksBehind, InOrderDelivery
<1>3. NoSilentLoss' /\ FlightBounded'
  BY DEF IInv, NoSilentLoss, Pending, FlightBounded
<1> QED
  BY <1>2, <1>3 DEF IInv

LEMMA IInvStep == IInv /\ [Next]_vars => IInv'
<1> SUFFICES ASSUME IInv, [Next]_vars PROVE IInv'
  OBVIOUS
<1>0. TypeOK /\ TypeOK'
  BY TypeStep DEF IInv
<1>1. ASSUME NEW c \in Callers, SendCheck(c) \/ SendAgain(c) PROVE IInv'
  <2>1. Delivered' = Delivered
    BY <1>1 DEF SendCheck, SendAgain, rcvVars, Delivered
  <2> QED
    BY <1>0, <1>1, <2>1, OthersKeep DEF SendCheck, SendAgain, rcvVars
<1>2. ASSUME NEW c \in Callers, SendLocked(c) PROVE IInv'
  BY <1>0, <1>2, SendLockedKeeps
<1>3. ASSUME NEW a \in net_rack, HandleRack(a) PROVE IInv'
  BY <1>0, <1>3, HandleRackKeeps
<1>4. CASE Timeouts
  BY <1>0, <1>4, TimeoutsKeeps
<1>5. ASSUME NEW p \in net_data, HandleData(p) PROVE IInv'
  BY <1>0, <1>5, HandleDataKeeps
<1>6. CASE Recv
  <2>1. Delivered' = Delivered
    BY <1>0, <1>6, RecvKeepsDelivered
  <2> QED
    BY <1>0, <1>6, <2>1, OthersKeep DEF Recv, sendVars
<1>7. CASE ReverseTimeouts
  <2>1. Delivered' = Delivered
    BY <1>7 DEF ReverseTimeouts, rcvVars, Delivered
  <2> QED
    BY <1>0, <1>7, <2>1, OthersKeep DEF ReverseTimeouts, sendVars, rcvVars
<1>8. CASE UNCHANGED vars
  <2>1. Delivered' = Delivered
    BY <1>8 DEF vars, rcvVars, Delivered
  <2> QED
    BY <1>0, <1>8, <2>1, OthersKeep DEF vars, sendVars, rcvVars
<1> QED
  BY <1>1, <1>2, <1>3, <1>4, <1>5, <1>6, <1>7, <1>8 DEF Next, Send

(* The invariant above holds of every reachable state. *)
THEOREM Invariance == Spec => []IInv
  BY IInvInit, IInvStep, PTL DEF Spec

(* rudp_conn_recv returns the messages in order, none twice, none skipped. *)
THEOREM DeliveryInOrder == Spec => []InOrderDelivery
<1>1. IInv => InOrderDelivery
  BY DEF IInv, Prefix
<1> QED
  BY <1>1, Invariance, PTL

(* A message is forgotten only when delivered, or given up in closing. *)
THEOREM LossIsNeverSilent == Spec => []NoSilentLoss
<1>1. IInv => NoSilentLoss
  BY DEF IInv
<1> QED
  BY <1>1, Invariance, PTL

(* Reordering on the expected packet alone never leaves that packet behind. *)
THEOREM HeadIsNeverStuck == Spec => []HeadNotStuck
<1>1. ASSUME IInv PROVE HeadNotStuck
  <2>1. NextNeeded(last_recved_seq) = Rcvd /\ Rcvd \in Nat
    BY <1>1, NextIsRcvd DEF IInv
  <2>2. \A p \in pkts_reorder_buf : p.seq # Rcvd
    BY <1>1, <2>1 DEF IInv, Waiting
  <2> QED
    BY <1>1, <2>1, <2>2 DEF IInv, Waiting, HeadNotStuck
<1> QED
  BY <1>1, Invariance, PTL

(***************************************************************************)
(* The send window keeps every undelivered packet of an open connection    *)
(* inside the receiver's reordering window: on an open connection every    *)
(* undelivered message is in flight, and at most RUDP_SEND_WINDOW are.     *)
(***************************************************************************)
THEOREM ReachIsKept == Spec => []WithinReach
<1>1. ASSUME IInv PROVE WithinReach
  <2> SUFFICES ASSUME ~closed, NEW p \in net_data, p.msg > Len(Delivered)
               PROVE  InReorderWindow(p)
    BY DEF WithinReach
  <2>1. NextNeeded(last_recved_seq) = Rcvd /\ Rcvd \in 0 .. MaxSends
    BY <1>1, NextIsRcvd DEF IInv
  <2>2. p.seq = p.msg - 1 /\ p.msg \in Msgs /\ p.msg <= nsent /\ nsent \in 0 .. MaxSends
    BY <1>1 DEF IInv, Numbering, TypeOK, Packet
  <2>3. nsent - Rcvd <= RUDP_SEND_WINDOW
    <3> DEFINE undelivered == (Rcvd + 1) .. nsent
               flying == {q.msg : q \in pkts_fhost}
    <3>1. undelivered \subseteq flying
      <4>1. ASSUME NEW m \in undelivered PROVE Pending(m)
        <5>1. m \in 1 .. nsent /\ ~(m <= Len(Delivered))
          BY <2>1 DEF Rcvd
        <5>2. given_up = {}
          BY <1>1 DEF IInv, NoSilentLoss
        <5> QED
          BY <1>1, <5>1, <5>2 DEF IInv, NoSilentLoss
      <4> QED
        BY <4>1 DEF Pending
    <3>2. IsFiniteSet(flying) /\ Cardinality(flying) <= Cardinality(pkts_fhost)
      <4> DEFINE msgOf == [q \in pkts_fhost |-> q.msg]
      <4>1. IsFiniteSet(pkts_fhost)
        BY <1>1 DEF IInv, FlightBounded
      <4>2. msgOf \in Surjection(pkts_fhost, flying)
        BY DEF Surjection
      <4> HIDE DEF msgOf, flying
      <4> QED
        BY <4>1, <4>2, FS_Surjection
    <3>3. Cardinality(undelivered) <= Cardinality(flying)
      BY <3>1, <3>2, FS_Subset
    <3>4. Cardinality(undelivered) = IF Rcvd + 1 > nsent THEN 0 ELSE nsent - (Rcvd + 1) + 1
      BY <2>1, <2>2, FS_Interval
    <3>5. Cardinality(pkts_fhost) <= RUDP_SEND_WINDOW /\ IsFiniteSet(pkts_fhost)
      BY <1>1 DEF IInv, FlightBounded
    <3>6. Cardinality(pkts_fhost) \in Nat /\ Cardinality(flying) \in Nat
      BY <3>2, <3>5, FS_CardinalityType
    <3> HIDE DEF undelivered, flying
    <3> QED
      BY <2>1, <2>2, <3>2, <3>3, <3>4, <3>5, <3>6, SizesAssumption
  <2>4. p.seq \in 0 .. MaxSends /\ Rcvd <= p.seq /\ p.seq <= Rcvd + RUDP_REORDER_WINDOW
    BY <2>1, <2>2, <2>3, SizesAssumption, WindowAssumption DEF Rcvd, Msgs
  <2> QED
    BY <2>1, <2>4, WindowMeaning DEF InReorderWindow
<1> QED
  BY <1>1, Invariance, PTL

(* No acknowledgement is sent before a packet has been put in order. *)
AckStarted == last_ack_sent_seq # UINT32_MAX => Rcvd > 0

LEMMA CadenceStep ==
  ASSUME IInv, IInv', AckStarted, AckCadence, [Next]_vars
  PROVE  AckStarted' /\ AckCadence'
<1>1. CASE UNCHANGED ackVars /\ Rcvd' = Rcvd
  BY <1>1 DEF AckCadence, AckStarted, ackVars
<1>2. ASSUME NEW p \in net_data, HandleData(p) PROVE AckStarted' /\ AckCadence'
  <2>1. PICK u \in BOOLEAN : Acknowledge(u)
    BY <1>2 DEF HandleData
  <2>2. PICK timer \in BOOLEAN :
          IF ShouldSendAck(u, timer) /\ last_recved_seq' # UINT32_MAX
          THEN /\ packets_since_ack' = 0
               /\ ack_threshold' \in NextThresholds
          ELSE /\ packets_since_ack' = SinceAck
               /\ UNCHANGED <<last_ack_sent_seq, ack_threshold>>
    BY <2>1 DEF Acknowledge
  <2>3. /\ Rcvd \in Nat /\ Rcvd' \in Nat /\ Rcvd <= Rcvd'
        /\ last_recved_seq' = IF Rcvd' = 0 THEN UINT32_MAX ELSE Rcvd' - 1
        /\ Rcvd' <= UINT32_MAX
    <3>1. Rcvd \in Nat /\ Rcvd' \in Nat
      BY DeliveredType DEF IInv, TypeOK, Rcvd, Delivered
    <3>2. Rcvd' <= nsent' /\ nsent' \in 0 .. MaxSends
      BY DEF IInv, Prefix, TypeOK
    <3>3. Rcvd <= Rcvd' /\ last_recved_seq' = IF Rcvd' = 0 THEN UINT32_MAX ELSE Rcvd' - 1
      BY <1>2, HandleDataStream DEF Prefix
    <3>4. \A r \in Nat, n \in 0 .. MaxSends : r <= n => r <= UINT32_MAX
      BY SizesAssumption, NoWrap
    <3> QED
      BY <3>1, <3>2, <3>3, <3>4
  <2>4. \A r \in Nat, t \in Nat : r <= t /\ t <= UINT32_MAX /\ r > 0
          => t > 0 /\ t # 0 /\ t - 1 # UINT32_MAX
    BY SizesAssumption
  <2>5. Rcvd > 0 => last_recved_seq' # UINT32_MAX /\ Rcvd' > 0
    BY <2>3, <2>4
  <2>6. last_recved_seq' # UINT32_MAX => Rcvd' > 0
    BY <2>3
  <2>7. AckStarted'
    BY <2>1, <2>5, <2>6 DEF AckStarted, Acknowledge
  <2>8. AckCadence'
    <3>1. CASE ShouldSendAck(u, timer) /\ last_recved_seq' # UINT32_MAX
      BY <2>2, <3>1, ThresholdAssumption DEF AckCadence, IInv, TypeOK
    <3>2. CASE ~ShouldSendAck(u, timer)
      BY <2>2, <3>2, ThresholdAssumption
         DEF AckCadence, IInv, TypeOK, SinceAck, ShouldSendAck
    <3>3. CASE last_recved_seq' = UINT32_MAX
      BY <2>2, <2>5, <3>3 DEF AckStarted, AckCadence
    <3> QED BY <3>1, <3>2, <3>3
  <2> QED BY <2>7, <2>8
<1>3. ASSUME Recv PROVE UNCHANGED ackVars /\ Rcvd' = Rcvd
  BY <1>3, RecvKeepsDelivered DEF IInv, Recv, Rcvd
<1>4. ASSUME UNCHANGED <<ackVars, rcvVars, read>> PROVE UNCHANGED ackVars /\ Rcvd' = Rcvd
  BY <1>4, ReceiverUntouched
<1> QED
  BY <1>1, <1>2, <1>3, <1>4
     DEF Next, Send, SendCheck, SendAgain, SendLocked, HandleRack, Timeouts,
         ReverseTimeouts, vars

(* Acknowledgements keep the pace the threshold sets. *)
THEOREM CadenceIsKept == Spec => []AckCadence
<1>1. Init => AckStarted /\ AckCadence
  BY DEF Init, AckStarted, AckCadence
<1> QED
  BY <1>1, CadenceStep, Invariance, PTL DEF Spec

-----------------------------------------------------------------------------
(* The connection implements the reliable channel. *)

(* The messages 1 .. n, the stream after n of them. *)
UpTo(n) == [i \in 1 .. n |-> i]

LEMMA UpToFacts ==
  ASSUME NEW n \in Nat
  PROVE  /\ UpTo(n) \in Seq(Nat) /\ Len(UpTo(n)) = n
         /\ UpTo(n + 1) = Append(UpTo(n), n + 1)
         /\ \A k \in 0 .. n : UpTo(k) = SubSeq(UpTo(n), 1, k)
<1>1. UpTo(n) \in Seq(Nat) /\ Len(UpTo(n)) = n
  BY DEF UpTo
<1>2. UpTo(n + 1) = Append(UpTo(n), n + 1)
  BY DEF UpTo
<1>3. ASSUME NEW k \in 0 .. n PROVE UpTo(k) = SubSeq(UpTo(n), 1, k)
  BY DEF UpTo
<1> QED
  BY <1>1, <1>2, <1>3

(* The refinement mapping, in terms of the invariant. *)
Flying == {p.msg : p \in pkts_fhost}
Handed == [i \in 1 .. Len(Delivered) |-> Delivered[i].msg]

LEMMA HandedIsUpTo ==
  ASSUME IInv
  PROVE  Handed = UpTo(Rcvd) /\ Rcvd \in Nat /\ nsent \in Nat /\ Rcvd <= nsent
<1>1. Rcvd \in Nat
  BY DeliveredType DEF IInv
<1>2. Handed = UpTo(Rcvd)
  BY DEF IInv, Prefix, InOrderDelivery, Handed, UpTo, Rcvd
<1> QED
  BY <1>1, <1>2 DEF IInv, Prefix, TypeOK

LEMMA FlyingBound ==
  ASSUME FlightBounded
  PROVE  /\ IsFiniteSet(Flying) /\ Cardinality(Flying) \in Nat
         /\ Cardinality(pkts_fhost) \in Nat
         /\ Cardinality(Flying) <= Cardinality(pkts_fhost)
<1> DEFINE msgOf == [q \in pkts_fhost |-> q.msg]
<1>1. IsFiniteSet(pkts_fhost)
  BY DEF FlightBounded
<1>2. msgOf \in Surjection(pkts_fhost, Flying)
  BY DEF Surjection, Flying
<1> HIDE DEF msgOf
<1> QED
  BY <1>1, <1>2, FS_Surjection, FS_CardinalityType

LEMMA ChannelInit == Init => Channel!ChInit
<1> SUFFICES ASSUME Init PROVE Channel!ChInit
  OBVIOUS
<1>1. nsent = 0 /\ Len(Delivered) = 0 /\ Len(read) = 0 /\ pkts_fhost = {} /\ closed = FALSE
  BY DEF Init, Delivered
<1>2. [i \in 1 .. nsent |-> i] = << >> /\ [i \in 1 .. Len(Delivered) |-> Delivered[i].msg] = << >>
  BY <1>1
<1> QED
  BY <1>1, <1>2 DEF Channel!ChInit

LEMMA ChannelStep ==
  ASSUME IInv, IInv', [Next]_vars
  PROVE  [Channel!ChNext]_(Channel!chVars)
<1>0. /\ Handed = UpTo(Rcvd) /\ Rcvd \in Nat /\ nsent \in Nat /\ Rcvd <= nsent
      /\ Handed' = UpTo(Rcvd') /\ Rcvd' \in Nat /\ Rcvd' <= nsent'
  <2>1. Rcvd' \in Nat
    BY DeliveredType DEF IInv, TypeOK, Rcvd, Delivered
  <2>2. Handed' = UpTo(Rcvd')
    BY DEF IInv, Prefix, InOrderDelivery, Handed, UpTo, Rcvd
  <2>3. Rcvd' <= nsent'
    BY DEF IInv, Prefix
  <2> QED
    BY <2>1, <2>2, <2>3, HandedIsUpTo
<1>1. ASSUME NEW c \in Callers, SendLocked(c) PROVE Channel!Accept
  <2> DEFINE pkt == [seq |-> current_seq, msg |-> nsent + 1]
  <2>1. /\ nsent' = nsent + 1 /\ nsent + 1 \in Msgs
        /\ pkts_fhost' = pkts_fhost \cup {pkt} /\ pkt.msg = nsent + 1
        /\ UNCHANGED <<closed, rcvVars, read>>
    BY <1>1 DEF SendLocked, IInv, TypeOK, Msgs
  <2> HIDE DEF pkt
  <2>2. Cardinality(Flying) < RUDP_SEND_WINDOW
    BY <1>1, FlyingBound, SizesAssumption DEF SendLocked, WindowFull, IInv
  <2>3. Flying' = Flying \cup {nsent + 1}
    BY <2>1 DEF Flying
  <2>4. UpTo(nsent') = Append(UpTo(nsent), nsent + 1) /\ Len(UpTo(nsent)) = nsent
    BY <1>0, <2>1, UpToFacts
  <2>5. Delivered' = Delivered
    BY <2>1 DEF rcvVars, Delivered
  <2>6. /\ \E m \in Msgs : UpTo(nsent') = Append(UpTo(nsent), m)
        /\ Flying' = Flying \cup {Len(UpTo(nsent)) + 1}
    BY <2>1, <2>3, <2>4
  <2>7. Handed' = Handed /\ Len(read)' = Len(read) /\ closed' = closed
    BY <2>1, <2>5 DEF Handed
  <2>8. /\ Cardinality({p.msg : p \in pkts_fhost}) < RUDP_SEND_WINDOW
        /\ {p.msg : p \in pkts_fhost}'
             = {p.msg : p \in pkts_fhost} \cup {Len([i \in 1 .. nsent |-> i]) + 1}
    BY <2>2, <2>6 DEF Flying, UpTo
  <2>9. \E m \in Msgs : [i \in 1 .. nsent |-> i]' = Append([i \in 1 .. nsent |-> i], m)
    BY <2>6 DEF UpTo
  <2> QED
    BY <2>7, <2>8, <2>9 DEF Channel!Accept, Handed, Channel!Cardinality, Cardinality
<1>2. ASSUME NEW a \in net_rack, HandleRack(a) PROVE Channel!Confirm
  <2> DEFINE S == Flying \ Flying'
  <2>1. /\ pkts_fhost' = pkts_fhost \ Covered(a)
        /\ UNCHANGED <<nsent, closed, rcvVars, read>>
    BY <1>2 DEF HandleRack
  <2>2. Delivered' = Delivered
    BY <2>1 DEF rcvVars, Delivered
  <2>3. ASSUME NEW m \in S PROVE m \in Flying /\ m \in 1 .. Len(Delivered)
    <3>1. PICK p \in pkts_fhost : p.msg = m
      BY DEF Flying
    <3>2. p \in Covered(a)
      BY <2>1, <3>1 DEF Flying
    <3>3. p \in net_data /\ p.seq <= a /\ a < Rcvd /\ a \in Int
      BY <3>2 DEF Covered, AcksBehind, Numbering, IInv, TypeOK, Seqs
    <3>4. p.seq = p.msg - 1 /\ p.msg \in Msgs
      BY <3>3 DEF Numbering, IInv, TypeOK, Packet
    <3> QED
      BY <1>0, <3>1, <3>3, <3>4 DEF Rcvd, Msgs
  <2>4. Flying' = Flying \ S
    BY <2>1 DEF Flying
  <2>5. S \in SUBSET (Flying \cap 1 .. Len(Delivered))
    BY <2>3
  <2>6. Len(Handed) = Len(Delivered)
    BY <1>0, UpToFacts DEF Rcvd
  <2> HIDE DEF S
  <2>7. \E T \in SUBSET (Flying \cap 1 .. Len(Handed)) : Flying' = Flying \ T
    BY <2>4, <2>5, <2>6
  <2>8. Handed' = Handed /\ Len(read)' = Len(read) /\ closed' = closed /\ nsent' = nsent
    BY <2>1, <2>2 DEF Handed
  <2> QED
    BY <2>7, <2>8 DEF Channel!Confirm, Flying, Handed
<1>3. ASSUME Timeouts PROVE Channel!GiveUp \/ UNCHANGED Channel!chVars
  <2>1. /\ UNCHANGED <<nsent, rcvVars, read>>
        /\ \/ UNCHANGED <<pkts_fhost, closed>>
           \/ \E p \in Capped : GiveUp(p)
    BY <1>3 DEF Timeouts
  <2>2. Delivered' = Delivered
    BY <2>1 DEF rcvVars, Delivered
  <2>3. CASE UNCHANGED <<pkts_fhost, closed>>
    BY <2>1, <2>2, <2>3 DEF Channel!chVars
  <2>4. ASSUME NEW p \in Capped, GiveUp(p) PROVE Channel!GiveUp
    <3>1. p \in pkts_fhost /\ pkts_fhost' = pkts_fhost \ {p} /\ closed' = TRUE
      BY <2>4 DEF GiveUp, Capped
    <3>2. ASSUME NEW q \in pkts_fhost, q.msg = p.msg PROVE q = p
      <4>1. /\ p.seq = p.msg - 1 /\ q.seq = q.msg - 1
            /\ p \in [seq : Seqs, msg : Msgs] /\ q \in [seq : Seqs, msg : Msgs]
        BY <3>1 DEF IInv, Numbering, TypeOK, Packet
      <4> QED
        BY <3>2, <4>1
    <3>3. Flying' = Flying \ {p.msg} /\ p.msg \in Flying
      BY <3>1, <3>2 DEF Flying
    <3> QED
      BY <2>1, <2>2, <3>1, <3>3 DEF Channel!GiveUp, Flying
  <2> QED BY <2>1, <2>3, <2>4
<1>4. ASSUME NEW p \in net_data, HandleData(p)
      PROVE  Channel!Deliver \/ UNCHANGED Channel!chVars
  <2>1. UNCHANGED <<nsent, pkts_fhost, closed, read>>
    BY <1>4 DEF HandleData, sendVars
  <2>2. Rcvd <= Rcvd'
    BY <1>4, HandleDataStream
  <2>3. CASE Rcvd' = Rcvd
    <3>1. Handed' = Handed
      BY <1>0, <2>3
    <3> QED
      BY <2>1, <3>1 DEF Channel!chVars, Handed
  <2>4. CASE Rcvd' # Rcvd
    <3>1. Rcvd' \in (Rcvd + 1) .. nsent /\ Rcvd' \in 0 .. nsent
      BY <1>0, <2>1, <2>2, <2>4
    <3>2. Handed' = SubSeq(UpTo(nsent), 1, Rcvd')
      BY <1>0, <3>1, UpToFacts
    <3>3. Len(UpTo(nsent)) = nsent /\ Len(Handed) = Rcvd
      BY <1>0, UpToFacts
    <3>4. \E n \in (Len(Handed) + 1) .. Len(UpTo(nsent)) : Handed' = SubSeq(UpTo(nsent), 1, n)
      BY <3>1, <3>2, <3>3
    <3> QED
      BY <2>1, <3>4 DEF Channel!Deliver, Handed, UpTo
  <2> QED BY <2>3, <2>4
<1>5. ASSUME Recv PROVE Channel!Take
  <2>1. Delivered' = Delivered
    BY <1>5, RecvKeepsDelivered DEF IInv
  <2>2. /\ Len(read) \in Nat /\ Len(read) < Len(Delivered) /\ Len(read') = Len(read) + 1
        /\ UNCHANGED <<nsent, pkts_fhost, closed>>
    BY <1>5 DEF Recv, IInv, TypeOK, Delivered, sendVars
  <2>3. Len(Handed) = Len(Delivered)
    BY <1>0, UpToFacts DEF Rcvd
  <2> QED
    BY <2>1, <2>2, <2>3 DEF Channel!Take, Handed
<1>6. ASSUME UNCHANGED <<nsent, pkts_fhost, closed, rcvVars, read>>
      PROVE  UNCHANGED Channel!chVars
  <2>1. Delivered' = Delivered
    BY <1>6 DEF rcvVars, Delivered
  <2> QED
    BY <1>6, <2>1 DEF Channel!chVars
<1> QED
  BY <1>1, <1>2, <1>3, <1>4, <1>5, <1>6
     DEF Next, Send, SendCheck, SendAgain, ReverseTimeouts, vars, sendVars,
         Channel!ChNext

(***************************************************************************)
(* One direction of an RUDP connection, over a network that loses, repeats *)
(* and reorders packets, implements the reliable channel.                  *)
(***************************************************************************)
THEOREM Refinement == Spec => ImplementsChannel
  BY ChannelInit, ChannelStep, Invariance, PTL
     DEF Spec, ImplementsChannel, Channel!ChSpec
=============================================================================
