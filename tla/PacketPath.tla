------------------------------ MODULE PacketPath ------------------------------
(***************************************************************************)
(* The way of a packet from pvd_sender_send of one node to the thread that *)
(* handles it on another: the sender converts it to network byte order and *)
(* gives it a checksum (providers/src/sender.c), the network loses, damages*)
(* and repeats datagrams, the listener checks and converts them back       *)
(* (protocol/src/proto.c, providers/src/listener.c), and _daemon_io        *)
(* (interface/src/daemons.c) hands them to the RUDP dispatcher or to the   *)
(* watcher.  No TURN pair is bound, and no proxy is set.                   *)
(*                                                                         *)
(* A field of 32 bits is a pair of bytes; the bytes themselves are the     *)
(* checksum, since two texts with the same crc32 are left out.             *)
(***************************************************************************)
EXTENDS Naturals, FiniteSetsExt, SequencesExt

CONSTANTS Types,        \* packet types used
          MaxPacked,    \* bound: packets sent
          MaxWire       \* bound: datagrams on their way

(* The types in use; PACK_NULL stands for what damage makes of one. *)
ASSUME TypesAssumption == "PACK_NULL" \notin Types

VARIABLES packed,       \* packets made so far, as their senders know them
          outq,         \* pvd_sender.packets
          wire,         \* datagrams
          listener,     \* where pvd_listener_worker is
          inq, newpack, \* pvd_listener.packets and its eventfd
          iodaemon,     \* _daemon_io: where it is, and r
          disp, wtch,   \* what was passed to the dispatcher and to the watcher
          accepted      \* history: packets the listener has pushed

ppvars == <<packed, outq, wire, listener, inq, newpack, iodaemon, disp, wtch, accepted>>

PPInit ==
  /\ packed = << >> /\ outq = << >>
  /\ wire = {}
  /\ listener = "recv"
  /\ inq = << >> /\ newpack = FALSE
  /\ iodaemon = [pc |-> "wait", r |-> FALSE]
  /\ disp = << >> /\ wtch = << >> /\ accepted = << >>

Receiver == <<listener, inq, newpack, iodaemon, disp, wtch, accepted>>

-----------------------------------------------------------------------------
(* htonl and ntohl, on a little-endian host. *)
Swap(field) == <<field[2], field[1]>>

Crc32(p) == <<p.seq, p.d_size, p.packtype>>

(* udp_make_pack *)
MakePack(type, n) == [seq |-> <<n, 0>>, d_size |-> <<1, 0>>, packtype |-> type]

(* Mutant of ToWire: the size stays in host order. *)
ToWireSizeForgotten(pkt) ==
  LET p == [pkt EXCEPT !.seq = Swap(@)]
  IN  [pkt |-> p, chsum |-> Crc32(p)]

(* The conversion in pvd_sender_worker. *)
ToWire(pkt) ==
  LET p == [pkt EXCEPT !.seq = Swap(@), !.d_size = Swap(@)]
  IN  [pkt |-> p, chsum |-> Crc32(p)]

(* protopack_recv: what is damaged is refused. *)
Refused(d) == d.chsum # Crc32(d.pkt)
FromWire(d) == [d.pkt EXCEPT !.seq = Swap(@), !.d_size = Swap(@)]

(* udp_is_RUDP_req *)
IsRudp(pkt) == pkt.packtype \in {"PACK_DATA", "PACK_RACK", "PACK_FIN"}

-----------------------------------------------------------------------------
(* pvd_sender_send: a copy is queued. *)
SenderSend(type) ==
  /\ Len(packed) < MaxPacked
  /\ packed' = Append(packed, MakePack(type, Len(packed) + 1))
  /\ outq' = Append(outq, MakePack(type, Len(packed) + 1))
  /\ UNCHANGED <<wire, Receiver>>

(* An RUDP packet is sent again. *)
SenderResend(i) ==
  /\ i \in DOMAIN packed /\ packed[i].packtype = "PACK_DATA"
  /\ outq = << >>
  /\ outq' = <<packed[i]>>
  /\ UNCHANGED <<packed, wire, Receiver>>

(* pvd_sender_worker *)
SenderTransmit ==
  /\ outq # << >>
  /\ Cardinality(wire) < MaxWire
  /\ wire' = wire \cup {ToWire(Head(outq))}
  /\ outq' = Tail(outq)
  /\ UNCHANGED <<packed, Receiver>>

LoseDatagram(d) ==
  /\ d \in wire
  /\ wire' = wire \ {d}
  /\ UNCHANGED <<packed, outq, Receiver>>

(* A datagram is damaged: one of its fields, or the checksum. *)
DamageDatagram(d) ==
  /\ d \in wire /\ ~Refused(d)
  /\ wire' \in {(wire \ {d}) \cup {[d EXCEPT !.pkt.seq = <<9, 9>>]},
                (wire \ {d}) \cup {[d EXCEPT !.pkt.packtype = "PACK_NULL"]},
                (wire \ {d}) \cup {[d EXCEPT !.chsum = << >>]}}
  /\ UNCHANGED <<packed, outq, Receiver>>

-----------------------------------------------------------------------------
(* pvd_listener_worker: a datagram, which may come again; the push; *)
ListenerRecv(d) ==
  /\ listener = "recv" /\ d \in wire
  /\ wire' \in {wire, wire \ {d}}
  /\ IF Refused(d)
     THEN UNCHANGED <<listener, inq, accepted>>
     ELSE /\ inq' = Append(inq, FromWire(d)) /\ accepted' = Append(accepted, FromWire(d))
          /\ listener' = "notify"
          /\ Len(accepted') <= MaxPacked
  /\ UNCHANGED <<packed, outq, newpack, iodaemon, disp, wtch>>

(* and the notification. *)
ListenerNotify ==
  /\ listener = "notify"
  /\ newpack' = TRUE
  /\ listener' = "recv"
  /\ UNCHANGED <<packed, outq, wire, inq, iodaemon, disp, wtch, accepted>>

-----------------------------------------------------------------------------
(* _daemon_io: the wait, which reads the event or times out, *)
IoWait ==
  /\ iodaemon.pc = "wait"
  /\ iodaemon' = [pc |-> "drain", r |-> newpack]
  /\ newpack' = FALSE
  /\ UNCHANGED <<packed, outq, wire, listener, inq, disp, wtch, accepted>>

(* the drain that follows in either case, *)
IoDrain ==
  /\ iodaemon.pc = "drain"
  /\ newpack' = FALSE
  /\ iodaemon' = [iodaemon EXCEPT !.pc = IF iodaemon.r THEN "next" ELSE "wait"]
  /\ UNCHANGED <<packed, outq, wire, listener, inq, disp, wtch, accepted>>

(* and the packets: rudp_dispatcher_pass or watcher_pass. *)
IoNextPacket ==
  /\ iodaemon.pc = "next"
  /\ IF inq = << >>
     THEN iodaemon' = [iodaemon EXCEPT !.pc = "wait"] /\ UNCHANGED <<inq, disp, wtch>>
     ELSE /\ inq' = Tail(inq)
          /\ disp' = IF IsRudp(Head(inq)) THEN Append(disp, Head(inq)) ELSE disp
          /\ wtch' = IF IsRudp(Head(inq)) THEN wtch ELSE Append(wtch, Head(inq))
          /\ UNCHANGED iodaemon
  /\ UNCHANGED <<packed, outq, wire, listener, newpack, accepted>>

PPNext ==
  \/ \E type \in Types : SenderSend(type)
  \/ \E i \in DOMAIN packed : SenderResend(i)
  \/ SenderTransmit
  \/ \E d \in wire : LoseDatagram(d) \/ DamageDatagram(d) \/ ListenerRecv(d)
  \/ ListenerNotify
  \/ IoWait \/ IoDrain \/ IoNextPacket

PPSpec == PPInit /\ [][PPNext]_ppvars

-----------------------------------------------------------------------------
(***************************************************************************)
(* What a handler gets is a packet that was sent, field by field and in    *)
(* the byte order of the host, also when the sender has sent it before or  *)
(* the network damaged a copy; and of what the listener took and _daemon_io*)
(* has come to, the packets of a connection (data, acknowledgements and    *)
(* the farewell) are at the dispatcher and all others at the watcher, in   *)
(* the order of their arrival.                                             *)
(***************************************************************************)
OfConnection(p) == p.packtype \in {"PACK_DATA", "PACK_RACK", "PACK_FIN"}

(* sub is what s has at these places, in the order of s. *)
TakenAt(sub, s, places) ==
  \E at \in [DOMAIN sub -> places] :
    /\ \A i \in DOMAIN sub : sub[i] = s[at[i]]
    /\ \A i, j \in DOMAIN sub : i < j => at[i] < at[j]
    /\ \A n \in places : \E i \in DOMAIN sub : at[i] = n

ArrivesAsSent ==
  LET come == Len(accepted) - Len(inq)
  IN  /\ ToSet(accepted) \subseteq ToSet(packed)
      /\ inq = SubSeq(accepted, come + 1, Len(accepted))
      /\ TakenAt(disp, accepted, {n \in 1 .. come : OfConnection(accepted[n])})
      /\ TakenAt(wtch, accepted, {n \in 1 .. come : ~OfConnection(accepted[n])})
=============================================================================
