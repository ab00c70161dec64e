--------------------------- MODULE ReliableChannel ---------------------------
(***************************************************************************)
(* What one direction of an RUDP connection promises its users.  Messages  *)
(* are accepted one after the other, handed over in the same order, and    *)
(* the sender forgets a message only after it was handed over, or in       *)
(* giving it up, which breaks the channel for good.                        *)
(***************************************************************************)
EXTENDS Integers, Sequences, FiniteSets

CONSTANTS Window,   \* most messages the sender remembers
          Messages  \* what is sent

VARIABLES
  accepted,    \* sequence of messages accepted from the sending application
  delivered,   \* sequence of messages handed to the receiving host
  taken,       \* how many of these the receiving application has read
  unconfirmed, \* positions in accepted that the sender still remembers
  broken       \* the sender has given a message up

chVars == <<accepted, delivered, taken, unconfirmed, broken>>

ChInit ==
  /\ accepted = << >>
  /\ delivered = << >>
  /\ taken = 0
  /\ unconfirmed = {}
  /\ broken = FALSE

Accept ==
  /\ Cardinality(unconfirmed) < Window
  /\ \E m \in Messages : accepted' = Append(accepted, m)
  /\ unconfirmed' = unconfirmed \cup {Len(accepted) + 1}
  /\ UNCHANGED <<delivered, taken, broken>>

(* One or more of the messages that come next are handed over. *)
Deliver ==
  /\ \E n \in (Len(delivered) + 1) .. Len(accepted) :
       delivered' = SubSeq(accepted, 1, n)
  /\ UNCHANGED <<accepted, taken, unconfirmed, broken>>

(* The sender learns that some messages have been handed over. *)
Confirm ==
  /\ \E S \in SUBSET (unconfirmed \cap 1 .. Len(delivered)) :
       unconfirmed' = unconfirmed \ S
  /\ UNCHANGED <<accepted, delivered, taken, broken>>

(* The sender gives one message up; it may have been handed over or not. *)
GiveUp ==
  /\ \E i \in unconfirmed : unconfirmed' = unconfirmed \ {i}
  /\ broken' = TRUE
  /\ UNCHANGED <<accepted, delivered, taken>>

Take ==
  /\ taken < Len(delivered)
  /\ taken' = taken + 1
  /\ UNCHANGED <<accepted, delivered, unconfirmed, broken>>

ChNext == Accept \/ Deliver \/ Confirm \/ GiveUp \/ Take

ChSpec == ChInit /\ [][ChNext]_chVars
=============================================================================
