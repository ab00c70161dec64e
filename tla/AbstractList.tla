---------------------------- MODULE AbstractList ----------------------------
(* What a growing array promises: each call does to a sequence what its    *)
(* name says, and answers what the sequence holds.                         *)
EXTENDS Naturals, Sequences, SequencesExt, FiniteSetsExt, Ranks

CONSTANTS None

VARIABLES list, call, ret

KeepAt(l, places) == [n \in 1 .. Cardinality(places) |-> l[Nth(places, n)]]

(* Of equal elements, the last. *)
LastPlaces(l) == {i \in DOMAIN l : \A j \in DOMAIN l : j > i => l[j] # l[i]}

Held(l, e) == {i \in DOMAIN l : l[i] = e}

Step ==
  \/ /\ call'.op = "push" /\ list' = Append(list, call'.e) /\ ret' = 0
  \/ /\ call'.op = "insert" /\ list' = InsertAt(list, call'.i + 1, call'.e) /\ ret' = 0
  \/ /\ call'.op = "remove" /\ list' = RemoveAt(list, call'.i + 1) /\ ret' = 0
  \/ /\ call'.op = "pop" /\ list' = Tail(list) /\ ret' = Head(list)
  \/ /\ call'.op = "setself" /\ ret' = 0
     /\ list' = KeepAt(list, LastPlaces(list))
  \/ /\ call'.op = "filter" /\ ret' = 0
     /\ list' = KeepAt(list, {i \in DOMAIN list : (i - 1) \notin call'.drop})
  \/ /\ call'.op = "index" /\ UNCHANGED list
     /\ ret' = IF Held(list, call'.e) = {} THEN None ELSE Min(Held(list, call'.e)) - 1
  \/ /\ call'.op = "count" /\ UNCHANGED list
     /\ ret' = Cardinality(Held(list, call'.e))

=============================================================================
