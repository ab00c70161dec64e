---------------------------- MODULE AbstractMaps ----------------------------
(* What the tables promise: each holds a map from keys to values, changed  *)
(* by its own calls only, and every answer is the map's.                   *)
EXTENDS Naturals, Functions

CONSTANTS None,
          Gone,              \* a table that was moved from
          Updated, Inserted, \* the answers of a set,
          Removed, Absent    \* and those of a removal

VARIABLES maps, call, ret

NoKeys == [k \in {} |-> None]

With(m, k, v) == [x \in DOMAIN m \cup {k} |-> IF x = k THEN v ELSE m[x]]

Step ==
  LET t == call'.t
      m == maps[t]
  IN  \/ /\ call'.op = "set" /\ maps' = [maps EXCEPT ![t] = With(m, call'.k, call'.v)]
         /\ ret' = IF call'.k \in DOMAIN m THEN Updated ELSE Inserted
      \/ /\ call'.op = "get" /\ UNCHANGED maps
         /\ ret' = IF call'.k \in DOMAIN m THEN m[call'.k] ELSE None
      \/ /\ call'.op = "remove"
         /\ maps' = [maps EXCEPT ![t] = Restrict(m, DOMAIN m \ {call'.k})]
         /\ ret' = IF call'.k \in DOMAIN m THEN Removed ELSE Absent
      \/ /\ call'.op = "clear" /\ maps' = [maps EXCEPT ![t] = NoKeys] /\ ret' = 0
      \/ /\ call'.op = "reserve" /\ UNCHANGED maps /\ ret' = 0
      \/ /\ call'.op = "copy" /\ maps' = [maps EXCEPT ![t] = maps[call'.from]] /\ ret' = 0
      \/ /\ call'.op = "move" /\ ret' = 0
         /\ maps' = [maps EXCEPT ![t] = maps[call'.from], ![call'.from] = Gone]
      \/ /\ call'.op = "swap" /\ ret' = 0
         /\ maps' = [maps EXCEPT ![t] = maps[call'.from], ![call'.from] = m]

=============================================================================
