----------------------------- MODULE HashTable ------------------------------
(***************************************************************************)
(* dyn_htable (code/devcore/base/src/base/dyn_htable.c): a hash table with *)
(* chains.  A table is a record of its size, its capacity, the threshold   *)
(* ht_reserve looks at, and nodes, one chain (first node first) for every  *)
(* index below the capacity; a table that was moved from has no nodes.     *)
(***************************************************************************)
EXTENDS Naturals, Sequences, SequencesExt

CONSTANTS Hash,                 \* table->hash: a number for every key
          HT_MINIMUM_CAPACITY,  \* 8 in the code
          HT_LOAD_FACTOR,       \* 5
          HT_GROWTH_FACTOR      \* 2

(* The codes insert and erase answer with, by the names the code returns. *)
HT_UPDATED   == 1
HT_INSERTED  == 0
HT_SUCCESS   == 0
HT_NOT_FOUND == 0

NoNodes == <<>>

IsInitialized(t) == t.nodes # NoNodes

Slot(k, capacity) == Hash[k] % capacity

(* _ht_allocate *)
Allocate(t, capacity) ==
  [t EXCEPT !.nodes = [i \in 0 .. (capacity - 1) |-> <<>>],
            !.capacity = capacity,
            !.threshold = capacity * HT_LOAD_FACTOR]

(* ht_setup *)
Setup(capacity) ==
  Allocate([size |-> 0, capacity |-> 0, threshold |-> 0, nodes |-> NoNodes],
           IF capacity < HT_MINIMUM_CAPACITY THEN HT_MINIMUM_CAPACITY ELSE capacity)

(* _ht_push_front *)
PushFront(t, i, k, v) ==
  [t EXCEPT !.nodes[i] = <<[key |-> k, value |-> v]>> \o @]

(* The nodes of a chain, moved to the table t one after another. *)
MoveNode(t, node) == PushFront(t, Slot(node.key, t.capacity), node.key, node.value)

MoveChain(t, chain) ==
  LET moved[n \in 0 .. Len(chain)] ==
        IF n = 0 THEN t ELSE MoveNode(moved[n - 1], chain[n])
  IN  moved[Len(chain)]

(* _ht_rehash: the chains of old, moved to the empty table new. *)
Rehash(old, new) ==
  LET moved[n \in 0 .. old.capacity] ==
        IF n = 0 THEN new ELSE MoveChain(moved[n - 1], old.nodes[n - 1])
  IN  moved[old.capacity]

(* _ht_resize *)
HtResize(t, capacity) ==
  LET wanted == IF capacity < HT_MINIMUM_CAPACITY THEN HT_MINIMUM_CAPACITY ELSE capacity
  IN  IF capacity < HT_MINIMUM_CAPACITY /\ t.capacity <= HT_MINIMUM_CAPACITY
      THEN t ELSE Rehash(t, Allocate(t, wanted))

(* _ht_adjust_capacity *)
AdjustCapacity(t) == HtResize(t, t.size * HT_GROWTH_FACTOR)

ShouldGrow(t) == t.size = t.capacity

(* HT_SHRINK_THRESHOLD is (1 / 4), an integer: the table shrinks when empty. *)
ShouldShrink(t) == t.size = t.capacity * (1 \div 4)

(* ht_contains and ht_lookup walk the chain of the key. *)
Places(t, k) == {i \in DOMAIN t.nodes[Slot(k, t.capacity)] :
                   t.nodes[Slot(k, t.capacity)][i].key = k}

HasKey(t, k) == Places(t, k) # {}

Place(t, k) == CHOOSE i \in Places(t, k) : \A j \in Places(t, k) : i <= j

Lookup(t, k) == t.nodes[Slot(k, t.capacity)][Place(t, k)].value

(* ht_insert *)
HtInsert(t, k, v) ==
  LET grown == IF ShouldGrow(t) THEN AdjustCapacity(t) ELSE t
      i == Slot(k, grown.capacity)
  IN  IF HasKey(grown, k)
      THEN [grown EXCEPT !.nodes[i][Place(grown, k)].value = v]
      ELSE [PushFront(grown, i, k, v) EXCEPT !.size = @ + 1]

(* ht_erase, of a key that is there. *)
Erase(t, k) ==
  LET i == Slot(k, t.capacity)
      less == [t EXCEPT !.nodes[i] = RemoveAt(@, Place(t, k)), !.size = @ - 1]
  IN  IF ShouldShrink(less) THEN AdjustCapacity(less) ELSE less

(* ht_clear *)
Clear(t) == [Allocate(t, HT_MINIMUM_CAPACITY) EXCEPT !.size = 0]

(* Mutant of Reserve: asks for as many chains as elements. *)
ReserveNone(t, minimum) ==
  IF minimum > t.threshold THEN Allocate(t, minimum \div HT_LOAD_FACTOR) ELSE t

(* ht_reserve: minimum elements, not chains. *)
Reserve(t, minimum) ==
  IF minimum > t.threshold THEN HtResize(t, minimum \div HT_LOAD_FACTOR) ELSE t

(* ht_copy: a table of the same capacity, its chains the other way round. *)
Copy(t) ==
  [Allocate(t, t.capacity) EXCEPT !.nodes = [i \in DOMAIN @ |-> Reverse(t.nodes[i])]]

(* ht_move: what the table it was moved from is left with. *)
Moved(t) == [t EXCEPT !.nodes = NoNodes]

(* ht_swap exchanges sizes and nodes (and the sizes and functions of keys  *)
(* and values, which are the same here); capacity and threshold stay.      *)
Swapped(t, u) == [t EXCEPT !.size = u.size, !.nodes = u.nodes]

(* What a table holds: a map from its keys. *)
MapOf(t) ==
  [k \in {n.key : n \in UNION {Range(t.nodes[i]) : i \in DOMAIN t.nodes}} |-> Lookup(t, k)]
=============================================================================
