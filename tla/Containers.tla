----------------------------- MODULE Containers -----------------------------
(***************************************************************************)
(* The containers of code/devcore/base under sequences of calls.  The      *)
(* prot_ variants hold one mutex for the whole of a call, so a call is one *)
(* step here whoever makes it.  A behaviour uses one kind of container,    *)
(* chosen at the start: an array (or queue), a table, or two hash tables.  *)
(***************************************************************************)
EXTENDS DynArray, Integers, SequencesExt

CONSTANTS Kinds,        \* the containers a behaviour may use
          Gone,         \* a hash table that was moved from
          Values,       \* elements of the array, values of the tables
          Keys,
          Hash,         \* the hash of every key
          HT_MINIMUM_CAPACITY, HT_LOAD_FACTOR, HT_GROWTH_FACTOR,   \* 8, 5 and 2
          MaxArrayLen,  \* bound: elements in the array, pairs in the table
          MaxCapacity   \* bound: chains of a hash table

(* The mark for "not found" is no index and no block. *)
ASSUME ContainersAssumption ==
  /\ MaxArrayLen \in Nat
  /\ None \notin Nat

ASSUME HashAssumption ==
  /\ Hash \in [Keys -> Nat]
  /\ HT_MINIMUM_CAPACITY \in Nat \ {0}
  /\ HT_LOAD_FACTOR \in Nat \ {0}
  /\ HT_GROWTH_FACTOR \in Nat
  /\ MaxCapacity \in Nat

HT == INSTANCE HashTable

VARIABLES kind,   \* the container under use; fixed
          arr,    \* the dyn_array
          tab,    \* the dyn_table: an array of pairs
          heap,   \* what the blocks the table owns hold
          ht,     \* the two hash tables
          mixed,  \* they were swapped while they had different capacities
          call, ret   \* the last call and its answer

cvars == <<kind, arr, tab, heap, ht, mixed, call, ret>>

Tables == {"first", "second"}

CInit ==
  /\ kind \in Kinds
  /\ arr = Create
  /\ tab = Create
  /\ heap = [b \in {} |-> None]
  /\ ht = [t \in Tables |-> HT!Setup(0)]
  /\ mixed = FALSE
  /\ call = [op |-> "none"]
  /\ ret = 0

-----------------------------------------------------------------------------
ArrayBecomes(c, a, answer) ==
  /\ kind = "array"
  /\ call' = c
  /\ arr' = a
  /\ ret' = answer
  /\ UNCHANGED <<kind, tab, heap, ht, mixed>>

ArrayPush(e) ==
  arr.len < MaxArrayLen /\ ArrayBecomes([op |-> "push", e |-> e], DynPush(arr, e), 0)

ArrayInsert(i, e) ==
  /\ arr.len < MaxArrayLen /\ i <= arr.len
  /\ ArrayBecomes([op |-> "insert", i |-> i, e |-> e], Insert(arr, i, e), 0)

ArrayRemove(i) ==
  i < arr.len /\ ArrayBecomes([op |-> "remove", i |-> i], RemoveIdx(arr, i), 0)

(* dyn_queue_pop *)
QueuePop ==
  arr.len # 0 /\ ArrayBecomes([op |-> "pop"], RemoveIdx(arr, 0), Cell(arr, 0))

ArraySetself == ArrayBecomes([op |-> "setself"], Setself(arr), 0)

ArrayFilter(drop) ==
  /\ drop \subseteq 0 .. (arr.len - 1)
  /\ ArrayBecomes([op |-> "filter", drop |-> drop], Filter(arr, drop), 0)

ArrayIndex(e) ==
  ArrayBecomes([op |-> "index", e |-> e], arr, Index(arr, e))

ArrayCount(e) == ArrayBecomes([op |-> "count", e |-> e], arr, Count(arr, e))

-----------------------------------------------------------------------------
TableBecomes(c, t, h, answer) ==
  /\ kind = "table"
  /\ call' = c
  /\ tab' = t
  /\ heap' = h
  /\ ret' = answer
  /\ UNCHANGED <<kind, arr, ht, mixed>>

FreeBlock == CHOOSE b \in 1 .. MaxArrayLen : b \notin DOMAIN heap

(* Mutant of TableSet: the pair is replaced by a new one. *)
TableSetAnew(k, v) ==
  LET c == [op |-> "set", t |-> "only", k |-> k, v |-> v]
      there == FindIdx(tab, k) # None
  IN  /\ tab.len < MaxArrayLen
      /\ TableBecomes(c,
           TablePush(IF there THEN TableRemove(tab, k) ELSE tab, k, FreeBlock),
           [b \in (DOMAIN heap \ {TableGet(tab, k)}) \cup {FreeBlock} |->
              IF b = FreeBlock THEN v ELSE heap[b]], 0)

(* dyn_table_set *)
TableSet(k, v) ==
  LET c == [op |-> "set", t |-> "only", k |-> k, v |-> v]
  IN  \/ /\ FindIdx(tab, k) # None
         /\ TableBecomes(c, tab, TableUpdate(tab, heap, k, v), 0)
      \/ /\ FindIdx(tab, k) = None
         /\ tab.len < MaxArrayLen
         /\ TableBecomes(c, TablePush(tab, k, FreeBlock),
              [b \in DOMAIN heap \cup {FreeBlock} |->
                 IF b = FreeBlock THEN v ELSE heap[b]], 0)

(* dyn_table_get: a pointer to the value, or NULL. *)
TableLookup(k) ==
  TableBecomes([op |-> "get", t |-> "only", k |-> k], tab, heap,
               IF TableGet(tab, k) = None THEN None ELSE heap[TableGet(tab, k)])

(* dyn_table_remove *)
TableErase(k) ==
  LET c == [op |-> "remove", t |-> "only", k |-> k]
  IN  \/ /\ FindIdx(tab, k) = None
         /\ TableBecomes(c, tab, heap, -1)
      \/ /\ FindIdx(tab, k) # None
         /\ TableBecomes(c, TableRemove(tab, k),
              [b \in DOMAIN heap \ {TableGet(tab, k)} |-> heap[b]], 0)

-----------------------------------------------------------------------------
(* No call is made after ht_swap of tables of different capacity: indices  *)
(* are taken modulo the capacity that stayed, in the nodes that came.      *)
HtBecomes(c, tables, answer) ==
  /\ kind = "htable" /\ ~mixed
  /\ call' = c
  /\ ht' = tables
  /\ ret' = answer
  /\ mixed' = (c.op = "swap" /\ ht[c.t].capacity # ht[c.from].capacity)
  /\ UNCHANGED <<kind, arr, tab, heap>>

One(t, table) == [ht EXCEPT ![t] = table]

HtSet(t, k, v) ==
  /\ HT!IsInitialized(ht[t])
  /\ HT!ShouldGrow(ht[t]) => ht[t].size * 2 <= MaxCapacity
  /\ HtBecomes([op |-> "set", t |-> t, k |-> k, v |-> v],
               One(t, HT!HtInsert(ht[t], k, v)),
               IF HT!HasKey(ht[t], k) THEN HT!HT_UPDATED ELSE HT!HT_INSERTED)

HtGet(t, k) ==
  /\ HT!IsInitialized(ht[t])
  /\ HtBecomes([op |-> "get", t |-> t, k |-> k], ht,
               IF HT!HasKey(ht[t], k) THEN HT!Lookup(ht[t], k) ELSE None)

HtErase(t, k) ==
  LET found == HT!HasKey(ht[t], k)
  IN  /\ HT!IsInitialized(ht[t])
      /\ HtBecomes([op |-> "remove", t |-> t, k |-> k],
                   IF found THEN One(t, HT!Erase(ht[t], k)) ELSE ht,
                   IF found THEN HT!HT_SUCCESS ELSE HT!HT_NOT_FOUND)

HtClear(t) ==
  /\ HT!IsInitialized(ht[t])
  /\ HtBecomes([op |-> "clear", t |-> t], One(t, HT!Clear(ht[t])), 0)

HtReserve(t, minimum) ==
  /\ HT!IsInitialized(ht[t])
  /\ HtBecomes([op |-> "reserve", t |-> t], One(t, HT!Reserve(ht[t], minimum)), 0)

Pair(t, from, a, b) == [ht EXCEPT ![t] = a, ![from] = b]

HtCopy(t, from) ==
  /\ HT!IsInitialized(ht[from])
  /\ HtBecomes([op |-> "copy", t |-> t, from |-> from],
               One(t, HT!Copy(ht[from])), 0)

HtMove(t, from) ==
  /\ HT!IsInitialized(ht[from])
  /\ HtBecomes([op |-> "move", t |-> t, from |-> from],
               Pair(t, from, ht[from], HT!Moved(ht[from])), 0)

HtSwap(t, from) ==
  /\ HT!IsInitialized(ht[t]) /\ HT!IsInitialized(ht[from])
  /\ HtBecomes([op |-> "swap", t |-> t, from |-> from],
               Pair(t, from, HT!Swapped(ht[t], ht[from]), HT!Swapped(ht[from], ht[t])), 0)

-----------------------------------------------------------------------------
CNext ==
  \/ \E e \in Values : ArrayPush(e) \/ ArrayIndex(e) \/ ArrayCount(e)
  \/ \E e \in Values, i \in 0 .. MaxArrayLen : ArrayInsert(i, e)
  \/ \E i \in 0 .. MaxArrayLen : ArrayRemove(i)
  \/ QueuePop
  \/ ArraySetself
  \/ \E drop \in SUBSET (0 .. MaxArrayLen) : ArrayFilter(drop)
  \/ \E k \in Keys : TableLookup(k) \/ TableErase(k) \/ \E v \in Values : TableSet(k, v)
  \/ \E t \in Tables :
       \/ HtClear(t)
       \/ \E minimum \in {0, 2 * MaxCapacity} : HtReserve(t, minimum)
       \/ \E k \in Keys : HtErase(t, k) \/ \E v \in Values : HtSet(t, k, v)
  \/ \E k \in Keys : HtGet("first", k)
  \/ HtCopy("first", "second") \/ HtMove("first", "second") \/ HtSwap("first", "second")

CSpec == CInit /\ [][CNext]_cvars

-----------------------------------------------------------------------------
List == INSTANCE AbstractList WITH list <- Listed(arr)

TableMap(t, h) == [k \in {pair.first : pair \in ToSet(Listed(t))} |-> h[TableGet(t, k)]]

TheTable == [t \in {"only"} |-> TableMap(tab, heap)]

HashTables == [t \in Tables |-> IF HT!IsInitialized(ht[t]) THEN HT!MapOf(ht[t]) ELSE Gone]

TableMaps == INSTANCE AbstractMaps
  WITH maps <- TheTable, Updated <- 0, Inserted <- 0, Removed <- 0, Absent <- -1

HtMaps == INSTANCE AbstractMaps
  WITH maps <- HashTables, Updated <- HT!HT_UPDATED, Inserted <- HT!HT_INSERTED,
       Removed <- HT!HT_SUCCESS, Absent <- HT!HT_NOT_FOUND

(***************************************************************************)
(* The array, through growth and moves in memory, is a list, and its queue *)
(* pops in the order of the pushes; a table, and hash tables that grow,    *)
(* shrink, are copied, moved and swapped, answer as maps do, until two of  *)
(* different capacity are swapped (ht_swap leaves the capacities behind).  *)
(* The answers are the codes of the code: ht_erase's are the same for a    *)
(* key that was there and one that was not, dyn_table_set's too.           *)
(***************************************************************************)
ContainersAsPromised ==
  [][/\ kind = "array" => List!Step
     /\ kind = "table" => TableMaps!Step
     /\ kind = "htable" => mixed' \/ HtMaps!Step]_cvars

(* A pointer a caller got for a key stays the pointer to that key's value  *)
(* until the key is removed: the callers of prot_table_get keep them.      *)
PointersStable ==
  [][kind = "table" => \A k \in Keys : TableGet(tab, k) # None /\ ~(call'.op = "remove" /\ call'.k = k)
       => TableGet(tab', k) = TableGet(tab, k)]_cvars
=============================================================================
