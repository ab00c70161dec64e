------------------------------ MODULE DynArray ------------------------------
(***************************************************************************)
(* dyn_array (code/devcore/base/src/base/dyn_array.c), a growing array in  *)
(* one block of memory, and what is built directly on it: dyn_queue,       *)
(* prot_array_filter, and dyn_table, an array of key and value pairs.      *)
(*                                                                         *)
(* An array is a record: the cells of its block (Junk where nothing was    *)
(* written), len, and head, which starts at 1 with no block and is the     *)
(* number of cells ever after.  Indices are the code's, from 0.            *)
(***************************************************************************)
EXTENDS Naturals, Sequences, FiniteSets

CONSTANTS Junk,   \* what a cell that was never written holds
          None    \* the code's SIZE_MAX for "no such index", and NULL

Create == [cells |-> <<>>, len |-> 0, head |-> 1]

Cell(a, i) == IF i < Len(a.cells) THEN a.cells[i + 1] ELSE Junk

Store(cells, i, e) == [j \in DOMAIN cells |-> IF j = i + 1 THEN e ELSE cells[j]]

(* memmove: n cells from src to dst. *)
Memmove(cells, dst, src, n) ==
  [j \in DOMAIN cells |->
     IF j - 1 \in dst .. (dst + n - 1) /\ j - dst + src \in DOMAIN cells
     THEN cells[j - dst + src] ELSE cells[j]]

Doubled(a) ==
  [a EXCEPT !.cells = [j \in 1 .. (2 * a.head) |->
                         IF j \in DOMAIN a.cells THEN a.cells[j] ELSE Junk],
            !.head = 2 * @]

(* The growth before a write at the end (dyn_array_push, dyn_array_insert). *)
RoomForOne(a) == IF a.len >= a.head - 1 THEN Doubled(a) ELSE a

DynPush(a, e) ==
  LET g == RoomForOne(a)
  IN  [g EXCEPT !.cells = Store(@, a.len, e), !.len = @ + 1]

Insert(a, i, e) ==
  LET g == RoomForOne(a)
  IN  [g EXCEPT !.cells = Store(Memmove(@, i + 1, i, a.len - i), i, e),
                !.len = @ + 1]

RemoveIdx(a, i) ==
  [a EXCEPT !.cells = Memmove(@, i, i + 1, a.len - i - 1), !.len = @ - 1]

Count(a, e) == Cardinality({i \in 0 .. (a.len - 1) : Cell(a, i) = e})

(* The first of the indices hits, if there is one. *)
First(hits) ==
  IF hits = {} THEN None ELSE CHOOSE i \in hits : \A j \in hits : i <= j

Index(a, e) == First({i \in 0 .. (a.len - 1) : Cell(a, i) = e})

(***************************************************************************)
(* dyn_array_setself: an element that occurs again is removed, the index   *)
(* moves on only past one that is kept.                                    *)
(***************************************************************************)
SetselfTurn(at) ==
  IF Count(at.a, Cell(at.a, at.i)) > 1
  THEN [at EXCEPT !.a = RemoveIdx(@, at.i)]
  ELSE [at EXCEPT !.i = @ + 1]

Setself(a) ==
  LET at[n \in 0 .. a.len] ==
        IF n = 0 THEN [a |-> a, i |-> 0] ELSE SetselfTurn(at[n - 1])
  IN  at[a.len].a

(***************************************************************************)
(* prot_array_filter, for a callback that answers 1 for the indices in     *)
(* drop: it is given the index the element had at the start.               *)
(***************************************************************************)
FilterTurn(at, drop) ==
  IF at.offset + at.i \in drop
  THEN [a |-> RemoveIdx(at.a, at.i), i |-> at.i, offset |-> at.offset + 1]
  ELSE [at EXCEPT !.i = @ + 1]

Filter(a, drop) ==
  LET at[n \in 0 .. a.len] ==
        IF n = 0 THEN [a |-> a, i |-> 0, offset |-> 0] ELSE FilterTurn(at[n - 1], drop)
  IN  at[a.len].a

(* The elements, as a sequence. *)
Listed(a) == [i \in 1 .. a.len |-> Cell(a, i - 1)]

-----------------------------------------------------------------------------
(***************************************************************************)
(* dyn_table: an array of pairs; heap maps the blocks the table owns to    *)
(* what they hold (DYN_OWN_VAL; keys are compared by content).             *)
(***************************************************************************)
FindIdx(t, k) == First({i \in 0 .. (t.len - 1) : Cell(t, i).first = k})

TableGet(t, k) ==
  IF FindIdx(t, k) = None THEN None ELSE Cell(t, FindIdx(t, k)).second

(* The pair's value is overwritten in its block. *)
TableUpdate(t, heap, k, v) == [heap EXCEPT ![TableGet(t, k)] = v]

TablePush(t, k, block) == DynPush(t, [first |-> k, second |-> block])

TableRemove(t, k) == RemoveIdx(t, FindIdx(t, k))
=============================================================================
