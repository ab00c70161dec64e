----------------------------- MODULE ProtQueue ------------------------------
(***************************************************************************)
(* prot_queue (code/devcore/base/src/base/prot_queue.c): a ring buffer     *)
(* under a mutex.  head and tail are indices into elements, an array of    *)
(* len cells; a full ring is copied to one of twice the length, with its   *)
(* first element at index 0.  Every packet of soter2 passes through        *)
(* several of these.                                                       *)
(*                                                                         *)
(* Each operation holds the mutex from its first to its last access, so it *)
(* is one step.  A cell that has not been written holds what calloc, or    *)
(* malloc after growing, left there: any element.                          *)
(***************************************************************************)
EXTENDS Naturals, Sequences

CONSTANTS Elements,     \* what is queued
          InitialLen,   \* 1024 in the code
          MaxLen        \* bound: the ring does not grow beyond this length

ASSUME RingAssumption ==
  /\ InitialLen \in Nat \ {0}
  /\ MaxLen \in Nat
  /\ Elements # {}

VARIABLES elements, len, head, tail, count,
          out   \* history: what the last prot_queue_pop returned

vars == <<elements, len, head, tail, count, out>>

Cells(n) == 0 .. (n - 1)

Init ==
  /\ len = InitialLen
  /\ \E e \in Elements : elements = [i \in Cells(len) |-> e]
  /\ head = 0
  /\ tail = 0
  /\ count = 0
  /\ out \in Elements

-----------------------------------------------------------------------------
(* Index of the i-th element from the head. *)
At(i) == (head + i) % len

Next1(i, n) == (i + 1) % n

(* Mutant of PushGrown: the array is copied as it lies in memory (realloc). *)
PushGrownUnwrapped(e) ==
  /\ count = len
  /\ 2 * len <= MaxLen
  /\ \E junk \in Elements :
       elements' = [i \in Cells(2 * len) |->
                      IF i < count THEN elements[i]
                      ELSE IF i = count THEN e ELSE junk]
  /\ len' = 2 * len
  /\ head' = 0
  /\ tail' = Next1(count, 2 * len)
  /\ count' = count + 1
  /\ UNCHANGED out

(***************************************************************************)
(* _prot_queue_grow_unsafe, then the write at the new tail: the elements   *)
(* are copied in order, the other half of the new array is not set.        *)
(***************************************************************************)
PushGrown(e) ==
  /\ count = len
  /\ 2 * len <= MaxLen
  /\ \E junk \in Elements :
       elements' = [i \in Cells(2 * len) |->
                      IF i < count THEN elements[At(i)]
                      ELSE IF i = count THEN e ELSE junk]
  /\ len' = 2 * len
  /\ head' = 0
  /\ tail' = Next1(count, 2 * len)
  /\ count' = count + 1
  /\ UNCHANGED out

PushInPlace(e) ==
  /\ count # len
  /\ elements' = [elements EXCEPT ![tail] = e]
  /\ tail' = Next1(tail, len)
  /\ count' = count + 1
  /\ UNCHANGED <<len, head, out>>

(* prot_queue_push and _prot_queue_push_unsafe. *)
Push(e) == PushGrown(e) \/ PushInPlace(e)

(* prot_queue_upush: nothing to do if an equal element is queued. *)
Upush(e) == (\A i \in Cells(count) : elements[At(i)] # e) /\ Push(e)

(* prot_queue_pop; an empty queue answers -1. *)
Pop ==
  /\ count # 0
  /\ out' = elements[head]
  /\ head' = Next1(head, len)
  /\ count' = count - 1
  /\ UNCHANGED <<elements, len, tail>>

Next == Pop \/ \E e \in Elements : Push(e) \/ Upush(e)

Spec == Init /\ [][Next]_vars

-----------------------------------------------------------------------------
TypeOK ==
  /\ len \in Nat \ {0}
  /\ elements \in [Cells(len) -> Elements]
  /\ head \in Cells(len)
  /\ tail \in Cells(len)
  /\ count \in 0 .. len
  /\ out \in Elements

(* What is in the ring, first to last. *)
Content == [i \in 1 .. count |-> elements[At(i - 1)]]

Queue == INSTANCE Fifo WITH queue <- Content, popped <- out

(***************************************************************************)
(* The ring is a queue: pushing, growing while the content wraps around,   *)
(* and popping neither lose, repeat nor reorder elements.                  *)
(***************************************************************************)
ImplementsFifo == Queue!FifoSpec
=============================================================================
