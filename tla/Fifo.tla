-------------------------------- MODULE Fifo --------------------------------
(***************************************************************************)
(* What the users of a prot_queue rely on: a queue of any length, first in *)
(* first out, to which an element may also be added only if it is not yet  *)
(* in it.                                                                  *)
(***************************************************************************)
EXTENDS Sequences, Naturals

CONSTANT Elements

VARIABLES queue, popped   \* popped: what the last pop returned

Holds(e) == \E i \in 1 .. Len(queue) : queue[i] = e

FifoInit == queue = << >> /\ popped \in Elements

Put(e) == queue' = Append(queue, e) /\ UNCHANGED popped

PutNew(e) == ~Holds(e) /\ Put(e)

Get == /\ queue # << >>
       /\ popped' = Head(queue)
       /\ queue' = Tail(queue)

FifoNext == Get \/ \E e \in Elements : Put(e) \/ PutNew(e)

FifoSpec == FifoInit /\ [][FifoNext]_<<queue, popped>>
=============================================================================
