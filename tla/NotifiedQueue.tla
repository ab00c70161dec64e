---------------------------- MODULE NotifiedQueue ----------------------------
(***************************************************************************)
(* The pair of a prot_queue and an mt_eventsock through which soter2's     *)
(* threads hand packets to each other: a producer pushes and then          *)
(* notifies, as two steps; a worker thread waits on the eventfd and pops.  *)
(* This module has the queue, the eventfd, the producers and the steps     *)
(* common to the worker loops; each worker has a module of its own.        *)
(*                                                                         *)
(* The counter of the eventfd is only tested for zero and reset, so it is  *)
(* the Boolean "event".  A packet is the number of its push.               *)
(***************************************************************************)
EXTENDS Naturals, Sequences, FiniteSets

CONSTANTS Producers,   \* threads that push
          MaxPackets   \* bound: packets pushed in one behaviour

ASSUME QueueAssumption == MaxPackets \in Nat /\ IsFiniteSet(Producers)

VARIABLES
  packets,     \* the queue
  event,       \* the eventfd counter is not zero
  pushed,      \* packets pushed so far
  notifying,   \* producers that have pushed and not yet notified
  is_running,  \* the worker's flag, cleared by its _end function
  pc,          \* where the worker is in its loop
  handled      \* packets the worker has popped, in order

qVars == <<packets, event, pushed, notifying, is_running, pc, handled>>

QInit ==
  /\ packets = << >>
  /\ event = FALSE
  /\ pushed = 0
  /\ notifying = {}
  /\ is_running = TRUE
  /\ pc = "loop"
  /\ handled = << >>

-----------------------------------------------------------------------------
(* prot_queue_push, under the lock of the queue. *)
Push(p) ==
  /\ p \notin notifying
  /\ pushed < MaxPackets
  /\ pc # "ended"
  /\ packets' = Append(packets, pushed + 1)
  /\ pushed' = pushed + 1
  /\ notifying' = notifying \cup {p}
  /\ UNCHANGED <<event, is_running, pc, handled>>

(* Mutant of Notify: the eventfd is not written. *)
NotifyForgotten(p) ==
  /\ p \in notifying
  /\ notifying' = notifying \ {p}
  /\ UNCHANGED <<packets, event, pushed, is_running, pc, handled>>

(* Mutant of Notify: one push is notified again and again. *)
NotifyAgain(p) ==
  /\ p \in notifying
  /\ event' = TRUE
  /\ UNCHANGED <<packets, pushed, notifying, is_running, pc, handled>>

(* mt_evsock_notify. *)
Notify(p) ==
  /\ p \in notifying
  /\ event' = TRUE
  /\ notifying' = notifying \ {p}
  /\ UNCHANGED <<packets, pushed, is_running, pc, handled>>

(* The _end function up to pthread_join. *)
Stop ==
  /\ is_running
  /\ is_running' = FALSE
  /\ UNCHANGED <<packets, event, pushed, notifying, pc, handled>>

(* The _end function after pthread_join: what is left is freed. *)
End ==
  /\ pc = "exit"
  /\ pc' = "ended"
  /\ packets' = << >>
  /\ UNCHANGED <<event, pushed, notifying, is_running, handled>>

Environment == Stop \/ End \/ \E p \in Producers : Push(p) \/ Notify(p)

-----------------------------------------------------------------------------
(* Steps of the workers. *)

Goto(from, to) ==
  /\ pc = from
  /\ pc' = to
  /\ UNCHANGED <<packets, event, pushed, notifying, is_running, handled>>

(* Mutant of LoopHead: the flag is not looked at. *)
LoopForever == Goto("loop", "poll")

(* The test of the outer while. *)
LoopHead == Goto("loop", IF is_running THEN "poll" ELSE "exit")

(* poll() in mt_evsock_wait finds the eventfd readable. *)
PollReady == event /\ Goto("poll", "read")

(* poll() in mt_evsock_wait times out. *)
PollTimeout(to) == ~event /\ Goto("poll", to)

(* read() on the eventfd, which resets its counter; nothing if it is zero. *)
ReadEvent(from, to) ==
  /\ pc = from
  /\ pc' = to
  /\ event' = FALSE
  /\ UNCHANGED <<packets, pushed, notifying, is_running, handled>>

(* prot_queue_pop returns a packet, which the worker handles. *)
Pop(from, to) ==
  /\ pc = from
  /\ packets # << >>
  /\ pc' = to
  /\ packets' = Tail(packets)
  /\ handled' = Append(handled, Head(packets))
  /\ UNCHANGED <<event, pushed, notifying, is_running>>

(* prot_queue_pop finds the queue empty. *)
PopEmpty(from, to) == packets = << >> /\ Goto(from, to)

-----------------------------------------------------------------------------
(* The types of the variables. *)
QTypeOK ==
  /\ packets \in Seq(1 .. MaxPackets)
  /\ event \in BOOLEAN
  /\ pushed \in 0 .. MaxPackets
  /\ notifying \subseteq Producers
  /\ is_running \in BOOLEAN
  /\ handled \in Seq(1 .. MaxPackets)

(***************************************************************************)
(* A worker that goes to wait has nothing left to do, or will be woken:    *)
(* what has been pushed and notified does not lie in the queue unseen.     *)
(***************************************************************************)
NoLostWakeup ==
  pc \in {"loop", "poll"} /\ packets # << >> => event \/ notifying # {}
=============================================================================
