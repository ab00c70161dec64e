--------------------------- MODULE DispatcherWorker ---------------------------
(***************************************************************************)
(* rudp_dispatcher (code/devcore/rudp/src/dispatcher.c) as a worker thread *)
(* on its queue passed_pkts: it drains the eventfd after every wait, also  *)
(* after one that timed out, checks the retransmission timers, and pops    *)
(* only if the wait reported an event.  The io and st daemons of           *)
(* interface/src/daemons.c have the same loop.                             *)
(***************************************************************************)
EXTENDS NotifiedQueue

VARIABLE r   \* what mt_evsock_wait returned: TRUE for an event

dvars == <<qVars, r>>

DInit == QInit /\ r = FALSE

(* mt_evsock_wait(&disp->ev_passed, 100). *)
WaitPassed ==
  \/ PollReady /\ UNCHANGED r
  \/ ReadEvent("read", "clear") /\ r' = TRUE
  \/ PollTimeout("clear") /\ r' = FALSE

(* The drain that follows whatever the wait returned. *)
DrainAlways == ReadEvent("clear", "timeouts") /\ UNCHANGED r

(* The timers are checked; then, if (r == 0) continue. *)
CheckTimeouts == Goto("timeouts", IF r THEN "clear2" ELSE "loop") /\ UNCHANGED r

(* Mutant of PopAll: the wait is resumed after one packet. *)
PopFirst == (Pop("pop_all", "loop") \/ PopEmpty("pop_all", "loop")) /\ UNCHANGED r

(***************************************************************************)
(* The inner while pops first and tests is_running second: the packet      *)
(* popped after the dispatcher was stopped is dropped.                     *)
(***************************************************************************)
PopAll == /\ \/ is_running /\ Pop("pop_all", "pop_all")
             \/ PopEmpty("pop_all", "loop")
             \/ /\ ~is_running
                /\ pc = "pop_all" /\ packets # << >>
                /\ pc' = "loop"
                /\ packets' = Tail(packets)
                /\ UNCHANGED <<event, pushed, notifying, is_running, handled>>
          /\ UNCHANGED r

(* _rudp_dispatcher_worker. *)
DWorker ==
  \/ LoopHead /\ UNCHANGED r
  \/ WaitPassed
  \/ DrainAlways
  \/ CheckTimeouts
  \/ ReadEvent("clear2", "pop_all") /\ UNCHANGED r
  \/ PopAll

DNext == (Environment /\ UNCHANGED r) \/ DWorker

DSpec == DInit /\ [][DNext]_dvars

-----------------------------------------------------------------------------
(***************************************************************************)
(* A packet is overlooked only by a round whose wait timed out: after a    *)
(* round that was woken, the dispatcher waits with an empty queue or with  *)
(* a wake-up on its way.                                                   *)
(***************************************************************************)
OnlyTimeoutsOverlook == r /\ is_running => NoLostWakeup
=============================================================================
