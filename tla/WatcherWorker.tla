---------------------------- MODULE WatcherWorker ----------------------------
(***************************************************************************)
(* watcher (code/devcore/watcher/src/system.c): the io daemon passes it    *)
(* every packet that is not an RUDP one; one worker thread pops one packet *)
(* for each wake-up and calls the handler of its type.                     *)
(***************************************************************************)
EXTENDS NotifiedQueue

(***************************************************************************)
(* One prot_queue_pop, the handler, and back to the head of the loop.  A   *)
(* queue found empty is reported and skipped.                              *)
(***************************************************************************)
HandleOne ==
  /\ pc = "pop"
  /\ pc' = "loop"
  /\ packets' = IF packets = << >> THEN << >> ELSE Tail(packets)
  /\ handled' = IF packets = << >> THEN handled ELSE Append(handled, Head(packets))
  /\ UNCHANGED <<event, pushed, notifying, is_running>>

(* watcher_worker. *)
Worker ==
  \/ LoopHead
  \/ PollReady
  \/ PollTimeout("loop")
  \/ ReadEvent("read", "drain")
  \/ ReadEvent("drain", "pop")
  \/ HandleOne

Next == Environment \/ Worker

Spec == QInit /\ [][Next]_qVars

-----------------------------------------------------------------------------
TypeOK == QTypeOK /\ pc \in {"loop", "poll", "read", "drain", "pop", "exit", "ended"}

(***************************************************************************)
(* The worker that has been woken finds a packet: the error "failed to pop *)
(* packet at watcher worker" is never reached, although notifications are  *)
(* merged and producers overtake each other between push and notify.       *)
(***************************************************************************)
WakeFindsPacket == pc \in {"drain", "pop"} => packets # << >>
=============================================================================
