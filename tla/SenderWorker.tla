---------------------------- MODULE SenderWorker ----------------------------
(***************************************************************************)
(* pvd_sender (code/devcore/providers/src/sender.c): every module sends    *)
(* through pvd_sender_send, which pushes and notifies; one worker thread   *)
(* pops packets until the queue is empty and gives them to the socket.     *)
(***************************************************************************)
EXTENDS NotifiedQueue

(* Mutant of Drained: one packet per wake-up. *)
DrainedOnce == Pop("pop", "loop") \/ PopEmpty("pop", "loop")

(* The inner while: pop until the queue is empty. *)
Drained == Pop("pop", "pop") \/ PopEmpty("pop", "loop")

(* pvd_sender_worker. *)
Worker ==
  \/ LoopHead
  \/ PollReady
  \/ PollTimeout("loop")
  \/ ReadEvent("read", "pop")
  \/ Drained

Next == Environment \/ Worker

Spec == QInit /\ [][Next]_qVars

(* The worker thread runs, and a producer that has pushed goes on to notify. *)
FairSpec == Spec /\ WF_qVars(Worker) /\ WF_qVars(End)
                 /\ \A p \in Producers : WF_qVars(Notify(p))

-----------------------------------------------------------------------------
TypeOK == QTypeOK /\ pc \in {"loop", "poll", "read", "pop", "exit", "ended"}

(***************************************************************************)
(* Every packet given to pvd_sender_send reaches the socket, unless the    *)
(* sender is being shut down.                                              *)
(***************************************************************************)
EverythingSent ==
  \A k \in 1 .. MaxPackets : pushed >= k ~> (~is_running \/ Len(handled) >= k)

(* pvd_sender_end returns: the thread it joins leaves its loop. *)
EndReturns == ~is_running ~> pc = "ended"
=============================================================================
