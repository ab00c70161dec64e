------------------------- MODULE SenderWorkerProofs -------------------------
(* Theorems about SenderWorker, for any number of producers and packets. *)
EXTENDS SenderWorker, TLAPS

(* Whenever the worker is not popping, what is queued has its wake-up. *)
Covered == pc # "pop" /\ packets # << >> => event \/ notifying # {}

LEMMA EmptyIsSeq == << >> \in Seq(1 .. MaxPackets)
  OBVIOUS

(* Popping a packet keeps both sequences sequences of packets. *)
LEMMA PopIsSeq ==
  ASSUME QTypeOK, packets # << >>
  PROVE  /\ Tail(packets) \in Seq(1 .. MaxPackets)
         /\ Append(handled, Head(packets)) \in Seq(1 .. MaxPackets)
<1>1. ASSUME NEW S, NEW q \in Seq(S), NEW h \in Seq(S), q # << >>
      PROVE  Tail(q) \in Seq(S) /\ Append(h, Head(q)) \in Seq(S)
  BY <1>1
<1>2. packets \in Seq(1 .. MaxPackets) /\ handled \in Seq(1 .. MaxPackets)
  BY DEF QTypeOK
<1> QED
  BY <1>1, <1>2

LEMMA TypeStep == TypeOK /\ [Next]_qVars => TypeOK'
<1> SUFFICES ASSUME TypeOK, [Next]_qVars PROVE TypeOK'
  OBVIOUS
<1> USE QueueAssumption DEF TypeOK, QTypeOK
<1>1. ASSUME NEW p \in Producers, Push(p) PROVE TypeOK'
  BY <1>1 DEF Push
<1>2. ASSUME NEW p \in Producers, Notify(p) PROVE TypeOK'
  BY <1>2 DEF Notify
<1>3. CASE Stop \/ End
  BY <1>3, EmptyIsSeq DEF Stop, End
<1>4. CASE LoopHead \/ PollReady \/ PollTimeout("loop") \/ ReadEvent("read", "pop")
  BY <1>4 DEF LoopHead, PollReady, PollTimeout, ReadEvent, Goto
<1>5. CASE Drained
  <2>1. CASE PopEmpty("pop", "loop")
    BY <2>1 DEF PopEmpty, Goto
  <2>2. CASE Pop("pop", "pop")
    BY <2>2, PopIsSeq DEF Pop
  <2> QED
    BY <1>5, <2>1, <2>2 DEF Drained
<1>6. CASE UNCHANGED qVars
  BY <1>6 DEF qVars
<1> QED
  BY <1>1, <1>2, <1>3, <1>4, <1>5, <1>6 DEF Next, Environment, Worker

(* The variables of the sender keep their types. *)
THEOREM TypeCorrect == Spec => []TypeOK
<1>1. QInit => TypeOK
  <2> SUFFICES ASSUME QInit PROVE TypeOK
    OBVIOUS
  <2>1. packets \in Seq(1 .. MaxPackets) /\ handled \in Seq(1 .. MaxPackets)
    BY EmptyIsSeq DEF QInit
  <2>2. /\ event = FALSE /\ pushed = 0 /\ notifying = {}
        /\ is_running = TRUE /\ pc = "loop"
    BY DEF QInit
  <2>3. pushed \in 0 .. MaxPackets
    BY <2>2, QueueAssumption
  <2> QED
    BY <2>1, <2>2, <2>3 DEF TypeOK, QTypeOK
<1> QED
  BY <1>1, TypeStep, PTL DEF Spec

LEMMA CoveredStep == Covered /\ [Next]_qVars => Covered'
<1> SUFFICES ASSUME Covered, [Next]_qVars PROVE Covered'
  OBVIOUS
<1> USE DEF Covered
<1>1. ASSUME NEW p \in Producers, Push(p) PROVE Covered'
  BY <1>1 DEF Push
<1>2. ASSUME NEW p \in Producers, Notify(p) PROVE Covered'
  BY <1>2 DEF Notify
<1>3. CASE Stop \/ End
  BY <1>3 DEF Stop, End
<1>4. CASE LoopHead \/ PollReady \/ PollTimeout("loop") \/ ReadEvent("read", "pop")
  BY <1>4 DEF LoopHead, PollReady, PollTimeout, ReadEvent, Goto
<1>5. CASE Drained
  BY <1>5 DEF Drained, Pop, PopEmpty, Goto
<1>6. CASE UNCHANGED qVars
  BY <1>6 DEF qVars
<1> QED
  BY <1>1, <1>2, <1>3, <1>4, <1>5, <1>6 DEF Next, Environment, Worker

(***************************************************************************)
(* pvd_sender_worker never waits on a packet already notified: the eventfd *)
(* is only reset before the queue is emptied, and a push that comes later  *)
(* has its notification still to come.                                     *)
(***************************************************************************)
THEOREM SenderNeverOverlooks == Spec => []NoLostWakeup
<1>1. QInit => Covered
  BY DEF QInit, Covered
<1>2. Covered => NoLostWakeup
  BY DEF Covered, NoLostWakeup
<1> QED
  BY <1>1, <1>2, CoveredStep, PTL DEF Spec
=============================================================================
