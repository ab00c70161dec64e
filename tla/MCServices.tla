----------------------------- MODULE MCServices -----------------------------
(* The threads that must get on with their work, on small instances: a     *)
(* behaviour is one of the sender, of an encrypted session over RUDP with  *)
(* the calls in the example's order, or of the HTTP server.                *)
EXTENDS SenderWorker, E2eeSession, HttpServer

VARIABLE system   \* which of them; fixed

servicevars == <<system, qVars, evars, svars>>

ServicesInit ==
  /\ system \in {"sender", "e2ee", "http"}
  /\ QInit /\ EInit /\ SInit
  /\ over = "rudp" /\ usage = "example"

OnSender == system = "sender" /\ UNCHANGED <<system, evars, svars>>
OnE2ee   == system = "e2ee" /\ UNCHANGED <<system, qVars, svars>>
OnHttp   == system = "http" /\ UNCHANGED <<system, qVars, evars>>

ServicesNext ==
  \/ OnSender /\ Next
  \/ OnE2ee /\ ENext
  \/ OnHttp /\ SNext

(* The fairness of FairSpec, of ESpec and of SSpec. *)
ServicesSpec ==
  /\ ServicesInit /\ [][ServicesNext]_servicevars
  /\ WF_servicevars(OnSender /\ Worker) /\ WF_servicevars(OnSender /\ End)
  /\ \A p \in Producers : WF_servicevars(OnSender /\ Notify(p))
  /\ \A s \in Sides : /\ WF_servicevars(OnE2ee /\ HandshakeInit(s))
                      /\ WF_servicevars(OnE2ee /\ Handles(s))
  /\ WF_servicevars(OnHttp /\ Runner)
=============================================================================
