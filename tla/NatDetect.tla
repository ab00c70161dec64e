------------------------------ MODULE NatDetect ------------------------------
(***************************************************************************)
(* How a node finds out what kind of NAT it is behind (code/devcore/       *)
(* natpunch): threads resolve the names of STUN servers into one array,    *)
(* nat_parallel_req asks two of them from one local port which port they   *)
(* see, and nat_get_type compares the answers.                             *)
(*                                                                         *)
(* The NAT is external: the port it shows to a server is the local one, or *)
(* another one, or a different one for each server.  Answers may be late,  *)
(* lost or repeated; nothing ties an answer to its request.                *)
(***************************************************************************)
EXTENDS Naturals, FiniteSets, Sequences

CONSTANTS Servers,                          \* numbers
          STUN_PARALLEL_RESOLUTION_LIMIT

ASSUME ServersAssumption ==
  Servers \subseteq Nat /\ IsFiniteSet(Servers) /\ STUN_PARALLEL_RESOLUTION_LIMIT \in Nat

VARIABLES nat,        \* the kind of NAT, and whether answers are repeated; fixed
          resolving,  \* servers whose thread is running
          q,          \* the addresses resolved
          req,        \* nat_parallel_req: where it is, first_i, second_i, addr[0]
          sock_open,  \* the socket has not been closed
          answers,    \* answers that have come to the port
          asked,      \* requests on their way to a server
          failed,     \* history: a name or a request failed
          nat_type    \* the result

nvars == <<nat, resolving, q, req, sock_open, answers, asked, failed, nat_type>>

Port == 1
NatKinds == {"NAT_STATIC", "NAT_DYNAMIC", "NAT_SYMMETRIC"}

(* The port a server sees (external). *)
SeenBy(s) ==
  CASE nat.kind = "NAT_STATIC"    -> Port
    [] nat.kind = "NAT_DYNAMIC"   -> Port + 1
    [] nat.kind = "NAT_SYMMETRIC" -> Port + 1 + s

(* nat_parallel_req: how many names each thread is given, a whole number. *)
ThreadsN == IF STUN_PARALLEL_RESOLUTION_LIMIT > Cardinality(Servers)
            THEN Cardinality(Servers) ELSE STUN_PARALLEL_RESOLUTION_LIMIT
NToResolve == ThreadsN \div Cardinality(Servers)

NInit ==
  /\ nat \in [kind : NatKinds, repeats : BOOLEAN]
  /\ resolving = IF NToResolve = 0 THEN {} ELSE Servers
  /\ q = << >>
  /\ req = [pc |-> "join", first_i |-> 1, second_i |-> 2, addr |-> 0]
  /\ sock_open = TRUE
  /\ answers = {} /\ asked = {}
  /\ failed = FALSE
  /\ nat_type = "none"

-----------------------------------------------------------------------------
(* _parallel_stun_resolution, in its own thread for each server. *)
Resolve(s) ==
  /\ s \in resolving
  /\ resolving' = resolving \ {s}
  /\ \/ q' = Append(q, s) /\ UNCHANGED failed
     \/ failed' = TRUE /\ UNCHANGED q
  /\ UNCHANGED <<nat, req, sock_open, answers, asked, nat_type>>

Ends(type) ==
  /\ nat_type' = type
  /\ req' = [req EXCEPT !.pc = "end"]

(* Mutant of Join: the threads are not waited for. *)
JoinAtOnce ==
  /\ req.pc = "join"
  /\ IF Len(q) < 2 THEN Ends("NAT_ERROR")
     ELSE req' = [req EXCEPT !.pc = "bind"] /\ UNCHANGED nat_type
  /\ UNCHANGED <<nat, resolving, q, sock_open, answers, asked, failed>>

(* The threads are joined. *)
Join ==
  /\ req.pc = "join" /\ resolving = {}
  /\ IF Len(q) < 2 THEN Ends("NAT_ERROR")
     ELSE req' = [req EXCEPT !.pc = "bind"] /\ UNCHANGED nat_type
  /\ UNCHANGED <<nat, resolving, q, sock_open, answers, asked, failed>>

(* nat_get_type: bind, which fails on a socket that was closed. *)
Bind ==
  /\ req.pc = "bind"
  /\ IF sock_open THEN req' = [req EXCEPT !.pc = "ask 1"] /\ UNCHANGED nat_type
     ELSE Ends("NAT_ERROR")
  /\ UNCHANGED <<nat, resolving, q, sock_open, answers, asked, failed>>

(* natp_request_stun: the request to the first or the second server, *)
Ask ==
  /\ req.pc \in {"ask 1", "ask 2"}
  /\ asked' = asked \cup {q[IF req.pc = "ask 1" THEN req.first_i ELSE req.second_i]}
  /\ req' = [req EXCEPT !.pc = IF req.pc = "ask 1" THEN "wait 1" ELSE "wait 2"]
  /\ UNCHANGED <<nat, resolving, q, sock_open, answers, failed, nat_type>>

(* Mutant of Classify: the second answer is not looked at. *)
ClassifyFirst(a, b) == IF a = Port THEN "NAT_STATIC" ELSE "NAT_DYNAMIC"

(* nat_get_type compares the two. *)
Classify(a, b) ==
  IF a # b THEN "NAT_SYMMETRIC"
  ELSE IF a = Port THEN "NAT_STATIC" ELSE "NAT_DYNAMIC"

(* the first answer that comes, whoever gave it, *)
Answered(port) ==
  /\ req.pc \in {"wait 1", "wait 2"}
  /\ port \in answers
  /\ answers' \in {answers \ {port}} \cup (IF nat.repeats THEN {answers} ELSE {})
  /\ IF req.pc = "wait 1"
     THEN req' = [req EXCEPT !.pc = "ask 2", !.addr = port] /\ UNCHANGED nat_type
     ELSE Ends(Classify(req.addr, port))
  /\ UNCHANGED <<nat, resolving, q, sock_open, asked, failed>>

Skip(i, other) == IF i + 1 = other THEN i + 2 ELSE i + 1

(***************************************************************************)
(* or none in a second: the socket is closed, and the next server is taken *)
(* for the one that failed, if there is another.                           *)
(***************************************************************************)
Unanswered ==
  /\ req.pc \in {"wait 1", "wait 2"}
  /\ answers = {}
  /\ sock_open' = FALSE
  /\ failed' = TRUE
  /\ LET first  == IF req.pc = "wait 1" THEN Skip(req.first_i, req.second_i) ELSE req.first_i
         second == IF req.pc = "wait 2" THEN Skip(req.second_i, req.first_i) ELSE req.second_i
     IN  IF first > Len(q) \/ second > Len(q) THEN Ends("NAT_ERROR")
         ELSE /\ req' = [req EXCEPT !.pc = "bind", !.first_i = first, !.second_i = second]
              /\ UNCHANGED nat_type
  /\ UNCHANGED <<nat, resolving, q, answers, asked>>

(* A STUN server answers (external); a closed socket gets nothing. *)
ServerAnswers(s) ==
  /\ s \in asked
  /\ asked' = asked \ {s}
  /\ answers' = IF sock_open THEN answers \cup {SeenBy(s)} ELSE answers
  /\ UNCHANGED <<nat, resolving, q, req, sock_open, failed, nat_type>>

LoseRequest(s) ==
  /\ s \in asked
  /\ asked' = asked \ {s}
  /\ UNCHANGED <<nat, resolving, q, req, sock_open, answers, failed, nat_type>>

NNext ==
  \/ \E s \in Servers : Resolve(s) \/ ServerAnswers(s) \/ LoseRequest(s)
  \/ Join \/ Bind \/ Ask \/ Unanswered
  \/ \E port \in answers : Answered(port)

NSpec == NInit /\ [][NNext]_nvars

-----------------------------------------------------------------------------
(***************************************************************************)
(* What is found is the kind of NAT there is, as long as the network does  *)
(* not repeat answers, although any answer is taken for the one waited for *)
(* and the order of the servers is that in which their names were resolved.*)
(***************************************************************************)
TypeIsRight == nat_type \in NatKinds /\ ~nat.repeats => nat_type = nat.kind

(***************************************************************************)
(* There is an error only if a name or a request failed, for no more names *)
(* than threads.                                                           *)
(***************************************************************************)
NoFalseAlarm ==
  nat_type = "NAT_ERROR" /\ Cardinality(Servers) \in 2 .. STUN_PARALLEL_RESOLUTION_LIMIT => failed
=============================================================================
