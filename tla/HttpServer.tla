------------------------------ MODULE HttpServer ------------------------------
(***************************************************************************)
(* The HTTP server (code/devcore/uhttp/src/server.c) through which users   *)
(* give a node its orders.  Three threads: the accepter takes connections, *)
(* the runner reads requests and writes responses, and the thread that     *)
(* called uhttp_server_poll_routes answers requests.  They hand on work    *)
(* through three queues with an eventfd each; a push and the notification  *)
(* that follows it are two steps, a wait and the drain after it are one,   *)
(* since nothing is looked at in between.                                  *)
(*                                                                         *)
(* A connection is known to the server by its descriptor only, and the     *)
(* system gives out the lowest that is free.  A client asks again when it  *)
(* has its answer; its request comes in two segments, which one read may   *)
(* find together.                                                          *)
(***************************************************************************)
EXTENDS Naturals, FiniteSetsExt, SequencesExt

CONSTANTS Clients,
          MaxRequests   \* bound: requests of all clients

ASSUME ClientsAssumption == IsFiniteSet(Clients)

VARIABLES net,          \* of each client: its descriptor at the server, 0 if none,
                        \* and the segments of its request that are unread
          hist,         \* history of each client: requests, answers, hung up
          clis, ev,                    \* accepted sockets
          requests, request_ev,        \* requests read
          responses, response_ev,      \* responses to be written
          accepter, runner, poller,    \* the threads
          running                      \* is_running

svars == <<net, hist, clis, ev, requests, request_ev, responses, response_ev,
           accepter, runner, poller, running>>

SInit ==
  /\ net = [c \in Clients |-> [fd |-> 0, unread |-> 0, sent |-> 2, backlog |-> FALSE]]
  /\ hist = [c \in Clients |-> [asked |-> 0, got |-> << >>, gone |-> FALSE]]
  /\ clis = << >> /\ requests = << >> /\ responses = << >>
  /\ ev = FALSE /\ request_ev = FALSE /\ response_ev = FALSE
  /\ accepter = [pc |-> "accept"]
  /\ runner = [pc |-> "wait", clients |-> << >>, i |-> 1]
  /\ poller = [pc |-> "wait", resp |-> 0]
  /\ running = TRUE

Accepter == <<clis, ev, accepter>>
Queues   == <<requests, request_ev, responses, response_ev>>

-----------------------------------------------------------------------------
(* The clients. *)
Connect(c) ==
  /\ net[c].fd = 0 /\ ~net[c].backlog /\ ~hist[c].gone
  /\ net' = [net EXCEPT ![c].backlog = TRUE]
  /\ UNCHANGED <<hist, Accepter, Queues, runner, poller, running>>

(* Which of the answers a client got are to requests of its own. *)
Own(c, got) == {i \in DOMAIN got : got[i][1] = c}

(* A segment of a request; the first one begins a request. *)
SendSegment(c) ==
  /\ net[c].fd # 0 /\ ~hist[c].gone
  /\ \/ /\ net[c].sent = 2
        /\ MapThenSumSet(LAMBDA d : hist[d].asked, Clients) < MaxRequests
        /\ hist[c].asked = Cardinality(Own(c, hist[c].got))
        /\ hist' = [hist EXCEPT ![c].asked = @ + 1]
        /\ net' = [net EXCEPT ![c].sent = 1, ![c].unread = @ + 1]
     \/ /\ net[c].sent = 1
        /\ net' = [net EXCEPT ![c].sent = 2, ![c].unread = @ + 1]
        /\ UNCHANGED hist
  /\ UNCHANGED <<Accepter, Queues, runner, poller, running>>

HangUp(c) ==
  /\ net[c].fd # 0 /\ ~hist[c].gone
  /\ hist' = [hist EXCEPT ![c].gone = TRUE]
  /\ UNCHANGED <<net, Accepter, Queues, runner, poller, running>>

-----------------------------------------------------------------------------
(* accept4: the connection gets the lowest descriptor that is free. *)
FreeFd == Min((1 .. Cardinality(Clients)) \ {net[c].fd : c \in Clients})

Accept(c) ==
  /\ accepter.pc = "accept"
  /\ net[c].backlog
  /\ net' = [net EXCEPT ![c].fd = FreeFd, ![c].backlog = FALSE]
  /\ clis' = Append(clis, FreeFd)
  /\ accepter' = [pc |-> "notify"]
  /\ UNCHANGED <<hist, ev, Queues, runner, poller, running>>

(* The notification; is_running is tested before the next wait only. *)
AcceptNotify ==
  /\ accepter.pc = "notify"
  /\ ev' = TRUE
  /\ accepter' = [pc |-> IF running THEN "accept" ELSE "ended"]
  /\ UNCHANGED <<net, hist, clis, Queues, runner, poller, running>>

(* A wait that timed out, after the server was stopped. *)
AccepterEnds ==
  /\ accepter.pc = "accept" /\ ~running
  /\ accepter' = [pc |-> "ended"]
  /\ UNCHANGED <<net, hist, clis, ev, Queues, runner, poller, running>>

-----------------------------------------------------------------------------
(* Mutant of RunnerWait: is_running is not looked at. *)
RunnerWaitForEver ==
  /\ runner.pc = "wait"
  /\ runner' = [runner EXCEPT !.pc = IF ev THEN "take" ELSE "resp"]
  /\ ev' = FALSE
  /\ UNCHANGED <<net, hist, clis, Queues, accepter, poller, running>>

(* runner: the wait for accepted sockets, and the test of is_running. *)
RunnerWait ==
  /\ runner.pc = "wait"
  /\ runner' = [runner EXCEPT !.pc = IF ~running THEN "ended" ELSE IF ev THEN "take" ELSE "resp"]
  /\ ev' = (ev /\ ~running)
  /\ UNCHANGED <<net, hist, clis, Queues, accepter, poller, running>>

(* Each accepted socket becomes an uhttp_cli_state. *)
RunnerTake ==
  /\ runner.pc = "take"
  /\ IF clis = << >>
     THEN runner' = [runner EXCEPT !.pc = "resp"] /\ UNCHANGED clis
     ELSE /\ clis' = Tail(clis)
          /\ runner' = [runner EXCEPT !.clients =
                          Append(@, [fd |-> Head(clis), read |-> 0, read_done |-> FALSE])]
  /\ UNCHANGED <<net, hist, ev, Queues, accepter, poller, running>>

(* The wait for responses, of no time. *)
RunnerResponses ==
  /\ runner.pc = "resp"
  /\ runner' = [runner EXCEPT !.pc = IF response_ev THEN "write" ELSE "serve", !.i = 1]
  /\ response_ev' = FALSE
  /\ UNCHANGED <<net, hist, Accepter, requests, request_ev, responses, poller, running>>

At(fd) == {c \in Clients : net[c].fd = fd}

(* The response is built and written to the descriptor. *)
RunnerWrite ==
  /\ runner.pc = "write"
  /\ IF responses = << >>
     THEN runner' = [runner EXCEPT !.pc = "serve", !.i = 1] /\ UNCHANGED <<responses, hist>>
     ELSE /\ responses' = Tail(responses)
          /\ hist' = [c \in Clients |->
                        IF c \in At(Head(responses).fd)
                        THEN [hist[c] EXCEPT !.got = Append(@, Head(responses).req)] ELSE hist[c]]
          /\ UNCHANGED runner
  /\ UNCHANGED <<net, Accepter, requests, request_ev, response_ev, poller, running>>

(***************************************************************************)
(* The loop over the clients.  A client with nothing to read is looked at  *)
(* again and again: there is no step for it.                               *)
(***************************************************************************)
Cli == runner.clients[runner.i]
Who == CHOOSE c \in At(Cli.fd) : TRUE
Readable == net[Who].unread > 0 \/ hist[Who].gone

Served(cli) == [runner EXCEPT !.clients[runner.i] = cli, !.i = runner.i + 1]

(* handler, when the socket is read: a short read means done. *)
Reads ==
  /\ ~Cli.read_done /\ net[Who].unread > 0
  /\ net' = [net EXCEPT ![Who].unread = 0]
  /\ IF Cli.read + net[Who].unread = 2
     THEN /\ requests' = Append(requests, [fd |-> Cli.fd, req |-> <<Who, hist[Who].asked>>])
          /\ runner' = [runner EXCEPT !.pc = "notify"]
     ELSE /\ runner' = Served([Cli EXCEPT !.read = net[Who].unread, !.read_done = TRUE])
          /\ UNCHANGED requests

(* handler, when the reading was done and the request was not complete. *)
ParsesAgain ==
  /\ Cli.read_done
  /\ runner' = Served(Cli)
  /\ UNCHANGED <<net, requests>>

(* handler, at the end of the stream: the client is deleted. *)
Closes ==
  /\ ~Cli.read_done /\ net[Who].unread = 0 /\ hist[Who].gone
  /\ net' = [net EXCEPT ![Who].fd = 0]
  /\ runner' = [runner EXCEPT !.clients = RemoveAt(@, runner.i)]
  /\ UNCHANGED requests

RunnerServe ==
  /\ runner.pc = "serve"
  /\ runner.i <= Len(runner.clients)
  /\ Readable
  /\ Reads \/ ParsesAgain \/ Closes
  /\ UNCHANGED <<hist, Accepter, request_ev, responses, response_ev, poller, running>>

(* Mutant of RunnerNotify: the poller is not told. *)
RunnerNotifyForgotten ==
  /\ runner.pc = "notify"
  /\ runner' = [Served([Cli EXCEPT !.read = 0]) EXCEPT !.pc = "serve"]
  /\ UNCHANGED <<net, hist, Accepter, Queues, poller, running>>

(* handler after its push. *)
RunnerNotify ==
  /\ runner.pc = "notify"
  /\ request_ev' = TRUE
  /\ runner' = [Served([Cli EXCEPT !.read = 0]) EXCEPT !.pc = "serve"]
  /\ UNCHANGED <<net, hist, Accepter, requests, responses, response_ev, poller, running>>

RunnerAround ==
  /\ runner.pc = "serve"
  /\ runner.i > Len(runner.clients)
  /\ runner' = [runner EXCEPT !.pc = "wait"]
  /\ UNCHANGED <<net, hist, Accepter, Queues, poller, running>>

Runner == RunnerWait \/ RunnerTake \/ RunnerResponses \/ RunnerWrite
            \/ RunnerServe \/ RunnerNotify \/ RunnerAround

-----------------------------------------------------------------------------
(* uhttp_server_poll_routes: uhttp_wait_requests, *)
PollerWait ==
  /\ poller.pc = "wait"
  /\ poller' = [poller EXCEPT !.pc = IF ~running THEN "ended" ELSE IF request_ev THEN "pop" ELSE "wait"]
  /\ request_ev' = (request_ev /\ ~running)
  /\ UNCHANGED <<net, hist, Accepter, requests, responses, response_ev, runner, running>>

(* Mutant of Answer: the response goes to the client served now. *)
AnswerLatest(req) ==
  [fd |-> IF runner.clients = << >> THEN req.fd ELSE Last(runner.clients).fd, req |-> req.req]

(* uhttp_send_response: the response takes the descriptor of the request. *)
Answer(req) == [fd |-> req.fd, req |-> req.req]

(* the handler of the route, or 404, *)
PollerAnswer ==
  /\ poller.pc = "pop"
  /\ IF requests = << >>
     THEN poller' = [poller EXCEPT !.pc = "wait"] /\ UNCHANGED <<requests, responses>>
     ELSE /\ requests' = Tail(requests)
          /\ responses' = Append(responses, Answer(Head(requests)))
          /\ poller' = [poller EXCEPT !.pc = "notify"]
  /\ UNCHANGED <<net, hist, Accepter, request_ev, response_ev, runner, running>>

(* and the notification. *)
PollerNotify ==
  /\ poller.pc = "notify"
  /\ response_ev' = TRUE
  /\ poller' = [poller EXCEPT !.pc = "pop"]
  /\ UNCHANGED <<net, hist, Accepter, requests, request_ev, responses, runner, running>>

(* uhttp_server_stop *)
ServerStop ==
  /\ running
  /\ running' = FALSE
  /\ UNCHANGED <<net, hist, Accepter, Queues, runner, poller>>

SNext ==
  \/ \E c \in Clients : Connect(c) \/ SendSegment(c) \/ HangUp(c) \/ Accept(c)
  \/ AcceptNotify \/ AccepterEnds
  \/ Runner
  \/ PollerWait \/ PollerAnswer \/ PollerNotify
  \/ ServerStop

(* The thread of the runner is scheduled. *)
SSpec == SInit /\ [][SNext]_svars /\ WF_svars(Runner)

-----------------------------------------------------------------------------
(***************************************************************************)
(* No thread waits with work in its queue that nobody will tell it of: a   *)
(* connection, a request or a response is not left lying.                  *)
(***************************************************************************)
NothingLeftLying ==
  /\ runner.pc = "wait" /\ clis # << >> => ev \/ accepter.pc = "notify"
  /\ runner.pc = "wait" /\ responses # << >> => response_ev \/ poller.pc = "notify"
  /\ poller.pc = "wait" /\ requests # << >> => request_ev \/ runner.pc = "notify"

(***************************************************************************)
(* A client gets the answers to its requests, each once and in order, and  *)
(* a stray answer only if the client it was for has hung up without it and *)
(* its descriptor was given out again.                                     *)
(***************************************************************************)
AnswersFit ==
  \A c \in Clients :
    LET got == hist[c].got
    IN  /\ \A i \in Own(c, got) : got[i][2] = Cardinality(Own(c, SubSeq(got, 1, i)))
        /\ \A i \in DOMAIN got \ Own(c, got) : hist[got[i][1]].gone

(***************************************************************************)
(* A server that was stopped and whose clients have hung up ends its       *)
(* runner, whatever it was in the middle of, so that uhttp_server_end can  *)
(* join it.  (It does not look at is_running while a client is silent.)    *)
(***************************************************************************)
StopHeeded == (~running /\ \A c \in Clients : hist[c].gone) ~> runner.pc = "ended"
=============================================================================
