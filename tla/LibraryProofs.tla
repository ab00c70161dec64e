----------------------------- MODULE LibraryProofs -----------------------------
(***************************************************************************)
(* Proofs about the libraries that threads share: the SOCKS5 proxy and its *)
(* table of descriptors, the wrapper of picoquic and its two threads, the  *)
(* HTTP server and its three, and the parsers of HTTP messages.            *)
(***************************************************************************)
EXTENDS Socks5, QuicCore, HttpServer, HttpMessages, TLAPS, FiniteSetTheorems, SequenceTheorems

(* A queue whose first element is taken. *)
LEMMA TailOf ==
  ASSUME NEW S, NEW q \in Seq(S), q # << >>
  PROVE  /\ Tail(q) \in Seq(S) /\ Len(Tail(q)) = Len(q) - 1 /\ Len(q) \in Nat /\ Len(q) >= 1
         /\ Head(q) = q[1] /\ q[1] \in S /\ DOMAIN q = 1 .. Len(q) /\ DOMAIN Tail(q) = 1 .. (Len(q) - 1)
         /\ \A i \in 1 .. (Len(q) - 1) : Tail(q)[i] = q[i + 1] /\ i + 1 \in 1 .. Len(q)
OBVIOUS

(* A queue with an element more. *)
LEMMA AppendOf ==
  ASSUME NEW S, NEW q \in Seq(S), NEW e \in S
  PROVE  /\ Append(q, e) \in Seq(S) /\ Len(Append(q, e)) = Len(q) + 1 /\ Len(q) \in Nat
         /\ DOMAIN q = 1 .. Len(q) /\ DOMAIN Append(q, e) = 1 .. (Len(q) + 1)
         /\ \A i \in 1 .. Len(q) : Append(q, e)[i] = q[i]
         /\ Append(q, e)[Len(q) + 1] = e
OBVIOUS

(* The least of a set of numbers. *)
LEMMA MinIn ==
  ASSUME NEW S \in SUBSET Nat, S # {}
  PROVE  Min(S) \in S /\ \A y \in S : Min(S) <= y
<1> DEFINE T == {0 .. x : x \in S}
<1>1. T \in SUBSET FiniteSubsetsOf(Nat) /\ T # {}
  <2>1. ASSUME NEW x \in S PROVE 0 .. x \in FiniteSubsetsOf(Nat)
    BY <2>1, FS_Interval DEF FiniteSubsetsOf
  <2> QED
    BY <2>1
<1>2. PICK t \in T : \A u \in T : ~(<<u, t>> \in StrictSubsetOrdering(Nat))
  <2> HIDE DEF T
  <2> QED
    BY <1>1, WFMin, FS_StrictSubsetOrderingWellFounded
<1>3. PICK x \in S : t = 0 .. x
  BY <1>2
<1>4. ASSUME NEW y \in S PROVE x <= y
  <2>1. CASE y < x
    <3>1. 0 .. y \subseteq t /\ x \in t /\ x \notin 0 .. y
      BY <1>3, <2>1
    <3>2. <<0 .. y, t>> \in StrictSubsetOrdering(Nat)
      BY <1>3, <3>1 DEF StrictSubsetOrdering
    <3> QED
      BY <1>2, <3>2
  <2> QED
    BY <2>1
<1> QED
  BY <1>3, <1>4 DEF Min

-----------------------------------------------------------------------------
(* The SOCKS5 proxy. *)

Descriptors == 1 .. MaxFd

XThreads ==
  [pc : {"none", "forgotten", "greeting", "request", "resolve", "close_try", "reply",
         "tunnel", "close_remote", "close_client", "done"},
   client : {NoFd} \cup Descriptors, remote : {NoFd} \cup Descriptors,
   type : {"none", "ip", "domain"}, tried : Nat]

XTypeOK ==
  /\ fds \in [Descriptors -> Threads \cup {"free"}]
  /\ thr \in [Threads -> XThreads]
  /\ spoiled \in BOOLEAN

HoldsClient(t) ==
  thr[t].pc \in {"greeting", "request", "resolve", "close_try", "reply", "tunnel",
                 "close_remote", "close_client"}

HoldsRemote(t) ==
  \/ thr[t].pc \in {"close_try", "tunnel"}
  \/ thr[t].pc \in {"reply", "close_remote"} /\ thr[t].remote # NoFd

(* The descriptors a thread will use again are its own, and are two. *)
OwnsWhatItHolds(t) ==
  /\ HoldsClient(t) => thr[t].client \in Descriptors /\ fds[thr[t].client] = t
  /\ HoldsRemote(t) => /\ HoldsClient(t)
                       /\ thr[t].remote \in Descriptors /\ fds[thr[t].remote] = t
                       /\ thr[t].remote # thr[t].client

XInv == XTypeOK /\ (~spoiled => \A t \in Threads : OwnsWhatItHolds(t))

(* The system gives out a free descriptor. *)
LEMMA LowestIsFree ==
  ASSUME XTypeOK, Free # {}
  PROVE  Lowest \in Descriptors /\ fds[Lowest] = "free"
<1>1. DOMAIN fds = Descriptors /\ Free \in SUBSET Nat
  BY DescriptorsAssumption DEF XTypeOK, Free, Descriptors
<1>2. Lowest \in Free
  BY <1>1, MinIn DEF Lowest
<1> QED
  BY <1>1, <1>2 DEF Free

(* A thread that leaves the descriptors of others alone. *)
LEMMA OthersKeepTheirs ==
  ASSUME XInv, ~spoiled, NEW t \in Threads, NEW rec, thr' = [thr EXCEPT ![t] = rec],
         \A f \in Descriptors : fds[f] \in Threads \ {t} => fds'[f] = fds[f],
         OwnsWhatItHolds(t)'
  PROVE  \A u \in Threads : OwnsWhatItHolds(u)'
<1>1. ASSUME NEW u \in Threads, u # t PROVE OwnsWhatItHolds(u)'
  <2>1. OwnsWhatItHolds(u) /\ thr'[u] = thr[u]
    BY <1>1 DEF XInv, XTypeOK
  <2> QED
    BY <1>1, <2>1 DEF OwnsWhatItHolds, HoldsClient, HoldsRemote
<1> QED
  BY <1>1

(* What opening a descriptor does. *)
LEMMA OpenedStep ==
  ASSUME XInv, NEW t \in Threads, Free # {}, fds' = Opened(t)
  PROVE  /\ fds' \in [Descriptors -> Threads \cup {"free"}]
         /\ Lowest \in Descriptors /\ fds'[Lowest] = t
         /\ \A f \in Descriptors : fds[f] \in Threads => fds'[f] = fds[f] /\ f # Lowest
BY LowestIsFree, DescriptorsAssumption DEF XInv, XTypeOK, Opened

(* What closing a descriptor does. *)
LEMMA ClosedStep ==
  ASSUME XInv, NEW f, fds' = Closed(f)
  PROVE  /\ fds' \in [Descriptors -> Threads \cup {"free"}]
         /\ \A g \in Descriptors : g # f => fds'[g] = fds[g]
BY DEF XInv, XTypeOK, Closed

(* A step of a thread. *)
LEMMA ThreadStep ==
  ASSUME XInv, NEW t \in Threads, NEW rec \in XThreads, Becomes(t, rec), spoiled' = spoiled,
         fds' \in [Descriptors -> Threads \cup {"free"}],
         ~spoiled => /\ \A f \in Descriptors : fds[f] \in Threads \ {t} => fds'[f] = fds[f]
                     /\ OwnsWhatItHolds(t)'
  PROVE  XInv'
<1>1. thr' = [thr EXCEPT ![t] = rec]
  BY DEF Becomes
<1>2. XTypeOK'
  BY <1>1 DEF XInv, XTypeOK
<1>3. ~spoiled => \A u \in Threads : OwnsWhatItHolds(u)'
  BY <1>1, OthersKeepTheirs
<1> QED
  BY <1>2, <1>3 DEF XInv

(* A thread that goes on, with the descriptors it has. *)
LEMMA GoOnStep ==
  ASSUME XInv, NEW t \in Threads, NEW rec \in XThreads, Becomes(t, rec), UNCHANGED <<fds, spoiled>>,
         rec.client = thr[t].client, HoldsClient(t),
         \/ rec.pc \in {"request", "resolve"}
         \/ rec.pc \in {"reply", "close_remote"} /\ rec.remote = NoFd
         \/ rec.pc \in {"tunnel", "close_remote"} /\ rec.remote = thr[t].remote /\ HoldsRemote(t)
  PROVE  XInv'
<1>1. thr'[t] = rec
  BY DEF XInv, XTypeOK, Becomes
<1>2. ~spoiled => OwnsWhatItHolds(t)
  BY DEF XInv
<1>3. ~spoiled => OwnsWhatItHolds(t)'
  BY <1>1, <1>2 DEF OwnsWhatItHolds, HoldsClient, HoldsRemote
<1>4. fds' \in [Descriptors -> Threads \cup {"free"}] /\ \A f \in Descriptors : fds'[f] = fds[f]
  BY DEF XInv, XTypeOK
<1> QED
  BY <1>3, <1>4, ThreadStep

(* Before the first client the invariant holds. *)
LEMMA XInitInv == XInit => XInv
<1> SUFFICES ASSUME XInit PROVE XInv
  OBVIOUS
<1>1. Idle \in XThreads /\ Idle.pc = "none"
  BY DEF Idle, XThreads
<1>2. XTypeOK
  BY <1>1 DEF XInit, XTypeOK, Descriptors
<1>3. \A t \in Threads : OwnsWhatItHolds(t)
  BY <1>1 DEF XInit, OwnsWhatItHolds, HoldsClient, HoldsRemote
<1> QED
  BY <1>2, <1>3 DEF XInv

(* Every step of the proxy keeps the invariant. *)
LEMMA XNextInv == XInv /\ [XNext]_xvars => XInv'
<1> SUFFICES ASSUME XInv, [XNext]_xvars PROVE XInv'
  OBVIOUS
<1>1. /\ XTypeOK /\ fds \in [Descriptors -> Threads \cup {"free"}]
      /\ NoFd \notin Descriptors
      /\ \A f \in Descriptors : f > 0
  BY DescriptorsAssumption DEF XInv, XTypeOK, Descriptors, NoFd
<1>2. ASSUME NEW t \in Threads, AcceptClient(t) PROVE XInv'
  <2>1. thr[t] \in XThreads /\ spoiled' = spoiled /\ Free # {}
    BY <1>1, <1>2 DEF XTypeOK, AcceptClient
  <2>2. CASE fds' = Opened(t) /\ Becomes(t, [Idle EXCEPT !.pc = "greeting", !.client = Lowest])
    <3> DEFINE rec == [Idle EXCEPT !.pc = "greeting", !.client = Lowest]
    <3>1. rec \in XThreads /\ rec.pc = "greeting" /\ rec.client = Lowest
      BY <1>1, <2>1, LowestIsFree DEF Idle, XThreads
    <3>2. Becomes(t, rec) /\ thr'[t] = rec
      BY <1>1, <2>2 DEF Becomes, XTypeOK
    <3> HIDE DEF rec
    <3>3. OwnsWhatItHolds(t)'
      BY <2>1, <2>2, <3>1, <3>2, OpenedStep DEF OwnsWhatItHolds, HoldsClient, HoldsRemote
    <3> QED
      BY <2>1, <2>2, <3>1, <3>2, <3>3, OpenedStep, ThreadStep
  <2>3. CASE fds' = Opened(t) /\ Becomes(t, [Idle EXCEPT !.pc = "forgotten", !.client = Lowest])
    <3> DEFINE rec == [Idle EXCEPT !.pc = "forgotten", !.client = Lowest]
    <3>1. rec \in XThreads /\ rec.pc = "forgotten"
      BY <1>1, <2>1, LowestIsFree DEF Idle, XThreads
    <3>2. Becomes(t, rec) /\ thr'[t] = rec
      BY <1>1, <2>3 DEF Becomes, XTypeOK
    <3> HIDE DEF rec
    <3>3. OwnsWhatItHolds(t)'
      BY <3>1, <3>2 DEF OwnsWhatItHolds, HoldsClient, HoldsRemote
    <3> QED
      BY <2>1, <2>3, <3>1, <3>2, <3>3, OpenedStep, ThreadStep
  <2>4. CASE Becomes(t, [Idle EXCEPT !.pc = "done"]) /\ UNCHANGED fds
    <3> DEFINE rec == [Idle EXCEPT !.pc = "done"]
    <3>1. rec \in XThreads /\ rec.pc = "done"
      BY DEF Idle, XThreads
    <3>2. Becomes(t, rec) /\ thr'[t] = rec
      BY <1>1, <2>4 DEF Becomes, XTypeOK
    <3> HIDE DEF rec
    <3>3. OwnsWhatItHolds(t)'
      BY <3>1, <3>2 DEF OwnsWhatItHolds, HoldsClient, HoldsRemote
    <3> QED
      BY <1>1, <2>1, <2>4, <3>1, <3>2, <3>3, ThreadStep
  <2> QED
    BY <1>2, <2>2, <2>3, <2>4 DEF AcceptClient
(* The thread closes a descriptor of its own. *)
<1>4. ASSUME NEW t \in Threads, NEW f, NEW rec \in XThreads, Becomes(t, rec), fds' = Closed(f),
             spoiled' = spoiled, OwnsWhatItHolds(t) => f = NoFd \/ fds[f] = t,
             ~spoiled => OwnsWhatItHolds(t)'
      PROVE  XInv'
  <2>1. ~spoiled => OwnsWhatItHolds(t)
    BY DEF XInv
  <2>2. ~spoiled => \A g \in Descriptors : fds[g] \in Threads \ {t} => fds'[g] = fds[g]
    BY <1>1, <1>4, <2>1, ClosedStep
  <2> QED
    BY <1>4, <2>2, ClosedStep, ThreadStep
<1>5. ASSUME NEW t \in Threads, Greeting(t) PROVE XInv'
  <2>1. thr[t] \in XThreads /\ thr[t].pc = "greeting" /\ spoiled' = spoiled
    BY <1>1, <1>5 DEF XTypeOK, Greeting
  <2>2. CASE Becomes(t, [thr[t] EXCEPT !.pc = "request"]) /\ UNCHANGED fds
    <3> DEFINE rec == [thr[t] EXCEPT !.pc = "request"]
    <3>1. rec \in XThreads /\ rec.pc = "request" /\ rec.client = thr[t].client
      BY <2>1 DEF XThreads
    <3>2. HoldsClient(t) /\ Becomes(t, rec)
      BY <2>1, <2>2 DEF HoldsClient
    <3> HIDE DEF rec
    <3> QED
      BY <2>1, <2>2, <3>1, <3>2, GoOnStep
  <2>3. CASE Becomes(t, [thr[t] EXCEPT !.pc = "done"]) /\ fds' = Closed(thr[t].client)
    <3> DEFINE rec == [thr[t] EXCEPT !.pc = "done"]
    <3>1. rec \in XThreads /\ rec.pc = "done"
      BY <2>1 DEF XThreads
    <3>2. Becomes(t, rec) /\ thr'[t] = rec
      BY <1>1, <2>3 DEF Becomes, XTypeOK
    <3> HIDE DEF rec
    <3>3. OwnsWhatItHolds(t)'
      BY <3>1, <3>2 DEF OwnsWhatItHolds, HoldsClient, HoldsRemote
    <3>4. OwnsWhatItHolds(t) => fds[thr[t].client] = t
      BY <2>1 DEF OwnsWhatItHolds, HoldsClient
    <3> QED
      BY <1>4, <2>1, <2>3, <3>1, <3>2, <3>3, <3>4
  <2> QED
    BY <1>5, <2>2, <2>3 DEF Greeting
<1>6. ASSUME NEW t \in Threads, NEW type \in {"ip", "domain"}, HandleRequest(t, type) PROVE XInv'
  <2> DEFINE rec == [thr[t] EXCEPT !.pc = "resolve", !.type = type]
  <2>1. /\ thr[t] \in XThreads /\ thr[t].pc = "request"
        /\ Becomes(t, rec) /\ UNCHANGED <<fds, spoiled>>
    BY <1>1, <1>6 DEF XTypeOK, HandleRequest
  <2>2. rec \in XThreads /\ rec.pc = "resolve" /\ rec.client = thr[t].client
    BY <2>1 DEF XThreads
  <2>3. HoldsClient(t)
    BY <2>1 DEF HoldsClient
  <2> HIDE DEF rec
  <2> QED
    BY <2>1, <2>2, <2>3, GoOnStep
<1>7. ASSUME NEW t \in Threads, NEW garbage, RefuseRequest(t, garbage) PROVE XInv'
  <2> DEFINE rec == [thr[t] EXCEPT !.pc = "close_client"]
  <2>1. /\ thr[t] \in XThreads /\ thr' = [thr EXCEPT ![t] = rec] /\ spoiled' = TRUE
        /\ fds' = Closed(garbage)
    BY <1>1, <1>7 DEF XTypeOK, RefuseRequest, Becomes
  <2>2. rec \in XThreads
    BY <2>1 DEF XThreads
  <2> HIDE DEF rec
  <2>3. fds' \in [Descriptors -> Threads \cup {"free"}]
    BY <2>1, ClosedStep
  <2> QED
    BY <1>1, <2>1, <2>2, <2>3 DEF XInv, XTypeOK
<1>8. ASSUME NEW t \in Threads, ResolveIp(t) PROVE XInv'
  <2>1. /\ thr[t] \in XThreads /\ thr[t].pc = "resolve" /\ spoiled' = spoiled
        /\ Free # {} /\ fds' = Opened(t)
    BY <1>1, <1>8 DEF XTypeOK, ResolveIp
  <2>2. /\ Lowest \in Descriptors /\ fds'[Lowest] = t
        /\ fds' \in [Descriptors -> Threads \cup {"free"}]
        /\ \A f \in Descriptors : fds[f] \in Threads => fds'[f] = fds[f] /\ f # Lowest
    BY <2>1, OpenedStep
  <2>3. ~spoiled => /\ thr[t].client \in Descriptors
                    /\ fds'[thr[t].client] = t /\ thr[t].client # Lowest
    BY <2>1, <2>2 DEF XInv, OwnsWhatItHolds, HoldsClient
  <2>4. CASE Becomes(t, [thr[t] EXCEPT !.pc = "reply", !.remote = Lowest])
    <3> DEFINE rec == [thr[t] EXCEPT !.pc = "reply", !.remote = Lowest]
    <3>1. rec \in XThreads /\ rec.pc = "reply" /\ rec.client = thr[t].client /\ rec.remote = Lowest
      BY <2>1, <2>2 DEF XThreads
    <3>2. Becomes(t, rec) /\ thr'[t] = rec
      BY <1>1, <2>4 DEF Becomes, XTypeOK
    <3> HIDE DEF rec
    <3>3. ~spoiled => OwnsWhatItHolds(t)'
      BY <2>2, <2>3, <3>1, <3>2 DEF OwnsWhatItHolds, HoldsClient, HoldsRemote
    <3> QED
      BY <2>1, <2>2, <3>1, <3>2, <3>3, ThreadStep
  <2>5. CASE Becomes(t, Unresolved(t, Lowest))
    <3> DEFINE rec == [thr[t] EXCEPT !.pc = "reply", !.remote = NoFd]
    <3>1. rec \in XThreads /\ rec.pc = "reply" /\ rec.client = thr[t].client /\ rec.remote = NoFd
      BY <2>1 DEF XThreads
    <3>2. Becomes(t, rec) /\ thr'[t] = rec
      BY <1>1, <2>5 DEF Becomes, XTypeOK, Unresolved
    <3> HIDE DEF rec
    <3>3. ~spoiled => OwnsWhatItHolds(t)'
      BY <2>2, <2>3, <3>1, <3>2 DEF OwnsWhatItHolds, HoldsClient, HoldsRemote
    <3> QED
      BY <2>1, <2>2, <3>1, <3>2, <3>3, ThreadStep
  <2> QED
    BY <1>8, <2>4, <2>5 DEF ResolveIp
<1>9. ASSUME NEW t \in Threads, NEW connectx \in {-1, 0, 1}, TryAddress(t, connectx) PROVE XInv'
  <2>1. /\ thr[t] \in XThreads /\ thr[t].pc = "resolve" /\ spoiled' = spoiled
        /\ Free # {} /\ fds' = Opened(t)
    BY <1>1, <1>9 DEF XTypeOK, TryAddress
  <2>2. /\ Lowest \in Descriptors /\ fds'[Lowest] = t
        /\ fds' \in [Descriptors -> Threads \cup {"free"}]
        /\ \A f \in Descriptors : fds[f] \in Threads => fds'[f] = fds[f] /\ f # Lowest
    BY <2>1, OpenedStep
  <2>3. ~spoiled => /\ thr[t].client \in Descriptors
                    /\ fds'[thr[t].client] = t /\ thr[t].client # Lowest
    BY <2>1, <2>2 DEF XInv, OwnsWhatItHolds, HoldsClient
  <2> DEFINE rec == IF connectx = 0
                    THEN [thr[t] EXCEPT !.pc = "reply", !.remote = Lowest]
                    ELSE [thr[t] EXCEPT !.pc = "close_try", !.remote = Lowest, !.tried = @ + 1]
  <2>4. /\ rec \in XThreads /\ rec.pc \in {"reply", "close_try"}
        /\ rec.client = thr[t].client /\ rec.remote = Lowest
    <3>1. CASE connectx = 0
      BY <2>1, <2>2, <3>1 DEF XThreads
    <3>2. CASE connectx # 0
      <4>1. rec = [thr[t] EXCEPT !.pc = "close_try", !.remote = Lowest, !.tried = thr[t].tried + 1]
        BY <3>2
      <4>2. thr[t].tried \in Nat
        BY <2>1 DEF XThreads
      <4>3. thr[t].tried + 1 \in Nat
        BY <4>2
      <4> QED
        BY <2>1, <2>2, <4>1, <4>3 DEF XThreads
    <3> QED
      BY <3>1, <3>2
  <2>5. Becomes(t, rec) /\ thr'[t] = rec
    BY <1>1, <1>9 DEF Becomes, XTypeOK, TryAddress
  <2> HIDE DEF rec
  <2>6. ~spoiled => OwnsWhatItHolds(t)'
    BY <2>2, <2>3, <2>4, <2>5 DEF OwnsWhatItHolds, HoldsClient, HoldsRemote
  <2> QED
    BY <2>1, <2>2, <2>4, <2>5, <2>6, ThreadStep
<1>10. ASSUME NEW t \in Threads, CloseTry(t) PROVE XInv'
  <2> DEFINE rec == [thr[t] EXCEPT !.pc = "resolve"]
  <2>1. /\ thr[t] \in XThreads /\ thr[t].pc = "close_try" /\ spoiled' = spoiled
        /\ fds' = Closed(thr[t].remote) /\ Becomes(t, rec) /\ thr'[t] = rec
    BY <1>1, <1>10 DEF XTypeOK, CloseTry, Becomes
  <2>2. rec \in XThreads /\ rec.pc = "resolve" /\ rec.client = thr[t].client
    BY <2>1 DEF XThreads
  <2> HIDE DEF rec
  <2>3. OwnsWhatItHolds(t) => /\ fds[thr[t].remote] = t /\ thr[t].remote # thr[t].client
                              /\ thr[t].client \in Descriptors /\ fds[thr[t].client] = t
    BY <2>1 DEF OwnsWhatItHolds, HoldsClient, HoldsRemote
  <2>4. OwnsWhatItHolds(t) => fds'[thr[t].client] = t
    BY <2>1, <2>3, ClosedStep
  <2>5. ~spoiled => OwnsWhatItHolds(t)'
    BY <2>1, <2>2, <2>3, <2>4 DEF XInv, OwnsWhatItHolds, HoldsClient, HoldsRemote
  <2> QED
    BY <1>4, <2>1, <2>2, <2>3, <2>5
<1>11. ASSUME NEW t \in Threads, NoAddress(t) PROVE XInv'
  <2> DEFINE rec == [thr[t] EXCEPT !.pc = "reply", !.remote = NoFd]
  <2>1. /\ thr[t] \in XThreads /\ thr[t].pc = "resolve"
        /\ Becomes(t, rec) /\ UNCHANGED <<fds, spoiled>>
    BY <1>1, <1>11 DEF XTypeOK, NoAddress, Unresolved
  <2>2. rec \in XThreads /\ rec.pc = "reply" /\ rec.client = thr[t].client /\ rec.remote = NoFd
    BY <2>1 DEF XThreads
  <2>3. HoldsClient(t)
    BY <2>1 DEF HoldsClient
  <2> HIDE DEF rec
  <2> QED
    BY <2>1, <2>2, <2>3, GoOnStep
<1>12. ASSUME NEW t \in Threads, Reply(t) PROVE XInv'
  <2> DEFINE rec == [thr[t] EXCEPT !.pc = IF thr[t].remote > 0 THEN "tunnel" ELSE "close_remote"]
  <2>1. /\ thr[t] \in XThreads /\ thr[t].pc = "reply"
        /\ Becomes(t, rec) /\ UNCHANGED <<fds, spoiled>>
    BY <1>1, <1>12 DEF XTypeOK, Reply
  <2>2. /\ rec \in XThreads /\ rec.pc \in {"tunnel", "close_remote"}
        /\ rec.client = thr[t].client /\ rec.remote = thr[t].remote
        /\ thr[t].remote = NoFd => rec.pc = "close_remote"
    <3>1. CASE thr[t].remote > 0
      <4>1. rec = [thr[t] EXCEPT !.pc = "tunnel"]
        BY <3>1
      <4>2. thr[t].remote # NoFd
        BY <3>1 DEF NoFd
      <4> QED
        BY <2>1, <4>1, <4>2 DEF XThreads
    <3>2. CASE ~(thr[t].remote > 0)
      <4>1. rec = [thr[t] EXCEPT !.pc = "close_remote"]
        BY <3>2
      <4>2. thr[t].remote = NoFd
        BY <1>1, <2>1, <3>2 DEF XThreads
      <4> QED
        BY <2>1, <4>1, <4>2 DEF XThreads
    <3> QED
      BY <3>1, <3>2
  <2>3. HoldsClient(t) /\ (thr[t].remote = NoFd \/ HoldsRemote(t))
    BY <2>1 DEF HoldsClient, HoldsRemote
  <2> HIDE DEF rec
  <2> QED
    BY <2>1, <2>2, <2>3, GoOnStep
<1>13. ASSUME NEW t \in Threads, TunnelEnds(t) PROVE XInv'
  <2> DEFINE rec == [thr[t] EXCEPT !.pc = "close_remote"]
  <2>1. /\ thr[t] \in XThreads /\ thr[t].pc = "tunnel"
        /\ Becomes(t, rec) /\ UNCHANGED <<fds, spoiled>>
    BY <1>1, <1>13 DEF XTypeOK, TunnelEnds
  <2>2. /\ rec \in XThreads /\ rec.pc = "close_remote"
        /\ rec.client = thr[t].client /\ rec.remote = thr[t].remote
    BY <2>1 DEF XThreads
  <2>3. HoldsClient(t) /\ HoldsRemote(t)
    BY <2>1 DEF HoldsClient, HoldsRemote
  <2> HIDE DEF rec
  <2> QED
    BY <2>1, <2>2, <2>3, GoOnStep
<1>14. ASSUME NEW t \in Threads, CloseRemote(t) PROVE XInv'
  <2> DEFINE rec == [thr[t] EXCEPT !.pc = "close_client"]
  <2>1. /\ thr[t] \in XThreads /\ thr[t].pc = "close_remote" /\ spoiled' = spoiled
        /\ fds' = Closed(thr[t].remote) /\ Becomes(t, rec) /\ thr'[t] = rec
    BY <1>1, <1>14 DEF XTypeOK, CloseRemote, Becomes
  <2>2. rec \in XThreads /\ rec.pc = "close_client" /\ rec.client = thr[t].client
    BY <2>1 DEF XThreads
  <2> HIDE DEF rec
  <2>3. OwnsWhatItHolds(t) => /\ \/ thr[t].remote = NoFd
                                 \/ fds[thr[t].remote] = t /\ thr[t].remote # thr[t].client
                              /\ thr[t].client \in Descriptors /\ fds[thr[t].client] = t
    BY <2>1 DEF OwnsWhatItHolds, HoldsClient, HoldsRemote
  <2>4. OwnsWhatItHolds(t) => fds'[thr[t].client] = t
    BY <1>1, <2>1, <2>3, ClosedStep
  <2>5. ~spoiled => OwnsWhatItHolds(t)'
    BY <2>1, <2>2, <2>3, <2>4 DEF XInv, OwnsWhatItHolds, HoldsClient, HoldsRemote
  <2> QED
    BY <1>4, <2>1, <2>2, <2>3, <2>5
<1>15. ASSUME NEW t \in Threads, CloseClient(t) PROVE XInv'
  <2> DEFINE rec == [thr[t] EXCEPT !.pc = "done"]
  <2>1. /\ thr[t] \in XThreads /\ thr[t].pc = "close_client" /\ spoiled' = spoiled
        /\ fds' = Closed(thr[t].client) /\ Becomes(t, rec) /\ thr'[t] = rec
    BY <1>1, <1>15 DEF XTypeOK, CloseClient, Becomes
  <2>2. rec \in XThreads /\ rec.pc = "done"
    BY <2>1 DEF XThreads
  <2> HIDE DEF rec
  <2>3. OwnsWhatItHolds(t) => fds[thr[t].client] = t
    BY <2>1 DEF OwnsWhatItHolds, HoldsClient
  <2>4. OwnsWhatItHolds(t)'
    BY <2>1, <2>2 DEF OwnsWhatItHolds, HoldsClient, HoldsRemote
  <2> QED
    BY <1>4, <2>1, <2>2, <2>3, <2>4
<1>16. ASSUME Deactivate \/ UNCHANGED xvars PROVE XInv'
  BY <1>16 DEF Deactivate, xvars, XInv, XTypeOK, OwnsWhatItHolds, HoldsClient, HoldsRemote
<1> QED
  BY <1>2, <1>5, <1>6, <1>7, <1>8, <1>9, <1>10, <1>11, <1>12, <1>13, <1>14, <1>15, <1>16 DEF XNext

(***************************************************************************)
(* A tunnel relays between two open descriptors of its own, whatever other *)
(* clients connect, fail and leave meanwhile and whichever numbers the     *)
(* system gives out again.                                                 *)
(***************************************************************************)
THEOREM TunnelsOwnTheirs == XSpec => []TunnelOwnsSockets
<1>1. XInit => XInv
  BY XInitInv
<1>2. XInv /\ [XNext]_xvars => XInv'
  BY XNextInv
<1>3. XInv => TunnelOwnsSockets
  BY DEF XInv, TunnelOwnsSockets, OwnsWhatItHolds, HoldsClient, HoldsRemote
<1> QED
  BY <1>1, <1>2, <1>3, PTL DEF XSpec

-----------------------------------------------------------------------------
(* The wrapper of picoquic. *)

Sessions == [cnx : Cnxs, inc_pkts : Seq(Nat)]
Pointers == [home : Nat, index : Nat]

CoreTypeOK ==
  /\ cnx \in [Cnxs -> [state : {"none", "ready", "closed"}, called : Nat]]
  /\ sessions \in [array : Seq(Sessions), home : Nat \ {0}, head : Nat]
  /\ new_sessions \in Seq([home : Nat \ {0}, index : Nat])
  /\ evs \in SUBSET {"outgoing", "incoming", "session", "done"}
  /\ unsent \in Nat
  /\ daemon \in {"send", "poll", "receive", "loop", "notify_session", "notify_incoming", "ended"}
  /\ app \in [pc : {"start", "pop_session", "ready", "notify", "wait"},
              session : Pointers, sent : Nat]
  /\ is_running \in BOOLEAN /\ emptied \in BOOLEAN

(* What quic_send added is announced before the daemon goes to sleep on it. *)
Announced == daemon = "poll" /\ unsent > 0 => "outgoing" \in evs \/ app.pc = "notify"

(* The application is told of sessions after they are pushed, and pops one. *)
Told ==
  /\ app.pc = "start" /\ ("session" \in evs \/ daemon = "notify_session") => new_sessions # << >>
  /\ app.pc = "pop_session" => new_sessions # << >>
  /\ app.pc \in {"start", "pop_session"} <=> app.session = NoSession

(***************************************************************************)
(* While one connection only has been ready, the array holds its session   *)
(* or, once it is closed, nothing; every pointer is to that session; and   *)
(* packets are announced to an application that has found none to read.    *)
(***************************************************************************)
TheOnlySession ==
  /\ Len(sessions.array) <= 1
  /\ (\A c \in Cnxs : cnx[c].state = "none") =>
       sessions.array = << >> /\ new_sessions = << >> /\ app.session = NoSession
  /\ \A c \in Cnxs : cnx[c].state = "ready" =>
       Len(sessions.array) = 1 /\ sessions.array[1].cnx = c
  /\ \A c \in Cnxs : cnx[c].state = "closed" => ~is_running
  /\ \A i \in DOMAIN new_sessions :
       new_sessions[i].home = sessions.home /\ new_sessions[i].index = 1
  /\ app.session # NoSession => app.session.home = sessions.home /\ app.session.index = 1
  /\ Len(sessions.array) = 1 /\ sessions.array[1].inc_pkts # << >> /\ emptied =>
       "incoming" \in evs \/ daemon = "notify_incoming"

CoreInv == CoreTypeOK /\ Announced /\ Told /\ (OneReady => TheOnlySession)

SessionArrays == [array : Seq(Sessions), home : Nat \ {0}, head : Nat]

(* The packets of one session change. *)
LEMMA InboxBecomes ==
  ASSUME NEW ss \in SessionArrays, NEW i \in 1 .. Len(ss.array), NEW q \in Seq(Nat), NEW tt,
         tt = [ss EXCEPT !.array[i].inc_pkts = q]
  PROVE  /\ tt \in SessionArrays /\ tt.home = ss.home /\ tt.head = ss.head
         /\ Len(tt.array) = Len(ss.array)
         /\ \A j \in 1 .. Len(ss.array) : tt.array[j].cnx = ss.array[j].cnx
         /\ tt.array[i].inc_pkts = q
<1> DEFINE one == [ss.array[i] EXCEPT !.inc_pkts = q]
           all == [ss.array EXCEPT ![i] = one]
<1>1. /\ ss.array \in Seq(Sessions) /\ ss.home \in Nat \ {0} /\ ss.head \in Nat
      /\ ss = [array |-> ss.array, home |-> ss.home, head |-> ss.head]
  BY DEF SessionArrays
<1>2. /\ ss.array[i] \in Sessions /\ DOMAIN ss.array = 1 .. Len(ss.array) /\ Len(ss.array) \in Nat
  BY <1>1
<1>3. one \in Sessions /\ one.cnx = ss.array[i].cnx /\ one.inc_pkts = q
  BY <1>2 DEF Sessions
<1> HIDE DEF one
<1>4. all \in Seq(Sessions) /\ Len(all) = Len(ss.array)
  BY <1>1, <1>3
<1>5. \A j \in 1 .. Len(ss.array) : all[j] = IF j = i THEN one ELSE ss.array[j]
  BY <1>2
<1>6. tt = [ss EXCEPT !.array = all]
  BY DEF all, one
<1> HIDE DEF all
<1>7. tt.array = all /\ tt.home = ss.home /\ tt.head = ss.head /\ tt \in SessionArrays
  BY <1>1, <1>4, <1>6 DEF SessionArrays
<1> QED
  BY <1>3, <1>4, <1>5, <1>7

(* _find_session_by_cnx finds a session if there is one. *)
LEMMA FindSessionFinds ==
  ASSUME CoreTypeOK, NEW c \in Cnxs
  PROVE  /\ FindSession(c) \in {0} \cup (1 .. Len(sessions.array))
         /\ FindSession(c) # 0 => sessions.array[FindSession(c)].cnx = c
         /\ \A i \in 1 .. Len(sessions.array) :
              sessions.array[i].cnx = c => FindSession(c) # 0 /\ FindSession(c) <= i
<1> DEFINE at == {i \in DOMAIN sessions.array : sessions.array[i].cnx = c}
<1>1. /\ sessions.array \in Seq(Sessions) /\ DOMAIN sessions.array = 1 .. Len(sessions.array)
      /\ Len(sessions.array) \in Nat
  <2>1. sessions.array \in Seq(Sessions)
    BY DEF CoreTypeOK
  <2> QED
    BY <2>1
<1>2. at \in SUBSET (1 .. Len(sessions.array)) /\ at \in SUBSET Nat
  BY <1>1
<1>3. FindSession(c) = IF at = {} THEN 0 ELSE Min(at)
  BY DEF FindSession, Min
<1>4. \A i \in 1 .. Len(sessions.array) : sessions.array[i].cnx = c <=> i \in at
  BY <1>1
<1> HIDE DEF at
<1>5. at # {} => Min(at) \in at /\ \A i \in at : Min(at) <= i
  BY <1>2, MinIn
<1>6. CASE at = {}
  BY <1>3, <1>4, <1>6
<1>7. CASE at # {}
  <2>1. FindSession(c) \in at /\ \A i \in at : FindSession(c) <= i
    BY <1>3, <1>5, <1>7
  <2>2. FindSession(c) \in 1 .. Len(sessions.array)
    BY <1>2, <2>1
  <2>3. FindSession(c) # 0
    <3> HIDE DEF FindSession
    <3> QED
      BY <1>1, <2>2
  <2> QED
    BY <1>4, <2>1, <2>2, <2>3
<1> QED
  BY <1>6, <1>7

(* quic_serv_init establishes the invariant. *)
LEMMA CoreInitInv == CoreInit => CoreInv
<1> SUFFICES ASSUME CoreInit PROVE CoreInv
  OBVIOUS
<1>1. CoreTypeOK
  BY DEF CoreInit, CoreTypeOK, NoSession, Pointers
<1>2. Announced /\ Told
  BY DEF CoreInit, Announced, Told
<1>3. TheOnlySession
  BY DEF CoreInit, TheOnlySession
<1> QED
  BY <1>1, <1>2, <1>3 DEF CoreInv

(* The application reads from the only session. *)
LEMMA OnlyInbox ==
  ASSUME TheOnlySession, app.session # NoSession, Len(sessions.array) = 1
  PROVE  Pointed = 1 /\ Inbox = sessions.array[1].inc_pkts
<1>1. app.session.home = sessions.home /\ app.session.index = 1
  BY DEF TheOnlySession
<1>2. Pointed = 1
  BY <1>1 DEF Pointed
<1> QED
  BY <1>2 DEF Inbox

(* Steps that leave connections, sessions and pointers alone. *)
LEMMA SameSessions ==
  ASSUME CoreInv, UNCHANGED Data, app'.session = app.session, ~is_running => ~is_running',
         CoreTypeOK', Announced', Told',
         \/ ~emptied'
         \/ /\ emptied' = emptied
            /\ "incoming" \in evs => "incoming" \in evs'
            /\ daemon = "notify_incoming" => daemon' = "notify_incoming" \/ "incoming" \in evs'
         \/ app.pc = "ready" /\ Inbox = << >>
  PROVE  CoreInv'
<1>1. OneReady' <=> OneReady
  BY DEF Data, OneReady
<1>2. ASSUME OneReady PROVE TheOnlySession'
  <2>1. TheOnlySession
    BY <1>2 DEF CoreInv
  <2>2. /\ sessions' = sessions /\ cnx' = cnx /\ new_sessions' = new_sessions
    BY DEF Data
  <2>3. \A c \in Cnxs : cnx'[c].state = "closed" => ~is_running'
    BY <2>1, <2>2 DEF TheOnlySession
  <2>4. Len(sessions'.array) = 1 /\ sessions'.array[1].inc_pkts # << >> /\ emptied' =>
          "incoming" \in evs' \/ daemon' = "notify_incoming"
    <3>1. CASE app.pc = "ready" /\ Inbox = << >>
      <4>1. app.session # NoSession
        BY <3>1 DEF CoreInv, Told
      <4>2. Len(sessions.array) = 1 => Inbox = sessions.array[1].inc_pkts
        BY <2>1, <4>1, OnlyInbox
      <4> QED
        BY <2>2, <3>1, <4>2
    <3> QED
      BY <2>1, <2>2, <3>1 DEF TheOnlySession
  <2> QED
    BY <2>1, <2>2, <2>3, <2>4 DEF TheOnlySession
<1> QED
  BY <1>1, <1>2 DEF CoreInv

(* A step of the daemon. *)
LEMMA DaemonStep ==
  ASSUME CoreInv,
         PrepareNextPacket \/ SendIterEnds \/ PollReturns \/ ReceiveEnds \/ DaemonLoop \/ CallbackNotifies
  PROVE  CoreInv'
<1>1. CoreTypeOK /\ Announced /\ Told
  BY DEF CoreInv
<1>2. /\ UNCHANGED Data /\ app' = app /\ is_running' = is_running
  BY DEF PrepareNextPacket, SendIterEnds, PollReturns, ReceiveEnds, DaemonLoop, CallbackNotifies
<1>3. /\ unsent' \in Nat /\ evs' \in SUBSET {"outgoing", "incoming", "session", "done"}
      /\ daemon' \in {"send", "poll", "receive", "loop", "notify_session", "notify_incoming", "ended"}
  <2>1. unsent \in Nat /\ evs \in SUBSET {"outgoing", "incoming", "session", "done"}
    BY <1>1 DEF CoreTypeOK
  <2>2. unsent' \in Nat
    BY <2>1 DEF PrepareNextPacket, SendIterEnds, PollReturns, ReceiveEnds, DaemonLoop, CallbackNotifies
  <2>3. evs' \in SUBSET {"outgoing", "incoming", "session", "done"}
    BY <2>1 DEF PrepareNextPacket, SendIterEnds, PollReturns, ReceiveEnds, DaemonLoop, CallbackNotifies
  <2>4. daemon' \in {"send", "poll", "receive", "loop", "notify_session", "notify_incoming", "ended"}
    BY DEF PrepareNextPacket, SendIterEnds, PollReturns, ReceiveEnds, DaemonLoop, CallbackNotifies
  <2> QED
    BY <2>2, <2>3, <2>4
<1>8. emptied' = emptied
  BY DEF PrepareNextPacket, SendIterEnds, PollReturns, ReceiveEnds, DaemonLoop, CallbackNotifies
<1>4. CoreTypeOK'
  BY <1>1, <1>2, <1>3, <1>8 DEF CoreTypeOK, Data
<1>5. Announced'
  <2>1. daemon' # "poll" \/ unsent' = 0
    BY DEF PrepareNextPacket, SendIterEnds, PollReturns, ReceiveEnds, DaemonLoop, CallbackNotifies
  <2>2. unsent' > 0 => unsent' # 0
    BY <1>3
  <2> QED
    BY <2>1, <2>2 DEF Announced
<1>6. Told'
  BY <1>1, <1>2 DEF PrepareNextPacket, SendIterEnds, PollReturns, ReceiveEnds, DaemonLoop,
       CallbackNotifies, Told, Data
<1>7. /\ "incoming" \in evs => "incoming" \in evs'
      /\ daemon = "notify_incoming" => daemon' = "notify_incoming" \/ "incoming" \in evs'
  BY DEF PrepareNextPacket, SendIterEnds, PollReturns, ReceiveEnds, DaemonLoop, CallbackNotifies
<1> QED
  BY <1>2, <1>4, <1>5, <1>6, <1>7, <1>8, SameSessions

(* A step of the application that takes no session and no packet. *)
LEMMA AppStep ==
  ASSUME CoreInv,
         \/ WaitSession \/ QuicSend \/ QuicSendNotifies \/ WaitCalled
         \/ WaitIncpkt \/ QuicRecvEmpty \/ WaitDone \/ CoreStop
  PROVE  CoreInv'
<1>1. CoreTypeOK /\ Announced /\ Told
  BY DEF CoreInv
<1>2. UNCHANGED Data /\ daemon' = daemon /\ (~is_running => ~is_running')
  <2>1. UNCHANGED Data /\ daemon' = daemon
    BY DEF WaitSession, QuicSend, QuicSendNotifies, WaitCalled, WaitIncpkt, QuicRecvEmpty, WaitDone, CoreStop
  <2>2. ~is_running => ~is_running'
    BY DEF WaitSession, QuicSend, QuicSendNotifies, WaitCalled, WaitIncpkt, QuicRecvEmpty, WaitDone, CoreStop
  <2> QED
    BY <2>1, <2>2
<1>3. /\ app \in [pc : {"start", "pop_session", "ready", "notify", "wait"},
                  session : Pointers, sent : Nat]
      /\ unsent \in Nat
  BY <1>1 DEF CoreTypeOK
<1>4. /\ app' \in [pc : {"start", "pop_session", "ready", "notify", "wait"},
                   session : Pointers, sent : Nat]
      /\ app'.session = app.session
      /\ unsent' \in Nat
  <2>1. unsent' \in Nat
    BY <1>3 DEF WaitSession, QuicSend, QuicSendNotifies, WaitCalled, WaitIncpkt, QuicRecvEmpty, WaitDone, CoreStop
  <2>2. ASSUME NEW pc0 \in {"start", "pop_session", "ready", "notify", "wait"},
               NEW n \in Nat, app' = [app EXCEPT !.pc = pc0, !.sent = n] \/ app' = [app EXCEPT !.pc = pc0]
        PROVE  /\ app' \in [pc : {"start", "pop_session", "ready", "notify", "wait"},
                             session : Pointers, sent : Nat]
               /\ app'.session = app.session
    BY <1>3, <2>2
  <2>3. app' = app \/ \E pc0 \in {"start", "pop_session", "ready", "notify", "wait"}, n \in Nat :
          app' = [app EXCEPT !.pc = pc0, !.sent = n] \/ app' = [app EXCEPT !.pc = pc0]
    <3>1. app.sent + 1 \in Nat
      BY <1>3
    <3>2. CASE QuicSend
      BY <3>1, <3>2 DEF QuicSend
    <3>3. CASE ~QuicSend
      <4>1. \/ app' = app
            \/ \E pc0 \in {"start", "pop_session", "ready", "notify", "wait"} : app' = [app EXCEPT !.pc = pc0]
        BY <3>3 DEF WaitSession, QuicSendNotifies, WaitCalled, WaitIncpkt, QuicRecvEmpty, WaitDone, CoreStop
      <4> QED
        BY <4>1
    <3> QED
      BY <3>2, <3>3
  <2> QED
    BY <1>3, <2>1, <2>2, <2>3
<1>5. evs' \in SUBSET {"outgoing", "incoming", "session", "done"}
  BY <1>1 DEF WaitSession, QuicSend, QuicSendNotifies, WaitCalled, WaitIncpkt, QuicRecvEmpty, WaitDone,
       CoreStop, CoreTypeOK
<1>6. CoreTypeOK'
  <2>1. is_running' \in BOOLEAN /\ emptied' \in BOOLEAN
    BY <1>1 DEF WaitSession, QuicSend, QuicSendNotifies, WaitCalled, WaitIncpkt, QuicRecvEmpty, WaitDone,
         CoreStop, CoreTypeOK
  <2> QED
    BY <1>1, <1>2, <1>4, <1>5, <2>1 DEF CoreTypeOK, Data
<1>7. Announced'
  BY <1>1, <1>2, <1>3 DEF WaitSession, QuicSend, QuicSendNotifies, WaitCalled, WaitIncpkt, QuicRecvEmpty,
       WaitDone, CoreStop, Announced
<1>8. Told'
  BY <1>1, <1>2, <1>3, <1>4 DEF WaitSession, QuicSend, QuicSendNotifies, WaitCalled, WaitIncpkt,
       QuicRecvEmpty, WaitDone, CoreStop, Told, Data
<1>9. \/ ~emptied'
      \/ /\ emptied' = emptied
         /\ "incoming" \in evs => "incoming" \in evs'
         /\ daemon = "notify_incoming" => daemon' = "notify_incoming" \/ "incoming" \in evs'
      \/ app.pc = "ready" /\ Inbox = << >>
  BY <1>2, <1>3 DEF WaitSession, QuicSend, QuicSendNotifies, WaitCalled, WaitIncpkt, QuicRecvEmpty,
       WaitDone, CoreStop
<1> QED
  BY <1>2, <1>4, <1>6, <1>7, <1>8, <1>9, SameSessions

(* quic_wait_session takes a session from its queue. *)
LEMMA PopSessionStep ==
  ASSUME CoreInv, PopSession
  PROVE  CoreInv'
<1>1. CoreTypeOK /\ Announced /\ Told
  BY DEF CoreInv
<1>2. /\ app.pc = "pop_session" /\ new_sessions # << >>
      /\ app' = [app EXCEPT !.pc = "ready", !.session = Head(new_sessions)]
      /\ new_sessions' = Tail(new_sessions)
      /\ UNCHANGED <<cnx, sessions, evs, unsent, daemon, emptied, is_running>>
  BY <1>1 DEF PopSession, Told
<1>3. new_sessions \in Seq([home : Nat \ {0}, index : Nat])
  BY <1>1 DEF CoreTypeOK
<1>4. /\ new_sessions' \in Seq([home : Nat \ {0}, index : Nat])
      /\ Head(new_sessions) = new_sessions[1] /\ 1 \in DOMAIN new_sessions
      /\ Head(new_sessions) \in [home : Nat \ {0}, index : Nat]
      /\ \A i \in DOMAIN new_sessions' : i + 1 \in DOMAIN new_sessions /\ new_sessions'[i] = new_sessions[i + 1]
  <2>1. /\ new_sessions' \in Seq([home : Nat \ {0}, index : Nat])
        /\ Head(new_sessions) = new_sessions[1] /\ new_sessions[1] \in [home : Nat \ {0}, index : Nat]
        /\ DOMAIN new_sessions = 1 .. Len(new_sessions) /\ Len(new_sessions) \in Nat /\ Len(new_sessions) >= 1
        /\ DOMAIN new_sessions' = 1 .. (Len(new_sessions) - 1)
        /\ \A i \in 1 .. (Len(new_sessions) - 1) :
             new_sessions'[i] = new_sessions[i + 1] /\ i + 1 \in 1 .. Len(new_sessions)
    <3> DEFINE P == [home : Nat \ {0}, index : Nat]
    <3> HIDE DEF P
    <3> QED
      BY <1>2, <1>3, TailOf DEF P
  <2>2. 1 \in DOMAIN new_sessions
    BY <2>1
  <2> QED
    BY <2>1, <2>2
<1>5. Head(new_sessions) \in Pointers /\ Head(new_sessions) # NoSession
  BY <1>4 DEF Pointers, NoSession
<1>6. /\ app \in [pc : {"start", "pop_session", "ready", "notify", "wait"},
                  session : Pointers, sent : Nat]
  BY <1>1 DEF CoreTypeOK
<1>7. /\ app' \in [pc : {"start", "pop_session", "ready", "notify", "wait"},
                   session : Pointers, sent : Nat]
      /\ app'.pc = "ready" /\ app'.session = Head(new_sessions)
  BY <1>2, <1>5, <1>6
<1>8. CoreTypeOK'
  BY <1>1, <1>2, <1>4, <1>7 DEF CoreTypeOK
<1>9. Announced' /\ Told'
  BY <1>1, <1>2, <1>5, <1>7 DEF Announced, Told
<1>10. ASSUME OneReady' PROVE TheOnlySession'
  <2>1. TheOnlySession
    BY <1>2, <1>10 DEF OneReady, CoreInv
  <2>2. ~(\A c \in Cnxs : cnx'[c].state = "none")
    BY <1>2, <2>1 DEF TheOnlySession
  <2>3. \A i \in DOMAIN new_sessions' : new_sessions'[i].home = sessions'.home /\ new_sessions'[i].index = 1
    BY <1>2, <1>4, <2>1 DEF TheOnlySession
  <2>4. app'.session.home = sessions'.home /\ app'.session.index = 1
    BY <1>2, <1>4, <1>7, <2>1 DEF TheOnlySession
  <2> QED
    BY <1>2, <2>1, <2>2, <2>3, <2>4 DEF TheOnlySession
<1> QED
  BY <1>8, <1>9, <1>10 DEF CoreInv

(* quic_recv takes a packet from the inbox. *)
LEMMA QuicRecvStep ==
  ASSUME CoreInv, QuicRecv
  PROVE  CoreInv'
<1>1. CoreTypeOK /\ Announced /\ Told /\ sessions \in SessionArrays
  BY DEF CoreInv, CoreTypeOK, SessionArrays
<1>2. /\ app.pc = "ready" /\ Inbox # << >>
      /\ sessions' = [sessions EXCEPT !.array[Pointed].inc_pkts = Tail(Inbox)]
      /\ UNCHANGED <<cnx, new_sessions, evs, unsent, daemon, app, emptied, is_running>>
  BY DEF QuicRecv, Inbox
<1>3. Pointed # 0
  BY <1>2 DEF Inbox
<1>4. Pointed \in 1 .. Len(sessions.array)
  <2>1. Pointed = app.session.index /\ app.session.index <= Len(sessions.array)
    BY <1>3 DEF Pointed
  <2>2. app.session \in Pointers
    BY <1>1 DEF CoreTypeOK
  <2>3. app.session.index \in Nat
    BY <2>2 DEF Pointers
  <2>4. sessions.array \in Seq(Sessions)
    BY <1>1 DEF SessionArrays
  <2>5. Len(sessions.array) \in Nat
    BY <2>4
  <2> QED
    BY <1>3, <2>1, <2>3, <2>5
<1>5. Inbox \in Seq(Nat)
  <2>1. sessions.array \in Seq(Sessions)
    BY <1>1 DEF SessionArrays
  <2>2. sessions.array[Pointed] \in Sessions
    BY <1>4, <2>1
  <2> QED
    BY <1>3, <2>2 DEF Inbox, Sessions
<1>6. Tail(Inbox) \in Seq(Nat)
  BY <1>2, <1>5
<1>7. /\ sessions' \in SessionArrays /\ sessions'.home = sessions.home
      /\ Len(sessions'.array) = Len(sessions.array)
      /\ \A j \in 1 .. Len(sessions.array) : sessions'.array[j].cnx = sessions.array[j].cnx
  <2> DEFINE k == Pointed
             q == Tail(Inbox)
  <2>1. sessions' = [sessions EXCEPT !.array[k].inc_pkts = q] /\ k \in 1 .. Len(sessions.array) /\ q \in Seq(Nat)
    BY <1>2, <1>4, <1>6
  <2> HIDE DEF k, q
  <2> QED
    BY <1>1, <2>1, InboxBecomes
<1>8. CoreTypeOK'
  BY <1>1, <1>2, <1>7 DEF CoreTypeOK, SessionArrays
<1>9. Announced' /\ Told'
  BY <1>1, <1>2 DEF Announced, Told
<1>10. ASSUME OneReady' PROVE TheOnlySession'
  <2>1. TheOnlySession
    BY <1>2, <1>10 DEF OneReady, CoreInv
  <2>2. ~(\A c \in Cnxs : cnx'[c].state = "none")
    BY <1>1, <1>2, <2>1 DEF TheOnlySession, Told
  <2>3. \A c \in Cnxs : cnx'[c].state = "ready" => Len(sessions'.array) = 1 /\ sessions'.array[1].cnx = c
    BY <1>2, <1>7, <2>1 DEF TheOnlySession
  <2>4. ASSUME Len(sessions'.array) = 1, emptied' PROVE "incoming" \in evs \/ daemon = "notify_incoming"
    <3>1. Len(sessions.array) = 1 /\ app.session # NoSession /\ emptied
      BY <1>1, <1>2, <1>7, <2>4 DEF Told
    <3>2. sessions.array[1].inc_pkts # << >>
      BY <1>2, <2>1, <3>1, OnlyInbox
    <3> QED
      BY <2>1, <3>1, <3>2 DEF TheOnlySession
  <2> QED
    BY <1>2, <1>7, <2>1, <2>2, <2>3, <2>4 DEF TheOnlySession
<1> QED
  BY <1>8, <1>9, <1>10 DEF CoreInv

(* A connection becomes ready, and its session is stored and announced. *)
LEMMA RegisterStep ==
  ASSUME CoreInv, NEW c \in Cnxs, RegisterSession(c)
  PROVE  CoreInv'
<1>1. CoreTypeOK /\ Announced /\ Told /\ sessions \in SessionArrays
  BY DEF CoreInv, CoreTypeOK, SessionArrays
<1>2. /\ daemon = "receive" /\ cnx[c].state = "none"
      /\ cnx' = [cnx EXCEPT ![c].state = "ready"]
      /\ daemon' = "notify_session"
      /\ UNCHANGED <<evs, unsent, app, emptied, is_running>>
  BY DEF RegisterSession
<1> DEFINE new == [cnx |-> c, inc_pkts |-> << >>]
<1>3. /\ sessions.array \in Seq(Sessions) /\ sessions.home \in Nat \ {0} /\ sessions.head \in Nat
      /\ new \in Sessions
  BY <1>1 DEF SessionArrays, Sessions
<1>4. /\ sessions'.array = Append(sessions.array, new)
      /\ sessions'.home \in {sessions.home, sessions.home + 1}
      /\ sessions' \in SessionArrays
  <2>1. sessions' \in Pushed(c)
    BY DEF RegisterSession
  <2>2. Append(sessions.array, new) \in Seq(Sessions)
    BY <1>3, AppendOf
  <2>3. 2 * sessions.head \in Nat /\ sessions.home + 1 \in Nat \ {0}
    BY <1>3
  <2> HIDE DEF new
  <2> QED
    BY <1>3, <2>1, <2>2, <2>3 DEF Pushed, SessionArrays, new
<1>5. /\ new_sessions' = Append(new_sessions, [home |-> sessions'.home, index |-> Len(sessions'.array)])
  BY DEF RegisterSession
<1>6. sessions'.array \in Seq(Sessions) /\ sessions'.home \in Nat \ {0} /\ sessions'.head \in Nat
  BY <1>4 DEF SessionArrays
<1>7. [home |-> sessions'.home, index |-> Len(sessions'.array)] \in [home : Nat \ {0}, index : Nat]
  BY <1>6
<1>8. new_sessions' \in Seq([home : Nat \ {0}, index : Nat]) /\ new_sessions' # << >>
  BY <1>1, <1>5, <1>7 DEF CoreTypeOK
<1>9. cnx' \in [Cnxs -> [state : {"none", "ready", "closed"}, called : Nat]]
  BY <1>1, <1>2 DEF CoreTypeOK
<1>10. CoreTypeOK'
  BY <1>1, <1>2, <1>4, <1>8, <1>9 DEF CoreTypeOK, SessionArrays
<1>11. Announced' /\ Told'
  BY <1>1, <1>2, <1>8 DEF Announced, Told
<1>12. ASSUME OneReady' PROVE TheOnlySession'
  <2>1. cnx'[c].state = "ready" /\ \A d \in Cnxs : d # c => cnx'[d] = cnx[d]
    BY <1>1, <1>2 DEF CoreTypeOK
  <2>2. \A d \in Cnxs : d # c => cnx'[d].state = "none"
    BY <1>12, <2>1 DEF OneReady
  <2>3. \A d \in Cnxs : cnx[d].state = "none"
    BY <1>2, <2>1, <2>2
  <2>4. TheOnlySession
    BY <2>3 DEF OneReady, CoreInv
  <2>5. sessions.array = << >> /\ new_sessions = << >> /\ app.session = NoSession
    BY <2>3, <2>4 DEF TheOnlySession
  <2>6. sessions'.array = <<new>> /\ Len(sessions'.array) = 1 /\ sessions'.array[1] = new
    BY <1>4, <2>5
  <2>7. DOMAIN new_sessions' = {1} /\ new_sessions'[1] = [home |-> sessions'.home, index |-> 1]
    BY <1>5, <2>5, <2>6
  <2> QED
    BY <1>2, <2>1, <2>2, <2>5, <2>6, <2>7 DEF TheOnlySession
<1> QED
  BY <1>10, <1>11, <1>12 DEF CoreInv

(* Data come on a stream. *)
LEMMA StreamDataStep ==
  ASSUME CoreInv, NEW c \in Cnxs, StreamData(c)
  PROVE  CoreInv'
<1>1. CoreTypeOK /\ Announced /\ Told /\ sessions \in SessionArrays
  BY DEF CoreInv, CoreTypeOK, SessionArrays
<1>2. /\ daemon = "receive" /\ cnx[c].state = "ready"
      /\ cnx' = [cnx EXCEPT ![c].called = @ + 1]
      /\ UNCHANGED <<new_sessions, evs, unsent, app, emptied, is_running>>
  BY DEF StreamData
<1> DEFINE k == FindSession(c)
           q == Append(sessions.array[k].inc_pkts, cnx[c].called + 1)
<1>3. /\ k = 0 => sessions' = sessions /\ daemon' = daemon
      /\ k # 0 => daemon' = "notify_incoming" /\ sessions' = [sessions EXCEPT !.array[k].inc_pkts = q]
  BY DEF StreamData
<1>4. /\ k \in {0} \cup (1 .. Len(sessions.array))
      /\ \A i \in 1 .. Len(sessions.array) : sessions.array[i].cnx = c => k # 0 /\ k <= i
  BY <1>1, FindSessionFinds
<1>5. sessions.array \in Seq(Sessions) /\ cnx[c].called \in Nat /\ Len(sessions.array) \in Nat
  <2>1. sessions.array \in Seq(Sessions)
    BY <1>1 DEF SessionArrays
  <2> QED
    BY <1>1, <2>1 DEF CoreTypeOK
<1> HIDE DEF k
<1>6. k # 0 => q \in Seq(Nat) /\ q # << >>
  <2>1. k # 0 => sessions.array[k] \in Sessions
    BY <1>4, <1>5
  <2>2. k # 0 => sessions.array[k].inc_pkts \in Seq(Nat)
    BY <2>1 DEF Sessions
  <2>3. cnx[c].called + 1 \in Nat
    BY <1>5
  <2> QED
    BY <2>2, <2>3, AppendOf
<1> HIDE DEF q
<1>7. /\ sessions' \in SessionArrays /\ sessions'.home = sessions.home
      /\ Len(sessions'.array) = Len(sessions.array)
      /\ \A j \in 1 .. Len(sessions.array) : sessions'.array[j].cnx = sessions.array[j].cnx
  <2>1. CASE k = 0
    BY <1>1, <1>3, <2>1
  <2>2. CASE k # 0
    <3>1. k \in 1 .. Len(sessions.array)
      BY <1>4, <2>2
    <3> QED
      BY <1>1, <1>3, <1>6, <2>2, <3>1, InboxBecomes
  <2> QED
    BY <2>1, <2>2
<1>8. /\ cnx' \in [Cnxs -> [state : {"none", "ready", "closed"}, called : Nat]]
      /\ \A d \in Cnxs : cnx'[d].state = cnx[d].state
  BY <1>1, <1>2, <1>5 DEF CoreTypeOK
<1>9. daemon' \in {"receive", "notify_incoming"}
  BY <1>2, <1>3
<1>10. CoreTypeOK'
  BY <1>1, <1>2, <1>7, <1>8, <1>9 DEF CoreTypeOK, SessionArrays
<1>11. Announced' /\ Told'
  BY <1>1, <1>2, <1>9 DEF Announced, Told
<1>12. ASSUME OneReady' PROVE TheOnlySession'
  <2>1. TheOnlySession
    BY <1>8, <1>12 DEF OneReady, CoreInv
  <2>2. Len(sessions.array) = 1 /\ sessions.array[1].cnx = c
    BY <1>2, <2>1 DEF TheOnlySession
  <2>3. 1 \in 1 .. Len(sessions.array)
    BY <2>2
  <2>4. k # 0
    BY <1>4, <2>2, <2>3
  <2>5. daemon' = "notify_incoming"
    BY <1>3, <2>4
  <2>6. \A d \in Cnxs : cnx'[d].state = "ready" =>
          Len(sessions'.array) = 1 /\ sessions'.array[1].cnx = d
    BY <1>7, <1>8, <2>1, <2>2, <2>3 DEF TheOnlySession
  <2>7. ~\A d \in Cnxs : cnx'[d].state = "none"
    BY <1>2, <1>8
  <2> QED
    BY <1>2, <1>7, <1>8, <2>1, <2>5, <2>6, <2>7 DEF TheOnlySession
<1> QED
  BY <1>10, <1>11, <1>12 DEF CoreInv

(* A connection closes, and its session is removed. *)
LEMMA CloseCnxStep ==
  ASSUME CoreInv, NEW c \in Cnxs, CloseCnx(c)
  PROVE  CoreInv'
<1>1. CoreTypeOK /\ Announced /\ Told /\ sessions \in SessionArrays
  BY DEF CoreInv, CoreTypeOK, SessionArrays
<1>2. /\ daemon = "receive" /\ cnx[c].state = "ready"
      /\ cnx' = [cnx EXCEPT ![c].state = "closed"]
      /\ is_running' = FALSE
      /\ UNCHANGED <<new_sessions, evs, unsent, daemon, app, emptied>>
  BY DEF CloseCnx
<1> DEFINE k == FindSession(c)
<1>3. /\ k = 1 => sessions' = [sessions EXCEPT !.array = Tail(sessions.array)]
      /\ k # 1 => sessions' = sessions
  BY DEF CloseCnx
<1>4. /\ k \in {0} \cup (1 .. Len(sessions.array))
      /\ \A i \in 1 .. Len(sessions.array) : sessions.array[i].cnx = c => k # 0 /\ k <= i
  BY <1>1, FindSessionFinds
<1> HIDE DEF k
<1>5. /\ sessions.array \in Seq(Sessions) /\ sessions.home \in Nat \ {0} /\ sessions.head \in Nat
  BY <1>1 DEF SessionArrays
<1>6. k = 1 => sessions.array # << >> /\ Tail(sessions.array) \in Seq(Sessions)
  <2>1. k = 1 => sessions.array # << >>
    BY <1>4, <1>5
  <2> QED
    BY <1>5, <2>1, TailOf
<1>7. sessions' \in SessionArrays /\ sessions'.home = sessions.home
  <2>1. CASE k = 1
    <3> DEFINE rest == Tail(sessions.array)
    <3>1. rest \in Seq(Sessions) /\ sessions' = [sessions EXCEPT !.array = rest]
      BY <1>3, <1>6, <2>1
    <3> HIDE DEF rest
    <3> QED
      BY <1>1, <1>5, <3>1 DEF SessionArrays
  <2>2. CASE k # 1
    BY <1>1, <1>3, <2>2
  <2> QED
    BY <2>1, <2>2
<1>8. /\ cnx' \in [Cnxs -> [state : {"none", "ready", "closed"}, called : Nat]]
      /\ cnx'[c].state = "closed" /\ \A d \in Cnxs : d # c => cnx'[d] = cnx[d]
  BY <1>1, <1>2 DEF CoreTypeOK
<1>9. CoreTypeOK'
  BY <1>1, <1>2, <1>7, <1>8 DEF CoreTypeOK, SessionArrays
<1>10. Announced' /\ Told'
  BY <1>1, <1>2 DEF Announced, Told
<1>11. ASSUME OneReady' PROVE TheOnlySession'
  <2>1. OneReady
    BY <1>2, <1>8, <1>11 DEF OneReady
  <2>2. TheOnlySession
    BY <2>1 DEF CoreInv
  <2>3. Len(sessions.array) = 1 /\ sessions.array[1].cnx = c
    BY <1>2, <2>2 DEF TheOnlySession
  <2>4. k = 1
    <3>1. 1 \in 1 .. Len(sessions.array)
      BY <2>3
    <3>2. k # 0 /\ k <= 1
      BY <1>4, <2>3, <3>1
    <3> QED
      BY <1>4, <2>3, <3>2
  <2>5. Len(sessions'.array) = 0
    <3>1. sessions'.array = Tail(sessions.array)
      BY <1>3, <1>5, <2>4, <1>1 DEF SessionArrays
    <3> QED
      BY <1>5, <1>6, <2>3, <2>4, <3>1, TailOf
  <2>6. \A d \in Cnxs : cnx'[d].state # "ready"
    BY <1>2, <1>8, <2>1 DEF OneReady
  <2>7. \A i \in DOMAIN new_sessions' : new_sessions'[i].home = sessions'.home /\ new_sessions'[i].index = 1
    BY <1>2, <1>7, <2>2 DEF TheOnlySession
  <2> QED
    BY <1>2, <1>7, <1>8, <2>2, <2>5, <2>6, <2>7 DEF TheOnlySession
<1> QED
  BY <1>9, <1>10, <1>11 DEF CoreInv

(* Every step of QUIC keeps the invariant. *)
LEMMA CoreNextInv == CoreInv /\ [CoreNext]_quicvars => CoreInv'
<1> SUFFICES ASSUME CoreInv, [CoreNext]_quicvars PROVE CoreInv'
  OBVIOUS
<1>1. ASSUME UNCHANGED quicvars PROVE CoreInv'
  BY <1>1 DEF quicvars, CoreInv, CoreTypeOK, Announced, Told, OneReady, TheOnlySession
<1> QED
  BY <1>1, DaemonStep, AppStep, PopSessionStep, QuicRecvStep, RegisterStep, StreamDataStep,
     CloseCnxStep DEF CoreNext

(***************************************************************************)
(* Who is told of what in quic.c: the daemon of new data, the application  *)
(* of sessions and packets, and where the only ready session is stored.    *)
(***************************************************************************)
THEOREM CoreInvariant == CoreSpec => []CoreInv
<1>1. CoreInit => CoreInv
  BY CoreInitInv
<1>2. CoreInv /\ [CoreNext]_quicvars => CoreInv'
  BY CoreNextInv
<1> QED
  BY <1>1, <1>2, PTL DEF CoreSpec

(***************************************************************************)
(* Whatever the order of the two threads and of the application's calls,   *)
(* data handed to quic_send are announced before the daemon sleeps on      *)
(* them, and packets of the session to an application that waits for more  *)
(* after it has read until there were none.                                *)
(***************************************************************************)
THEOREM QuicOverlooksNothing == CoreSpec => []NothingOverlooked
<1>1. CoreInv => NothingOverlooked
  <2> SUFFICES ASSUME CoreInv PROVE NothingOverlooked
    OBVIOUS
  <2>1. ASSUME OneReady, app.pc = "wait", emptied, Inbox # << >>
        PROVE  "incoming" \in evs \/ daemon = "notify_incoming"
    <3>1. TheOnlySession /\ app.session # NoSession
      BY <2>1 DEF CoreInv, Told
    <3>2. Pointed = 1
      BY <2>1, <3>1 DEF TheOnlySession, Pointed, Inbox
    <3>3. Len(sessions.array) = 1
      <4>1. sessions \in SessionArrays
        BY DEF CoreInv, CoreTypeOK, SessionArrays
      <4>2. Len(sessions.array) \in Nat
        <5>1. sessions.array \in Seq(Sessions)
          BY <4>1 DEF SessionArrays
        <5> QED
          BY <5>1
      <4>3. 1 <= Len(sessions.array)
        BY <3>2 DEF Pointed
      <4>4. Len(sessions.array) <= 1
        BY <3>1 DEF TheOnlySession
      <4> DEFINE n == Len(sessions.array)
      <4>5. n \in Nat /\ 1 <= n /\ n <= 1
        BY <4>2, <4>3, <4>4
      <4> HIDE DEF n
      <4>6. n = 1
        BY <4>5
      <4> QED
        BY <4>6 DEF n
    <3>4. sessions.array[1].inc_pkts # << >>
      BY <2>1, <3>1, <3>3, OnlyInbox
    <3> QED
      BY <2>1, <3>1, <3>3, <3>4 DEF TheOnlySession
  <2> QED
    BY <2>1 DEF CoreInv, Announced, NothingOverlooked
<1> QED
  BY <1>1, CoreInvariant, PTL

(***************************************************************************)
(* quic_wait_session returns with a session, and its pointer is good until *)
(* a second connection is ready or this one is closed.                     *)
(***************************************************************************)
THEOREM SessionIsThere == CoreSpec => []SessionWhenTold
<1>1. CoreInv => SessionWhenTold
  <2> SUFFICES ASSUME CoreInv PROVE SessionWhenTold
    OBVIOUS
  <2>1. app.pc = "ready" => app.session # NoSession
    BY DEF CoreInv, Told
  <2>2. ASSUME app.session # NoSession, OneReady, is_running PROVE Pointed # 0
    <3>1. TheOnlySession
      BY <2>2 DEF CoreInv
    <3>2. PICK c \in Cnxs : cnx[c].state # "none"
      BY <2>2, <3>1 DEF TheOnlySession
    <3>3. cnx[c].state \in {"none", "ready", "closed"}
      BY DEF CoreInv, CoreTypeOK
    <3>4. cnx[c].state = "ready"
      BY <2>2, <3>1, <3>2, <3>3 DEF TheOnlySession
    <3>5. Len(sessions.array) = 1
      BY <3>1, <3>4 DEF TheOnlySession
    <3>6. Pointed = 1
      BY <2>2, <3>1, <3>5, OnlyInbox
    <3> QED
      BY <3>6
  <2> QED
    BY <2>1, <2>2 DEF SessionWhenTold
<1> QED
  BY <1>1, CoreInvariant, PTL

-----------------------------------------------------------------------------
(* The HTTP server. *)

Asks     == [fd : Nat, req : Clients \X Nat]
CliState == [fd : Nat, read : Nat, read_done : BOOLEAN]
RunnerAt == {"wait", "take", "resp", "write", "serve", "notify", "ended"}

STypeOK ==
  /\ net \in [Clients -> [fd : Nat, unread : Nat, sent : {1, 2}, backlog : BOOLEAN]]
  /\ hist \in [Clients -> [asked : Nat, got : Seq(Clients \X Nat), gone : BOOLEAN]]
  /\ clis \in Seq(Nat) /\ requests \in Seq(Asks) /\ responses \in Seq(Asks)
  /\ runner \in [pc : RunnerAt, clients : Seq(CliState), i : Nat \ {0}]
  /\ poller \in [pc : {"wait", "pop", "notify", "ended"}, resp : {0}]

(* Work that is in a queue is announced, or being taken out. *)
WorkAnnounced ==
  /\ clis # << >> /\ runner.pc # "take" => ev \/ accepter.pc = "notify"
  /\ responses # << >> /\ runner.pc # "write" => response_ev \/ poller.pc = "notify"
  /\ requests # << >> /\ poller.pc \notin {"pop", "notify"} => request_ev \/ runner.pc = "notify"

(* A descriptor is one client's, and is known to the server once. *)
FdOf(k) == runner.clients[k].fd

FdsDiffer ==
  /\ \A c, d \in Clients : net[c].fd = net[d].fd /\ net[c].fd # 0 => c = d
  /\ \A c \in Clients : net[c].backlog => net[c].fd = 0

FdsKnown ==
  /\ \A k \in 1 .. Len(runner.clients) : FdOf(k) # 0 /\ \E c \in Clients : net[c].fd = FdOf(k)
  /\ \A k \in 1 .. Len(clis) : clis[k] # 0 /\ \E c \in Clients : net[c].fd = clis[k]
  /\ \A j, k \in 1 .. Len(runner.clients) : FdOf(j) = FdOf(k) => j = k
  /\ \A j, k \in 1 .. Len(clis) : clis[j] = clis[k] => j = k
  /\ \A j \in 1 .. Len(runner.clients), k \in 1 .. Len(clis) : FdOf(j) # clis[k]

ReadsFit ==
  /\ \A k \in 1 .. Len(runner.clients) : ~runner.clients[k].read_done => runner.clients[k].read = 0
  /\ runner.pc = "notify" => runner.i <= Len(runner.clients)

(* The answers a client has to requests of its own. *)
Answered(c) == Cardinality(Own(c, hist[c].got))

(* A request that is on its way is the last its client made, and unanswered; *)
(* it bears the descriptor of the client, unless that has hung up.           *)
InHandFits(e) ==
  LET c == e.req[1]
  IN  /\ e.fd # 0
      /\ e.req[2] = hist[c].asked /\ hist[c].asked = Answered(c) + 1
      /\ net[c].sent = 2 /\ net[c].unread = 0
      /\ net[c].fd = e.fd \/ hist[c].gone

InHand ==
  /\ \A k \in 1 .. Len(requests) : InHandFits(requests[k])
  /\ \A k \in 1 .. Len(responses) : InHandFits(responses[k])
  /\ \A j, k \in 1 .. Len(requests) : requests[j].req[1] = requests[k].req[1] => j = k
  /\ \A j, k \in 1 .. Len(responses) : responses[j].req[1] = responses[k].req[1] => j = k
  /\ \A j \in 1 .. Len(requests), k \in 1 .. Len(responses) :
       requests[j].req[1] # responses[k].req[1]

Nobodys(c) ==
  /\ \A k \in 1 .. Len(requests) : requests[k].req[1] # c
  /\ \A k \in 1 .. Len(responses) : responses[k].req[1] # c

(* A client whose request is not read in full waits for its answer. *)
Unread ==
  \A c \in Clients :
    /\ net[c].sent = 1 \/ net[c].unread > 0 => hist[c].asked = Answered(c) + 1 /\ Nobodys(c)
    /\ net[c].sent = 1 => net[c].unread <= 1
    /\ net[c].unread <= 2

SInv == /\ STypeOK /\ WorkAnnounced /\ FdsDiffer /\ FdsKnown /\ ReadsFit
        /\ InHand /\ Unread /\ AnswersFit

-----------------------------------------------------------------------------
(* The end of a sequence. *)
LEMMA BackOf ==
  ASSUME NEW S, NEW q \in Seq(S), NEW i \in 1 .. Len(q)
  PROVE  /\ SubSeq(q, i + 1, Len(q)) \in Seq(S) /\ Len(SubSeq(q, i + 1, Len(q))) = Len(q) - i
         /\ \A k \in 1 .. (Len(q) - i) : SubSeq(q, i + 1, Len(q))[k] = q[i + k]
<1> DEFINE n == Len(q)
           m == i + 1
           r == SubSeq(q, m, n)
<1>1. n \in Nat /\ i \in Nat /\ 1 <= i /\ i <= n /\ \A k \in 1 .. n : q[k] \in S
  OBVIOUS
<1> HIDE DEF n
<1>2. m \in Int /\ n \in Int /\ n - m + 1 = n - i /\ (m > n => n - i = 0) /\ \A k \in m .. n : k \in 1 .. n
  BY <1>1
<1>3. \A k \in m .. n : q[k] \in S
  BY <1>1, <1>2
<1>4. /\ r \in Seq(S) /\ Len(r) = (IF m <= n THEN n - m + 1 ELSE 0)
      /\ \A k \in 1 .. n - m + 1 : r[k] = q[m + k - 1]
  <2> HIDE DEF m
  <2> QED
    BY <1>2, <1>3, SubSeqProperties
<1>5. \A k \in 1 .. (n - i) : m + k - 1 = i + k
  BY <1>1
<1> HIDE DEF r
<1>6. Len(r) = n - i /\ \A k \in 1 .. (n - i) : r[k] = q[i + k]
  BY <1>1, <1>2, <1>4, <1>5
<1> QED
  BY <1>4, <1>6 DEF r, n

(* A sequence without one of its elements. *)
LEMMA RemoveAtOf ==
  ASSUME NEW S, NEW q \in Seq(S), NEW i \in 1 .. Len(q)
  PROVE  /\ RemoveAt(q, i) \in Seq(S) /\ Len(RemoveAt(q, i)) = Len(q) - 1
         /\ \A k \in 1 .. (Len(q) - 1) : RemoveAt(q, i)[k] = q[IF k < i THEN k ELSE k + 1]
<1> DEFINE front == SubSeq(q, 1, i - 1)
           back  == SubSeq(q, i + 1, Len(q))
<1>1. Len(q) \in Nat /\ i \in Nat /\ 1 <= i /\ i <= Len(q) /\ DOMAIN q = 1 .. Len(q)
  OBVIOUS
<1>2. /\ front \in Seq(S) /\ Len(front) = i - 1
      /\ \A k \in 1 .. (i - 1) : front[k] = q[k]
  BY <1>1
<1>3. /\ back \in Seq(S) /\ Len(back) = Len(q) - i
      /\ \A k \in 1 .. (Len(q) - i) : back[k] = q[i + k]
  BY BackOf
<1>4. RemoveAt(q, i) = front \o back
  BY DEF RemoveAt
<1> HIDE DEF front, back
<1>5. /\ front \o back \in Seq(S) /\ Len(front \o back) = Len(front) + Len(back)
      /\ \A k \in 1 .. (Len(front) + Len(back)) :
           (front \o back)[k] = IF k <= Len(front) THEN front[k] ELSE back[k - Len(front)]
  BY <1>2, <1>3, ConcatProperties
<1>6. Len(front) + Len(back) = Len(q) - 1
  BY <1>1, <1>2, <1>3
<1>7. ASSUME NEW k \in 1 .. (Len(q) - 1) PROVE (front \o back)[k] = q[IF k < i THEN k ELSE k + 1]
  <2>1. CASE k < i
    BY <1>1, <1>2, <1>5, <1>6, <1>7, <2>1
  <2>2. CASE ~(k < i)
    <3>1. k - (i - 1) \in 1 .. (Len(q) - i) /\ i + (k - (i - 1)) = k + 1 /\ ~(k <= i - 1)
      BY <1>1, <1>7, <2>2
    <3>2. (front \o back)[k] = back[k - (i - 1)]
      BY <1>2, <1>5, <1>6, <1>7, <3>1
    <3>3. back[k - (i - 1)] = q[i + (k - (i - 1))]
      BY <1>3, <3>1
    <3> QED
      BY <2>2, <3>1, <3>2, <3>3
  <2> QED
    BY <2>1, <2>2
<1> QED
  BY <1>4, <1>5, <1>6, <1>7

(* An answer more. *)
OwnGrows(c, got, e) ==
  /\ Own(c, got) \subseteq 1 .. Len(got) /\ Cardinality(Own(c, got)) \in Nat
  /\ e[1] = c => /\ Own(c, Append(got, e)) = Own(c, got) \cup {Len(got) + 1}
                 /\ Cardinality(Own(c, Append(got, e))) = Cardinality(Own(c, got)) + 1
  /\ e[1] # c => Own(c, Append(got, e)) = Own(c, got)

LEMMA OwnOf ==
  ASSUME NEW c, NEW got \in Seq(Clients \X Nat), NEW e \in Clients \X Nat
  PROVE  OwnGrows(c, got, e)
<1>1. /\ Len(got) \in Nat /\ DOMAIN got = 1 .. Len(got)
      /\ DOMAIN Append(got, e) = 1 .. (Len(got) + 1)
      /\ \A i \in 1 .. Len(got) : Append(got, e)[i] = got[i]
      /\ Append(got, e)[Len(got) + 1] = e
  BY AppendOf
<1>2. Own(c, got) \subseteq 1 .. Len(got)
  BY <1>1 DEF Own
<1>3. IsFiniteSet(1 .. Len(got))
  BY <1>1, FS_Interval
<1>4. IsFiniteSet(Own(c, got)) /\ Cardinality(Own(c, got)) \in Nat
  BY <1>2, <1>3, FS_Subset, FS_CardinalityType
<1>5. \A i \in 1 .. (Len(got) + 1) : i \in 1 .. Len(got) \/ i = Len(got) + 1
  BY <1>1
<1>6. \A i \in 1 .. Len(got) : i \in 1 .. (Len(got) + 1) /\ i # Len(got) + 1
  BY <1>1
<1>7. Len(got) + 1 \in 1 .. (Len(got) + 1)
  BY <1>1
<1> DEFINE more == Append(got, e)
           last == Len(got) + 1
<1>8. /\ DOMAIN more = 1 .. last /\ more[last] = e /\ last \in 1 .. last
      /\ \A i \in 1 .. Len(got) : more[i] = got[i] /\ i \in 1 .. last /\ i # last
      /\ \A i \in 1 .. last : i \in 1 .. Len(got) \/ i = last
  BY <1>1, <1>5, <1>6, <1>7
<1> HIDE DEF more, last
<1>9. e[1] = c => Own(c, more) = Own(c, got) \cup {last}
  BY <1>1, <1>8 DEF Own
<1>10. e[1] # c => Own(c, more) = Own(c, got)
  BY <1>1, <1>8 DEF Own
<1>11. last \notin Own(c, got)
  BY <1>2, <1>8
<1>12. e[1] = c => Cardinality(Own(c, more)) = Cardinality(Own(c, got)) + 1
  BY <1>4, <1>9, <1>11, FS_AddElement
<1> QED
  BY <1>2, <1>4, <1>9, <1>10, <1>12 DEF OwnGrows, more, last

(* The descriptor of a connection the server knows stands for one client. *)
LEMMA WhoIs ==
  ASSUME SInv, runner.i <= Len(runner.clients)
  PROVE  /\ runner.i \in 1 .. Len(runner.clients)
         /\ Cli \in CliState /\ Cli.fd = FdOf(runner.i) /\ Cli.fd # 0
         /\ Who \in Clients /\ net[Who].fd = Cli.fd
<1>1. runner \in [pc : RunnerAt, clients : Seq(CliState), i : Nat \ {0}]
  BY DEF SInv, STypeOK
<1>2. runner.clients \in Seq(CliState) /\ runner.i \in Nat \ {0} /\ Len(runner.clients) \in Nat
  BY <1>1
<1>3. runner.i \in 1 .. Len(runner.clients)
  BY <1>2
<1>4. Cli \in CliState /\ Cli.fd = FdOf(runner.i) /\ Cli.fd # 0
  BY <1>2, <1>3 DEF Cli, FdOf, SInv, FdsKnown
<1>5. At(Cli.fd) # {}
  BY <1>3, <1>4 DEF At, SInv, FdsKnown
<1>6. Who \in At(Cli.fd)
  BY <1>5 DEF Who
<1> QED
  BY <1>3, <1>4, <1>6 DEF At

(***************************************************************************)
(* The invariant in three parts: the queues and their announcements, the   *)
(* descriptors, and the requests on their way.                             *)
(***************************************************************************)
FInv == FdsDiffer /\ FdsKnown
QInv == InHand /\ Unread /\ AnswersFit

(* The types of the fields of the state. *)
LEMMA FieldsTyped ==
  ASSUME STypeOK
  PROVE  /\ \A c \in Clients : /\ net[c].fd \in Nat /\ net[c].unread \in Nat
                               /\ net[c].sent \in {1, 2} /\ net[c].backlog \in BOOLEAN
                               /\ hist[c].asked \in Nat /\ hist[c].got \in Seq(Clients \X Nat)
                               /\ hist[c].gone \in BOOLEAN
         /\ runner.clients \in Seq(CliState) /\ runner.i \in Nat \ {0} /\ runner.pc \in RunnerAt
         /\ \A k \in 1 .. Len(runner.clients) : /\ runner.clients[k] \in CliState
                                                /\ runner.clients[k].fd \in Nat
                                                /\ runner.clients[k].read \in Nat
         /\ \A k \in 1 .. Len(requests) : requests[k] \in Asks
         /\ \A k \in 1 .. Len(responses) : responses[k] \in Asks
<1>1. \A c \in Clients : /\ net[c].fd \in Nat /\ net[c].unread \in Nat
                          /\ net[c].sent \in {1, 2} /\ net[c].backlog \in BOOLEAN
  BY DEF STypeOK
<1>2. \A c \in Clients : /\ hist[c].asked \in Nat /\ hist[c].got \in Seq(Clients \X Nat)
                          /\ hist[c].gone \in BOOLEAN
  BY DEF STypeOK
<1>3. runner.clients \in Seq(CliState) /\ runner.i \in Nat \ {0} /\ runner.pc \in RunnerAt
  BY DEF STypeOK
<1>4. ASSUME NEW s \in Seq(CliState), NEW k \in 1 .. Len(s)
      PROVE  s[k] \in CliState /\ s[k].fd \in Nat /\ s[k].read \in Nat
  <2>1. s[k] \in CliState
    BY <1>4
  <2> QED
    BY <2>1 DEF CliState
<1>5. /\ \A k \in 1 .. Len(requests) : requests[k] \in Asks
      /\ \A k \in 1 .. Len(responses) : responses[k] \in Asks
  BY DEF STypeOK
<1> QED
  BY <1>1, <1>2, <1>3, <1>4, <1>5

(* The types of a request's fields. *)
LEMMA AskTyped ==
  ASSUME NEW e \in Asks
  PROVE  e.fd \in Nat /\ e.req \in Clients \X Nat /\ e.req[1] \in Clients /\ e.req[2] \in Nat
BY DEF Asks

(* A server without connections satisfies the invariant. *)
LEMMA SInitInv == SInit => SInv
<1> SUFFICES ASSUME SInit PROVE SInv
  OBVIOUS
<1>1. STypeOK
  <2>1. [fd |-> 0, unread |-> 0, sent |-> 2, backlog |-> FALSE]
           \in [fd : Nat, unread : Nat, sent : {1, 2}, backlog : BOOLEAN]
    OBVIOUS
  <2>2. [asked |-> 0, got |-> << >>, gone |-> FALSE]
           \in [asked : Nat, got : Seq(Clients \X Nat), gone : BOOLEAN]
    OBVIOUS
  <2> QED
    BY <2>1, <2>2 DEF SInit, STypeOK, RunnerAt
<1>2. Len(clis) = 0 /\ Len(requests) = 0 /\ Len(responses) = 0 /\ Len(runner.clients) = 0
  BY DEF SInit
<1>3. FdsDiffer /\ FdsKnown /\ ReadsFit /\ WorkAnnounced
  BY <1>2 DEF SInit, FdsDiffer, FdsKnown, ReadsFit, WorkAnnounced
<1>4. InHand
  BY <1>2 DEF InHand
<1>5. Unread
  BY DEF SInit, Unread
<1>6. AnswersFit
  <2>1. \A c \in Clients : hist[c].got = << >> /\ DOMAIN hist[c].got = {}
    BY DEF SInit
  <2> QED
    BY <2>1 DEF AnswersFit, Own
<1> QED
  BY <1>1, <1>3, <1>4, <1>5, <1>6 DEF SInv

(* The descriptors stay as they are. *)
LEMMA FInvKept ==
  ASSUME FInv, clis' = clis, Len(runner.clients)' = Len(runner.clients),
         \A c \in Clients : net'[c].fd = net[c].fd /\ (net'[c].backlog => net[c].fd = 0),
         \A k \in 1 .. Len(runner.clients) : FdOf(k)' = FdOf(k)
  PROVE  FInv'
BY DEF FInv, FdsDiffer, FdsKnown, FdOf

(* The requests on their way stay as they are. *)
LEMMA QInvKept ==
  ASSUME SInv, UNCHANGED <<requests, responses>>,
         \A c \in Clients :
            /\ net'[c].sent = net[c].sent
            /\ net'[c].unread = net[c].unread \/ net'[c].unread = 0
            /\ hist'[c].asked = hist[c].asked /\ hist'[c].got = hist[c].got
            /\ hist[c].gone => hist'[c].gone
            /\ net'[c].fd = net[c].fd \/ net[c].fd = 0 \/ hist[c].gone
  PROVE  QInv'
<1>1. STypeOK /\ InHand /\ Unread /\ AnswersFit
  BY DEF SInv
<1>2. \A c \in Clients : Answered(c)' = Answered(c)
  BY DEF Answered, Own
<1>3. ASSUME NEW e \in Asks, InHandFits(e) PROVE InHandFits(e)'
  <2>1. e.req[1] \in Clients
    BY AskTyped
  <2> QED
    BY <1>2, <1>3, <2>1 DEF InHandFits
<1>4. InHand'
  BY <1>1, <1>3, FieldsTyped DEF InHand
<1>5. Unread'
  BY <1>1, <1>2 DEF Unread, Nobodys
<1>6. AnswersFit'
  <2> DEFINE Suits(h) ==
        \A c \in Clients :
          /\ \A i \in Own(c, h[c].got) : h[c].got[i][2] = Cardinality(Own(c, SubSeq(h[c].got, 1, i)))
          /\ \A i \in DOMAIN h[c].got \ Own(c, h[c].got) : h[h[c].got[i][1]].gone
  <2>1. Suits(hist)
    BY <1>1 DEF AnswersFit
  <2>2. \A c \in Clients : \A i \in DOMAIN hist[c].got : hist[c].got[i][1] \in Clients
    BY <1>1, FieldsTyped
  <2>3. Suits(hist')
    BY <2>1, <2>2
  <2> HIDE DEF Suits
  <2> QED
    BY <2>3 DEF AnswersFit, Suits
<1> QED
  BY <1>4, <1>5, <1>6 DEF QInv

(* What is in a queue has been announced, or its taker is at work. *)
LEMMA AnnouncedStep == SInv /\ [SNext]_svars => WorkAnnounced'
<1> SUFFICES ASSUME SInv, [SNext]_svars PROVE WorkAnnounced'
  OBVIOUS
<1> USE DEF WorkAnnounced, Accepter, Queues
<1>1. WorkAnnounced /\ runner \in [pc : RunnerAt, clients : Seq(CliState), i : Nat \ {0}]
      /\ poller \in [pc : {"wait", "pop", "notify", "ended"}, resp : {0}]
  BY DEF SInv, STypeOK
<1>2. ASSUME NEW c \in Clients, Connect(c) \/ SendSegment(c) \/ HangUp(c) PROVE WorkAnnounced'
  BY <1>1, <1>2 DEF Connect, SendSegment, HangUp
<1>3. ASSUME NEW c \in Clients, Accept(c) PROVE WorkAnnounced'
  BY <1>1, <1>3 DEF Accept
<1>4. CASE AcceptNotify
  BY <1>1, <1>4 DEF AcceptNotify
<1>5. CASE AccepterEnds
  BY <1>1, <1>5 DEF AccepterEnds
<1>6. CASE RunnerWait
  BY <1>1, <1>6 DEF RunnerWait
<1>7. CASE RunnerTake
  BY <1>1, <1>7 DEF RunnerTake
<1>8. CASE RunnerResponses
  BY <1>1, <1>8 DEF RunnerResponses
<1>9. CASE RunnerWrite
  BY <1>1, <1>9 DEF RunnerWrite
<1>10. CASE RunnerServe
  <2>1. runner.pc = "serve" /\ UNCHANGED <<Accepter, request_ev, responses, response_ev, poller>>
    BY <1>10 DEF RunnerServe
  <2>2. CASE Reads
    BY <1>1, <2>1, <2>2 DEF Reads, Served
  <2>3. CASE ParsesAgain
    BY <1>1, <2>1, <2>3 DEF ParsesAgain, Served
  <2>4. CASE Closes
    BY <1>1, <2>1, <2>4 DEF Closes
  <2> QED
    BY <1>10, <2>2, <2>3, <2>4 DEF RunnerServe
<1>11. CASE RunnerNotify
  BY <1>1, <1>11 DEF RunnerNotify, Served
<1>12. CASE RunnerAround
  BY <1>1, <1>12 DEF RunnerAround
<1>13. CASE PollerWait
  BY <1>1, <1>13 DEF PollerWait
<1>14. CASE PollerAnswer
  BY <1>1, <1>14 DEF PollerAnswer
<1>15. CASE PollerNotify
  BY <1>1, <1>15 DEF PollerNotify
<1>16. CASE ServerStop \/ UNCHANGED svars
  BY <1>1, <1>16 DEF ServerStop, svars
<1> QED
  BY <1>2, <1>3, <1>4, <1>5, <1>6, <1>7, <1>8, <1>9, <1>10, <1>11, <1>12, <1>13, <1>14, <1>15,
     <1>16 DEF SNext, Runner

(* The descriptor that accept gives out is nobody's. *)
LEMMA FreshFd ==
  ASSUME SInv, NEW c \in Clients, net[c].fd = 0
  PROVE  FreeFd \in Nat /\ FreeFd # 0 /\ \A d \in Clients : net[d].fd # FreeFd
<1> DEFINE others == Clients \ {c}
           f      == [d \in others |-> net[d].fd]
           N      == Cardinality(Clients)
           used   == {net[d].fd : d \in Clients}
           taken  == {f[d] : d \in others}
<1>1. IsFiniteSet(others) /\ N \in Nat /\ Cardinality(others) = N - 1
  BY ClientsAssumption, FS_RemoveElement, FS_CardinalityType
<1>2. IsFiniteSet(taken) /\ Cardinality(taken) <= N - 1 /\ Cardinality(taken) \in Nat
  <2>1. f \in Surjection(others, taken)
    BY DEF Surjection
  <2> HIDE DEF others, f, taken
  <2>2. IsFiniteSet(taken) /\ Cardinality(taken) <= Cardinality(others)
    BY <1>1, <2>1, FS_Surjection
  <2> QED
    BY <1>1, <2>2, FS_CardinalityType
<1>3. IsFiniteSet(1 .. N) /\ Cardinality(1 .. N) = N
  BY <1>1, FS_Interval
<1>4. (1 .. N) \ used # {}
  <2>1. CASE 1 .. N \subseteq used
    <3>1. 0 \notin 1 .. N
      BY <1>1
    <3>2. 1 .. N \subseteq taken
      BY <2>1, <3>1
    <3> HIDE DEF taken, N
    <3>3. Cardinality(1 .. N) <= Cardinality(taken)
      BY <1>2, <3>2, FS_Subset
    <3> QED
      BY <1>1, <1>2, <1>3, <3>3
  <2> QED
    BY <2>1
<1>5. (1 .. N) \ used \in SUBSET Nat
  OBVIOUS
<1>6. FreeFd \in (1 .. N) \ used
  BY <1>4, <1>5, MinIn DEF FreeFd
<1> QED
  BY <1>1, <1>6

NetState  == [fd : Nat, unread : Nat, sent : {1, 2}, backlog : BOOLEAN]
HistState == [asked : Nat, got : Seq(Clients \X Nat), gone : BOOLEAN]
RunState  == [pc : RunnerAt, clients : Seq(CliState), i : Nat \ {0}]

(* The types, with names for those of records. *)
LEMMA STypeParts ==
  STypeOK <=> /\ net \in [Clients -> NetState] /\ hist \in [Clients -> HistState]
              /\ clis \in Seq(Nat) /\ requests \in Seq(Asks) /\ responses \in Seq(Asks)
              /\ runner \in RunState
              /\ poller \in [pc : {"wait", "pop", "notify", "ended"}, resp : {0}]
BY DEF STypeOK, NetState, HistState, RunState

(* The record that the runner goes on with. *)
LEMMA ServedOf ==
  ASSUME SInv, runner.i <= Len(runner.clients), NEW cli \in CliState
  PROVE  /\ Served(cli) \in RunState /\ Served(cli).pc = runner.pc
         /\ Served(cli).i = runner.i + 1
         /\ Len(Served(cli).clients) = Len(runner.clients)
         /\ Served(cli).clients[runner.i] = cli
         /\ \A k \in 1 .. Len(runner.clients) : k # runner.i => Served(cli).clients[k] = runner.clients[k]
<1>1. runner \in RunState
  BY DEF SInv, STypeOK, RunState
<1>2. runner.clients \in Seq(CliState) /\ runner.i \in 1 .. Len(runner.clients) /\ runner.i \in Nat
  BY <1>1, WhoIs DEF RunState
<1> DEFINE s == [runner.clients EXCEPT ![runner.i] = cli]
           n == runner.i + 1
<1>3. s \in Seq(CliState) /\ Len(s) = Len(runner.clients) /\ s[runner.i] = cli
      /\ \A k \in 1 .. Len(runner.clients) : k # runner.i => s[k] = runner.clients[k]
  BY <1>2
<1>4. n \in Nat \ {0}
  BY <1>2
<1>5. Served(cli) = [runner EXCEPT !.clients = s, !.i = n]
  BY DEF Served
<1> HIDE DEF s, n
<1>6. Served(cli) \in RunState /\ Served(cli).pc = runner.pc /\ Served(cli).i = n /\ Served(cli).clients = s
  BY <1>1, <1>3, <1>4, <1>5 DEF RunState
<1> QED
  BY <1>3, <1>6 DEF n

(* What a read leaves of the state of a connection. *)
LEMMA CliAfter ==
  ASSUME NEW cli \in CliState, NEW n \in Nat
  PROVE  /\ [cli EXCEPT !.read = n] \in CliState
         /\ [cli EXCEPT !.read = n].fd = cli.fd
         /\ [cli EXCEPT !.read = n].read = n
         /\ [cli EXCEPT !.read = n].read_done = cli.read_done
         /\ [cli EXCEPT !.read = n, !.read_done = TRUE] \in CliState
         /\ [cli EXCEPT !.read = n, !.read_done = TRUE].fd = cli.fd
         /\ [cli EXCEPT !.read = n, !.read_done = TRUE].read_done
BY DEF CliState

(* One client's entry. *)
LEMMA NetStep ==
  ASSUME STypeOK, NEW c \in Clients, NEW new \in NetState, net' = [net EXCEPT ![c] = new]
  PROVE  net' \in [Clients -> NetState] /\ net'[c] = new /\ \A d \in Clients \ {c} : net'[d] = net[d]
BY STypeParts

(* One client's history. *)
LEMMA HistStep ==
  ASSUME STypeOK, NEW c \in Clients, NEW new \in HistState, hist' = [hist EXCEPT ![c] = new]
  PROVE  hist' \in [Clients -> HistState] /\ hist'[c] = new /\ \A d \in Clients \ {c} : hist'[d] = hist[d]
BY STypeParts

(* A step of the runner or the poller that leaves the work where it is. *)
LEMMA RunnerStep ==
  ASSUME SInv, UNCHANGED <<net, hist, clis, requests, responses>>,
         runner'.clients = runner.clients, runner' \in RunState,
         runner' = runner \/ runner'.pc # "notify",
         poller' \in [pc : {"wait", "pop", "notify", "ended"}, resp : {0}], WorkAnnounced'
  PROVE  SInv'
<1>1. STypeOK'
  BY STypeParts DEF SInv, STypeOK, RunState
<1>2. FInv'
  BY FieldsTyped, FInvKept DEF SInv, FInv, FdOf, FdsDiffer
<1>3. QInv'
  BY QInvKept
<1>4. ReadsFit'
  BY DEF SInv, ReadsFit
<1> QED
  BY <1>1, <1>2, <1>3, <1>4 DEF SInv, FInv, QInv

(* Steps that only tell, wait or stop. *)
LEMMA QuietStep ==
  ASSUME SInv, WorkAnnounced',
         \/ AcceptNotify \/ AccepterEnds \/ RunnerWait \/ RunnerResponses \/ RunnerAround
         \/ PollerWait \/ PollerNotify \/ ServerStop \/ UNCHANGED svars
  PROVE  SInv'
<1>1. runner \in RunState /\ poller \in [pc : {"wait", "pop", "notify", "ended"}, resp : {0}]
  BY DEF SInv, STypeOK, RunState
<1> USE DEF Accepter, Queues
<1>2. CASE AcceptNotify
  BY <1>1, <1>2, RunnerStep DEF AcceptNotify
<1>3. CASE AccepterEnds
  BY <1>1, <1>3, RunnerStep DEF AccepterEnds
<1>4. CASE RunnerWait
  <2>1. runner' \in RunState /\ runner'.clients = runner.clients /\ runner'.pc # "notify"
    BY <1>1, <1>4 DEF RunnerWait, RunState, RunnerAt
  <2>2. UNCHANGED <<net, hist, clis, requests, responses, poller>>
    BY <1>4 DEF RunnerWait
  <2> QED
    BY <1>1, <2>1, <2>2, RunnerStep
<1>5. CASE RunnerResponses
  <2> DEFINE pc == IF response_ev THEN "write" ELSE "serve"
  <2>0. pc \in {"write", "serve"} /\ runner' = [runner EXCEPT !.pc = pc, !.i = 1]
    BY <1>5 DEF RunnerResponses
  <2> HIDE DEF pc
  <2>9. pc \in RunnerAt /\ pc # "notify" /\ 1 \in Nat \ {0}
    BY <2>0 DEF RunnerAt
  <2>1. runner' \in RunState /\ runner'.clients = runner.clients /\ runner'.pc # "notify"
    BY <1>1, <2>0, <2>9 DEF RunState
  <2>2. UNCHANGED <<net, hist, clis, requests, responses, poller>>
    BY <1>5 DEF RunnerResponses
  <2> QED
    BY <1>1, <2>1, <2>2, RunnerStep
<1>6. CASE RunnerAround
  BY <1>1, <1>6, RunnerStep DEF RunnerAround, RunState, RunnerAt
<1>7. CASE PollerWait
  BY <1>1, <1>7, RunnerStep DEF PollerWait
<1>8. CASE PollerNotify
  BY <1>1, <1>8, RunnerStep DEF PollerNotify
<1>9. CASE ServerStop
  BY <1>1, <1>9, RunnerStep DEF ServerStop
<1>10. CASE UNCHANGED svars
  BY <1>1, <1>10, RunnerStep DEF svars
<1> QED
  BY <1>2, <1>3, <1>4, <1>5, <1>6, <1>7, <1>8, <1>9, <1>10

(* The clients' own steps. *)
LEMMA ConnectStep == ASSUME SInv, WorkAnnounced', NEW c \in Clients, Connect(c) PROVE SInv'
<1> DEFINE new == [net[c] EXCEPT !.backlog = TRUE]
<1>1. /\ STypeOK /\ net' = [net EXCEPT ![c] = new] /\ net[c].fd = 0 /\ net[c] \in NetState
      /\ UNCHANGED <<hist, clis, requests, responses, runner, poller>>
  BY STypeParts DEF SInv, Connect, Accepter, Queues
<1>2. new \in NetState /\ new.fd = net[c].fd /\ new.sent = net[c].sent /\ new.unread = net[c].unread
  BY <1>1 DEF NetState
<1> HIDE DEF new
<1>3. net' \in [Clients -> NetState] /\ net'[c] = new /\ \A d \in Clients \ {c} : net'[d] = net[d]
  BY <1>1, <1>2, NetStep
<1>4. STypeOK'
  BY <1>1, <1>3, STypeParts DEF STypeOK, NetState, HistState, RunState
<1>5. FInv'
  BY <1>1, <1>2, <1>3, FInvKept DEF SInv, FInv, FdsDiffer, FdOf
<1>6. QInv'
  BY <1>1, <1>2, <1>3, QInvKept
<1> QED
  BY <1>1, <1>4, <1>5, <1>6 DEF SInv, FInv, QInv, ReadsFit

(* A client hangs up. *)
LEMMA HangUpStep == ASSUME SInv, WorkAnnounced', NEW c \in Clients, HangUp(c) PROVE SInv'
<1> DEFINE new == [hist[c] EXCEPT !.gone = TRUE]
<1>1. /\ STypeOK /\ hist' = [hist EXCEPT ![c] = new] /\ hist[c] \in HistState
      /\ UNCHANGED <<net, clis, requests, responses, runner, poller>>
  BY STypeParts DEF SInv, HangUp, Accepter, Queues
<1>2. new \in HistState /\ new.asked = hist[c].asked /\ new.got = hist[c].got /\ new.gone
  BY <1>1 DEF HistState
<1> HIDE DEF new
<1>3. hist' \in [Clients -> HistState] /\ hist'[c] = new /\ \A d \in Clients \ {c} : hist'[d] = hist[d]
  BY <1>1, <1>2, HistStep
<1>4. STypeOK'
  BY <1>1, <1>3, STypeParts DEF STypeOK, NetState, HistState, RunState
<1>5. FInv'
  BY <1>1, FInvKept DEF SInv, FInv, FdsDiffer, FdOf
<1>6. QInv'
  BY <1>1, <1>2, <1>3, QInvKept
<1> QED
  BY <1>1, <1>4, <1>5, <1>6 DEF SInv, FInv, QInv, ReadsFit

(* accept: the new descriptor is nobody's, and the client had none. *)
LEMMA AcceptStep == ASSUME SInv, WorkAnnounced', NEW c \in Clients, Accept(c) PROVE SInv'
<1> DEFINE given == FreeFd
           new == [net[c] EXCEPT !.fd = given, !.backlog = FALSE]
<1>1. /\ STypeOK /\ net' = [net EXCEPT ![c] = new] /\ net[c].backlog /\ net[c] \in NetState
      /\ clis' = Append(clis, given)
      /\ UNCHANGED <<hist, requests, responses, runner, poller>>
  BY STypeParts DEF SInv, Accept, Queues
<1>2. net[c].fd = 0
  BY <1>1 DEF SInv, FdsDiffer
<1>3. given \in Nat /\ given # 0 /\ \A d \in Clients : net[d].fd # given
  BY <1>2, FreshFd
<1>4. new \in NetState /\ new.fd = given /\ ~new.backlog /\ new.sent = net[c].sent /\ new.unread = net[c].unread
  BY <1>1, <1>3 DEF NetState
<1> HIDE DEF given, new
<1>5. net' \in [Clients -> NetState] /\ net'[c] = new /\ \A d \in Clients \ {c} : net'[d] = net[d]
  BY <1>1, <1>4, NetStep
<1>6. /\ clis' \in Seq(Nat) /\ Len(clis') = Len(clis) + 1 /\ Len(clis) \in Nat
      /\ clis'[Len(clis) + 1] = given /\ \A k \in 1 .. Len(clis) : clis'[k] = clis[k]
  BY <1>1, <1>3, AppendOf DEF STypeOK
<1>7. STypeOK'
  BY <1>1, <1>5, <1>6, STypeParts DEF STypeOK, NetState, HistState, RunState
<1>8. FdsDiffer'
  BY <1>1, <1>3, <1>4, <1>5 DEF SInv, FdsDiffer
<1>9. FdsKnown'
  <2>1. ASSUME NEW x, x # 0, \E d \in Clients : net[d].fd = x
        PROVE  x # given /\ \E d \in Clients : net'[d].fd = x
    BY <1>2, <1>3, <1>5, <2>1
  <2>2. /\ \A k \in 1 .. Len(runner.clients) : FdOf(k) # given /\ FdOf(k) # 0 /\ \E d \in Clients : net'[d].fd = FdOf(k)
        /\ \A k \in 1 .. Len(clis) : clis[k] # given /\ clis[k] # 0 /\ \E d \in Clients : net'[d].fd = clis[k]
    BY <2>1 DEF SInv, FdsKnown
  <2>3. \E d \in Clients : net'[d].fd = given
    BY <1>4, <1>5
  <2>4. \A k \in 1 .. Len(clis') :
          \/ k \in 1 .. Len(clis) /\ clis'[k] = clis[k]
          \/ k = Len(clis) + 1 /\ clis'[k] = given
    BY <1>6
  <2>5. /\ FdsKnown /\ runner' = runner
        /\ \A k \in 1 .. Len(runner.clients) : FdOf(k)' = FdOf(k)
    BY <1>1 DEF SInv, FdOf
  <2>6. \A k \in 1 .. Len(clis') : clis'[k] # 0 /\ \E d \in Clients : net'[d].fd = clis'[k]
    BY <1>3, <2>2, <2>3, <2>4
  <2>7. \A j, k \in 1 .. Len(clis') : clis'[j] = clis'[k] => j = k
    BY <2>2, <2>4, <2>5 DEF FdsKnown
  <2>8. \A j \in 1 .. Len(runner.clients), k \in 1 .. Len(clis') : FdOf(j) # clis'[k]
    BY <2>2, <2>4, <2>5 DEF FdsKnown
  <2> QED
    BY <2>2, <2>5, <2>6, <2>7, <2>8 DEF FdsKnown
<1>10. QInv'
  BY <1>1, <1>2, <1>4, <1>5, QInvKept
<1> QED
  BY <1>1, <1>7, <1>8, <1>9, <1>10 DEF SInv, QInv, ReadsFit

(* An accepted socket goes from the queue into the list of clients. *)
LEMMA TakeStep == ASSUME SInv, WorkAnnounced', RunnerTake PROVE SInv'
<1>1. STypeOK /\ runner \in RunState /\ runner.pc = "take"
      /\ poller \in [pc : {"wait", "pop", "notify", "ended"}, resp : {0}]
      /\ UNCHANGED <<net, hist, requests, responses, poller>>
  BY STypeParts DEF SInv, RunnerTake, Queues
<1>2. CASE clis = << >>
  <2>1. runner' = [runner EXCEPT !.pc = "resp"] /\ UNCHANGED clis
    BY <1>2 DEF RunnerTake
  <2>2. runner' \in RunState /\ runner'.clients = runner.clients /\ runner'.pc # "notify"
    BY <1>1, <2>1 DEF RunState, RunnerAt
  <2> QED
    BY <1>1, <2>1, <2>2, RunnerStep
<1>3. CASE clis # << >>
  <2> DEFINE cli == [fd |-> Head(clis), read |-> 0, read_done |-> FALSE]
             cs  == Append(runner.clients, cli)
  <2>1. clis' = Tail(clis) /\ runner' = [runner EXCEPT !.clients = cs]
    BY <1>3 DEF RunnerTake
  <2>2. /\ clis' \in Seq(Nat) /\ Len(clis') = Len(clis) - 1 /\ Len(clis) \in Nat /\ Len(clis) >= 1
        /\ Head(clis) = clis[1] /\ clis[1] \in Nat
        /\ \A k \in 1 .. (Len(clis) - 1) : clis'[k] = clis[k + 1] /\ k + 1 \in 1 .. Len(clis)
    BY <1>1, <1>3, <2>1, TailOf DEF STypeOK
  <2>3. cli \in CliState /\ cli.fd = clis[1] /\ cli.read = 0
    BY <2>2 DEF CliState
  <2> HIDE DEF cli
  <2>4. runner.clients \in Seq(CliState)
    BY <1>1 DEF RunState
  <2>5. /\ cs \in Seq(CliState) /\ Len(cs) = Len(runner.clients) + 1 /\ Len(runner.clients) \in Nat
        /\ cs[Len(runner.clients) + 1] = cli
        /\ \A k \in 1 .. Len(runner.clients) : cs[k] = runner.clients[k]
    BY <2>3, <2>4, AppendOf
  <2> HIDE DEF cs
  <2>6. runner' \in RunState /\ runner'.clients = cs /\ runner'.pc = "take"
    BY <1>1, <2>1, <2>5 DEF RunState
  <2>7. STypeOK'
    BY <1>1, <2>2, <2>6, STypeParts DEF STypeOK, NetState, HistState, RunState
  <2>8. FdsDiffer'
    BY <1>1 DEF SInv, FdsDiffer
  <2>9. FdsKnown'
    <3>1. /\ \A k \in 1 .. Len(cs) :
                \/ k \in 1 .. Len(runner.clients) /\ FdOf(k)' = FdOf(k)
                \/ k = Len(runner.clients) + 1 /\ FdOf(k)' = clis[1]
      BY <2>3, <2>5, <2>6 DEF FdOf
    <3>2. \A k \in 1 .. Len(clis') : clis'[k] = clis[k + 1] /\ k + 1 \in 1 .. Len(clis) /\ k + 1 # 1
      BY <2>2
    <3>3. 1 \in 1 .. Len(clis)
      BY <2>2
    <3>4. \A j, k \in 1 .. Len(clis') : j + 1 = k + 1 => j = k
      OBVIOUS
    <3>5. FdsKnown /\ UNCHANGED net /\ Len(runner'.clients) = Len(cs)
      BY <1>1, <2>6 DEF SInv
    <3>6. /\ \A k \in 1 .. Len(cs) : FdOf(k)' # 0 /\ \E c \in Clients : net[c].fd = FdOf(k)'
          /\ \A k \in 1 .. Len(clis') : clis'[k] # 0 /\ \E c \in Clients : net[c].fd = clis'[k]
      <4> DEFINE Real(x) == x # 0 /\ \E c \in Clients : net[c].fd = x
      <4>1. /\ \A k \in 1 .. Len(runner.clients) : Real(FdOf(k))
            /\ \A k \in 1 .. Len(clis) : Real(clis[k])
        BY <3>5 DEF FdsKnown
      <4> HIDE DEF Real
      <4>2. \A k \in 1 .. Len(cs) : Real(FdOf(k)')
        BY <3>1, <3>3, <4>1
      <4>3. \A k \in 1 .. Len(clis') : Real(clis'[k])
        BY <3>2, <4>1
      <4> QED
        BY <4>2, <4>3 DEF Real
    <3>7. \A j, k \in 1 .. Len(cs) : FdOf(j)' = FdOf(k)' => j = k
      BY <3>1, <3>3, <3>5 DEF FdsKnown
    <3>8. \A j, k \in 1 .. Len(clis') : clis'[j] = clis'[k] => j = k
      BY <3>2, <3>4, <3>5 DEF FdsKnown
    <3>9. \A j \in 1 .. Len(cs), k \in 1 .. Len(clis') : FdOf(j)' # clis'[k]
      BY <3>1, <3>2, <3>3, <3>5 DEF FdsKnown
    <3> QED
      BY <3>5, <3>6, <3>7, <3>8, <3>9 DEF FdsKnown
  <2>10. ReadsFit'
    BY <2>3, <2>5, <2>6 DEF SInv, ReadsFit
  <2>11. QInv'
    BY <1>1, QInvKept
  <2> QED
    BY <2>7, <2>8, <2>9, <2>10, <2>11 DEF SInv, QInv
<1> QED
  BY <1>2, <1>3

(* The step from one client to the next, which leaves the descriptors alone. *)
LEMMA ServedStep ==
  ASSUME SInv, WorkAnnounced', runner.i <= Len(runner.clients), NEW cli \in CliState,
         cli.fd = Cli.fd, cli.read_done \/ cli.read = 0,
         \/ runner' = Served(cli) /\ runner.pc # "notify"
         \/ runner' = [Served(cli) EXCEPT !.pc = "serve"],
         UNCHANGED <<clis, hist, responses, poller>>,
         net' \in [Clients -> NetState], requests' \in Seq(Asks),
         \A c \in Clients : net'[c].fd = net[c].fd /\ net'[c].backlog = net[c].backlog,
         QInv'
  PROVE  SInv'
<1>1. /\ Served(cli) \in RunState /\ Served(cli).pc = runner.pc
      /\ Len(Served(cli).clients) = Len(runner.clients)
      /\ Served(cli).clients[runner.i] = cli
      /\ \A k \in 1 .. Len(runner.clients) : k # runner.i => Served(cli).clients[k] = runner.clients[k]
  BY ServedOf
<1>2. /\ runner' \in RunState /\ runner'.pc # "notify" /\ Len(runner'.clients) = Len(runner.clients)
      /\ runner'.clients[runner.i] = cli
      /\ \A k \in 1 .. Len(runner.clients) : k # runner.i => runner'.clients[k] = runner.clients[k]
  <2>1. CASE runner' = Served(cli) /\ runner.pc # "notify"
    BY <1>1, <2>1
  <2>2. CASE runner' = [Served(cli) EXCEPT !.pc = "serve"]
    <3> DEFINE r == Served(cli)
    <3>1. r \in RunState /\ runner' = [r EXCEPT !.pc = "serve"]
      BY <1>1, <2>2
    <3> HIDE DEF r
    <3>2. runner' \in RunState /\ runner'.pc # "notify" /\ runner'.clients = r.clients
      BY <3>1 DEF RunState, RunnerAt
    <3> QED
      BY <1>1, <3>2 DEF r
  <2> QED
    BY <2>1, <2>2
<1>3. STypeOK'
  BY <1>2, STypeParts DEF SInv, STypeOK, NetState, HistState, RunState
<1>4. \A k \in 1 .. Len(runner.clients) : FdOf(k)' = FdOf(k)
  BY <1>2, WhoIs DEF FdOf
<1>5. FInv'
  BY <1>2, <1>4, FInvKept DEF SInv, FInv, FdsDiffer
<1>6. ReadsFit'
  BY <1>2 DEF SInv, ReadsFit
<1> QED
  BY <1>3, <1>5, <1>6 DEF SInv, FInv, QInv

(* The runner comes to a client that sent half a request. *)
LEMMA ParsesAgainStep ==
  ASSUME SInv, WorkAnnounced', RunnerServe, ParsesAgain PROVE SInv'
<1>1. /\ runner.i <= Len(runner.clients) /\ runner' = Served(Cli) /\ Cli.read_done /\ runner.pc # "notify"
      /\ UNCHANGED <<net, hist, clis, requests, responses, poller>> /\ STypeOK
  BY DEF RunnerServe, ParsesAgain, Accepter, SInv
<1>2. Cli \in CliState
  BY <1>1, WhoIs
<1>3. QInv'
  BY <1>1, QInvKept
<1> QED
  BY <1>1, <1>2, <1>3, ServedStep, STypeParts

(* The runner tells the poller of a request. *)
LEMMA NotifyStep ==
  ASSUME SInv, WorkAnnounced', RunnerNotify PROVE SInv'
<1> DEFINE cli == [Cli EXCEPT !.read = 0]
<1>1. /\ runner.pc = "notify" /\ runner' = [Served(cli) EXCEPT !.pc = "serve"] /\ STypeOK
      /\ UNCHANGED <<net, hist, clis, requests, responses, poller>>
  BY DEF RunnerNotify, Accepter, SInv
<1>2. runner.i <= Len(runner.clients)
  BY <1>1 DEF SInv, ReadsFit
<1>3. cli \in CliState /\ cli.fd = Cli.fd /\ cli.read = 0
  BY <1>2, WhoIs, CliAfter
<1> HIDE DEF cli
<1>4. QInv'
  BY <1>1, QInvKept
<1> QED
  BY <1>1, <1>2, <1>3, <1>4, ServedStep, STypeParts

(* handler deletes the client and gives its descriptor back. *)
LEMMA ClosesStep ==
  ASSUME SInv, WorkAnnounced', RunnerServe, Closes PROVE SInv'
<1> DEFINE who == Who
           new == [net[who] EXCEPT !.fd = 0]
           cs  == RemoveAt(runner.clients, runner.i)
<1>1. /\ runner.i <= Len(runner.clients) /\ runner' = [runner EXCEPT !.clients = cs]
      /\ runner.pc = "serve" /\ hist[who].gone /\ net' = [net EXCEPT ![who] = new]
      /\ UNCHANGED <<hist, clis, requests, responses, poller>> /\ STypeOK
  BY DEF RunnerServe, Closes, Accepter, SInv
<1>2. /\ runner.i \in 1 .. Len(runner.clients) /\ who \in Clients
      /\ net[who].fd = FdOf(runner.i) /\ FdOf(runner.i) # 0
  BY <1>1, WhoIs
<1>3. runner \in RunState /\ runner.clients \in Seq(CliState) /\ net[who] \in NetState
  BY <1>1, <1>2, STypeParts DEF RunState
<1>4. new \in NetState /\ new.fd = 0 /\ new.sent = net[who].sent /\ new.unread = net[who].unread
      /\ new.backlog = net[who].backlog
  BY <1>3 DEF NetState
<1>5. /\ cs \in Seq(CliState) /\ Len(cs) = Len(runner.clients) - 1
      /\ \A k \in 1 .. (Len(runner.clients) - 1) :
            cs[k] = runner.clients[IF k < runner.i THEN k ELSE k + 1]
  BY <1>2, <1>3, RemoveAtOf
<1> HIDE DEF who, new, cs
<1>6. net' \in [Clients -> NetState] /\ net'[who] = new /\ \A d \in Clients \ {who} : net'[d] = net[d]
  BY <1>1, <1>2, <1>4, NetStep
<1>7. runner' \in RunState /\ runner'.clients = cs /\ runner'.pc = "serve"
  BY <1>1, <1>3, <1>5 DEF RunState
<1>8. STypeOK'
  BY <1>1, <1>6, <1>7, STypeParts DEF STypeOK, NetState, HistState, RunState
<1>9. FdsDiffer'
  BY <1>2, <1>4, <1>6 DEF SInv, FdsDiffer
(* The connections left are those at the other places. *)
<1> DEFINE was(k) == IF k < runner.i THEN k ELSE k + 1
<1>10. \A k \in 1 .. Len(cs) : was(k) \in 1 .. Len(runner.clients) /\ was(k) # runner.i /\ cs[k] = runner.clients[was(k)]
  <2> DEFINE n == Len(runner.clients)
             i == runner.i
  <2>1. n \in Nat /\ i \in 1 .. n /\ Len(cs) = n - 1
    BY <1>2, <1>3, <1>5
  <2> HIDE DEF n, i
  <2>2. \A k \in 1 .. (n - 1) : /\ (IF k < i THEN k ELSE k + 1) \in 1 .. n
                                 /\ (IF k < i THEN k ELSE k + 1) # i
    BY <2>1
  <2>3. \A k \in 1 .. (n - 1) : was(k) \in 1 .. n /\ was(k) # i
    BY <2>2 DEF i
  <2>4. \A k \in 1 .. (n - 1) : cs[k] = runner.clients[was(k)]
    BY <1>5 DEF n
  <2> QED
    BY <2>1, <2>3, <2>4 DEF n, i
<1>11. \A j, k \in 1 .. Len(cs) : was(j) = was(k) => j = k
  <2>1. runner.i \in Nat
    BY <1>2
  <2> QED
    BY <2>1
<1> HIDE DEF was
<1>12. FdsKnown'
  <2>1. \A k \in 1 .. Len(cs) : FdOf(k)' = FdOf(was(k))
    BY <1>7, <1>10 DEF FdOf
  <2>2. FdsKnown /\ UNCHANGED clis /\ Len(runner'.clients) = Len(cs)
    BY <1>1, <1>7 DEF SInv
  <2>3. ASSUME NEW x, x # FdOf(runner.i), \E d \in Clients : net[d].fd = x
        PROVE  \E d \in Clients : net'[d].fd = x
    BY <1>2, <1>6, <2>3
  <2>4. ASSUME NEW k \in 1 .. Len(cs) PROVE FdOf(k)' # 0 /\ \E d \in Clients : net'[d].fd = FdOf(k)'
    <3>1. was(k) \in 1 .. Len(runner.clients) /\ FdOf(k)' = FdOf(was(k)) /\ was(k) # runner.i
      BY <1>10, <2>1, <2>4
    <3>2. FdOf(was(k)) # 0 /\ FdOf(was(k)) # FdOf(runner.i) /\ \E d \in Clients : net[d].fd = FdOf(was(k))
      BY <1>2, <2>2, <3>1 DEF FdsKnown
    <3> QED
      BY <2>3, <3>1, <3>2
  <2>5. \A k \in 1 .. Len(clis) : clis[k] # 0 /\ \E d \in Clients : net'[d].fd = clis[k]
    BY <1>2, <2>2, <2>3 DEF FdsKnown
  <2>6. \A j, k \in 1 .. Len(cs) : FdOf(j)' = FdOf(k)' => j = k
    BY <1>10, <1>11, <2>1, <2>2 DEF FdsKnown
  <2>7. \A j \in 1 .. Len(cs), k \in 1 .. Len(clis) : FdOf(j)' # clis[k]
    BY <1>10, <2>1, <2>2 DEF FdsKnown
  <2> QED
    BY <2>2, <2>4, <2>5, <2>6, <2>7 DEF FdsKnown
<1>13. ReadsFit'
  BY <1>7, <1>10 DEF SInv, ReadsFit
<1>14. QInv'
  BY <1>1, <1>4, <1>6, QInvKept
<1> QED
  BY <1>8, <1>9, <1>12, <1>13, <1>14 DEF SInv, QInv

(* The runner reads a segment or a request. *)
LEMMA ReadsStep ==
  ASSUME SInv, WorkAnnounced', RunnerServe, Reads PROVE SInv'
<1>1. PICK who \in Clients : who = Who
  BY WhoIs DEF RunnerServe
<1>2. PICK cli \in CliState : cli = Cli
  BY WhoIs DEF RunnerServe
<1> DEFINE seen == [net[who] EXCEPT !.unread = 0]
<1>3. /\ runner.i <= Len(runner.clients) /\ runner.pc = "serve" /\ ~cli.read_done
      /\ net[who].unread > 0 /\ net' = [net EXCEPT ![who] = seen]
      /\ UNCHANGED <<hist, clis, responses, poller>> /\ STypeOK
  BY <1>1, <1>2 DEF RunnerServe, Reads, Accepter, SInv
<1>4. /\ runner.i \in 1 .. Len(runner.clients) /\ who \in Clients /\ cli \in CliState
      /\ net[who].fd = cli.fd /\ cli.fd # 0 /\ cli.fd = FdOf(runner.i)
  BY <1>1, <1>2, <1>3, WhoIs
<1>5. cli.read = 0
  BY <1>2, <1>3, <1>4 DEF SInv, ReadsFit, Cli
<1>6. CASE cli.read + net[who].unread # 2
  <2> DEFINE new == [cli EXCEPT !.read = net[who].unread, !.read_done = TRUE]
  <2>1. runner' = Served(new) /\ UNCHANGED requests
    BY <1>1, <1>2, <1>6 DEF Reads
  <2>2. net[who] \in NetState /\ net[who].unread \in Nat
    BY <1>3, <1>4, STypeParts DEF NetState
  <2>3. new \in CliState /\ new.fd = cli.fd /\ new.read_done
    BY <1>4, <2>2, CliAfter
  <2>4. /\ seen \in NetState /\ seen.unread = 0 /\ seen.fd = net[who].fd
        /\ seen.sent = net[who].sent /\ seen.backlog = net[who].backlog
    BY <2>2 DEF NetState
  <2> HIDE DEF seen, new
  <2>5. net' \in [Clients -> NetState] /\ net'[who] = seen /\ \A d \in Clients \ {who} : net'[d] = net[d]
    BY <1>3, <1>4, <2>4, NetStep
  <2>6. QInv'
    BY <1>3, <2>1, <2>4, <2>5, QInvKept
  <2>7. requests' \in Seq(Asks)
    BY <1>3, <2>1 DEF STypeOK
  <2>8. \A c \in Clients : net'[c].fd = net[c].fd /\ net'[c].backlog = net[c].backlog
    BY <2>4, <2>5
  <2>9. new.fd = Cli.fd /\ runner.pc # "notify"
    BY <1>2, <1>3, <2>3
  <2> QED
    BY <1>3, <2>1, <2>3, <2>5, <2>6, <2>7, <2>8, <2>9, ServedStep
<1>7. CASE cli.read + net[who].unread = 2
  <2> DEFINE req == <<who, hist[who].asked>>
             ask == [fd |-> cli.fd, req |-> req]
  <2>1. requests' = Append(requests, ask) /\ runner' = [runner EXCEPT !.pc = "notify"]
    BY <1>1, <1>2, <1>7 DEF Reads
  <2>2. /\ net[who] \in NetState /\ net[who].unread \in Nat /\ net[who].sent \in {1, 2}
        /\ hist[who].asked \in Nat /\ cli.fd \in Nat
    BY <1>3, <1>4, FieldsTyped, STypeParts DEF CliState
  <2>3. net[who].unread = 2
    BY <1>5, <1>7, <2>2
  <2>4. /\ seen \in NetState /\ seen.unread = 0 /\ seen.fd = net[who].fd
        /\ seen.sent = net[who].sent /\ seen.backlog = net[who].backlog
    BY <2>2 DEF NetState
  <2>5. req \in Clients \X Nat /\ req[1] = who /\ req[2] = hist[who].asked
    BY <1>4, <2>2
  <2> HIDE DEF req
  <2>6. PICK e \in Asks : e = ask /\ e.fd = cli.fd /\ e.req = req
    <3>1. ask \in Asks /\ ask.fd = cli.fd /\ ask.req = req
      BY <2>2, <2>5 DEF Asks
    <3> HIDE DEF ask
    <3> QED
      BY <3>1
  <2> HIDE DEF ask
  <2> HIDE DEF seen
  <2>7. net' \in [Clients -> NetState] /\ net'[who] = seen /\ \A d \in Clients \ {who} : net'[d] = net[d]
    BY <1>3, <1>4, <2>4, NetStep
  <2>8. /\ requests \in Seq(Asks) /\ requests' \in Seq(Asks)
        /\ Len(requests') = Len(requests) + 1 /\ Len(requests) \in Nat
        /\ requests'[Len(requests) + 1] = e
        /\ \A k \in 1 .. Len(requests) : requests'[k] = requests[k]
    BY <1>3, <2>1, <2>6, AppendOf DEF STypeOK
  <2>9. runner \in RunState /\ runner' \in RunState /\ runner'.clients = runner.clients /\ runner'.i = runner.i
    BY <1>3, <2>1, STypeParts DEF RunState, RunnerAt
  <2>10. STypeOK'
    BY <1>3, <2>7, <2>8, <2>9, STypeParts DEF STypeOK, NetState, HistState, RunState
  <2>11. FInv'
    BY <1>3, <2>4, <2>7, <2>9, FInvKept DEF SInv, FInv, FdsDiffer, FdOf
  <2>12. ReadsFit'
    BY <1>3, <2>9 DEF SInv, ReadsFit
  <2>13. hist[who].asked = Answered(who) + 1 /\ Nobodys(who) /\ net[who].sent = 2
    BY <1>3, <1>4, <2>2, <2>3 DEF SInv, Unread
  <2>14. \A c \in Clients : Answered(c)' = Answered(c)
    BY <1>3 DEF Answered
  <2>15. InHandFits(e)'
    <3>1. e.fd # 0 /\ e.req[1] = who /\ e.req[2] = hist[who].asked /\ e.fd = net[who].fd
      BY <1>4, <2>5, <2>6
    <3>2. /\ hist'[who] = hist[who] /\ Answered(who)' = Answered(who)
          /\ net'[who].sent = 2 /\ net'[who].unread = 0 /\ net'[who].fd = net[who].fd
      BY <1>3, <1>4, <2>4, <2>7, <2>13, <2>14
    <3> QED
      BY <2>13, <3>1, <3>2 DEF InHandFits
  <2>16. ASSUME NEW f \in Asks, InHandFits(f) PROVE InHandFits(f)'
    <3>1. f.req[1] \in Clients
      BY AskTyped
    <3> QED
      BY <1>3, <2>4, <2>7, <2>14, <2>16, <3>1 DEF InHandFits
  <2>17. /\ \A k \in 1 .. Len(requests) : requests[k] \in Asks /\ requests[k].req[1] # who
         /\ \A k \in 1 .. Len(responses) : responses[k] \in Asks /\ responses[k].req[1] # who
    BY <1>3, <2>13, FieldsTyped DEF Nobodys
  <2>18. \A k \in 1 .. Len(requests') :
            \/ k \in 1 .. Len(requests) /\ requests'[k] = requests[k]
            \/ k = Len(requests) + 1 /\ requests'[k] = e
    BY <2>8
  <2>19. e.req[1] = who
    BY <2>5, <2>6
  <2>20. InHand'
    <3>1. InHand /\ UNCHANGED responses
      BY <1>3 DEF SInv
    <3>2. \A k \in 1 .. Len(requests') : InHandFits(requests[k])'
      BY <2>15, <2>16, <2>17, <2>18, <3>1 DEF InHand
    <3>3. \A k \in 1 .. Len(responses) : InHandFits(responses[k])'
      BY <2>16, <2>17, <3>1 DEF InHand
    <3>4. \A j, k \in 1 .. Len(requests') : requests'[j].req[1] = requests'[k].req[1] => j = k
      BY <2>17, <2>18, <2>19, <3>1 DEF InHand
    <3>5. \A j \in 1 .. Len(requests'), k \in 1 .. Len(responses) : requests'[j].req[1] # responses[k].req[1]
      BY <2>17, <2>18, <2>19, <3>1 DEF InHand
    <3> QED
      BY <3>1, <3>2, <3>3, <3>4, <3>5 DEF InHand
  <2>21. Unread'
    <3>1. Unread /\ UNCHANGED <<hist, responses>>
      BY <1>3 DEF SInv
    <3>2. ASSUME NEW c \in Clients, c # who, Nobodys(c) PROVE Nobodys(c)'
      BY <2>18, <2>19, <3>1, <3>2 DEF Nobodys
    <3> QED
      BY <2>4, <2>7, <2>13, <2>14, <3>1, <3>2 DEF Unread
  <2>22. AnswersFit'
    BY <1>3 DEF SInv, AnswersFit
  <2> QED
    BY <2>10, <2>11, <2>12, <2>20, <2>21, <2>22 DEF SInv, FInv
<1> QED
  BY <1>6, <1>7

(* The request in hand becomes the response. *)
LEMMA AnswerStep ==
  ASSUME SInv, WorkAnnounced', PollerAnswer PROVE SInv'
<1>1. /\ STypeOK /\ UNCHANGED <<net, hist, clis, runner>> /\ poller.pc = "pop"
      /\ poller \in [pc : {"wait", "pop", "notify", "ended"}, resp : {0}]
  BY DEF PollerAnswer, Accepter, SInv, STypeOK
<1>2. CASE requests = << >>
  <2>1. poller' = [poller EXCEPT !.pc = "wait"] /\ UNCHANGED <<requests, responses>>
    BY <1>2 DEF PollerAnswer
  <2>2. poller' \in [pc : {"wait", "pop", "notify", "ended"}, resp : {0}]
    BY <1>1, <2>1
  <2>3. runner \in RunState
    BY <1>1, STypeParts
  <2> QED
    BY <1>1, <2>1, <2>2, <2>3, RunnerStep
<1>3. CASE requests # << >>
  <2>1. /\ requests' = Tail(requests) /\ responses' = Append(responses, Answer(Head(requests)))
        /\ poller' = [poller EXCEPT !.pc = "notify"]
    BY <1>3 DEF PollerAnswer
  <2>2. requests \in Seq(Asks) /\ responses \in Seq(Asks)
    BY <1>1 DEF STypeOK
  <2>3. PICK e \in Asks : e = requests[1] /\ Head(requests) = e
    BY <1>3, <2>2, TailOf
  <2>4. Answer(e) = e
    BY DEF Answer, Asks
  <2>5. /\ requests' \in Seq(Asks) /\ Len(requests') = Len(requests) - 1 /\ Len(requests) \in Nat
        /\ Len(requests) >= 1
        /\ \A k \in 1 .. (Len(requests) - 1) : requests'[k] = requests[k + 1] /\ k + 1 \in 1 .. Len(requests)
    BY <1>3, <2>1, <2>2, TailOf
  <2>6. /\ responses' \in Seq(Asks) /\ Len(responses') = Len(responses) + 1 /\ Len(responses) \in Nat
        /\ responses'[Len(responses) + 1] = e
        /\ \A k \in 1 .. Len(responses) : responses'[k] = responses[k]
    BY <2>1, <2>2, <2>3, <2>4, AppendOf
  <2>7. poller' \in [pc : {"wait", "pop", "notify", "ended"}, resp : {0}]
    BY <1>1, <2>1
  <2>8. STypeOK'
    BY <1>1, <2>5, <2>6, <2>7 DEF STypeOK
  <2>9. FInv' /\ ReadsFit' /\ AnswersFit'
    BY <1>1 DEF SInv, FInv, FdsDiffer, FdsKnown, FdOf, ReadsFit, AnswersFit
  <2>10. InHand /\ Unread
    BY DEF SInv
  <2>11. /\ 1 \in 1 .. Len(requests)
         /\ \A k \in 1 .. Len(requests') : k + 1 \in 1 .. Len(requests) /\ k + 1 # 1 /\ requests'[k] = requests[k + 1]
         /\ \A j, k \in 1 .. Len(requests') : j + 1 = k + 1 => j = k
    BY <2>5
  <2>12. \A k \in 1 .. Len(responses') :
            \/ k \in 1 .. Len(responses) /\ responses'[k] = responses[k]
            \/ k = Len(responses) + 1 /\ responses'[k] = e
    BY <2>6
  <2>13. ASSUME NEW f \in Asks, InHandFits(f) PROVE InHandFits(f)'
    BY <1>1, <2>13 DEF InHandFits, Answered
  <2>14. /\ \A k \in 1 .. Len(requests) : requests[k] \in Asks /\ InHandFits(requests[k])
         /\ \A k \in 1 .. Len(responses) : responses[k] \in Asks /\ InHandFits(responses[k])
    BY <1>1, <2>10, FieldsTyped DEF InHand
  <2>15. InHandFits(e)
    BY <2>3, <2>11, <2>14
  <2>16. InHand'
    <3>1. \A k \in 1 .. Len(requests') : InHandFits(requests[k])'
      BY <2>11, <2>13, <2>14
    <3>2. \A k \in 1 .. Len(responses') : InHandFits(responses[k])'
      BY <2>12, <2>13, <2>14, <2>15
    <3>3. \A j, k \in 1 .. Len(requests') : requests'[j].req[1] = requests'[k].req[1] => j = k
      BY <2>10, <2>11 DEF InHand
    <3>4. \A j, k \in 1 .. Len(responses') : responses'[j].req[1] = responses'[k].req[1] => j = k
      BY <2>3, <2>10, <2>11, <2>12 DEF InHand
    <3>5. ASSUME NEW j \in 1 .. Len(requests'), NEW k \in 1 .. Len(responses')
          PROVE  requests'[j].req[1] # responses'[k].req[1]
      <4>1. j + 1 \in 1 .. Len(requests) /\ j + 1 # 1 /\ requests'[j] = requests[j + 1]
        BY <2>11
      <4>2. CASE k \in 1 .. Len(responses) /\ responses'[k] = responses[k]
        BY <2>10, <4>1, <4>2 DEF InHand
      <4>3. CASE responses'[k] = e
        BY <2>3, <2>10, <2>11, <4>1, <4>3 DEF InHand
      <4> QED
        BY <2>12, <4>2, <4>3
    <3> QED
      BY <3>1, <3>2, <3>3, <3>4, <3>5 DEF InHand
  <2>17. ASSUME NEW c \in Clients, Nobodys(c) PROVE Nobodys(c)'
    BY <2>3, <2>11, <2>12, <2>17 DEF Nobodys
  <2>18. Unread'
    BY <1>1, <2>10, <2>17 DEF Unread, Answered
  <2> QED
    BY <2>8, <2>9, <2>16, <2>18 DEF SInv, FInv
<1> QED
  BY <1>2, <1>3

(* A client that has nothing on its way writes a segment. *)
LEMMA Wrote ==
  ASSUME STypeOK, NEW c \in Clients, NEW s \in {1, 2},
         net' = [net EXCEPT ![c].sent = s, ![c].unread = @ + 1]
  PROVE  /\ net' \in [Clients -> NetState] /\ \A d \in Clients \ {c} : net'[d] = net[d]
         /\ net'[c].fd = net[c].fd /\ net'[c].backlog = net[c].backlog
         /\ net'[c].sent = s /\ net'[c].unread = net[c].unread + 1
<1> DEFINE u     == net[c].unread + 1
           wrote == [[net[c] EXCEPT !.sent = s] EXCEPT !.unread = u]
<1>1. net \in [Clients -> NetState] /\ net[c] \in NetState /\ u \in Nat
  <2>1. net \in [Clients -> NetState] /\ net[c] \in NetState
    BY STypeParts
  <2>2. net[c].unread \in Nat
    BY <2>1 DEF NetState
  <2>3. u \in Nat
    BY <2>2
  <2> QED
    BY <2>1, <2>3
<1>2. net'[c] = wrote /\ net' = [net EXCEPT ![c] = wrote]
  BY <1>1
<1> HIDE DEF u
<1>3. /\ wrote \in NetState /\ wrote.fd = net[c].fd /\ wrote.backlog = net[c].backlog
      /\ wrote.sent = s /\ wrote.unread = u
  BY <1>1 DEF NetState
<1> HIDE DEF wrote
<1>4. net' \in [Clients -> NetState] /\ \A d \in Clients \ {c} : net'[d] = net[d]
  BY <1>1, <1>2, <1>3
<1> QED
  BY <1>2, <1>3, <1>4 DEF u

(* What a segment changes of the invariant. *)
LEMMA WroteStep ==
  ASSUME SInv, WorkAnnounced', NEW c \in Clients,
         UNCHANGED <<clis, requests, responses, runner, poller>>,
         net' \in [Clients -> NetState], hist' \in [Clients -> HistState],
         \A d \in Clients \ {c} : net'[d] = net[d] /\ hist'[d] = hist[d],
         net'[c].fd = net[c].fd, net'[c].backlog = net[c].backlog,
         hist'[c].got = hist[c].got, hist'[c].gone = hist[c].gone,
         hist'[c].asked = Answered(c) + 1, Nobodys(c),
         net'[c].sent = 1 => net'[c].unread <= 1, net'[c].unread <= 2
  PROVE  SInv'
<1>1. STypeOK /\ InHand /\ Unread /\ AnswersFit
  BY DEF SInv
<1>2. STypeOK'
  BY <1>1, STypeParts DEF STypeOK, NetState, HistState, RunState
<1>3. \A d \in Clients : net'[d].fd = net[d].fd /\ net'[d].backlog = net[d].backlog
  OBVIOUS
<1>4. FInv'
  BY <1>3, FInvKept DEF SInv, FInv, FdsDiffer, FdOf
<1>5. ReadsFit'
  BY DEF SInv, ReadsFit
<1>6. \A d \in Clients : Answered(d)' = Answered(d) /\ hist'[d].got = hist[d].got /\ hist'[d].gone = hist[d].gone
  BY DEF Answered
<1>7. ASSUME NEW e \in Asks, InHandFits(e), e.req[1] # c PROVE InHandFits(e)'
  <2>1. e.req[1] \in Clients
    BY AskTyped
  <2> QED
    BY <1>6, <1>7, <2>1 DEF InHandFits
<1>8. InHand'
  <2>1. /\ \A k \in 1 .. Len(requests) : requests[k] \in Asks
        /\ \A k \in 1 .. Len(responses) : responses[k] \in Asks
    BY <1>1, FieldsTyped
  <2>2. \A k \in 1 .. Len(requests) : InHandFits(requests[k])'
    BY <1>1, <1>7, <2>1 DEF InHand, Nobodys
  <2>3. \A k \in 1 .. Len(responses) : InHandFits(responses[k])'
    BY <1>1, <1>7, <2>1 DEF InHand, Nobodys
  <2> QED
    BY <1>1, <2>2, <2>3 DEF InHand
<1>9. Unread'
  <2>1. \A d \in Clients : Nobodys(d)' = Nobodys(d)
    BY DEF Nobodys
  <2> QED
    BY <1>1, <1>6, <2>1 DEF Unread
<1>10. AnswersFit'
  <2>1. \A d \in Clients : \A i \in DOMAIN hist[d].got : hist[d].got[i][1] \in Clients
    BY <1>1, FieldsTyped
  <2> QED
    BY <1>1, <1>6, <2>1 DEF AnswersFit
<1> QED
  BY <1>2, <1>4, <1>5, <1>8, <1>9, <1>10 DEF SInv, FInv

(* A client sends a segment. *)
LEMMA SegmentStep ==
  ASSUME SInv, WorkAnnounced', NEW c \in Clients, SendSegment(c) PROVE SInv'
<1>1. /\ STypeOK /\ UNCHANGED <<clis, requests, responses, runner, poller>>
      /\ InHand /\ Unread
  BY DEF SInv, SendSegment, Accepter, Queues
<1>2. /\ net[c] \in NetState /\ net[c].unread \in Nat /\ net[c].sent \in {1, 2}
      /\ hist \in [Clients -> HistState] /\ hist[c] \in HistState /\ hist[c].asked \in Nat
  BY <1>1, STypeParts DEF NetState, HistState
<1>3. Answered(c) \in Nat
  <2>1. hist[c].got \in Seq(Clients \X Nat)
    BY <1>2 DEF HistState
  <2>2. \A e \in Clients \X Nat : Cardinality(Own(c, hist[c].got)) \in Nat
    BY <2>1, OwnOf DEF OwnGrows
  <2>3. <<c, 0>> \in Clients \X Nat
    OBVIOUS
  <2> QED
    BY <2>2, <2>3 DEF Answered
<1>4. CASE net[c].sent = 2
  <2>1. /\ net' = [net EXCEPT ![c].sent = 1, ![c].unread = @ + 1]
        /\ hist' = [hist EXCEPT ![c].asked = @ + 1]
        /\ hist[c].asked = Answered(c)
    BY <1>4 DEF SendSegment, Answered
  <2>2. net[c].unread = 0
    BY <1>1, <1>2, <1>3, <2>1 DEF Unread
  <2>3. ASSUME NEW e \in Asks, InHandFits(e), e.req[1] = c PROVE FALSE
    BY <1>3, <2>1, <2>3 DEF InHandFits
  <2>4. Nobodys(c)
    BY <1>1, <2>3, FieldsTyped DEF InHand, Nobodys
  <2>5. /\ net' \in [Clients -> NetState] /\ \A d \in Clients \ {c} : net'[d] = net[d]
        /\ net'[c].fd = net[c].fd /\ net'[c].backlog = net[c].backlog
        /\ net'[c].sent = 1 /\ net'[c].unread = net[c].unread + 1
    BY <1>1, <2>1, Wrote
  <2> DEFINE a    == hist[c].asked + 1
             asks == [hist[c] EXCEPT !.asked = a]
  <2>6. a \in Nat /\ a = Answered(c) + 1 /\ hist' = [hist EXCEPT ![c] = asks]
    BY <1>2, <2>1
  <2> HIDE DEF a
  <2>7. asks \in HistState /\ asks.asked = a /\ asks.got = hist[c].got /\ asks.gone = hist[c].gone
    BY <1>2, <2>6 DEF HistState
  <2> HIDE DEF asks
  <2>8. hist' \in [Clients -> HistState] /\ hist'[c] = asks /\ \A d \in Clients \ {c} : hist'[d] = hist[d]
    BY <1>1, <2>6, <2>7, HistStep
  <2>9. net'[c].unread = 1
    BY <2>2, <2>5
  <2> QED
    BY <1>1, <2>4, <2>5, <2>6, <2>7, <2>8, <2>9, WroteStep
<1>5. CASE net[c].sent = 1
  <2>1. net' = [net EXCEPT ![c].sent = 2, ![c].unread = @ + 1] /\ UNCHANGED hist
    BY <1>5 DEF SendSegment
  <2>2. hist[c].asked = Answered(c) + 1 /\ Nobodys(c) /\ net[c].unread <= 1
    BY <1>1, <1>5 DEF Unread
  <2>3. /\ net' \in [Clients -> NetState] /\ \A d \in Clients \ {c} : net'[d] = net[d]
        /\ net'[c].fd = net[c].fd /\ net'[c].backlog = net[c].backlog
        /\ net'[c].sent = 2 /\ net'[c].unread = net[c].unread + 1
    BY <1>1, <2>1, Wrote
  <2>4. net'[c].unread <= 2
    BY <1>2, <2>2, <2>3
  <2> QED
    BY <1>1, <1>2, <2>1, <2>2, <2>3, <2>4, WroteStep
<1> QED
  BY <1>2, <1>4, <1>5

(* The first answers stay the first. *)
LEMMA FrontOf ==
  ASSUME NEW S, NEW q \in Seq(S), NEW e \in S, NEW i \in 1 .. Len(q)
  PROVE  SubSeq(Append(q, e), 1, i) = SubSeq(q, 1, i)
<1> DEFINE n == Len(q)
           p == Append(q, e)
           x == SubSeq(p, 1, i)
           y == SubSeq(q, 1, i)
<1>1. /\ p \in Seq(S) /\ Len(p) = n + 1 /\ n \in Nat /\ \A k \in 1 .. n : p[k] = q[k] /\ p[k] \in S
      /\ i \in 1 .. n
  OBVIOUS
<1>2. /\ x \in Seq(S) /\ Len(x) = i /\ \A k \in 1 .. i : x[k] = p[k]
  BY <1>1
<1>3. /\ y \in Seq(S) /\ Len(y) = i /\ \A k \in 1 .. i : y[k] = q[k]
  BY <1>1
<1>4. \A k \in 1 .. i : p[k] = q[k]
  BY <1>1
<1> HIDE DEF p, x, y
<1> QED
  BY <1>2, <1>3, <1>4, SeqEqual DEF x, y, p

(* What the answers of a client are to be, given who has hung up. *)
AllFit(c, got, gone) ==
  /\ \A i \in Own(c, got) : got[i][2] = Cardinality(Own(c, SubSeq(got, 1, i)))
  /\ \A i \in DOMAIN got \ Own(c, got) : got[i][1] \in gone

(* One answer more, to a request of the client or a stray one. *)
LEMMA FitsMore ==
  ASSUME NEW c \in Clients, NEW got \in Seq(Clients \X Nat), NEW e \in Clients \X Nat, NEW gone,
         AllFit(c, got, gone),
         e[1] = c => e[2] = Cardinality(Own(c, got)) + 1,
         e[1] # c => e[1] \in gone
  PROVE  AllFit(c, Append(got, e), gone)
<1> DEFINE n    == Len(got)
           more == Append(got, e)
<1>1. /\ n \in Nat /\ DOMAIN got = 1 .. n /\ DOMAIN more = 1 .. (n + 1) /\ more[n + 1] = e
      /\ \A i \in 1 .. n : more[i] = got[i]
  BY AppendOf
<1>2. \A i \in 1 .. n : SubSeq(more, 1, i) = SubSeq(got, 1, i)
  BY FrontOf
<1>3. SubSeq(more, 1, n + 1) = more
  <2>1. more \in Seq(Clients \X Nat) /\ Len(more) = n + 1
    BY AppendOf
  <2> HIDE DEF more
  <2> QED
    BY <2>1, SubSeqFull
<1>4. /\ Own(c, got) \subseteq 1 .. n
      /\ e[1] = c => /\ Own(c, more) = Own(c, got) \cup {n + 1}
                     /\ Cardinality(Own(c, more)) = Cardinality(Own(c, got)) + 1
      /\ e[1] # c => Own(c, more) = Own(c, got)
  <2>1. OwnGrows(c, got, e)
    BY OwnOf
  <2> QED
    BY <2>1 DEF OwnGrows
<1>5. \A i \in 1 .. (n + 1) : i \in 1 .. n \/ i = n + 1
  BY <1>1
<1> HIDE DEF n, more
<1>6. ASSUME NEW i \in Own(c, more) PROVE more[i][2] = Cardinality(Own(c, SubSeq(more, 1, i)))
  <2>1. CASE i \in Own(c, got)
    BY <1>1, <1>2, <1>4, <2>1 DEF AllFit
  <2>2. CASE i \notin Own(c, got)
    <3>1. e[1] = c /\ i = n + 1
      BY <1>4, <1>6, <2>2
    <3> QED
      BY <1>1, <1>3, <1>4, <3>1
  <2> QED
    BY <2>1, <2>2
<1>7. ASSUME NEW i \in DOMAIN more \ Own(c, more) PROVE more[i][1] \in gone
  <2>1. CASE i \in 1 .. n
    BY <1>1, <1>4, <1>7, <2>1 DEF AllFit
  <2>2. CASE i = n + 1
    BY <1>1, <1>4, <1>7, <2>2
  <2> QED
    BY <1>1, <1>5, <1>7, <2>1, <2>2
<1> QED
  BY <1>6, <1>7 DEF AllFit, more

(* The runner writes a response to whoever has the descriptor. *)
LEMMA WriteStep ==
  ASSUME SInv, WorkAnnounced', RunnerWrite PROVE SInv'
<1>1. /\ STypeOK /\ UNCHANGED <<net, clis, requests, poller>> /\ runner.pc = "write"
      /\ runner \in RunState /\ hist \in [Clients -> HistState]
      /\ responses \in Seq(Asks) /\ InHand /\ Unread /\ AnswersFit /\ FdsDiffer
      /\ poller \in [pc : {"wait", "pop", "notify", "ended"}, resp : {0}]
  BY STypeParts DEF RunnerWrite, Accepter, SInv
<1>2. CASE responses = << >>
  <2>1. runner' = [runner EXCEPT !.pc = "serve", !.i = 1] /\ UNCHANGED <<responses, hist>>
    BY <1>2 DEF RunnerWrite
  <2>2. "serve" \in RunnerAt /\ 1 \in Nat \ {0}
    BY DEF RunnerAt
  <2>3. runner' \in RunState /\ runner'.clients = runner.clients /\ runner'.pc # "notify"
    BY <1>1, <2>1, <2>2 DEF RunState
  <2> QED
    BY <1>1, <2>1, <2>3, RunnerStep
<1>3. CASE responses # << >>
  <2>1. PICK e \in Asks : e = responses[1] /\ Head(responses) = e
    BY <1>1, <1>3, TailOf
  <2>2. PICK c \in Clients : c = e.req[1]
    BY AskTyped
  <2>3. e.fd \in Nat /\ e.req \in Clients \X Nat /\ e.req[1] = c
    BY <2>2, AskTyped
  <2>4. /\ responses' = Tail(responses) /\ runner' = runner
        /\ hist' = [d \in Clients |-> IF net[d].fd = e.fd
                                      THEN [hist[d] EXCEPT !.got = Append(hist[d].got, e.req)]
                                      ELSE hist[d]]
    BY <1>3, <2>1 DEF RunnerWrite, At
  <2>5. /\ responses' \in Seq(Asks) /\ Len(responses') = Len(responses) - 1 /\ Len(responses) \in Nat
        /\ Len(responses) >= 1
        /\ \A k \in 1 .. (Len(responses) - 1) : responses'[k] = responses[k + 1] /\ k + 1 \in 1 .. Len(responses)
    BY <1>1, <1>3, <2>4, TailOf
  <2>6. /\ 1 \in 1 .. Len(responses)
        /\ \A k \in 1 .. Len(responses') : k + 1 \in 1 .. Len(responses) /\ k + 1 # 1 /\ responses'[k] = responses[k + 1]
        /\ \A j, k \in 1 .. Len(responses') : j + 1 = k + 1 => j = k
    BY <2>5
  <2>7. ASSUME NEW d \in Clients
        PROVE  /\ hist[d] \in HistState /\ hist'[d] \in HistState /\ hist[d].got \in Seq(Clients \X Nat)
               /\ hist'[d].asked = hist[d].asked /\ hist'[d].gone = hist[d].gone
               /\ net[d].fd = e.fd => hist'[d].got = Append(hist[d].got, e.req)
               /\ net[d].fd # e.fd => hist'[d].got = hist[d].got
    <3>1. hist[d] \in HistState /\ hist[d].got \in Seq(Clients \X Nat)
      BY <1>1 DEF HistState
    <3> DEFINE more == Append(hist[d].got, e.req)
    <3>2. more \in Seq(Clients \X Nat)
      BY <2>3, <3>1, AppendOf
    <3>3. hist'[d] = IF net[d].fd = e.fd THEN [hist[d] EXCEPT !.got = more] ELSE hist[d]
      BY <2>4
    <3> HIDE DEF more
    <3>4. CASE net[d].fd = e.fd
      BY <3>1, <3>2, <3>3, <3>4 DEF HistState, more
    <3>5. CASE net[d].fd # e.fd
      BY <3>1, <3>3, <3>5
    <3> QED
      BY <3>4, <3>5
  <2>8. hist' \in [Clients -> HistState]
    BY <2>4, <2>7
  <2>9. STypeOK'
    BY <1>1, <2>4, <2>5, <2>8, STypeParts DEF STypeOK, NetState, HistState, RunState
  <2>10. FInv' /\ ReadsFit'
    BY <1>1, <2>4 DEF SInv, FInv, FdsDiffer, FdsKnown, FdOf, ReadsFit
  <2>11. /\ \A k \in 1 .. Len(requests) : requests[k] \in Asks /\ InHandFits(requests[k])
         /\ \A k \in 1 .. Len(responses) : responses[k] \in Asks /\ InHandFits(responses[k])
    BY <1>1, FieldsTyped DEF InHand
  <2>12. /\ e.fd # 0 /\ e.req[2] = hist[c].asked /\ hist[c].asked = Answered(c) + 1
         /\ net[c].sent = 2 /\ net[c].unread = 0
         /\ net[c].fd = e.fd \/ hist[c].gone
    BY <2>1, <2>2, <2>6, <2>11 DEF InHandFits
  <2>13. ASSUME NEW d \in Clients, d # c PROVE Answered(d)' = Answered(d)
    <3>1. Own(d, Append(hist[d].got, e.req)) = Own(d, hist[d].got)
      BY <2>3, <2>7, <2>13, OwnOf DEF OwnGrows
    <3> QED
      BY <2>7, <3>1 DEF Answered
  <2>14. ASSUME NEW f \in Asks, InHandFits(f), f.req[1] # c PROVE InHandFits(f)'
    <3>1. f.req[1] \in Clients
      BY AskTyped
    <3> QED
      BY <1>1, <2>7, <2>13, <2>14, <3>1 DEF InHandFits
  <2>15. InHand'
    <3>1. /\ \A k \in 1 .. Len(requests) : requests[k].req[1] # c
          /\ \A k \in 1 .. Len(responses') : responses'[k].req[1] # c
      BY <1>1, <2>1, <2>2, <2>6 DEF InHand
    <3>2. \A k \in 1 .. Len(requests') : InHandFits(requests[k])'
      BY <1>1, <2>11, <2>14, <3>1
    <3>3. \A k \in 1 .. Len(responses') : InHandFits(responses[k])'
      BY <2>6, <2>11, <2>14, <3>1
    <3>4. \A j, k \in 1 .. Len(responses') : responses'[j].req[1] = responses'[k].req[1] => j = k
      BY <1>1, <2>6 DEF InHand
    <3>5. \A j \in 1 .. Len(requests), k \in 1 .. Len(responses') : requests[j].req[1] # responses'[k].req[1]
      BY <1>1, <2>6 DEF InHand
    <3> QED
      BY <1>1, <3>2, <3>3, <3>4, <3>5 DEF InHand
  <2>16. Unread'
    <3>1. ASSUME NEW d \in Clients, Nobodys(d) PROVE Nobodys(d)'
      BY <1>1, <2>6, <3>1 DEF Nobodys
    <3>2. ASSUME NEW d \in Clients, d # c
          PROVE  net[d].sent = 1 \/ net[d].unread > 0 => hist'[d].asked = Answered(d)' + 1 /\ Nobodys(d)'
      BY <1>1, <2>7, <2>13, <3>1, <3>2 DEF Unread
    <3> QED
      BY <1>1, <2>12, <3>2 DEF Unread
  <2>17. AnswersFit'
    <3> DEFINE gone == {d \in Clients : hist[d].gone}
    <3>1. \A d \in Clients : \A i \in DOMAIN hist[d].got : hist[d].got[i][1] \in Clients
      BY <1>1, FieldsTyped
    <3>2. \A d \in Clients : AllFit(d, hist[d].got, gone)
      BY <1>1, <3>1 DEF AllFit, AnswersFit
    <3>3. \A d \in Clients : net[d].fd = e.fd /\ d # c => c \in gone
      BY <1>1, <2>12 DEF FdsDiffer
    <3> HIDE DEF gone
    <3>4. ASSUME NEW d \in Clients PROVE AllFit(d, hist'[d].got, gone)
      <4>1. CASE net[d].fd = e.fd
        <5>1. e.req[1] = d => e.req[2] = Cardinality(Own(d, hist[d].got)) + 1
          BY <2>3, <2>12 DEF Answered
        <5>2. e.req[1] # d => e.req[1] \in gone
          BY <2>3, <3>3, <4>1
        <5>3. AllFit(d, hist[d].got, gone) /\ hist[d].got \in Seq(Clients \X Nat) /\ e.req \in Clients \X Nat
          BY <2>3, <2>7, <3>2
        <5>4. AllFit(d, Append(hist[d].got, e.req), gone)
          BY <5>1, <5>2, <5>3, FitsMore
        <5> QED
          BY <2>7, <4>1, <5>4
      <4>2. CASE net[d].fd # e.fd
        BY <2>7, <3>2, <4>2
      <4> QED
        BY <4>1, <4>2
    <3>5. \A d \in gone : hist'[d].gone
      BY <2>7 DEF gone
    <3> QED
      BY <3>4, <3>5 DEF AnswersFit, AllFit
  <2> QED
    BY <2>9, <2>10, <2>15, <2>16, <2>17 DEF SInv, FInv
<1> QED
  BY <1>2, <1>3

(* Every step of the HTTP server keeps the invariant. *)
LEMMA SNextInv == SInv /\ [SNext]_svars => SInv'
<1> SUFFICES ASSUME SInv, [SNext]_svars PROVE SInv'
  OBVIOUS
<1>1. WorkAnnounced'
  BY AnnouncedStep
<1>2. ASSUME NEW c \in Clients, Connect(c) \/ SendSegment(c) \/ HangUp(c) \/ Accept(c) PROVE SInv'
  BY <1>1, <1>2, ConnectStep, SegmentStep, HangUpStep, AcceptStep
<1>3. CASE RunnerTake
  BY <1>1, <1>3, TakeStep
<1>4. CASE RunnerWrite
  BY <1>1, <1>4, WriteStep
<1>5. CASE RunnerServe
  <2>1. Reads \/ ParsesAgain \/ Closes
    BY <1>5 DEF RunnerServe
  <2> QED
    BY <1>1, <1>5, <2>1, ReadsStep, ParsesAgainStep, ClosesStep
<1>6. CASE RunnerNotify
  BY <1>1, <1>6, NotifyStep
<1>7. CASE PollerAnswer
  BY <1>1, <1>7, AnswerStep
<1>8. CASE \/ AcceptNotify \/ AccepterEnds \/ RunnerWait \/ RunnerResponses \/ RunnerAround
           \/ PollerWait \/ PollerNotify \/ ServerStop \/ UNCHANGED svars
  BY <1>1, <1>8, QuietStep
<1> QED
  BY <1>2, <1>3, <1>4, <1>5, <1>6, <1>7, <1>8 DEF SNext, Runner

(***************************************************************************)
(* The inductive invariant of the HTTP server, for any number of clients   *)
(* and requests.                                                           *)
(***************************************************************************)
THEOREM ServerInvariant == SSpec => []SInv
BY SInitInv, SNextInv, PTL DEF SSpec

(***************************************************************************)
(* The accepter, the runner and the poller hand on their work: none of     *)
(* them sleeps on a queue that is not empty and will not be announced.     *)
(***************************************************************************)
THEOREM NoWorkLeft == SSpec => []NothingLeftLying
<1>1. SInv => NothingLeftLying
  BY DEF SInv, STypeOK, WorkAnnounced, NothingLeftLying
<1> QED
  BY <1>1, ServerInvariant, PTL

(***************************************************************************)
(* A client has the answers to its own requests, each once and in order;   *)
(* one that is not its own was for a client that has hung up.              *)
(***************************************************************************)
THEOREM AnswersAreTheirs == SSpec => []AnswersFit
<1>1. SInv => AnswersFit
  BY DEF SInv
<1> QED
  BY <1>1, ServerInvariant, PTL

-----------------------------------------------------------------------------
(* The HTTP messages and their parsers. *)

(* A CRLF is nothing else. *)
LEMMA NotCRLF ==
  /\ \A k, v : Header(k, v) # CRLF
  /\ \A i : Byte(i) # CRLF
  /\ \A m, p : [method |-> m, path |-> p] # CRLF
  /\ \A s : [status_code |-> s] # CRLF
BY DEF Header, CRLF, Byte

(* The part at the place i of a text of a first line, headers and a body. *)
PartAt(f, hs, b, i) ==
  IF i = 1 THEN f
  ELSE IF i <= 2 * Len(hs) + 2 THEN (IF i % 2 = 1 THEN hs[(i - 1) \div 2] ELSE CRLF)
  ELSE IF i = 2 * Len(hs) + 3 THEN CRLF ELSE Byte(i - (2 * Len(hs) + 3))

TextOf(f, hs, b) == [i \in 1 .. (2 * Len(hs) + 3 + b) |-> PartAt(f, hs, b, i)]

(* Two sequences, one after the other. *)
Joined(w, S, s, m, t, n) ==
  /\ w \in Seq(S) /\ Len(w) = m + n
  /\ \A i \in 1 .. (m + n) : w[i] = IF i <= m THEN s[i] ELSE t[i - m]

LEMMA TwoInARow ==
  ASSUME NEW S, NEW s \in Seq(S), NEW t \in Seq(S)
  PROVE  Joined(s \o t, S, s, Len(s), t, Len(t))
  BY DEF Joined

LEMMA TextIs ==
  ASSUME NEW S, NEW f, NEW hs \in Seq(S), NEW b \in Nat
  PROVE  <<f, CRLF>> \o Lines(hs) \o <<CRLF>> \o Body(b) = TextOf(f, hs, b)
<1> DEFINE k == Len(hs)
           P == {f, CRLF} \cup S \cup {Byte(i) : i \in 1 .. b}
           A == <<f, CRLF>>
           L == Lines(hs)
           E == <<CRLF>>
           B == Body(b)
<1>1. k \in Nat /\ \A l \in 1 .. k : hs[l] \in S
  OBVIOUS
<1>2. L \in Seq(P) /\ Len(L) = 2 * k
      /\ \A i \in 1 .. (2 * k) : L[i] = IF i % 2 = 1 THEN hs[(i + 1) \div 2] ELSE CRLF
  <2>1. \A i \in 1 .. (2 * k) : i % 2 = 1 => (i + 1) \div 2 \in 1 .. k
    BY <1>1
  <2>2. \A i \in 1 .. (2 * k) : (IF i % 2 = 1 THEN hs[(i + 1) \div 2] ELSE CRLF) \in P
    BY <1>1, <2>1
  <2>3. L = [i \in 1 .. (2 * k) |-> IF i % 2 = 1 THEN hs[(i + 1) \div 2] ELSE CRLF]
    BY DEF Lines
  <2>4. L \in [1 .. (2 * k) -> P]
    <3> HIDE DEF P, L
    <3> QED
      BY <2>2, <2>3
  <2> HIDE DEF P, L
  <2> QED
    BY <1>1, <2>3, <2>4
<1>3. B \in Seq(P) /\ Len(B) = b /\ \A i \in 1 .. b : B[i] = Byte(i)
  <2>1. B = [i \in 1 .. b |-> Byte(i)] /\ \A i \in 1 .. b : Byte(i) \in P
    BY DEF Body
  <2>2. B \in [1 .. b -> P]
    <3> HIDE DEF P, B
    <3> QED
      BY <2>1
  <2> HIDE DEF P, B
  <2> QED
    BY <2>1, <2>2
<1>4. A \in Seq(P) /\ Len(A) = 2 /\ A[1] = f /\ A[2] = CRLF /\ E \in Seq(P) /\ Len(E) = 1 /\ E[1] = CRLF
  <2>1. f \in P /\ CRLF \in P
    OBVIOUS
  <2> HIDE DEF P
  <2> QED
    BY <2>1
<1> DEFINE u == A \o L
           v == u \o E
           w == v \o B
<1> HIDE DEF P, A, L, E, B, k
<1>5. /\ u \in Seq(P) /\ Len(u) = 2 + 2 * k
      /\ \A i \in 1 .. (2 + 2 * k) : u[i] = IF i <= 2 THEN A[i] ELSE L[i - 2]
  <2>1. Joined(u, P, A, 2, L, 2 * k)
    BY <1>2, <1>4, TwoInARow
  <2> QED
    BY <2>1 DEF Joined
<1>6. /\ v \in Seq(P) /\ Len(v) = 3 + 2 * k
      /\ \A i \in 1 .. (3 + 2 * k) : v[i] = IF i <= 2 + 2 * k THEN u[i] ELSE E[i - (2 + 2 * k)]
  <2> HIDE DEF u
  <2>1. 2 + 2 * k + 1 = 3 + 2 * k
    BY <1>1
  <2>2. Joined(v, P, u, 2 + 2 * k, E, 1)
    BY <1>4, <1>5, TwoInARow
  <2> QED
    BY <2>1, <2>2 DEF Joined
<1>7. /\ w \in Seq(P) /\ Len(w) = 3 + 2 * k + b
      /\ \A i \in 1 .. (3 + 2 * k + b) : w[i] = IF i <= 3 + 2 * k THEN v[i] ELSE B[i - (3 + 2 * k)]
  <2> HIDE DEF v
  <2>1. Joined(w, P, v, 3 + 2 * k, B, b)
    BY <1>3, <1>6, TwoInARow
  <2> QED
    BY <2>1 DEF Joined
<1> HIDE DEF u, v, w
<1>8. ASSUME NEW i \in 1 .. (3 + 2 * k + b) PROVE w[i] = PartAt(f, hs, b, i)
  <2> USE DEF PartAt
  <2>1. CASE i = 1 \/ i = 2
    <3>1. w[i] = v[i]
      BY <1>1, <1>7, <2>1
    <3>2. v[i] = u[i]
      BY <1>1, <1>6, <2>1
    <3>3. u[i] = A[i]
      BY <1>1, <1>5, <2>1
    <3> QED
      BY <1>1, <1>4, <2>1, <3>1, <3>2, <3>3 DEF k
  <2>2. CASE i > 2 /\ i <= 2 * k + 2
    <3>1. w[i] = L[i - 2] /\ i - 2 \in 1 .. (2 * k)
      <4>1. /\ i \in 1 .. (2 + 2 * k) /\ i \in 1 .. (3 + 2 * k) /\ i \in 1 .. (3 + 2 * k + b)
            /\ i <= 2 + 2 * k /\ i <= 3 + 2 * k /\ ~(i <= 2) /\ i - 2 \in 1 .. (2 * k)
        BY <1>1, <2>2
      <4>2. w[i] = v[i]
        BY <1>7, <4>1
      <4>3. v[i] = u[i]
        BY <1>6, <4>1
      <4>4. u[i] = L[i - 2]
        BY <1>5, <4>1
      <4> QED
        BY <4>1, <4>2, <4>3, <4>4
    <3>2. (i - 2) % 2 = i % 2 /\ (i - 2) + 1 = i - 1
      BY <2>2
    <3> QED
      BY <1>1, <1>2, <2>2, <3>1, <3>2 DEF k
  <2>3. CASE i = 2 * k + 3
    <3>1. w[i] = E[1]
      BY <1>1, <1>6, <1>7, <2>3
    <3> QED
      BY <1>1, <1>4, <2>3, <3>1 DEF k
  <2>4. CASE i > 2 * k + 3
    <3>1. w[i] = Byte(i - (3 + 2 * k))
      BY <1>1, <1>3, <1>7, <2>4
    <3> QED
      BY <1>1, <2>4, <3>1 DEF k
  <2> HIDE DEF PartAt
  <2>5. i \in Nat /\ i >= 1 /\ 2 * k \in Nat
    BY <1>1
  <2> QED
    BY <2>1, <2>2, <2>3, <2>4, <2>5
<1>9. w = [i \in 1 .. (3 + 2 * k + b) |-> w[i]]
  BY <1>1, <1>7
<1>10. 2 * Len(hs) + 3 + b = 3 + 2 * k + b
  BY <1>1 DEF k
<1>11. w = TextOf(f, hs, b)
  BY <1>8, <1>9, <1>10 DEF TextOf
<1> QED
  BY <1>11 DEF w, v, u, A, L, E, B

(* A prefix, element by element. *)
LEMMA PrefixIs ==
  ASSUME NEW S, NEW w \in Seq(S), NEW r \in Seq(S)
  PROVE  IsPrefix(w, r) <=> Len(w) <= Len(r) /\ \A i \in 1 .. Len(w) : w[i] = r[i]
<1> DEFINE n == Len(w)
<1>1. n \in Nat /\ Len(r) \in Nat
  OBVIOUS
<1> SUFFICES ASSUME n <= Len(r)
             PROVE  SubSeq(w, 1, n) = SubSeq(r, 1, n) <=> \A i \in 1 .. n : w[i] = r[i]
  BY <1>1 DEF IsPrefix
<1>2. /\ SubSeq(w, 1, n) \in Seq(S) /\ Len(SubSeq(w, 1, n)) = n
      /\ \A i \in 1 .. n : SubSeq(w, 1, n)[i] = w[i]
  BY <1>1
<1>3. /\ SubSeq(r, 1, n) \in Seq(S) /\ Len(SubSeq(r, 1, n)) = n
      /\ \A i \in 1 .. n : SubSeq(r, 1, n)[i] = r[i]
  <2> HIDE DEF n
  <2> QED
    BY <1>1
<1> HIDE DEF n
<1> QED
  BY <1>1, <1>2, <1>3, SeqEqual

(* Where two CRLFs follow one another, and where one is. *)
LEMMA EndsAt ==
  ASSUME NEW S, NEW D \in Seq(S)
  PROVE  {i \in 1 .. Len(D) : IsPrefix(<<CRLF, CRLF>>, SubSeq(D, i, Len(D)))}
           = {i \in 1 .. (Len(D) - 1) : D[i] = CRLF /\ D[i + 1] = CRLF}
<1> DEFINE w == <<CRLF, CRLF>>
<1>1. Len(D) \in Nat
  OBVIOUS
<1>2. ASSUME NEW i \in 1 .. Len(D)
      PROVE  IsPrefix(w, SubSeq(D, i, Len(D)))
               <=> i + 1 <= Len(D) /\ D[i] = CRLF /\ D[i + 1] = CRLF
  <2> DEFINE r == SubSeq(D, i, Len(D))
             T == S \cup {CRLF}
  <2>1. /\ r \in Seq(T) /\ Len(r) = Len(D) - i + 1
        /\ \A j \in 1 .. (Len(D) - i + 1) : r[j] = D[i + j - 1]
    BY <1>1
  <2>2. w \in Seq(T) /\ Len(w) = 2 /\ w[1] = CRLF /\ w[2] = CRLF
    OBVIOUS
  <2> HIDE DEF r, w, T
  <2>3. IsPrefix(w, r) <=> Len(w) <= Len(r) /\ \A j \in 1 .. Len(w) : w[j] = r[j]
    <3>1. r \in Seq(T) /\ w \in Seq(T)
      BY <2>1, <2>2
    <3> QED
      BY ONLY <3>1, PrefixIs
  <2>4. (\A j \in 1 .. 2 : w[j] = r[j]) <=> w[1] = r[1] /\ w[2] = r[2]
    OBVIOUS
  <2>5. 2 <= Len(r) => r[1] = D[i] /\ r[2] = D[i + 1]
    BY <1>1, <2>1
  <2>6. 2 <= Len(r) <=> i + 1 <= Len(D)
    BY <1>1, <2>1
  <2> QED
    BY <2>2, <2>3, <2>4, <2>5, <2>6 DEF r
<1> HIDE DEF w
<1> QED
  BY <1>1, <1>2 DEF w

LEMMA LineEndsAt ==
  ASSUME NEW S, NEW D \in Seq(S)
  PROVE  {i \in 1 .. Len(D) : IsPrefix(<<CRLF>>, SubSeq(D, i, Len(D)))}
           = {i \in 1 .. Len(D) : D[i] = CRLF}
<1> DEFINE w == <<CRLF>>
<1>1. Len(D) \in Nat
  OBVIOUS
<1>2. ASSUME NEW i \in 1 .. Len(D)
      PROVE  IsPrefix(w, SubSeq(D, i, Len(D))) <=> D[i] = CRLF
  <2> DEFINE r == SubSeq(D, i, Len(D))
             T == S \cup {CRLF}
  <2>1. /\ r \in Seq(T) /\ Len(r) = Len(D) - i + 1
        /\ \A j \in 1 .. (Len(D) - i + 1) : r[j] = D[i + j - 1]
    BY <1>1
  <2>2. w \in Seq(T) /\ Len(w) = 1 /\ w[1] = CRLF
    OBVIOUS
  <2> HIDE DEF r, w, T
  <2>3. IsPrefix(w, r) <=> Len(w) <= Len(r) /\ \A j \in 1 .. Len(w) : w[j] = r[j]
    <3>1. r \in Seq(T) /\ w \in Seq(T)
      BY <2>1, <2>2
    <3> QED
      BY ONLY <3>1, PrefixIs
  <2>4. (\A j \in 1 .. 1 : w[j] = r[j]) <=> w[1] = r[1]
    OBVIOUS
  <2>5. 1 <= Len(r) /\ r[1] = D[i]
    BY <1>1, <2>1
  <2> QED
    BY <2>2, <2>3, <2>4, <2>5 DEF r
<1> HIDE DEF w
<1> QED
  BY <1>2 DEF w

-----------------------------------------------------------------------------
(* What the parsers find in a text that has come in up to the place a.      *)

Fields == {Header(k, v) : k \in {"A", "B", "Length", "Type", "Connection"}, v \in Nat}

PartsOf(f, hs, b) == {PartAt(f, hs, b, i) : i \in 1 .. (2 * Len(hs) + 3 + b)}

Begun(f, hs, b, a) == SubSeq(TextOf(f, hs, b), 1, a)

(* A text as the builders make it, and a place in it. *)
PlaceIn(f, hs, b, a) ==
  /\ f # CRLF /\ hs \in Seq(Fields) /\ Len(hs) \in Nat /\ Len(hs) >= 1 /\ b \in Nat
  /\ a \in 1 .. (2 * Len(hs) + 3 + b)

LEMMA BegunIs ==
  ASSUME NEW f, NEW hs, NEW b, NEW a, PlaceIn(f, hs, b, a)
  PROVE  /\ Begun(f, hs, b, a) \in Seq(PartsOf(f, hs, b)) /\ Len(Begun(f, hs, b, a)) = a
         /\ \A i \in 1 .. a : Begun(f, hs, b, a)[i] = PartAt(f, hs, b, i)
         /\ TextOf(f, hs, b) \in Seq(PartsOf(f, hs, b))
         /\ Len(TextOf(f, hs, b)) = 2 * Len(hs) + 3 + b
<1> DEFINE N == 2 * Len(hs) + 3 + b
           T == TextOf(f, hs, b)
           P == PartsOf(f, hs, b)
<1>1. N \in Nat /\ a \in 1 .. N
  BY DEF PlaceIn
<1>2. T = [i \in 1 .. N |-> PartAt(f, hs, b, i)] /\ \A i \in 1 .. N : PartAt(f, hs, b, i) \in P
  BY DEF TextOf, PartsOf
<1> HIDE DEF N, T, P
<1>3. T \in Seq(P) /\ Len(T) = N /\ \A i \in 1 .. N : T[i] = PartAt(f, hs, b, i)
  <2>1. T \in [1 .. N -> P]
    BY <1>2
  <2> QED
    BY <1>1, <1>2, <2>1
<1>4. /\ SubSeq(T, 1, a) \in Seq(P) /\ Len(SubSeq(T, 1, a)) = a
      /\ \A i \in 1 .. a : SubSeq(T, 1, a)[i] = T[i]
  BY <1>1, <1>3
<1> QED
  BY <1>1, <1>3, <1>4 DEF Begun, T, P, N

LEMMA CrlfAt ==
  ASSUME NEW f, NEW hs, NEW b, NEW a, PlaceIn(f, hs, b, a), NEW i \in 1 .. a
  PROVE  PartAt(f, hs, b, i) = CRLF
           <=> (i % 2 = 0 /\ i <= 2 * Len(hs) + 2) \/ i = 2 * Len(hs) + 3
<1>1. Len(hs) \in Nat /\ f # CRLF /\ i \in Nat /\ i >= 1
  BY DEF PlaceIn
<1>2. ASSUME i <= 2 * Len(hs) + 2, i % 2 = 1, i # 1
      PROVE  hs[(i - 1) \div 2] # CRLF
  <2>1. (i - 1) \div 2 \in 1 .. Len(hs)
    BY <1>1, <1>2
  <2>2. hs[(i - 1) \div 2] \in Fields
    BY <2>1 DEF PlaceIn
  <2> QED
    BY <2>2, NotCRLF DEF Fields
<1>3. \A j : Byte(j) # CRLF
  BY NotCRLF
<1>4. i % 2 = 0 \/ i % 2 = 1
  BY <1>1
<1>5. 1 % 2 = 1 /\ (2 * Len(hs) + 3) % 2 = 1 /\ 1 # 2 * Len(hs) + 3
  BY <1>1
<1> QED
  BY <1>1, <1>2, <1>3, <1>4, <1>5 DEF PartAt

(* The end of the header is there once its second CRLF is. *)
LEMMA HeaderEndAt ==
  ASSUME NEW f, NEW hs, NEW b, NEW a, PlaceIn(f, hs, b, a)
  PROVE  FindSequence(Begun(f, hs, b, a), <<CRLF, CRLF>>)
           = IF a >= 2 * Len(hs) + 3 THEN 2 * Len(hs) + 2 ELSE 0
<1> DEFINE D == Begun(f, hs, b, a)
           k == Len(hs)
           at == {i \in 1 .. Len(D) : IsPrefix(<<CRLF, CRLF>>, SubSeq(D, i, Len(D)))}
<1>1. k \in Nat /\ a \in Nat
  BY DEF PlaceIn
<1>2. D \in Seq(PartsOf(f, hs, b)) /\ Len(D) = a /\ \A i \in 1 .. a : D[i] = PartAt(f, hs, b, i)
  BY BegunIs
<1>3. at = {i \in 1 .. (a - 1) : D[i] = CRLF /\ D[i + 1] = CRLF}
  <2> HIDE DEF D
  <2> QED
    BY <1>2, EndsAt
<1>4. \A i \in 1 .. a : D[i] = CRLF <=> (i % 2 = 0 /\ i <= 2 * k + 2) \/ i = 2 * k + 3
  <2> HIDE DEF D
  <2> QED
    BY <1>2, CrlfAt
<1>5. FindSequence(D, <<CRLF, CRLF>>)
        = IF at = {} THEN 0 ELSE CHOOSE i \in at : \A j \in at : i <= j
  BY DEF FindSequence
<1> HIDE DEF D, at, k
<1>6. \A i \in 1 .. (a - 1) : D[i] = CRLF /\ D[i + 1] = CRLF <=> i = 2 * k + 2
  <2> TAKE i \in 1 .. (a - 1)
  <2>1. i \in 1 .. a /\ i + 1 \in 1 .. a
    BY <1>1
  <2>2. i % 2 = 0 => (i + 1) % 2 = 1
    OBVIOUS
  <2>3. (2 * k + 2) % 2 = 0 /\ (2 * k + 3) % 2 = 1 /\ (2 * k + 4) % 2 = 0
    BY <1>1
  <2> QED
    BY <1>1, <1>4, <2>1, <2>2, <2>3
<1>7. CASE a >= 2 * k + 3
  <2>1. at = {2 * k + 2}
    BY <1>1, <1>3, <1>6, <1>7
  <2>2. \A i \in {2 * k + 2} : \A j \in {2 * k + 2} : i <= j
    BY <1>1
  <2>3. (CHOOSE i \in {2 * k + 2} : \A j \in {2 * k + 2} : i <= j) \in {2 * k + 2}
    BY <2>2
  <2> QED
    BY <1>5, <1>7, <2>1, <2>3 DEF D, k
<1>8. CASE ~(a >= 2 * k + 3)
  <2>1. at = {}
    BY <1>1, <1>3, <1>6, <1>8
  <2> QED
    BY <1>5, <1>8, <2>1 DEF D, k
<1> QED
  BY <1>7, <1>8

(* The even numbers in their order. *)
Evens(m) == {2 * i : i \in 1 .. m}

LEMMA EvensCount ==
  ASSUME NEW m \in Nat
  PROVE  Cardinality(Evens(m)) = m
<1> DEFINE g == [i \in 1 .. m |-> 2 * i]
<1>1. g \in [1 .. m -> Evens(m)]
  BY DEF Evens
<1>2. g \in Injection(1 .. m, Evens(m))
  BY <1>1 DEF Injection, IsInjective
<1>3. g \in Surjection(1 .. m, Evens(m))
  BY <1>1 DEF Surjection, Evens
<1>4. ExistsBijection(1 .. m, Evens(m))
  BY <1>2, <1>3 DEF ExistsBijection, Bijection
<1>5. IsFiniteSet(1 .. m) /\ Cardinality(1 .. m) = m
  BY FS_Interval
<1> QED
  BY <1>4, <1>5, FS_Bijection

LEMMA NthEven ==
  ASSUME NEW m \in Nat, NEW l \in 1 .. m
  PROVE  Nth(Evens(m), l) = 2 * l
<1>1. ASSUME NEW j \in 1 .. m PROVE Rank(Evens(m), 2 * j) = j
  <2>1. {e \in Evens(m) : e <= 2 * j} = Evens(j)
    BY DEF Evens
  <2>2. Cardinality(Evens(j)) = j
    BY EvensCount
  <2> QED
    BY <2>1, <2>2 DEF Rank
<1>2. \A e \in Evens(m) : Rank(Evens(m), e) = l => e = 2 * l
  BY <1>1 DEF Evens
<1>3. 2 * l \in Evens(m) /\ Rank(Evens(m), 2 * l) = l
  BY <1>1 DEF Evens
<1> QED
  BY <1>2, <1>3 DEF Nth

(* parse_headers, given h1 CRLF h2 CRLF ... hm CRLF and a header more. *)
LEMMA TakenAre ==
  ASSUME NEW S, NEW R \in Seq(S), NEW m \in Nat, Len(R) = 2 * m + 1,
         \A j \in 1 .. (2 * m + 1) : R[j] = CRLF <=> j % 2 = 0
  PROVE  TakenHeaders(R) = [l \in 1 .. (IF m < MAX_HEADERS THEN m ELSE MAX_HEADERS) |-> R[2 * l - 1]]
<1> DEFINE n == IF m < MAX_HEADERS THEN m ELSE MAX_HEADERS
<1>1. {i \in DOMAIN R : R[i] = CRLF} = Evens(m)
  <2>1. DOMAIN R = 1 .. (2 * m + 1)
    OBVIOUS
  <2>2. \A j \in 1 .. (2 * m + 1) : j % 2 = 0 <=> j \in Evens(m)
    <3> TAKE j \in 1 .. (2 * m + 1)
    <3>1. j % 2 = 0 => j = 2 * (j \div 2) /\ j \div 2 \in 1 .. m
      OBVIOUS
    <3>2. \A i \in 1 .. m : (2 * i) % 2 = 0
      OBVIOUS
    <3> QED
      BY <3>1, <3>2 DEF Evens
  <2>3. Evens(m) \subseteq 1 .. (2 * m + 1)
    BY DEF Evens
  <2> QED
    BY <2>1, <2>2, <2>3
<1>2. TakenHeaders(R) = [l \in 1 .. n |-> R[Nth(Evens(m), l) - 1]]
  BY <1>1, EvensCount DEF TakenHeaders
<1>3. \A l \in 1 .. n : Nth(Evens(m), l) - 1 = 2 * l - 1
  <2>1. n \in Nat /\ n <= m
    BY HttpAssumption
  <2> TAKE l \in 1 .. n
  <2>2. l \in 1 .. m
    BY <2>1
  <2>3. Nth(Evens(m), l) = 2 * l
    BY <2>2, NthEven
  <2> QED
    BY <2>3
<1> QED
  BY <1>2, <1>3

(* How many headers parse_headers takes. *)
TakenOf(hs) == IF Len(hs) - 1 < MAX_HEADERS THEN Len(hs) - 1 ELSE MAX_HEADERS

(* Parts of a text that has come in past its end of header. *)
Found(p, f, hs, b, a) ==
  /\ p.first = f /\ p.line_end = 2
  /\ p.hs = [l \in 1 .. TakenOf(hs) |-> hs[l]]
  /\ p.rest \in Seq(PartsOf(f, hs, b)) /\ Len(p.rest) = a - (2 * Len(hs) + 3)
  /\ \A i \in 1 .. (a - (2 * Len(hs) + 3)) : p.rest[i] = Byte(i)

LEMMA PartsAre ==
  ASSUME NEW f, NEW hs, NEW b, NEW a, PlaceIn(f, hs, b, a), a >= 2 * Len(hs) + 3,
         NEW p, p = Parts(Begun(f, hs, b, a))
  PROVE  Found(p, f, hs, b, a)
<1> DEFINE D == Begun(f, hs, b, a)
           k == Len(hs)
           P == PartsOf(f, hs, b)
           h == SubSeq(D, 1, (2 * k + 2) - 1)
           R == SubSeq(h, 2 + 1, Len(h))
           r == SubSeq(D, (2 * k + 2) + 2, Len(D))
<1>1. k \in Nat /\ k >= 1 /\ a \in Nat /\ a >= 2 * k + 3 /\ p = Parts(D)
  BY DEF PlaceIn
<1>2. D \in Seq(P) /\ Len(D) = a /\ \A i \in 1 .. a : D[i] = PartAt(f, hs, b, i)
  BY BegunIs
<1>3. \A i \in 1 .. a : D[i] = CRLF <=> (i % 2 = 0 /\ i <= 2 * k + 2) \/ i = 2 * k + 3
  <2> HIDE DEF D
  <2> QED
    BY <1>2, CrlfAt
<1>4. FindSequence(D, <<CRLF, CRLF>>) = 2 * k + 2
  BY HeaderEndAt
<1>5. /\ p.first = D[1] /\ p.line_end = FindSequence(h, <<CRLF>>)
      /\ p.hs = TakenHeaders(SubSeq(h, p.line_end + 1, Len(h)))
      /\ p.rest = r
  <2> DEFINE e == FindSequence(D, <<CRLF, CRLF>>)
             g == SubSeq(D, 1, e - 1)
  <2>1. e = 2 * k + 2
    BY <1>4
  <2>2. /\ p.first = D[1] /\ p.line_end = FindSequence(g, <<CRLF>>)
        /\ p.hs = TakenHeaders(SubSeq(g, FindSequence(g, <<CRLF>>) + 1, Len(g)))
        /\ p.rest = SubSeq(D, e + 2, Len(D))
    <3> HIDE DEF D
    <3> DEFINE x == TakenHeaders(SubSeq(g, FindSequence(g, <<CRLF>>) + 1, Len(g)))
               y == FindSequence(g, <<CRLF>>)
               z == SubSeq(D, e + 2, Len(D))
    <3>1. p = [first |-> D[1], line_end |-> y, hs |-> x, rest |-> z]
      BY <1>1, Zenon DEF Parts
    <3> HIDE DEF x, y, z
    <3>2. p.first = D[1] /\ p.line_end = y /\ p.hs = x /\ p.rest = z
      BY <3>1
    <3> QED
      BY <3>2 DEF x, y, z
  <2> HIDE DEF e, D
  <2> QED
    BY <2>1, <2>2
<1> HIDE DEF D, P, k
<1>6. /\ h \in Seq(P) /\ Len(h) = 2 * k + 1
      /\ \A i \in 1 .. (2 * k + 1) : h[i] = D[i]
  BY <1>1, <1>2
<1>7. /\ r \in Seq(P) /\ Len(r) = a - (2 * k + 3)
      /\ \A i \in 1 .. (a - (2 * k + 3)) : r[i] = D[2 * k + 3 + i]
  BY <1>1, <1>2
<1> HIDE DEF h, r
<1>8. FindSequence(h, <<CRLF>>) = 2
  <2> DEFINE at == {i \in 1 .. Len(h) : IsPrefix(<<CRLF>>, SubSeq(h, i, Len(h)))}
  <2>1. at = {i \in 1 .. Len(h) : h[i] = CRLF}
    BY <1>6, LineEndsAt
  <2>2. FindSequence(h, <<CRLF>>) = IF at = {} THEN 0 ELSE CHOOSE i \in at : \A j \in at : i <= j
    BY DEF FindSequence
  <2> HIDE DEF at
  <2>3. 2 \in at /\ 1 \notin at /\ at \subseteq 1 .. (2 * k + 1)
    <3>1. 2 \in 1 .. a /\ 1 \in 1 .. a /\ 2 % 2 = 0 /\ 1 % 2 = 1 /\ 1 # 2 * k + 3 /\ 2 <= 2 * k + 2
      BY <1>1 DEF k
    <3>2. h[2] = CRLF /\ h[1] # CRLF
      BY <1>1, <1>3, <1>6, <3>1
    <3> QED
      BY <1>1, <1>6, <2>1, <3>2
  <2>4. \A j \in at : 2 <= j
    BY <2>3
  <2>5. (CHOOSE i \in at : \A j \in at : i <= j) = 2
    <3>1. ASSUME NEW i \in at, \A j \in at : i <= j PROVE i = 2
      <4>1. i \in Nat /\ 2 <= i /\ i <= 2
        BY <1>1, <2>3, <2>4, <3>1
      <4> QED
        BY <4>1
    <3>2. \E i \in at : \A j \in at : i <= j
      BY <2>3, <2>4
    <3> QED
      BY <3>1, <3>2
  <2> QED
    BY <2>2, <2>3, <2>5
<1>9. /\ R \in Seq(P) /\ Len(R) = 2 * k - 1
      /\ \A i \in 1 .. (2 * k - 1) : R[i] = h[i + 2]
  BY <1>1, <1>6
<1>10. p.hs = TakenHeaders(R)
  BY <1>5, <1>8
<1> HIDE DEF R
<1> DEFINE m == k - 1
<1>11. /\ m \in Nat /\ Len(R) = 2 * m + 1
       /\ \A j \in 1 .. (2 * m + 1) : R[j] = CRLF <=> j % 2 = 0
  <2>1. m \in Nat /\ 2 * m + 1 = 2 * k - 1
    BY <1>1
  <2>2. ASSUME NEW j \in 1 .. (2 * k - 1) PROVE R[j] = CRLF <=> j % 2 = 0
    <3>1. j + 2 \in 1 .. (2 * k + 1) /\ j + 2 \in 1 .. a
      BY <1>1 DEF k
    <3>2. R[j] = D[j + 2]
      BY <1>6, <1>9, <3>1
    <3>3. (j + 2) % 2 = j % 2 /\ j + 2 <= 2 * k + 2 /\ j + 2 # 2 * k + 3
      BY <1>1
    <3> QED
      BY <1>3, <3>1, <3>2, <3>3
  <2> QED
    BY <1>9, <2>1, <2>2
<1>12. TakenHeaders(R) = [l \in 1 .. TakenOf(hs) |-> R[2 * l - 1]]
  <2>1. TakenHeaders(R) = [l \in 1 .. (IF m < MAX_HEADERS THEN m ELSE MAX_HEADERS) |-> R[2 * l - 1]]
    <3> HIDE DEF m
    <3> QED
      BY <1>9, <1>11, TakenAre
  <2> QED
    BY <2>1 DEF TakenOf, k
<1>13. \A l \in 1 .. TakenOf(hs) : R[2 * l - 1] = hs[l]
  <2> TAKE l \in 1 .. TakenOf(hs)
  <2>1. l \in Nat /\ l >= 1 /\ l <= k - 1
    BY <1>1, HttpAssumption DEF TakenOf, k
  <2>2. 2 * l - 1 \in 1 .. (2 * k - 1) /\ 2 * l + 1 \in 1 .. (2 * k + 1) /\ 2 * l + 1 \in 1 .. a
    BY <1>1, <2>1 DEF k
  <2>3. (2 * l - 1) + 2 = 2 * l + 1
    BY <2>1
  <2>4. R[2 * l - 1] = D[2 * l + 1]
    BY <1>6, <1>9, <2>2, <2>3
  <2>5. (2 * l + 1) % 2 = 1 /\ ((2 * l + 1) - 1) \div 2 = l /\ 2 * l + 1 # 1 /\ 2 * l + 1 <= 2 * k + 2
    BY <1>1, <2>1
  <2> QED
    BY <1>2, <2>2, <2>4, <2>5 DEF PartAt, k
<1>14. \A i \in 1 .. (a - (2 * k + 3)) : r[i] = Byte(i)
  <2> TAKE i \in 1 .. (a - (2 * k + 3))
  <2>1. 2 * k + 3 + i \in 1 .. a /\ 2 * k + 3 + i > 2 * k + 3 /\ (2 * k + 3 + i) - (2 * k + 3) = i
    BY <1>1
  <2>2. r[i] = PartAt(f, hs, b, 2 * k + 3 + i)
    BY <1>2, <1>7, <2>1
  <2> QED
    BY <1>1, <2>1, <2>2 DEF PartAt, k
<1>15. D[1] = f
  <2>1. 1 \in 1 .. a
    BY <1>1 DEF k
  <2> QED
    BY <1>2, <2>1 DEF PartAt
<1> QED
  BY <1>5, <1>7, <1>8, <1>10, <1>12, <1>13, <1>14, <1>15 DEF Found, k, P

-----------------------------------------------------------------------------
(* The messages and their texts. *)

FirstOf(m) ==
  IF m.kind = "request" THEN [method |-> m.method, path |-> m.path] ELSE [status_code |-> m.status_code]

HeadersOf(m) == IF m.kind = "request" THEN RequestHeaders(m) ELSE ResponseHeaders(m)

(* The one header that gives the length is at the place q. *)
LengthAt(hs, b, q) ==
  /\ q \in 1 .. Len(hs) /\ hs[q].value = b
  /\ \A l \in 1 .. Len(hs) : hs[l].key = "Length" <=> l = q

LengthPlace(m) == IF m.kind = "request" THEN 1 ELSE 2

Messages == Requests \cup Responses

LEMMA ExtrasAre ==
  ASSUME NEW x \in Extras
  PROVE  /\ x \in Seq(Fields) /\ Len(x) \in Nat
         /\ \A l \in 1 .. Len(x) : x[l].key # "Length"
         /\ x = << >> <=> Len(x) = 0
<1> DEFINE H == {Header("A", 1), Header("B", 2)}
<1>1. H \subseteq Fields
  BY DEF Fields
<1>2. \A h \in H : h.key # "Length"
  BY DEF Header
<1> HIDE DEF H
<1>3. PICK n \in 0 .. MaxExtra : x \in [1 .. n -> H]
  BY DEF Extras, H
<1>4. n \in Nat
  BY HttpAssumption
<1>5. x \in Seq(Fields) /\ Len(x) = n /\ \A l \in 1 .. n : x[l] \in H
  <2>1. \A l \in 1 .. n : x[l] \in Fields
    BY <1>1, <1>3
  <2>2. x \in [1 .. n -> Fields]
    BY <1>3, <2>1
  <2> QED
    BY <1>3, <1>4, <2>2
<1> QED
  BY <1>2, <1>5

LEMMA MessageParts ==
  ASSUME NEW m \in Messages
  PROVE  /\ m.kind \in {"request", "response"} /\ m.headers \in Extras /\ m.body \in Nat
         /\ m.body \in 0 .. MaxBody
         /\ m.kind = "request" => m.method \in Methods /\ m.path \in {"short", "long"}
<1>1. CASE m \in Requests
  BY <1>1, HttpAssumption DEF Requests
<1>2. CASE m \in Responses
  BY <1>2, HttpAssumption DEF Responses
<1> QED
  BY <1>1, <1>2 DEF Messages

LEMMA HeadersAre ==
  ASSUME NEW m \in Messages
  PROVE  /\ HeadersOf(m) \in Seq(Fields)
         /\ Len(HeadersOf(m)) = Len(m.headers) + (IF m.kind = "request" THEN 1 ELSE 3)
         /\ Len(m.headers) \in Nat
         /\ LengthAt(HeadersOf(m), m.body, LengthPlace(m))
<1> DEFINE x == m.headers
           b == m.body
           hs == HeadersOf(m)
<1>1. x \in Seq(Fields) /\ Len(x) \in Nat /\ \A l \in 1 .. Len(x) : x[l].key # "Length"
  BY MessageParts, ExtrasAre
<1>2. b \in Nat /\ m.kind \in {"request", "response"}
  BY MessageParts
<1>3. /\ Header("Length", b) \in Fields /\ Header("Type", 0) \in Fields /\ Header("Connection", 0) \in Fields
      /\ Header("Length", b).key = "Length" /\ Header("Length", b).value = b
      /\ Header("Type", 0).key # "Length" /\ Header("Connection", 0).key # "Length"
  BY <1>2 DEF Fields, Header
<1>4. CASE m.kind = "request"
  <2> DEFINE s == <<Header("Length", b)>>
  <2>1. s \in Seq(Fields) /\ Len(s) = 1 /\ s[1] = Header("Length", b)
    <3> HIDE DEF b
    <3> QED
      BY <1>3
  <2>2. hs = s \o x /\ LengthPlace(m) = 1
    BY <1>4 DEF HeadersOf, RequestHeaders, LengthPlace
  <2> HIDE DEF s, x, hs, b
  <2>3. Joined(s \o x, Fields, s, 1, x, Len(x))
    BY <1>1, <2>1, TwoInARow
  <2>4. /\ hs \in Seq(Fields) /\ Len(hs) = 1 + Len(x)
        /\ \A i \in 1 .. (1 + Len(x)) : hs[i] = IF i <= 1 THEN s[i] ELSE x[i - 1]
    BY <2>2, <2>3 DEF Joined
  <2>5. \A l \in 1 .. Len(hs) : hs[l].key = "Length" <=> l = 1
    <3> TAKE l \in 1 .. Len(hs)
    <3>1. CASE l = 1
      BY <1>1, <1>3, <2>1, <2>4, <3>1
    <3>2. CASE l # 1
      <4>1. hs[l] = x[l - 1] /\ l - 1 \in 1 .. Len(x)
        BY <1>1, <2>4, <3>2
      <4> QED
        BY <1>1, <3>2, <4>1
    <3> QED
      BY <3>1, <3>2
  <2>6. hs[1].value = b /\ 1 \in 1 .. Len(hs)
    BY <1>1, <1>3, <2>1, <2>4
  <2> QED
    BY <1>1, <1>4, <2>2, <2>4, <2>5, <2>6 DEF LengthAt, x, b, hs
<1>5. CASE m.kind # "request"
  <2> DEFINE s == <<Header("Type", 0), Header("Length", b), Header("Connection", 0)>>
  <2>1. /\ s \in Seq(Fields) /\ Len(s) = 3 /\ s[1] = Header("Type", 0)
        /\ s[2] = Header("Length", b) /\ s[3] = Header("Connection", 0)
    <3> HIDE DEF b
    <3> QED
      BY <1>3
  <2>2. hs = s \o x /\ LengthPlace(m) = 2
    BY <1>5 DEF HeadersOf, ResponseHeaders, LengthPlace
  <2> HIDE DEF s, x, hs, b
  <2>3. Joined(s \o x, Fields, s, 3, x, Len(x))
    BY <1>1, <2>1, TwoInARow
  <2>4. /\ hs \in Seq(Fields) /\ Len(hs) = 3 + Len(x)
        /\ \A i \in 1 .. (3 + Len(x)) : hs[i] = IF i <= 3 THEN s[i] ELSE x[i - 3]
    BY <2>2, <2>3 DEF Joined
  <2>5. \A l \in 1 .. Len(hs) : hs[l].key = "Length" <=> l = 2
    <3> TAKE l \in 1 .. Len(hs)
    <3>1. CASE l = 1 \/ l = 2 \/ l = 3
      BY <1>1, <1>3, <2>1, <2>4, <3>1
    <3>2. CASE l > 3
      <4>1. hs[l] = x[l - 3] /\ l - 3 \in 1 .. Len(x)
        BY <1>1, <2>4, <3>2
      <4> QED
        BY <1>1, <3>2, <4>1
    <3> QED
      BY <1>1, <2>4, <3>1, <3>2
  <2>6. hs[2].value = b /\ 2 \in 1 .. Len(hs)
    BY <1>1, <1>3, <2>1, <2>4
  <2> QED
    BY <1>1, <1>5, <2>2, <2>4, <2>5, <2>6 DEF LengthAt, x, b, hs
<1> QED
  BY <1>4, <1>5

LEMMA TextOfMessage ==
  ASSUME NEW m \in Messages
  PROVE  /\ Build(m) = TextOf(FirstOf(m), HeadersOf(m), m.body)
         /\ \A a \in 1 .. (2 * Len(HeadersOf(m)) + 3 + m.body) :
              PlaceIn(FirstOf(m), HeadersOf(m), m.body, a)
<1>1. /\ HeadersOf(m) \in Seq(Fields) /\ m.body \in Nat /\ Len(HeadersOf(m)) \in Nat
      /\ Len(HeadersOf(m)) >= 1
  <2>1. /\ HeadersOf(m) \in Seq(Fields) /\ Len(m.headers) \in Nat
        /\ \/ Len(HeadersOf(m)) = Len(m.headers) + 1
           \/ Len(HeadersOf(m)) = Len(m.headers) + 3
    BY HeadersAre
  <2> QED
    BY <2>1, MessageParts
<1>2. FirstOf(m) # CRLF
  BY NotCRLF DEF FirstOf
<1>3. Build(m) = <<FirstOf(m), CRLF>> \o Lines(HeadersOf(m)) \o <<CRLF>> \o Body(m.body)
  <2>1. CASE m.kind = "request"
    BY <2>1 DEF Build, BuildRequest, FirstOf, HeadersOf
  <2>2. CASE m.kind # "request"
    BY <2>2 DEF Build, BuildResponse, FirstOf, HeadersOf
  <2> QED
    BY <2>1, <2>2
<1>4. Build(m) = TextOf(FirstOf(m), HeadersOf(m), m.body)
  BY <1>1, <1>3, TextIs
<1> QED
  BY <1>1, <1>2, <1>4 DEF PlaceIn

-----------------------------------------------------------------------------
(* What the parsers say of it. *)

(* The bytes of body the parser waits for. *)
Due(m) ==
  IF \/ m.kind = "request" /\ m.method # "POST"
     \/ LengthPlace(m) \notin 1 .. TakenOf(HeadersOf(m))
  THEN 0 ELSE m.body

Taken(m) == [l \in 1 .. TakenOf(HeadersOf(m)) |-> HeadersOf(m)[l]]

(* The place of the end of the header. *)
EndOf(m) == 2 * Len(HeadersOf(m)) + 3

LEMMA LengthsAre ==
  ASSUME NEW m \in Messages, m.body <= UHTTP_MAX_BODY_SIZE
  PROVE  /\ LengthsValid(Taken(m))
         /\ ContentLength(Taken(m)) = IF LengthPlace(m) \in 1 .. TakenOf(HeadersOf(m)) THEN m.body ELSE 0
<1> DEFINE hs == HeadersOf(m)
           n == TakenOf(hs)
           q == LengthPlace(m)
           t == Taken(m)
           b == m.body
<1>1. LengthAt(hs, b, q) /\ Len(hs) \in Nat /\ Len(hs) >= 1
  <2>1. /\ Len(m.headers) \in Nat /\ LengthAt(hs, b, q)
        /\ \/ Len(HeadersOf(m)) = Len(m.headers) + 1
           \/ Len(HeadersOf(m)) = Len(m.headers) + 3
    BY HeadersAre
  <2> QED
    BY <2>1
<1>2. n \in Nat /\ n <= Len(hs)
  BY <1>1, HttpAssumption DEF TakenOf
<1>3. t = [l \in 1 .. n |-> hs[l]] /\ DOMAIN t = 1 .. n /\ \A l \in 1 .. n : t[l] = hs[l]
  BY DEF Taken
<1> HIDE DEF hs, n, q, t, b
<1>4. Lengths(t) = {l \in 1 .. n : l = q}
  BY <1>1, <1>2, <1>3 DEF Lengths, LengthAt
<1>5. LengthsValid(t)
  BY <1>1, <1>2, <1>3, <1>4 DEF LengthsValid, LengthAt, b
<1>6. CASE q \in 1 .. n
  <2>1. Lengths(t) = {q}
    BY <1>4, <1>6
  <2>2. q \in Nat
    BY <1>6
  <2>3. (CHOOSE i \in {q} : \A j \in {q} : j <= i) = q
    <3>1. q <= q
      BY <2>2
    <3> QED
      BY <3>1
  <2>4. ContentLength(t) = t[q].value
    BY <2>1, <2>3 DEF ContentLength
  <2> QED
    BY <1>1, <1>3, <1>5, <1>6, <2>4 DEF LengthAt, hs, n, q, t, b
<1>7. CASE q \notin 1 .. n
  <2>1. Lengths(t) = {}
    BY <1>4, <1>7
  <2> QED
    BY <1>5, <1>7, <2>1 DEF ContentLength, hs, n, q, t, b
<1> QED
  BY <1>6, <1>7

(* A message within the limits. *)
WithinLimits(m) ==
  /\ EndOf(m) <= UHTTP_MAX_HEADER_SIZE
  /\ m.body <= UHTTP_MAX_BODY_SIZE
  /\ m.kind = "request" => m.path = "short"

Read(m, a) == Begun(FirstOf(m), HeadersOf(m), m.body, a)

ReadIn(m, D) == IF m.kind = "request" THEN ParseRequest(D) ELSE ParseResponse(D)

(* No beginning that fits and has no end of header is refused. *)
LEMMA HeaderIsAwaited ==
  ASSUME NEW m \in Messages, WithinLimits(m), NEW a \in 1 .. (EndOf(m) + m.body), a < EndOf(m)
  PROVE  ReadIn(m, Read(m, a)) = Verdict("INCOMPLETE")
<1> DEFINE D == Read(m, a)
<1>1. PlaceIn(FirstOf(m), HeadersOf(m), m.body, a)
  BY TextOfMessage DEF EndOf
<1>2. EndOf(m) \in Nat /\ a \in Nat
  BY <1>1 DEF EndOf, PlaceIn
<1>3. FindSequence(D, <<CRLF, CRLF>>) = 0
  BY <1>1, <1>2, HeaderEndAt DEF Read, EndOf
<1>4. Len(D) = a
  BY <1>1, BegunIs DEF Read
<1> HIDE DEF D
<1>5. D # << >> /\ ~HasHeaderEnd(D)
  BY <1>3, <1>4 DEF HasHeaderEnd
<1>6. ~(Len(D) >= UHTTP_MAX_HEADER_SIZE)
  BY <1>2, <1>4, HttpAssumption DEF WithinLimits
<1>7. NoHeaderEnd(D) = Verdict("INCOMPLETE")
  BY <1>6 DEF NoHeaderEnd
<1>8. ParseRequest(D) = NoHeaderEnd(D)
  BY <1>5 DEF ParseRequest
<1>9. ParseResponse(D) = NoHeaderEnd(D)
  BY <1>5 DEF ParseResponse
<1> QED
  BY <1>7, <1>8, <1>9 DEF ReadIn, D

LEMMA BodyIsAwaited ==
  ASSUME NEW m \in Messages, WithinLimits(m), NEW a \in 1 .. (EndOf(m) + m.body), a >= EndOf(m)
  PROVE  ReadIn(m, Read(m, a)) = IF a - EndOf(m) < Due(m) THEN Verdict("INCOMPLETE")
                                 ELSE Parsed(FirstOf(m), Taken(m), Body(Due(m)))
<1> DEFINE D == Read(m, a)
           p == Parts(D)
           f == FirstOf(m)
           t == Taken(m)
           c == EndOf(m)
           P == PartsOf(f, HeadersOf(m), m.body)
<1>1. PlaceIn(f, HeadersOf(m), m.body, a)
  BY TextOfMessage DEF EndOf
<1>2. c \in Nat /\ a \in Nat /\ m.body \in Nat /\ m.kind \in {"request", "response"}
      /\ c >= 5
  BY <1>1, MessageParts DEF EndOf, PlaceIn
<1>3. FindSequence(D, <<CRLF, CRLF>>) = c - 1
  <2>1. FindSequence(D, <<CRLF, CRLF>>) = 2 * Len(HeadersOf(m)) + 2
    BY <1>1, HeaderEndAt DEF Read, EndOf
  <2> QED
    BY <1>1, <2>1 DEF EndOf, PlaceIn
<1>4. Len(D) = a
  BY <1>1, BegunIs DEF Read
<1>5. /\ p.first = f /\ p.line_end = 2 /\ p.hs = t
      /\ p.rest \in Seq(P) /\ Len(p.rest) = a - c
      /\ \A i \in 1 .. (a - c) : p.rest[i] = Byte(i)
  <2> DEFINE hs == HeadersOf(m)
             b == m.body
  <2>1. PlaceIn(f, hs, b, a) /\ a >= 2 * Len(hs) + 3 /\ p = Parts(Begun(f, hs, b, a))
    BY <1>1 DEF Read, EndOf
  <2> HIDE DEF p, f, hs, b
  <2>2. Found(p, f, hs, b, a)
    BY ONLY <2>1, PartsAre
  <2> QED
    BY <2>2 DEF Found, EndOf, Taken, hs, b
<1>6. LengthsValid(t)
      /\ ContentLength(t) = IF LengthPlace(m) \in 1 .. TakenOf(HeadersOf(m)) THEN m.body ELSE 0
  BY LengthsAre DEF WithinLimits
<1> DEFINE n == IF m.kind = "request" /\ m.method # "POST" THEN 0 ELSE ContentLength(t)
<1>7. n = Due(m) /\ n \in Nat
  BY <1>2, <1>6 DEF Due
<1>8. D # << >> /\ HasHeaderEnd(D)
  <2> HIDE DEF D, c
  <2> QED
    BY <1>2, <1>3, <1>4 DEF HasHeaderEnd
<1>9. ReadIn(m, D) = ParseBody(p, n)
  <2>1. CASE m.kind = "request"
    <3>1. f.method = m.method /\ f.path = "short" /\ ReadIn(m, D) = ParseRequest(D)
      BY <2>1 DEF FirstOf, WithinLimits, ReadIn
    <3>2. ~(p.line_end = 0 \/ p.first.path = "long" \/ ~LengthsValid(p.hs))
      <4> HIDE DEF p, f, t
      <4> QED
        BY <1>5, <1>6, <3>1
    <3>3. ParseRequest(D) = ParseBody(p, IF p.first.method = "POST" THEN ContentLength(p.hs) ELSE 0)
      <4> HIDE DEF D
      <4> QED
        BY <1>8, <3>2 DEF ParseRequest
    <3>4. (IF p.first.method = "POST" THEN ContentLength(p.hs) ELSE 0) = n
      <4> HIDE DEF p, f, t
      <4> QED
        BY <1>5, <2>1, <3>1
    <3> QED
      BY <3>1, <3>3, <3>4
  <2>2. CASE m.kind = "response"
    <3>1. ReadIn(m, D) = ParseResponse(D)
      BY <2>2 DEF ReadIn
    <3>2. ~(p.line_end = 0 \/ ~LengthsValid(p.hs))
      <4> HIDE DEF p, t
      <4> QED
        BY <1>5, <1>6
    <3>3. ParseResponse(D) = ParseBody(p, ContentLength(p.hs))
      <4> HIDE DEF D
      <4> QED
        BY <1>8, <3>2 DEF ParseResponse
    <3>4. ContentLength(p.hs) = n
      <4> HIDE DEF p, t
      <4> QED
        BY <1>5, <2>2
    <3> QED
      BY <3>1, <3>3, <3>4
  <2> QED
    BY <1>2, <2>1, <2>2
<1>10. ASSUME ~(a - c < n) PROVE SubSeq(p.rest, 1, n) = Body(n)
  <2> HIDE DEF p, c, P, n
  <2>1. /\ SubSeq(p.rest, 1, n) \in Seq(P) /\ Len(SubSeq(p.rest, 1, n)) = n
        /\ \A i \in 1 .. n : SubSeq(p.rest, 1, n)[i] = p.rest[i]
    BY <1>2, <1>5, <1>7, <1>10
  <2>2. \A i \in 1 .. n : SubSeq(p.rest, 1, n)[i] = Byte(i)
    BY <1>2, <1>5, <1>7, <1>10, <2>1
  <2>3. SubSeq(p.rest, 1, n) = [i \in 1 .. n |-> SubSeq(p.rest, 1, n)[i]]
    BY <2>1
  <2> QED
    BY <2>2, <2>3 DEF Body
<1>11. ParseBody(p, n) = IF a - c < n THEN Verdict("INCOMPLETE") ELSE Parsed(f, t, Body(n))
  <2> HIDE DEF p, f, t, c, n
  <2> QED
    BY <1>5, <1>10 DEF ParseBody
<1> HIDE DEF n
<1> QED
  BY <1>7, <1>9, <1>11

(* The text that has come in, and the whole text. *)
HttpInv == message \in Messages /\ arrived \in 0 .. (EndOf(message) + message.body)

LEMMA WholeText ==
  ASSUME NEW m \in Messages
  PROVE  /\ EndOf(m) \in Nat /\ EndOf(m) >= 5 /\ m.body \in Nat
         /\ Len(Build(m)) = EndOf(m) + m.body
         /\ \A a \in 1 .. (EndOf(m) + m.body) : SubSeq(Build(m), 1, a) = Read(m, a)
         /\ Build(m) = Read(m, EndOf(m) + m.body)
         /\ FindSequence(Build(m), <<CRLF, CRLF>>) = EndOf(m) - 1
<1> DEFINE f == FirstOf(m)
           hs == HeadersOf(m)
           b == m.body
           N == EndOf(m) + b
           T == Build(m)
<1>1. /\ T = TextOf(f, hs, b) /\ \A a \in 1 .. N : PlaceIn(f, hs, b, a)
  BY TextOfMessage DEF EndOf
<1>2. Len(hs) \in Nat /\ Len(hs) >= 1 /\ b \in Nat
  <2>1. /\ Len(m.headers) \in Nat
        /\ \/ Len(hs) = Len(m.headers) + 1
           \/ Len(hs) = Len(m.headers) + 3
    BY HeadersAre
  <2> QED
    BY <2>1, MessageParts
<1>3. EndOf(m) \in Nat /\ EndOf(m) >= 5 /\ N \in 1 .. N /\ EndOf(m) = 2 * Len(hs) + 3
  BY <1>2 DEF EndOf
<1>4. PlaceIn(f, hs, b, N)
  BY <1>1, <1>3
<1> HIDE DEF f, hs, b, N, T
<1>5. T \in Seq(PartsOf(f, hs, b)) /\ Len(T) = N
  BY <1>1, <1>3, <1>4, BegunIs DEF N
<1>6. SubSeq(T, 1, N) = T
  BY <1>5
<1>7. \A a \in 1 .. N : SubSeq(T, 1, a) = Read(m, a)
  BY <1>1 DEF Read, Begun, f, hs, b
<1>8. T = Read(m, N)
  BY <1>3, <1>6, <1>7
<1>9. FindSequence(T, <<CRLF, CRLF>>) = 2 * Len(hs) + 2
  <2>1. N >= 2 * Len(hs) + 3
    BY <1>2, <1>3 DEF N
  <2>2. T = Begun(f, hs, b, N)
    BY <1>8 DEF Read, f, hs, b
  <2> QED
    BY <1>4, <2>1, <2>2, HeaderEndAt
<1>10. FindSequence(T, <<CRLF, CRLF>>) = EndOf(m) - 1
  BY <1>2, <1>3, <1>9
<1> QED
  BY <1>2, <1>3, <1>5, <1>7, <1>8, <1>10 DEF N, T, b

LEMMA HttpInitInv == HInit => HttpInv
<1> SUFFICES ASSUME HInit PROVE HttpInv
  OBVIOUS
<1>1. message \in Messages /\ arrived = 0
  BY DEF HInit, Messages
<1> QED
  BY <1>1, WholeText DEF HttpInv

LEMMA HttpNextInv == HttpInv /\ [HNext]_hvars => HttpInv'
<1> SUFFICES ASSUME HttpInv, [HNext]_hvars PROVE HttpInv'
  OBVIOUS
<1>1. Len(Build(message)) = EndOf(message) + message.body /\ EndOf(message) + message.body \in Nat
  BY WholeText DEF HttpInv
<1>2. ASSUME NEW n \in 1 .. Len(Build(message)), Arrive(n) PROVE HttpInv'
  BY <1>1, <1>2 DEF HttpInv, Arrive
<1>3. CASE UNCHANGED hvars
  BY <1>3 DEF HttpInv, hvars
<1> QED
  BY <1>2, <1>3 DEF HNext

(* What the properties say of the message, in the terms above. *)
LEMMA FitsIs ==
  ASSUME HttpInv, Fits
  PROVE  WithinLimits(message)
<1>1. FindSequence(Text, <<CRLF, CRLF>>) = EndOf(message) - 1 /\ EndOf(message) \in Nat
  BY WholeText DEF HttpInv, Text
<1> QED
  BY <1>1 DEF Fits, WithinLimits

(***************************************************************************)
(* uhttp_parse_request and uhttp_parse_response, given a message within    *)
(* the limits piece by piece, never refuse a beginning of it, and once     *)
(* they have read it as a whole they read the same however much has come.  *)
(***************************************************************************)
THEOREM PiecesDoNotMatter == HSpec => []WaitsForTheRest
<1>1. HttpInv => WaitsForTheRest
  <2> SUFFICES ASSUME HttpInv, Fits, arrived > 0
               PROVE  /\ Parse(SoFar).verdict # "ERROR"
                      /\ Parse(SoFar).verdict = "OK" => Parse(SoFar) = Parse(Text)
    BY DEF WaitsForTheRest
  <2> DEFINE m == message
             c == EndOf(m)
             N == c + m.body
             a == arrived
             n == Due(m)
             whole == Parsed(FirstOf(m), Taken(m), Body(n))
  <2>1. m \in Messages /\ WithinLimits(m)
    BY FitsIs DEF HttpInv
  <2>2. c \in Nat /\ c >= 5 /\ m.body \in Nat /\ a \in 1 .. N /\ N \in 1 .. N /\ N >= c
    BY <2>1, WholeText DEF HttpInv
  <2>3. Parse(SoFar) = ReadIn(m, Read(m, a)) /\ Parse(Text) = ReadIn(m, Read(m, N))
    <3>1. SoFar = Read(m, a) /\ Text = Read(m, N)
      BY <2>1, <2>2, WholeText DEF SoFar, Text
    <3> QED
      BY <3>1 DEF Parse, ReadIn
  <2>4. n \in 0 .. m.body
    BY <2>2 DEF Due
  <2>5. Verdict("INCOMPLETE").verdict = "INCOMPLETE" /\ whole.verdict = "OK"
    BY DEF Verdict, Parsed
  <2>6. a < c => ReadIn(m, Read(m, a)) = Verdict("INCOMPLETE")
    BY <2>1, <2>2, HeaderIsAwaited
  <2>7. a >= c => ReadIn(m, Read(m, a)) = IF a - c < n THEN Verdict("INCOMPLETE") ELSE whole
    BY <2>1, <2>2, BodyIsAwaited
  <2>8. ReadIn(m, Read(m, N)) = IF N - c < n THEN Verdict("INCOMPLETE") ELSE whole
    BY <2>1, <2>2, BodyIsAwaited
  <2>9. ~(N - c < n)
    BY <2>2, <2>4
  <2> HIDE DEF whole, m, c, N, a, n
  <2>10. a \in Nat
    BY <2>2
  <2> QED
    BY <2>2, <2>3, <2>5, <2>6, <2>7, <2>8, <2>9, <2>10
<1> QED
  BY <1>1, HttpInitInv, HttpNextInv, PTL DEF HSpec

(***************************************************************************)
(* What uhttp_build_request and uhttp_build_response put together comes    *)
(* out of the parsers: the body of a response or a POST request with a     *)
(* header besides its length, and the headers but the last.                *)
(***************************************************************************)
THEOREM WhatIsBuiltIsRead == HSpec => []RoundTrip
<1>1. HttpInv => RoundTrip
  <2> DEFINE m == message
             hs == HeadersOf(m)
             k == Len(hs)
             n == Due(m)
             t == Taken(m)
             N == EndOf(m) + m.body
             whole == Parsed(FirstOf(m), t, Body(n))
  <2> SUFFICES ASSUME HttpInv, Fits, m.kind = "response" \/ m.headers # << >>
               PROVE  /\ Parse(Text).verdict = "OK"
                      /\ m.kind = "response" \/ m.method = "POST" => Parse(Text).body = Body(m.body)
                      /\ IsPrefix(Parse(Text).headers, Front(hs))
                      /\ Len(Parse(Text).headers) = TakenOf(hs)
    BY DEF RoundTrip, HeadersOf, TakenOf
  <2>1. m \in Messages /\ WithinLimits(m) /\ m.kind \in {"request", "response"}
    BY FitsIs, MessageParts DEF HttpInv
  <2>2. EndOf(m) \in Nat /\ EndOf(m) >= 5 /\ m.body \in Nat /\ N \in 1 .. N /\ N >= EndOf(m)
        /\ N - EndOf(m) = m.body
    BY <2>1, WholeText
  <2>3. n \in 0 .. m.body
    BY <2>2 DEF Due
  <2>4. Parse(Text) = whole
    <3>1. Text = Read(m, N)
      BY <2>1, WholeText DEF Text
    <3>2. ReadIn(m, Read(m, N)) = IF N - EndOf(m) < n THEN Verdict("INCOMPLETE") ELSE whole
      BY <2>1, <2>2, BodyIsAwaited
    <3>3. ~(N - EndOf(m) < n)
      BY <2>2, <2>3
    <3> QED
      BY <3>1, <3>2, <3>3 DEF Parse, ReadIn
  <2>5. whole.verdict = "OK" /\ whole.headers = t /\ whole.body = Body(n)
    BY DEF Parsed
  <2>6. /\ hs \in Seq(Fields) /\ k \in Nat
        /\ m.kind = "request" => k >= 2 /\ LengthPlace(m) = 1
        /\ m.kind = "response" => k >= 3 /\ LengthPlace(m) = 2
    <3>1. Len(m.headers) \in Nat /\ (m.headers = << >> <=> Len(m.headers) = 0)
      BY <2>1, MessageParts, ExtrasAre
    <3>2. hs \in Seq(Fields) /\ k = Len(m.headers) + (IF m.kind = "request" THEN 1 ELSE 3)
      BY <2>1, HeadersAre
    <3>3. m.kind = "request" => Len(m.headers) # 0
      BY <3>1
    <3>4. m.kind = "request" => k >= 2
      <4> SUFFICES ASSUME m.kind = "request" PROVE k >= 2
        OBVIOUS
      <4>1. k = Len(m.headers) + 1 /\ Len(m.headers) # 0
        BY <3>2, <3>3
      <4> HIDE DEF k, m
      <4> QED
        BY <3>1, <4>1
    <3>5. m.kind = "response" => k >= 3
      <4> SUFFICES ASSUME m.kind = "response" PROVE k >= 3
        OBVIOUS
      <4>1. k = Len(m.headers) + 3
        BY <3>2
      <4> HIDE DEF k, m
      <4> QED
        BY <3>1, <4>1
    <3>6. k \in Nat
      <4>1. hs \in Seq(Fields)
        BY <3>2
      <4> HIDE DEF hs
      <4> QED
        BY <4>1
    <3> QED
      BY <3>2, <3>4, <3>5, <3>6 DEF LengthPlace
  <2>7. TakenOf(hs) \in Nat /\ TakenOf(hs) <= k - 1 /\ LengthPlace(m) \in 1 .. TakenOf(hs)
    <3> HIDE DEF hs
    <3> QED
      BY <2>1, <2>6, HttpAssumption DEF TakenOf
  <2>8. m.kind = "response" \/ m.method = "POST" => n = m.body
    BY <2>7 DEF Due
  <2>9. t \in Seq(Fields) /\ Len(t) = TakenOf(hs) /\ \A l \in 1 .. TakenOf(hs) : t[l] = hs[l]
    <3>1. t = [l \in 1 .. TakenOf(hs) |-> hs[l]]
      BY DEF Taken
    <3> HIDE DEF hs, t
    <3>2. \A l \in 1 .. TakenOf(hs) : hs[l] \in Fields
      BY <2>6, <2>7
    <3>3. t \in [1 .. TakenOf(hs) -> Fields]
      BY <3>1, <3>2
    <3> QED
      BY <2>7, <3>1, <3>3
  <2>10. /\ Front(hs) \in Seq(Fields) /\ Len(Front(hs)) = k - 1
         /\ \A l \in 1 .. (k - 1) : Front(hs)[l] = hs[l]
    <3> HIDE DEF hs
    <3>1. /\ SubSeq(hs, 1, k - 1) \in Seq(Fields) /\ Len(SubSeq(hs, 1, k - 1)) = k - 1
          /\ \A l \in 1 .. (k - 1) : SubSeq(hs, 1, k - 1)[l] = hs[l]
      BY <2>1, <2>6
    <3> QED
      BY <3>1 DEF Front
  <2> HIDE DEF hs, t, whole
  <2>11. IsPrefix(t, Front(hs))
    <3>1. IsPrefix(t, Front(hs))
            <=> Len(t) <= Len(Front(hs)) /\ \A l \in 1 .. Len(t) : t[l] = Front(hs)[l]
      BY <2>9, <2>10, PrefixIs
    <3>2. Len(t) <= Len(Front(hs))
      BY <2>7, <2>9, <2>10
    <3>3. \A l \in 1 .. TakenOf(hs) : l \in 1 .. (k - 1)
      BY <2>6, <2>7
    <3> QED
      BY <2>9, <2>10, <3>1, <3>2, <3>3
  <2> QED
    BY <2>4, <2>5, <2>8, <2>9, <2>11
<1> QED
  BY <1>1, HttpInitInv, HttpNextInv, PTL DEF HSpec
=============================================================================
