-------------------------- MODULE E2eeSessionProofs --------------------------
(* Theorems about E2eeSession, for any number of sessions and messages and *)
(* for any order of the calls.                                             *)
EXTENDS E2eeSession, Integers, TLAPS

Directions == {"none", "to server", "to client"}
Keys == Nat \X Nat \X Directions
Sealings == Keys \X Nat
Conns == [hstate : {"ended", "NOT_HANDSHAKED", "HANDSHAKE_SENT", "HANDSHAKE_ENDED"},
          kp : Nat, peer : Nat, skeys : [rx : Keys, tx : Keys],
          tx_nonce : Nat, rx_nonce : Nat]
Messages == [type : {"handshake"}, signer : Sides, pub : Nat]
              \cup [type : {"ciphertext"}, key : Keys, nonce : Nat]

TypeOK ==
  /\ over \in {"rudp", "udp"} /\ usage \in {"example", "any"}
  /\ conn \in [Sides -> Conns]
  /\ drawn \in Nat
  /\ mail \in [Sides -> Seq(Messages)]
  /\ sealed \in [Sides -> Seq(Sealings)]
  /\ opened \in [Sides -> Seq(Sealings)]

(* There are two peers, each the other's. *)
LEMMA PeerProperties ==
  ASSUME NEW s \in Sides
  PROVE  /\ Peer(s) \in Sides /\ Peer(s) # s /\ Peer(Peer(s)) = s
         /\ \A o \in Sides : o = s \/ o = Peer(s)
         /\ HsAs(Peer(s)) <=> ~HsAs(s)
<1>1. PICK a, b \in Sides : a # b /\ Sides = {a, b}
  BY SidesAssumption
<1>2. Peer(s) \in Sides /\ Peer(s) # s
  BY <1>1 DEF Peer
<1>3. Peer(Peer(s)) \in Sides /\ Peer(Peer(s)) # Peer(s)
  BY <1>1, <1>2 DEF Peer
<1>4. s \in Nat /\ Peer(s) \in Nat
  BY <1>2, SidesAssumption
<1> QED
  BY <1>1, <1>2, <1>3, <1>4 DEF HsAs

-----------------------------------------------------------------------------
(* Sequences. *)

(* A sequence with an element more. *)
LEMMA AppendElements ==
  ASSUME NEW S, NEW q \in Seq(S), NEW e \in S
  PROVE  /\ Append(q, e) \in Seq(S)
         /\ DOMAIN Append(q, e) = DOMAIN q \cup {Len(q) + 1}
         /\ Len(q) + 1 \notin DOMAIN q
         /\ \A i \in DOMAIN q : Append(q, e)[i] = q[i] /\ q[i] \in S /\ i \in Nat /\ i <= Len(q)
         /\ Append(q, e)[Len(q) + 1] = e
         /\ ToSet(Append(q, e)) = ToSet(q) \cup {e}
<1>1. /\ DOMAIN q = 1 .. Len(q) /\ Len(q) \in Nat
      /\ DOMAIN Append(q, e) = 1 .. (Len(q) + 1)
      /\ \A i \in 1 .. Len(q) : Append(q, e)[i] = q[i] /\ q[i] \in S
      /\ Append(q, e)[Len(q) + 1] = e /\ Append(q, e) \in Seq(S)
  OBVIOUS
<1>2. DOMAIN Append(q, e) = DOMAIN q \cup {Len(q) + 1}
  BY <1>1
<1>3. ToSet(Append(q, e)) = ToSet(q) \cup {e}
  BY <1>1, <1>2 DEF ToSet
<1> QED
  BY <1>1, <1>2, <1>3

(* A sequence without its first element. *)
LEMMA TailElements ==
  ASSUME NEW S, NEW q \in Seq(S), q # << >>
  PROVE  /\ Tail(q) \in Seq(S) /\ Head(q) \in S
         /\ Head(q) \in ToSet(q) /\ ToSet(Tail(q)) \subseteq ToSet(q)
<1>1. /\ Tail(q) \in Seq(S) /\ Len(q) \in Nat \ {0} /\ Head(q) = q[1]
      /\ DOMAIN q = 1 .. Len(q) /\ DOMAIN Tail(q) = 1 .. (Len(q) - 1)
      /\ \A i \in 1 .. (Len(q) - 1) : Tail(q)[i] = q[i + 1]
      /\ q[1] \in S
  OBVIOUS
<1>2. \A i \in 1 .. (Len(q) - 1) : i + 1 \in 1 .. Len(q)
  BY <1>1
<1> QED
  BY <1>1, <1>2 DEF ToSet

-----------------------------------------------------------------------------
(* Types. *)

(* crypto_handshake_* yields keys. *)
LEMMA KeysTyped ==
  ASSUME TypeOK, NEW s \in Sides, NEW pub \in Nat
  PROVE  SessionKeys(s, pub) \in [rx : Keys, tx : Keys]
BY DEF TypeOK, Conns, SessionKeys, ServerKeys, ClientKeys, Keys, Directions

(* e2ee_conn_end leaves a connection. *)
LEMMA ZeroedTyped == Zeroed \in Conns
BY DEF Zeroed, NoKeys, Conns, Keys, Directions

-----------------------------------------------------------------------------
(* What the steps do to the connection of one peer. *)

Changed(s) == conn' \in [Sides -> Conns] /\ \A o \in Sides : o # s => conn'[o] = conn[o]

(* What e2ee_conn_init does to a connection. *)
LEMMA ConnInitEffect ==
  ASSUME TypeOK, NEW s \in Sides, ConnInit(s)
  PROVE  /\ Changed(s)
         /\ conn'[s].hstate = "NOT_HANDSHAKED" /\ conn'[s].kp = drawn + 1
         /\ conn'[s].tx_nonce = 0 /\ conn'[s].rx_nonce = 0
<1> DEFINE c == [conn[s] EXCEPT !.hstate = "NOT_HANDSHAKED", !.kp = drawn + 1, !.peer = 0,
                                !.tx_nonce = 0, !.rx_nonce = 0]
<1>1. conn[s] \in Conns /\ conn \in [Sides -> Conns] /\ drawn + 1 \in Nat
  BY DEF TypeOK
<1>2. /\ c \in Conns /\ c.hstate = "NOT_HANDSHAKED" /\ c.kp = drawn + 1
      /\ c.tx_nonce = 0 /\ c.rx_nonce = 0
  BY <1>1 DEF Conns
<1>3. conn' = [conn EXCEPT ![s] = c]
  <2>1. conn' = [conn EXCEPT ![s].hstate = "NOT_HANDSHAKED", ![s].kp = drawn + 1, ![s].peer = 0,
                             ![s].tx_nonce = 0, ![s].rx_nonce = 0]
    BY DEF ConnInit, MakeKeypair
  <2> QED
    BY <1>1, <2>1
<1> HIDE DEF c
<1>4. conn'[s] = c
  BY <1>1, <1>3
<1> QED
  BY <1>1, <1>2, <1>3, <1>4 DEF Changed

(* What e2ee_conn_handshake_init does. *)
LEMMA HandshakeInitEffect ==
  ASSUME TypeOK, NEW s \in Sides, HandshakeInit(s)
  PROVE  /\ Changed(s)
         /\ conn[s].hstate # "ended" /\ conn'[s].hstate = "HANDSHAKE_SENT"
         /\ conn'[s].kp = conn[s].kp
         /\ conn'[s].tx_nonce = conn[s].tx_nonce /\ conn'[s].rx_nonce = conn[s].rx_nonce
<1> DEFINE c == [conn[s] EXCEPT !.hstate = "HANDSHAKE_SENT"]
<1>1. conn[s] \in Conns /\ conn \in [Sides -> Conns]
  BY DEF TypeOK
<1>2. /\ c \in Conns /\ c.hstate = "HANDSHAKE_SENT" /\ c.kp = conn[s].kp
      /\ c.tx_nonce = conn[s].tx_nonce /\ c.rx_nonce = conn[s].rx_nonce
  BY <1>1 DEF Conns
<1>3. conn' = [conn EXCEPT ![s] = c] /\ conn[s].hstate # "ended"
  BY <1>1 DEF HandshakeInit, CalledIn
<1> HIDE DEF c
<1>4. conn'[s] = c
  BY <1>1, <1>3
<1> QED
  BY <1>1, <1>2, <1>3, <1>4 DEF Changed

(* The message is the other peer's handshake, or nothing changes. *)
LEMMA HandshakeRespEffect ==
  ASSUME TypeOK, NEW s \in Sides, NEW m \in Messages, HandshakeResp(s, m), conn' # conn
  PROVE  /\ Changed(s) /\ m.pub \in Nat
         /\ conn[s].hstate # "ended" /\ conn'[s].hstate = "HANDSHAKE_ENDED"
         /\ conn'[s].peer = m.pub /\ conn'[s].skeys = SessionKeys(s, m.pub)
         /\ conn'[s].kp = conn[s].kp
         /\ conn'[s].tx_nonce = conn[s].tx_nonce /\ conn'[s].rx_nonce = conn[s].rx_nonce
<1> DEFINE c == [conn[s] EXCEPT !.skeys = SessionKeys(s, m.pub), !.peer = m.pub,
                                !.hstate = "HANDSHAKE_ENDED"]
<1>1. conn[s] \in Conns /\ conn \in [Sides -> Conns]
  BY DEF TypeOK
<1>2. m.type = "handshake" /\ m.signer = Peer(s) /\ conn[s].hstate # "ended"
  BY DEF HandshakeResp, CalledIn
<1>3. m.pub \in Nat
  BY <1>2 DEF Messages
<1>4. SessionKeys(s, m.pub) \in [rx : Keys, tx : Keys]
  BY <1>3, KeysTyped
<1>5. /\ c \in Conns /\ c.hstate = "HANDSHAKE_ENDED" /\ c.kp = conn[s].kp
      /\ c.peer = m.pub /\ c.skeys = SessionKeys(s, m.pub)
      /\ c.tx_nonce = conn[s].tx_nonce /\ c.rx_nonce = conn[s].rx_nonce
  BY <1>1, <1>3, <1>4 DEF Conns
<1>6. conn' = [conn EXCEPT ![s] = c]
  <2>1. conn' = [conn EXCEPT ![s].skeys = SessionKeys(s, m.pub), ![s].peer = m.pub,
                             ![s].hstate = "HANDSHAKE_ENDED"]
    BY <1>2 DEF HandshakeResp
  <2> QED
    BY <1>1, <2>1
<1> HIDE DEF c
<1>7. conn'[s] = c
  BY <1>1, <1>6
<1> QED
  BY <1>1, <1>2, <1>3, <1>5, <1>6, <1>7 DEF Changed

(* What crypto_encrypt does. *)
LEMMA EncryptEffect ==
  ASSUME TypeOK, NEW s \in Sides, Encrypt(s)
  PROVE  /\ Changed(s)
         /\ conn[s].hstate = "HANDSHAKE_ENDED" /\ conn'[s].hstate = "HANDSHAKE_ENDED"
         /\ conn'[s].kp = conn[s].kp /\ conn'[s].peer = conn[s].peer
         /\ conn'[s].skeys = conn[s].skeys
         /\ conn'[s].tx_nonce = conn[s].tx_nonce + 1 /\ conn'[s].rx_nonce = conn[s].rx_nonce
<1> DEFINE c == [conn[s] EXCEPT !.tx_nonce = @ + 1]
<1>1. conn[s] \in Conns /\ conn \in [Sides -> Conns]
  BY DEF TypeOK
<1>2. /\ c \in Conns /\ c.hstate = conn[s].hstate /\ c.kp = conn[s].kp
      /\ c.peer = conn[s].peer /\ c.skeys = conn[s].skeys
      /\ c.tx_nonce = conn[s].tx_nonce + 1 /\ c.rx_nonce = conn[s].rx_nonce
  BY <1>1 DEF Conns
<1>3. conn' = [conn EXCEPT ![s] = c] /\ conn[s].hstate = "HANDSHAKE_ENDED"
  BY <1>1 DEF Encrypt
<1> HIDE DEF c
<1>4. conn'[s] = c
  BY <1>1, <1>3
<1> QED
  BY <1>1, <1>2, <1>3, <1>4 DEF Changed

(* What crypto_decrypt does. *)
LEMMA DecryptEffect ==
  ASSUME TypeOK, NEW s \in Sides, NEW m, Decrypt(s, m)
  PROVE  /\ Changed(s)
         /\ conn[s].hstate # "ended" /\ conn'[s].hstate = conn[s].hstate
         /\ conn'[s].kp = conn[s].kp /\ conn'[s].peer = conn[s].peer
         /\ conn'[s].skeys = conn[s].skeys
         /\ conn'[s].tx_nonce = conn[s].tx_nonce
         /\ conn'[s].rx_nonce = IF Opens(conn[s], m) THEN conn[s].rx_nonce + 1 ELSE conn[s].rx_nonce
<1> DEFINE c == [conn[s] EXCEPT !.rx_nonce = NextNonce(conn[s], m)]
<1>1. conn[s] \in Conns /\ conn \in [Sides -> Conns]
  BY DEF TypeOK
<1>2. NextNonce(conn[s], m) \in Nat
  BY <1>1 DEF NextNonce, Conns
<1>3. /\ c \in Conns /\ c.hstate = conn[s].hstate /\ c.kp = conn[s].kp
      /\ c.peer = conn[s].peer /\ c.skeys = conn[s].skeys
      /\ c.tx_nonce = conn[s].tx_nonce /\ c.rx_nonce = NextNonce(conn[s], m)
  BY <1>1, <1>2 DEF Conns
<1>4. conn' = [conn EXCEPT ![s] = c] /\ conn[s].hstate # "ended"
  BY <1>1 DEF Decrypt, CalledIn
<1> HIDE DEF c
<1>5. conn'[s] = c
  BY <1>1, <1>4
<1> QED
  BY <1>1, <1>3, <1>4, <1>5 DEF Changed, NextNonce

(* What a send does to the mail. *)
LEMMA SendsEffect ==
  ASSUME TypeOK, NEW s \in Sides, NEW m \in Messages, Sends(s, m)
  PROVE  /\ mail' \in [Sides -> Seq(Messages)]
         /\ \A o \in Sides : ToSet(mail'[o]) =
              IF o = Peer(s) THEN ToSet(mail[o]) \cup {m} ELSE ToSet(mail[o])
<1>1. Peer(s) \in Sides
  BY PeerProperties
<1>2. /\ Append(mail[Peer(s)], m) \in Seq(Messages)
      /\ ToSet(Append(mail[Peer(s)], m)) = ToSet(mail[Peer(s)]) \cup {m}
  BY <1>1, AppendElements DEF TypeOK
<1> QED
  BY <1>1, <1>2 DEF Sends, TypeOK

(* What a receipt does to the mail. *)
LEMMA ReceivesEffect ==
  ASSUME TypeOK, NEW s \in Sides, NEW m, Receives(s, m)
  PROVE  /\ m \in Messages /\ m \in ToSet(mail[s])
         /\ mail' \in [Sides -> Seq(Messages)]
         /\ \A o \in Sides : ToSet(mail'[o]) \subseteq ToSet(mail[o])
<1>1. mail \in [Sides -> Seq(Messages)] /\ mail[s] # << >> /\ m = Head(mail[s])
  BY DEF TypeOK, Receives
<1>2. /\ Tail(mail[s]) \in Seq(Messages) /\ m \in Messages
      /\ m \in ToSet(mail[s]) /\ ToSet(Tail(mail[s])) \subseteq ToSet(mail[s])
  BY <1>1, TailElements
<1>3. mail' = mail \/ mail' = [mail EXCEPT ![s] = Tail(mail[s])]
  BY DEF Receives
<1> QED
  BY <1>1, <1>2, <1>3

(* Every step keeps the types. *)
LEMMA TypeStep == TypeOK /\ [ENext]_evars => TypeOK'
<1> SUFFICES ASSUME TypeOK, [ENext]_evars PROVE TypeOK'
  OBVIOUS
<1>0. conn \in [Sides -> Conns]
  BY DEF TypeOK
<1>1. ASSUME NEW s \in Sides, ConnInit(s) PROVE TypeOK'
  <2>1. conn' \in [Sides -> Conns]
    BY <1>1, ConnInitEffect DEF Changed
  <2>2. drawn' = drawn + 1 /\ UNCHANGED <<over, usage, mail, sealed, opened>>
    BY <1>1 DEF ConnInit
  <2> QED
    BY <2>1, <2>2 DEF TypeOK
<1>2. ASSUME NEW s \in Sides, ConnEnd(s) PROVE TypeOK'
  BY <1>2, ZeroedTyped DEF ConnEnd, TypeOK
<1>3. ASSUME NEW s \in Sides, HandshakeInit(s) PROVE TypeOK'
  <2>1. Handshake(s, conn[s].kp) \in Messages
    BY <1>0 DEF Conns, Handshake, Messages
  <2>2. mail' \in [Sides -> Seq(Messages)]
    BY <1>3, <2>1, SendsEffect DEF HandshakeInit
  <2> QED
    BY <1>3, <2>2, HandshakeInitEffect DEF HandshakeInit, Changed, TypeOK
<1>4. ASSUME NEW s \in Sides, NEW m, HandshakeResp(s, m) PROVE TypeOK'
  <2>1. m \in Messages /\ mail' \in [Sides -> Seq(Messages)]
    BY <1>4, ReceivesEffect DEF HandshakeResp
  <2> QED
    BY <1>0, <1>4, <2>1, HandshakeRespEffect DEF HandshakeResp, Changed, TypeOK
<1>5. ASSUME NEW s \in Sides, Encrypt(s) PROVE TypeOK'
  <2>1. /\ Ciphertext(conn[s].skeys.tx, conn[s].tx_nonce) \in Messages
        /\ <<conn[s].skeys.tx, conn[s].tx_nonce>> \in Sealings
    BY <1>0 DEF Conns, Ciphertext, Messages, Sealings
  <2>2. mail' \in [Sides -> Seq(Messages)]
    BY <1>5, <2>1, SendsEffect DEF Encrypt, SealNonce
  <2>3. sealed' \in [Sides -> Seq(Sealings)]
    BY <1>5, <2>1, AppendElements DEF Encrypt, SealNonce, TypeOK
  <2> QED
    BY <1>5, <2>2, <2>3, EncryptEffect DEF Encrypt, Changed, TypeOK
<1>6. ASSUME NEW s \in Sides, NEW m, Decrypt(s, m) PROVE TypeOK'
  <2>1. m \in Messages /\ mail' \in [Sides -> Seq(Messages)]
    BY <1>6, ReceivesEffect DEF Decrypt
  <2>2. opened' \in [Sides -> Seq(Sealings)]
    <3>1. Opens(conn[s], m) => <<m.key, m.nonce>> \in Sealings
      BY <2>1 DEF Opens, Messages, Sealings
    <3> QED
      BY <1>6, <3>1, AppendElements DEF Decrypt, TypeOK
  <2> QED
    BY <1>6, <2>1, <2>2, DecryptEffect DEF Decrypt, Changed, TypeOK
<1>7. ASSUME NEW s \in Sides, NEW m, LoseMessage(s, m) PROVE TypeOK'
  BY <1>7, ReceivesEffect DEF LoseMessage, TypeOK
<1>8. CASE UNCHANGED evars
  BY <1>8 DEF evars, TypeOK
<1> QED
  BY <1>1, <1>2, <1>3, <1>4, <1>5, <1>6, <1>7, <1>8 DEF ENext, Handles
-----------------------------------------------------------------------------
(***************************************************************************)
(* The inductive invariant.  A keypair belongs to the session it was drawn *)
(* for.  Whatever keys a peer makes of it, it counts through: the nonces   *)
(* it has used with the keypair are those below its counter, each once and *)
(* in order, and it uses the keypair in no session to come.  What is       *)
(* decrypted, and what is on its way, was encrypted.                       *)
(***************************************************************************)
Ready(c) == c.hstate = "HANDSHAKE_ENDED"
Live(c)  == c.hstate # "ended"

(* The direction in which s encrypts. *)
Sealing(s) == IF HsAs(s) THEN "to client" ELSE "to server"

(* The nonces s has used with its keypair kp in its first n messages. *)
Nonces(h, s, kp, n) == {h[j][2] : j \in {l \in 1 .. n : OwnKeypair(s, h[l][1]) = kp}}

(* What s, with connection c, has done in a direction, and its counter. *)
History(h, s, c, d, dir, count) ==
  /\ \A i \in DOMAIN h :
       /\ h[i][1][3] = dir
       /\ OwnKeypair(s, h[i][1]) <= d
       /\ Nonces(h, s, OwnKeypair(s, h[i][1]), i - 1) = 0 .. (h[i][2] - 1)
  /\ Live(c) => Nonces(h, s, c.kp, Len(h)) = 0 .. (count - 1)

Sealed(s) == History(sealed[s], s, conn[s], drawn, Sealing(s), conn[s].tx_nonce)
Opened(s) == History(opened[s], s, conn[s], drawn, Sealing(Peer(s)), conn[s].rx_nonce)

Session(s) ==
  /\ Live(conn[s]) => conn[s].kp <= drawn
  /\ Ready(conn[s]) => conn[s].skeys = SessionKeys(s, conn[s].peer)

OnTheWay(s) ==
  \A m \in ToSet(mail[s]) : m.type = "ciphertext" => <<m.key, m.nonce>> \in ToSet(sealed[Peer(s)])

Inv ==
  /\ TypeOK
  /\ \A s \in Sides : Session(s) /\ Sealed(s) /\ Opened(s) /\ OnTheWay(s)
                       /\ ToSet(opened[s]) \subseteq ToSet(sealed[Peer(s)])
-----------------------------------------------------------------------------
(* Histories. *)

(* Of its own keypair a peer has the number. *)
LEMMA OwnTyped ==
  ASSUME NEW s \in Sides, NEW key \in Keys
  PROVE  OwnKeypair(s, key) \in Nat
BY DEF OwnKeypair, Keys

(* What the peer did stays true, if it goes on with its session or ends it. *)
LEMMA HistoryKept ==
  ASSUME NEW h \in Seq(Sealings), NEW s \in Sides, NEW c, NEW d \in Nat, NEW dir, NEW count,
         History(h, s, c, d, dir, count),
         NEW c2, NEW d2 \in Nat, d <= d2, NEW count2,
         Live(c2) => Live(c) /\ c2.kp = c.kp /\ count2 = count
  PROVE  History(h, s, c2, d2, dir, count2)
<1>1. \A i \in DOMAIN h : OwnKeypair(s, h[i][1]) <= d2
  <2>1. ASSUME NEW i \in DOMAIN h PROVE OwnKeypair(s, h[i][1]) <= d2
    <3>1. OwnKeypair(s, h[i][1]) <= d
      BY DEF History
    <3>2. OwnKeypair(s, h[i][1]) \in Nat
      BY OwnTyped DEF Sealings
    <3> QED
      BY <3>1, <3>2
  <2> QED
    BY <2>1
<1> QED
  BY <1>1 DEF History

(* A session begins with a keypair that no key has. *)
LEMMA HistoryBegins ==
  ASSUME NEW h \in Seq(Sealings), NEW s \in Sides, NEW c, NEW d \in Nat, NEW dir, NEW count,
         History(h, s, c, d, dir, count),
         NEW c2, c2.kp = d + 1
  PROVE  History(h, s, c2, d + 1, dir, 0)
<1>1. ASSUME NEW i \in DOMAIN h
      PROVE  OwnKeypair(s, h[i][1]) <= d + 1 /\ OwnKeypair(s, h[i][1]) # d + 1
  <2>1. OwnKeypair(s, h[i][1]) <= d
    BY DEF History
  <2>2. OwnKeypair(s, h[i][1]) \in Nat
    BY OwnTyped DEF Sealings
  <2> QED
    BY <2>1, <2>2
<1>2. Nonces(h, s, c2.kp, Len(h)) = {}
  <2>1. DOMAIN h = 1 .. Len(h)
    OBVIOUS
  <2> QED
    BY <1>1, <2>1 DEF Nonces
<1>3. 0 .. (0 - 1) = {}
  OBVIOUS
<1> QED
  BY <1>1, <1>2, <1>3 DEF History

(* The next nonce is used, with the keypair of the session. *)
LEMMA HistoryExtended ==
  ASSUME NEW h \in Seq(Sealings), NEW s \in Sides, NEW c, NEW d \in Nat, NEW dir,
         NEW key \in Keys, NEW count \in Nat,
         History(h, s, c, d, dir, count),
         Live(c), OwnKeypair(s, key) = c.kp, key[3] = dir, c.kp <= d,
         NEW c2, c2.kp = c.kp
  PROVE  History(Append(h, <<key, count>>), s, c2, d, dir, count + 1)
<1> DEFINE e == <<key, count>>
           g == Append(h, e)
<1>1. e \in Sealings /\ e[1] = key /\ e[2] = count
  BY DEF Sealings
<1> HIDE DEF e
<1>2. /\ DOMAIN g = DOMAIN h \cup {Len(h) + 1} /\ DOMAIN h = 1 .. Len(h) /\ Len(h) \in Nat
      /\ Len(g) = Len(h) + 1
      /\ \A i \in DOMAIN h : g[i] = h[i]
      /\ g[Len(h) + 1] = e
  BY <1>1, AppendElements
<1> HIDE DEF g
<1>3. /\ \A kp : \A n \in 0 .. Len(h) : Nonces(g, s, kp, n) = Nonces(h, s, kp, n)
      /\ Nonces(g, s, c.kp, Len(h) + 1) = Nonces(h, s, c.kp, Len(h)) \cup {count}
  <2>1. Len(h) \in Nat /\ (\A l \in 1 .. Len(h) : g[l] = h[l]) /\ g[Len(h) + 1] = e
    BY <1>2
  <2>2. ASSUME NEW kp, NEW n \in 0 .. Len(h)
        PROVE  Nonces(g, s, kp, n) = Nonces(h, s, kp, n)
    <3>1. \A l \in 1 .. n : l \in 1 .. Len(h)
      BY <2>1
    <3>2. \A l \in 1 .. n : g[l] = h[l]
      BY <2>1, <3>1
    <3> QED
      BY <3>2 DEF Nonces
  <2>3. Nonces(g, s, c.kp, Len(h) + 1) = Nonces(h, s, c.kp, Len(h)) \cup {count}
    <3>1. 1 .. (Len(h) + 1) = 1 .. Len(h) \cup {Len(h) + 1}
      BY <2>1
    <3>2. {l \in 1 .. (Len(h) + 1) : OwnKeypair(s, g[l][1]) = c.kp}
            = {l \in 1 .. Len(h) : OwnKeypair(s, h[l][1]) = c.kp} \cup {Len(h) + 1}
      BY <1>1, <2>1, <3>1
    <3>3. /\ Nonces(g, s, c.kp, Len(h) + 1)
               = {g[j][2] : j \in {l \in 1 .. (Len(h) + 1) : OwnKeypair(s, g[l][1]) = c.kp}}
          /\ Nonces(h, s, c.kp, Len(h))
               = {g[j][2] : j \in {l \in 1 .. Len(h) : OwnKeypair(s, h[l][1]) = c.kp}}
      BY <2>1 DEF Nonces
    <3>4. g[Len(h) + 1][2] = count
      BY <1>1, <2>1
    <3> QED
      BY <3>2, <3>3, <3>4
  <2> QED
    BY <2>2, <2>3
<1>4. Nonces(h, s, c.kp, Len(h)) = 0 .. (count - 1)
  BY DEF History
<1>5. ASSUME NEW i \in DOMAIN g
      PROVE  /\ g[i][1][3] = dir /\ OwnKeypair(s, g[i][1]) <= d
             /\ Nonces(g, s, OwnKeypair(s, g[i][1]), i - 1) = 0 .. (g[i][2] - 1)
  <2>1. CASE i \in DOMAIN h
    <3>1. i - 1 \in 0 .. Len(h) /\ g[i] = h[i]
      BY <1>2, <2>1
    <3>2. /\ h[i][1][3] = dir /\ OwnKeypair(s, h[i][1]) <= d
          /\ Nonces(h, s, OwnKeypair(s, h[i][1]), i - 1) = 0 .. (h[i][2] - 1)
      BY <2>1 DEF History
    <3> QED
      BY <1>3, <3>1, <3>2
  <2>2. CASE i = Len(h) + 1
    <3>1. g[i] = e /\ i - 1 = Len(h) /\ Len(h) \in 0 .. Len(h)
      BY <1>2, <2>2
    <3> QED
      BY <1>1, <1>3, <1>4, <3>1
  <2> QED
    BY <1>2, <2>1, <2>2
<1>6. 0 .. (count + 1 - 1) = 0 .. (count - 1) \cup {count}
  OBVIOUS
<1>7. Nonces(g, s, c2.kp, Len(g)) = 0 .. (count + 1 - 1)
  BY <1>2, <1>3, <1>4, <1>6
<1>8. History(g, s, c2, d, dir, count + 1)
  BY <1>5, <1>7 DEF History
<1> QED
  BY <1>8 DEF g, e
-----------------------------------------------------------------------------
(* The steps. *)

(* Both keys of a session come from its own keypair, one for each direction. *)
LEMMA KeysOwn ==
  ASSUME NEW s \in Sides, NEW own \in Nat, NEW pub \in Nat, NEW keys,
         keys = IF HsAs(s) THEN ServerKeys(own, pub) ELSE ClientKeys(own, pub)
  PROVE  /\ OwnKeypair(s, keys.tx) = own /\ keys.tx[3] = Sealing(s)
         /\ OwnKeypair(s, keys.rx) = own /\ keys.rx[3] = Sealing(Peer(s))
<1>1. HsAs(Peer(s)) <=> ~HsAs(s)
  BY PeerProperties
<1>2. CASE HsAs(s)
  BY <1>1, <1>2 DEF ServerKeys, OwnKeypair, Sealing
<1>3. CASE ~HsAs(s)
  BY <1>1, <1>3 DEF ClientKeys, OwnKeypair, Sealing
<1> QED
  BY <1>2, <1>3

(* The keys of the two ends are crosswise. *)
LEMMA KeysCross ==
  ASSUME NEW s \in Sides, NEW o \in Sides, HsAs(o) <=> ~HsAs(s), NEW a \in Nat, NEW b \in Nat,
         NEW keys, keys = IF HsAs(s) THEN ServerKeys(a, b) ELSE ClientKeys(a, b),
         NEW others, others = IF HsAs(o) THEN ServerKeys(b, a) ELSE ClientKeys(b, a)
  PROVE  keys.tx = others.rx
<1>1. CASE HsAs(s)
  BY <1>1 DEF ServerKeys, ClientKeys
<1>2. CASE ~HsAs(s)
  BY <1>2 DEF ServerKeys, ClientKeys
<1> QED
  BY <1>1, <1>2

(* The keys of a peer that is ready are of its present session. *)
LEMMA SessionKeysOwn ==
  ASSUME Inv, NEW s \in Sides, Ready(conn[s])
  PROVE  /\ conn[s].skeys.tx \in Keys /\ conn[s].skeys.rx \in Keys
         /\ OwnKeypair(s, conn[s].skeys.tx) = conn[s].kp /\ conn[s].skeys.tx[3] = Sealing(s)
         /\ OwnKeypair(s, conn[s].skeys.rx) = conn[s].kp /\ conn[s].skeys.rx[3] = Sealing(Peer(s))
         /\ conn[s].kp \in Nat /\ conn[s].kp <= drawn
         /\ conn[s].tx_nonce \in Nat /\ conn[s].rx_nonce \in Nat
<1>1. conn[s] \in Conns
  BY DEF Inv, TypeOK
<1>2. conn[s].skeys = SessionKeys(s, conn[s].peer) /\ conn[s].kp <= drawn
  BY DEF Inv, Session, Ready, Live
<1>3. HsAs(Peer(s)) <=> ~HsAs(s)
  BY PeerProperties
<1>4. /\ conn[s].skeys \in [rx : Keys, tx : Keys] /\ conn[s].kp \in Nat
      /\ conn[s].tx_nonce \in Nat /\ conn[s].rx_nonce \in Nat
  BY <1>1 DEF Conns
<1>5. conn[s].skeys.tx \in Keys /\ conn[s].skeys.rx \in Keys
  BY <1>4
<1>6. /\ OwnKeypair(s, conn[s].skeys.tx) = conn[s].kp /\ conn[s].skeys.tx[3] = Sealing(s)
      /\ OwnKeypair(s, conn[s].skeys.rx) = conn[s].kp /\ conn[s].skeys.rx[3] = Sealing(Peer(s))
  <2>1. conn[s].peer \in Nat
    BY <1>1 DEF Conns
  <2> QED
    BY <1>2, <1>4, <2>1, KeysOwn DEF SessionKeys
<1> QED
  BY <1>2, <1>4, <1>5, <1>6

(* s goes on with its session, or ends it. *)
Continues(s) == Live(conn'[s]) => Live(conn[s]) /\ conn'[s].kp = conn[s].kp

(* Nothing is sealed: what is said of the history holds on. *)
LEMMA SealedKept ==
  ASSUME Inv, NEW s \in Sides, sealed'[s] = sealed[s], drawn' \in Nat, drawn <= drawn',
         Continues(s), Live(conn'[s]) => conn'[s].tx_nonce = conn[s].tx_nonce
  PROVE  Sealed(s)'
<1>1. sealed[s] \in Seq(Sealings) /\ drawn \in Nat /\ Sealed(s)
  BY DEF Inv, TypeOK
<1>2. History(sealed[s], s, conn[s], drawn, Sealing(s), conn[s].tx_nonce)
  BY <1>1 DEF Sealed
<1>3. Live(conn'[s]) =>
        Live(conn[s]) /\ conn'[s].kp = conn[s].kp /\ conn'[s].tx_nonce = conn[s].tx_nonce
  BY DEF Continues
<1>4. History(sealed[s], s, conn'[s], drawn', Sealing(s), conn'[s].tx_nonce)
  BY <1>1, <1>2, <1>3, HistoryKept, SMTT(30) DEF Live
<1> QED
  BY <1>4 DEF Sealed

(* Nothing is opened: what is said of the history holds on. *)
LEMMA OpenedKept ==
  ASSUME Inv, NEW s \in Sides, opened'[s] = opened[s], drawn' \in Nat, drawn <= drawn',
         Continues(s), Live(conn'[s]) => conn'[s].rx_nonce = conn[s].rx_nonce
  PROVE  Opened(s)'
<1>1. opened[s] \in Seq(Sealings) /\ drawn \in Nat /\ Opened(s)
  BY DEF Inv, TypeOK
<1>2. History(opened[s], s, conn[s], drawn, Sealing(Peer(s)), conn[s].rx_nonce)
  BY <1>1 DEF Opened
<1>3. Live(conn'[s]) =>
        Live(conn[s]) /\ conn'[s].kp = conn[s].kp /\ conn'[s].rx_nonce = conn[s].rx_nonce
  BY DEF Continues
<1>4. History(opened[s], s, conn'[s], drawn', Sealing(Peer(s)), conn'[s].rx_nonce)
  BY <1>1, <1>2, <1>3, HistoryKept, SMTT(30) DEF Live
<1> QED
  BY <1>4 DEF Opened

(* The invariant holds at first. *)
LEMMA InitInv == EInit => Inv
<1> SUFFICES ASSUME EInit PROVE Inv
  OBVIOUS
<1>1. TypeOK
  BY ZeroedTyped DEF EInit, TypeOK
<1>2. ASSUME NEW s \in Sides
      PROVE  /\ Session(s) /\ Sealed(s) /\ Opened(s) /\ OnTheWay(s)
             /\ ToSet(opened[s]) \subseteq ToSet(sealed[Peer(s)])
  <2>1. /\ conn[s] = Zeroed /\ sealed[s] = << >> /\ opened[s] = << >> /\ mail[s] = << >>
        /\ ToSet(<< >>) = {} /\ DOMAIN << >> = {}
    BY DEF EInit, ToSet
  <2> QED
    BY <2>1 DEF Zeroed, Session, Ready, Live, Sealed, Opened, History, OnTheWay
<1> QED
  BY <1>1, <1>2 DEF Inv

(* ConnInit, ConnEnd and the handshake leave both histories alone. *)
LEMMA HandshakeStep ==
  ASSUME Inv, TypeOK', UNCHANGED <<sealed, opened>>, NEW s \in Sides,
         \/ ConnInit(s) \/ ConnEnd(s) \/ HandshakeInit(s)
         \/ \E m \in Messages : HandshakeResp(s, m) \/ LoseMessage(s, m)
  PROVE  Inv'
<1>1. drawn \in Nat /\ drawn' \in Nat /\ drawn <= drawn'
  <2>1. drawn \in Nat /\ drawn' \in Nat
    BY DEF Inv, TypeOK
  <2>2. drawn' = drawn \/ drawn' = drawn + 1
    BY DEF ConnInit, ConnEnd, HandshakeInit, HandshakeResp, LoseMessage
  <2> QED
    BY <2>1, <2>2
<1> TypeOK
  BY DEF Inv
<1>2. ASSUME NEW o \in Sides
      PROVE  Session(o)' /\ Sealed(o)' /\ Opened(o)'
  <2>0. Session(o)
    BY DEF Inv
  <2>1. CASE conn'[o] = conn[o]
    <3>1. Continues(o) /\ conn'[o].tx_nonce = conn[o].tx_nonce /\ conn'[o].rx_nonce = conn[o].rx_nonce
      BY <2>1 DEF Continues
    <3>2. Session(o)'
      <4>1. conn[o].kp \in Nat
        BY DEF TypeOK, Conns
      <4>2. Live(conn[o]) => conn[o].kp <= drawn'
        BY <1>1, <2>0, <4>1 DEF Session
      <4> QED
        BY <2>0, <2>1, <4>2 DEF Session, SessionKeys, Live
    <3> QED
      BY <1>1, <3>1, <3>2, SealedKept, OpenedKept
  <2>2. CASE ConnInit(s) /\ o = s
    <3>1. /\ conn'[s].hstate = "NOT_HANDSHAKED" /\ conn'[s].kp = drawn + 1
          /\ conn'[s].tx_nonce = 0 /\ conn'[s].rx_nonce = 0 /\ drawn' = drawn + 1
      BY <2>2, ConnInitEffect DEF ConnInit
    <3>2. /\ sealed[s] \in Seq(Sealings) /\ opened[s] \in Seq(Sealings)
          /\ Sealed(s) /\ Opened(s) /\ ~Ready(conn'[s])
      BY <3>1 DEF Inv, TypeOK, Ready
    <3>3. History(sealed[s], s, conn'[s], drawn + 1, Sealing(s), 0)
      BY <1>1, <3>1, <3>2, HistoryBegins DEF Sealed
    <3>4. History(opened[s], s, conn'[s], drawn + 1, Sealing(Peer(s)), 0)
      BY <1>1, <3>1, <3>2, HistoryBegins DEF Opened
    <3> QED
      BY <1>1, <2>2, <3>1, <3>2, <3>3, <3>4 DEF Session, Sealed, Opened
  <2>3. CASE HandshakeInit(s) /\ o = s
    <3>1. /\ conn[s].hstate # "ended" /\ conn'[s].hstate = "HANDSHAKE_SENT"
          /\ conn'[s].kp = conn[s].kp /\ drawn' = drawn
          /\ conn'[s].tx_nonce = conn[s].tx_nonce /\ conn'[s].rx_nonce = conn[s].rx_nonce
      BY <2>3, HandshakeInitEffect DEF HandshakeInit
    <3>2. Continues(s) /\ Session(s)'
      BY <2>0, <2>3, <3>1 DEF Continues, Session, Live, Ready
    <3>3. Sealed(s)' /\ Opened(s)'
      BY <1>1, <3>1, <3>2, SealedKept, OpenedKept
    <3> QED
      BY <2>3, <3>2, <3>3
  <2>4. CASE \E m \in Messages : HandshakeResp(s, m) /\ o = s /\ conn' # conn
    <3>1. PICK m \in Messages : HandshakeResp(s, m) /\ conn' # conn
      BY <2>4
    <3>2. /\ conn[s].hstate # "ended" /\ conn'[s].hstate = "HANDSHAKE_ENDED"
          /\ conn'[s].peer = m.pub /\ conn'[s].skeys = SessionKeys(s, m.pub)
          /\ conn'[s].kp = conn[s].kp /\ drawn' = drawn
          /\ conn'[s].tx_nonce = conn[s].tx_nonce /\ conn'[s].rx_nonce = conn[s].rx_nonce
      BY <3>1, HandshakeRespEffect DEF HandshakeResp
    <3>3. Continues(s)
      BY <3>2 DEF Continues, Live
    <3>4. Session(s)'
      BY <2>0, <2>4, <3>2 DEF Session, Live, Ready, SessionKeys
    <3>5. Sealed(s)' /\ Opened(s)'
      BY <1>1, <3>2, <3>3, SealedKept, OpenedKept
    <3> QED
      BY <2>4, <3>4, <3>5
  <2>5. CASE conn'[o] = Zeroed
    <3>1. Continues(o) /\ conn'[o].hstate = "ended" /\ Session(o)'
      BY <2>5 DEF Zeroed, Continues, Session, Live, Ready
    <3>2. Sealed(o)' /\ Opened(o)'
      BY <1>1, <3>1, SealedKept, OpenedKept DEF Live
    <3> QED
      BY <3>1, <3>2
  <2>6. conn'[o] = conn[o] \/ o = s \/ conn'[o] = Zeroed
    BY ConnInitEffect, HandshakeInitEffect, HandshakeRespEffect DEF Changed, ConnEnd, LoseMessage
  <2>7. ConnEnd(s) => conn'[o] = conn[o] \/ conn'[o] = Zeroed
    BY DEF ConnEnd
  <2>8. \A m \in Messages : LoseMessage(s, m) => conn'[o] = conn[o]
    BY DEF LoseMessage
  <2> QED
    BY <2>1, <2>2, <2>3, <2>4, <2>5, <2>6, <2>7, <2>8
<1>3. ASSUME NEW o \in Sides
      PROVE  OnTheWay(o)'
  <2>1. ASSUME NEW m \in ToSet(mail'[o]), m.type = "ciphertext" PROVE m \in ToSet(mail[o])
    <3>1. CASE ConnInit(s)
      BY <2>1, <3>1 DEF ConnInit
    <3>2. CASE ConnEnd(s)
      <4>1. mail'[o] = mail[o] \/ mail'[o] = << >>
        BY <3>2 DEF ConnEnd
      <4> QED
        BY <2>1, <4>1 DEF ToSet
    <3>3. CASE HandshakeInit(s)
      <4>0. conn[s].kp \in Nat
        BY DEF TypeOK, Conns
      <4>1. Handshake(s, conn[s].kp) \in Messages /\ Handshake(s, conn[s].kp).type # "ciphertext"
        BY <4>0 DEF Handshake, Messages
      <4> QED
        BY <2>1, <3>3, <4>1, SendsEffect, ZenonT(40) DEF HandshakeInit
    <3>4. CASE \E n \in Messages : HandshakeResp(s, n) \/ LoseMessage(s, n)
      BY <2>1, <3>4, ReceivesEffect DEF HandshakeResp, LoseMessage
    <3> QED
      BY <3>1, <3>2, <3>3, <3>4
  <2> QED
    BY <2>1 DEF Inv, OnTheWay
<1> QED
  BY <1>2, <1>3 DEF Inv

(* Sealing a message keeps the invariant. *)
LEMMA EncryptStep ==
  ASSUME Inv, TypeOK', NEW s \in Sides, Encrypt(s)
  PROVE  Inv'
<1> DEFINE tx == conn[s].skeys.tx
           n  == conn[s].tx_nonce
<1> TypeOK
  BY DEF Inv
<1>1. /\ Changed(s) /\ Ready(conn[s]) /\ Ready(conn'[s])
      /\ conn'[s].kp = conn[s].kp /\ conn'[s].peer = conn[s].peer /\ conn'[s].skeys = conn[s].skeys
      /\ conn'[s].tx_nonce = n + 1 /\ conn'[s].rx_nonce = conn[s].rx_nonce
  BY EncryptEffect DEF Ready
<1>2. /\ drawn' = drawn /\ drawn \in Nat /\ opened' = opened
      /\ Sends(s, Ciphertext(tx, n))
      /\ sealed' = [sealed EXCEPT ![s] = Append(@, <<tx, n>>)]
      /\ sealed \in [Sides -> Seq(Sealings)]
  BY DEF Encrypt, SealNonce, Inv, TypeOK
<1>3. /\ tx \in Keys /\ n \in Nat /\ OwnKeypair(s, tx) = conn[s].kp /\ tx[3] = Sealing(s)
      /\ conn[s].kp <= drawn
  BY <1>1, SessionKeysOwn
<1> HIDE DEF tx, n
<1>4. /\ <<tx, n>> \in Sealings /\ sealed'[s] = Append(sealed[s], <<tx, n>>)
      /\ \A o \in Sides : o # s => sealed'[o] = sealed[o]
  BY <1>2, <1>3 DEF Sealings
<1>5. \A o \in Sides : ToSet(sealed[o]) \subseteq ToSet(sealed'[o])
  BY <1>2, <1>4, AppendElements
<1>6. <<tx, n>> \in ToSet(sealed'[s])
  BY <1>2, <1>4, AppendElements
<1>7. \A o \in Sides : Session(o)'
  <2>1. ASSUME NEW o \in Sides PROVE Session(o)'
    <3>1. Session(o)
      BY DEF Inv
    <3> QED
      BY <1>1, <1>2, <3>1 DEF Changed, Session, SessionKeys, Live, Ready
  <2> QED
    BY <2>1
<1>8. ASSUME NEW o \in Sides
      PROVE  Continues(o) /\ conn'[o].rx_nonce = conn[o].rx_nonce
  <2>1. conn'[o] = conn[o] \/ o = s
    BY <1>1 DEF Changed
  <2> QED
    BY <1>1, <2>1 DEF Continues, Live, Ready
<1>9. ASSUME NEW o \in Sides PROVE Opened(o)'
  BY <1>2, <1>8, OpenedKept
<1>10. ASSUME NEW o \in Sides PROVE Sealed(o)'
  <2>1. CASE o # s
    <3>1. /\ sealed'[o] = sealed[o] /\ conn'[o].tx_nonce = conn[o].tx_nonce
          /\ drawn' \in Nat /\ drawn <= drawn' /\ Continues(o)
      BY <1>1, <1>2, <1>4, <1>8, <2>1 DEF Changed
    <3> QED
      BY <3>1, SealedKept
  <2>2. CASE o = s
    <3>1. /\ History(sealed[s], s, conn[s], drawn, Sealing(s), n) /\ Live(conn[s])
          /\ sealed[s] \in Seq(Sealings)
      BY <1>1 DEF Inv, TypeOK, Sealed, Live, Ready, n
    <3>2. History(sealed'[s], s, conn'[s], drawn, Sealing(s), n + 1)
      BY <1>1, <1>2, <1>3, <1>4, <3>1, HistoryExtended
    <3> QED
      BY <1>1, <1>2, <2>2, <3>2 DEF Sealed
  <2> QED
    BY <2>1, <2>2
<1>11. ASSUME NEW o \in Sides PROVE OnTheWay(o)'
  <2>1. Ciphertext(tx, n) \in Messages
    BY <1>3 DEF Ciphertext, Messages
  <2>2. ASSUME NEW m \in ToSet(mail'[o]), m.type = "ciphertext"
        PROVE  <<m.key, m.nonce>> \in ToSet(sealed'[Peer(o)])
    <3>0. Peer(o) \in Sides /\ Peer(Peer(s)) = s
      BY PeerProperties
    <3>1. CASE m \in ToSet(mail[o])
      <4>1. <<m.key, m.nonce>> \in ToSet(sealed[Peer(o)])
        BY <2>2, <3>1 DEF Inv, OnTheWay
      <4> QED
        BY <1>5, <3>0, <4>1
    <3>2. CASE o = Peer(s) /\ m = Ciphertext(tx, n)
      BY <1>6, <3>0, <3>2 DEF Ciphertext
    <3> QED
      BY <1>2, <2>1, <2>2, <3>1, <3>2, SendsEffect, ZenonT(40)
  <2> QED
    BY <2>2 DEF OnTheWay
<1>12. ASSUME NEW o \in Sides PROVE ToSet(opened'[o]) \subseteq ToSet(sealed'[Peer(o)])
  <2>1. Peer(o) \in Sides /\ ToSet(opened[o]) \subseteq ToSet(sealed[Peer(o)])
    BY PeerProperties DEF Inv
  <2> QED
    BY <1>2, <1>5, <2>1
<1> QED
  BY <1>7, <1>9, <1>10, <1>11, <1>12 DEF Inv

(* Opening a message keeps the invariant. *)
LEMMA DecryptStep ==
  ASSUME Inv, TypeOK', NEW s \in Sides, NEW m, Decrypt(s, m)
  PROVE  Inv'
<1> DEFINE rx == conn[s].skeys.rx
           n  == conn[s].rx_nonce
<1> TypeOK
  BY DEF Inv
<1>1. /\ Changed(s) /\ Live(conn[s]) /\ conn'[s].hstate = conn[s].hstate
      /\ conn'[s].kp = conn[s].kp /\ conn'[s].peer = conn[s].peer /\ conn'[s].skeys = conn[s].skeys
      /\ conn'[s].tx_nonce = conn[s].tx_nonce
      /\ conn'[s].rx_nonce = IF Opens(conn[s], m) THEN n + 1 ELSE n
  BY DecryptEffect DEF Live
<1>2. /\ drawn' = drawn /\ drawn \in Nat /\ sealed' = sealed
      /\ Receives(s, m)
      /\ opened' = IF Opens(conn[s], m)
                   THEN [opened EXCEPT ![s] = Append(@, <<m.key, m.nonce>>)] ELSE opened
      /\ opened \in [Sides -> Seq(Sealings)]
  BY DEF Decrypt, Inv, TypeOK
<1>3. Opens(conn[s], m) => Ready(conn[s]) /\ m.type = "ciphertext" /\ <<m.key, m.nonce>> = <<rx, n>>
  BY DEF Opens, Ready
<1>4. Opens(conn[s], m) =>
        /\ rx \in Keys /\ n \in Nat /\ OwnKeypair(s, rx) = conn[s].kp /\ rx[3] = Sealing(Peer(s))
        /\ conn[s].kp <= drawn
  BY <1>3, SessionKeysOwn
<1> HIDE DEF rx, n
<1>5. Opens(conn[s], m) => <<rx, n>> \in Sealings
  BY <1>4 DEF Sealings
<1>6. /\ m \in ToSet(mail[s])
      /\ \A o \in Sides : ToSet(mail'[o]) \subseteq ToSet(mail[o])
  BY <1>2, ReceivesEffect
<1>7. \A o \in Sides : Session(o)'
  <2>1. ASSUME NEW o \in Sides PROVE Session(o)'
    <3>1. Session(o)
      BY DEF Inv
    <3> QED
      BY <1>1, <1>2, <3>1 DEF Changed, Session, SessionKeys, Live, Ready
  <2> QED
    BY <2>1
<1>8. ASSUME NEW o \in Sides
      PROVE  Continues(o) /\ conn'[o].tx_nonce = conn[o].tx_nonce
  <2>1. conn'[o] = conn[o] \/ o = s
    BY <1>1 DEF Changed
  <2> QED
    BY <1>1, <2>1 DEF Continues, Live, Ready
<1>9. ASSUME NEW o \in Sides PROVE Sealed(o)'
  BY <1>2, <1>8, SealedKept
<1>10. \A o \in Sides : OnTheWay(o)'
  BY <1>2, <1>6 DEF Inv, OnTheWay
<1>11. ASSUME NEW o \in Sides
       PROVE  Opened(o)' /\ ToSet(opened'[o]) \subseteq ToSet(sealed[Peer(o)])
  <2>1. Opened(o) /\ ToSet(opened[o]) \subseteq ToSet(sealed[Peer(o)])
    BY DEF Inv
  <2>2. CASE o # s \/ ~Opens(conn[s], m)
    <3>1. opened'[o] = opened[o] /\ conn'[o].rx_nonce = conn[o].rx_nonce
      BY <1>1, <1>2, <2>2 DEF Changed, n
    <3> QED
      BY <1>2, <1>8, <2>1, <3>1, OpenedKept
  <2>3. CASE o = s /\ Opens(conn[s], m)
    <3>1. /\ History(opened[s], s, conn[s], drawn, Sealing(Peer(s)), n)
          /\ opened[s] \in Seq(Sealings)
      BY DEF Inv, TypeOK, Opened, n
    <3>2. opened'[s] = Append(opened[s], <<rx, n>>)
      BY <1>2, <1>3, <2>3
    <3>3. History(opened'[s], s, conn'[s], drawn, Sealing(Peer(s)), n + 1)
      BY <1>1, <1>2, <1>4, <2>3, <3>1, <3>2, HistoryExtended
    <3>4. <<rx, n>> \in ToSet(sealed[Peer(s)])
      BY <1>3, <1>6, <2>3 DEF Inv, OnTheWay
    <3>5. ToSet(opened'[s]) = ToSet(opened[s]) \cup {<<rx, n>>}
      BY <1>5, <2>3, <3>1, <3>2, AppendElements
    <3> QED
      BY <1>1, <1>2, <2>1, <2>3, <3>3, <3>4, <3>5 DEF Opened
  <2> QED
    BY <2>2, <2>3
<1> QED
  BY <1>2, <1>7, <1>9, <1>10, <1>11 DEF Inv

(* Every step keeps the invariant. *)
LEMMA NextInv == Inv /\ [ENext]_evars => Inv'
<1> SUFFICES ASSUME Inv, [ENext]_evars PROVE Inv'
  OBVIOUS
<1>1. TypeOK'
  BY TypeStep DEF Inv
<1>2. CASE UNCHANGED evars
  BY <1>2 DEF evars, Inv, TypeOK, Session, SessionKeys, Sealed, Opened, OnTheWay
<1>3. CASE ENext
  <2>1. PICK s \in Sides :
          \/ ConnInit(s) \/ ConnEnd(s) \/ HandshakeInit(s) \/ Encrypt(s)
          \/ \E m \in ToSet(mail[s]) : HandshakeResp(s, m) \/ Decrypt(s, m) \/ LoseMessage(s, m)
    BY <1>3 DEF ENext, Handles
  <2>2. ToSet(mail[s]) \subseteq Messages
    BY DEF Inv, TypeOK, ToSet
  <2>3. CASE ConnInit(s) \/ ConnEnd(s) \/ HandshakeInit(s)
    <3>1. UNCHANGED <<sealed, opened>>
      BY <2>3 DEF ConnInit, ConnEnd, HandshakeInit
    <3> QED
      BY <1>1, <2>3, <3>1, HandshakeStep
  <2>4. CASE Encrypt(s)
    BY <1>1, <2>4, EncryptStep
  <2>5. ASSUME NEW m \in ToSet(mail[s]), HandshakeResp(s, m) \/ LoseMessage(s, m)
        PROVE  Inv'
    <3>1. UNCHANGED <<sealed, opened>>
      BY <2>5 DEF HandshakeResp, LoseMessage
    <3> QED
      BY <1>1, <2>2, <2>5, <3>1, HandshakeStep
  <2>6. ASSUME NEW m \in ToSet(mail[s]), Decrypt(s, m) PROVE Inv'
    BY <1>1, <2>6, DecryptStep
  <2> QED
    BY <2>1, <2>3, <2>4, <2>5, <2>6
<1> QED
  BY <1>2, <1>3

(* The invariant holds in every state of every run. *)
THEOREM EInvariant == ESpec => []Inv
<1>1. EInit => Inv
  BY InitInv
<1>2. Inv /\ [ENext]_evars => Inv'
  BY NextInv
<1> QED
  BY <1>1, <1>2, PTL DEF ESpec

-----------------------------------------------------------------------------
(* What an entry of a history is, and that entries of one keypair differ in *)
(* their nonce, which grows.                                                *)
LEMMA Entries ==
  ASSUME NEW h \in Seq(Sealings), NEW s \in Sides, NEW c, NEW d, NEW dir, NEW count,
         History(h, s, c, d, dir, count)
  PROVE  /\ DOMAIN h = 1 .. Len(h) /\ DOMAIN h \subseteq Nat
         /\ \A i \in DOMAIN h : /\ h[i] = <<h[i][1], h[i][2]>>
                                /\ h[i][1] \in Keys /\ h[i][2] \in Nat /\ h[i][1][3] = dir
         /\ \A i \in DOMAIN h, j \in DOMAIN h :
              i < j /\ OwnKeypair(s, h[i][1]) = OwnKeypair(s, h[j][1]) => h[i][2] < h[j][2]
         /\ \A i \in DOMAIN h : Live(c) /\ OwnKeypair(s, h[i][1]) = c.kp => h[i][2] \in 0 .. (count - 1)
<1>1. DOMAIN h = 1 .. Len(h) /\ DOMAIN h \subseteq Nat
  OBVIOUS
<1>2. \A i \in DOMAIN h : /\ h[i] = <<h[i][1], h[i][2]>>
                          /\ h[i][1] \in Keys /\ h[i][2] \in Nat
  BY DEF Sealings
<1>3. \A i \in DOMAIN h : h[i][1][3] = dir
  BY DEF History
<1>4. ASSUME NEW i \in DOMAIN h, NEW j \in DOMAIN h,
             i < j, OwnKeypair(s, h[i][1]) = OwnKeypair(s, h[j][1])
      PROVE  h[i][2] < h[j][2]
  <2>1. i \in 1 .. (j - 1)
    BY <1>1, <1>4
  <2>2. h[i][2] \in Nonces(h, s, OwnKeypair(s, h[j][1]), j - 1)
    BY <1>4, <2>1 DEF Nonces
  <2>3. h[i][2] \in 0 .. (h[j][2] - 1)
    BY <2>2 DEF History
  <2> QED
    BY <1>2, <2>3
<1>5. ASSUME NEW i \in DOMAIN h, Live(c), OwnKeypair(s, h[i][1]) = c.kp
      PROVE  h[i][2] \in 0 .. (count - 1)
  <2>1. h[i][2] \in Nonces(h, s, c.kp, Len(h))
    BY <1>1, <1>5 DEF Nonces
  <2> QED
    BY <1>5, <2>1 DEF History
<1> QED
  BY <1>1, <1>2, <1>3, <1>4, <1>5

(* The history of what a peer sealed. *)
LEMMA SealedEntries ==
  ASSUME Inv, NEW s \in Sides
  PROVE  /\ DOMAIN sealed[s] \subseteq Nat
         /\ \A i \in DOMAIN sealed[s] :
              /\ sealed[s][i] = <<sealed[s][i][1], sealed[s][i][2]>>
              /\ sealed[s][i][1] \in Keys /\ sealed[s][i][2] \in Nat
              /\ sealed[s][i][1][3] = Sealing(s)
         /\ \A i \in DOMAIN sealed[s], j \in DOMAIN sealed[s] :
              i < j /\ OwnKeypair(s, sealed[s][i][1]) = OwnKeypair(s, sealed[s][j][1])
                => sealed[s][i][2] < sealed[s][j][2]
         /\ \A i \in DOMAIN sealed[s] :
              Live(conn[s]) /\ OwnKeypair(s, sealed[s][i][1]) = conn[s].kp
                => sealed[s][i][2] \in 0 .. (conn[s].tx_nonce - 1)
<1>1. History(sealed[s], s, conn[s], drawn, Sealing(s), conn[s].tx_nonce) /\ sealed[s] \in Seq(Sealings)
  BY DEF Inv, TypeOK, Sealed
<1> QED
  BY <1>1, Entries, SMTT(30)

(* The history of what a peer opened. *)
LEMMA OpenedEntries ==
  ASSUME Inv, NEW s \in Sides
  PROVE  /\ DOMAIN opened[s] \subseteq Nat /\ DOMAIN opened[s] = 1 .. Len(opened[s])
         /\ \A i \in DOMAIN opened[s] :
              /\ opened[s][i] = <<opened[s][i][1], opened[s][i][2]>>
              /\ opened[s][i][1] \in Keys /\ opened[s][i][2] \in Nat
         /\ \A i \in DOMAIN opened[s], j \in DOMAIN opened[s] :
              i < j /\ OwnKeypair(s, opened[s][i][1]) = OwnKeypair(s, opened[s][j][1])
                => opened[s][i][2] < opened[s][j][2]
<1>1. /\ History(opened[s], s, conn[s], drawn, Sealing(Peer(s)), conn[s].rx_nonce)
      /\ opened[s] \in Seq(Sealings)
  BY DEF Inv, TypeOK, Opened
<1> QED
  BY <1>1, Entries, SMTT(30)

(***************************************************************************)
(* No key is used twice with one nonce (crypto_encrypt numbers the         *)
(* messages of a session, e2ee_conn_init draws a keypair for it, and a     *)
(* handshake in the middle of it leaves the counter alone).                *)
(***************************************************************************)
THEOREM NoncesOnce == ESpec => []NonceOnce
<1>1. Inv => NonceOnce
  <2> SUFFICES ASSUME Inv, NEW s \in Sides, NEW o \in Sides,
                      NEW i \in DOMAIN sealed[s], NEW j \in DOMAIN sealed[o],
                      sealed[s][i] = sealed[o][j]
               PROVE  s = o /\ i = j
    BY DEF NonceOnce
  <2>1. s = o
    <3>1. Sealing(s) = Sealing(o)
      BY SealedEntries
    <3> QED
      BY <3>1, PeerProperties DEF Sealing
  <2>2. ASSUME NEW a \in DOMAIN sealed[s], NEW b \in DOMAIN sealed[s], a < b
        PROVE  sealed[s][a] # sealed[s][b]
    <3>1. /\ OwnKeypair(s, sealed[s][a][1]) = OwnKeypair(s, sealed[s][b][1])
               => sealed[s][a][2] < sealed[s][b][2]
          /\ sealed[s][a][2] \in Nat
      BY <2>2, SealedEntries
    <3> QED
      BY <3>1
  <2>3. i \in Nat /\ j \in Nat
    BY SealedEntries
  <2> QED
    BY <2>1, <2>2, <2>3
<1> QED
  BY <1>1, EInvariant, PTL

(* The key a peer opens with is the one the other sealed with, so the two   *)
(* agree on the order of its messages.                                      *)
LEMMA OpenedBeforeSealedBefore ==
  ASSUME Inv, NEW s \in Sides, NEW i \in DOMAIN opened[s],
         NEW n \in DOMAIN sealed[Peer(s)], sealed[Peer(s)][n] = opened[s][i]
  PROVE  Before(opened[s], i) \subseteq Before(sealed[Peer(s)], n)
<1> DEFINE p == Peer(s)
<1>1. p \in Sides
  BY PeerProperties
<1> HIDE DEF p
<1>2. ASSUME NEW j \in 1 .. (i - 1), opened[s][j][1] = opened[s][i][1]
      PROVE  opened[s][j] \in Before(sealed[p], n)
  <2>1. j \in DOMAIN opened[s] /\ j < i /\ i \in Nat /\ j \in Nat
    BY OpenedEntries
  <2>2. opened[s][j][2] < opened[s][i][2] /\ opened[s][j][2] \in Nat /\ opened[s][i][2] \in Nat
    BY <1>2, <2>1, OpenedEntries
  <2>3. opened[s][j] \in ToSet(sealed[p])
    BY <2>1 DEF Inv, ToSet, p
  <2>4. PICK m \in DOMAIN sealed[p] : sealed[p][m] = opened[s][j]
    BY <2>3 DEF ToSet
  <2>5. m \in Nat /\ n \in Nat /\ n \in DOMAIN sealed[p] /\ sealed[p][n] = opened[s][i]
    BY <1>1, SealedEntries DEF p
  <2>6. m # n /\ ~(n < m)
    <3>1. n < m => sealed[p][n][2] < sealed[p][m][2]
      BY <1>1, <1>2, <2>4, <2>5, SealedEntries
    <3> QED
      BY <2>2, <2>4, <2>5, <3>1
  <2>7. m \in 1 .. (n - 1)
    <3>1. sealed[p] \in Seq(Sealings)
      BY <1>1 DEF Inv, TypeOK
    <3>2. m >= 1
      BY <2>4, <3>1
    <3> QED
      BY <2>5, <2>6, <3>2
  <2> QED
    BY <1>2, <2>4, <2>5, <2>7 DEF Before
<1> QED
  BY <1>2 DEF Before, p

(***************************************************************************)
(* What crypto_decrypt opens under a key is what the other peer's          *)
(* crypto_encrypt sealed under it, once and in that order, also when       *)
(* e2ee_conn_handshake_resp changes the key in the middle of a session;    *)
(* and a prefix of it as long as that has not happened.                    *)
(***************************************************************************)
THEOREM OpensAPrefix == ESpec => []OpensPrefix
<1>1. Inv => OpensPrefix
  <2> SUFFICES ASSUME Inv, NEW s \in Sides, NEW i \in DOMAIN opened[s]
               PROVE  /\ opened[s][i] \notin Before(opened[s], i)
                      /\ \E n \in DOMAIN sealed[Peer(s)] :
                           /\ sealed[Peer(s)][n] = opened[s][i]
                           /\ Before(opened[s], i) \subseteq Before(sealed[Peer(s)], n)
                           /\ KeysWith(s, OwnKeypair(s, opened[s][i][1]), i) = {opened[s][i][1]}
                                => Before(sealed[Peer(s)], n) = Before(opened[s], i)
    BY DEF OpensPrefix
  <2> DEFINE p == Peer(s)
             key == opened[s][i][1]
             own == OwnKeypair(s, key)
  <2>1. p \in Sides
    BY PeerProperties
  <2>2. opened[s][i] = <<key, opened[s][i][2]>> /\ opened[s][i][2] \in Nat /\ i \in Nat
    BY OpenedEntries
  <2>3. ASSUME NEW j \in 1 .. (i - 1), opened[s][j][1] = key
        PROVE  opened[s][j] # opened[s][i]
    <3>1. j \in DOMAIN opened[s] /\ j < i
      BY <2>2, OpenedEntries
    <3>2. opened[s][j][2] < opened[s][i][2]
      BY <2>3, <3>1, OpenedEntries
    <3> QED
      BY <2>2, <3>2
  <2>4. opened[s][i] \notin Before(opened[s], i)
    BY <2>3 DEF Before
  <2>5. opened[s][i] \in ToSet(sealed[p])
    BY DEF Inv, ToSet
  <2>6. PICK n \in DOMAIN sealed[p] : sealed[p][n] = opened[s][i]
    BY <2>5 DEF ToSet
  <2>7. Before(opened[s], i) \subseteq Before(sealed[p], n)
    BY <2>6, OpenedBeforeSealedBefore
  <2>8. ASSUME KeysWith(s, own, i) = {key}
        PROVE  Before(sealed[p], n) \subseteq Before(opened[s], i)
    <3>1. ASSUME NEW m \in 1 .. (n - 1), sealed[p][m][1] = sealed[p][n][1]
          PROVE  sealed[p][m] \in Before(opened[s], i)
      <4>1. m \in DOMAIN sealed[p] /\ m < n
        <5>1. sealed[p] \in Seq(Sealings)
          BY <2>1 DEF Inv, TypeOK
        <5> QED
          BY <5>1
      <4>2. /\ sealed[p][m][2] < opened[s][i][2] /\ sealed[p][m][2] \in Nat
            /\ sealed[p][m] = <<key, sealed[p][m][2]>>
        BY <2>1, <2>6, <3>1, <4>1, SealedEntries
      <4>3. Nonces(opened[s], s, own, i - 1) = 0 .. (opened[s][i][2] - 1)
        BY DEF Inv, Opened, History
      <4>4. sealed[p][m][2] \in Nonces(opened[s], s, own, i - 1)
        BY <2>2, <4>2, <4>3
      <4>5. PICK j \in 1 .. (i - 1) :
              OwnKeypair(s, opened[s][j][1]) = own /\ opened[s][j][2] = sealed[p][m][2]
        BY <4>4 DEF Nonces
      <4>6. j \in DOMAIN opened[s] /\ j \in 1 .. i
        BY <2>2, OpenedEntries
      <4>7. opened[s][j][1] = key
        BY <2>8, <4>5, <4>6 DEF KeysWith
      <4>8. opened[s][j] = sealed[p][m]
        BY <4>2, <4>5, <4>6, <4>7, OpenedEntries
      <4> QED
        BY <4>7, <4>8 DEF Before
    <3> QED
      BY <3>1 DEF Before
  <2> QED
    BY <2>4, <2>6, <2>7, <2>8
<1> QED
  BY <1>1, EInvariant, PTL

(***************************************************************************)
(* Peers that have handled each other's present handshake hold one pair of *)
(* keys, in whatever order and however often they called                   *)
(* e2ee_conn_handshake_init and e2ee_conn_handshake_resp; and the receiver *)
(* is not ahead, unless its session had another key before.                *)
(***************************************************************************)
THEOREM KeysAlwaysAgree == ESpec => []KeysAgree
<1>1. Inv => KeysAgree
  <2> SUFFICES ASSUME Inv, NEW s \in Sides, InSession(s), InSession(Peer(s))
               PROVE  /\ conn[s].skeys.tx = conn[Peer(s)].skeys.rx
                      /\ KeysWith(Peer(s), conn[Peer(s)].kp, Len(opened[Peer(s)]))
                             \subseteq {conn[Peer(s)].skeys.rx}
                           => conn[Peer(s)].rx_nonce <= conn[s].tx_nonce
    BY DEF KeysAgree
  <2> DEFINE o == Peer(s)
  <2>0. o \in Sides /\ Peer(o) = s /\ (HsAs(o) <=> ~HsAs(s))
    BY PeerProperties
  <2> HIDE DEF o
  <2>1. /\ Ready(conn[s]) /\ Ready(conn[o]) /\ Live(conn[s]) /\ Live(conn[o])
        /\ conn[s].peer = conn[o].kp /\ conn[o].peer = conn[s].kp
    BY <2>0 DEF InSession, Ready, Live, o
  <2>2. conn[s].skeys = SessionKeys(s, conn[o].kp) /\ conn[o].skeys = SessionKeys(o, conn[s].kp)
    BY <2>0, <2>1 DEF Inv, Session
  <2>3. conn[s].skeys.tx = conn[o].skeys.rx
    <3>1. conn[s].kp \in Nat /\ conn[o].kp \in Nat
      BY <2>0, <2>1, SessionKeysOwn
    <3> QED
      BY <2>0, <2>2, <3>1, KeysCross DEF SessionKeys
  <2>4. /\ conn[s].tx_nonce \in Nat /\ conn[o].rx_nonce \in Nat
        /\ OwnKeypair(s, conn[s].skeys.tx) = conn[s].kp
    BY <2>0, <2>1, SessionKeysOwn
  <2>5. ASSUME KeysWith(o, conn[o].kp, Len(opened[o])) \subseteq {conn[o].skeys.rx},
               conn[o].rx_nonce > conn[s].tx_nonce
        PROVE  FALSE
    <3>1. conn[s].tx_nonce \in Nonces(opened[o], o, conn[o].kp, Len(opened[o]))
      <4>1. conn[s].tx_nonce \in 0 .. (conn[o].rx_nonce - 1)
        BY <2>4, <2>5
      <4>2. Nonces(opened[o], o, conn[o].kp, Len(opened[o])) = 0 .. (conn[o].rx_nonce - 1)
        BY <2>0, <2>1 DEF Inv, Opened, History
      <4> QED
        BY <4>1, <4>2
    <3>2. PICK j \in 1 .. Len(opened[o]) :
            OwnKeypair(o, opened[o][j][1]) = conn[o].kp /\ opened[o][j][2] = conn[s].tx_nonce
      BY <3>1 DEF Nonces
    <3>3. opened[o][j][1] = conn[s].skeys.tx
      BY <2>3, <2>5, <3>2 DEF KeysWith
    <3>4. j \in DOMAIN opened[o] /\ opened[o][j] \in ToSet(opened[o])
      BY <2>0, OpenedEntries DEF ToSet
    <3>5. opened[o][j] \in ToSet(sealed[s])
      BY <2>0, <3>4 DEF Inv
    <3>6. PICK i \in DOMAIN sealed[s] : sealed[s][i] = opened[o][j]
      BY <3>5 DEF ToSet
    <3>7. sealed[s][i][2] \in 0 .. (conn[s].tx_nonce - 1)
      BY <2>1, <2>4, <3>3, <3>6, SealedEntries
    <3> QED
      BY <2>4, <3>2, <3>6, <3>7
  <2> QED
    BY <2>3, <2>4, <2>5 DEF o
<1> QED
  BY <1>1, EInvariant, PTL
=============================================================================
