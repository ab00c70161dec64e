----------------------------- MODULE E2eeSession -----------------------------
(***************************************************************************)
(* End-to-end encryption (code/devcore/e2ee) between two peers.  The code  *)
(* leaves the order of the calls to its caller: e2ee_conn_handshake_init   *)
(* and e2ee_conn_handshake_resp do not look at the state they find.        *)
(* Usage "any" makes every call at any time on a connection that was set   *)
(* up; usage "example" keeps the order of the repository's own callers     *)
(* (.old/oldcli/examples/basic_e2ee.c): e2ee_conn_init, send the           *)
(* handshake, wait for that of the other peer, then encrypt and decrypt.   *)
(* A peer may end its session and begin another at any time.               *)
(*                                                                         *)
(* libsodium is external: a keypair is a number nobody else draws, a       *)
(* session key is the pair of public keys and a direction, a signature     *)
(* names its signer, and a ciphertext opens under its key and nonce only.  *)
(* Messages travel over an RUDP connection, in order and without loss, or  *)
(* as datagrams that are lost and repeated.                                *)
(***************************************************************************)
EXTENDS Naturals, SequencesExt

CONSTANTS Sides,         \* the two peers; a number, the uid of its identity
          MaxSessions,   \* bound: keypairs drawn
          MaxMessages,   \* bound: messages a peer encrypts in a session
          MaxMail        \* bound: messages on their way to a peer

ASSUME SidesAssumption ==
  Sides \subseteq Nat /\ \E a, b \in Sides : a # b /\ Sides = {a, b}

VARIABLES over,      \* "rudp" or "udp"; fixed
          usage,     \* "example" or "any", the order of the calls; fixed
          conn,      \* the e2ee_connection of each peer
          drawn,     \* keypairs drawn so far
          mail,      \* messages on their way to each peer
          sealed,    \* history: key and nonce of what each peer encrypted
          opened     \* history: key and nonce of what each peer decrypted

evars == <<over, usage, conn, drawn, mail, sealed, opened>>

Peer(s) == CHOOSE o \in Sides : o # s
NoKeys  == [rx |-> <<0, 0, "none">>, tx |-> <<0, 0, "none">>]
Zeroed  == [hstate |-> "ended", kp |-> 0, peer |-> 0, skeys |-> NoKeys,
            tx_nonce |-> 0, rx_nonce |-> 0]

EInit ==
  /\ over \in {"rudp", "udp"} /\ usage \in {"example", "any"}
  /\ conn = [s \in Sides |-> Zeroed]
  /\ drawn = 0
  /\ mail = [s \in Sides |-> << >>]
  /\ sealed = [s \in Sides |-> << >>]
  /\ opened = [s \in Sides |-> << >>]

-----------------------------------------------------------------------------
(* crypto_kx_server_session_keys and crypto_kx_client_session_keys *)
ServerKeys(own, client) == [rx |-> <<own, client, "to server">>, tx |-> <<own, client, "to client">>]
ClientKeys(own, server) == [rx |-> <<server, own, "to client">>, tx |-> <<server, own, "to server">>]

Handshake(s, pub) == [type |-> "handshake", signer |-> s, pub |-> pub]
Ciphertext(key, nonce) == [type |-> "ciphertext", key |-> key, nonce |-> nonce]

(* Mutant of MakeKeypair: each peer has one keypair for all its sessions. *)
MakeKeypairOnce(s) == s

(* crypto_keypair_make *)
MakeKeypair(s) == drawn + 1

(* The uid decides who is the server, for both peers alike. *)
HsAs(s) == s < Peer(s)

(* Mutant of SessionKeys: both peers take the same part. *)
SessionKeysAsClient(s, pub) == ClientKeys(conn[s].kp, pub)

(* crypto_handshake_server or crypto_handshake_client *)
SessionKeys(s, pub) ==
  IF HsAs(s) THEN ServerKeys(conn[s].kp, pub) ELSE ClientKeys(conn[s].kp, pub)

-----------------------------------------------------------------------------
(* A call the example makes in one state only. *)
CalledIn(s, state) == conn[s].hstate # "ended" /\ (usage = "example" => conn[s].hstate = state)

(* e2ee_conn_init; the session keys are left alone. *)
ConnInit(s) ==
  /\ usage = "example" => conn[s].hstate = "ended"
  /\ drawn < MaxSessions
  /\ drawn' = drawn + 1
  /\ conn' = [conn EXCEPT ![s].hstate = "NOT_HANDSHAKED", ![s].kp = MakeKeypair(s), ![s].peer = 0,
                          ![s].tx_nonce = 0, ![s].rx_nonce = 0]
  /\ UNCHANGED <<over, usage, mail, sealed, opened>>

(* e2ee_conn_end, a memset; the peers of an RUDP connection go together. *)
ConnEnd(s) ==
  /\ conn[s].hstate # "ended"
  /\ conn' = [p \in Sides |-> IF p = s \/ over = "rudp"
                              THEN Zeroed ELSE conn[p]]
  /\ mail' = IF over = "rudp" THEN [p \in Sides |-> << >>] ELSE mail
  /\ UNCHANGED <<over, usage, drawn, sealed, opened>>

Sends(s, m) ==
  /\ Len(mail[Peer(s)]) < MaxMail
  /\ mail' = [mail EXCEPT ![Peer(s)] = Append(@, m)]

(* e2ee_conn_handshake_init: also a session that has its keys goes back. *)
HandshakeInit(s) ==
  /\ CalledIn(s, "NOT_HANDSHAKED")
  /\ Sends(s, Handshake(s, conn[s].kp))
  /\ conn' = [conn EXCEPT ![s].hstate = "HANDSHAKE_SENT"]
  /\ UNCHANGED <<over, usage, drawn, sealed, opened>>

(* The next message for s; a datagram may come again. *)
Receives(s, m) ==
  /\ mail[s] # << >>
  /\ m = Head(mail[s])
  /\ mail' \in {[mail EXCEPT ![s] = Tail(@)]}
        \cup (IF over = "udp" THEN {mail} ELSE {})

(***************************************************************************)
(* e2ee_conn_handshake_resp: what does not carry the peer's signature is   *)
(* refused.  The keys are replaced, the nonces are left alone.             *)
(***************************************************************************)
HandshakeResp(s, m) ==
  /\ CalledIn(s, "HANDSHAKE_SENT")
  /\ Receives(s, m)
  /\ conn' = IF m.type = "handshake" /\ m.signer = Peer(s)
             THEN [conn EXCEPT ![s].skeys = SessionKeys(s, m.pub), ![s].peer = m.pub,
                               ![s].hstate = "HANDSHAKE_ENDED"]
             ELSE conn
  /\ UNCHANGED <<over, usage, drawn, sealed, opened>>

(* Mutant of SealNonce: the counter is advanced before it is used. *)
SealNonceAdvanced(c) == c.tx_nonce + 1

(* crypto_encrypt uses the counter, then advances it. *)
SealNonce(c) == c.tx_nonce

(* e2ee_encrypt and crypto_encrypt *)
Encrypt(s) ==
  LET c == conn[s]
  IN  /\ c.hstate = "HANDSHAKE_ENDED"
      /\ c.tx_nonce < MaxMessages
      /\ Sends(s, Ciphertext(c.skeys.tx, SealNonce(c)))
      /\ sealed' = [sealed EXCEPT ![s] = Append(@, <<c.skeys.tx, SealNonce(c)>>)]
      /\ conn' = [conn EXCEPT ![s].tx_nonce = @ + 1]
      /\ UNCHANGED <<over, usage, drawn, opened>>

(* Before the handshake has ended, e2ee_decrypt refuses everything. *)
Opens(c, m) ==
  /\ c.hstate = "HANDSHAKE_ENDED" /\ m.type = "ciphertext"
  /\ m.key = c.skeys.rx /\ m.nonce = c.rx_nonce

(* Mutant of NextNonce: a message that did not open is counted too. *)
NextNonceAlways(c, m) == c.rx_nonce + 1

(* crypto_decrypt counts the messages that opened. *)
NextNonce(c, m) == IF Opens(c, m) THEN c.rx_nonce + 1 ELSE c.rx_nonce

(* e2ee_decrypt and crypto_decrypt *)
Decrypt(s, m) ==
  /\ CalledIn(s, "HANDSHAKE_ENDED")
  /\ Receives(s, m)
  /\ opened' = IF Opens(conn[s], m)
               THEN [opened EXCEPT ![s] = Append(@, <<m.key, m.nonce>>)] ELSE opened
  /\ conn' = [conn EXCEPT ![s].rx_nonce = NextNonce(conn[s], m)]
  /\ UNCHANGED <<over, usage, drawn, sealed>>

(* A datagram is lost. *)
LoseMessage(s, m) ==
  /\ over = "udp"
  /\ Receives(s, m) /\ mail' # mail
  /\ UNCHANGED <<over, usage, conn, drawn, sealed, opened>>

Handles(s) == \E m \in ToSet(mail[s]) : HandshakeResp(s, m) \/ Decrypt(s, m)

ENext ==
  \E s \in Sides :
    \/ ConnInit(s) \/ ConnEnd(s) \/ HandshakeInit(s) \/ Encrypt(s) \/ Handles(s)
    \/ \E m \in ToSet(mail[s]) : LoseMessage(s, m)

(* The application sends its handshake and goes on receiving. *)
EFairness == \A s \in Sides : WF_evars(HandshakeInit(s)) /\ WF_evars(Handles(s))

ESpec == EInit /\ [][ENext]_evars /\ EFairness

-----------------------------------------------------------------------------
InSession(s) == conn[s].hstate = "HANDSHAKE_ENDED" /\ conn[s].peer = conn[Peer(s)].kp

(* The keypair that peer s brought into a session key. *)
OwnKeypair(s, key) == IF HsAs(s) THEN key[1] ELSE key[2]

(* The keys the first n messages s decrypted with keypair kp were under. *)
KeysWith(s, kp, n) == {opened[s][l][1] : l \in {j \in 1 .. n : OwnKeypair(s, opened[s][j][1]) = kp}}

(***************************************************************************)
(* Two peers that have each handled the handshake of the other's present   *)
(* session hold the same two keys crosswise, in whatever order the calls   *)
(* were made and whatever was left of earlier sessions on the way; and no  *)
(* receiver is ahead of its sender, unless it has kept its own session     *)
(* while the other one began anew (e2ee_conn_handshake_resp leaves the     *)
(* receive counter alone).                                                 *)
(***************************************************************************)
KeysAgree ==
  \A s \in Sides : InSession(s) /\ InSession(Peer(s)) =>
    LET p == Peer(s)
    IN  /\ conn[s].skeys.tx = conn[p].skeys.rx
        /\ KeysWith(p, conn[p].kp, Len(opened[p])) \subseteq {conn[p].skeys.rx}
             => conn[p].rx_nonce <= conn[s].tx_nonce

(* What a history has under the key of its entry i before that. *)
Before(h, i) == {h[j] : j \in {l \in 1 .. (i - 1) : h[l][1] = h[i][1]}}

(***************************************************************************)
(* What a peer decrypts was encrypted by the other one, each message is    *)
(* decrypted once and those under one key in the order they were           *)
(* encrypted, in whatever order the calls are made, over datagrams too.    *)
(* None is left out as long as a session has known one key: the receiver   *)
(* that keeps its session and its counter while the other one begins anew  *)
(* misses the first messages under the new key.                            *)
(***************************************************************************)
OpensPrefix ==
  \A s \in Sides : \A i \in DOMAIN opened[s] :
    LET key == opened[s][i][1]
    IN  /\ opened[s][i] \notin Before(opened[s], i)
        /\ \E n \in DOMAIN sealed[Peer(s)] :
             /\ sealed[Peer(s)][n] = opened[s][i]
             /\ Before(opened[s], i) \subseteq Before(sealed[Peer(s)], n)
             /\ KeysWith(s, OwnKeypair(s, key), i) = {key}
                  => Before(sealed[Peer(s)], n) = Before(opened[s], i)

(* No key is ever used twice with one nonce, by either peer. *)
NonceOnce ==
  \A s, o \in Sides : \A i \in DOMAIN sealed[s], j \in DOMAIN sealed[o] :
    sealed[s][i] = sealed[o][j] => s = o /\ i = j

(* Over RUDP, with the calls in the order of the example, everything that  *)
(* is encrypted is read, or a session ends.                                *)
EverythingOpened ==
  \A s \in Sides : \A n \in 1 .. MaxMessages :
    (over = "rudp" /\ usage = "example" /\ InSession(s) /\ conn[s].tx_nonce >= n)
      ~> (conn[Peer(s)].rx_nonce >= n \/ conn[s].hstate = "ended")
=============================================================================
