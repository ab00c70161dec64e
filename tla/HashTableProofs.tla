--------------------------- MODULE HashTableProofs ---------------------------
(***************************************************************************)
(* Theorems about the hash tables of dyn_htable.c, and with those about    *)
(* arrays and tables about all containers of code/devcore/base.            *)
(***************************************************************************)
EXTENDS BaseProofs

-----------------------------------------------------------------------------
(* A table and the map it holds. *)

Nodes == [key : Keys, value : Values]

(* The tables of u's size, capacity and threshold. *)
Shape(u) == [size : {u.size}, capacity : {u.capacity}, threshold : {u.threshold},
             nodes : [0 .. (u.capacity - 1) -> Seq(Nodes)]]

(* A chain of nodes for keys in D, each once, with the values m has for     *)
(* them; their chain is i of c.                                             *)
Chain(nodes, m, D, c, i) ==
  /\ nodes \in Seq(Nodes)
  /\ \A p \in 1 .. Len(nodes) :
       nodes[p].key \in D /\ nodes[p].value = m[nodes[p].key] /\ HT!Slot(nodes[p].key, c) = i
  /\ \A p, q \in 1 .. Len(nodes) : p # q => nodes[p].key # nodes[q].key

HasNode(nodes, k) == \E p \in 1 .. Len(nodes) : nodes[p].key = k

(* The nodes of t are the keys in D, each with the value m has for it.      *)
Holds(t, m, D) ==
  /\ t.size \in Int /\ t.capacity \in Nat \ {0} /\ t.threshold \in Int
  /\ t \in Shape(t)
  /\ \A i \in 0 .. (t.capacity - 1) : Chain(t.nodes[i], m, D, t.capacity, i)
  /\ \A k \in D : HasNode(t.nodes[HT!Slot(k, t.capacity)], k)

(* A key has a chain. *)
LEMMA SlotOf ==
  ASSUME NEW k \in Keys, NEW c \in Nat \ {0}
  PROVE  HT!Slot(k, c) \in 0 .. (c - 1) /\ HT!Slot(k, c) \in Nat
<1>1. Hash[k] \in Nat
  BY HashAssumption
<1> QED
  BY <1>1 DEF HT!Slot

(* A node at the place p of its chain is what the table finds for its key. *)
LEMMA FindsTheNode ==
  ASSUME NEW t, NEW m, NEW D \in SUBSET Keys, Holds(t, m, D), NEW k \in D
  PROVE  /\ HT!Slot(k, t.capacity) \in 0 .. (t.capacity - 1)
         /\ HT!Place(t, k) \in 1 .. Len(t.nodes[HT!Slot(k, t.capacity)])
         /\ t.nodes[HT!Slot(k, t.capacity)][HT!Place(t, k)].key = k
         /\ HT!HasKey(t, k)
         /\ HT!Lookup(t, k) = m[k]
<1> DEFINE i == HT!Slot(k, t.capacity)
           c == t.nodes[i]
<1>1. i \in 0 .. (t.capacity - 1)
  BY SlotOf DEF Holds
<1>2. c \in Seq(Nodes) /\ DOMAIN c = 1 .. Len(c)
  BY <1>1 DEF Holds, Shape
<1>3. PICK p \in 1 .. Len(c) : c[p].key = k
  BY DEF Holds, HasNode
<1>4. HT!Places(t, k) = {p}
  <2>1. HT!Places(t, k) = {q \in 1 .. Len(c) : c[q].key = k}
    BY <1>2 DEF HT!Places
  <2>2. \A q \in 1 .. Len(c) : c[q].key = k => q = p
    BY <1>1, <1>3 DEF Holds, Chain
  <2> QED
    BY <1>3, <2>1, <2>2
<1>5. HT!Place(t, k) = p
  <2>1. \A x \in {p} : x = p /\ x <= p
    BY <1>3
  <2>2. (CHOOSE x \in {p} : \A y \in {p} : x <= y) \in {p}
    BY <2>1
  <2> QED
    BY <1>4, <2>2 DEF HT!Place
<1>6. c[p].value = m[k]
  BY <1>1, <1>3 DEF Holds, Chain
<1> QED
  BY <1>1, <1>3, <1>4, <1>5, <1>6 DEF HT!HasKey, HT!Lookup

LEMMA FindsNoNode ==
  ASSUME NEW t, NEW m, NEW D \in SUBSET Keys, Holds(t, m, D), NEW k \in Keys, k \notin D
  PROVE  ~HT!HasKey(t, k)
<1> DEFINE i == HT!Slot(k, t.capacity)
<1>1. i \in 0 .. (t.capacity - 1)
  BY SlotOf DEF Holds
<1>2. DOMAIN t.nodes[i] = 1 .. Len(t.nodes[i])
  BY <1>1 DEF Holds, Shape
<1>3. \A p \in 1 .. Len(t.nodes[i]) : t.nodes[i][p].key # k
  BY <1>1 DEF Holds, Chain
<1> QED
  BY <1>2, <1>3 DEF HT!HasKey, HT!Places

(* The map MapOf reads from it. *)
LEMMA MapOfHolder ==
  ASSUME NEW t, NEW m, NEW D \in SUBSET Keys, m = [k \in D |-> m[k]], Holds(t, m, D)
  PROVE  HT!MapOf(t) = m /\ HT!IsInitialized(t)
<1> DEFINE K == {n.key : n \in UNION {HT!Range(t.nodes[i]) : i \in DOMAIN t.nodes}}
<1>1. DOMAIN t.nodes = 0 .. (t.capacity - 1) /\ 0 \in DOMAIN t.nodes
  BY DEF Holds, Shape
<1>2. \A i \in 0 .. (t.capacity - 1) :
        HT!Range(t.nodes[i]) = {t.nodes[i][p] : p \in 1 .. Len(t.nodes[i])}
  <2>1. \A i \in 0 .. (t.capacity - 1) : t.nodes[i] \in Seq(Nodes)
    BY DEF Holds, Shape
  <2>2. \A i \in 0 .. (t.capacity - 1) : DOMAIN t.nodes[i] = 1 .. Len(t.nodes[i])
    BY <2>1
  <2> QED
    BY <2>2 DEF HT!Range
<1>3. K = D
  <2>1. ASSUME NEW x \in K PROVE x \in D
    <3>1. PICK i \in 0 .. (t.capacity - 1) : \E n \in HT!Range(t.nodes[i]) : x = n.key
      BY <1>1
    <3>2. PICK n \in HT!Range(t.nodes[i]) : x = n.key
      BY <3>1
    <3>3. PICK p \in 1 .. Len(t.nodes[i]) : n = t.nodes[i][p]
      BY <1>2, <3>2
    <3> QED
      BY <3>2, <3>3 DEF Holds, Chain
  <2>2. ASSUME NEW k \in D PROVE k \in K
    <3> DEFINE i == HT!Slot(k, t.capacity)
    <3>1. i \in 0 .. (t.capacity - 1)
      BY SlotOf DEF Holds
    <3>2. PICK p \in 1 .. Len(t.nodes[i]) : t.nodes[i][p].key = k
      BY DEF Holds, HasNode
    <3> HIDE DEF i
    <3>3. t.nodes[i][p] \in HT!Range(t.nodes[i])
      BY <1>2, <3>1
    <3> QED
      BY <1>1, <3>1, <3>2, <3>3
  <2> HIDE DEF K
  <2> QED
    BY <2>1, <2>2
<1>4. HT!MapOf(t) = [k \in K |-> HT!Lookup(t, k)]
  BY DEF HT!MapOf
<1>5. \A k \in D : HT!Lookup(t, k) = m[k]
  BY FindsTheNode
<1> HIDE DEF K
<1>6. HT!MapOf(t) = m
  BY <1>3, <1>4, <1>5
<1>7. HT!IsInitialized(t)
  <2>1. DOMAIN << >> = {}
    OBVIOUS
  <2>2. t.nodes # << >>
    BY <1>1, <2>1
  <2> QED
    BY <2>2 DEF HT!IsInitialized, HT!NoNodes
<1> QED
  BY <1>6, <1>7

(* A chain that is another one with the node e before it. *)
Before(new, e, old) ==
  /\ new \in Seq(Nodes) /\ Len(old) \in Nat /\ Len(new) = Len(old) + 1
  /\ new[1] = e
  /\ \A p \in 1 .. Len(old) : new[p + 1] = old[p]

SameChains(t, u, i) == \A j \in 0 .. (t.capacity - 1) : j # i => u.nodes[j] = t.nodes[j]

(* _ht_push_front puts a node before the others of a chain. *)
LEMMA PushesFront ==
  ASSUME NEW s, NEW t \in Shape(s), NEW i \in 0 .. (s.capacity - 1), NEW k \in Keys, NEW v \in Values
  PROVE  LET u == HT!PushFront(t, i, k, v)
         IN  /\ u \in Shape(s)
             /\ SameChains(t, u, i)
             /\ Before(u.nodes[i], [key |-> k, value |-> v], t.nodes[i])
<1> DEFINE e == [key |-> k, value |-> v]
           c == t.nodes[i]
           d == <<e>> \o c
           w == [t.nodes EXCEPT ![i] = d]
           u == HT!PushFront(t, i, k, v)
<1>1. /\ t.nodes \in [0 .. (s.capacity - 1) -> Seq(Nodes)]
      /\ t.size = s.size /\ t.capacity = s.capacity /\ t.threshold = s.threshold
  BY DEF Shape
<1>2. c \in Seq(Nodes) /\ e \in Nodes
  BY <1>1 DEF Nodes
<1>3. d \in Seq(Nodes) /\ Len(d) = Len(c) + 1 /\ Len(c) \in Nat /\ d[1] = e
      /\ \A p \in 1 .. Len(c) : d[p + 1] = c[p]
  <2> HIDE DEF c, e
  <2>1. d \in Seq(Nodes) /\ Len(d) = Len(c) + 1 /\ Len(c) \in Nat /\ d[1] = e
    BY <1>2
  <2>2. \A p \in 1 .. Len(c) : p + 1 \in 2 .. (Len(c) + 1) /\ (p + 1) - 1 = p
    BY <2>1
  <2>3. \A p \in 1 .. Len(c) : d[p + 1] = c[p]
    BY <1>2, <2>2
  <2> QED
    BY <2>1, <2>3
<1> HIDE DEF d, e
<1>4. w \in [0 .. (s.capacity - 1) -> Seq(Nodes)] /\ w[i] = d
      /\ \A j \in 0 .. (s.capacity - 1) : j # i => w[j] = t.nodes[j]
  BY <1>1, <1>3
<1>5. u = [t EXCEPT !.nodes = w]
  BY DEF HT!PushFront, d, e
<1> HIDE DEF w, u
<1>6. u = [size |-> s.size, capacity |-> s.capacity, threshold |-> s.threshold, nodes |-> w]
  BY <1>1, <1>5 DEF Shape
<1>7. u \in Shape(s) /\ u.nodes = w
  BY <1>4, <1>6 DEF Shape
<1>8. u.nodes[i] = d
  BY <1>4, <1>7
<1>9. SameChains(t, u, i)
  BY <1>1, <1>4, <1>7 DEF SameChains
<1>10. Before(u.nodes[i], e, c)
  BY <1>3, <1>8 DEF Before
<1> QED
  BY <1>7, <1>9, <1>10 DEF u, e, c

(* A chain with a node of a new key before the others. *)
LEMMA ChainGrows ==
  ASSUME NEW m, NEW D, NEW c, NEW i, NEW old, NEW new, NEW k, NEW e,
         Chain(old, m, D, c, i), k \notin D, HT!Slot(k, c) = i,
         e = [key |-> k, value |-> m[k]], Before(new, e, old)
  PROVE  /\ Chain(new, m, D \cup {k}, c, i)
         /\ HasNode(new, k)
         /\ \A x : HasNode(old, x) => HasNode(new, x)
<1> DEFINE N == Len(old)
<1>1. N \in Nat /\ Len(new) = N + 1 /\ new \in Seq(Nodes)
  BY DEF Before
<1>2. \A q \in 1 .. (N + 1) : q = 1 \/ (q - 1 \in 1 .. N /\ new[q] = old[q - 1])
  <2>1. \A q \in 1 .. (N + 1) : q = 1 \/ (q - 1 \in 1 .. N /\ (q - 1) + 1 = q)
    BY <1>1
  <2> QED
    BY <2>1 DEF Before
<1>3. new[1].key = k /\ new[1].value = m[k]
  BY DEF Before
<1>4. \A p \in 1 .. N : old[p].key \in D /\ old[p].value = m[old[p].key] /\ HT!Slot(old[p].key, c) = i
  BY DEF Chain
<1> HIDE DEF N
<1>5. \A p \in 1 .. (N + 1) :
        /\ new[p].key \in D \cup {k} /\ new[p].value = m[new[p].key]
        /\ HT!Slot(new[p].key, c) = i
  <2> TAKE p \in 1 .. (N + 1)
  <2>1. CASE p = 1
    BY <1>3, <2>1
  <2>2. CASE p # 1
    BY <1>2, <1>4, <2>2
  <2> QED
    BY <2>1, <2>2
<1>6. ASSUME NEW p \in 1 .. (N + 1), NEW q \in 1 .. (N + 1), p # q
      PROVE  new[p].key # new[q].key
  <2>1. CASE p = 1
    BY <1>2, <1>3, <1>4, <1>6, <2>1
  <2>2. CASE q = 1
    BY <1>2, <1>3, <1>4, <1>6, <2>2
  <2>3. CASE p # 1 /\ q # 1
    <3>1. /\ p - 1 \in 1 .. N /\ q - 1 \in 1 .. N /\ new[p] = old[p - 1] /\ new[q] = old[q - 1]
          /\ p - 1 # q - 1
      BY <1>1, <1>2, <1>6, <2>3
    <3>2. \A x, y \in 1 .. N : x # y => old[x].key # old[y].key
      BY DEF Chain, N
    <3> QED
      BY <3>1, <3>2
  <2> QED
    BY <2>1, <2>2, <2>3
<1>7. Chain(new, m, D \cup {k}, c, i)
  BY <1>1, <1>5, <1>6 DEF Chain
<1>8. HasNode(new, k)
  <2>1. 1 \in 1 .. (N + 1)
    BY <1>1
  <2> QED
    BY <1>1, <1>3, <2>1 DEF HasNode
<1>9. ASSUME NEW x, HasNode(old, x) PROVE HasNode(new, x)
  <2>1. PICK p \in 1 .. N : old[p].key = x
    BY <1>9 DEF HasNode, N
  <2>2. p + 1 \in 1 .. (N + 1) /\ new[p + 1] = old[p]
    BY <1>1, <2>1 DEF N, Before
  <2> QED
    BY <1>1, <2>1, <2>2 DEF HasNode
<1> QED
  BY <1>7, <1>8, <1>9

(* The table with a new key's node holds one key more. *)
LEMMA PushHolds ==
  ASSUME NEW t, NEW m, NEW D \in SUBSET Keys, Holds(t, m, D),
         NEW k \in Keys \ D, m[k] \in Values
  PROVE  LET u == HT!PushFront(t, HT!Slot(k, t.capacity), k, m[k])
         IN  u \in Shape(t) /\ Holds(u, m, D \cup {k})
<1> DEFINE i == HT!Slot(k, t.capacity)
           v == m[k]
           u == HT!PushFront(t, i, k, v)
<1>1. t \in Shape(t) /\ t.capacity \in Nat \ {0} /\ i \in 0 .. (t.capacity - 1) /\ v \in Values
  BY SlotOf DEF Holds
<1> HIDE DEF i, v
<1>2. /\ u \in Shape(t) /\ SameChains(t, u, i)
      /\ Before(u.nodes[i], [key |-> k, value |-> v], t.nodes[i])
  BY <1>1, PushesFront
<1> HIDE DEF u
<1>3. /\ u.size = t.size /\ u.capacity = t.capacity /\ u.threshold = t.threshold /\ u \in Shape(u)
      /\ u.nodes \in [0 .. (t.capacity - 1) -> Seq(Nodes)]
  BY <1>2 DEF Shape
<1>4. /\ Chain(u.nodes[i], m, D \cup {k}, t.capacity, i) /\ HasNode(u.nodes[i], k)
      /\ \A x : HasNode(t.nodes[i], x) => HasNode(u.nodes[i], x)
  <2>1. Chain(t.nodes[i], m, D, t.capacity, i) /\ u.nodes[i] \in Seq(Nodes)
    BY <1>1, <1>3 DEF Holds
  <2>2. PICK first : first = [key |-> k, value |-> m[k]]
    OBVIOUS
  <2>3. k \notin D /\ HT!Slot(k, t.capacity) = i /\ Before(u.nodes[i], first, t.nodes[i])
    BY <1>2, <2>2 DEF i, v
  <2> QED
    BY <2>1, <2>2, <2>3, ChainGrows, SMTT(30)
<1>5. ASSUME NEW j \in 0 .. (t.capacity - 1) PROVE Chain(u.nodes[j], m, D \cup {k}, t.capacity, j)
  <2>1. CASE j = i
    BY <1>4, <2>1
  <2>2. CASE j # i
    <3>1. Chain(t.nodes[j], m, D, t.capacity, j) /\ u.nodes[j] = t.nodes[j]
      BY <1>2, <2>2 DEF Holds, SameChains
    <3> QED
      BY <3>1 DEF Chain
  <2> QED
    BY <2>1, <2>2
<1>6. ASSUME NEW x \in D \cup {k} PROVE HasNode(u.nodes[HT!Slot(x, t.capacity)], x)
  <2>1. CASE x = k
    BY <1>4, <2>1 DEF i
  <2>2. CASE x \in D
    <3>1. HT!Slot(x, t.capacity) \in 0 .. (t.capacity - 1) /\ HasNode(t.nodes[HT!Slot(x, t.capacity)], x)
      BY <1>1, <2>2, SlotOf DEF Holds
    <3> QED
      BY <1>2, <1>4, <3>1 DEF SameChains
  <2> QED
    BY <2>1, <2>2
<1>7. Holds(u, m, D \cup {k})
  BY <1>3, <1>5, <1>6 DEF Holds
<1> QED
  BY <1>2, <1>7 DEF u, i, v

-----------------------------------------------------------------------------
(* _ht_rehash: the nodes are moved, chain by chain, one after another. *)

LEMMA NodeMoves ==
  ASSUME NEW s, s.capacity \in Nat \ {0}, NEW t \in Shape(s), NEW node \in Nodes
  PROVE  HT!MoveNode(t, node) \in Shape(s)
<1>1. node.key \in Keys /\ node.value \in Values /\ t.capacity = s.capacity
  BY DEF Nodes, Shape
<1>2. HT!Slot(node.key, t.capacity) \in 0 .. (s.capacity - 1)
  BY <1>1, SlotOf
<1> DEFINE i == HT!Slot(node.key, t.capacity)
           k == node.key
           v == node.value
<1> HIDE DEF i, k, v
<1>3. HT!PushFront(t, i, k, v) \in Shape(s)
  BY <1>1, <1>2, PushesFront DEF i, k, v
<1> QED
  BY <1>3 DEF HT!MoveNode, i, k, v

(* The turns of the loop over one chain. *)
MovesChain(at, s, t, chain) ==
  /\ at \in [0 .. Len(chain) -> Shape(s)]
  /\ at[0] = t
  /\ \A n \in 0 .. (Len(chain) - 1) : at[n + 1] = HT!MoveNode(at[n], chain[n + 1])
  /\ HT!MoveChain(t, chain) = at[Len(chain)]

LEMMA ChainMoves ==
  ASSUME NEW s, s.capacity \in Nat \ {0}, NEW t \in Shape(s), NEW chain \in Seq(Nodes)
  PROVE  \E at : MovesChain(at, s, t, chain)
<1> DEFINE N    == Len(chain)
           T    == Shape(s)
           step == [x \in (1 .. N) \X T |-> HT!MoveNode(x[2], chain[x[1]])]
           at   == CHOOSE at : at = [n \in 0 .. N |->
                                       IF n = 0 THEN t ELSE HT!MoveNode(at[n - 1], chain[n])]
<1>1. N \in Nat /\ t \in T /\ \A n \in 1 .. N : chain[n] \in Nodes
  OBVIOUS
<1>2. step \in [(1 .. N) \X T -> T]
  <2> SUFFICES ASSUME NEW x \in (1 .. N) \X T PROVE HT!MoveNode(x[2], chain[x[1]]) \in T
    OBVIOUS
  <2>1. x[1] \in 1 .. N /\ x[2] \in T
    OBVIOUS
  <2>2. chain[x[1]] \in Nodes
    BY <1>1, <2>1
  <2> QED
    BY <2>1, <2>2, NodeMoves
<1>3. PICK f : RunsLoop(f, N, T, t, step)
  <2> HIDE DEF N, T, step, at
  <2> QED
    BY <1>1, <1>2, LoopRuns
<1>4. /\ f \in [0 .. N -> T] /\ f[0] = t
      /\ \A n \in 1 .. N : f[n] = step[<<n, f[n - 1]>>]
  BY <1>3 DEF RunsLoop
<1>5. \A n \in 1 .. N : f[n] = HT!MoveNode(f[n - 1], chain[n])
  <2> HIDE DEF N, T
  <2> TAKE n \in 1 .. N
  <2>1. n - 1 \in 0 .. N
    BY <1>1
  <2>2. <<n, f[n - 1]>> \in (1 .. N) \X T
    BY <1>4, <2>1
  <2>3. step[<<n, f[n - 1]>>] = HT!MoveNode(f[n - 1], chain[n])
    BY <2>2
  <2> HIDE DEF step
  <2> QED
    BY <1>4, <2>3
<1>6. f = [n \in 0 .. N |-> IF n = 0 THEN t ELSE HT!MoveNode(f[n - 1], chain[n])]
  <2>1. \A n \in 0 .. N : n # 0 => n \in 1 .. N
    BY <1>1
  <2> HIDE DEF step, T, N, at
  <2>2. \A n \in 0 .. N : f[n] = IF n = 0 THEN t ELSE HT!MoveNode(f[n - 1], chain[n])
    BY <1>4, <1>5, <2>1
  <2> QED
    BY <1>4, <2>2
<1>7. at = [n \in 0 .. N |-> IF n = 0 THEN t ELSE HT!MoveNode(at[n - 1], chain[n])]
  BY <1>6
<1>8. HT!MoveChain(t, chain) = at[N]
  BY DEF HT!MoveChain
<1> HIDE DEF at
<1>9. at[0] = t
  BY <1>1, <1>7
<1>10. ASSUME NEW n \in 0 .. (N - 1) PROVE at[n + 1] = HT!MoveNode(at[n], chain[n + 1])
  <2>1. n + 1 \in 0 .. N /\ n + 1 # 0 /\ (n + 1) - 1 = n
    BY <1>1
  <2> QED
    BY <1>7, <2>1
<1>11. at \in [0 .. N -> T]
  <2> DEFINE In == {n \in 0 .. N : at[n] \in T}
  <2>1. 0 \in In
    BY <1>1, <1>9
  <2>2. ASSUME NEW n \in 0 .. (N - 1), n \in In PROVE n + 1 \in In
    <3>1. n + 1 \in 0 .. N /\ n + 1 \in 1 .. N
      BY <1>1
    <3>2. chain[n + 1] \in Nodes /\ at[n] \in T
      BY <1>1, <2>2, <3>1
    <3>3. HT!MoveNode(at[n], chain[n + 1]) \in T
      BY <3>2, NodeMoves
    <3> QED
      BY <1>10, <3>1, <3>3
  <2>3. \A n \in 0 .. N : n \in In
    <3> HIDE DEF In
    <3> QED
      BY <1>1, <2>1, <2>2, UpTo
  <2> QED
    BY <1>7, <2>3
<1> QED
  BY <1>8, <1>9, <1>10, <1>11 DEF MovesChain

(* A table that is given the nodes of a chain holds their keys too. *)
LEMMA ChainMoved ==
  ASSUME NEW t, NEW m, NEW D \in SUBSET Keys, Holds(t, m, D), NEW chain \in Seq(Nodes),
         \A p \in 1 .. Len(chain) : chain[p].key \notin D /\ chain[p].value = m[chain[p].key],
         \A p, q \in 1 .. Len(chain) : p # q => chain[p].key # chain[q].key
  PROVE  /\ HT!MoveChain(t, chain) \in Shape(t)
         /\ Holds(HT!MoveChain(t, chain), m, D \cup {chain[p].key : p \in 1 .. Len(chain)})
<1> DEFINE N == Len(chain)
           K(n) == D \cup {chain[p].key : p \in 1 .. n}
<1>1. N \in Nat /\ \A n \in 1 .. N : chain[n] \in Nodes
  OBVIOUS
<1>2. PICK at : MovesChain(at, t, t, chain)
  BY ChainMoves DEF Holds
<1>3. /\ at \in [0 .. N -> Shape(t)] /\ at[0] = t
      /\ \A n \in 0 .. (N - 1) : at[n + 1] = HT!MoveNode(at[n], chain[n + 1])
      /\ HT!MoveChain(t, chain) = at[N]
  BY <1>2 DEF MovesChain
<1> DEFINE Done == {n \in 0 .. N : Holds(at[n], m, K(n))}
<1>4. 0 \in Done
  <2>1. K(0) = D
    OBVIOUS
  <2> HIDE DEF K
  <2> QED
    BY <1>1, <1>3, <2>1
<1>5. ASSUME NEW n \in 0 .. (N - 1), n \in Done PROVE n + 1 \in Done
  <2>1. n + 1 \in 0 .. N /\ n + 1 \in 1 .. N /\ n \in Nat
    BY <1>1
  <2> DEFINE k == chain[n + 1].key
             E == K(n)
             u == at[n]
  <2>2. k \in Keys /\ chain[n + 1].value = m[k] /\ m[k] \in Values
    BY <1>1, <2>1 DEF Nodes
  <2>3. k \notin E /\ E \in SUBSET Keys
    <3>1. \A p \in 1 .. n : p \in 1 .. N /\ p # n + 1
      BY <2>1
    <3>2. \A p \in 1 .. n : chain[p].key # k /\ chain[p].key \in Keys
      BY <1>1, <2>1, <3>1 DEF Nodes
    <3>3. k \notin D
      BY <2>1
    <3> QED
      BY <3>2, <3>3
  <2>4. K(n + 1) = E \cup {k}
    <3>1. \A p : p \in 1 .. (n + 1) <=> p \in 1 .. n \/ p = n + 1
      BY <2>1
    <3> QED
      BY <3>1
  <2>5. Holds(u, m, E)
    BY <1>5
  <2>6. at[n + 1] = HT!PushFront(u, HT!Slot(k, u.capacity), k, m[k])
    BY <1>3, <2>2 DEF HT!MoveNode
  <2> HIDE DEF E, u, k, K
  <2>7. Holds(HT!PushFront(u, HT!Slot(k, u.capacity), k, m[k]), m, E \cup {k})
    BY <2>2, <2>3, <2>5, PushHolds
  <2> QED
    BY <2>1, <2>4, <2>6, <2>7
<1>6. N \in Done
  <2> HIDE DEF Done, N
  <2>1. N \in 0 .. N /\ \A n \in 0 .. N : n \in Done
    BY <1>1, <1>4, <1>5, UpTo, SMTT(30)
  <2> QED
    BY <2>1
<1> QED
  BY <1>1, <1>3, <1>6

LEMMA ChainMovesIn ==
  ASSUME NEW s, s.capacity \in Nat \ {0}, NEW t \in Shape(s), NEW chain \in Seq(Nodes)
  PROVE  HT!MoveChain(t, chain) \in Shape(s)
<1>1. PICK at : MovesChain(at, s, t, chain)
  BY ChainMoves
<1>2. Len(chain) \in 0 .. Len(chain)
  OBVIOUS
<1> QED
  BY <1>1, <1>2 DEF MovesChain

(* The turns of the loop over the chains. *)
Rehashes(at, old, new) ==
  /\ at \in [0 .. old.capacity -> Shape(new)]
  /\ at[0] = new
  /\ \A n \in 0 .. (old.capacity - 1) : at[n + 1] = HT!MoveChain(at[n], old.nodes[n])
  /\ HT!Rehash(old, new) = at[old.capacity]

LEMMA RehashRuns ==
  ASSUME NEW old, old.capacity \in Nat \ {0}, old \in Shape(old),
         NEW new, new.capacity \in Nat \ {0}, new \in Shape(new)
  PROVE  \E at : Rehashes(at, old, new)
<1> DEFINE N    == old.capacity
           T    == Shape(new)
           step == [x \in (1 .. N) \X T |-> HT!MoveChain(x[2], old.nodes[x[1] - 1])]
           at   == CHOOSE at : at = [n \in 0 .. N |->
                                       IF n = 0 THEN new ELSE HT!MoveChain(at[n - 1], old.nodes[n - 1])]
<1>1. N \in Nat /\ new \in T /\ \A n \in 0 .. (N - 1) : old.nodes[n] \in Seq(Nodes)
  BY DEF Shape
<1>2. step \in [(1 .. N) \X T -> T]
  <2> SUFFICES ASSUME NEW x \in (1 .. N) \X T PROVE HT!MoveChain(x[2], old.nodes[x[1] - 1]) \in T
    OBVIOUS
  <2>1. x[1] \in 1 .. N /\ x[2] \in T
    OBVIOUS
  <2>2. x[1] - 1 \in 0 .. (N - 1)
    BY <1>1, <2>1
  <2> QED
    BY <1>1, <2>1, <2>2, ChainMovesIn
<1>3. PICK f : RunsLoop(f, N, T, new, step)
  <2> HIDE DEF N, T, step, at
  <2> QED
    BY <1>1, <1>2, LoopRuns
<1>4. /\ f \in [0 .. N -> T] /\ f[0] = new
      /\ \A n \in 1 .. N : f[n] = step[<<n, f[n - 1]>>]
  BY <1>3 DEF RunsLoop
<1>5. \A n \in 1 .. N : f[n] = HT!MoveChain(f[n - 1], old.nodes[n - 1])
  <2> HIDE DEF N, T
  <2> TAKE n \in 1 .. N
  <2>1. n - 1 \in 0 .. N
    BY <1>1
  <2>2. <<n, f[n - 1]>> \in (1 .. N) \X T
    BY <1>4, <2>1
  <2>3. step[<<n, f[n - 1]>>] = HT!MoveChain(f[n - 1], old.nodes[n - 1])
    BY <2>2
  <2> HIDE DEF step
  <2> QED
    BY <1>4, <2>3
<1>6. f = [n \in 0 .. N |-> IF n = 0 THEN new ELSE HT!MoveChain(f[n - 1], old.nodes[n - 1])]
  <2>1. \A n \in 0 .. N : n # 0 => n \in 1 .. N
    BY <1>1
  <2> HIDE DEF step, T, N, at
  <2>2. \A n \in 0 .. N : f[n] = IF n = 0 THEN new ELSE HT!MoveChain(f[n - 1], old.nodes[n - 1])
    BY <1>4, <1>5, <2>1
  <2> QED
    BY <1>4, <2>2
<1>7. at = [n \in 0 .. N |-> IF n = 0 THEN new ELSE HT!MoveChain(at[n - 1], old.nodes[n - 1])]
  BY <1>6
<1>8. HT!Rehash(old, new) = at[N]
  BY DEF HT!Rehash
<1> HIDE DEF at
<1>9. at[0] = new
  BY <1>1, <1>7
<1>10. ASSUME NEW n \in 0 .. (N - 1) PROVE at[n + 1] = HT!MoveChain(at[n], old.nodes[n])
  <2>1. n + 1 \in 0 .. N /\ n + 1 # 0 /\ (n + 1) - 1 = n
    BY <1>1
  <2> QED
    BY <1>7, <2>1
<1>11. at \in [0 .. N -> T]
  <2> DEFINE In == {n \in 0 .. N : at[n] \in T}
  <2>1. 0 \in In
    BY <1>1, <1>9
  <2>2. ASSUME NEW n \in 0 .. (N - 1), n \in In PROVE n + 1 \in In
    <3>1. n + 1 \in 0 .. N
      BY <1>1
    <3>2. old.nodes[n] \in Seq(Nodes) /\ at[n] \in T
      BY <1>1, <2>2
    <3>3. HT!MoveChain(at[n], old.nodes[n]) \in T
      BY <3>2, ChainMovesIn
    <3> QED
      BY <1>10, <3>1, <3>3
  <2>3. \A n \in 0 .. N : n \in In
    <3> HIDE DEF In
    <3> QED
      BY <1>1, <2>1, <2>2, UpTo
  <2> QED
    BY <1>7, <2>3
<1> QED
  BY <1>8, <1>9, <1>10, <1>11 DEF Rehashes

(* An empty table that is given all chains of another holds what it held. *)
LEMMA Rehashed ==
  ASSUME NEW old, NEW m, NEW D \in SUBSET Keys, Holds(old, m, D),
         NEW new, Holds(new, m, {})
  PROVE  HT!Rehash(old, new) \in Shape(new) /\ Holds(HT!Rehash(old, new), m, D)
<1> DEFINE N == old.capacity
           K(n) == {k \in D : HT!Slot(k, N) < n}
           Slotted(n) == {k \in D : HT!Slot(k, N) = n}
<1>1. N \in Nat \ {0} /\ old \in Shape(old) /\ new.capacity \in Nat \ {0} /\ new \in Shape(new)
  BY DEF Holds
<1>2. \A k \in D : HT!Slot(k, N) \in 0 .. (N - 1)
  BY <1>1, SlotOf
<1>3. PICK at : Rehashes(at, old, new)
  BY <1>1, RehashRuns
<1>4. /\ at \in [0 .. N -> Shape(new)] /\ at[0] = new
      /\ \A n \in 0 .. (N - 1) : at[n + 1] = HT!MoveChain(at[n], old.nodes[n])
      /\ HT!Rehash(old, new) = at[N]
  BY <1>3 DEF Rehashes
<1> DEFINE Done == {n \in 0 .. N : Holds(at[n], m, K(n))}
<1>5. 0 \in Done
  <2>1. K(0) = {} /\ 0 \in 0 .. N
    BY <1>1, <1>2
  <2>2. at[0] = new
    BY <1>4
  <2> HIDE DEF K
  <2>3. Holds(at[0], m, K(0))
    BY <2>1, <2>2
  <2> QED
    BY <2>1, <2>3
<1>6. ASSUME NEW n \in 0 .. (N - 1), n \in Done PROVE n + 1 \in Done
  <2>1. n + 1 \in 0 .. N /\ n \in Nat
    BY <1>1
  <2> DEFINE u == at[n]
             c == old.nodes[n]
             E == K(n)
  <2>2. Chain(c, m, D, N, n) /\ c \in Seq(Nodes)
    BY DEF Holds, Chain
  <2>3. {c[p].key : p \in 1 .. Len(c)} = Slotted(n)
    <3>1. \A p \in 1 .. Len(c) : c[p].key \in Slotted(n)
      BY <2>2 DEF Chain
    <3>2. \A k \in Slotted(n) : HasNode(c, k)
      BY DEF Holds
    <3> HIDE DEF c, Slotted
    <3> QED
      BY <3>1, <3>2 DEF HasNode
  <2>4. K(n + 1) = E \cup Slotted(n) /\ E \in SUBSET Keys /\ \A k \in Slotted(n) : k \notin E
    <3>1. \A k \in D : HT!Slot(k, N) < n + 1 <=> HT!Slot(k, N) < n \/ HT!Slot(k, N) = n
      BY <1>2, <2>1
    <3> QED
      BY <3>1, <2>1
  <2>5. Holds(u, m, E)
    BY <1>6
  <2> HIDE DEF u, c, E, Slotted, K
  <2>6. /\ \A p \in 1 .. Len(c) : c[p].key \notin E /\ c[p].value = m[c[p].key]
        /\ \A p, q \in 1 .. Len(c) : p # q => c[p].key # c[q].key
    BY <2>2, <2>3, <2>4 DEF Chain
  <2>7. Holds(HT!MoveChain(u, c), m, E \cup {c[p].key : p \in 1 .. Len(c)})
    BY <2>2, <2>4, <2>5, <2>6, ChainMoved
  <2>8. at[n + 1] = HT!MoveChain(u, c)
    BY <1>4 DEF u, c
  <2>9. E \cup {c[p].key : p \in 1 .. Len(c)} = K(n + 1)
    BY <2>3, <2>4
  <2> QED
    BY <2>1, <2>7, <2>8, <2>9
<1>7. N \in Done
  <2> HIDE DEF Done, N
  <2>1. N \in 0 .. N /\ \A n \in 0 .. N : n \in Done
    BY <1>1, <1>5, <1>6, UpTo
  <2> QED
    BY <2>1
<1>8. K(N) = D
  BY <1>1, <1>2
<1> HIDE DEF K
<1>9. N \in 0 .. N
  BY <1>1
<1> QED
  BY <1>4, <1>7, <1>8, <1>9

-----------------------------------------------------------------------------
(* Each call keeps a table one, and the map its promise. *)

(* A table without nodes, of any capacity. *)
LEMMA Allocated ==
  ASSUME NEW s, NEW t \in Shape(s), t.size \in Int, NEW c \in Nat \ {0}, NEW m
  PROVE  /\ HT!Allocate(t, c).size = t.size /\ HT!Allocate(t, c).capacity = c
         /\ Holds(HT!Allocate(t, c), m, {})
<1> DEFINE w == [i \in 0 .. (c - 1) |-> << >>]
           h == c * HT_LOAD_FACTOR
           u == [size |-> t.size, capacity |-> c, threshold |-> h, nodes |-> w]
<1>1. w \in [0 .. (c - 1) -> Seq(Nodes)] /\ \A i \in 0 .. (c - 1) : w[i] = << >>
  OBVIOUS
<1>2. h \in Int
  BY HashAssumption
<1>3. HT!Allocate(t, c) = [t EXCEPT !.nodes = w, !.capacity = c, !.threshold = h]
  BY DEF HT!Allocate
<1> HIDE DEF w, h
<1>4. HT!Allocate(t, c) = u
  BY <1>3 DEF Shape
<1>5. \A i \in 0 .. (c - 1) : Chain(<< >>, m, {}, c, i)
  BY DEF Chain
<1>6. u \in Shape(u)
  BY <1>1 DEF Shape
<1>7. Holds(u, m, {})
  BY <1>1, <1>2, <1>5, <1>6 DEF Holds
<1> QED
  BY <1>4, <1>7

(* _ht_resize, up or down. *)
LEMMA ResizeHolds ==
  ASSUME NEW t, NEW m, NEW D \in SUBSET Keys, Holds(t, m, D), NEW c \in Int
  PROVE  Holds(HT!HtResize(t, c), m, D) /\ HT!HtResize(t, c).size = t.size
<1> DEFINE wanted == IF c < HT_MINIMUM_CAPACITY THEN HT_MINIMUM_CAPACITY ELSE c
           new == HT!Allocate(t, wanted)
<1>1. wanted \in Nat \ {0}
  BY HashAssumption
<1> HIDE DEF wanted
<1>2. t \in Shape(t) /\ t.size \in Int
  BY DEF Holds
<1>3. new.size = t.size /\ Holds(new, m, {})
  BY <1>1, <1>2, Allocated
<1> HIDE DEF new
<1>4. HT!Rehash(t, new) \in Shape(new) /\ Holds(HT!Rehash(t, new), m, D)
  BY <1>3, Rehashed
<1>5. HT!Rehash(t, new).size = t.size
  BY <1>3, <1>4 DEF Shape
<1>6. HT!HtResize(t, c) = t \/ HT!HtResize(t, c) = HT!Rehash(t, new)
  BY DEF HT!HtResize, new, wanted
<1> QED
  BY <1>4, <1>5, <1>6

(* A table holds what it holds whatever its size says. *)
LEMMA SizeIsFree ==
  ASSUME NEW t, NEW m, NEW D, Holds(t, m, D), NEW n \in Int
  PROVE  Holds([t EXCEPT !.size = n], m, D)
<1> DEFINE u == [size |-> n, capacity |-> t.capacity, threshold |-> t.threshold, nodes |-> t.nodes]
<1>1. [t EXCEPT !.size = n] = u
  BY DEF Holds, Shape
<1>2. u \in Shape(u)
  BY DEF Holds, Shape
<1>3. Holds(u, m, D)
  BY <1>2 DEF Holds
<1> QED
  BY <1>1, <1>3

(* Two maps that agree on the keys. *)
LEMMA HoldsAlike ==
  ASSUME NEW t, NEW m, NEW D, Holds(t, m, D), NEW w, \A k \in D : w[k] = m[k]
  PROVE  Holds(t, w, D)
<1>1. \A i \in 0 .. (t.capacity - 1) : Chain(t.nodes[i], w, D, t.capacity, i)
  BY DEF Holds, Chain
<1> QED
  BY <1>1 DEF Holds

(* A table in which the chain of k is another, for a map that differs at k *)
(* only.                                                                   *)
LEMMA ChainReplaced ==
  ASSUME NEW t, NEW m, NEW D \in SUBSET Keys, Holds(t, m, D), NEW k \in Keys,
         NEW w, NEW E \in SUBSET Keys, NEW chain,
         Chain(chain, w, E, t.capacity, HT!Slot(k, t.capacity)),
         \A x \in D : x # k => x \in E /\ w[x] = m[x],
         \A x \in E : x # k => x \in D,
         \A x \in E : HT!Slot(x, t.capacity) = HT!Slot(k, t.capacity) => HasNode(chain, x)
  PROVE  Holds([t EXCEPT !.nodes = [@ EXCEPT ![HT!Slot(k, t.capacity)] = chain]], w, E)
<1> DEFINE i == HT!Slot(k, t.capacity)
           a == [t.nodes EXCEPT ![i] = chain]
           u == [size |-> t.size, capacity |-> t.capacity, threshold |-> t.threshold, nodes |-> a]
<1>1. i \in 0 .. (t.capacity - 1)
  BY SlotOf DEF Holds
<1>2. /\ t.size \in Int /\ t.capacity \in Nat \ {0} /\ t.threshold \in Int
      /\ t.nodes \in [0 .. (t.capacity - 1) -> Seq(Nodes)]
      /\ chain \in Seq(Nodes)
  BY DEF Holds, Shape, Chain
<1>3. \A j \in 0 .. (t.capacity - 1) : j # i => Chain(t.nodes[j], w, E, t.capacity, j)
  <2> SUFFICES ASSUME NEW j \in 0 .. (t.capacity - 1), j # i
               PROVE  Chain(t.nodes[j], w, E, t.capacity, j)
    OBVIOUS
  <2>1. Chain(t.nodes[j], m, D, t.capacity, j)
    BY DEF Holds
  <2>2. \A p \in 1 .. Len(t.nodes[j]) : t.nodes[j][p].key # k
    BY <2>1 DEF Chain
  <2> QED
    BY <2>1, <2>2 DEF Chain
<1>4. \A x \in E : HT!Slot(x, t.capacity) # i =>
        HasNode(t.nodes[HT!Slot(x, t.capacity)], x) /\ HT!Slot(x, t.capacity) \in 0 .. (t.capacity - 1)
  <2> SUFFICES ASSUME NEW x \in E, HT!Slot(x, t.capacity) # i
               PROVE  HasNode(t.nodes[HT!Slot(x, t.capacity)], x)
                      /\ HT!Slot(x, t.capacity) \in 0 .. (t.capacity - 1)
    OBVIOUS
  <2>1. x \in D /\ x \in Keys
    OBVIOUS
  <2> QED
    BY <1>2, <2>1, SlotOf DEF Holds
<1>5. [t EXCEPT !.nodes = a] = u
  <2> HIDE DEF a
  <2> QED
    BY DEF Holds, Shape
<1>6. /\ a \in [0 .. (t.capacity - 1) -> Seq(Nodes)] /\ a[i] = chain
      /\ \A j \in 0 .. (t.capacity - 1) : j # i => a[j] = t.nodes[j]
  BY <1>1, <1>2
<1> HIDE DEF a, i
<1>7. u \in Shape(u)
  BY <1>6 DEF Shape
<1>8. \A j \in 0 .. (t.capacity - 1) : Chain(a[j], w, E, t.capacity, j)
  BY <1>3, <1>6 DEF i
<1>9. \A x \in E : HasNode(a[HT!Slot(x, t.capacity)], x)
  BY <1>4, <1>6 DEF i
<1>10. Holds(u, w, E)
  BY <1>2, <1>7, <1>8, <1>9 DEF Holds
<1> QED
  BY <1>5, <1>10 DEF a, i

(* ht_insert of a key that is there overwrites the value in its node. *)
LEMMA OverwriteHolds ==
  ASSUME NEW t, NEW m, NEW D \in SUBSET Keys, Holds(t, m, D), NEW k \in D, NEW v \in Values,
         NEW w, w[k] = v, \A x \in D : x # k => w[x] = m[x]
  PROVE  Holds([t EXCEPT !.nodes[HT!Slot(k, t.capacity)][HT!Place(t, k)].value = v], w, D)
<1> DEFINE i == HT!Slot(k, t.capacity)
           p == HT!Place(t, k)
           c == t.nodes[i]
           e == [key |-> k, value |-> v]
           d == [c EXCEPT ![p] = e]
<1>1. i \in 0 .. (t.capacity - 1) /\ p \in 1 .. Len(c) /\ c[p].key = k
  BY FindsTheNode
<1>2. Chain(c, m, D, t.capacity, i) /\ c \in Seq(Nodes)
  BY <1>1 DEF Holds, Chain
<1>3. c[p] \in Nodes /\ [c[p] EXCEPT !.value = v] = e /\ e \in Nodes
  <2>1. c[p] \in Nodes
    <3> HIDE DEF c, p
    <3> QED
      BY <1>1, <1>2
  <2>2. \A n \in Nodes : n.key = k => [n EXCEPT !.value = v] = e
    BY DEF Nodes
  <2>3. e \in Nodes
    BY DEF Nodes
  <2> HIDE DEF c, p, e
  <2> QED
    BY <1>1, <2>1, <2>2, <2>3
<1>4. [t EXCEPT !.nodes[i][p].value = v] = [t EXCEPT !.nodes = [@ EXCEPT ![i] = d]]
  <2> DEFINE a == [t.nodes EXCEPT ![i] = [c EXCEPT ![p] = [c[p] EXCEPT !.value = v]]]
  <2>1. [t EXCEPT !.nodes[i][p].value = v] = [t EXCEPT !.nodes = a]
    OBVIOUS
  <2>2. a = [t.nodes EXCEPT ![i] = d]
    BY <1>3
  <2> QED
    BY <2>1, <2>2
<1>5. /\ d \in Seq(Nodes) /\ Len(d) = Len(c) /\ d[p] = e
      /\ \A q \in 1 .. Len(c) : q # p => d[q] = c[q]
  <2> HIDE DEF c, e, p
  <2> QED
    BY <1>1, <1>2, <1>3
<1>6. e.key = k /\ e.value = v
  OBVIOUS
<1> HIDE DEF d, e, c, p
<1>7. \A q \in 1 .. Len(c) : d[q].key = c[q].key
  BY <1>1, <1>5, <1>6
<1>8. \A q \in 1 .. Len(c) : q # p => c[q].key # k
  BY <1>1, <1>2 DEF Chain
<1>9. \A q \in 1 .. Len(d) :
        d[q].key \in D /\ d[q].value = w[d[q].key] /\ HT!Slot(d[q].key, t.capacity) = i
  <2> TAKE q \in 1 .. Len(d)
  <2>1. CASE q = p
    BY <1>1, <1>5, <1>6, <2>1
  <2>2. CASE q # p
    <3>1. d[q] = c[q] /\ c[q].key # k /\ c[q].key \in D /\ c[q].value = m[c[q].key]
          /\ HT!Slot(c[q].key, t.capacity) = i
      BY <1>2, <1>5, <1>8, <2>2 DEF Chain
    <3> QED
      BY <3>1
  <2> QED
    BY <2>1, <2>2
<1>10. \A x, y \in 1 .. Len(d) : x # y => d[x].key # d[y].key
  BY <1>2, <1>5, <1>7 DEF Chain
<1>11. Chain(d, w, D, t.capacity, i)
  BY <1>5, <1>9, <1>10 DEF Chain
<1>12. \A x \in D : HT!Slot(x, t.capacity) = i => HasNode(d, x)
  <2> SUFFICES ASSUME NEW x \in D, HT!Slot(x, t.capacity) = i PROVE HasNode(d, x)
    OBVIOUS
  <2>1. HasNode(c, x)
    BY DEF Holds, c
  <2> QED
    BY <1>5, <1>7, <2>1 DEF HasNode
<1> HIDE DEF i
<1>13. Holds([t EXCEPT !.nodes = [@ EXCEPT ![i] = d]], w, D)
  BY <1>11, <1>12, ChainReplaced DEF i
<1> QED
  BY <1>4, <1>13 DEF i, p

LEMMA AdjustHolds ==
  ASSUME NEW t, NEW m, NEW D \in SUBSET Keys, Holds(t, m, D)
  PROVE  Holds(HT!AdjustCapacity(t), m, D)
<1>1. t.size \in Int /\ HT_GROWTH_FACTOR \in Int
  BY HashAssumption DEF Holds
<1>2. t.size * HT_GROWTH_FACTOR \in Int
  BY <1>1
<1> QED
  BY <1>2, ResizeHolds DEF HT!AdjustCapacity

(* ht_insert: a key more, or another value for one that was there. *)
LEMMA InsertHolds ==
  ASSUME NEW t, NEW D \in SUBSET Keys, NEW m \in [D -> Values], Holds(t, m, D),
         NEW k \in Keys, NEW v \in Values
  PROVE  Holds(HT!HtInsert(t, k, v), [x \in D \cup {k} |-> IF x = k THEN v ELSE m[x]], D \cup {k})
<1> DEFINE w == [x \in D \cup {k} |-> IF x = k THEN v ELSE m[x]]
           g == IF HT!ShouldGrow(t) THEN HT!AdjustCapacity(t) ELSE t
           i == HT!Slot(k, g.capacity)
<1>1. Holds(g, m, D)
  BY AdjustHolds
<1>2. w[k] = v /\ \A x \in D : x # k => w[x] = m[x]
  OBVIOUS
<1> HIDE DEF g, w
<1>3. HT!HtInsert(t, k, v) =
        IF HT!HasKey(g, k) THEN [g EXCEPT !.nodes[i][HT!Place(g, k)].value = v]
        ELSE [HT!PushFront(g, i, k, v) EXCEPT !.size = @ + 1]
  BY DEF HT!HtInsert, g
<1>4. CASE k \in D
  <2>1. HT!HasKey(g, k) /\ D \cup {k} = D
    BY <1>1, <1>4, FindsTheNode
  <2>2. Holds([g EXCEPT !.nodes[i][HT!Place(g, k)].value = v], w, D)
    BY <1>1, <1>2, <1>4, OverwriteHolds
  <2> QED
    BY <1>3, <2>1, <2>2 DEF w
<1>5. CASE k \notin D
  <2>1. ~HT!HasKey(g, k)
    BY <1>1, <1>5, FindsNoNode
  <2>2. Holds(g, w, D)
    BY <1>1, <1>2, <1>5, HoldsAlike
  <2> DEFINE u == HT!PushFront(g, i, k, v)
  <2>3. Holds(u, w, D \cup {k})
    BY <1>2, <1>5, <2>2, PushHolds
  <2> HIDE DEF u
  <2>4. u.size + 1 \in Int
    BY <2>3 DEF Holds
  <2>5. Holds([u EXCEPT !.size = u.size + 1], w, D \cup {k})
    BY <2>3, <2>4, SizeIsFree
  <2>6. HT!HtInsert(t, k, v) = [u EXCEPT !.size = u.size + 1]
    BY <1>3, <2>1 DEF u
  <2> QED
    BY <2>5, <2>6 DEF w
<1> QED
  BY <1>4, <1>5

(* A chain without the node at one of its places. *)
LEMMA ChainShrinks ==
  ASSUME NEW c, NEW m, NEW D, NEW n, NEW i, Chain(c, m, D, n, i), NEW p \in 1 .. Len(c)
  PROVE  /\ Chain(HT!RemoveAt(c, p), m, D \ {c[p].key}, n, i)
         /\ \A x : HasNode(c, x) /\ x # c[p].key => HasNode(HT!RemoveAt(c, p), x)
<1> DEFINE d == RemoveAt(c, p)
           N == Len(c)
<1>1. c \in Seq(Nodes) /\ N \in Nat
  BY DEF Chain
<1>2. d \in Seq(Nodes) /\ Len(d) = N - 1 /\ \A j \in 1 .. (N - 1) : d[j] = c[IF j < p THEN j ELSE j + 1]
  BY <1>1, RemovedAt
<1>3. HT!RemoveAt(c, p) = d
  BY DEF HT!RemoveAt, RemoveAt
<1> HIDE DEF d
<1>4. \A j \in 1 .. (N - 1) : \E q \in 1 .. N : /\ q = (IF j < p THEN j ELSE j + 1)
                                               /\ q # p /\ d[j] = c[q]
  <2> TAKE j \in 1 .. (N - 1)
  <2>1. (IF j < p THEN j ELSE j + 1) \in 1 .. N /\ (IF j < p THEN j ELSE j + 1) # p
    BY <1>1
  <2> QED
    BY <1>2, <2>1
<1>5. /\ \A q \in 1 .. N : c[q].key \in D /\ c[q].value = m[c[q].key] /\ HT!Slot(c[q].key, n) = i
      /\ \A x, y \in 1 .. N : x # y => c[x].key # c[y].key
  BY DEF Chain
<1>6. \A j \in 1 .. (N - 1) :
        /\ d[j].key \in D \ {c[p].key} /\ d[j].value = m[d[j].key]
        /\ HT!Slot(d[j].key, n) = i
  BY <1>4, <1>5
<1>7. ASSUME NEW x \in 1 .. (N - 1), NEW y \in 1 .. (N - 1), x # y PROVE d[x].key # d[y].key
  <2>1. PICK q \in 1 .. N : q = (IF x < p THEN x ELSE x + 1) /\ d[x] = c[q]
    BY <1>4
  <2>2. PICK r \in 1 .. N : r = (IF y < p THEN y ELSE y + 1) /\ d[y] = c[r]
    BY <1>4
  <2>3. q # r
    BY <1>7, <2>1, <2>2
  <2> QED
    BY <1>5, <2>1, <2>2, <2>3
<1>8. Chain(d, m, D \ {c[p].key}, n, i)
  BY <1>2, <1>6, <1>7 DEF Chain
<1>9. ASSUME NEW x, HasNode(c, x), x # c[p].key PROVE HasNode(d, x)
  <2>1. PICK q \in 1 .. N : c[q].key = x
    BY <1>9 DEF HasNode
  <2>2. q # p
    BY <1>9, <2>1
  <2> DEFINE j == IF q < p THEN q ELSE q - 1
  <2>3. j \in 1 .. (N - 1) /\ (IF j < p THEN j ELSE j + 1) = q
    BY <1>1, <2>2
  <2> HIDE DEF j
  <2>4. d[j] = c[q]
    BY <1>2, <2>3
  <2> QED
    BY <1>2, <2>1, <2>3, <2>4 DEF HasNode
<1> QED
  BY <1>3, <1>8, <1>9

(* ht_erase of a key that is there. *)
LEMMA EraseHolds ==
  ASSUME NEW t, NEW D \in SUBSET Keys, NEW m \in [D -> Values], Holds(t, m, D), NEW k \in D
  PROVE  Holds(HT!Erase(t, k), [x \in D \ {k} |-> m[x]], D \ {k})
<1> DEFINE E == D \ {k}
           w == [x \in E |-> m[x]]
           i == HT!Slot(k, t.capacity)
           p == HT!Place(t, k)
           c == t.nodes[i]
           d == HT!RemoveAt(c, p)
           a == [t EXCEPT !.nodes = [@ EXCEPT ![i] = d]]
           b == [a EXCEPT !.size = t.size - 1]
<1>1. i \in 0 .. (t.capacity - 1) /\ p \in 1 .. Len(c) /\ c[p].key = k
  BY FindsTheNode
<1>2. Chain(c, m, D, t.capacity, i)
  BY <1>1 DEF Holds
<1>3. Chain(d, m, E, t.capacity, i) /\ \A x : HasNode(c, x) /\ x # k => HasNode(d, x)
  <2> HIDE DEF c, p, i
  <2>1. /\ Chain(HT!RemoveAt(c, p), m, D \ {c[p].key}, t.capacity, i)
        /\ \A x : HasNode(c, x) /\ x # c[p].key => HasNode(HT!RemoveAt(c, p), x)
    BY <1>1, <1>2, ChainShrinks
  <2> QED
    BY <1>1, <2>1
<1>4. \A x \in E : w[x] = m[x] /\ x # k /\ x \in D
  OBVIOUS
<1>5. Chain(d, w, E, t.capacity, i)
  <2> HIDE DEF d, w, E
  <2> QED
    BY <1>3, <1>4 DEF Chain
<1>6. \A x \in E : HT!Slot(x, t.capacity) = i => HasNode(d, x)
  <2> SUFFICES ASSUME NEW x \in E, HT!Slot(x, t.capacity) = i PROVE HasNode(d, x)
    OBVIOUS
  <2>1. HasNode(c, x)
    BY DEF Holds
  <2> QED
    BY <1>3, <1>4, <2>1
<1>7. E \in SUBSET Keys /\ \A x \in D : x # k => x \in E /\ w[x] = m[x]
  OBVIOUS
<1>8. HT!Erase(t, k) = IF HT!ShouldShrink(b) THEN HT!AdjustCapacity(b) ELSE b
  BY DEF HT!Erase
<1> HIDE DEF E, w, i, d
<1>9. Holds(a, w, E)
  BY <1>4, <1>5, <1>6, <1>7, ChainReplaced DEF i
<1> HIDE DEF a
<1>10. t.size - 1 \in Int
  BY DEF Holds
<1>11. Holds(b, w, E)
  BY <1>9, <1>10, SizeIsFree
<1> HIDE DEF b
<1>12. Holds(HT!AdjustCapacity(b), w, E)
  BY <1>7, <1>11, AdjustHolds
<1> QED
  BY <1>8, <1>11, <1>12 DEF w, E

(* ht_clear, and ht_reserve, which reallocates a table for more elements. *)
LEMMA ClearHolds ==
  ASSUME NEW t, NEW m, NEW D, Holds(t, m, D), NEW w
  PROVE  Holds(HT!Clear(t), w, {})
<1> DEFINE a == HT!Allocate(t, HT_MINIMUM_CAPACITY)
<1>1. Holds(a, w, {})
  BY HashAssumption, Allocated DEF Holds
<1> HIDE DEF a
<1>2. Holds([a EXCEPT !.size = 0], w, {})
  BY <1>1, SizeIsFree
<1> QED
  BY <1>2 DEF HT!Clear, a

LEMMA ReserveHolds ==
  ASSUME NEW t, NEW m, NEW D \in SUBSET Keys, Holds(t, m, D), NEW n \in Nat
  PROVE  Holds(HT!Reserve(t, n), m, D)
<1>1. n \div HT_LOAD_FACTOR \in Int
  BY HashAssumption
<1> QED
  BY <1>1, ResizeHolds DEF HT!Reserve

(* A chain the other way round. *)
LEMMA ChainReversed ==
  ASSUME NEW c, NEW m, NEW D, NEW n, NEW i, Chain(c, m, D, n, i)
  PROVE  Chain(HT!Reverse(c), m, D, n, i) /\ \A x : HasNode(c, x) => HasNode(HT!Reverse(c), x)
<1> DEFINE d == HT!Reverse(c)
           N == Len(c)
<1>1. c \in Seq(Nodes) /\ N \in Nat /\ \A q \in 1 .. N : c[q] \in Nodes
  BY DEF Chain
<1>2. d = [q \in 1 .. N |-> c[(N - q) + 1]]
  BY DEF HT!Reverse
<1>3. \A q \in 1 .. N : (N - q) + 1 \in 1 .. N /\ d[q] = c[(N - q) + 1]
  BY <1>1, <1>2
<1>4. d \in Seq(Nodes) /\ Len(d) = N
  <2> HIDE DEF d, N
  <2>1. d \in [1 .. N -> Nodes]
    BY <1>1, <1>2, <1>3
  <2> QED
    BY <1>1, <2>1
<1> HIDE DEF d
<1>5. /\ \A q \in 1 .. N : c[q].key \in D /\ c[q].value = m[c[q].key] /\ HT!Slot(c[q].key, n) = i
      /\ \A x, y \in 1 .. N : x # y => c[x].key # c[y].key
  BY DEF Chain
<1>6. \A q \in 1 .. N : d[q].key \in D /\ d[q].value = m[d[q].key] /\ HT!Slot(d[q].key, n) = i
  BY <1>3, <1>5
<1>7. ASSUME NEW x \in 1 .. N, NEW y \in 1 .. N, x # y PROVE d[x].key # d[y].key
  <2>1. PICK q \in 1 .. N : q = (N - x) + 1 /\ d[x] = c[q]
    BY <1>3
  <2>2. PICK r \in 1 .. N : r = (N - y) + 1 /\ d[y] = c[r]
    BY <1>3
  <2>3. q # r
    BY <1>1, <1>7, <2>1, <2>2
  <2> QED
    BY <1>5, <2>1, <2>2, <2>3
<1>8. Chain(d, m, D, n, i)
  BY <1>4, <1>6, <1>7 DEF Chain
<1>9. ASSUME NEW x, HasNode(c, x) PROVE HasNode(d, x)
  <2>1. PICK q \in 1 .. N : c[q].key = x
    BY <1>9 DEF HasNode
  <2>2. (N - q) + 1 \in 1 .. N /\ (N - ((N - q) + 1)) + 1 = q
    BY <1>1
  <2>3. d[(N - q) + 1].key = x
    BY <1>3, <2>1, <2>2
  <2> QED
    BY <1>4, <2>2, <2>3 DEF HasNode
<1> QED
  BY <1>8, <1>9 DEF d

(* ht_copy *)
LEMMA CopyHolds ==
  ASSUME NEW t, NEW m, NEW D \in SUBSET Keys, Holds(t, m, D)
  PROVE  Holds(HT!Copy(t), m, D)
<1> DEFINE a == HT!Allocate(t, t.capacity)
           w == [i \in 0 .. (t.capacity - 1) |-> HT!Reverse(t.nodes[i])]
           u == [size |-> a.size, capacity |-> t.capacity, threshold |-> a.threshold, nodes |-> w]
<1>1. t \in Shape(t) /\ t.size \in Int /\ t.capacity \in Nat \ {0}
  BY DEF Holds
<1>2. a.size = t.size /\ a.capacity = t.capacity /\ Holds(a, m, {})
  BY <1>1, Allocated
<1>3. HT!Copy(t) = [a EXCEPT !.nodes = [i \in DOMAIN @ |-> HT!Reverse(t.nodes[i])]]
  BY DEF HT!Copy
<1> HIDE DEF a
<1>4. DOMAIN a.nodes = 0 .. (t.capacity - 1) /\ a.threshold \in Int
  BY <1>2 DEF Holds, Shape
<1>5. HT!Copy(t) = [a EXCEPT !.nodes = w]
  BY <1>3, <1>4
<1>6. HT!Copy(t) = u
  <2> HIDE DEF w
  <2> QED
    BY <1>2, <1>5 DEF Holds, Shape
<1>7. \A i \in 0 .. (t.capacity - 1) : Chain(w[i], m, D, t.capacity, i)
  <2> TAKE i \in 0 .. (t.capacity - 1)
  <2>1. Chain(t.nodes[i], m, D, t.capacity, i)
    BY DEF Holds
  <2>2. Chain(HT!Reverse(t.nodes[i]), m, D, t.capacity, i)
    BY <2>1, ChainReversed
  <2> QED
    BY <2>2
<1>8. \A k \in D : HasNode(w[HT!Slot(k, t.capacity)], k)
  <2> TAKE k \in D
  <2> DEFINE i == HT!Slot(k, t.capacity)
             c == t.nodes[i]
  <2>1. i \in 0 .. (t.capacity - 1)
    BY <1>1, SlotOf
  <2>2. HasNode(c, k) /\ Chain(c, m, D, t.capacity, i)
    BY <2>1 DEF Holds
  <2> HIDE DEF c, i
  <2>3. HasNode(HT!Reverse(c), k)
    BY <2>2, ChainReversed
  <2> QED
    BY <2>1, <2>3 DEF c, i
<1>9. w \in [0 .. (t.capacity - 1) -> Seq(Nodes)]
  <2>1. \A i \in 0 .. (t.capacity - 1) : w[i] \in Seq(Nodes)
    BY <1>7 DEF Chain
  <2> QED
    BY <2>1
<1> HIDE DEF w
<1>10. u \in Shape(u)
  BY <1>9 DEF Shape
<1>11. Holds(u, m, D)
  BY <1>1, <1>2, <1>4, <1>7, <1>8, <1>10 DEF Holds
<1> QED
  BY <1>6, <1>11

(* ht_swap, of tables of one capacity. *)
LEMMA SwappedHolds ==
  ASSUME NEW t, NEW m, NEW D, Holds(t, m, D), NEW u, NEW w, NEW E, Holds(u, w, E),
         t.capacity = u.capacity
  PROVE  Holds(HT!Swapped(t, u), w, E)
<1> DEFINE n == u.size
           a == u.nodes
           x == [size |-> n, capacity |-> t.capacity, threshold |-> t.threshold, nodes |-> a]
<1>1. HT!Swapped(t, u) = [t EXCEPT !.size = n, !.nodes = a]
  BY DEF HT!Swapped
<1>2. [t EXCEPT !.size = n, !.nodes = a] = x
  <2>1. /\ t = [size |-> t.size, capacity |-> t.capacity, threshold |-> t.threshold, nodes |-> t.nodes]
    BY DEF Holds, Shape
  <2> DEFINE y == [t EXCEPT !.size = n]
             b == t.nodes
  <2> HIDE DEF n, a
  <2>2. y = [size |-> n, capacity |-> t.capacity, threshold |-> t.threshold, nodes |-> b]
    BY <2>1
  <2>3. [t EXCEPT !.size = n, !.nodes = a] = [y EXCEPT !.nodes = a]
    OBVIOUS
  <2> HIDE DEF y, b
  <2>4. [y EXCEPT !.nodes = a] = x
    BY <2>2
  <2> QED
    BY <2>3, <2>4
<1>3. x \in Shape(x)
  BY DEF Holds, Shape
<1>4. Holds(x, w, E)
  BY <1>3 DEF Holds
<1> QED
  BY <1>1, <1>2, <1>4

-----------------------------------------------------------------------------
(* Two tables under every sequence of calls. *)

(* A table that was moved from has no nodes; any other holds a map. *)
TableIs(u) ==
  \/ u.nodes = HT!NoNodes
  \/ \E D \in SUBSET Keys : \E m \in [D -> Values] : Holds(u, m, D)

HInv ==
  kind = "htable" /\ ~mixed => ht = [t \in Tables |-> ht[t]] /\ \A t \in Tables : TableIs(ht[t])

MapFor(u) == IF HT!IsInitialized(u) THEN HT!MapOf(u) ELSE Gone

(* A table that holds a map is initialized, and MapOf reads the map. *)
LEMMA TableHolds ==
  ASSUME NEW u, TableIs(u), HT!IsInitialized(u)
  PROVE  \E D \in SUBSET Keys : \E m \in [D -> Values] : Holds(u, m, D) /\ MapFor(u) = m
<1>1. PICK D \in SUBSET Keys : \E m \in [D -> Values] : Holds(u, m, D)
  BY DEF TableIs, HT!IsInitialized
<1>2. PICK m \in [D -> Values] : Holds(u, m, D)
  BY <1>1
<1>3. MapFor(u) = m
  BY <1>2, MapOfHolder DEF MapFor
<1> QED
  BY <1>2, <1>3

LEMMA HoldsTable ==
  ASSUME NEW u, NEW D \in SUBSET Keys, NEW m \in [D -> Values], Holds(u, m, D)
  PROVE  TableIs(u) /\ MapFor(u) = m
<1>1. MapFor(u) = m
  BY MapOfHolder DEF MapFor
<1> QED
  BY <1>1 DEF TableIs

LEMMA HtInitInv == CInit => HInv
<1> SUFFICES ASSUME CInit PROVE HInv
  OBVIOUS
<1> DEFINE z == [size |-> 0, capacity |-> 0, threshold |-> 0, nodes |-> HT!NoNodes]
           m == [k \in {} |-> None]
<1>1. z \in Shape(z)
  <2>1. HT!NoNodes \in [0 .. (0 - 1) -> Seq(Nodes)]
    <3>1. 0 .. (0 - 1) = {}
      OBVIOUS
    <3>2. << >> = [i \in {} |-> << >>]
      OBVIOUS
    <3> QED
      BY <3>1, <3>2 DEF HT!NoNodes
  <2> QED
    BY <2>1 DEF Shape
<1>2. HT_MINIMUM_CAPACITY \in Nat \ {0}
  BY HashAssumption
<1>3. HT!Setup(0) = HT!Allocate(z, HT_MINIMUM_CAPACITY)
  BY <1>2 DEF HT!Setup
<1> HIDE DEF z
<1>4. Holds(HT!Setup(0), m, {}) /\ {} \in SUBSET Keys /\ m \in [{} -> Values]
  <2>1. z.size \in Int
    BY DEF z
  <2> QED
    BY <1>1, <1>2, <1>3, <2>1, Allocated
<1>5. TableIs(HT!Setup(0))
  BY <1>4, HoldsTable
<1>6. ht = [t \in Tables |-> HT!Setup(0)]
  BY DEF CInit
<1> QED
  BY <1>5, <1>6 DEF HInv

(* The calls that are made on hash tables. *)
LEMMA HtCalls ==
  ASSUME kind = "htable", CNext
  PROVE  \/ \E t \in Tables :
              \/ HtClear(t)
              \/ \E minimum \in {0, 2 * MaxCapacity} : HtReserve(t, minimum)
              \/ \E k \in Keys : HtErase(t, k) \/ HtGet(t, k) \/ \E v \in Values : HtSet(t, k, v)
         \/ HtCopy("first", "second") \/ HtMove("first", "second") \/ HtSwap("first", "second")
<1>1. \A c, x, y, z : ~ArrayBecomes(c, x, y) /\ ~TableBecomes(c, x, y, z)
  BY DEF ArrayBecomes, TableBecomes
<1>2. \A e \in Values : ~ArrayPush(e) /\ ~ArrayIndex(e) /\ ~ArrayCount(e)
  BY <1>1 DEF ArrayPush, ArrayIndex, ArrayCount
<1>3. \A e \in Values, i \in 0 .. MaxArrayLen : ~ArrayInsert(i, e)
  BY <1>1 DEF ArrayInsert
<1>4. (\A i \in 0 .. MaxArrayLen : ~ArrayRemove(i)) /\ ~QueuePop /\ ~ArraySetself
  BY <1>1 DEF ArrayRemove, QueuePop, ArraySetself
<1>5. \A drop \in SUBSET (0 .. MaxArrayLen) : ~ArrayFilter(drop)
  BY <1>1 DEF ArrayFilter
<1>6. \A k \in Keys : ~TableLookup(k) /\ ~TableErase(k) /\ \A v \in Values : ~TableSet(k, v)
  BY <1>1 DEF TableLookup, TableErase, TableSet
<1>7. "first" \in Tables
  BY DEF Tables
<1> QED
  BY <1>2, <1>3, <1>4, <1>5, <1>6, <1>7, Zenon DEF CNext

(* A call that changes one table, and one that changes two. *)
LEMMA OneBecomes ==
  ASSUME kind = "htable", ~mixed, HInv, NEW t \in Tables, NEW u, TableIs(u), NEW c, NEW answer,
         HtBecomes(c, One(t, u), answer)
  PROVE  /\ HInv' /\ call' = c /\ ret' = answer
         /\ HashTables = [x \in Tables |-> MapFor(ht[x])]
         /\ HashTables' = [HashTables EXCEPT ![t] = MapFor(u)]
<1>1. kind' = "htable" /\ call' = c /\ ret' = answer /\ ht' = [ht EXCEPT ![t] = u]
  BY DEF HtBecomes, One
<1>2. ht = [x \in Tables |-> ht[x]] /\ \A x \in Tables : TableIs(ht[x])
  BY DEF HInv
<1>3. ht' = [x \in Tables |-> IF x = t THEN u ELSE ht[x]]
  BY <1>1, <1>2
<1>4. HashTables = [x \in Tables |-> MapFor(ht[x])] /\ HashTables' = [x \in Tables |-> MapFor(ht'[x])]
  BY <1>1 DEF HashTables, MapFor
<1>5. HInv'
  BY <1>2, <1>3 DEF HInv
<1>6. HashTables' = [HashTables EXCEPT ![t] = MapFor(u)]
  BY <1>3, <1>4
<1> QED
  BY <1>1, <1>4, <1>5, <1>6

LEMMA NoneBecomes ==
  ASSUME kind = "htable", ~mixed, HInv, NEW c, NEW answer, HtBecomes(c, ht, answer)
  PROVE  HInv' /\ call' = c /\ ret' = answer /\ HashTables' = HashTables
         /\ HashTables = [x \in Tables |-> MapFor(ht[x])]
<1>1. kind' = "htable" /\ call' = c /\ ret' = answer /\ ht' = ht
  BY DEF HtBecomes
<1> QED
  BY <1>1 DEF HInv, HashTables, MapFor

LEMMA PairBecomes ==
  ASSUME kind = "htable", ~mixed, HInv, NEW a, TableIs(a), NEW b, TableIs(b), NEW c,
         HtBecomes(c, Pair("first", "second", a, b), 0)
  PROVE  /\ HInv' /\ call' = c /\ ret' = 0
         /\ HashTables = [x \in Tables |-> MapFor(ht[x])]
         /\ HashTables' = [HashTables EXCEPT !["first"] = MapFor(a), !["second"] = MapFor(b)]
<1>1. kind' = "htable" /\ call' = c /\ ret' = 0 /\ ht' = [ht EXCEPT !["first"] = a, !["second"] = b]
  BY DEF HtBecomes, Pair
<1>2. ht = [x \in Tables |-> ht[x]] /\ \A x \in Tables : TableIs(ht[x])
  BY DEF HInv
<1>3. Tables = {"first", "second"}
  BY DEF Tables
<1>4. ht' = [x \in Tables |-> IF x = "second" THEN b ELSE a]
  BY <1>1, <1>2, <1>3
<1>5. HashTables = [x \in Tables |-> MapFor(ht[x])] /\ HashTables' = [x \in Tables |-> MapFor(ht'[x])]
  BY <1>1 DEF HashTables, MapFor
<1>6. HInv'
  BY <1>3, <1>4 DEF HInv
<1>7. HashTables' = [HashTables EXCEPT !["first"] = MapFor(a), !["second"] = MapFor(b)]
  BY <1>3, <1>4, <1>5
<1> QED
  BY <1>1, <1>5, <1>6, <1>7

(* The map a call finds in a table. *)
LEMMA MapFound ==
  ASSUME HInv, kind = "htable", ~mixed, NEW t \in Tables, HT!IsInitialized(ht[t])
  PROVE  \E D \in SUBSET Keys : \E m \in [D -> Values] :
           /\ Holds(ht[t], m, D) /\ MapFor(ht[t]) = m
           /\ \A k \in Keys : (HT!HasKey(ht[t], k) <=> k \in D)
                              /\ (k \in D => HT!Lookup(ht[t], k) = m[k])
<1>1. TableIs(ht[t])
  BY DEF HInv
<1>2. PICK D \in SUBSET Keys : \E m \in [D -> Values] : Holds(ht[t], m, D) /\ MapFor(ht[t]) = m
  BY <1>1, TableHolds
<1>3. PICK m \in [D -> Values] : Holds(ht[t], m, D) /\ MapFor(ht[t]) = m
  BY <1>2
<1>4. \A k \in D : HT!HasKey(ht[t], k) /\ HT!Lookup(ht[t], k) = m[k]
  BY <1>3, FindsTheNode
<1>5. \A k \in Keys : k \notin D => ~HT!HasKey(ht[t], k)
  BY <1>3, FindsNoNode
<1> QED
  BY <1>3, <1>4, <1>5

LEMMA HtClears ==
  ASSUME HInv, kind = "htable", ~mixed, NEW t \in Tables, HtClear(t)
  PROVE  HInv' /\ HtMaps!Step
<1> DEFINE u == HT!Clear(ht[t])
           c == [op |-> "clear", t |-> t]
<1>1. PICK D \in SUBSET Keys : \E m \in [D -> Values] : Holds(ht[t], m, D)
  BY MapFound DEF HtClear
<1>2. PICK m \in [D -> Values] : Holds(ht[t], m, D)
  BY <1>1
<1>3. HtMaps!NoKeys \in [{} -> Values] /\ {} \in SUBSET Keys
  BY DEF HtMaps!NoKeys
<1>4. Holds(u, HtMaps!NoKeys, {})
  BY <1>2, ClearHolds
<1>5. HtBecomes(c, One(t, u), 0)
  BY DEF HtClear
<1> HIDE DEF u, c
<1>6. TableIs(u) /\ MapFor(u) = HtMaps!NoKeys
  BY <1>3, <1>4, HoldsTable
<1>7. /\ HInv' /\ call' = c /\ ret' = 0 /\ HashTables' = [HashTables EXCEPT ![t] = MapFor(u)]
  BY <1>5, <1>6, OneBecomes
<1> QED
  BY <1>6, <1>7 DEF HtMaps!Step, c

LEMMA HtReserves ==
  ASSUME HInv, kind = "htable", ~mixed, NEW t \in Tables, NEW n \in Nat, HtReserve(t, n)
  PROVE  HInv' /\ HtMaps!Step
<1> DEFINE u == HT!Reserve(ht[t], n)
           c == [op |-> "reserve", t |-> t]
<1>1. PICK D \in SUBSET Keys : \E m \in [D -> Values] : Holds(ht[t], m, D) /\ MapFor(ht[t]) = m
  BY MapFound DEF HtReserve
<1>2. PICK m \in [D -> Values] : Holds(ht[t], m, D) /\ MapFor(ht[t]) = m
  BY <1>1
<1>3. Holds(u, m, D)
  BY <1>2, ReserveHolds
<1>4. HtBecomes(c, One(t, u), 0)
  BY DEF HtReserve
<1> HIDE DEF u, c
<1>5. TableIs(u) /\ MapFor(u) = m
  BY <1>3, HoldsTable
<1>6. /\ HInv' /\ call' = c /\ ret' = 0 /\ HashTables' = [HashTables EXCEPT ![t] = MapFor(u)]
      /\ HashTables = [x \in Tables |-> MapFor(ht[x])]
  BY <1>4, <1>5, OneBecomes
<1>7. HashTables' = HashTables
  BY <1>2, <1>5, <1>6
<1> QED
  BY <1>6, <1>7 DEF HtMaps!Step, c

LEMMA HtGets ==
  ASSUME HInv, kind = "htable", ~mixed, NEW t \in Tables, NEW k \in Keys, HtGet(t, k)
  PROVE  HInv' /\ HtMaps!Step
<1> DEFINE answer == IF HT!HasKey(ht[t], k) THEN HT!Lookup(ht[t], k) ELSE None
           c == [op |-> "get", t |-> t, k |-> k]
<1>1. PICK D \in SUBSET Keys : \E m \in [D -> Values] :
        /\ MapFor(ht[t]) = m
        /\ (HT!HasKey(ht[t], k) <=> k \in D) /\ (k \in D => HT!Lookup(ht[t], k) = m[k])
  BY MapFound DEF HtGet
<1>2. PICK m \in [D -> Values] :
        /\ MapFor(ht[t]) = m
        /\ (HT!HasKey(ht[t], k) <=> k \in D) /\ (k \in D => HT!Lookup(ht[t], k) = m[k])
  BY <1>1
<1>3. answer = IF k \in DOMAIN m THEN m[k] ELSE None
  BY <1>2
<1>4. HtBecomes(c, ht, answer)
  BY DEF HtGet
<1> HIDE DEF answer, c
<1>5. /\ HInv' /\ call' = c /\ ret' = answer /\ HashTables' = HashTables
      /\ HashTables = [x \in Tables |-> MapFor(ht[x])]
  BY <1>4, NoneBecomes
<1>6. HashTables[t] = m
  BY <1>2, <1>5
<1> QED
  BY <1>3, <1>5, <1>6 DEF HtMaps!Step, c

LEMMA HtErases ==
  ASSUME HInv, kind = "htable", ~mixed, NEW t \in Tables, NEW k \in Keys, HtErase(t, k)
  PROVE  HInv' /\ HtMaps!Step
<1> DEFINE u == HT!Erase(ht[t], k)
           c == [op |-> "remove", t |-> t, k |-> k]
<1>1. PICK D \in SUBSET Keys : \E m \in [D -> Values] :
        Holds(ht[t], m, D) /\ MapFor(ht[t]) = m /\ (HT!HasKey(ht[t], k) <=> k \in D)
  BY MapFound DEF HtErase
<1>2. PICK m \in [D -> Values] :
        Holds(ht[t], m, D) /\ MapFor(ht[t]) = m /\ (HT!HasKey(ht[t], k) <=> k \in D)
  BY <1>1
<1> DEFINE w == [x \in D \ {k} |-> m[x]]
<1>3. w = HtMaps!Restrict(m, DOMAIN m \ {k}) /\ w \in [D \ {k} -> Values] /\ D \ {k} \in SUBSET Keys
  BY DEF HtMaps!Restrict
<1>4. /\ k \in D => HtBecomes(c, One(t, u), HT!HT_SUCCESS)
      /\ k \notin D => HtBecomes(c, ht, HT!HT_NOT_FOUND)
  BY <1>2 DEF HtErase
<1>5. CASE k \in D
  <2>1. Holds(u, w, D \ {k})
    BY <1>2, <1>5, EraseHolds
  <2> HIDE DEF u, c, w
  <2>2. TableIs(u) /\ MapFor(u) = w
    BY <1>3, <2>1, HoldsTable
  <2>3. /\ HInv' /\ call' = c /\ ret' = HT!HT_SUCCESS
        /\ HashTables = [x \in Tables |-> MapFor(ht[x])]
        /\ HashTables' = [HashTables EXCEPT ![t] = MapFor(u)]
    BY <1>4, <1>5, <2>2, OneBecomes
  <2>4. HashTables[t] = m
    BY <1>2, <2>3
  <2> QED
    BY <1>3, <1>5, <2>2, <2>3, <2>4 DEF HtMaps!Step, c
<1>6. CASE k \notin D
  <2>1. w = m
    BY <1>6
  <2> HIDE DEF u, c, w
  <2>2. /\ HInv' /\ call' = c /\ ret' = HT!HT_NOT_FOUND /\ HashTables' = HashTables
        /\ HashTables = [x \in Tables |-> MapFor(ht[x])]
    BY <1>4, <1>6, NoneBecomes
  <2>3. HashTables[t] = m
    BY <1>2, <2>2
  <2>4. HashTables' = [HashTables EXCEPT ![t] = w]
    BY <2>1, <2>2, <2>3
  <2> QED
    BY <1>3, <1>6, <2>2, <2>3, <2>4 DEF HtMaps!Step, c
<1> QED
  BY <1>5, <1>6

LEMMA HtSets ==
  ASSUME HInv, kind = "htable", ~mixed, NEW t \in Tables, NEW k \in Keys, NEW v \in Values, HtSet(t, k, v)
  PROVE  HInv' /\ HtMaps!Step
<1> DEFINE u == HT!HtInsert(ht[t], k, v)
           c == [op |-> "set", t |-> t, k |-> k, v |-> v]
           answer == IF HT!HasKey(ht[t], k) THEN HT!HT_UPDATED ELSE HT!HT_INSERTED
<1>1. PICK D \in SUBSET Keys : \E m \in [D -> Values] :
        Holds(ht[t], m, D) /\ MapFor(ht[t]) = m /\ (HT!HasKey(ht[t], k) <=> k \in D)
  BY MapFound DEF HtSet
<1>2. PICK m \in [D -> Values] :
        Holds(ht[t], m, D) /\ MapFor(ht[t]) = m /\ (HT!HasKey(ht[t], k) <=> k \in D)
  BY <1>1
<1> DEFINE w == [x \in D \cup {k} |-> IF x = k THEN v ELSE m[x]]
<1>3. w = HtMaps!With(m, k, v) /\ w \in [D \cup {k} -> Values] /\ D \cup {k} \in SUBSET Keys
  BY DEF HtMaps!With
<1>4. Holds(u, w, D \cup {k})
  BY <1>2, InsertHolds
<1>5. HtBecomes(c, One(t, u), answer)
  BY DEF HtSet
<1>6. answer = IF k \in DOMAIN m THEN HT!HT_UPDATED ELSE HT!HT_INSERTED
  BY <1>2
<1> HIDE DEF u, c, w, answer
<1>7. TableIs(u) /\ MapFor(u) = w
  BY <1>3, <1>4, HoldsTable
<1>8. /\ HInv' /\ call' = c /\ ret' = answer
      /\ HashTables = [x \in Tables |-> MapFor(ht[x])]
      /\ HashTables' = [HashTables EXCEPT ![t] = MapFor(u)]
  BY <1>5, <1>7, OneBecomes
<1>9. HashTables[t] = m
  BY <1>2, <1>8
<1> QED
  BY <1>3, <1>6, <1>7, <1>8, <1>9 DEF HtMaps!Step, c

LEMMA HtCopies ==
  ASSUME HInv, kind = "htable", ~mixed, HtCopy("first", "second")
  PROVE  HInv' /\ HtMaps!Step
<1> DEFINE u == HT!Copy(ht["second"])
           c == [op |-> "copy", t |-> "first", from |-> "second"]
<1>1. "first" \in Tables /\ "second" \in Tables
  BY DEF Tables
<1>2. PICK D \in SUBSET Keys : \E m \in [D -> Values] :
        Holds(ht["second"], m, D) /\ MapFor(ht["second"]) = m
  BY <1>1, MapFound DEF HtCopy
<1>3. PICK m \in [D -> Values] : Holds(ht["second"], m, D) /\ MapFor(ht["second"]) = m
  BY <1>2
<1>4. Holds(u, m, D)
  BY <1>3, CopyHolds
<1>5. HtBecomes(c, One("first", u), 0)
  BY DEF HtCopy
<1> HIDE DEF u, c
<1>6. TableIs(u) /\ MapFor(u) = m
  BY <1>4, HoldsTable
<1>7. /\ HInv' /\ call' = c /\ ret' = 0 /\ HashTables' = [HashTables EXCEPT !["first"] = MapFor(u)]
      /\ HashTables = [x \in Tables |-> MapFor(ht[x])]
  BY <1>1, <1>5, <1>6, OneBecomes
<1>8. HashTables["second"] = m
  BY <1>1, <1>3, <1>7
<1> QED
  BY <1>6, <1>7, <1>8 DEF HtMaps!Step, c

LEMMA HtMoves ==
  ASSUME HInv, kind = "htable", ~mixed, HtMove("first", "second")
  PROVE  HInv' /\ HtMaps!Step
<1> DEFINE a == ht["second"]
           b == HT!Moved(a)
           c == [op |-> "move", t |-> "first", from |-> "second"]
<1>1. "first" \in Tables /\ "second" \in Tables
  BY DEF Tables
<1>2. TableIs(a)
  BY <1>1 DEF HInv
<1>3. TableIs(b) /\ MapFor(b) = Gone
  <2>1. PICK D \in SUBSET Keys : \E m \in [D -> Values] : Holds(a, m, D)
    BY <1>1, MapFound DEF HtMove
  <2>2. PICK m \in [D -> Values] : Holds(a, m, D)
    BY <2>1
  <2>3. b.nodes = HT!NoNodes
    BY <2>2 DEF HT!Moved, Holds, Shape
  <2> QED
    BY <2>3 DEF TableIs, MapFor, HT!IsInitialized
<1>4. HtBecomes(c, Pair("first", "second", a, b), 0)
  BY DEF HtMove
<1> HIDE DEF b, c
<1>5. /\ HInv' /\ call' = c /\ ret' = 0
      /\ HashTables = [x \in Tables |-> MapFor(ht[x])]
      /\ HashTables' = [HashTables EXCEPT !["first"] = MapFor(a), !["second"] = MapFor(b)]
  <2> HIDE DEF a
  <2> QED
    BY <1>2, <1>3, <1>4, PairBecomes
<1>6. HashTables["second"] = MapFor(a)
  BY <1>1, <1>5
<1> QED
  BY <1>3, <1>5, <1>6 DEF HtMaps!Step, c

LEMMA HtSwaps ==
  ASSUME HInv, kind = "htable", ~mixed, HtSwap("first", "second")
  PROVE  HInv' /\ (mixed' \/ HtMaps!Step)
<1> DEFINE t == ht["first"]
           u == ht["second"]
           a == HT!Swapped(t, u)
           b == HT!Swapped(u, t)
           c == [op |-> "swap", t |-> "first", from |-> "second"]
<1>1. "first" \in Tables /\ "second" \in Tables
  BY DEF Tables
<1>2. PICK D \in SUBSET Keys : \E m \in [D -> Values] : Holds(t, m, D) /\ MapFor(t) = m
  BY <1>1, MapFound DEF HtSwap
<1>3. PICK m \in [D -> Values] : Holds(t, m, D) /\ MapFor(t) = m
  BY <1>2
<1>4. PICK E \in SUBSET Keys : \E w \in [E -> Values] : Holds(u, w, E) /\ MapFor(u) = w
  BY <1>1, MapFound DEF HtSwap
<1>5. PICK w \in [E -> Values] : Holds(u, w, E) /\ MapFor(u) = w
  BY <1>4
<1>6. HtBecomes(c, Pair("first", "second", a, b), 0)
  BY DEF HtSwap
<1>7. HashTables = [x \in Tables |-> MapFor(ht[x])] => HashTables["first"] = m /\ HashTables["second"] = w
  BY <1>1, <1>3, <1>5
<1>8. CASE t.capacity # u.capacity
  <2>1. c.op = "swap" /\ c.t = "first" /\ c.from = "second"
    OBVIOUS
  <2>2. mixed'
    BY <1>6, <1>8, <2>1 DEF HtBecomes
  <2> QED
    BY <2>2 DEF HInv
<1>9. CASE t.capacity = u.capacity
  <2> HIDE DEF t, u
  <2>1. Holds(a, w, E) /\ Holds(b, m, D)
    BY <1>3, <1>5, <1>9, SwappedHolds
  <2> HIDE DEF a, b, c
  <2>2. TableIs(a) /\ MapFor(a) = w /\ TableIs(b) /\ MapFor(b) = m
    BY <2>1, HoldsTable
  <2>3. /\ HInv' /\ call' = c /\ ret' = 0
        /\ HashTables = [x \in Tables |-> MapFor(ht[x])]
        /\ HashTables' = [HashTables EXCEPT !["first"] = MapFor(a), !["second"] = MapFor(b)]
    BY <1>6, <2>2, PairBecomes
  <2> QED
    BY <1>7, <2>2, <2>3 DEF HtMaps!Step, c
<1> QED
  BY <1>8, <1>9

LEMMA HtStep ==
  ASSUME HInv, kind = "htable", CNext
  PROVE  HInv' /\ (mixed' \/ HtMaps!Step)
<1>1. {0, 2 * MaxCapacity} \subseteq Nat
  BY HashAssumption
<1>2. ~mixed
  <2>1. \A c, tables, answer : HtBecomes(c, tables, answer) => ~mixed
    BY DEF HtBecomes
  <2> QED
    BY <2>1, HtCalls DEF HtClear, HtReserve, HtErase, HtGet, HtSet, HtCopy, HtMove, HtSwap
<1> QED
  BY <1>1, <1>2, HtCalls, HtClears, HtReserves, HtGets, HtErases, HtSets, HtCopies, HtMoves, HtSwaps

LEMMA HtNext == HInv /\ [CNext]_cvars => HInv'
<1> SUFFICES ASSUME HInv, [CNext]_cvars PROVE HInv'
  OBVIOUS
<1>1. kind' = kind
  BY DEF cvars, CNext, ArrayPush, ArrayIndex, ArrayCount, ArrayInsert, ArrayRemove, QueuePop,
         ArraySetself, ArrayFilter, TableLookup, TableErase, TableSet, HtClear, HtReserve, HtErase,
         HtSet, HtGet, HtCopy, HtMove, HtSwap, ArrayBecomes, TableBecomes, HtBecomes
<1>2. CASE kind # "htable"
  BY <1>1, <1>2 DEF HInv
<1>3. CASE kind = "htable" /\ UNCHANGED cvars
  BY <1>3 DEF HInv, cvars
<1> QED
  BY <1>2, <1>3, HtStep

(***************************************************************************)
(* dyn_htable.c is a map, whatever the hashes of the keys: while it grows, *)
(* shrinks, is reserved, cleared, copied, moved and swapped, every chain   *)
(* holds the keys of its index once each, and ht_lookup, ht_contains,      *)
(* ht_insert and ht_erase do what they do on a map and answer with the     *)
(* code's answer.  It ends with an ht_swap of tables of different          *)
(* capacity: what a call does after that is not said.                      *)
(***************************************************************************)
THEOREM HashTablesAreMaps == CSpec => [][kind = "htable" => mixed' \/ HtMaps!Step]_cvars
<1>1. HInv /\ [CNext]_cvars => [kind = "htable" => mixed' \/ HtMaps!Step]_cvars
  BY HtStep
<1> QED
  BY <1>1, HtInitInv, HtNext, PTL DEF CSpec

(***************************************************************************)
(* The containers of code/devcore/base keep what they promise, whatever    *)
(* the keys, values, hashes and bounds: an array is a list, a table is a   *)
(* map, and so are hash tables until two of different capacity are         *)
(* swapped.                                                                *)
(***************************************************************************)
THEOREM ContainersKeepPromises == CSpec => ContainersAsPromised
<1>1. /\ [kind = "array" => List!Step]_cvars /\ [kind = "table" => TableMaps!Step]_cvars
      /\ [kind = "htable" => mixed' \/ HtMaps!Step]_cvars
      => [/\ kind = "array" => List!Step
          /\ kind = "table" => TableMaps!Step
          /\ kind = "htable" => mixed' \/ HtMaps!Step]_cvars
  OBVIOUS
<1> QED
  BY <1>1, ArrayIsAList, TableIsAMap, HashTablesAreMaps, PTL DEF ContainersAsPromised
=============================================================================
