----------------------------- MODULE BaseProofs ------------------------------
(***************************************************************************)
(* Theorems about the containers of code/devcore/base: the ring buffer of  *)
(* prot_queue.c, and the growing array of dyn_array.c with the table that  *)
(* dyn_table.c builds on it.  The loops over the array's cells are folds;  *)
(* Ranks counts what they have kept so far.                                *)
(***************************************************************************)
EXTENDS ProtQueue, Containers, Ranks, TLAPS, FiniteSetTheorems, SequenceTheorems

-----------------------------------------------------------------------------
(* The ring.  The inductive invariant adds to the types that the tail is   *)
(* count cells after the head.                                             *)

IInv == TypeOK /\ tail = At(count)

-----------------------------------------------------------------------------
(* Index arithmetic of a ring of n cells. *)
LEMMA ModSmall ==
  ASSUME NEW n \in Nat \ {0}, NEW x \in 0 .. (n - 1)
  PROVE  x % n = x
  BY SMT

LEMMA ModOnce ==
  ASSUME NEW n \in Nat \ {0}, NEW x \in n .. (2 * n - 1)
  PROVE  x % n = x - n
  BY SMT

LEMMA ModRange ==
  ASSUME NEW n \in Nat \ {0}, NEW x \in Nat
  PROVE  x % n \in 0 .. (n - 1)
  BY SMT

(* Going i cells from the cell after h is going i + 1 cells from h. *)
LEMMA ModShift ==
  ASSUME NEW n \in Nat \ {0}, NEW h \in 0 .. (n - 1), NEW i \in 0 .. (n - 1)
  PROVE  (((h + 1) % n) + i) % n = (h + i + 1) % n
  <1>1. CASE h + 1 < n
    <2>1. (h + 1) % n = h + 1
      BY <1>1, ModSmall
    <2> QED
      BY <2>1
  <1>2. CASE h + 1 = n
    <2>1. (h + 1) % n = 0
      BY <1>2, ModOnce
    <2>2. i % n = i
      BY ModSmall
    <2>3. (h + i + 1) % n = i
      <3>1. h + i + 1 \in n .. (2 * n - 1)
        BY <1>2
      <3>2. (h + i + 1) % n = (h + i + 1) - n
        BY <3>1, ModOnce
      <3> QED
        BY <3>2, <1>2
    <2> QED
      BY <2>1, <2>2, <2>3
  <1> QED
    BY <1>1, <1>2

(* Two positions less than n apart are different cells. *)
LEMMA ModDistinct ==
  ASSUME NEW n \in Nat \ {0}, NEW h \in 0 .. (n - 1),
         NEW i \in 0 .. (n - 1), NEW j \in 0 .. (n - 1), i # j
  PROVE  (h + i) % n # (h + j) % n
  <1>1. \A k \in 0 .. (n - 1) :
          (h + k) % n = IF h + k < n THEN h + k ELSE h + k - n
    <2> TAKE k \in 0 .. (n - 1)
    <2>1. CASE h + k < n
      BY <2>1, ModSmall
    <2>2. CASE h + k >= n
      <3>1. h + k \in n .. (2 * n - 1)
        BY <2>2
      <3> QED
        BY <3>1, <2>2, ModOnce
    <2> QED
      BY <2>1, <2>2
  <1> QED
    BY <1>1

-----------------------------------------------------------------------------
LEMMA InitOK == Init => IInv
  <1> SUFFICES ASSUME Init
               PROVE  IInv
    OBVIOUS
  <1>1. /\ len \in Nat \ {0} /\ head = 0 /\ tail = 0 /\ count = 0
        /\ out \in Elements
    BY RingAssumption DEF Init
  <1>2. elements \in [Cells(len) -> Elements]
    BY DEF Init
  <1>3. At(count) = 0
    BY <1>1, ModSmall DEF At
  <1> QED
    BY <1>1, <1>2, <1>3 DEF IInv, TypeOK, Cells

(* The cell after the one i places from the head. *)
LEMMA NextAt ==
  ASSUME IInv, NEW i \in 0 .. (len - 1)
  PROVE  Next1(At(i), len) = (head + i + 1) % len
  <1>1. len \in Nat \ {0} /\ head \in 0 .. (len - 1)
    BY DEF IInv, TypeOK, Cells
  <1>2. CASE head + i < len
    <2>1. At(i) = head + i
      BY <1>1, <1>2, ModSmall DEF At
    <2> QED
      BY <2>1, <1>1 DEF Next1
  <1>3. CASE head + i >= len
    <2>1. head + i \in len .. (2 * len - 1)
      BY <1>1, <1>3
    <2>2. At(i) = head + i - len
      BY <1>1, <2>1, ModOnce DEF At
    <2>3. At(i) + 1 = head + i + 1 - len /\ At(i) + 1 \in 0 .. (len - 1)
      BY <2>2, <2>1, <1>1
    <2>4. (At(i) + 1) % len = At(i) + 1
      BY <2>3, <1>1, ModSmall
    <2>5. head + i + 1 \in len .. (2 * len - 1)
      BY <2>1, <1>1
    <2>6. (head + i + 1) % len = head + i + 1 - len
      BY <2>5, <1>1, ModOnce
    <2> QED
      BY <2>3, <2>4, <2>6 DEF Next1
  <1> QED
    BY <1>1, <1>2, <1>3

(* Each operation keeps the invariant. *)
LEMMA PushGrownOK ==
  ASSUME IInv, NEW e \in Elements, PushGrown(e)
  PROVE  IInv'
  <1>1. /\ len \in Nat \ {0} /\ count = len /\ head \in 0 .. (len - 1)
        /\ elements \in [Cells(len) -> Elements] /\ out \in Elements
    BY DEF IInv, TypeOK, PushGrown, Cells
  <1>2. /\ len' = 2 * len /\ head' = 0 /\ count' = len + 1 /\ out' = out
        /\ tail' = (len + 1) % (2 * len)
    BY <1>1 DEF PushGrown, Next1
  <1>3. len' \in Nat \ {0} /\ count' \in 0 .. len' /\ head' \in Cells(len')
    BY <1>1, <1>2 DEF Cells
  <1>4. \A i \in 0 .. (len - 1) : At(i) \in Cells(len)
    BY <1>1, ModRange DEF At, Cells
  <1>5. elements' \in [Cells(len') -> Elements]
    BY <1>1, <1>2, <1>4 DEF PushGrown, Cells
  <1>6. tail' \in Cells(len')
    BY <1>1, <1>2, <1>3, ModRange DEF Cells
  <1>7. tail' = At(count)'
    BY <1>1, <1>2 DEF At
  <1> QED
    BY <1>1, <1>2, <1>3, <1>5, <1>6, <1>7 DEF IInv, TypeOK

LEMMA PushInPlaceOK ==
  ASSUME IInv, NEW e \in Elements, PushInPlace(e)
  PROVE  IInv'
  <1>1. /\ len \in Nat \ {0} /\ count \in 0 .. (len - 1) /\ head \in 0 .. (len - 1)
        /\ tail = At(count)
    BY DEF IInv, TypeOK, PushInPlace, Cells
  <1>2. elements' \in [Cells(len') -> Elements] /\ out' \in Elements
    BY DEF IInv, TypeOK, PushInPlace, Cells
  <1>3. /\ len' = len /\ head' = head /\ count' = count + 1
        /\ tail' = Next1(At(count), len)
    BY <1>1 DEF PushInPlace
  <1>4. tail' = (head + count + 1) % len
    BY <1>1, <1>3, NextAt
  <1>5. tail' \in Cells(len)
    BY <1>1, <1>4, ModRange DEF Cells
  <1>6. tail' = At(count)'
    <2>1. head + count + 1 = head + (count + 1)
      BY <1>1
    <2> QED
      BY <1>3, <1>4, <2>1 DEF At
  <1> QED
    BY <1>1, <1>2, <1>3, <1>5, <1>6 DEF IInv, TypeOK, Cells

LEMMA PopOK ==
  ASSUME IInv, Pop
  PROVE  IInv'
  <1>1. /\ len \in Nat \ {0} /\ count \in 1 .. len /\ head \in 0 .. (len - 1)
        /\ elements \in [Cells(len) -> Elements] /\ tail = (head + count) % len
        /\ tail \in Cells(len)
    BY DEF IInv, TypeOK, Pop, Cells, At
  <1>2. /\ len' = len /\ head' = (head + 1) % len /\ count' = count - 1
        /\ out' = elements[head] /\ elements' = elements /\ tail' = tail
    BY DEF Pop, Next1
  <1>3. head' \in Cells(len') /\ out' \in Elements /\ count' \in 0 .. len'
    BY <1>1, <1>2, ModRange DEF Cells
  <1>4. (((head + 1) % len) + (count - 1)) % len = (head + (count - 1) + 1) % len
    <2>1. count - 1 \in 0 .. (len - 1)
      BY <1>1
    <2> QED
      BY <1>1, <2>1, ModShift
  <1>5. tail' = At(count)'
    <2>1. head + (count - 1) + 1 = head + count
      BY <1>1
    <2> QED
      BY <1>1, <1>2, <1>4, <2>1 DEF At
  <1> QED
    BY <1>1, <1>2, <1>3, <1>5 DEF IInv, TypeOK

LEMMA NextOK == IInv /\ [Next]_vars => IInv'
  <1> SUFFICES ASSUME IInv, [Next]_vars
               PROVE  IInv'
    OBVIOUS
  <1>1. CASE Pop
    BY <1>1, PopOK
  <1>2. ASSUME NEW e \in Elements, Push(e) \/ Upush(e)
        PROVE  IInv'
    <2>1. PushGrown(e) \/ PushInPlace(e)
      BY <1>2 DEF Push, Upush
    <2> QED
      BY <2>1, PushGrownOK, PushInPlaceOK
  <1>3. CASE UNCHANGED vars
    BY <1>3 DEF vars, IInv, TypeOK, At
  <1> QED
    BY <1>1, <1>2, <1>3 DEF Next

(***************************************************************************)
(* The indices of prot_queue.c stay inside the array, through wrapping     *)
(* around and growing.                                                     *)
(***************************************************************************)
THEOREM TypeCorrect == Spec => []TypeOK
  <1>1. IInv => TypeOK
    BY DEF IInv
  <1> QED
    BY <1>1, InitOK, NextOK, PTL DEF Spec

-----------------------------------------------------------------------------
(* The content is a sequence whose length is count. *)
LEMMA ContentSeq ==
  ASSUME IInv
  PROVE  /\ Content \in Seq(Elements)
         /\ Len(Content) = count
         /\ \A i \in 1 .. count : Content[i] = elements[At(i - 1)]
  <1>1. /\ len \in Nat \ {0} /\ count \in Nat /\ head \in Nat
        /\ elements \in [Cells(len) -> Elements]
    BY DEF IInv, TypeOK, Cells
  <1>2. \A i \in 1 .. count : At(i - 1) \in Cells(len)
    <2> TAKE i \in 1 .. count
    <2>1. head + (i - 1) \in Nat
      BY <1>1
    <2> QED
      BY <1>1, <2>1, ModRange DEF At, Cells
  <1>3. Content \in [1 .. count -> Elements]
    BY <1>1, <1>2 DEF Content
  <1> QED
    BY <1>1, <1>3 DEF Content

(* A push, grown or in place, puts its element last. *)
LEMMA PushGrownPuts ==
  ASSUME IInv, NEW e \in Elements, PushGrown(e)
  PROVE  Content' = Append(Content, e)
  <1>1. IInv'
    BY PushGrownOK
  <1>2. /\ len \in Nat \ {0} /\ count = len
        /\ len' = 2 * len /\ head' = 0 /\ count' = count + 1
    BY DEF IInv, TypeOK, PushGrown
  <1>3. \A i \in 0 .. count : At(i)' = i
    <2> TAKE i \in 0 .. count
    <2>1. i \in 0 .. (2 * len - 1) /\ 2 * len \in Nat \ {0}
      BY <1>2
    <2>2. i % (2 * len) = i
      BY <2>1, ModSmall
    <2> QED
      BY <2>2, <1>2 DEF At
  <1>4. \A i \in 0 .. count : elements'[i] = IF i < count THEN elements[At(i)] ELSE e
    BY <1>2 DEF PushGrown, Cells
  <1>5. \A i \in 1 .. count + 1 :
          Content'[i] = IF i <= count THEN Content[i] ELSE e
    <2> TAKE i \in 1 .. count + 1
    <2>1. i - 1 \in 0 .. count
      BY <1>2
    <2>2. Content'[i] = elements'[At(i - 1)']
      BY <1>1, <1>2 DEF Content
    <2>3. Content'[i] = elements'[i - 1]
      BY <2>1, <2>2, <1>3
    <2>4. i <= count => Content[i] = elements[At(i - 1)]
      BY <1>2, ContentSeq
    <2> QED
      BY <2>1, <2>3, <2>4, <1>2, <1>4
  <1>6. Content' \in Seq(Elements) /\ Len(Content') = count + 1
    <2>1. Content' = [i \in 1 .. count' |-> elements'[At(i - 1)']]
      BY DEF Content
    <2>2. Content' \in [1 .. count' -> Elements]
      <3>1. \A i \in 1 .. count' : elements'[At(i - 1)'] \in Elements
        <4> TAKE i \in 1 .. count'
        <4>1. At(i - 1)' = i - 1 /\ i - 1 \in Cells(len')
          BY <1>2, <1>3 DEF Cells
        <4> QED
          BY <4>1, <1>1 DEF IInv, TypeOK
      <3> QED
        BY <3>1, <2>1
    <2> QED
      BY <2>2, <1>2
  <1>7. Content \in Seq(Elements) /\ Len(Content) = count
    BY ContentSeq
  <1> QED
    BY <1>2, <1>5, <1>6, <1>7

LEMMA PushInPlacePuts ==
  ASSUME IInv, NEW e \in Elements, PushInPlace(e)
  PROVE  Content' = Append(Content, e)
  <1>1. /\ len \in Nat \ {0} /\ count \in 0 .. (len - 1) /\ head \in 0 .. (len - 1)
        /\ tail = (head + count) % len /\ tail \in Cells(len)
        /\ elements \in [Cells(len) -> Elements]
        /\ len' = len /\ head' = head /\ count' = count + 1
        /\ elements' = [elements EXCEPT ![tail] = e]
    BY DEF IInv, TypeOK, PushInPlace, Cells, At
  <1>2. \A i \in 1 .. count : At(i - 1) # tail /\ At(i - 1) \in Cells(len)
    <2> TAKE i \in 1 .. count
    <2>1. i - 1 \in 0 .. (len - 1) /\ i - 1 # count
      BY <1>1
    <2>2. (head + (i - 1)) % len # (head + count) % len
      BY <1>1, <2>1, ModDistinct
    <2>3. head + (i - 1) \in Nat
      BY <1>1, <2>1
    <2> QED
      BY <1>1, <2>2, <2>3, ModRange DEF At, Cells
  <1>4. Content' = [i \in 1 .. count + 1 |-> elements'[At(i - 1)]]
    <2>1. Content' = [i \in 1 .. count' |-> elements'[At(i - 1)']]
      BY DEF Content
    <2> QED
      BY <1>1, <2>1 DEF At
  <1>5. At(count + 1 - 1) = tail
    BY <1>1 DEF At
  <1>6. \A i \in 1 .. count + 1 :
          elements'[At(i - 1)] = IF i <= count THEN Content[i] ELSE e
    <2> TAKE i \in 1 .. count + 1
    <2>1. CASE i <= count
      <3>1. i \in 1 .. count
        BY <2>1, <1>1
      <3>2. Content[i] = elements[At(i - 1)]
        BY <3>1, ContentSeq
      <3> QED
        BY <3>1, <3>2, <2>1, <1>1, <1>2
    <2>2. CASE i = count + 1
      BY <2>2, <1>1, <1>5
    <2> QED
      BY <2>1, <2>2, <1>1
  <1>7. Content \in Seq(Elements) /\ Len(Content) = count
    BY ContentSeq
  <1>8. Content' = [i \in 1 .. count + 1 |-> IF i <= count THEN Content[i] ELSE e]
    BY <1>4, <1>6
  <1>9. Content' \in Seq(Elements) /\ Len(Content') = count + 1
    <2>1. \A i \in 1 .. count + 1 : (IF i <= count THEN Content[i] ELSE e) \in Elements
      BY <1>1, <1>7
    <2>2. Content' \in [1 .. count + 1 -> Elements]
      BY <2>1, <1>8
    <2> QED
      BY <1>1, <2>2
  <1>10. \A i \in 1 .. count + 1 : Content'[i] = IF i <= count THEN Content[i] ELSE e
    BY <1>8
  <1> QED
    BY <1>1, <1>7, <1>9, <1>10

(* A pop takes the first element. *)
LEMMA PopGets ==
  ASSUME IInv, Pop
  PROVE  /\ Content # << >>
         /\ out' = Head(Content)
         /\ Content' = Tail(Content)
  <1>1. /\ len \in Nat \ {0} /\ count \in 1 .. len /\ head \in 0 .. (len - 1)
        /\ len' = len /\ head' = (head + 1) % len /\ count' = count - 1
        /\ out' = elements[head] /\ elements' = elements
    BY DEF IInv, TypeOK, Pop, Cells, Next1
  <1>2. /\ Content \in Seq(Elements) /\ Len(Content) = count
        /\ \A i \in 1 .. count : Content[i] = elements[At(i - 1)]
    BY ContentSeq
  <1>3. At(0) = head
    BY <1>1, ModSmall DEF At
  <1>4. Content[1] = elements[head]
    BY <1>1, <1>2, <1>3
  <1>5. \A i \in 1 .. count - 1 : At(i - 1)' = At(i)
    <2> TAKE i \in 1 .. count - 1
    <2>1. i - 1 \in 0 .. (len - 1)
      BY <1>1
    <2>2. (((head + 1) % len) + (i - 1)) % len = (head + (i - 1) + 1) % len
      BY <1>1, <2>1, ModShift
    <2>3. head + (i - 1) + 1 = head + i
      BY <1>1
    <2> QED
      BY <1>1, <2>2, <2>3 DEF At
  <1>6. Content' = [i \in 1 .. count - 1 |-> elements[At(i)]]
    <2>1. Content' = [i \in 1 .. count' |-> elements'[At(i - 1)']]
      BY DEF Content
    <2> QED
      BY <1>1, <1>5, <2>1
  <1>7. \A i \in 1 .. count - 1 : elements[At(i)] = Content[i + 1]
    <2> TAKE i \in 1 .. count - 1
    <2>1. i + 1 \in 1 .. count /\ (i + 1) - 1 = i
      BY <1>1
    <2> QED
      BY <2>1, <1>2
  <1>8. Content' = [i \in 1 .. count - 1 |-> Content[i + 1]]
    BY <1>6, <1>7
  <1>9. Content # << >>
    BY <1>1, <1>2
  <1>10. Content' \in Seq(Elements) /\ Len(Content') = count - 1
    <2>1. \A i \in 1 .. count - 1 : Content[i + 1] \in Elements
      BY <1>1, <1>2
    <2>2. Content' \in [1 .. count - 1 -> Elements]
      BY <2>1, <1>8
    <2> QED
      BY <1>1, <2>2
  <1>11. \A i \in 1 .. count - 1 : Content'[i] = Content[i + 1]
    BY <1>8
  <1>12. Content' = Tail(Content)
    BY <1>1, <1>2, <1>9, <1>10, <1>11
  <1> QED
    BY <1>1, <1>2, <1>4, <1>9, <1>12

(***************************************************************************)
(* prot_queue.c implements Fifo: whatever its initial length, and however  *)
(* often it grows while its content wraps around, it loses, repeats and    *)
(* reorders nothing.                                                       *)
(***************************************************************************)
THEOREM RingIsFifo == Spec => ImplementsFifo
  <1>1. Init => Queue!FifoInit
    <2> SUFFICES ASSUME Init
                 PROVE  Queue!FifoInit
      OBVIOUS
    <2>1. IInv /\ count = 0 /\ out \in Elements
      BY InitOK DEF Init
    <2>2. Content \in Seq(Elements) /\ Len(Content) = 0
      BY <2>1, ContentSeq
    <2> QED
      BY <2>1, <2>2 DEF Queue!FifoInit
  <1>2. ASSUME IInv, [Next]_vars
        PROVE  [Queue!FifoNext]_<<Content, out>>
    <2>1. CASE Pop
      <3>1. Queue!Get
        BY <1>2, <2>1, PopGets DEF Queue!Get
      <3> QED
        BY <3>1 DEF Queue!FifoNext
    <2>2. ASSUME NEW e \in Elements, Push(e) \/ Upush(e)
          PROVE  Queue!FifoNext
      <3>1. PushGrown(e) \/ PushInPlace(e)
        BY <2>2 DEF Push, Upush
      <3>2. Content' = Append(Content, e)
        BY <1>2, <3>1, PushGrownPuts, PushInPlacePuts
      <3>3. out' = out
        BY <3>1 DEF PushGrown, PushInPlace
      <3>4. Queue!Put(e)
        BY <3>2, <3>3 DEF Queue!Put
      <3> QED
        BY <3>4 DEF Queue!FifoNext
    <2>3. CASE UNCHANGED vars
      BY <2>3 DEF vars, Content, At
    <2> QED
      BY <1>2, <2>1, <2>2, <2>3 DEF Next
  <1> QED
    BY <1>1, <1>2, InitOK, NextOK, PTL DEF Spec, ImplementsFifo, Queue!FifoSpec

-----------------------------------------------------------------------------
(* The growing array. *)

(* An array with elements of S; before its first growth it has no block. *)
ArrayOf(S, a) ==
  /\ a \in [cells : Seq(S \cup {Junk}), len : Nat, head : Nat \ {0}]
  /\ Len(a.cells) = a.head \/ (a.cells = << >> /\ a.head = 1)
  /\ a.len <= Len(a.cells)
  /\ \A i \in 1 .. a.len : a.cells[i] \in S

(* The growth makes room for an element, and keeps those there are. *)
LEMMA RoomIsMade ==
  ASSUME NEW S, NEW a, ArrayOf(S, a)
  PROVE  /\ ArrayOf(S, RoomForOne(a))
         /\ RoomForOne(a).len = a.len
         /\ a.len < Len(RoomForOne(a).cells)
         /\ \A i \in 1 .. a.len : RoomForOne(a).cells[i] = a.cells[i]
<1>1. CASE a.len >= a.head - 1
  <2> DEFINE c == [j \in 1 .. (2 * a.head) |->
                     IF j \in DOMAIN a.cells THEN a.cells[j] ELSE Junk]
  <2>1. c \in Seq(S \cup {Junk}) /\ Len(c) = 2 * a.head
    <3>1. \A j \in 1 .. (2 * a.head) : c[j] \in S \cup {Junk}
      BY DEF ArrayOf
    <3>2. c \in [1 .. (2 * a.head) -> S \cup {Junk}] /\ 2 * a.head \in Nat
      BY <3>1 DEF ArrayOf
    <3> QED
      BY <3>2
  <2>2. RoomForOne(a) = [a EXCEPT !.cells = c, !.head = 2 * a.head]
    BY <1>1 DEF RoomForOne, Doubled
  <2>3. RoomForOne(a) = [cells |-> c, len |-> a.len, head |-> 2 * a.head]
    BY <2>2 DEF ArrayOf
  <2>4. \A i \in 1 .. a.len : c[i] = a.cells[i]
    BY DEF ArrayOf
  <2> HIDE DEF c
  <2>5. a.len < 2 * a.head
    BY DEF ArrayOf
  <2> QED
    BY <2>1, <2>3, <2>4, <2>5, SMTT(30) DEF ArrayOf
<1>2. CASE ~(a.len >= a.head - 1)
  BY <1>2 DEF RoomForOne, ArrayOf
<1> QED
  BY <1>1, <1>2

(* dyn_array_push *)
LEMMA PushAdds ==
  ASSUME NEW S, NEW a, ArrayOf(S, a), NEW e \in S
  PROVE  /\ ArrayOf(S, DynPush(a, e))
         /\ DynPush(a, e).len = a.len + 1
         /\ \A i \in 1 .. a.len : DynPush(a, e).cells[i] = a.cells[i]
         /\ DynPush(a, e).cells[a.len + 1] = e
<1> DEFINE g == RoomForOne(a)
<1>1. /\ ArrayOf(S, g) /\ g.len = a.len /\ a.len < Len(g.cells)
      /\ \A i \in 1 .. a.len : g.cells[i] = a.cells[i]
  BY RoomIsMade
<1> DEFINE c == Store(g.cells, a.len, e)
<1>2. DynPush(a, e) = [g EXCEPT !.cells = c, !.len = g.len + 1]
  BY DEF DynPush
<1> HIDE DEF g
<1>3. c \in Seq(S \cup {Junk}) /\ Len(c) = Len(g.cells)
  <2>1. c \in [1 .. Len(g.cells) -> S \cup {Junk}] /\ Len(g.cells) \in Nat
    BY <1>1 DEF ArrayOf, Store
  <2> QED
    BY <2>1
<1>4. a.len \in Nat /\ c[a.len + 1] = e /\ \A i \in 1 .. a.len : c[i] = a.cells[i]
  BY <1>1 DEF ArrayOf, Store
<1> HIDE DEF c
<1>5. DynPush(a, e) = [cells |-> c, len |-> a.len + 1, head |-> g.head]
  BY <1>1, <1>2 DEF ArrayOf
<1>6. Len(g.cells) = g.head
  BY <1>1 DEF ArrayOf
<1>7. \A i \in 1 .. (a.len + 1) : c[i] \in S
  BY <1>4 DEF ArrayOf
<1> QED
  BY <1>1, <1>3, <1>4, <1>5, <1>6, <1>7 DEF ArrayOf

(* dyn_array_remove_idx: those after the element move one place down. *)
LEMMA RemoveCloses ==
  ASSUME NEW S, NEW a, ArrayOf(S, a), NEW i \in 0 .. (a.len - 1)
  PROVE  /\ ArrayOf(S, RemoveIdx(a, i))
         /\ RemoveIdx(a, i).len = a.len - 1
         /\ \A j \in 1 .. (a.len - 1) :
              RemoveIdx(a, i).cells[j] = IF j <= i THEN a.cells[j] ELSE a.cells[j + 1]
<1> DEFINE c == Memmove(a.cells, i, i + 1, a.len - i - 1)
<1>1. a.len \in Nat /\ Len(a.cells) \in Nat /\ a.len <= Len(a.cells) /\ DOMAIN a.cells = 1 .. Len(a.cells)
  BY DEF ArrayOf
<1>2. c \in Seq(S \cup {Junk}) /\ Len(c) = Len(a.cells)
  <2>1. \A j \in DOMAIN a.cells : a.cells[j] \in S \cup {Junk}
    BY <1>1 DEF ArrayOf
  <2>2. c \in [1 .. Len(a.cells) -> S \cup {Junk}]
    BY <1>1, <2>1 DEF Memmove
  <2> QED
    BY <1>1, <2>2
<1>3. \A j \in 1 .. (a.len - 1) : c[j] = IF j <= i THEN a.cells[j] ELSE a.cells[j + 1]
  <2> TAKE j \in 1 .. (a.len - 1)
  <2>1. j \in DOMAIN a.cells /\ j + 1 \in DOMAIN a.cells
    BY <1>1
  <2>2. CASE j <= i
    <3>1. ~(j - 1 \in i .. (i + (a.len - i - 1) - 1))
      BY <1>1, <2>2
    <3> QED
      BY <2>1, <2>2, <3>1 DEF Memmove
  <2>3. CASE ~(j <= i)
    <3>1. j - 1 \in i .. (i + (a.len - i - 1) - 1) /\ j - i + (i + 1) = j + 1
      BY <1>1, <2>3
    <3> QED
      BY <2>1, <2>3, <3>1 DEF Memmove
  <2> QED
    BY <2>2, <2>3
<1>4. RemoveIdx(a, i) = [a EXCEPT !.cells = c, !.len = a.len - 1]
  BY DEF RemoveIdx
<1> HIDE DEF c
<1>5. RemoveIdx(a, i) = [cells |-> c, len |-> a.len - 1, head |-> a.head]
  BY <1>4 DEF ArrayOf
<1>6. \A j \in 1 .. (a.len - 1) : c[j] \in S
  <2> TAKE j \in 1 .. (a.len - 1)
  <2>1. j \in 1 .. a.len /\ j + 1 \in 1 .. a.len
    BY <1>1
  <2>2. a.cells[j] \in S /\ a.cells[j + 1] \in S
    BY <2>1 DEF ArrayOf
  <2> QED
    BY <1>3, <2>2
<1>7. c = << >> \/ Len(c) = a.head
  BY <1>2 DEF ArrayOf
<1> QED
  BY <1>1, <1>2, <1>3, <1>5, <1>6, <1>7 DEF ArrayOf

(* dyn_array_insert: those from the place on move one place up. *)
LEMMA InsertOpens ==
  ASSUME NEW S, NEW a, ArrayOf(S, a), NEW i \in 0 .. a.len, NEW e \in S
  PROVE  /\ ArrayOf(S, Insert(a, i, e))
         /\ Insert(a, i, e).len = a.len + 1
         /\ \A j \in 1 .. (a.len + 1) :
              Insert(a, i, e).cells[j] =
                IF j <= i THEN a.cells[j] ELSE IF j = i + 1 THEN e ELSE a.cells[j - 1]
<1> DEFINE g == RoomForOne(a)
<1>1. /\ ArrayOf(S, g) /\ g.len = a.len /\ a.len < Len(g.cells)
      /\ \A j \in 1 .. a.len : g.cells[j] = a.cells[j]
  BY RoomIsMade
<1> DEFINE d == Memmove(g.cells, i + 1, i, g.len - i)
           c == Store(d, i, e)
<1>2. Insert(a, i, e) = [g EXCEPT !.cells = c, !.len = g.len + 1]
  <2>1. Insert(a, i, e) = [g EXCEPT !.cells = Store(Memmove(@, i + 1, i, a.len - i), i, e), !.len = @ + 1]
    BY DEF Insert
  <2> QED
    BY <1>1, <2>1
<1> HIDE DEF g
<1>3. a.len \in Nat /\ Len(g.cells) \in Nat /\ DOMAIN g.cells = 1 .. Len(g.cells)
  BY <1>1 DEF ArrayOf
<1>4. /\ DOMAIN d = 1 .. Len(g.cells)
      /\ \A j \in 1 .. Len(g.cells) : d[j] \in S \cup {Junk}
      /\ \A j \in 1 .. (a.len + 1) :
           j # i + 1 => d[j] = IF j <= i THEN a.cells[j] ELSE a.cells[j - 1]
  <2>1. DOMAIN d = 1 .. Len(g.cells)
    BY <1>3 DEF Memmove
  <2>2. \A j \in 1 .. Len(g.cells) : d[j] \in S \cup {Junk}
    BY <1>1, <1>3 DEF Memmove, ArrayOf
  <2>3. ASSUME NEW j \in 1 .. (a.len + 1), j # i + 1
        PROVE  d[j] = IF j <= i THEN a.cells[j] ELSE a.cells[j - 1]
    <3>1. j \in DOMAIN g.cells
      BY <1>1, <1>3
    <3>2. CASE j <= i
      <4>1. ~(j - 1 \in (i + 1) .. ((i + 1) + (g.len - i) - 1)) /\ j \in 1 .. a.len
        BY <1>1, <1>3, <3>2
      <4> QED
        BY <1>1, <3>1, <3>2, <4>1 DEF Memmove
    <3>3. CASE ~(j <= i)
      <4>1. /\ j - 1 \in (i + 1) .. ((i + 1) + (g.len - i) - 1) /\ j - (i + 1) + i = j - 1
            /\ j - 1 \in DOMAIN g.cells /\ j - 1 \in 1 .. a.len
        <5>1. i \in Nat /\ i <= a.len /\ j \in Nat /\ j >= i + 2 /\ j <= a.len + 1 /\ g.len = a.len
          BY <1>1, <1>3, <2>3, <3>3
        <5>2. (i + 1) + (g.len - i) - 1 = a.len /\ j - (i + 1) + i = j - 1
          BY <1>3, <5>1
        <5>3. j - 1 \in (i + 1) .. a.len /\ j - 1 \in 1 .. a.len /\ j - 1 \in 1 .. Len(g.cells)
          BY <1>1, <1>3, <5>1
        <5> QED
          BY <1>3, <5>2, <5>3
      <4>2. d[j] = g.cells[j - (i + 1) + i]
        BY <3>1, <4>1 DEF Memmove
      <4> QED
        BY <1>1, <3>3, <4>1, <4>2
    <3> QED
      BY <3>2, <3>3
  <2> QED
    BY <2>1, <2>2, <2>3
<1> HIDE DEF d
<1>5. /\ c \in Seq(S \cup {Junk}) /\ Len(c) = Len(g.cells)
      /\ \A j \in 1 .. (a.len + 1) :
           c[j] = IF j <= i THEN a.cells[j] ELSE IF j = i + 1 THEN e ELSE a.cells[j - 1]
  <2>1. c = [j \in 1 .. Len(g.cells) |-> IF j = i + 1 THEN e ELSE d[j]]
    BY <1>4 DEF Store
  <2>2. c \in [1 .. Len(g.cells) -> S \cup {Junk}]
    BY <1>4, <2>1
  <2>3. \A j \in 1 .. (a.len + 1) : j \in 1 .. Len(g.cells) /\ (j = i + 1 => ~(j <= i))
    BY <1>1, <1>3
  <2> HIDE DEF c
  <2>4. \A j \in 1 .. (a.len + 1) :
           c[j] = IF j <= i THEN a.cells[j] ELSE IF j = i + 1 THEN e ELSE a.cells[j - 1]
    BY <1>4, <2>1, <2>3
  <2> QED
    BY <1>3, <2>2, <2>4
<1> HIDE DEF c
<1>6. Insert(a, i, e) = [cells |-> c, len |-> a.len + 1, head |-> g.head]
  BY <1>1, <1>2 DEF ArrayOf
<1>7. Len(g.cells) = g.head
  BY <1>1 DEF ArrayOf
<1>8. \A j \in 1 .. (a.len + 1) : c[j] \in S
  <2> TAKE j \in 1 .. (a.len + 1)
  <2>1. (j <= i => j \in 1 .. a.len) /\ (j > i + 1 => j - 1 \in 1 .. a.len)
    BY <1>3
  <2>2. CASE j <= i
    <3>1. j \in 1 .. a.len /\ c[j] = a.cells[j]
      BY <1>5, <2>1, <2>2
    <3> QED
      BY <3>1 DEF ArrayOf
  <2>3. CASE j = i + 1
    BY <1>3, <1>5, <2>3
  <2>4. CASE j > i + 1
    <3>1. j - 1 \in 1 .. a.len /\ c[j] = a.cells[j - 1]
      BY <1>3, <1>5, <2>1, <2>4
    <3> QED
      BY <3>1 DEF ArrayOf
  <2> QED
    BY <1>3, <2>2, <2>3, <2>4
<1> QED
  BY <1>1, <1>3, <1>5, <1>6, <1>7, <1>8 DEF ArrayOf

(* The elements of an array, as a sequence. *)
LEMMA ListOf ==
  ASSUME NEW S, NEW a, ArrayOf(S, a)
  PROVE  /\ Listed(a) \in Seq(S) /\ Len(Listed(a)) = a.len /\ a.len \in Nat
         /\ \A i \in 1 .. a.len : Listed(a)[i] = a.cells[i]
<1>1. a.len \in Nat /\ Len(a.cells) \in Nat /\ a.len <= Len(a.cells)
  BY DEF ArrayOf
<1>2. \A i \in 1 .. a.len : Cell(a, i - 1) = a.cells[i]
  BY <1>1 DEF Cell
<1>3. Listed(a) = [i \in 1 .. a.len |-> a.cells[i]]
  BY <1>2 DEF Listed
<1>4. Listed(a) \in [1 .. a.len -> S]
  BY <1>3 DEF ArrayOf
<1> QED
  BY <1>1, <1>3, <1>4

(* An element taken out of a sequence, and one put into it. *)
LEMMA RemovedAt ==
  ASSUME NEW S, NEW s \in Seq(S), NEW i \in 1 .. Len(s)
  PROVE  /\ RemoveAt(s, i) \in Seq(S) /\ Len(RemoveAt(s, i)) = Len(s) - 1
         /\ \A j \in 1 .. (Len(s) - 1) : RemoveAt(s, i)[j] = s[IF j < i THEN j ELSE j + 1]
<1> DEFINE n == Len(s)
           u == SubSeq(s, 1, i - 1)
           v == SubSeq(s, i + 1, n)
<1>1. n \in Nat /\ i \in 1 .. n
  BY LenProperties
<1>2. \A j \in 1 .. n : s[j] \in S
  BY ElementOfSeq
<1>3. u \in Seq(S) /\ Len(u) = i - 1 /\ \A j \in 1 .. (i - 1) : u[j] = s[j]
  BY <1>1, <1>2, SubSeqProperties
<1>4. v \in Seq(S) /\ Len(v) = n - i /\ \A j \in 1 .. (n - i) : v[j] = s[i + j]
  <2>1. \A j \in (i + 1) .. n : s[j] \in S
    BY <1>1, <1>2
  <2>2. /\ v \in Seq(S) /\ Len(v) = IF i + 1 <= n THEN n - (i + 1) + 1 ELSE 0
        /\ \A j \in 1 .. (n - (i + 1) + 1) : v[j] = s[(i + 1) + j - 1]
    <3> HIDE DEF n
    <3> QED
      BY <1>1, <2>1, SubSeqProperties
  <2>3. \A j \in 1 .. (n - i) : j \in 1 .. (n - (i + 1) + 1) /\ (i + 1) + j - 1 = i + j
    BY <1>1
  <2> QED
    BY <1>1, <2>2, <2>3
<1>5. RemoveAt(s, i) = u \o v
  BY DEF RemoveAt
<1> HIDE DEF n, u, v
<1>6. /\ u \o v \in Seq(S) /\ Len(u \o v) = n - 1
      /\ \A j \in 1 .. (n - 1) : (u \o v)[j] = IF j <= i - 1 THEN u[j] ELSE v[j - (i - 1)]
  <2>1. Len(u) + Len(v) = n - 1
    BY <1>1, <1>3, <1>4
  <2> QED
    BY <1>3, <1>4, <2>1, ConcatProperties
<1>7. \A j \in 1 .. (n - 1) : (u \o v)[j] = s[IF j < i THEN j ELSE j + 1]
  <2> TAKE j \in 1 .. (n - 1)
  <2>1. CASE j < i
    BY <1>1, <1>3, <1>6, <2>1
  <2>2. CASE ~(j < i)
    <3>1. j - (i - 1) \in 1 .. (n - i) /\ i + (j - (i - 1)) = j + 1
      BY <1>1, <2>2
    <3> QED
      BY <1>1, <1>4, <1>6, <2>2, <3>1
  <2> QED
    BY <2>1, <2>2
<1> QED
  BY <1>5, <1>6, <1>7 DEF n

LEMMA InsertedAt ==
  ASSUME NEW S, NEW s \in Seq(S), NEW i \in 1 .. (Len(s) + 1), NEW e \in S
  PROVE  /\ InsertAt(s, i, e) \in Seq(S) /\ Len(InsertAt(s, i, e)) = Len(s) + 1
         /\ \A j \in 1 .. (Len(s) + 1) :
              InsertAt(s, i, e)[j] = IF j < i THEN s[j] ELSE IF j = i THEN e ELSE s[j - 1]
<1> DEFINE n == Len(s)
           u == SubSeq(s, 1, i - 1)
           v == SubSeq(s, i, n)
<1>1. n \in Nat /\ i \in 1 .. (n + 1)
  BY LenProperties
<1>2. \A j \in 1 .. n : s[j] \in S
  BY ElementOfSeq
<1>3. u \in Seq(S) /\ Len(u) = i - 1 /\ \A j \in 1 .. (i - 1) : u[j] = s[j]
  <2>1. \A j \in 1 .. (i - 1) : s[j] \in S
    BY <1>1, <1>2
  <2> QED
    BY <1>1, <2>1, SubSeqProperties
<1>4. v \in Seq(S) /\ Len(v) = n + 1 - i /\ \A j \in 1 .. (n + 1 - i) : v[j] = s[i + j - 1]
  <2>1. \A j \in i .. n : s[j] \in S
    BY <1>1, <1>2
  <2>2. /\ v \in Seq(S) /\ Len(v) = IF i <= n THEN n - i + 1 ELSE 0
        /\ \A j \in 1 .. (n - i + 1) : v[j] = s[i + j - 1]
    <3> HIDE DEF n
    <3> QED
      BY <1>1, <2>1, SubSeqProperties
  <2>3. n + 1 - i = n - i + 1 /\ (~(i <= n) => n + 1 - i = 0)
    BY <1>1
  <2> QED
    BY <1>1, <2>2, <2>3
<1> HIDE DEF n, u, v
<1>5. InsertAt(s, i, e) = (u \o <<e>>) \o v
  BY DEF InsertAt, n, u, v
<1>6. /\ u \o <<e>> \in Seq(S) /\ Len(u \o <<e>>) = i
      /\ \A j \in 1 .. i : (u \o <<e>>)[j] = IF j <= i - 1 THEN u[j] ELSE e
  <2>1. Append(u, e) = u \o <<e>>
    BY <1>3, AppendIsConcat
  <2>2. Append(u, e) \in Seq(S) /\ Len(Append(u, e)) = i /\ Append(u, e)[i] = e
        /\ \A j \in 1 .. (i - 1) : Append(u, e)[j] = u[j]
    BY <1>1, <1>3, AppendProperties
  <2>3. \A j \in 1 .. i : j \in 1 .. (i - 1) \/ (j = i /\ ~(j <= i - 1))
    BY <1>1
  <2> QED
    BY <1>1, <2>1, <2>2, <2>3
<1> DEFINE w == u \o <<e>>
<1> HIDE DEF w
<1>7. w \in Seq(S) /\ Len(w) = i /\ \A j \in 1 .. i : w[j] = IF j < i THEN s[j] ELSE e
  <2>1. \A j \in 1 .. i : (j <= i - 1 <=> j < i) /\ (j < i => j \in 1 .. (i - 1))
    BY <1>1
  <2> QED
    BY <1>3, <1>6, <2>1 DEF w
<1>8. /\ w \o v \in Seq(S) /\ Len(w \o v) = n + 1
      /\ \A j \in 1 .. (n + 1) : (w \o v)[j] = IF j <= i THEN w[j] ELSE v[j - i]
  <2>1. Len(w) + Len(v) = n + 1
    BY <1>1, <1>4, <1>7
  <2> QED
    BY <1>4, <1>7, <2>1, ConcatProperties
<1>9. \A j \in 1 .. (n + 1) : (w \o v)[j] = IF j < i THEN s[j] ELSE IF j = i THEN e ELSE s[j - 1]
  <2> TAKE j \in 1 .. (n + 1)
  <2>1. CASE j <= i
    BY <1>1, <1>7, <1>8, <2>1
  <2>2. CASE ~(j <= i)
    <3>1. j - i \in 1 .. (n + 1 - i) /\ i + (j - i) - 1 = j - 1
      BY <1>1, <2>2
    <3> QED
      BY <1>1, <1>4, <1>8, <2>2, <3>1
  <2> QED
    BY <2>1, <2>2
<1> QED
  BY <1>5, <1>8, <1>9 DEF n, w

(* What the calls on an array do to the sequence of its elements. *)
LEMMA PushIsAppend ==
  ASSUME NEW S, NEW a, ArrayOf(S, a), NEW e \in S
  PROVE  Listed(DynPush(a, e)) = Append(Listed(a), e)
<1> DEFINE l == Listed(a)
           m == Listed(DynPush(a, e))
<1>1. l \in Seq(S) /\ Len(l) = a.len /\ a.len \in Nat /\ \A i \in 1 .. a.len : l[i] = a.cells[i]
  BY ListOf
<1>2. /\ ArrayOf(S, DynPush(a, e)) /\ DynPush(a, e).len = a.len + 1
      /\ \A i \in 1 .. a.len : DynPush(a, e).cells[i] = a.cells[i]
      /\ DynPush(a, e).cells[a.len + 1] = e
  BY PushAdds
<1>3. m \in Seq(S) /\ Len(m) = a.len + 1 /\ \A i \in 1 .. (a.len + 1) : m[i] = DynPush(a, e).cells[i]
  BY <1>2, ListOf
<1> HIDE DEF l, m
<1>4. /\ Append(l, e) \in Seq(S) /\ Len(Append(l, e)) = a.len + 1
      /\ \A i \in 1 .. a.len : Append(l, e)[i] = l[i]
      /\ Append(l, e)[a.len + 1] = e
  BY <1>1, AppendProperties
<1>5. \A i \in 1 .. (a.len + 1) : m[i] = Append(l, e)[i]
  <2> TAKE i \in 1 .. (a.len + 1)
  <2>1. CASE i \in 1 .. a.len
    BY <1>1, <1>2, <1>3, <1>4, <2>1
  <2>2. CASE i = a.len + 1
    BY <1>1, <1>2, <1>3, <1>4, <2>2
  <2> QED
    BY <1>1, <2>1, <2>2
<1>6. m = Append(l, e)
  BY <1>3, <1>4, <1>5, SeqEqual
<1> QED
  BY <1>6 DEF l, m

LEMMA RemoveIsRemoveAt ==
  ASSUME NEW S, NEW a, ArrayOf(S, a), NEW i \in 0 .. (a.len - 1)
  PROVE  Listed(RemoveIdx(a, i)) = RemoveAt(Listed(a), i + 1)
<1> DEFINE l == Listed(a)
           m == Listed(RemoveIdx(a, i))
           r == RemoveAt(l, i + 1)
           n == a.len - 1
<1>1. l \in Seq(S) /\ Len(l) = a.len /\ a.len \in Nat /\ \A j \in 1 .. a.len : l[j] = a.cells[j]
  BY ListOf
<1>2. /\ ArrayOf(S, RemoveIdx(a, i)) /\ RemoveIdx(a, i).len = n
      /\ \A j \in 1 .. n : RemoveIdx(a, i).cells[j] = IF j <= i THEN a.cells[j] ELSE a.cells[j + 1]
  BY RemoveCloses
<1>3. m \in Seq(S) /\ Len(m) = n /\ \A j \in 1 .. n : m[j] = RemoveIdx(a, i).cells[j]
  <2> HIDE DEF n
  <2> QED
    BY <1>2, ListOf
<1> HIDE DEF l, m
<1>4. i + 1 \in 1 .. Len(l)
  BY <1>1
<1>5. /\ r \in Seq(S) /\ Len(r) = n
      /\ \A j \in 1 .. n : r[j] = l[IF j < i + 1 THEN j ELSE j + 1]
  BY <1>1, <1>4, RemovedAt
<1> HIDE DEF r
<1>6. \A j \in 1 .. n : m[j] = r[j]
  <2> TAKE j \in 1 .. n
  <2>1. j \in 1 .. a.len /\ j + 1 \in 1 .. a.len /\ (j <= i <=> j < i + 1)
    BY <1>1
  <2>2. CASE j <= i
    BY <1>1, <1>2, <1>3, <1>5, <2>1, <2>2
  <2>3. CASE ~(j <= i)
    BY <1>1, <1>2, <1>3, <1>5, <2>1, <2>3
  <2> QED
    BY <2>2, <2>3
<1>7. m = r
  <2> HIDE DEF n
  <2> QED
    BY <1>3, <1>5, <1>6, SeqEqual
<1> QED
  BY <1>7 DEF l, m, r

LEMMA InsertIsInsertAt ==
  ASSUME NEW S, NEW a, ArrayOf(S, a), NEW i \in 0 .. a.len, NEW e \in S
  PROVE  Listed(Insert(a, i, e)) = InsertAt(Listed(a), i + 1, e)
<1> DEFINE l == Listed(a)
           m == Listed(Insert(a, i, e))
           r == InsertAt(l, i + 1, e)
           n == a.len + 1
<1>1. l \in Seq(S) /\ Len(l) = a.len /\ a.len \in Nat /\ \A j \in 1 .. a.len : l[j] = a.cells[j]
  BY ListOf
<1>2. /\ ArrayOf(S, Insert(a, i, e)) /\ Insert(a, i, e).len = n
      /\ \A j \in 1 .. n : Insert(a, i, e).cells[j] =
           IF j <= i THEN a.cells[j] ELSE IF j = i + 1 THEN e ELSE a.cells[j - 1]
  BY InsertOpens
<1>3. m \in Seq(S) /\ Len(m) = n /\ \A j \in 1 .. n : m[j] = Insert(a, i, e).cells[j]
  <2> HIDE DEF n
  <2> QED
    BY <1>2, ListOf
<1> HIDE DEF l, m
<1>4. i + 1 \in 1 .. (Len(l) + 1)
  BY <1>1
<1>5. /\ r \in Seq(S) /\ Len(r) = n
      /\ \A j \in 1 .. n : r[j] = IF j < i + 1 THEN l[j] ELSE IF j = i + 1 THEN e ELSE l[j - 1]
  BY <1>1, <1>4, InsertedAt
<1> HIDE DEF r
<1>6. \A j \in 1 .. n : m[j] = r[j]
  <2> TAKE j \in 1 .. n
  <2>1. (j <= i <=> j < i + 1) /\ (j <= i => j \in 1 .. a.len) /\ (j > i + 1 => j - 1 \in 1 .. a.len)
    BY <1>1
  <2>2. CASE j <= i
    BY <1>1, <1>2, <1>3, <1>5, <2>1, <2>2
  <2>3. CASE j = i + 1
    <3>1. ~(j <= i) /\ ~(j < i + 1)
      BY <1>1, <2>3
    <3> QED
      BY <1>2, <1>3, <1>5, <2>3, <3>1
  <2>4. CASE j > i + 1
    <3>1. ~(j <= i) /\ ~(j < i + 1) /\ j # i + 1
      BY <1>1, <2>4
    <3> QED
      BY <1>1, <1>2, <1>3, <1>5, <2>1, <2>4, <3>1
  <2> QED
    BY <1>1, <2>2, <2>3, <2>4
<1>7. m = r
  <2> HIDE DEF n
  <2> QED
    BY <1>3, <1>5, <1>6, SeqEqual
<1> QED
  BY <1>7 DEF l, m, r

(* A set of numbers has a least one. *)
LEMMA Least ==
  ASSUME NEW S \in SUBSET Nat, S # {}
  PROVE  \E x \in S : \A y \in S : x <= y
<1> DEFINE T == {0 .. x : x \in S}
<1>1. T \in SUBSET FiniteSubsetsOf(Nat) /\ T # {}
  <2>1. ASSUME NEW x \in S PROVE 0 .. x \in FiniteSubsetsOf(Nat)
    BY <2>1, FS_Interval DEF FiniteSubsetsOf
  <2> QED
    BY <2>1
<1>2. PICK t \in T : \A u \in T : ~(<<u, t>> \in StrictSubsetOrdering(Nat))
  <2> HIDE DEF T
  <2> QED
    BY <1>1, WFMin, FS_StrictSubsetOrderingWellFounded
<1>3. PICK x \in S : t = 0 .. x
  BY <1>2
<1>4. ASSUME NEW y \in S, y < x PROVE FALSE
  <2>1. 0 .. y \subseteq t /\ x \in t /\ x \notin 0 .. y
    BY <1>3, <1>4
  <2>2. <<0 .. y, t>> \in StrictSubsetOrdering(Nat)
    BY <1>3, <2>1 DEF StrictSubsetOrdering
  <2> QED
    BY <1>2, <2>2
<1> QED
  BY <1>4

(* dyn_array_index answers the first place an element is held at. *)
LEMMA IndexIsFirst ==
  ASSUME NEW S, NEW a, ArrayOf(S, a), NEW e
  PROVE  Index(a, e) = IF List!Held(Listed(a), e) = {} THEN None
                       ELSE List!Min(List!Held(Listed(a), e)) - 1
<1> DEFINE held == List!Held(Listed(a), e)
           hits == {i \in 0 .. (a.len - 1) : Cell(a, i) = e}
<1>1. a.len \in Nat /\ DOMAIN Listed(a) = 1 .. a.len /\ \A i \in 1 .. a.len : Listed(a)[i] = Cell(a, i - 1)
  BY DEF ArrayOf, Listed
<1>2. \A i \in Nat : i \in hits <=> i + 1 \in held
  <2> TAKE i \in Nat
  <2>1. (i \in 0 .. (a.len - 1) <=> i + 1 \in 1 .. a.len) /\ (i + 1) - 1 = i
    BY <1>1
  <2> QED
    BY <1>1, <2>1 DEF List!Held
<1>3. hits \subseteq Nat /\ held \subseteq Nat \ {0}
  BY <1>1 DEF List!Held
<1>4. Index(a, e) = First(hits)
  BY DEF Index
<1> HIDE DEF hits, held
<1>5. CASE hits = {}
  <2>1. held = {}
    <3> SUFFICES ASSUME NEW j \in held PROVE FALSE
      OBVIOUS
    <3>1. j - 1 \in Nat /\ (j - 1) + 1 = j
      BY <1>3
    <3> QED
      BY <1>2, <1>5, <3>1
  <2> QED
    BY <1>4, <1>5, <2>1 DEF First, held
<1>6. CASE hits # {}
  <2>1. First(hits) \in hits /\ \A j \in hits : First(hits) <= j
    BY <1>3, <1>6, Least DEF First
  <2>2. held # {}
    BY <1>2, <1>3, <2>1
  <2>3. List!Min(held) \in held /\ \A j \in held : List!Min(held) <= j
    BY <1>3, <2>2, Least DEF List!Min
  <2> DEFINE f == First(hits)
             g == List!Min(held)
  <2>4. /\ f \in Nat /\ f \in hits /\ \A x \in hits : f <= x
        /\ g \in Nat \ {0} /\ g \in held /\ \A x \in held : g <= x
    BY <1>3, <2>1, <2>3
  <2> HIDE DEF f, g
  <2>5. f + 1 \in held /\ g - 1 \in Nat /\ (g - 1) + 1 = g
    BY <1>2, <2>4
  <2>6. g - 1 \in hits
    BY <1>2, <2>4, <2>5
  <2>7. f <= g - 1 /\ g <= f + 1
    BY <2>4, <2>5, <2>6
  <2>8. f = g - 1
    BY <2>4, <2>7
  <2> QED
    BY <1>4, <1>6, <2>2, <2>8 DEF held, f, g
<1> QED
  BY <1>5, <1>6

(* How many numbers there are from 1 to n. *)
LEMMA Numbers ==
  ASSUME NEW n \in Nat
  PROVE  IsFiniteSet(1 .. n) /\ Cardinality(1 .. n) = n
BY FS_Interval

-----------------------------------------------------------------------------
(* Loops.  The library's theorems on induction and on recursive functions  *)
(* have an operator as a parameter; these have sets and functions instead. *)

(* What holds of 0, and of the next number with each, holds up to N. *)
LEMMA UpTo ==
  ASSUME NEW N \in Nat, NEW S, 0 \in S,
         \A n \in 0 .. (N - 1) : n \in S => n + 1 \in S
  PROVE  \A n \in 0 .. N : n \in S
<1> DEFINE Out == {n \in 0 .. N : n \notin S}
<1> SUFFICES ASSUME Out # {} PROVE FALSE
  OBVIOUS
<1>1. PICK x \in Out : \A y \in Out : x <= y
  <2>1. Out \in SUBSET Nat
    OBVIOUS
  <2> HIDE DEF Out
  <2> QED
    BY <2>1, Least
<1>2. x \in 0 .. N /\ x \notin S /\ x # 0
  OBVIOUS
<1>3. x - 1 \in 0 .. (N - 1) /\ ~(x <= x - 1) /\ (x - 1) + 1 = x
  BY <1>2
<1>4. x - 1 \in S
  BY <1>1, <1>3
<1> QED
  BY <1>2, <1>3, <1>4

(* A run of a loop of N turns: its states are in T, step is its body.     *)
RunsLoop(f, N, T, start, step) ==
  /\ f \in [0 .. N -> T]
  /\ f[0] = start
  /\ \A n \in 1 .. N : f[n] = step[<<n, f[n - 1]>>]

LEMMA LoopRuns ==
  ASSUME NEW N \in Nat, NEW T, NEW start \in T, NEW step \in [(1 .. N) \X T -> T]
  PROVE  \E f : RunsLoop(f, N, T, start, step)
<1> DEFINE Run(f, n) == /\ f \in [0 .. n -> T] /\ f[0] = start
                        /\ \A i \in 1 .. n : f[i] = step[<<i, f[i - 1]>>]
           S == {n \in 0 .. N : \E f : Run(f, n)}
<1>1. 0 \in S
  <2> DEFINE f == [i \in 0 .. 0 |-> start]
  <2>1. Run(f, 0)
    OBVIOUS
  <2> HIDE DEF f, Run
  <2> QED
    BY <2>1
<1>2. ASSUME NEW n \in 0 .. (N - 1), n \in S PROVE n + 1 \in S
  <2>1. n \in Nat /\ n + 1 \in 1 .. N /\ n + 1 \in 0 .. N
    OBVIOUS
  <2>2. PICK f : Run(f, n)
    BY <1>2
  <2> DEFINE g == [i \in 0 .. (n + 1) |-> IF i <= n THEN f[i] ELSE step[<<n + 1, f[n]>>]]
  <2>3. f[n] \in T
    BY <2>1, <2>2
  <2>4. step[<<n + 1, f[n]>>] \in T
    <3>1. <<n + 1, f[n]>> \in (1 .. N) \X T
      BY <2>1, <2>3
    <3> QED
      BY <3>1
  <2>5. g \in [0 .. (n + 1) -> T]
    BY <2>1, <2>2, <2>4
  <2>6. g[0] = start
    BY <2>1, <2>2
  <2>7. ASSUME NEW i \in 1 .. (n + 1) PROVE g[i] = step[<<i, g[i - 1]>>]
    <3>1. CASE i <= n
      <4>1. i \in 1 .. n /\ i - 1 \in 0 .. (n + 1) /\ i - 1 <= n /\ i \in 0 .. (n + 1)
        BY <2>1, <3>1
      <4>2. g[i] = f[i] /\ g[i - 1] = f[i - 1]
        BY <3>1, <4>1
      <4> QED
        BY <2>2, <4>1, <4>2
    <3>2. CASE ~(i <= n)
      <4>1. i = n + 1 /\ i - 1 = n /\ n \in 0 .. (n + 1) /\ i \in 0 .. (n + 1)
        BY <2>1, <3>2
      <4> QED
        BY <4>1
    <3> QED
      BY <3>1, <3>2
  <2>8. Run(g, n + 1)
    BY <2>5, <2>6, <2>7
  <2> HIDE DEF g, Run
  <2> QED
    BY <2>1, <2>8
<1>3. N \in S
  <2> HIDE DEF S
  <2>1. N \in 0 .. N /\ \A n \in 0 .. (N - 1) : n \in S => n + 1 \in S
    BY <1>2
  <2>2. \A n \in 0 .. N : n \in S
    BY <1>1, <2>1, UpTo
  <2> QED
    BY <2>1, <2>2
<1>4. PICK f : Run(f, N)
  BY <1>3
<1> QED
  BY <1>4 DEF RunsLoop

-----------------------------------------------------------------------------
(* The members of a set of numbers in their order. *)

(* The rank of n counts the members up to n. *)
LEMMA RankNext ==
  ASSUME NEW N \in Nat, NEW S \in SUBSET (1 .. N), NEW n \in 0 .. N
  PROVE  /\ Rank(S, n) \in Nat /\ Rank(S, n) <= n
         /\ Rank(S, 0) = 0
         /\ n + 1 \in S => Rank(S, n + 1) = Rank(S, n) + 1
         /\ n + 1 \notin S => Rank(S, n + 1) = Rank(S, n)
         /\ IsFiniteSet(S) /\ Rank(S, N) = Cardinality(S)
<1> DEFINE U(m) == {j \in S : j <= m}
<1>0. \A j \in S : j \in Nat /\ 1 <= j /\ j <= N
  OBVIOUS
<1>1. IsFiniteSet(1 .. N) /\ n \in Nat /\ IsFiniteSet(1 .. n) /\ Cardinality(1 .. n) = n
  BY Numbers
<1>2. IsFiniteSet(S)
  BY <1>1, FS_Subset
<1>3. IsFiniteSet(U(n)) /\ U(n) \in SUBSET (1 .. n)
  <2>1. U(n) \in SUBSET S /\ U(n) \in SUBSET (1 .. n)
    <3>1. \A j \in U(n) : j \in S /\ j \in 1 .. n
      BY <1>0, <1>1
    <3> QED
      BY <3>1
  <2> QED
    BY <1>2, <2>1, FS_Subset
<1>4. Cardinality(U(n)) \in Nat /\ Cardinality(U(n)) <= n
  <2> HIDE DEF U
  <2> QED
    BY <1>1, <1>3, FS_CardinalityType, FS_Subset
<1>5. U(0) = {} /\ Cardinality({}) = 0 /\ U(N) = S
  <2>1. \A j \in S : ~(j <= 0) /\ j <= N
    BY <1>0
  <2>2. U(0) = {} /\ U(N) = S
    BY <2>1
  <2> QED
    BY <2>2, FS_EmptySet
<1>6. n + 1 \in S => U(n + 1) = U(n) \cup {n + 1} /\ n + 1 \notin U(n)
  <2>1. \A j \in S : j <= n + 1 <=> j <= n \/ j = n + 1
    BY <1>0, <1>1
  <2>2. ~(n + 1 <= n)
    BY <1>1
  <2> QED
    BY <2>1, <2>2
<1>7. n + 1 \notin S => U(n + 1) = U(n)
  <2>1. n + 1 \notin S => \A j \in S : j <= n + 1 <=> j <= n
    BY <1>0, <1>1
  <2> QED
    BY <2>1
<1>8. n + 1 \in S => Cardinality(U(n + 1)) = Cardinality(U(n)) + 1
  <2> HIDE DEF U
  <2> QED
    BY <1>3, <1>6, FS_AddElement
<1> QED
  BY <1>2, <1>4, <1>5, <1>7, <1>8 DEF Rank

(* Ranks grow with the numbers, and tell the members apart. *)
LEMMA RanksGrow ==
  ASSUME NEW N \in Nat, NEW S \in SUBSET (1 .. N), NEW n \in 0 .. N
  PROVE  /\ \A p \in S : p <= n => Rank(S, p) \in 1 .. Rank(S, n)
         /\ \A p \in S : p > n => Rank(S, p) > Rank(S, n)
<1> DEFINE U(m) == {j \in S : j <= m}
<1>1. IsFiniteSet(S) /\ \A m \in 0 .. N : Rank(S, m) \in Nat
  BY RankNext
<1>2. \A m \in 0 .. N : IsFiniteSet(U(m)) /\ U(m) \in SUBSET S
  BY <1>1, FS_Subset
<1>3. ASSUME NEW l \in 0 .. N, NEW m \in 0 .. N, l <= m
      PROVE  Rank(S, l) <= Rank(S, m) /\ (Rank(S, l) = Rank(S, m) => U(l) = U(m))
  <2>1. U(l) \in SUBSET U(m)
    <3>1. \A j \in S : j \in Nat
      OBVIOUS
    <3>2. \A j \in S : j <= l => j <= m
      BY <1>3, <3>1
    <3> QED
      BY <3>2
  <2>2. IsFiniteSet(U(m))
    BY <1>2
  <2>3. Cardinality(U(l)) <= Cardinality(U(m)) /\ (Cardinality(U(m)) = Cardinality(U(l)) => U(m) = U(l))
    <3> HIDE DEF U
    <3> QED
      BY <2>1, <2>2, FS_Subset
  <2> QED
    BY <2>3 DEF Rank
<1>4. ASSUME NEW p \in S PROVE Rank(S, p) >= 1
  <2>1. p \in 0 .. N /\ p - 1 \in 0 .. N /\ (p - 1) + 1 = p
    OBVIOUS
  <2>2. Rank(S, p) = Rank(S, p - 1) + 1
    BY <2>1, RankNext
  <2> QED
    BY <1>1, <2>1, <2>2
<1>5. ASSUME NEW p \in S, p > n PROVE Rank(S, p) > Rank(S, n)
  <2>1. p \in 0 .. N /\ n <= p /\ p \in U(p) /\ p \notin U(n)
    BY <1>5
  <2> HIDE DEF U
  <2>2. Rank(S, n) <= Rank(S, p) /\ Rank(S, n) # Rank(S, p)
    BY <1>3, <2>1
  <2> QED
    BY <1>1, <2>1, <2>2
<1>6. ASSUME NEW p \in S, p <= n PROVE Rank(S, p) \in 1 .. Rank(S, n)
  <2>1. p \in 0 .. N
    OBVIOUS
  <2> HIDE DEF U
  <2> QED
    BY <1>1, <1>3, <1>4, <1>6, <2>1
<1> QED
  BY <1>5, <1>6

(* The n-th is the member of rank n, and there are as many as there are. *)
LEMMA NthOfRank ==
  ASSUME NEW N \in Nat, NEW S \in SUBSET (1 .. N), NEW p \in S
  PROVE  Nth(S, Rank(S, p)) = p
<1>1. ASSUME NEW i \in S, Rank(S, i) = Rank(S, p) PROVE i = p
  <2>1. i \in 0 .. N /\ p \in 0 .. N
    OBVIOUS
  <2>2. Rank(S, i) \in Nat
    BY <2>1, RankNext
  <2>3. ~(i > p) /\ ~(p > i)
    BY <1>1, <2>1, <2>2, RanksGrow
  <2> QED
    BY <2>1, <2>3
<1> QED
  BY <1>1 DEF Nth

LEMMA EveryRank ==
  ASSUME NEW N \in Nat, NEW S \in SUBSET (1 .. N), NEW n \in 0 .. N
  PROVE  \A m \in 1 .. Rank(S, n) : \E p \in S : p <= n /\ Rank(S, p) = m
<1> DEFINE All == {k \in 0 .. N : \A m \in 1 .. Rank(S, k) : \E p \in S : p <= k /\ Rank(S, p) = m}
<1>1. 0 \in All
  <2>1. Rank(S, 0) = 0
    BY RankNext
  <2> QED
    BY <2>1
<1>2. ASSUME NEW k \in 0 .. (N - 1), k \in All PROVE k + 1 \in All
  <2>1. k \in 0 .. N /\ k + 1 \in 0 .. N
    OBVIOUS
  <2>4. Rank(S, k) \in Nat /\ Rank(S, k + 1) \in Nat
    BY <2>1, RankNext
  <2> SUFFICES ASSUME NEW m \in 1 .. Rank(S, k + 1)
               PROVE  \E p \in S : p <= k + 1 /\ Rank(S, p) = m
    BY <2>1
  <2>2. CASE m \in 1 .. Rank(S, k)
    <3>1. PICK p \in S : p <= k /\ Rank(S, p) = m
      BY <1>2, <2>2
    <3> QED
      BY <3>1
  <2>3. CASE m \notin 1 .. Rank(S, k)
    <3>1. k + 1 \in S
      <4> SUFFICES ASSUME k + 1 \notin S PROVE FALSE
        OBVIOUS
      <4>1. Rank(S, k + 1) = Rank(S, k)
        BY <2>1, RankNext
      <4> QED
        BY <2>3, <4>1
    <3>2. Rank(S, k + 1) = Rank(S, k) + 1
      BY <2>1, <3>1, RankNext
    <3>3. m = Rank(S, k + 1)
      BY <2>3, <2>4, <3>2
    <3> QED
      BY <2>1, <3>1, <3>3
  <2> QED
    BY <2>2, <2>3
<1>3. n \in All
  <2> HIDE DEF All
  <2> QED
    BY <1>1, <1>2, UpTo
<1> QED
  BY <1>3

-----------------------------------------------------------------------------
(* AbstractList counts and ranks as this module does. *)
LEMMA SameCardinality == \A T : List!Cardinality(T) = Cardinality(T)
  BY DEF List!Cardinality, Cardinality

LEMMA SameRank == \A T, i : List!Rank(T, i) = Rank(T, i)
  BY SameCardinality DEF List!Rank, Rank

LEMMA SameNth == \A T, n : List!Nth(T, n) = Nth(T, n)
  BY SameRank DEF List!Nth, Nth

(* The loops over an array: some elements are removed, the others move up. *)

(* After n turns: of the first n elements of a those at P are left.        *)
Compacted(S, a, P, n, b, i) ==
  /\ ArrayOf(S, b)
  /\ i = Rank(P, n)
  /\ b.len = a.len - (n - i)
  /\ \A p \in P : p <= n => b.cells[Rank(P, p)] = a.cells[p]
  /\ \A p \in (n + 1) .. a.len : b.cells[p - (n - i)] = a.cells[p]

LEMMA CompactStart ==
  ASSUME NEW S, NEW a, ArrayOf(S, a), NEW P \in SUBSET (1 .. a.len)
  PROVE  Compacted(S, a, P, 0, a, 0)
<1>1. a.len \in Nat
  BY DEF ArrayOf
<1>2. Rank(P, 0) = 0
  BY <1>1, RankNext
<1>3. \A p \in P : ~(p <= 0)
  OBVIOUS
<1>4. a.len = a.len - (0 - 0) /\ \A p \in (0 + 1) .. a.len : p - (0 - 0) = p
  BY <1>1
<1> QED
  BY <1>2, <1>3, <1>4 DEF Compacted

(* A turn that keeps the element, and one that removes it. *)
LEMMA CompactKeep ==
  ASSUME NEW S, NEW a, ArrayOf(S, a), NEW P \in SUBSET (1 .. a.len), NEW n \in 0 .. (a.len - 1),
         NEW b, NEW i, Compacted(S, a, P, n, b, i), n + 1 \in P
  PROVE  Compacted(S, a, P, n + 1, b, i + 1)
<1>1. a.len \in Nat /\ n \in 0 .. a.len /\ n \in Nat
  BY DEF ArrayOf
<1>2. i \in Nat /\ i <= n /\ Rank(P, n + 1) = i + 1
  BY <1>1, RankNext DEF Compacted
<1>3. n - i = (n + 1) - (i + 1)
  BY <1>1, <1>2
<1>4. ASSUME NEW p \in P, p <= n + 1 PROVE b.cells[Rank(P, p)] = a.cells[p]
  <2>1. CASE p <= n
    BY <2>1 DEF Compacted
  <2>2. CASE ~(p <= n)
    <3>1. p = n + 1 /\ p \in (n + 1) .. a.len /\ p - (n - i) = i + 1
      BY <1>1, <1>2, <1>4, <2>2
    <3>2. b.cells[p - (n - i)] = a.cells[p]
      BY <3>1 DEF Compacted
    <3> QED
      BY <1>2, <3>1, <3>2
  <2> QED
    BY <2>1, <2>2
<1>5. ASSUME NEW p \in ((n + 1) + 1) .. a.len
      PROVE  b.cells[p - ((n + 1) - (i + 1))] = a.cells[p]
  <2>1. p \in (n + 1) .. a.len
    BY <1>1
  <2> QED
    BY <1>3, <2>1 DEF Compacted
<1> QED
  BY <1>2, <1>3, <1>4, <1>5 DEF Compacted

LEMMA CompactDrop ==
  ASSUME NEW S, NEW a, ArrayOf(S, a), NEW P \in SUBSET (1 .. a.len), NEW n \in 0 .. (a.len - 1),
         NEW b, NEW i, Compacted(S, a, P, n, b, i), n + 1 \notin P
  PROVE  Compacted(S, a, P, n + 1, RemoveIdx(b, i), i)
<1>1. a.len \in Nat /\ n \in 0 .. a.len /\ n \in Nat /\ n < a.len
  BY DEF ArrayOf
<1>2. i \in Nat /\ i <= n /\ Rank(P, n + 1) = i /\ i = Rank(P, n)
  BY <1>1, RankNext DEF Compacted
<1>3. b.len = a.len - (n - i) /\ i \in 0 .. (b.len - 1) /\ ArrayOf(S, b)
  BY <1>1, <1>2 DEF Compacted
<1> DEFINE c == RemoveIdx(b, i)
<1>4. /\ ArrayOf(S, c) /\ c.len = b.len - 1
      /\ \A j \in 1 .. (b.len - 1) : c.cells[j] = IF j <= i THEN b.cells[j] ELSE b.cells[j + 1]
  BY <1>3, RemoveCloses
<1> HIDE DEF c
<1>5. c.len = a.len - ((n + 1) - i)
  BY <1>1, <1>2, <1>3, <1>4
<1>6. ASSUME NEW p \in P, p <= n + 1 PROVE c.cells[Rank(P, p)] = a.cells[p]
  <2>1. p <= n
    BY <1>1, <1>6
  <2>2. Rank(P, p) \in 1 .. i
    BY <1>1, <1>2, <2>1, RanksGrow
  <2>3. Rank(P, p) \in 1 .. (b.len - 1) /\ Rank(P, p) <= i
    BY <1>1, <1>2, <1>3, <2>2
  <2>4. c.cells[Rank(P, p)] = b.cells[Rank(P, p)]
    BY <1>4, <2>3
  <2> QED
    BY <2>1, <2>4 DEF Compacted
<1>7. ASSUME NEW p \in ((n + 1) + 1) .. a.len PROVE c.cells[p - ((n + 1) - i)] = a.cells[p]
  <2> DEFINE j == p - ((n + 1) - i)
  <2>1. j \in 1 .. (b.len - 1) /\ ~(j <= i) /\ j + 1 = p - (n - i) /\ p \in (n + 1) .. a.len
    BY <1>1, <1>2, <1>3
  <2> HIDE DEF j
  <2>2. c.cells[j] = b.cells[p - (n - i)]
    BY <1>4, <2>1
  <2>3. b.cells[p - (n - i)] = a.cells[p]
    BY <2>1 DEF Compacted
  <2> QED
    BY <2>2, <2>3 DEF j
<1> QED
  BY <1>2, <1>4, <1>5, <1>6, <1>7 DEF Compacted, c

(* When all turns are done the list has the elements at P, in their order. *)
LEMMA CompactEnd ==
  ASSUME NEW S, NEW a, ArrayOf(S, a), NEW P \in SUBSET (1 .. a.len),
         NEW b, NEW i, Compacted(S, a, P, a.len, b, i)
  PROVE  ArrayOf(S, b) /\ Listed(b) = List!KeepAt(Listed(a), P)
<1> DEFINE l == Listed(a)
           N == Cardinality(P)
<1>1. a.len \in Nat /\ a.len \in 0 .. a.len /\ \A p \in 1 .. a.len : l[p] = a.cells[p]
  BY ListOf
<1>2. i = N /\ N \in Nat /\ Rank(P, a.len) = N
  BY <1>1, RankNext DEF Compacted
<1>3. ArrayOf(S, b) /\ b.len = N
  BY <1>1, <1>2 DEF Compacted
<1>4. ASSUME NEW m \in 1 .. N PROVE Listed(b)[m] = l[Nth(P, m)]
  <2>1. PICK p \in P : p <= a.len /\ Rank(P, p) = m
    BY <1>1, <1>2, EveryRank
  <2>2. Nth(P, m) = p
    BY <1>1, <2>1, NthOfRank
  <2>3. Listed(b)[m] = b.cells[m]
    BY <1>3, ListOf
  <2>4. b.cells[m] = a.cells[p]
    BY <2>1 DEF Compacted
  <2> QED
    BY <1>1, <2>2, <2>3, <2>4
<1>5. Listed(b) = [m \in 1 .. N |-> Listed(b)[m]]
  BY <1>3 DEF Listed
<1>6. List!KeepAt(l, P) = [m \in 1 .. N |-> l[Nth(P, m)]]
  <2> HIDE DEF l
  <2> QED
    BY SameCardinality, SameNth DEF List!KeepAt
<1> HIDE DEF l, N
<1>7. Listed(b) = List!KeepAt(l, P)
  BY <1>4, <1>5, <1>6
<1> QED
  BY <1>3, <1>7 DEF l

(* What the loops keep of a block, in any turn. *)
Blocks(S) == [cells : Seq(S \cup {Junk}), len : Int, head : Nat]

LEMMA BlockStays ==
  ASSUME NEW S, NEW a \in Blocks(S), NEW i \in Nat
  PROVE  RemoveIdx(a, i) \in Blocks(S)
<1> DEFINE n == a.len - i - 1
           c == Memmove(a.cells, i, i + 1, n)
<1>1. a.cells \in Seq(S \cup {Junk}) /\ a.len \in Int /\ a.head \in Nat
  BY DEF Blocks
<1>2. Len(a.cells) \in Nat /\ a.cells \in [1 .. Len(a.cells) -> S \cup {Junk}]
  BY <1>1
<1>3. c \in [1 .. Len(a.cells) -> S \cup {Junk}]
  <2> HIDE DEF n
  <2> QED
    BY <1>2 DEF Memmove
<1>4. c \in Seq(S \cup {Junk})
  BY <1>2, <1>3
<1>5. RemoveIdx(a, i) = [a EXCEPT !.cells = c, !.len = a.len - 1]
  BY DEF RemoveIdx
<1>6. RemoveIdx(a, i) = [cells |-> c, len |-> a.len - 1, head |-> a.head]
  <2> HIDE DEF c
  <2> QED
    BY <1>5 DEF Blocks
<1>7. a.len - 1 \in Int
  BY <1>1
<1> HIDE DEF c
<1> QED
  BY <1>1, <1>4, <1>6, <1>7 DEF Blocks

(* prot_array_filter goes through one turn for each element. *)
LEMMA FilterRuns ==
  ASSUME NEW S, NEW a, ArrayOf(S, a), NEW drop
  PROVE  \E at : /\ at[0] = [a |-> a, i |-> 0, offset |-> 0]
                 /\ \A n \in 0 .. (a.len - 1) : at[n + 1] = FilterTurn(at[n], drop)
                 /\ Filter(a, drop) = at[a.len].a
<1> DEFINE T     == [a : Blocks(S), i : Nat, offset : Nat]
           start == [a |-> a, i |-> 0, offset |-> 0]
           step  == [p \in (1 .. a.len) \X T |-> FilterTurn(p[2], drop)]
           at    == CHOOSE at : at = [n \in 0 .. a.len |->
                                        IF n = 0 THEN start ELSE FilterTurn(at[n - 1], drop)]
<1>1. a.len \in Nat /\ start \in T
  BY DEF ArrayOf, Blocks
<1>2. \A x \in T : FilterTurn(x, drop) \in T
  <2> TAKE x \in T
  <2>1. x.a \in Blocks(S) /\ x.i \in Nat /\ x.offset \in Nat
    OBVIOUS
  <2>2. RemoveIdx(x.a, x.i) \in Blocks(S)
    BY <2>1, BlockStays
  <2>3. x.i + 1 \in Nat /\ x.offset + 1 \in Nat
    BY <2>1
  <2>4. FilterTurn(x, drop) =
          IF x.offset + x.i \in drop
          THEN [a |-> RemoveIdx(x.a, x.i), i |-> x.i, offset |-> x.offset + 1]
          ELSE [a |-> x.a, i |-> x.i + 1, offset |-> x.offset]
    <3>1. [x EXCEPT !.i = x.i + 1] = [a |-> x.a, i |-> x.i + 1, offset |-> x.offset]
      OBVIOUS
    <3> QED
      BY <3>1 DEF FilterTurn
  <2> QED
    BY <2>1, <2>2, <2>3, <2>4
<1>3. step \in [(1 .. a.len) \X T -> T]
  <2> HIDE DEF T
  <2> QED
    BY <1>2
<1>4. PICK f : RunsLoop(f, a.len, T, start, step)
  <2> HIDE DEF T, start, step, at
  <2> QED
    BY <1>1, <1>3, LoopRuns
<1>4a. f \in [0 .. a.len -> T] /\ f[0] = start
       /\ \A n \in 1 .. a.len : f[n] = step[<<n, f[n - 1]>>]
  BY <1>4 DEF RunsLoop
<1>5. \A n \in 0 .. a.len : n # 0 => step[<<n, f[n - 1]>>] = FilterTurn(f[n - 1], drop)
  <2> HIDE DEF T
  <2> SUFFICES ASSUME NEW n \in 0 .. a.len, n # 0
               PROVE  step[<<n, f[n - 1]>>] = FilterTurn(f[n - 1], drop)
    OBVIOUS
  <2>1. n \in 1 .. a.len /\ n - 1 \in 0 .. a.len
    BY <1>1
  <2>2. <<n, f[n - 1]>> \in (1 .. a.len) \X T
    BY <1>4a, <2>1
  <2> QED
    BY <2>2
<1>6. f = [n \in 0 .. a.len |-> IF n = 0 THEN start ELSE FilterTurn(f[n - 1], drop)]
  <2>1. \A n \in 0 .. a.len : n # 0 => n \in 1 .. a.len
    BY <1>1
  <2> HIDE DEF start, step, T, at
  <2>2. \A n \in 0 .. a.len : f[n] = IF n = 0 THEN start ELSE FilterTurn(f[n - 1], drop)
    BY <1>4a, <1>5, <2>1
  <2> QED
    BY <1>4a, <2>2
<1>7. at = [n \in 0 .. a.len |-> IF n = 0 THEN start ELSE FilterTurn(at[n - 1], drop)]
  BY <1>6
<1>8. Filter(a, drop) = at[a.len].a
  BY DEF Filter
<1> HIDE DEF at
<1>9. at[0] = start
  BY <1>1, <1>7
<1>10. ASSUME NEW n \in 0 .. (a.len - 1) PROVE at[n + 1] = FilterTurn(at[n], drop)
  <2>1. n + 1 \in 0 .. a.len /\ n + 1 # 0 /\ (n + 1) - 1 = n
    BY <1>1
  <2> QED
    BY <1>7, <2>1
<1> QED
  BY <1>8, <1>9, <1>10

(* ... and removes the elements at the indices in drop. *)
LEMMA FilterKeeps ==
  ASSUME NEW S, NEW a, ArrayOf(S, a), NEW drop
  PROVE  /\ ArrayOf(S, Filter(a, drop))
         /\ Listed(Filter(a, drop)) =
              List!KeepAt(Listed(a), {p \in 1 .. a.len : (p - 1) \notin drop})
<1> DEFINE P == {p \in 1 .. a.len : (p - 1) \notin drop}
<1>1. a.len \in Nat /\ P \in SUBSET (1 .. a.len)
  BY DEF ArrayOf
<1>2. PICK at : /\ at[0] = [a |-> a, i |-> 0, offset |-> 0]
                /\ \A n \in 0 .. (a.len - 1) : at[n + 1] = FilterTurn(at[n], drop)
                /\ Filter(a, drop) = at[a.len].a
  BY FilterRuns
<1> DEFINE Done == {n \in 0 .. a.len : Compacted(S, a, P, n, at[n].a, at[n].i)
                                         /\ at[n].offset + at[n].i = n /\ at[n].offset \in Nat
                                         /\ at[n] = [a |-> at[n].a, i |-> at[n].i, offset |-> at[n].offset]}
<1>3. 0 \in Done
  <2>1. Compacted(S, a, P, 0, a, 0)
    BY <1>1, CompactStart
  <2> QED
    BY <1>1, <1>2, <2>1
<1>4. ASSUME NEW n \in 0 .. (a.len - 1), n \in Done PROVE n + 1 \in Done
  <2>1. n \in Nat /\ n + 1 \in 0 .. a.len /\ n \in 0 .. a.len
    BY <1>1
  <2>2. Compacted(S, a, P, n, at[n].a, at[n].i) /\ at[n].offset + at[n].i = n /\ at[n].offset \in Nat
         /\ at[n] = [a |-> at[n].a, i |-> at[n].i, offset |-> at[n].offset]
    BY <1>4
  <2>3. at[n].i \in Nat
    BY <1>1, <2>1, <2>2, RankNext DEF Compacted
  <2>4. n + 1 \in P <=> n \notin drop
    BY <2>1
  <2>5. CASE n \in drop
    <3>1. at[n + 1] = [a |-> RemoveIdx(at[n].a, at[n].i), i |-> at[n].i, offset |-> at[n].offset + 1]
      BY <1>2, <2>2, <2>5 DEF FilterTurn
    <3>2. Compacted(S, a, P, n + 1, RemoveIdx(at[n].a, at[n].i), at[n].i)
      <4> HIDE DEF P
      <4> QED
        BY <1>1, <2>2, <2>4, <2>5, CompactDrop
    <3>3. at[n].offset + 1 + at[n].i = n + 1
      BY <2>1, <2>2, <2>3
    <3> QED
      BY <2>1, <2>2, <3>1, <3>2, <3>3
  <2>6. CASE n \notin drop
    <3>1. at[n + 1] = [a |-> at[n].a, i |-> at[n].i + 1, offset |-> at[n].offset]
      BY <1>2, <2>2, <2>6 DEF FilterTurn
    <3>2. Compacted(S, a, P, n + 1, at[n].a, at[n].i + 1)
      <4> HIDE DEF P
      <4> QED
        BY <1>1, <2>2, <2>4, <2>6, CompactKeep
    <3>3. at[n].offset + (at[n].i + 1) = n + 1
      BY <2>1, <2>2, <2>3
    <3> QED
      BY <2>1, <2>2, <3>1, <3>2, <3>3
  <2> QED
    BY <2>5, <2>6
<1>5. a.len \in Done
  <2> HIDE DEF Done
  <2> QED
    BY <1>1, <1>3, <1>4, UpTo
<1>6. Compacted(S, a, P, a.len, Filter(a, drop), at[a.len].i)
  BY <1>2, <1>5
<1> HIDE DEF P
<1> QED
  BY <1>1, <1>6, CompactEnd, ZenonT(40) DEF P

(* dyn_array_setself goes through one turn for each element. *)
LEMMA SetselfRuns ==
  ASSUME NEW S, NEW a, ArrayOf(S, a)
  PROVE  \E at : /\ at[0] = [a |-> a, i |-> 0]
                 /\ \A n \in 0 .. (a.len - 1) : at[n + 1] = SetselfTurn(at[n])
                 /\ Setself(a) = at[a.len].a
<1> DEFINE T     == [a : Blocks(S), i : Nat]
           start == [a |-> a, i |-> 0]
           step  == [p \in (1 .. a.len) \X T |-> SetselfTurn(p[2])]
           at    == CHOOSE at : at = [n \in 0 .. a.len |->
                                        IF n = 0 THEN start ELSE SetselfTurn(at[n - 1])]
<1>1. a.len \in Nat /\ start \in T
  BY DEF ArrayOf, Blocks
<1>2. \A x \in T : SetselfTurn(x) \in T
  <2> TAKE x \in T
  <2>1. x.a \in Blocks(S) /\ x.i \in Nat
    OBVIOUS
  <2>2. RemoveIdx(x.a, x.i) \in Blocks(S)
    BY <2>1, BlockStays
  <2>3. x.i + 1 \in Nat
    BY <2>1
  <2>4. SetselfTurn(x) = [a |-> RemoveIdx(x.a, x.i), i |-> x.i] \/ SetselfTurn(x) = [a |-> x.a, i |-> x.i + 1]
    <3>1. [x EXCEPT !.i = x.i + 1] = [a |-> x.a, i |-> x.i + 1]
      OBVIOUS
    <3>2. [x EXCEPT !.a = RemoveIdx(x.a, x.i)] = [a |-> RemoveIdx(x.a, x.i), i |-> x.i]
      OBVIOUS
    <3> QED
      BY <3>1, <3>2 DEF SetselfTurn
  <2> QED
    BY <2>1, <2>2, <2>3, <2>4
<1>3. step \in [(1 .. a.len) \X T -> T]
  <2> HIDE DEF T
  <2> QED
    BY <1>2
<1>4. PICK f : RunsLoop(f, a.len, T, start, step)
  <2> HIDE DEF T, start, step, at
  <2> QED
    BY <1>1, <1>3, LoopRuns
<1>5. /\ f \in [0 .. a.len -> T] /\ f[0] = start
      /\ \A n \in 1 .. a.len : f[n] = step[<<n, f[n - 1]>>]
  BY <1>4 DEF RunsLoop
<1>6. \A n \in 0 .. a.len : n # 0 => step[<<n, f[n - 1]>>] = SetselfTurn(f[n - 1])
  <2> HIDE DEF T
  <2> SUFFICES ASSUME NEW n \in 0 .. a.len, n # 0
               PROVE  step[<<n, f[n - 1]>>] = SetselfTurn(f[n - 1])
    OBVIOUS
  <2>1. n \in 1 .. a.len /\ n - 1 \in 0 .. a.len
    BY <1>1
  <2>2. <<n, f[n - 1]>> \in (1 .. a.len) \X T
    BY <1>5, <2>1
  <2> QED
    BY <2>2
<1>7. f = [n \in 0 .. a.len |-> IF n = 0 THEN start ELSE SetselfTurn(f[n - 1])]
  <2>1. \A n \in 0 .. a.len : n # 0 => n \in 1 .. a.len
    BY <1>1
  <2> HIDE DEF start, step, T, at
  <2>2. \A n \in 0 .. a.len : f[n] = IF n = 0 THEN start ELSE SetselfTurn(f[n - 1])
    BY <1>5, <1>6, <2>1
  <2> QED
    BY <1>5, <2>2
<1>8. at = [n \in 0 .. a.len |-> IF n = 0 THEN start ELSE SetselfTurn(at[n - 1])]
  BY <1>7
<1>9. Setself(a) = at[a.len].a
  BY DEF Setself
<1> HIDE DEF at
<1>10. at[0] = start
  BY <1>1, <1>8
<1>11. ASSUME NEW n \in 0 .. (a.len - 1) PROVE at[n + 1] = SetselfTurn(at[n])
  <2>1. n + 1 \in 0 .. a.len /\ n + 1 # 0 /\ (n + 1) - 1 = n
    BY <1>1
  <2> QED
    BY <1>8, <2>1
<1> QED
  BY <1>9, <1>10, <1>11

(* Count is over one for an element that is at another index too. *)
LEMMA CountsAnother ==
  ASSUME NEW S, NEW a, ArrayOf(S, a), NEW i \in 0 .. (a.len - 1)
  PROVE  Count(a, Cell(a, i)) > 1
           <=> \E j \in 0 .. (a.len - 1) : j # i /\ a.cells[j + 1] = a.cells[i + 1]
<1> DEFINE e == Cell(a, i)
           H == {j \in 0 .. (a.len - 1) : Cell(a, j) = e}
<1>1. a.len \in Nat /\ a.len <= Len(a.cells) /\ Len(a.cells) \in Nat
  BY DEF ArrayOf
<1>2. \A j \in 0 .. (a.len - 1) : Cell(a, j) = a.cells[j + 1]
  BY <1>1 DEF Cell
<1>3. IsFiniteSet(H) /\ i \in H
  <2>1. IsFiniteSet(0 .. (a.len - 1))
    <3>1. 0 \in Int /\ a.len - 1 \in Int
      BY <1>1
    <3> HIDE DEF H
    <3> QED
      BY <3>1, FS_Interval
  <2>2. H \in SUBSET (0 .. (a.len - 1)) /\ i \in H
    OBVIOUS
  <2> HIDE DEF H
  <2> QED
    BY <2>1, <2>2, FS_Subset
<1>4. Cardinality(H) > 1 <=> H \ {i} # {}
  <2> HIDE DEF H
  <2>1. IsFiniteSet(H \ {i}) /\ Cardinality(H \ {i}) = Cardinality(H) - 1
    BY <1>3, FS_RemoveElement
  <2>2. Cardinality(H) \in Nat /\ Cardinality(H \ {i}) \in Nat
    BY <1>3, <2>1, FS_CardinalityType
  <2>3. Cardinality(H \ {i}) = 0 <=> H \ {i} = {}
    BY <2>1, FS_EmptySet
  <2> QED
    BY <2>1, <2>2, <2>3
<1>5. H \ {i} # {} <=> \E j \in 0 .. (a.len - 1) : j # i /\ a.cells[j + 1] = a.cells[i + 1]
  BY <1>2
<1> QED
  BY <1>4, <1>5 DEF Count

(* An element is one of the last when none after it is the same: at its    *)
(* turn, when no other of those that are left is.                          *)
LEMMA OccursAgain ==
  ASSUME NEW S, NEW a, ArrayOf(S, a), NEW P, P = List!LastPlaces(Listed(a)), NEW n \in 0 .. (a.len - 1),
         NEW b, NEW i, Compacted(S, a, P, n, b, i)
  PROVE  Count(b, Cell(b, i)) > 1 <=> n + 1 \notin P
<1> DEFINE l == Listed(a)
<1>1. a.len \in Nat /\ DOMAIN l = 1 .. a.len /\ \A p \in 1 .. a.len : l[p] = a.cells[p]
  BY ListOf DEF Listed
<1>2. P = {p \in 1 .. a.len : \A q \in 1 .. a.len : q > p => l[q] # l[p]}
  BY <1>1 DEF List!LastPlaces
<1> HIDE DEF l
<1>3. P \in SUBSET (1 .. a.len) /\ n \in 0 .. a.len /\ n + 1 \in 1 .. a.len /\ n \in Nat
  BY <1>1, <1>2
<1>4. i = Rank(P, n) /\ i \in Nat /\ i <= n /\ b.len = a.len - (n - i) /\ ArrayOf(S, b)
  BY <1>1, <1>3, RankNext DEF Compacted
<1>5. i \in 0 .. (b.len - 1) /\ b.len \in Nat
  BY <1>1, <1>3, <1>4
<1>6. \A p \in (n + 1) .. a.len : b.cells[p - (n - i)] = a.cells[p]
  BY DEF Compacted
<1>7. b.cells[i + 1] = a.cells[n + 1]
  <2>1. n + 1 \in (n + 1) .. a.len /\ (n + 1) - (n - i) = i + 1
    BY <1>3, <1>4
  <2> QED
    BY <1>6, <2>1
<1>8. Count(b, Cell(b, i)) > 1
        <=> \E j \in 0 .. (b.len - 1) : j # i /\ b.cells[j + 1] = b.cells[i + 1]
  BY <1>4, <1>5, CountsAnother
<1>9. ASSUME n + 1 \notin P
      PROVE  \E j \in 0 .. (b.len - 1) : j # i /\ b.cells[j + 1] = b.cells[i + 1]
  <2>1. PICK q \in 1 .. a.len : q > n + 1 /\ l[q] = l[n + 1]
    BY <1>2, <1>3, <1>9
  <2> DEFINE j == q - (n - i) - 1
  <2>2. /\ j \in 0 .. (b.len - 1) /\ j # i /\ j + 1 = q - (n - i)
        /\ q \in (n + 1) .. a.len
    BY <1>1, <1>3, <1>4, <2>1, SMTT(30)
  <2>3. b.cells[j + 1] = b.cells[i + 1]
    <3> HIDE DEF j
    <3>1. b.cells[j + 1] = a.cells[q]
      BY <1>6, <2>2
    <3> QED
      BY <1>1, <1>3, <1>7, <2>1, <3>1
  <2> QED
    BY <2>2, <2>3
<1>10. ASSUME n + 1 \in P, NEW j \in 0 .. (b.len - 1), j # i, b.cells[j + 1] = b.cells[i + 1]
       PROVE  FALSE
  <2>1. CASE j > i
    <3> DEFINE q == j + 1 + (n - i)
    <3>1. q \in (n + 1) .. a.len /\ q - (n - i) = j + 1 /\ q > n + 1 /\ q \in 1 .. a.len
      BY <1>1, <1>3, <1>4, <2>1, SMTT(30)
    <3> HIDE DEF q
    <3>2. a.cells[q] = a.cells[n + 1]
      BY <1>6, <1>7, <1>10, <3>1
    <3> QED
      BY <1>1, <1>2, <1>3, <1>10, <3>1, <3>2
  <2>2. CASE ~(j > i)
    <3>1. j + 1 \in 1 .. Rank(P, n)
      BY <1>4, <1>5, <1>10, <2>2
    <3>2. PICK p \in P : p <= n /\ Rank(P, p) = j + 1
      BY <1>1, <1>3, <3>1, EveryRank
    <3>3. b.cells[j + 1] = a.cells[p]
      BY <3>2 DEF Compacted
    <3>4. p \in 1 .. a.len /\ n + 1 > p
      BY <1>3, <3>2
    <3> QED
      BY <1>1, <1>2, <1>3, <1>7, <1>10, <3>2, <3>3, <3>4
  <2> QED
    BY <2>1, <2>2
<1> QED
  BY <1>8, <1>9, <1>10

(* dyn_array_setself leaves the last of equal elements. *)
LEMMA SetselfKeepsLast ==
  ASSUME NEW S, NEW a, ArrayOf(S, a)
  PROVE  /\ ArrayOf(S, Setself(a))
         /\ Listed(Setself(a)) = List!KeepAt(Listed(a), List!LastPlaces(Listed(a)))
<1> DEFINE P == List!LastPlaces(Listed(a))
<1>1. a.len \in Nat /\ P \in SUBSET (1 .. a.len)
  BY DEF ArrayOf, List!LastPlaces, Listed
<1>2. PICK at : /\ at[0] = [a |-> a, i |-> 0]
                /\ \A n \in 0 .. (a.len - 1) : at[n + 1] = SetselfTurn(at[n])
                /\ Setself(a) = at[a.len].a
  BY SetselfRuns
<1> DEFINE Done == {n \in 0 .. a.len : Compacted(S, a, P, n, at[n].a, at[n].i)
                                         /\ at[n] = [a |-> at[n].a, i |-> at[n].i]}
<1>3. 0 \in Done
  <2>1. Compacted(S, a, P, 0, a, 0)
    <3> HIDE DEF P
    <3> QED
      BY <1>1, CompactStart
  <2> QED
    BY <1>1, <1>2, <2>1
<1>4. ASSUME NEW n \in 0 .. (a.len - 1), n \in Done PROVE n + 1 \in Done
  <2>1. n + 1 \in 0 .. a.len
    BY <1>1
  <2>2. Compacted(S, a, P, n, at[n].a, at[n].i) /\ at[n] = [a |-> at[n].a, i |-> at[n].i]
    BY <1>4
  <2>3. Count(at[n].a, Cell(at[n].a, at[n].i)) > 1 <=> n + 1 \notin P
    BY <2>2, OccursAgain
  <2>4. CASE n + 1 \notin P
    <3>1. at[n + 1] = [a |-> RemoveIdx(at[n].a, at[n].i), i |-> at[n].i]
      BY <1>2, <2>2, <2>3, <2>4 DEF SetselfTurn
    <3>2. Compacted(S, a, P, n + 1, RemoveIdx(at[n].a, at[n].i), at[n].i)
      <4> HIDE DEF P
      <4> QED
        BY <1>1, <2>2, <2>4, CompactDrop
    <3> QED
      BY <2>1, <3>1, <3>2
  <2>5. CASE n + 1 \in P
    <3>1. at[n + 1] = [a |-> at[n].a, i |-> at[n].i + 1]
      BY <1>2, <2>2, <2>3, <2>5 DEF SetselfTurn
    <3>2. Compacted(S, a, P, n + 1, at[n].a, at[n].i + 1)
      <4> HIDE DEF P
      <4> QED
        BY <1>1, <2>2, <2>5, CompactKeep
    <3> QED
      BY <2>1, <3>1, <3>2
  <2> QED
    BY <2>4, <2>5
<1>5. a.len \in Done
  <2> HIDE DEF Done
  <2> QED
    BY <1>1, <1>3, <1>4, UpTo
<1>6. Compacted(S, a, P, a.len, Setself(a), at[a.len].i)
  BY <1>2, <1>5
<1> HIDE DEF P
<1>7. ArrayOf(S, Setself(a)) /\ Listed(Setself(a)) = List!KeepAt(Listed(a), P)
  BY <1>1, <1>6, CompactEnd
<1> QED
  BY <1>7 DEF P

(* dyn_array_count counts the places of the list. *)
LEMMA CountIsHeld ==
  ASSUME NEW S, NEW a, ArrayOf(S, a), NEW e
  PROVE  Count(a, e) = List!Cardinality(List!Held(Listed(a), e))
<1> DEFINE H == {j \in 0 .. (a.len - 1) : Cell(a, j) = e}
           G == List!Held(Listed(a), e)
           f == [j \in H |-> j + 1]
           g == [j \in G |-> j - 1]
<1>1. a.len \in Nat
  BY DEF ArrayOf
<1>2. G = {j \in 1 .. a.len : Cell(a, j - 1) = e}
  BY DEF List!Held, Listed
<1>3. IsFiniteSet(H) /\ IsFiniteSet(G)
  <2>1. IsFiniteSet(0 .. (a.len - 1)) /\ IsFiniteSet(1 .. a.len)
    <3>1. 0 \in Int /\ 1 \in Int /\ a.len \in Int /\ a.len - 1 \in Int
      BY <1>1
    <3> HIDE DEF H, G, f, g
    <3> QED
      BY <3>1, FS_Interval
  <2>2. H \in SUBSET (0 .. (a.len - 1)) /\ G \in SUBSET (1 .. a.len)
    BY <1>2
  <2> HIDE DEF H, G
  <2> QED
    BY <2>1, <2>2, FS_Subset
<1>4. f \in Surjection(H, G)
  <2>1. \A j \in H : j + 1 \in G
    <3> SUFFICES ASSUME NEW j \in H PROVE j + 1 \in G
      OBVIOUS
    <3>1. (j + 1) - 1 = j /\ j + 1 \in 1 .. a.len
      BY <1>1
    <3> QED
      BY <1>2, <3>1
  <2>2. \A m \in G : m - 1 \in H /\ f[m - 1] = m
    <3> SUFFICES ASSUME NEW m \in G PROVE m - 1 \in H /\ f[m - 1] = m
      OBVIOUS
    <3>1. m \in 1 .. a.len /\ Cell(a, m - 1) = e
      BY <1>2
    <3>2. m - 1 \in 0 .. (a.len - 1) /\ (m - 1) + 1 = m
      BY <1>1, <3>1
    <3> QED
      BY <3>1, <3>2
  <2>3. f \in [H -> G]
    BY <2>1
  <2> HIDE DEF f, H, G
  <2> QED
    BY <2>2, <2>3 DEF Surjection
<1>5. g \in Surjection(G, H)
  <2>1. \A m \in G : m - 1 \in H
    <3> SUFFICES ASSUME NEW m \in G PROVE m - 1 \in H
      OBVIOUS
    <3>1. m \in 1 .. a.len /\ Cell(a, m - 1) = e
      BY <1>2
    <3> QED
      BY <1>1, <3>1
  <2>2. \A j \in H : j + 1 \in G /\ g[j + 1] = j
    <3> SUFFICES ASSUME NEW j \in H PROVE j + 1 \in G /\ g[j + 1] = j
      OBVIOUS
    <3>1. (j + 1) - 1 = j /\ j + 1 \in 1 .. a.len
      BY <1>1
    <3> QED
      BY <1>2, <3>1
  <2>3. g \in [G -> H]
    BY <2>1
  <2> HIDE DEF g, H, G
  <2> QED
    BY <2>2, <2>3 DEF Surjection
<1> HIDE DEF f, g, H, G
<1>6. Cardinality(G) <= Cardinality(H) /\ Cardinality(H) <= Cardinality(G)
  BY <1>3, <1>4, <1>5, FS_Surjection
<1>7. Cardinality(G) = Cardinality(H)
  BY <1>3, <1>6, FS_CardinalityType
<1> QED
  BY <1>7, SameCardinality DEF Count, H, G

(* An array is one after each call. *)
AInv == kind = "array" => ArrayOf(Values, arr)

LEMMA ArrayInit == CInit => AInv
<1> SUFFICES ASSUME CInit PROVE ArrayOf(Values, arr)
  BY DEF AInv
<1>1. arr = [cells |-> << >>, len |-> 0, head |-> 1]
  BY DEF CInit, Create
<1> QED
  BY <1>1 DEF ArrayOf

(* The calls that are made on an array. *)
LEMMA ArrayCalls ==
  ASSUME kind = "array", CNext
  PROVE  \/ \E e \in Values : ArrayPush(e) \/ ArrayIndex(e) \/ ArrayCount(e)
         \/ \E e \in Values, i \in 0 .. MaxArrayLen : ArrayInsert(i, e)
         \/ \E i \in 0 .. MaxArrayLen : ArrayRemove(i)
         \/ QueuePop
         \/ ArraySetself
         \/ \E drop \in SUBSET (0 .. MaxArrayLen) : ArrayFilter(drop)
<1>1. \A c, x, y, z : ~TableBecomes(c, x, y, z) /\ ~HtBecomes(c, x, y)
  BY DEF TableBecomes, HtBecomes
<1>2. \A k \in Keys : ~TableLookup(k) /\ ~TableErase(k) /\ \A v \in Values : ~TableSet(k, v)
  BY <1>1 DEF TableLookup, TableErase, TableSet
<1>3. \A t \in Tables : ~HtClear(t) /\ \A minimum \in {0, 2 * MaxCapacity} : ~HtReserve(t, minimum)
  BY <1>1 DEF HtClear, HtReserve
<1>4. \A t \in Tables, k \in Keys : ~HtErase(t, k) /\ ~HtGet(t, k) /\ \A v \in Values : ~HtSet(t, k, v)
  BY <1>1 DEF HtErase, HtGet, HtSet
<1>5. ~HtCopy("first", "second") /\ ~HtMove("first", "second") /\ ~HtSwap("first", "second")
  BY <1>1 DEF HtCopy, HtMove, HtSwap
<1>6. "first" \in Tables
  BY DEF Tables
<1> QED
  BY <1>2, <1>3, <1>4, <1>5, <1>6, Zenon DEF CNext

(* Each call keeps the array one, and does what it does on a list. *)
LEMMA ArrayStep ==
  ASSUME AInv, kind = "array", CNext
  PROVE  AInv' /\ List!Step
<1> DEFINE l == Listed(arr)
<1>1. ArrayOf(Values, arr) /\ arr.len \in Nat
  BY DEF AInv, ArrayOf
<1>2. l \in Seq(Values) /\ Len(l) = arr.len /\ \A i \in 1 .. arr.len : l[i] = arr.cells[i]
  BY <1>1, ListOf
<1>3. ASSUME NEW e \in Values, ArrayPush(e)
      PROVE  AInv' /\ List!Step
  <2>1. arr' = DynPush(arr, e) /\ call' = [op |-> "push", e |-> e] /\ ret' = 0
    BY <1>3 DEF ArrayPush, ArrayBecomes
  <2>2. Listed(arr') = Append(l, e)
    BY <1>1, <2>1, PushIsAppend
  <2> QED
    BY <1>1, <2>1, <2>2, PushAdds DEF AInv, List!Step
<1>4. ASSUME NEW e \in Values, ArrayIndex(e)
      PROVE  AInv' /\ List!Step
  <2>1. arr' = arr /\ call' = [op |-> "index", e |-> e] /\ ret' = Index(arr, e)
    BY <1>4 DEF ArrayIndex, ArrayBecomes
  <2>2. ret' = IF List!Held(l, e) = {} THEN None ELSE List!Min(List!Held(l, e)) - 1
    BY <1>1, <2>1, IndexIsFirst
  <2> QED
    BY <1>1, <2>1, <2>2 DEF AInv, List!Step
<1>5. ASSUME NEW e \in Values, ArrayCount(e)
      PROVE  AInv' /\ List!Step
  <2>1. arr' = arr /\ call' = [op |-> "count", e |-> e] /\ ret' = Count(arr, e)
    BY <1>5 DEF ArrayCount, ArrayBecomes
  <2>2. ret' = List!Cardinality(List!Held(l, e))
    BY <1>1, <2>1, CountIsHeld
  <2> QED
    BY <1>1, <2>1, <2>2 DEF AInv, List!Step
<1>6. ASSUME NEW e \in Values, NEW i \in 0 .. MaxArrayLen, ArrayInsert(i, e)
      PROVE  AInv' /\ List!Step
  <2>1. /\ arr' = Insert(arr, i, e) /\ call' = [op |-> "insert", i |-> i, e |-> e] /\ ret' = 0
        /\ i <= arr.len
    BY <1>6 DEF ArrayInsert, ArrayBecomes
  <2>2. i \in 0 .. arr.len
    BY <1>1, <2>1
  <2>3. Listed(arr') = InsertAt(l, i + 1, e) /\ ArrayOf(Values, arr')
    BY <1>1, <2>1, <2>2, InsertIsInsertAt, InsertOpens
  <2> QED
    BY <2>1, <2>3 DEF AInv, List!Step, List!InsertAt, InsertAt
<1>7. ASSUME NEW i \in 0 .. MaxArrayLen, ArrayRemove(i)
      PROVE  AInv' /\ List!Step
  <2>1. arr' = RemoveIdx(arr, i) /\ call' = [op |-> "remove", i |-> i] /\ ret' = 0 /\ i < arr.len
    BY <1>7 DEF ArrayRemove, ArrayBecomes
  <2>2. i \in 0 .. (arr.len - 1)
    BY <1>1, <2>1
  <2>3. Listed(arr') = RemoveAt(l, i + 1) /\ ArrayOf(Values, arr')
    BY <1>1, <2>1, <2>2, RemoveIsRemoveAt, RemoveCloses
  <2> QED
    BY <2>1, <2>3 DEF AInv, List!Step, List!RemoveAt, RemoveAt
<1>8. ASSUME QueuePop PROVE AInv' /\ List!Step
  <2>1. arr' = RemoveIdx(arr, 0) /\ call' = [op |-> "pop"] /\ ret' = Cell(arr, 0) /\ arr.len # 0
    BY <1>8 DEF QueuePop, ArrayBecomes
  <2>2. 0 \in 0 .. (arr.len - 1) /\ 1 \in 1 .. arr.len
    BY <1>1, <2>1
  <2>3. Listed(arr') = RemoveAt(l, 0 + 1) /\ ArrayOf(Values, arr')
    BY <1>1, <2>1, <2>2, RemoveIsRemoveAt, RemoveCloses
  <2>4. ret' = Head(l) /\ l # << >>
    <3>1. ret' = arr.cells[1]
      BY <1>1, <2>1, <2>2 DEF Cell, ArrayOf
    <3>2. l # << >>
      BY <1>2, <2>2
    <3> QED
      BY <1>2, <2>2, <3>1, <3>2
  <2>5. Tail(l) = RemoveAt(l, 1)
    <3> DEFINE r == RemoveAt(l, 1)
               n == arr.len - 1
    <3>1. r \in Seq(Values) /\ Len(r) = n /\ \A j \in 1 .. n : r[j] = l[IF j < 1 THEN j ELSE j + 1]
      BY <1>2, <2>2, RemovedAt
    <3>2. Tail(l) \in Seq(Values) /\ Len(Tail(l)) = n /\ \A j \in 1 .. n : Tail(l)[j] = l[j + 1]
      BY <1>2, <2>4, HeadTailProperties
    <3> HIDE DEF l, r, n
    <3>3. \A j \in 1 .. n : r[j] = Tail(l)[j]
      BY <3>1, <3>2
    <3>4. r = Tail(l)
      BY <3>1, <3>2, <3>3, SeqEqual
    <3> QED
      BY <3>4 DEF r
  <2> QED
    BY <2>1, <2>3, <2>4, <2>5 DEF AInv, List!Step
<1>9. ASSUME ArraySetself PROVE AInv' /\ List!Step
  <2>1. arr' = Setself(arr) /\ call' = [op |-> "setself"] /\ ret' = 0
    BY <1>9 DEF ArraySetself, ArrayBecomes
  <2>2. ArrayOf(Values, arr') /\ Listed(arr') = List!KeepAt(l, List!LastPlaces(l))
    BY <1>1, <2>1, SetselfKeepsLast
  <2> QED
    BY <2>1, <2>2 DEF AInv, List!Step
<1>10. ASSUME NEW drop \in SUBSET (0 .. MaxArrayLen), ArrayFilter(drop)
       PROVE  AInv' /\ List!Step
  <2>1. arr' = Filter(arr, drop) /\ call' = [op |-> "filter", drop |-> drop] /\ ret' = 0
    BY <1>10 DEF ArrayFilter, ArrayBecomes
  <2>2. /\ ArrayOf(Values, arr')
        /\ Listed(arr') = List!KeepAt(l, {i \in 1 .. arr.len : (i - 1) \notin drop})
    BY <1>1, <2>1, FilterKeeps
  <2>3. DOMAIN l = 1 .. arr.len
    BY DEF Listed
  <2> QED
    BY <2>1, <2>2, <2>3 DEF AInv, List!Step
<1> QED
  BY <1>3, <1>4, <1>5, <1>6, <1>7, <1>8, <1>9, <1>10, ArrayCalls

LEMMA ArrayNext == AInv /\ [CNext]_cvars => AInv'
<1> SUFFICES ASSUME AInv, [CNext]_cvars PROVE AInv'
  OBVIOUS
<1>1. kind' = kind
  BY DEF cvars, CNext, ArrayPush, ArrayIndex, ArrayCount, ArrayInsert, ArrayRemove, QueuePop,
         ArraySetself, ArrayFilter, TableLookup, TableErase, TableSet, HtClear, HtReserve, HtErase,
         HtSet, HtGet, HtCopy, HtMove, HtSwap, ArrayBecomes, TableBecomes, HtBecomes
<1>2. CASE kind # "array"
  BY <1>1, <1>2 DEF AInv
<1>3. CASE kind = "array" /\ UNCHANGED cvars
  BY <1>3 DEF AInv, cvars
<1> QED
  BY <1>2, <1>3, ArrayStep

(***************************************************************************)
(* dyn_array.c is a list, through every growth and every move in memory:   *)
(* push, insert, remove, pop, index, count, dyn_array_setself and          *)
(* prot_array_filter do and answer what they do and answer on a sequence.  *)
(***************************************************************************)
THEOREM ArrayIsAList == CSpec => [][kind = "array" => List!Step]_cvars
<1>1. AInv /\ [CNext]_cvars => [kind = "array" => List!Step]_cvars
  BY ArrayStep
<1> QED
  BY <1>1, ArrayInit, ArrayNext, PTL DEF CSpec

-----------------------------------------------------------------------------
(* The table: an array of pairs, and the blocks it owns. *)

Pairs == [first : Keys, second : Nat]

(* Every key has one pair and every pair a block of its own. *)
TableOK(t, h) ==
  /\ ArrayOf(Pairs, t)
  /\ h \in [{t.cells[i].second : i \in 1 .. t.len} -> Values]
  /\ DOMAIN h \subseteq 1 .. MaxArrayLen
  /\ \A i, j \in 1 .. t.len :
       i # j => t.cells[i].first # t.cells[j].first /\ t.cells[i].second # t.cells[j].second

HasPair(t, k) == \E i \in 1 .. t.len : t.cells[i].first = k

(* dyn_table_get finds the pair of a key, and its block. *)
LEMMA FindsThePair ==
  ASSUME NEW t, NEW h, TableOK(t, h), NEW i \in 1 .. t.len
  PROVE  /\ FindIdx(t, t.cells[i].first) = i - 1
         /\ TableGet(t, t.cells[i].first) = t.cells[i].second
         /\ t.cells[i].second \in DOMAIN h /\ t.cells[i].second \in Nat
         /\ t.cells[i].first \in Keys
<1>1. t.len \in Nat /\ Len(t.cells) \in Nat /\ t.len <= Len(t.cells) /\ t.cells[i] \in Pairs
  BY DEF TableOK, ArrayOf
<1>2. \A j \in 0 .. (t.len - 1) : Cell(t, j) = t.cells[j + 1] /\ j + 1 \in 1 .. t.len
  BY <1>1 DEF Cell
<1> DEFINE hits == {j \in 0 .. (t.len - 1) : Cell(t, j).first = t.cells[i].first}
<1>3. hits = {i - 1}
  <2>1. ASSUME NEW j \in hits PROVE j = i - 1
    <3>1. j + 1 \in 1 .. t.len /\ t.cells[j + 1].first = t.cells[i].first /\ j \in Nat
      BY <1>1, <1>2, <2>1
    <3>2. j + 1 = i
      BY <3>1 DEF TableOK
    <3> QED
      BY <3>1, <3>2
  <2>2. i - 1 \in 0 .. (t.len - 1) /\ (i - 1) + 1 = i
    BY <1>1
  <2>3. i - 1 \in hits
    BY <1>2, <2>2
  <2> QED
    BY <2>1, <2>3
<1>4. FindIdx(t, t.cells[i].first) = First({i - 1})
  BY <1>3 DEF FindIdx
<1>5. First({i - 1}) = i - 1
  <2>1. \A x \in {i - 1} : x = i - 1 /\ x <= i - 1
    BY <1>1
  <2> HIDE DEF hits
  <2>2. (CHOOSE x \in {i - 1} : \A y \in {i - 1} : x <= y) \in {i - 1}
    BY <2>1
  <2> QED
    BY <2>2 DEF First
<1>6. i - 1 # None /\ Cell(t, i - 1) = t.cells[i]
  BY <1>1, <1>2, ContainersAssumption
<1>7. t.cells[i].second \in DOMAIN h
  BY DEF TableOK
<1> QED
  BY <1>1, <1>4, <1>5, <1>6, <1>7 DEF TableGet, Pairs

(* Of a key that is not there it finds neither. *)
LEMMA FindsNoPair ==
  ASSUME NEW t, NEW h, TableOK(t, h), NEW k, ~HasPair(t, k)
  PROVE  FindIdx(t, k) = None /\ TableGet(t, k) = None
<1>1. t.len \in Nat /\ Len(t.cells) \in Nat /\ t.len <= Len(t.cells)
  BY DEF TableOK, ArrayOf
<1>2. \A j \in 0 .. (t.len - 1) : Cell(t, j) = t.cells[j + 1] /\ j + 1 \in 1 .. t.len
  BY <1>1 DEF Cell
<1>3. {j \in 0 .. (t.len - 1) : Cell(t, j).first = k} = {}
  BY <1>2 DEF HasPair
<1> QED
  BY <1>3 DEF FindIdx, First, TableGet

(* The map a table holds. *)
LEMMA MapOfTable ==
  ASSUME NEW t, NEW h, TableOK(t, h)
  PROVE  /\ DOMAIN TableMap(t, h) = {t.cells[i].first : i \in 1 .. t.len}
         /\ \A k : k \in DOMAIN TableMap(t, h) <=> HasPair(t, k)
         /\ \A i \in 1 .. t.len :
              TableMap(t, h)[t.cells[i].first] = h[t.cells[i].second]
<1>1. t.len \in Nat /\ Len(t.cells) \in Nat /\ t.len <= Len(t.cells)
  BY DEF TableOK, ArrayOf
<1>2. \A i \in 1 .. t.len : Cell(t, i - 1) = t.cells[i]
  BY <1>1 DEF Cell
<1>3. Listed(t) = [i \in 1 .. t.len |-> t.cells[i]]
  BY <1>2 DEF Listed
<1>4. ToSet(Listed(t)) = {t.cells[i] : i \in 1 .. t.len}
  BY <1>3 DEF ToSet
<1>5. DOMAIN TableMap(t, h) = {t.cells[i].first : i \in 1 .. t.len}
  BY <1>4 DEF TableMap
<1>6. \A k \in DOMAIN TableMap(t, h) : TableMap(t, h)[k] = h[TableGet(t, k)]
  BY DEF TableMap
<1>7. \A k : k \in DOMAIN TableMap(t, h) <=> HasPair(t, k)
  BY <1>5 DEF HasPair
<1>8. \A i \in 1 .. t.len : TableMap(t, h)[t.cells[i].first] = h[t.cells[i].second]
  BY <1>5, <1>6, FindsThePair
<1> QED
  BY <1>5, <1>7, <1>8

(* A table that is not full has a block left for a pair. *)
LEMMA BlockIsFree ==
  ASSUME TableOK(tab, heap), tab.len < MaxArrayLen
  PROVE  FreeBlock \in 1 .. MaxArrayLen /\ FreeBlock \notin DOMAIN heap
<1> DEFINE f == [i \in 1 .. tab.len |-> tab.cells[i].second]
           owned == {f[i] : i \in 1 .. tab.len}
<1>1. tab.len \in Nat /\ MaxArrayLen \in Nat /\ tab.len < MaxArrayLen
  BY ContainersAssumption DEF TableOK, ArrayOf
<1>2. DOMAIN heap = owned
  BY DEF TableOK
<1>3. f \in [1 .. tab.len -> owned] /\ \A b \in owned : \E i \in 1 .. tab.len : f[i] = b
  OBVIOUS
<1> HIDE DEF f, owned
<1>4. f \in Surjection(1 .. tab.len, owned)
  BY <1>3 DEF Surjection
<1>5. IsFiniteSet(1 .. tab.len) /\ Cardinality(1 .. tab.len) = tab.len
  BY <1>1, Numbers
<1>6. IsFiniteSet(owned) /\ Cardinality(owned) <= tab.len /\ Cardinality(owned) \in Nat
  BY <1>4, <1>5, FS_Surjection, FS_CardinalityType
<1>7. Cardinality(1 .. MaxArrayLen) = MaxArrayLen
  BY <1>1, Numbers
<1>8. \E b \in 1 .. MaxArrayLen : b \notin owned
  <2> SUFFICES ASSUME 1 .. MaxArrayLen \in SUBSET owned PROVE FALSE
    OBVIOUS
  <2>1. Cardinality(1 .. MaxArrayLen) <= Cardinality(owned)
    BY <1>6, FS_Subset
  <2> QED
    BY <1>1, <1>6, <1>7, <2>1
<1> QED
  BY <1>2, <1>8 DEF FreeBlock

(* dyn_table_set of a key that is there overwrites its block. *)
LEMMA UpdateKeeps ==
  ASSUME NEW t, NEW h, TableOK(t, h), NEW i \in 1 .. t.len, NEW v \in Values
  PROVE  /\ TableUpdate(t, h, t.cells[i].first, v) = [h EXCEPT ![t.cells[i].second] = v]
         /\ TableOK(t, [h EXCEPT ![t.cells[i].second] = v])
<1>1. TableUpdate(t, h, t.cells[i].first, v) = [h EXCEPT ![t.cells[i].second] = v]
  BY FindsThePair DEF TableUpdate
<1>2. TableOK(t, [h EXCEPT ![t.cells[i].second] = v])
  BY DEF TableOK
<1> QED
  BY <1>1, <1>2

(* dyn_table_set of another key adds a pair with a block of its own. *)
LEMMA InsertKeeps ==
  ASSUME NEW t, NEW h, TableOK(t, h), NEW k \in Keys, ~HasPair(t, k), NEW v \in Values,
         NEW b \in 1 .. MaxArrayLen, b \notin DOMAIN h,
         NEW g, g = [c \in DOMAIN h \cup {b} |-> IF c = b THEN v ELSE h[c]]
  PROVE  /\ TableOK(TablePush(t, k, b), g)
         /\ TablePush(t, k, b).len = t.len + 1
         /\ \A i \in 1 .. t.len : TablePush(t, k, b).cells[i] = t.cells[i]
         /\ TablePush(t, k, b).cells[t.len + 1] = [first |-> k, second |-> b]
<1> DEFINE e == [first |-> k, second |-> b]
<1>1. e \in Pairs /\ ArrayOf(Pairs, t) /\ t.len \in Nat
  BY ContainersAssumption DEF Pairs, TableOK, ArrayOf
<1> DEFINE u == TablePush(t, k, b)
<1>2. /\ ArrayOf(Pairs, u) /\ u.len = t.len + 1 /\ u.cells[t.len + 1] = e
      /\ \A i \in 1 .. t.len : u.cells[i] = t.cells[i]
  BY <1>1, PushAdds DEF TablePush
<1>3. e.first = k /\ e.second = b
  OBVIOUS
<1> HIDE DEF u, e
<1>4. \A i \in 1 .. u.len : i \in 1 .. t.len \/ i = t.len + 1
  BY <1>1, <1>2
<1>5. \A i \in 1 .. t.len : /\ i \in 1 .. u.len /\ i # t.len + 1 /\ u.cells[i].first # k
                           /\ u.cells[i].second # b /\ u.cells[i].second \in DOMAIN h
  BY <1>1, <1>2 DEF HasPair, TableOK
<1>6. t.len + 1 \in 1 .. u.len
  BY <1>1, <1>2
<1>7. {u.cells[i].second : i \in 1 .. u.len} = DOMAIN h \cup {b}
  <2>1. DOMAIN h = {t.cells[i].second : i \in 1 .. t.len}
    BY DEF TableOK
  <2>2. \A x \in {u.cells[i].second : i \in 1 .. u.len} : x \in DOMAIN h \cup {b}
    BY <1>2, <1>3, <1>4, <1>5
  <2>3. \A x \in DOMAIN h \cup {b} : x \in {u.cells[i].second : i \in 1 .. u.len}
    BY <1>2, <1>3, <1>5, <1>6, <2>1
  <2> QED
    BY <2>2, <2>3
<1>8. g \in [DOMAIN h \cup {b} -> Values] /\ DOMAIN h \cup {b} \subseteq 1 .. MaxArrayLen
  BY DEF TableOK
<1>9. ASSUME NEW i \in 1 .. u.len, NEW j \in 1 .. u.len, i # j
      PROVE  u.cells[i].first # u.cells[j].first /\ u.cells[i].second # u.cells[j].second
  <2>1. CASE i \in 1 .. t.len /\ j \in 1 .. t.len
    BY <1>2, <1>9, <2>1 DEF TableOK
  <2>2. CASE i = t.len + 1 /\ j \in 1 .. t.len
    BY <1>2, <1>3, <1>5, <2>2
  <2>3. CASE j = t.len + 1 /\ i \in 1 .. t.len
    BY <1>2, <1>3, <1>5, <2>3
  <2> QED
    BY <1>4, <1>9, <2>1, <2>2, <2>3
<1>10. TableOK(u, g)
  BY <1>2, <1>7, <1>8, <1>9 DEF TableOK
<1> QED
  BY <1>2, <1>10 DEF u, e

(* dyn_table_remove takes the pair out, frees its block, and no other. *)
LEMMA RemoveKeeps ==
  ASSUME NEW t, NEW h, TableOK(t, h), NEW i \in 1 .. t.len,
         NEW g, g = [c \in DOMAIN h \ {t.cells[i].second} |-> h[c]]
  PROVE  /\ TableOK(TableRemove(t, t.cells[i].first), g)
         /\ TableRemove(t, t.cells[i].first).len = t.len - 1
         /\ \A j \in 1 .. (t.len - 1) :
              TableRemove(t, t.cells[i].first).cells[j] = t.cells[IF j < i THEN j ELSE j + 1]
<1> DEFINE u == TableRemove(t, t.cells[i].first)
<1>1. ArrayOf(Pairs, t) /\ t.len \in Nat /\ i - 1 \in 0 .. (t.len - 1)
  BY DEF TableOK, ArrayOf
<1>2. u = RemoveIdx(t, i - 1)
  BY FindsThePair DEF TableRemove
<1>3. /\ ArrayOf(Pairs, u) /\ u.len = t.len - 1
      /\ \A j \in 1 .. (t.len - 1) : u.cells[j] = IF j <= i - 1 THEN t.cells[j] ELSE t.cells[j + 1]
  <2> HIDE DEF u
  <2> QED
    BY <1>1, <1>2, RemoveCloses
<1> DEFINE at(j) == IF j < i THEN j ELSE j + 1
<1>4. \A j \in 1 .. u.len : u.cells[j] = t.cells[at(j)] /\ at(j) \in 1 .. t.len /\ at(j) # i
  BY <1>1, <1>3
<1>5. \A j, l \in 1 .. u.len : j # l => at(j) # at(l)
  OBVIOUS
<1>6. \A m \in 1 .. t.len : m # i => \E j \in 1 .. u.len : m = at(j)
  <2> TAKE m \in 1 .. t.len
  <2>1. CASE m < i
    <3>1. m \in 1 .. u.len /\ m = at(m)
      BY <1>1, <1>3, <2>1
    <3> QED
      BY <3>1
  <2>2. CASE m > i
    <3>1. m - 1 \in 1 .. u.len /\ m = at(m - 1)
      BY <1>1, <1>3, <2>2
    <3> QED
      BY <3>1
  <2> QED
    BY <2>1, <2>2
<1>7. \A j \in 1 .. (t.len - 1) : u.cells[j] = t.cells[IF j < i THEN j ELSE j + 1]
  BY <1>3, <1>4
<1> HIDE DEF u, at
<1>8. {u.cells[j].second : j \in 1 .. u.len} = DOMAIN h \ {t.cells[i].second}
  <2>1. DOMAIN h = {t.cells[m].second : m \in 1 .. t.len}
    BY DEF TableOK
  <2>2. \A m \in 1 .. t.len : m # i => t.cells[m].second # t.cells[i].second
    BY DEF TableOK
  <2>3. \A x \in {u.cells[j].second : j \in 1 .. u.len} : x \in DOMAIN h \ {t.cells[i].second}
    BY <1>4, <2>1, <2>2
  <2>4. \A x \in DOMAIN h \ {t.cells[i].second} : x \in {u.cells[j].second : j \in 1 .. u.len}
    BY <1>4, <1>6, <2>1
  <2> QED
    BY <2>3, <2>4
<1>9. /\ g \in [DOMAIN h \ {t.cells[i].second} -> Values]
      /\ DOMAIN h \ {t.cells[i].second} \subseteq 1 .. MaxArrayLen
  BY DEF TableOK
<1>10. \A j, l \in 1 .. u.len :
         j # l => u.cells[j].first # u.cells[l].first /\ u.cells[j].second # u.cells[l].second
  BY <1>4, <1>5 DEF TableOK
<1>11. TableOK(u, g)
  BY <1>3, <1>8, <1>9, <1>10 DEF TableOK
<1> QED
  BY <1>3, <1>7, <1>11 DEF u

(* A map with the keys of a table and their values is the table's map. *)
LEMMA IsTheMap ==
  ASSUME NEW t, NEW h, TableOK(t, h), NEW m, m = [k \in DOMAIN m |-> m[k]],
         \A k : k \in DOMAIN m <=> HasPair(t, k),
         \A i \in 1 .. t.len : m[t.cells[i].first] = h[t.cells[i].second]
  PROVE  TableMap(t, h) = m
<1> DEFINE n == TableMap(t, h)
<1>1. n = [k \in DOMAIN n |-> n[k]]
  BY DEF TableMap
<1>2. \A k : k \in DOMAIN n <=> HasPair(t, k)
  BY MapOfTable
<1>3. \A i \in 1 .. t.len : n[t.cells[i].first] = h[t.cells[i].second]
  BY MapOfTable, ZenonT(40)
<1> HIDE DEF n
<1>4. DOMAIN n = DOMAIN m
  BY <1>2
<1>5. \A k \in DOMAIN m : n[k] = m[k]
  BY <1>3 DEF HasPair
<1>6. n = m
  BY <1>1, <1>4, <1>5
<1> QED
  BY <1>6 DEF n

(* The calls that are made on a table. *)
LEMMA TableCalls ==
  ASSUME kind = "table", CNext
  PROVE  \E k \in Keys : TableLookup(k) \/ TableErase(k) \/ \E v \in Values : TableSet(k, v)
<1>1. \A c, x, y : ~ArrayBecomes(c, x, y) /\ ~HtBecomes(c, x, y)
  BY DEF ArrayBecomes, HtBecomes
<1>2. \A e \in Values : ~ArrayPush(e) /\ ~ArrayIndex(e) /\ ~ArrayCount(e)
  BY <1>1 DEF ArrayPush, ArrayIndex, ArrayCount
<1>3. \A e \in Values, i \in 0 .. MaxArrayLen : ~ArrayInsert(i, e)
  BY <1>1 DEF ArrayInsert
<1>4. (\A i \in 0 .. MaxArrayLen : ~ArrayRemove(i)) /\ ~QueuePop /\ ~ArraySetself
  BY <1>1 DEF ArrayRemove, QueuePop, ArraySetself
<1>5. \A drop \in SUBSET (0 .. MaxArrayLen) : ~ArrayFilter(drop)
  BY <1>1 DEF ArrayFilter
<1>6. \A t \in Tables : ~HtClear(t) /\ \A minimum \in {0, 2 * MaxCapacity} : ~HtReserve(t, minimum)
  BY <1>1 DEF HtClear, HtReserve
<1>7. \A t \in Tables, k \in Keys : ~HtErase(t, k) /\ ~HtGet(t, k) /\ \A v \in Values : ~HtSet(t, k, v)
  BY <1>1 DEF HtErase, HtGet, HtSet
<1>8. ~HtCopy("first", "second") /\ ~HtMove("first", "second") /\ ~HtSwap("first", "second")
  BY <1>1 DEF HtCopy, HtMove, HtSwap
<1>9. "first" \in Tables
  BY DEF Tables
<1> QED
  BY <1>2, <1>3, <1>4, <1>5, <1>6, <1>7, <1>8, <1>9, Zenon DEF CNext

(* dyn_table_set updates a pair, or inserts one with a free block. *)
LEMMA TableSetCases ==
  ASSUME TableOK(tab, heap), NEW k \in Keys, NEW v \in Values, TableSet(k, v)
  PROVE  /\ TableOK(tab', heap') /\ kind' = kind
         /\ call' = [op |-> "set", t |-> "only", k |-> k, v |-> v]
         /\ \A i \in 1 .. tab.len : i \in 1 .. tab'.len /\ tab'.cells[i] = tab.cells[i]
         /\ ret' = 0
         /\ \A x : HasPair(tab', x) <=> HasPair(tab, x) \/ x = k
         /\ \A i \in 1 .. tab'.len :
              heap'[tab'.cells[i].second] =
                IF tab'.cells[i].first = k THEN v ELSE heap[tab'.cells[i].second]
<1>0. tab.len \in Nat
  BY DEF TableOK, ArrayOf
<1>1. kind' = kind /\ call' = [op |-> "set", t |-> "only", k |-> k, v |-> v]
  BY DEF TableSet, TableBecomes
<1>2. CASE HasPair(tab, k)
  <2>1. PICK i \in 1 .. tab.len : tab.cells[i].first = k
    BY <1>2 DEF HasPair
  <2>2. FindIdx(tab, k) # None
    BY <2>1, FindsThePair, ContainersAssumption
  <2>3. /\ tab' = tab /\ heap' = TableUpdate(tab, heap, k, v) /\ ret' = 0
    BY <2>2 DEF TableSet, TableBecomes
  <2>4. heap' = [heap EXCEPT ![tab.cells[i].second] = v] /\ TableOK(tab', heap')
    <3>1. TableUpdate(tab, heap, tab.cells[i].first, v) = [heap EXCEPT ![tab.cells[i].second] = v]
      BY UpdateKeeps
    <3>2. TableOK(tab, [heap EXCEPT ![tab.cells[i].second] = v])
      BY UpdateKeeps
    <3> QED
      BY <2>1, <2>3, <3>1, <3>2
  <2>5. \A j \in 1 .. tab.len : heap'[tab.cells[j].second] =
                IF tab.cells[j].first = k THEN v ELSE heap[tab.cells[j].second]
    <3> TAKE j \in 1 .. tab.len
    <3>1. tab.cells[j].second \in DOMAIN heap
      BY FindsThePair
    <3>2. CASE j = i
      BY <2>1, <2>4, <3>1, <3>2
    <3>3. CASE j # i
      <4>1. tab.cells[j].first # k /\ tab.cells[j].second # tab.cells[i].second
        BY <2>1, <3>3 DEF TableOK
      <4> QED
        BY <2>4, <3>1, <4>1
    <3> QED
      BY <3>2, <3>3
  <2> QED
    BY <1>1, <1>2, <2>1, <2>3, <2>4, <2>5 DEF HasPair
<1>3. CASE ~HasPair(tab, k)
  <2>1. FindIdx(tab, k) = None
    BY <1>3, FindsNoPair
  <2>2. /\ tab.len < MaxArrayLen /\ ret' = 0
        /\ tab' = TablePush(tab, k, FreeBlock)
        /\ heap' = [b \in DOMAIN heap \cup {FreeBlock} |-> IF b = FreeBlock THEN v ELSE heap[b]]
    BY <2>1 DEF TableSet, TableBecomes
  <2>3. FreeBlock \in 1 .. MaxArrayLen /\ FreeBlock \notin DOMAIN heap
    BY <2>2, BlockIsFree
  <2>4. /\ TableOK(tab', heap') /\ tab'.len = tab.len + 1
        /\ \A i \in 1 .. tab.len : tab'.cells[i] = tab.cells[i]
        /\ tab'.cells[tab.len + 1] = [first |-> k, second |-> FreeBlock]
    <3> HIDE DEF FreeBlock
    <3> QED
      BY <1>3, <2>2, <2>3, InsertKeeps
  <2>5. /\ \A i \in 1 .. tab'.len : i \in 1 .. tab.len \/ i = tab.len + 1
        /\ \A i \in 1 .. tab.len : i \in 1 .. tab'.len
        /\ tab.len + 1 \in 1 .. tab'.len
    BY <1>0, <2>4
  <2>6. \A x : HasPair(tab', x) <=> HasPair(tab, x) \/ x = k
    <3> TAKE x
    <3>1. ASSUME HasPair(tab', x) PROVE HasPair(tab, x) \/ x = k
      BY <2>4, <2>5, <3>1 DEF HasPair
    <3>2. ASSUME HasPair(tab, x) PROVE HasPair(tab', x)
      BY <2>4, <2>5, <3>2 DEF HasPair
    <3>3. ASSUME x = k PROVE HasPair(tab', x)
      BY <2>4, <2>5, <3>3 DEF HasPair
    <3> QED
      BY <3>1, <3>2, <3>3
  <2>7. ASSUME NEW i \in 1 .. tab'.len
        PROVE  heap'[tab'.cells[i].second] =
                 IF tab'.cells[i].first = k THEN v ELSE heap[tab'.cells[i].second]
    <3>1. CASE i \in 1 .. tab.len
      <4>1. tab.cells[i].first # k /\ tab.cells[i].second \in DOMAIN heap
        BY <1>3, <3>1, FindsThePair DEF HasPair
      <4> QED
        BY <2>2, <2>3, <2>4, <3>1, <4>1
    <3>2. CASE i = tab.len + 1
      BY <2>2, <2>4, <3>2
    <3> QED
      BY <2>5, <3>1, <3>2
  <2> QED
    BY <1>1, <1>3, <2>2, <2>4, <2>5, <2>6, <2>7
<1> QED
  BY <1>2, <1>3

(* dyn_table_remove takes out a pair, if the key has one. *)
LEMMA TableEraseCases ==
  ASSUME TableOK(tab, heap), NEW k \in Keys, TableErase(k)
  PROVE  /\ TableOK(tab', heap') /\ kind' = kind
         /\ call' = [op |-> "remove", t |-> "only", k |-> k]
         /\ ret' = IF HasPair(tab, k) THEN 0 ELSE -1
         /\ \A j \in 1 .. tab'.len : \E i \in 1 .. tab.len :
              /\ tab'.cells[j] = tab.cells[i] /\ tab'.cells[j].first # k
              /\ heap'[tab'.cells[j].second] = heap[tab.cells[i].second]
         /\ \A i \in 1 .. tab.len :
              tab.cells[i].first # k => \E j \in 1 .. tab'.len : tab'.cells[j] = tab.cells[i]
<1>0. tab.len \in Nat
  BY DEF TableOK, ArrayOf
<1>1. kind' = kind /\ call' = [op |-> "remove", t |-> "only", k |-> k]
  BY DEF TableErase, TableBecomes
<1>2. CASE ~HasPair(tab, k)
  <2>1. FindIdx(tab, k) = None
    BY <1>2, FindsNoPair
  <2>2. tab' = tab /\ heap' = heap /\ ret' = -1
    BY <2>1 DEF TableErase, TableBecomes
  <2> QED
    BY <1>1, <1>2, <2>2 DEF HasPair
<1>3. CASE HasPair(tab, k)
  <2>1. PICK i \in 1 .. tab.len : tab.cells[i].first = k
    BY <1>3 DEF HasPair
  <2>2. FindIdx(tab, k) # None /\ TableGet(tab, k) = tab.cells[i].second
    BY <2>1, FindsThePair, ContainersAssumption
  <2>3. /\ tab' = TableRemove(tab, k) /\ ret' = 0
        /\ heap' = [b \in DOMAIN heap \ {tab.cells[i].second} |-> heap[b]]
    BY <2>2 DEF TableErase, TableBecomes
  <2>4. /\ TableOK(tab', heap') /\ tab'.len = tab.len - 1
        /\ \A j \in 1 .. (tab.len - 1) : tab'.cells[j] = tab.cells[IF j < i THEN j ELSE j + 1]
    <3>1. tab' = TableRemove(tab, tab.cells[i].first)
      BY <2>1, <2>3
    <3> DEFINE g == [b \in DOMAIN heap \ {tab.cells[i].second} |-> heap[b]]
    <3>2. /\ TableOK(TableRemove(tab, tab.cells[i].first), g)
          /\ TableRemove(tab, tab.cells[i].first).len = tab.len - 1
          /\ \A j \in 1 .. (tab.len - 1) :
               TableRemove(tab, tab.cells[i].first).cells[j] = tab.cells[IF j < i THEN j ELSE j + 1]
      BY RemoveKeeps
    <3> HIDE DEF g
    <3>3. heap' = g
      BY <2>3 DEF g
    <3> QED
      BY <3>1, <3>2, <3>3
  <2>5. \A j \in 1 .. tab.len : j # i =>
          tab.cells[j].first # k /\ tab.cells[j].second # tab.cells[i].second /\ tab.cells[j].second \in DOMAIN heap
    BY <2>1, FindsThePair DEF TableOK
  <2>6. ASSUME NEW j \in 1 .. tab'.len
        PROVE  \E l \in 1 .. tab.len :
                 /\ tab'.cells[j] = tab.cells[l] /\ tab'.cells[j].first # k
                 /\ heap'[tab'.cells[j].second] = heap[tab.cells[l].second]
    <3>1. PICK l \in 1 .. tab.len : l # i /\ tab'.cells[j] = tab.cells[l]
      <4>1. CASE j < i
        <5>1. j \in 1 .. tab.len /\ j # i /\ tab'.cells[j] = tab.cells[j]
          BY <1>0, <2>4, <4>1
        <5> QED
          BY <5>1
      <4>2. CASE ~(j < i)
        <5>1. j + 1 \in 1 .. tab.len /\ j + 1 # i /\ tab'.cells[j] = tab.cells[j + 1]
          BY <1>0, <2>4, <4>2
        <5> QED
          BY <5>1
      <4> QED
        BY <4>1, <4>2
    <3>2. tab.cells[l].second \in DOMAIN heap \ {tab.cells[i].second} /\ tab.cells[l].first # k
      BY <2>5, <3>1
    <3> QED
      BY <2>3, <3>1, <3>2
  <2>7. ASSUME NEW l \in 1 .. tab.len, tab.cells[l].first # k
        PROVE  \E j \in 1 .. tab'.len : tab'.cells[j] = tab.cells[l]
    <3>1. l # i
      BY <2>1, <2>7
    <3>2. CASE l < i
      <4>1. l \in 1 .. tab'.len /\ tab'.cells[l] = tab.cells[l]
        BY <1>0, <2>4, <3>2
      <4> QED
        BY <4>1
    <3>3. CASE l > i
      <4>1. l - 1 \in 1 .. tab'.len /\ ~(l - 1 < i) /\ (l - 1) + 1 = l
        BY <1>0, <2>4, <3>3
      <4>2. tab'.cells[l - 1] = tab.cells[l]
        BY <2>4, <4>1
      <4> QED
        BY <4>1, <4>2
    <3> QED
      BY <1>0, <3>1, <3>2, <3>3
  <2> QED
    BY <1>1, <1>3, <2>3, <2>4, <2>6, <2>7
<1> QED
  BY <1>2, <1>3

(* A table is one after each call. *)
TInv == kind = "table" => TableOK(tab, heap)

LEMMA TableInit == CInit => TInv
<1> SUFFICES ASSUME CInit PROVE TableOK(tab, heap)
  BY DEF TInv
<1>1. tab = [cells |-> << >>, len |-> 0, head |-> 1] /\ heap = [b \in {} |-> None]
  BY DEF CInit, Create
<1>2. ArrayOf(Pairs, tab)
  BY <1>1 DEF ArrayOf
<1>3. {tab.cells[i].second : i \in 1 .. tab.len} = {} /\ DOMAIN heap = {}
  BY <1>1
<1> QED
  BY <1>1, <1>2, <1>3 DEF TableOK

LEMMA TableNext == TInv /\ [CNext]_cvars => TInv'
<1> SUFFICES ASSUME TInv, [CNext]_cvars PROVE TInv'
  OBVIOUS
<1>1. kind' = kind
  BY DEF cvars, CNext, ArrayPush, ArrayIndex, ArrayCount, ArrayInsert, ArrayRemove, QueuePop,
         ArraySetself, ArrayFilter, TableLookup, TableErase, TableSet, HtClear, HtReserve, HtErase,
         HtSet, HtGet, HtCopy, HtMove, HtSwap, ArrayBecomes, TableBecomes, HtBecomes
<1>2. CASE kind # "table"
  BY <1>1, <1>2 DEF TInv
<1>3. CASE kind = "table" /\ UNCHANGED cvars
  BY <1>3 DEF TInv, cvars
<1>4. CASE kind = "table" /\ CNext
  <2>1. TableOK(tab, heap)
    BY <1>4 DEF TInv
  <2>2. PICK k \in Keys : TableLookup(k) \/ TableErase(k) \/ \E v \in Values : TableSet(k, v)
    BY <1>4, TableCalls
  <2>3. CASE TableLookup(k)
    BY <1>4, <2>1, <2>3 DEF TableLookup, TableBecomes, TInv
  <2>4. CASE TableErase(k)
    BY <2>1, <2>4, TableEraseCases DEF TInv
  <2>5. CASE \E v \in Values : TableSet(k, v)
    BY <2>1, <2>5, TableSetCases DEF TInv
  <2> QED
    BY <2>2, <2>3, <2>4, <2>5
<1> QED
  BY <1>2, <1>3, <1>4

(***************************************************************************)
(* The pointer prot_table_get returned for a key stays good, whatever else *)
(* is set and removed and however the array of pairs moves in memory, until *)
(* the key itself is removed: its callers keep it after the mutex is free. *)
(***************************************************************************)
THEOREM PointersStay == CSpec => PointersStable
<1> DEFINE Stays ==
      kind = "table" => \A k \in Keys : TableGet(tab, k) # None /\ ~(call'.op = "remove" /\ call'.k = k)
        => TableGet(tab', k) = TableGet(tab, k)
<1>1. ASSUME TInv, CNext PROVE Stays
  <2> SUFFICES ASSUME kind = "table", NEW k \in Keys, TableGet(tab, k) # None,
                      ~(call'.op = "remove" /\ call'.k = k)
               PROVE  TableGet(tab', k) = TableGet(tab, k)
    OBVIOUS
  <2>1. TableOK(tab, heap)
    BY <1>1 DEF TInv
  <2>2. PICK i \in 1 .. tab.len : tab.cells[i].first = k
    BY <2>1, FindsNoPair DEF HasPair
  <2>3. TableGet(tab, k) = tab.cells[i].second
    BY <2>1, <2>2, FindsThePair
  <2>4. PICK l \in Keys : TableLookup(l) \/ TableErase(l) \/ \E v \in Values : TableSet(l, v)
    BY <1>1, TableCalls
  <2>5. CASE TableLookup(l)
    BY <2>5 DEF TableLookup, TableBecomes
  <2>6. CASE TableErase(l)
    <3>1. TableOK(tab', heap') /\ l # k
      BY <2>1, <2>6, TableEraseCases
    <3>2. PICK j \in 1 .. tab'.len : tab'.cells[j] = tab.cells[i]
      BY <2>1, <2>2, <2>6, <3>1, TableEraseCases
    <3>3. TableGet(tab', tab'.cells[j].first) = tab'.cells[j].second
      BY <3>1, FindsThePair
    <3> QED
      BY <2>2, <2>3, <3>2, <3>3
  <2>7. ASSUME NEW v \in Values, TableSet(l, v) PROVE TableGet(tab', k) = TableGet(tab, k)
    <3>1. TableOK(tab', heap') /\ i \in 1 .. tab'.len /\ tab'.cells[i] = tab.cells[i]
      BY <2>1, <2>7, TableSetCases
    <3>2. TableGet(tab', tab'.cells[i].first) = tab'.cells[i].second
      BY <3>1, FindsThePair
    <3> QED
      BY <2>2, <2>3, <3>1, <3>2
  <2> QED
    BY <2>4, <2>5, <2>6, <2>7
<1>2. TInv /\ [CNext]_cvars => [Stays]_cvars
  BY <1>1
<1> QED
  BY <1>2, TableInit, TableNext, PTL DEF CSpec, PointersStable

(***************************************************************************)
(* dyn_table.c is a map: a table that prot_table.c guards answers every    *)
(* set, get and remove as a map from keys to values does.                  *)
(***************************************************************************)
THEOREM TableIsAMap == CSpec => [][kind = "table" => TableMaps!Step]_cvars
<1>1. ASSUME TInv, CNext, kind = "table" PROVE TableMaps!Step
  <2> DEFINE m == TableMap(tab, heap)
             n == TableMap(tab', heap')
  <2>1. TableOK(tab, heap)
    BY <1>1 DEF TInv
  <2>2. PICK k \in Keys : TableLookup(k) \/ TableErase(k) \/ \E v \in Values : TableSet(k, v)
    BY <1>1, TableCalls
  <2>3. kind' = "table"
    BY <1>1, <2>2 DEF TableLookup, TableErase, TableSet, TableBecomes
  <2>4. TheTable = [t \in {"only"} |-> m] /\ TheTable' = [t \in {"only"} |-> n]
    BY <1>1, <2>3 DEF TheTable
  <2>5. /\ m = [x \in DOMAIN m |-> m[x]]
        /\ \A x : x \in DOMAIN m <=> HasPair(tab, x)
        /\ \A i \in 1 .. tab.len : m[tab.cells[i].first] = heap[tab.cells[i].second]
    <3>1. m = [x \in DOMAIN m |-> m[x]]
      BY DEF TableMap
    <3> QED
      BY <2>1, <3>1, MapOfTable
  <2> HIDE DEF m, n
  <2>6. CASE TableLookup(k)
    <3>1. tab' = tab /\ heap' = heap /\ call' = [op |-> "get", t |-> "only", k |-> k]
      BY <2>6 DEF TableLookup, TableBecomes
    <3>2. n = m
      BY <3>1 DEF m, n
    <3>3. ret' = IF k \in DOMAIN m THEN m[k] ELSE None
      <4>1. CASE HasPair(tab, k)
        <5>1. PICK i \in 1 .. tab.len : tab.cells[i].first = k
          BY <4>1 DEF HasPair
        <5>2. TableGet(tab, k) = tab.cells[i].second /\ tab.cells[i].second \in Nat
          BY <2>1, <5>1, FindsThePair
        <5>3. ret' = heap[tab.cells[i].second]
          BY <2>6, <5>2, ContainersAssumption DEF TableLookup, TableBecomes
        <5> QED
          BY <2>5, <4>1, <5>1, <5>3
      <4>2. CASE ~HasPair(tab, k)
        <5>1. ret' = None
          BY <2>1, <2>6, <4>2, FindsNoPair DEF TableLookup, TableBecomes
        <5> QED
          BY <2>5, <4>2, <5>1
      <4> QED
        BY <4>1, <4>2
    <3> QED
      BY <2>4, <3>1, <3>2, <3>3 DEF TableMaps!Step
  <2>7. CASE TableErase(k)
    <3>1. /\ TableOK(tab', heap') /\ call' = [op |-> "remove", t |-> "only", k |-> k]
          /\ ret' = IF k \in DOMAIN m THEN 0 ELSE -1
      BY <2>1, <2>5, <2>7, TableEraseCases
    <3> DEFINE r == Restrict(m, DOMAIN m \ {k})
    <3>2. r = [x \in DOMAIN m \ {k} |-> m[x]]
      BY DEF Restrict
    <3> HIDE DEF r
    <3>3. \A x : x \in DOMAIN r <=> HasPair(tab', x)
      <4> TAKE x
      <4>1. ASSUME HasPair(tab', x) PROVE x \in DOMAIN r
        <5>1. PICK j \in 1 .. tab'.len : tab'.cells[j].first = x
          BY <4>1 DEF HasPair
        <5>2. PICK i \in 1 .. tab.len : tab'.cells[j] = tab.cells[i] /\ tab'.cells[j].first # k
          BY <2>1, <2>7, TableEraseCases
        <5>3. HasPair(tab, x) /\ x # k
          BY <5>1, <5>2 DEF HasPair
        <5> QED
          BY <2>5, <3>2, <5>3
      <4>2. ASSUME x \in DOMAIN r PROVE HasPair(tab', x)
        <5>1. HasPair(tab, x) /\ x # k
          BY <2>5, <3>2, <4>2
        <5>2. PICK i \in 1 .. tab.len : tab.cells[i].first = x
          BY <5>1 DEF HasPair
        <5>3. \E j \in 1 .. tab'.len : tab'.cells[j] = tab.cells[i]
          BY <2>1, <2>7, <5>1, <5>2, TableEraseCases
        <5> QED
          BY <5>2, <5>3 DEF HasPair
      <4> QED
        BY <4>1, <4>2
    <3>4. \A j \in 1 .. tab'.len : r[tab'.cells[j].first] = heap'[tab'.cells[j].second]
      <4> TAKE j \in 1 .. tab'.len
      <4>1. PICK i \in 1 .. tab.len : /\ tab'.cells[j] = tab.cells[i] /\ tab'.cells[j].first # k
                                     /\ heap'[tab'.cells[j].second] = heap[tab.cells[i].second]
        BY <2>1, <2>7, TableEraseCases
      <4>2. m[tab.cells[i].first] = heap[tab.cells[i].second] /\ tab.cells[i].first \in DOMAIN m
        BY <2>5 DEF HasPair
      <4> QED
        BY <3>2, <4>1, <4>2
    <3>5. n = r
      BY <3>1, <3>2, <3>3, <3>4, IsTheMap DEF n
    <3>6. TheTable' = [TheTable EXCEPT !["only"] = TableMaps!Restrict(m, DOMAIN m \ {k})]
      BY <2>4, <3>2, <3>5 DEF TableMaps!Restrict
    <3> QED
      BY <2>4, <3>1, <3>6 DEF TableMaps!Step
  <2>8. ASSUME NEW v \in Values, TableSet(k, v) PROVE TableMaps!Step
    <3>1. /\ TableOK(tab', heap') /\ call' = [op |-> "set", t |-> "only", k |-> k, v |-> v]
          /\ ret' = 0
          /\ \A x : HasPair(tab', x) <=> HasPair(tab, x) \/ x = k
          /\ \A i \in 1 .. tab.len : i \in 1 .. tab'.len /\ tab'.cells[i] = tab.cells[i]
      BY <2>1, <2>5, <2>8, TableSetCases
    <3> DEFINE w == TableMaps!With(m, k, v)
    <3>2. w = [x \in DOMAIN m \cup {k} |-> IF x = k THEN v ELSE m[x]]
      BY DEF TableMaps!With
    <3>7. w = [x \in DOMAIN w |-> w[x]]
      BY <3>2
    <3> HIDE DEF w
    <3>3. \A x : x \in DOMAIN w <=> HasPair(tab', x)
      BY <2>5, <3>1, <3>2
    <3>4. \A i \in 1 .. tab'.len : w[tab'.cells[i].first] = heap'[tab'.cells[i].second]
      <4> TAKE i \in 1 .. tab'.len
      <4>1. heap'[tab'.cells[i].second] =
              IF tab'.cells[i].first = k THEN v ELSE heap[tab'.cells[i].second]
        BY <2>1, <2>8, TableSetCases
      <4>2. CASE tab'.cells[i].first = k
        BY <3>2, <4>1, <4>2
      <4>3. CASE tab'.cells[i].first # k
        <5>1. HasPair(tab', tab'.cells[i].first)
          BY DEF HasPair
        <5>2. PICK j \in 1 .. tab.len : tab.cells[j].first = tab'.cells[i].first
          BY <3>1, <4>3, <5>1 DEF HasPair
        <5>3. i = j /\ tab'.cells[i] = tab.cells[j]
          BY <3>1, <5>2 DEF TableOK
        <5>4. m[tab.cells[j].first] = heap[tab.cells[j].second] /\ tab.cells[j].first \in DOMAIN m
          BY <2>5 DEF HasPair
        <5> QED
          BY <3>2, <4>1, <4>3, <5>3, <5>4
      <4> QED
        BY <4>2, <4>3
    <3>5. n = w
      BY <3>1, <3>3, <3>4, <3>7, IsTheMap DEF n
    <3>6. TheTable' = [TheTable EXCEPT !["only"] = w]
      BY <2>4, <3>5
    <3> QED
      BY <2>4, <3>1, <3>6 DEF TableMaps!Step, w
  <2> QED
    BY <2>2, <2>6, <2>7, <2>8
<1>2. TInv /\ [CNext]_cvars => [kind = "table" => TableMaps!Step]_cvars
  BY <1>1
<1> QED
  BY <1>2, TableInit, TableNext, PTL DEF CSpec
=============================================================================
