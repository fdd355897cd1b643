--------------------------- MODULE ContentProofs ----------------------------
(***************************************************************************)
(* Proofs about the ring of Content.tla for every ring size, every counter *)
(* width that is a multiple of it, and every set of descriptors, with one  *)
(* sender and one receiver.                                                *)
(***************************************************************************)
EXTENDS Content, Sequences, TLAPS

\* One thread pushes and one thread pops.
OneToOne == (\E s : Senders = {s}) /\ (\E c : Receivers = {c})

-----------------------------------------------------------------------------
(* Arithmetic: remainders, products, and addition modulo a width. *)

(* Every integer has a quotient and a remainder. *)
LEMMA DivMod ==
    ASSUME NEW x \in Int, NEW n \in Nat, n >= 2
    PROVE  \E q \in Int, m \in 0 .. n - 1 : x = q * n + m /\ m = x % n
BY SMTT(20)

(* The remainder is the only one. *)
LEMMA RemainderUnique ==
    ASSUME NEW x \in Int, NEW n \in Nat, n >= 2,
           NEW q \in Int, NEW m \in 0 .. n - 1, x = q * n + m
    PROVE  x % n = m
BY SMTT(20)

(* Multiplication distributes. *)
LEMMA Distributes ==
    ASSUME NEW p \in Int, NEW q \in Int, NEW n \in Int
    PROVE  /\ p * n \in Int /\ q * n \in Int
           /\ (p - q) * n = p * n - q * n
           /\ (p + q) * n = p * n + q * n
BY SMTT(20)

(* A positive multiple of n is at least n. *)
LEMMA MultipleBound ==
    ASSUME NEW q \in Int, q >= 1, NEW n \in Nat
    PROVE  q * n >= n
BY SMTT(20)

(* A sum below twice the width, modulo the width. *)
LEMMA WrapOnce ==
    ASSUME NEW n \in Nat, n >= 2, NEW x \in 0 .. 2 * n - 1
    PROVE  x % n = IF x < n THEN x ELSE x - n
BY SMTT(20)

(* The sizes of the ring and of the counters; a counter has at least as    *)
(* many values as the ring has slots.                                      *)
LEMMA Sizes ==
    /\ RingSize \in Nat /\ RingSize >= 2
    /\ WordSize \in Nat /\ WordSize >= RingSize
<1>1. RingSize \in Nat /\ RingSize >= 2 /\ WordSize \in Nat
  BY SizeAssumption
<1>2. PICK k \in 1 .. WordSize : WordSize = k * RingSize
  BY SizeAssumption
<1>3. k \in Int /\ k >= 1
  BY <1>1
<1> QED
  BY <1>1, <1>2, <1>3, MultipleBound

-----------------------------------------------------------------------------
(* Slot numbers. *)

(* The slot number of an integer is its remainder. *)
LEMMA IndexType ==
    ASSUME NEW x \in Int
    PROVE  /\ Index(x) \in Slots /\ Index(x) \in Int
           /\ \E q \in Int : x = q * RingSize + Index(x)
<1>1. PICK q \in Int, m \in 0 .. RingSize - 1 : x = q * RingSize + m /\ m = x % RingSize
  BY DivMod, Sizes
<1>2. m \in Int
  BY Sizes
<1>3. m = Index(x)
  BY <1>1 DEF Index
<1> QED
  BY <1>1, <1>2, <1>3, Zenon DEF Slots

(* Integers that differ by a multiple of RingSize have the same slot. *)
LEMMA IndexShift ==
    ASSUME NEW x \in Int, NEW k \in Int
    PROVE  Index(x - k * RingSize) = Index(x)
<1>1. PICK q \in Int : x = q * RingSize + Index(x)
  BY IndexType
<1>2. Index(x) \in 0 .. RingSize - 1 /\ Index(x) \in Int
  BY IndexType DEF Slots
<1>3. /\ (q - k) * RingSize = q * RingSize - k * RingSize
      /\ q * RingSize \in Int /\ k * RingSize \in Int
  BY Distributes, Sizes
<1>4. x - k * RingSize = (q - k) * RingSize + Index(x)
  <2> DEFINE a == q * RingSize
             b == k * RingSize
             c == (q - k) * RingSize
             m == Index(x)
  <2>1. x = a + m /\ c = a - b /\ a \in Int /\ b \in Int /\ m \in Int
    BY <1>1, <1>2, <1>3
  <2> HIDE DEF a, b, c, m
  <2>2. x - b = c + m
    BY <2>1
  <2> QED
    BY <2>2 DEF b, c, m
<1>5. q - k \in Int /\ x - k * RingSize \in Int
  BY <1>3
<1> QED
  BY <1>2, <1>4, <1>5, RemainderUnique, Sizes DEF Index

(* Wrapping a counter does not change its slot: 256 divides 2^32. *)
LEMMA IndexWrap ==
    ASSUME NEW x \in Int
    PROVE  Index(x - WordSize) = Index(x)
<1>1. PICK k \in 1 .. WordSize : WordSize = k * RingSize
  BY SizeAssumption
<1>2. k \in Int
  BY Sizes
<1> QED
  BY <1>1, <1>2, IndexShift

(* Integers less than RingSize apart with the same slot are equal. *)
LEMMA IndexInjective ==
    ASSUME NEW x \in Int, NEW y \in Int,
           Index(x) = Index(y), x >= y, x - y < RingSize
    PROVE  x = y
<1>1. PICK p \in Int : x = p * RingSize + Index(x)
  BY IndexType
<1>2. PICK q \in Int : y = q * RingSize + Index(y)
  BY IndexType
<1> DEFINE a == p * RingSize
           b == q * RingSize
           c == (p - q) * RingSize
           m == Index(x)
<1>3. x = a + m /\ y = b + m /\ a \in Int /\ b \in Int /\ c = a - b /\ m \in Int
  BY <1>1, <1>2, IndexType, Distributes, Sizes
<1>4. CASE p - q >= 1
  <2>1. c >= RingSize
    BY <1>4, MultipleBound, Sizes
  <2> HIDE DEF a, b, c, m
  <2> QED
    BY <1>3, <2>1, Sizes
<1>5. CASE p = q
  BY <1>3, <1>5
<1>6. CASE q - p >= 1
  <2> DEFINE e == (q - p) * RingSize
  <2>1. e >= RingSize
    BY <1>6, MultipleBound, Sizes
  <2>2. e = b - a
    BY Distributes, Sizes
  <2> HIDE DEF a, b, c, e, m
  <2> QED
    BY <1>3, <2>1, <2>2, Sizes
<1>7. p - q >= 1 \/ p = q \/ q - p >= 1
  OBVIOUS
<1> QED
  BY <1>4, <1>5, <1>6, <1>7

(* The increment and the decrement of a counter, without the modulus. *)
LEMMA IncDec ==
    ASSUME NEW x \in Words
    PROVE  /\ Inc(x) \in Words
           /\ Inc(x) = IF x + 1 = WordSize THEN 0 ELSE x + 1
           /\ Dec(x) \in Words
           /\ Dec(x) = IF x = 0 THEN WordSize - 1 ELSE x - 1
<1> DEFINE u == x + 1
           v == x + WordSize - 1
<1>1. /\ u \in 0 .. 2 * WordSize - 1
      /\ v \in 0 .. 2 * WordSize - 1
      /\ WordSize \in Nat /\ WordSize >= 2
  BY Sizes DEF Words
<1> HIDE DEF u, v
<1>2. /\ u % WordSize = IF u < WordSize THEN u ELSE u - WordSize
      /\ v % WordSize = IF v < WordSize THEN v ELSE v - WordSize
  BY <1>1, WrapOnce
<1>3. Inc(x) = u % WordSize /\ Dec(x) = v % WordSize
  BY DEF Inc, Dec, u, v
<1>4. /\ Inc(x) = IF u < WordSize THEN u ELSE u - WordSize
      /\ Dec(x) = IF v < WordSize THEN v ELSE v - WordSize
  BY <1>2, <1>3
<1> QED
  BY <1>1, <1>4 DEF Words, u, v

(* The slot of the i-th position behind a counter, without the wrap. *)
LEMMA SlotAtPlain ==
    ASSUME NEW a \in Words, NEW i \in 0 .. RingSize - 1
    PROVE  /\ SlotAt(a, i) \in Slots
           /\ SlotAt(a, i) = Index(a + i)
<1> DEFINE x == a + i
<1>1. x \in 0 .. 2 * WordSize - 1 /\ x \in Int
  BY Sizes DEF Words
<1>2. SlotAt(a, i) = Index(x % WordSize)
  BY DEF SlotAt
<1> HIDE DEF x
<1>3. x % WordSize = IF x < WordSize THEN x ELSE x - WordSize
  BY <1>1, WrapOnce, Sizes
<1>4. SlotAt(a, i) = Index(x) /\ Index(x) \in Slots
  BY <1>1, <1>2, <1>3, IndexWrap, IndexType
<1> QED
  BY <1>4 DEF x

(* Distinct positions less than RingSize behind a counter are distinct slots. *)
LEMMA SlotsDistinct ==
    ASSUME NEW a \in Words, NEW i \in 0 .. RingSize - 1, NEW j \in 0 .. RingSize - 1,
           SlotAt(a, i) = SlotAt(a, j)
    PROVE  i = j
<1>1. Index(a + i) = Index(a + j) /\ a + i \in Int /\ a + j \in Int
  BY SlotAtPlain, Sizes DEF Words
<1>2. CASE i >= j
  <2>1. a + i >= a + j /\ (a + i) - (a + j) < RingSize
    BY <1>2, Sizes DEF Words
  <2>2. a + i = a + j
    BY <1>1, <2>1, IndexInjective
  <2> QED
    BY <2>2, Sizes DEF Words
<1>3. CASE j >= i
  <2>1. a + j >= a + i /\ (a + j) - (a + i) < RingSize
    BY <1>3, Sizes DEF Words
  <2>2. a + j = a + i
    BY <1>1, <2>1, IndexInjective
  <2> QED
    BY <2>2, Sizes DEF Words
<1> QED
  BY <1>2, <1>3, Sizes

(* Distance is a number of steps, and adding it leads to the other counter. *)
LEMMA DistType ==
    ASSUME NEW a \in Words, NEW b \in Words
    PROVE  /\ Dist(a, b) \in Words /\ Dist(a, b) \in Nat
           /\ (Dist(a, b) = 0) <=> (a = b)
           /\ (a + Dist(a, b)) % WordSize = b
           /\ SlotAt(a, Dist(a, b)) = Index(b)
<1>1. Dist(a, b) \in Words /\ ((Dist(a, b) = 0) <=> (a = b))
  BY Sizes DEF Dist, Words
<1>2. a + Dist(a, b) \in 0 .. 2 * WordSize - 1
  BY <1>1, Sizes DEF Words
<1>3. (a + Dist(a, b)) % WordSize = b
  <2> DEFINE x == a + Dist(a, b)
  <2>1. x = IF b >= a THEN b ELSE b + WordSize
    BY Sizes DEF Dist, Words
  <2>2. x \in 0 .. 2 * WordSize - 1
    BY <1>2
  <2> HIDE DEF x
  <2>3. x % WordSize = b
    BY <2>1, <2>2, WrapOnce, Sizes DEF Words
  <2> QED
    BY <2>3 DEF x
<1>4. Dist(a, b) \in Nat
  BY <1>1, Sizes DEF Words
<1> QED
  BY <1>1, <1>3, <1>4 DEF SlotAt

(* Moving the far end one step adds one, unless it would meet the near end. *)
LEMMA DistIncRight ==
    ASSUME NEW a \in Words, NEW b \in Words, Dist(a, b) < WordSize - 1
    PROVE  Dist(a, Inc(b)) = Dist(a, b) + 1
BY IncDec, Sizes DEF Dist, Words

(* Moving the near end one step towards the far end takes one off. *)
LEMMA DistIncLeft ==
    ASSUME NEW a \in Words, NEW b \in Words, Dist(a, b) >= 1
    PROVE  Dist(Inc(a), b) = Dist(a, b) - 1
BY IncDec, Sizes DEF Dist, Words

(* The test of push for a full ring, on the low bytes only, is exact. *)
LEMMA FullExact ==
    ASSUME NEW a \in Words, NEW b \in Words, Dist(a, b) <= RingSize - 1
    PROVE  (Index(b) = Index(Dec(a))) <=> (Dist(a, b) = RingSize - 1)
<1>1. Index(Dec(a)) = Index(a + (RingSize - 1))
  <2>1. Index(Dec(a)) = Index(a - 1)
    <3>1. CASE a = 0
      <4>1. Dec(a) = WordSize - 1 /\ WordSize - 1 \in Int /\ (WordSize - 1) - WordSize = a - 1
        BY <3>1, IncDec, Sizes DEF Words
      <4> QED
        BY <4>1, IndexWrap
    <3>2. CASE a # 0
      BY <3>2, IncDec
    <3> QED
      BY <3>1, <3>2
  <2>2. a + (RingSize - 1) \in Int /\ (a + (RingSize - 1)) - 1 * RingSize = a - 1
    BY Sizes DEF Words
  <2>3. Index(a + (RingSize - 1)) = Index(a - 1)
    BY <2>2, IndexShift
  <2> QED
    BY <2>1, <2>3
<1>2. Index(a + (RingSize - 1)) = SlotAt(a, RingSize - 1)
  BY SlotAtPlain, Sizes
<1>3. Index(b) = SlotAt(a, Dist(a, b))
  BY DistType
<1>4. Dist(a, b) \in 0 .. RingSize - 1 /\ RingSize - 1 \in 0 .. RingSize - 1
  BY DistType, Sizes DEF Words
<1> QED
  BY <1>1, <1>2, <1>3, <1>4, SlotsDistinct
-----------------------------------------------------------------------------
(* Type correctness, for any number of senders and receivers. *)

(* A step of the ring keeps every variable in its type. *)
LEMMA TypeStep == TypeOK /\ [Next]_vars => TypeOK'
<1> SUFFICES ASSUME TypeOK, [Next]_vars
             PROVE  TypeOK'
  OBVIOUS
<1> USE DEF TypeOK, pushVars, popVars
<1>0. /\ 0 \in Words /\ Index(wr) \in Slots
      /\ \A x \in Words : Inc(x) \in Words /\ Index(x) \in Slots
  BY IncDec, IndexType, Sizes DEF Words
<1>1. ASSUME NEW s \in Senders, NEW d \in Descriptors, PushLoad(s, d)
      PROVE  TypeOK'
  BY <1>0, <1>1 DEF PushLoad
<1>2. ASSUME NEW s \in Senders, PushFull(s)
      PROVE  TypeOK'
  BY <1>2 DEF PushFull
<1>3. ASSUME NEW s \in Senders, PushClaim(s)
      PROVE  TypeOK'
  BY <1>3 DEF PushClaim
<1>4. ASSUME NEW s \in Senders, PushStore(s)
      PROVE  TypeOK'
  BY <1>4 DEF PushStore
<1>5. ASSUME NEW s \in Senders, PushPublish(s)
      PROVE  TypeOK'
  BY <1>0, <1>5 DEF PushPublish
<1>6. ASSUME NEW c \in Receivers, PopReady(c)
      PROVE  TypeOK'
  BY <1>6 DEF PopReady
<1>7. ASSUME NEW c \in Receivers, PopTake(c)
      PROVE  TypeOK'
  <2>1. Inc(cursor[c]) \in Words /\ block[Index(cursor[c])] \in Descriptors \cup {None}
    BY <1>0
  <2> QED
    BY <1>7, <2>1 DEF PopTake
<1>8. ASSUME NEW c \in Receivers, NEW last \in BOOLEAN, PopOut(c, last)
      PROVE  TypeOK'
  BY <1>0, <1>8 DEF PopOut
<1>9. ASSUME NEW c \in Receivers, Attach(c)
      PROVE  TypeOK'
  BY <1>9 DEF Attach
<1>10. CASE UNCHANGED vars
  BY <1>10 DEF vars
<1> QED
  BY <1>1, <1>2, <1>3, <1>4, <1>5, <1>6, <1>7, <1>8, <1>9, <1>10 DEF Next, Push, Pop

(* The counters stay uint32_t values, the slots of push stay in the block_ *)
(* array, and a slot holds a descriptor or nothing, with any number of     *)
(* concurrent senders and receivers.                                       *)
THEOREM TypeCorrect == Spec => []TypeOK
<1>1. Init => TypeOK
  BY Sizes DEF Init, TypeOK, Words, Slots
<1> QED
  BY <1>1, TypeStep, PTL DEF Spec
-----------------------------------------------------------------------------
(* The inductive invariant, with one sender and one receiver. *)

(* The distances between the counters are natural numbers, and a counter   *)
(* can take one more step than the ring has places without meeting another. *)
LEMMA Distances ==
    ASSUME TypeOK, NEW c \in Receivers
    PROVE  /\ Dist(rd, wr) \in Nat
           /\ Dist(rd, cursor[c]) \in Nat
           /\ Dist(rd, wr) < RingSize - 1 => Dist(rd, wr) < WordSize - 1
<1>1. rd \in Words /\ wr \in Words /\ cursor[c] \in Words
  BY DEF TypeOK
<1>2. Dist(rd, wr) \in Nat /\ Dist(rd, cursor[c]) \in Nat
  BY <1>1, DistType
<1> QED
  BY <1>2, Sizes

(* The counters are ordered in the initial state. *)
LEMMA InvInit == OneToOne /\ Init => IInv
<1> SUFFICES ASSUME OneToOne, Init
             PROVE  IInv
  OBVIOUS
<1>1. TypeOK
  BY Sizes DEF Init, TypeOK, Words, Slots
<1>2. CountersOrdered
  BY Sizes DEF Init, CountersOrdered, Dist
<1>3. StepsAgree
  BY DEF Init, StepsAgree
<1> QED
  BY <1>1, <1>2, <1>3 DEF IInv

(* Every step of the one sender and of the one receiver keeps the counters *)
(* ordered and what the other has read valid.                              *)
LEMMA InvStep == OneToOne /\ IInv /\ [Next]_vars => IInv'
<1> SUFFICES ASSUME OneToOne, IInv, [Next]_vars
             PROVE  IInv'
  OBVIOUS
<1>1. TypeOK /\ TypeOK' /\ CountersOrdered /\ StepsAgree
  BY TypeStep DEF IInv
<1>2. SUFFICES CountersOrdered' /\ StepsAgree'
  BY <1>1 DEF IInv
<1>3. PICK s : Senders = {s}
  BY DEF OneToOne
<1>4. PICK c : Receivers = {c}
  BY DEF OneToOne
<1>5. /\ Dist(rd, wr) \in Nat /\ Dist(rd, cursor[c]) \in Nat
      /\ Dist(rd, wr) < RingSize - 1 => Dist(rd, wr) < WordSize - 1
  BY <1>1, <1>4, Distances
<1>6. /\ rd \in Words /\ wr \in Words /\ cursor[c] \in Words
  BY <1>1, <1>4 DEF TypeOK
<1>7. ASSUME NEW d \in Descriptors, PushLoad(s, d)
      PROVE  CountersOrdered' /\ StepsAgree'
  BY <1>1, <1>3, <1>4, <1>7 DEF PushLoad, CountersOrdered, StepsAgree, TypeOK, popVars
<1>8. CASE PushFull(s)
  BY <1>1, <1>3, <1>4, <1>8 DEF PushFull, CountersOrdered, StepsAgree, TypeOK, popVars
<1>9. CASE PushClaim(s)
  <2>1. Dist(rd, wr) < RingSize - 1
    <3>1. Index(wr) # Index(Dec(rd)) /\ Dist(rd, wr) <= RingSize - 1
      BY <1>1, <1>3, <1>9 DEF PushClaim, Full, StepsAgree, CountersOrdered
    <3> QED
      BY <1>5, <1>6, <3>1, FullExact, Sizes
  <2> QED
    BY <1>1, <1>3, <1>4, <1>9, <2>1
    DEF PushClaim, CountersOrdered, StepsAgree, TypeOK, popVars
<1>10. CASE PushStore(s)
  BY <1>1, <1>3, <1>4, <1>10 DEF PushStore, CountersOrdered, StepsAgree, TypeOK, popVars
<1>11. CASE PushPublish(s)
  <2>1. Dist(rd, wr) < RingSize - 1 /\ Dist(rd, Inc(wr)) = Dist(rd, wr) + 1
    BY <1>1, <1>3, <1>5, <1>6, <1>11, DistIncRight DEF PushPublish, StepsAgree
  <2>2. CountersOrdered'
    BY <1>1, <1>4, <1>5, <1>11, <2>1, Sizes DEF PushPublish, CountersOrdered, popVars
  <2>3. StepsAgree'
    BY <1>1, <1>3, <1>4, <1>5, <1>11, <2>1, Sizes
    DEF PushPublish, StepsAgree, CountersOrdered, TypeOK, popVars
  <2> QED
    BY <2>2, <2>3
<1>12. CASE PopReady(c)
  <2>1. cursor[c] # wr
    BY <1>12 DEF PopReady
  <2>2. Dist(rd, cursor[c]) # Dist(rd, wr)
    BY <1>6, <2>1, DistType
  <2> QED
    BY <1>1, <1>3, <1>4, <1>5, <1>12, <2>2
    DEF PopReady, CountersOrdered, StepsAgree, TypeOK, pushVars
<1>13. CASE PopTake(c)
  <2>1. Dist(rd, cursor[c]) < Dist(rd, wr) /\ Dist(rd, wr) <= RingSize - 1
    BY <1>1, <1>4, <1>13 DEF PopTake, StepsAgree, CountersOrdered
  <2>2. Dist(rd, Inc(cursor[c])) = Dist(rd, cursor[c]) + 1
    BY <1>5, <1>6, <2>1, DistIncRight, Sizes
  <2>3. cursor'[c] = Inc(cursor[c])
    BY <1>1, <1>4, <1>13 DEF PopTake, TypeOK
  <2>4. CountersOrdered'
    BY <1>4, <1>5, <1>13, <2>1, <2>2, <2>3 DEF PopTake, CountersOrdered
  <2>5. StepsAgree'
    BY <1>1, <1>3, <1>4, <1>5, <1>13, <2>2, <2>3 DEF PopTake, StepsAgree, TypeOK, pushVars
  <2> QED
    BY <2>4, <2>5
<1>14. ASSUME NEW last \in BOOLEAN, PopOut(c, last)
       PROVE  CountersOrdered' /\ StepsAgree'
  <2>1. CASE last
    <3>1. Dist(rd, cursor[c]) >= 1 /\ Dist(rd, cursor[c]) <= Dist(rd, wr)
      BY <1>1, <1>4, <1>14 DEF PopOut, StepsAgree, CountersOrdered
    <3>2. /\ Dist(Inc(rd), wr) = Dist(rd, wr) - 1
          /\ Dist(Inc(rd), cursor[c]) = Dist(rd, cursor[c]) - 1
      BY <1>5, <1>6, <3>1, DistIncLeft
    <3>3. CountersOrdered'
      BY <1>1, <1>4, <1>5, <1>14, <2>1, <3>1, <3>2, Sizes DEF PopOut, CountersOrdered
    <3>4. StepsAgree'
      BY <1>1, <1>3, <1>4, <1>5, <1>14, <2>1, <3>2, Sizes
      DEF PopOut, StepsAgree, TypeOK, pushVars
    <3> QED
      BY <3>3, <3>4
  <2>2. CASE ~last
    BY <1>1, <1>3, <1>4, <1>14, <2>2 DEF PopOut, CountersOrdered, StepsAgree, TypeOK, pushVars
  <2> QED
    BY <2>1, <2>2
<1>15. CASE Attach(c)
  <2>1. cursor'[c] = rd /\ Dist(rd, rd) = 0
    BY <1>1, <1>4, <1>6, <1>15, DistType DEF Attach, TypeOK
  <2> QED
    BY <1>1, <1>3, <1>4, <1>5, <1>15, <2>1
    DEF Attach, CountersOrdered, StepsAgree, TypeOK, pushVars
<1>16. CASE UNCHANGED vars
  BY <1>1, <1>16 DEF vars, pushVars, popVars, CountersOrdered, StepsAgree
<1> QED
  BY <1>3, <1>4, <1>7, <1>8, <1>9, <1>10, <1>11, <1>12, <1>13, <1>14, <1>15, <1>16
  DEF Next, Push, Pop

(* The inductive invariant holds throughout. *)
THEOREM Inductive == ASSUME OneToOne PROVE Spec => []IInv
<1>1. OneToOne
  OBVIOUS
<1>2. Init => IInv
  BY <1>1, InvInit
<1>3. IInv /\ [Next]_vars => IInv'
  BY <1>1, InvStep
<1> QED
  BY <1>2, <1>3, PTL DEF Spec

(* With one sender and one receiver the counters never pass one another    *)
(* and never move more than a ring apart, whatever out answers in pop and  *)
(* however often the reader connects again, across the wrap of uint32_t.   *)
THEOREM Ordered == ASSUME OneToOne PROVE Spec => []CountersOrdered
<1>1. OneToOne
  OBVIOUS
<1>2. Spec => []IInv
  BY <1>1, Inductive
<1>3. IInv => CountersOrdered
  BY DEF IInv
<1> QED
  BY <1>2, <1>3, PTL

(* With one sender and one receiver, what a thread read at an earlier step  *)
(* of push or pop still holds when it acts on it, whatever the other does   *)
(* in between: the reader's slot is filled, the writer's slot is free, and  *)
(* what the writer stored is there when it publishes.                       *)
THEOREM NothingStale == ASSUME OneToOne PROVE Spec => []StepsAgree
<1>1. OneToOne
  OBVIOUS
<1>2. Spec => []IInv
  BY <1>1, Inductive
<1>3. IInv => StepsAgree
  BY DEF IInv
<1> QED
  BY <1>2, <1>3, PTL

(* With one sender and one receiver, push never stores into a slot whose   *)
(* descriptor the reader has not taken, although the test for a full ring  *)
(* looks at the low byte of the counters only and r_ moves between the     *)
(* test and the store.                                                     *)
THEOREM NeverOverruns == ASSUME OneToOne PROVE Spec => []NoOverrun
<1>1. OneToOne
  OBVIOUS
<1>2. Spec => []IInv
  BY <1>1, Inductive
<1>3. IInv => NoOverrun
  <2> SUFFICES ASSUME IInv, NEW s \in Senders, NEW c \in Receivers,
                      spc[s] \in {"claimed", "stored"}, NEW i \in Slots,
                      i < Dist(cursor[c], wr), SlotAt(cursor[c], i) = cur_wt[s]
               PROVE  FALSE
    BY DEF NoOverrun
  <2>1. rd \in Words /\ wr \in Words /\ cursor[c] \in Words
    BY DEF IInv, TypeOK
  <2>2. /\ Dist(rd, wr) < RingSize - 1 /\ cur_wt[s] = Index(wr)
        /\ Dist(rd, cursor[c]) <= Dist(rd, wr)
    BY DEF IInv, StepsAgree, CountersOrdered
  <2>3. Dist(cursor[c], wr) = Dist(rd, wr) - Dist(rd, cursor[c])
    BY <2>1, <2>2, Sizes DEF Dist, Words
  <2>4. Dist(cursor[c], wr) \in 0 .. RingSize - 1 /\ Dist(cursor[c], wr) \in Nat
    <3>1. /\ Dist(cursor[c], wr) \in Nat
          /\ Dist(rd, wr) \in Nat /\ Dist(rd, cursor[c]) \in Nat
      BY <2>1, DistType
    <3> QED
      BY <2>2, <2>3, <3>1, Sizes
  <2>5. SlotAt(cursor[c], Dist(cursor[c], wr)) = Index(wr)
    BY <2>1, DistType
  <2>6. i = Dist(cursor[c], wr)
    BY <2>1, <2>2, <2>4, <2>5, SlotsDistinct DEF Slots
  <2> QED
    BY <2>4, <2>6
<1> QED
  BY <1>2, <1>3, PTL
-----------------------------------------------------------------------------
(* The ring implements the bounded queue. *)

(* A function on 1..n is a sequence of length n. *)
LEMMA FunctionSeq ==
    ASSUME NEW S, NEW n \in Nat, NEW f \in [1 .. n -> S]
    PROVE  f \in Seq(S) /\ Len(f) = n
OBVIOUS

(* One more place at the end appends to the sequence. *)
LEMMA AppendPlace ==
    ASSUME NEW S, NEW n \in Nat, NEW f \in [1 .. n -> S], NEW g \in [1 .. n + 1 -> S],
           \A i \in 1 .. n : g[i] = f[i]
    PROVE  g = Append(f, g[n + 1])
BY FunctionSeq

(* One place less at the front leaves the tail of the sequence. *)
LEMMA TailPlace ==
    ASSUME NEW S, NEW n \in Nat, n >= 1, NEW f \in [1 .. n -> S], NEW g \in [1 .. n - 1 -> S],
           \A i \in 1 .. n - 1 : g[i] = f[i + 1]
    PROVE  g = Tail(f)
<1>1. f \in Seq(S) /\ Len(f) = n
  BY FunctionSeq
<1>2. Tail(f) \in Seq(S) /\ Len(Tail(f)) = n - 1 /\ \A i \in 1 .. n - 1 : Tail(f)[i] = f[i + 1]
  BY <1>1
<1>3. g \in Seq(S) /\ Len(g) = n - 1
  BY FunctionSeq
<1> QED
  BY <1>2, <1>3

(* The positions behind the next value of a counter. *)
LEMMA SlotAtInc ==
    ASSUME NEW a \in Words, NEW i \in 0 .. RingSize - 2
    PROVE  SlotAt(Inc(a), i) = SlotAt(a, i + 1)
<1>1. /\ Inc(a) \in Words
      /\ Inc(a) = IF a + 1 = WordSize THEN 0 ELSE a + 1
  BY IncDec
<1>2. i \in 0 .. RingSize - 1 /\ i + 1 \in 0 .. RingSize - 1 /\ i \in Int /\ a \in Int
  BY Sizes DEF Words
<1>3. SlotAt(Inc(a), i) = Index(Inc(a) + i) /\ SlotAt(a, i + 1) = Index(a + (i + 1))
  BY <1>1, <1>2, SlotAtPlain
<1>4. Inc(a) + i = a + (i + 1) \/ Inc(a) + i = (a + (i + 1)) - WordSize
  BY <1>1, <1>2, Sizes
<1>5. a + (i + 1) \in Int
  BY <1>2
<1> QED
  BY <1>3, <1>4, <1>5, IndexWrap

(* What the first m slots behind a counter hold. *)
LEMMA SlotContents ==
    ASSUME NEW T, NEW b \in [Slots -> T], NEW a \in Words, NEW m \in Nat, m <= RingSize - 1
    PROVE  [i \in 1 .. m |-> b[SlotAt(a, i - 1)]] \in [1 .. m -> T]
<1>1. \A i \in 1 .. m : i - 1 \in 0 .. RingSize - 1
  BY Sizes
<1> QED
  BY <1>1, SlotAtPlain

(* The mapped queue is a sequence of the slots between r_ and w_. *)
LEMMA QueueType ==
    ASSUME TypeOK, CountersOrdered
    PROVE  /\ Dist(rd, wr) \in Nat /\ Dist(rd, wr) <= RingSize - 1
           /\ queueBar \in [1 .. Dist(rd, wr) -> Descriptors \cup {None}]
           /\ queueBar \in Seq(Descriptors \cup {None})
           /\ Len(queueBar) = Dist(rd, wr)
           /\ \A i \in 1 .. Dist(rd, wr) :
                 queueBar[i] = block[SlotAt(rd, i - 1)] /\ i - 1 \in 0 .. RingSize - 1
<1>1. rd \in Words /\ wr \in Words
  BY DEF TypeOK
<1>2. Dist(rd, wr) \in Nat /\ Dist(rd, wr) <= RingSize - 1
  BY <1>1, DistType DEF CountersOrdered
<1>3. \A i \in 1 .. Dist(rd, wr) : i - 1 \in 0 .. RingSize - 1
  BY <1>2, Sizes
<1>4. \A i \in 1 .. Dist(rd, wr) : SlotAt(rd, i - 1) \in Slots
  BY <1>1, <1>3, SlotAtPlain
<1>5. queueBar \in [1 .. Dist(rd, wr) -> Descriptors \cup {None}]
  BY <1>4 DEF queueBar, TypeOK
<1>6. \A i \in 1 .. Dist(rd, wr) : queueBar[i] = block[SlotAt(rd, i - 1)]
  BY DEF queueBar
<1> QED
  BY <1>2, <1>3, <1>5, <1>6, FunctionSeq

(* The initial ring maps to the empty queue. *)
LEMMA RefineInit == OneToOne /\ Init => BQ!Init
<1> SUFFICES ASSUME OneToOne, Init
             PROVE  BQ!Init
  OBVIOUS
<1>1. TheSender \in Senders /\ TheReceiver \in Receivers
  BY DEF OneToOne, TheSender, TheReceiver
<1>2. Dist(rd, wr) = 0 /\ Dist(rd, cursor[TheReceiver]) = 0
  BY <1>1 DEF Init, Dist
<1>3. queueBar = <<>>
  BY <1>2 DEF queueBar
<1> QED
  BY <1>1, <1>2, <1>3 DEF Init, BQ!Init, takenBar, pendingBar, gotBar

(* Every step of the ring is a step of the queue or leaves it unchanged:   *)
(* push is accepted at the addition to w_, the store before it is not seen *)
(* by the queue; out's answer releases the oldest place.                   *)
LEMMA RefineStep ==
    OneToOne /\ IInv /\ IInv' /\ [Next]_vars => [BQ!Next]_(BQ!vars)
<1> SUFFICES ASSUME OneToOne, IInv, IInv', [Next]_vars
             PROVE  [BQ!Next]_(BQ!vars)
  OBVIOUS
<1>1. TypeOK /\ CountersOrdered /\ StepsAgree /\ TypeOK' /\ CountersOrdered' /\ StepsAgree'
  BY DEF IInv
<1>2. PICK s : Senders = {s}
  BY DEF OneToOne
<1>3. PICK c : Receivers = {c}
  BY DEF OneToOne
<1>4. TheSender = s /\ TheReceiver = c
  BY <1>2, <1>3 DEF TheSender, TheReceiver
<1> DEFINE n == Dist(rd, wr)
           S == Descriptors \cup {None}
<1>5. rd \in Words /\ wr \in Words /\ cursor[c] \in Words
  BY <1>1, <1>3 DEF TypeOK
<1>6. /\ n \in Nat /\ n <= RingSize - 1
      /\ queueBar \in [1 .. n -> S] /\ queueBar \in Seq(S) /\ Len(queueBar) = n
      /\ \A i \in 1 .. n : queueBar[i] = block[SlotAt(rd, i - 1)] /\ i - 1 \in 0 .. RingSize - 1
  BY <1>1, QueueType
<1>7. /\ takenBar = Dist(rd, cursor[c]) /\ takenBar \in Nat /\ takenBar <= n
      /\ pendingBar = IF spc[s] = "idle" THEN None ELSE item[s]
      /\ gotBar = got[c]
      /\ spc[s] # "idle" => pendingBar \in Descriptors /\ pendingBar # None
  <2>1. Dist(rd, cursor[c]) \in Nat /\ Dist(rd, cursor[c]) <= n
    BY <1>1, <1>3, <1>5, DistType DEF CountersOrdered
  <2>2. spc[s] # "idle" => item[s] \in Descriptors
    BY <1>1, <1>2 DEF StepsAgree
  <2> QED
    BY <1>4, <2>1, <2>2, NoneAssumption DEF takenBar, pendingBar, gotBar
<1>8. /\ takenBar' = Dist(rd', cursor'[c])
      /\ pendingBar' = IF spc'[s] = "idle" THEN None ELSE item'[s]
      /\ gotBar' = got'[c]
  BY <1>4 DEF takenBar, pendingBar, gotBar
<1>9. ASSUME rd' = rd, wr' = wr, block' = block
      PROVE  queueBar' = queueBar
  BY <1>9 DEF queueBar
<1>10. ASSUME NEW d \in Descriptors, PushLoad(s, d)
       PROVE  BQ!Offer(d)
  <2>1. pendingBar = None /\ pendingBar' = d
    BY <1>1, <1>2, <1>7, <1>8, <1>10 DEF PushLoad, TypeOK
  <2> QED
    BY <1>7, <1>8, <1>9, <1>10, <2>1 DEF PushLoad, popVars, BQ!Offer
<1>11. ASSUME PushFull(s)
       PROVE  BQ!Refuse
  <2>1. n = RingSize - 1
    <3>1. Index(wr) = Index(Dec(rd))
      BY <1>1, <1>2, <1>11 DEF PushFull, Full, StepsAgree
    <3> QED
      BY <1>5, <1>6, <3>1, FullExact
  <2>2. pendingBar # None /\ pendingBar' = None
    BY <1>1, <1>2, <1>7, <1>8, <1>11 DEF PushFull, TypeOK
  <2> QED
    BY <1>6, <1>7, <1>8, <1>9, <1>11, <2>1, <2>2 DEF PushFull, popVars, BQ!Refuse
<1>12. ASSUME PushClaim(s)
       PROVE  UNCHANGED BQ!vars
  <2>1. pendingBar' = pendingBar
    BY <1>1, <1>2, <1>7, <1>8, <1>12 DEF PushClaim, TypeOK
  <2> QED
    BY <1>7, <1>8, <1>9, <1>12, <2>1 DEF PushClaim, popVars, BQ!vars
<1>13. ASSUME PushStore(s)
       PROVE  UNCHANGED BQ!vars
  <2>1. pendingBar' = pendingBar
    BY <1>1, <1>2, <1>7, <1>8, <1>13 DEF PushStore, TypeOK
  <2>2. cur_wt[s] = SlotAt(rd, n) /\ n \in 0 .. RingSize - 1
    <3>1. cur_wt[s] = Index(wr)
      BY <1>1, <1>2, <1>13 DEF PushStore, StepsAgree
    <3>2. SlotAt(rd, n) = Index(wr)
      BY <1>5, DistType
    <3> QED
      BY <1>6, <3>1, <3>2, Sizes
  <2>3. \A i \in 1 .. n : SlotAt(rd, i - 1) # cur_wt[s]
    BY <1>5, <1>6, <2>2, SlotsDistinct
  <2>4. \A i \in 1 .. n : block'[SlotAt(rd, i - 1)] = block[SlotAt(rd, i - 1)]
    BY <1>1, <1>5, <1>6, <1>13, <2>3, SlotAtPlain DEF PushStore, TypeOK
  <2>5. queueBar' = queueBar
    BY <1>13, <2>4 DEF PushStore, queueBar
  <2> QED
    BY <1>7, <1>8, <1>13, <2>1, <2>5 DEF PushStore, popVars, BQ!vars
<1>14. ASSUME PushPublish(s)
       PROVE  BQ!Accept
  <2>1. n < RingSize - 1 /\ block[Index(wr)] = item[s] /\ item[s] \in Descriptors
    BY <1>1, <1>2, <1>14 DEF PushPublish, StepsAgree
  <2>2. Dist(rd', wr') = n + 1
    BY <1>5, <1>6, <1>14, <2>1, DistIncRight, Sizes DEF PushPublish
  <2>3. /\ queueBar' \in [1 .. n + 1 -> S]
        /\ \A i \in 1 .. n + 1 : queueBar'[i] = block[SlotAt(rd, i - 1)]
    <3>1. queueBar' = [i \in 1 .. n + 1 |-> block[SlotAt(rd, i - 1)]]
      BY <1>14, <2>2 DEF PushPublish, queueBar
    <3>2. n + 1 \in Nat /\ n + 1 <= RingSize - 1 /\ block \in [Slots -> S]
      BY <1>1, <1>6, <2>1, Sizes DEF TypeOK
    <3> QED
      BY <1>5, <3>1, <3>2, SlotContents
  <2>4. \A i \in 1 .. n : queueBar'[i] = queueBar[i]
    BY <1>6, <2>3
  <2>5. queueBar'[n + 1] = item[s]
    <3>1. (n + 1) - 1 = n /\ n + 1 \in 1 .. n + 1
      BY <1>6
    <3>2. SlotAt(rd, n) = Index(wr)
      BY <1>5, DistType
    <3> QED
      BY <2>1, <2>3, <3>1, <3>2
  <2>6. queueBar' = Append(queueBar, item[s])
    <3> HIDE DEF n, S
    <3> QED
      BY <1>6, <2>3, <2>4, <2>5, AppendPlace
  <2>7. pendingBar = item[s] /\ pendingBar # None /\ pendingBar' = None
    BY <1>1, <1>2, <1>7, <1>8, <1>14 DEF PushPublish, TypeOK
  <2> QED
    BY <1>6, <1>7, <1>8, <1>14, <2>1, <2>6, <2>7 DEF PushPublish, popVars, BQ!Accept
<1>15. ASSUME PopReady(c)
       PROVE  UNCHANGED BQ!vars
  BY <1>7, <1>8, <1>9, <1>15 DEF PopReady, pushVars, BQ!vars
<1>16. ASSUME PopTake(c)
       PROVE  BQ!Take
  <2>1. takenBar < n
    BY <1>1, <1>3, <1>7, <1>16 DEF PopTake, StepsAgree
  <2>2. cursor'[c] = Inc(cursor[c]) /\ got'[c] = block[Index(cursor[c])]
    BY <1>1, <1>3, <1>16 DEF PopTake, TypeOK
  <2>3. takenBar' = takenBar + 1
    BY <1>5, <1>6, <1>7, <1>8, <1>16, <2>1, <2>2, DistIncRight, Sizes DEF PopTake
  <2>4. gotBar' = queueBar[takenBar + 1]
    <3>1. SlotAt(rd, takenBar) = Index(cursor[c])
      BY <1>5, <1>7, DistType
    <3>2. takenBar + 1 \in 1 .. n /\ (takenBar + 1) - 1 = takenBar
      BY <1>6, <1>7, <2>1
    <3> QED
      BY <1>6, <1>8, <2>2, <3>1, <3>2
  <2> QED
    BY <1>6, <1>7, <1>8, <1>9, <1>16, <2>1, <2>3, <2>4 DEF PopTake, pushVars, BQ!Take
<1>17. ASSUME NEW last \in BOOLEAN, PopOut(c, last), last
       PROVE  BQ!Release
  <2>1. takenBar >= 1
    BY <1>1, <1>3, <1>7, <1>17 DEF PopOut, StepsAgree
  <2>2. n >= 1 /\ Dist(rd', wr') = n - 1 /\ takenBar' = takenBar - 1
    BY <1>5, <1>6, <1>7, <1>8, <1>17, <2>1, DistIncLeft DEF PopOut
  <2>3. /\ queueBar' \in [1 .. n - 1 -> S]
        /\ \A i \in 1 .. n - 1 : queueBar'[i] = block[SlotAt(Inc(rd), i - 1)]
    <3>1. queueBar' = [i \in 1 .. n - 1 |-> block[SlotAt(Inc(rd), i - 1)]]
      BY <1>17, <2>2 DEF PopOut, queueBar
    <3>2. n - 1 \in Nat /\ n - 1 <= RingSize - 1 /\ block \in [Slots -> S]
      BY <1>1, <1>6, <2>2, Sizes DEF TypeOK
    <3>3. Inc(rd) \in Words
      BY <1>5, IncDec
    <3> HIDE DEF n, S
    <3>4. [i \in 1 .. n - 1 |-> block[SlotAt(Inc(rd), i - 1)]] \in [1 .. n - 1 -> S]
      BY <3>2, <3>3, SlotContents
    <3> QED
      BY <3>1, <3>4
  <2>4. \A i \in 1 .. n - 1 : queueBar'[i] = queueBar[i + 1]
    <3> SUFFICES ASSUME NEW i \in 1 .. n - 1
                 PROVE  queueBar'[i] = queueBar[i + 1]
      OBVIOUS
    <3>1. i - 1 \in 0 .. RingSize - 2 /\ (i - 1) + 1 = i /\ i + 1 \in 1 .. n /\ (i + 1) - 1 = i
      BY <1>6, Sizes
    <3>2. SlotAt(Inc(rd), i - 1) = SlotAt(rd, i)
      BY <1>5, <3>1, SlotAtInc
    <3>3. queueBar[i + 1] = block[SlotAt(rd, i)]
      BY <1>6, <3>1
    <3> QED
      BY <2>3, <3>2, <3>3
  <2>5. queueBar' = Tail(queueBar)
    <3> HIDE DEF n, S
    <3> QED
      BY <1>6, <2>2, <2>3, <2>4, TailPlace
  <2> QED
    BY <1>7, <1>8, <1>17, <2>1, <2>2, <2>5 DEF PopOut, pushVars, BQ!Release
<1>18. ASSUME NEW last \in BOOLEAN, PopOut(c, last), ~last
       PROVE  UNCHANGED BQ!vars
  BY <1>7, <1>8, <1>9, <1>18 DEF PopOut, pushVars, BQ!vars
<1>19. ASSUME Attach(c)
       PROVE  BQ!Rewind
  <2>1. takenBar' = 0
    BY <1>1, <1>3, <1>5, <1>8, <1>19, DistType DEF Attach, TypeOK
  <2> QED
    BY <1>7, <1>8, <1>9, <1>19, <2>1 DEF Attach, pushVars, BQ!Rewind
<1>20. ASSUME UNCHANGED vars
       PROVE  UNCHANGED BQ!vars
  BY <1>7, <1>8, <1>9, <1>20 DEF vars, pushVars, popVars, BQ!vars
<1>21. CASE \E d \in Descriptors : PushLoad(s, d)
  BY <1>10, <1>21 DEF BQ!Next
<1>22. CASE \E last \in BOOLEAN : PopOut(c, last)
  BY <1>17, <1>18, <1>22 DEF BQ!Next
<1>23. CASE PushFull(s) \/ PushClaim(s) \/ PushStore(s) \/ PushPublish(s)
  BY <1>11, <1>12, <1>13, <1>14, <1>23 DEF BQ!Next
<1>24. CASE PopReady(c) \/ PopTake(c) \/ Attach(c)
  BY <1>15, <1>16, <1>19, <1>24 DEF BQ!Next
<1> QED
  BY <1>2, <1>3, <1>20, <1>21, <1>22, <1>23, <1>24 DEF Next, Push, Pop

(* With one sender and one receiver the ring is a bounded FIFO queue of    *)
(* RingSize - 1 places: push is refused exactly when they are all taken,   *)
(* and pop returns what was pushed, in order, each descriptor once unless  *)
(* the reader connects again before its place is released.                 *)
THEOREM Refinement == ASSUME OneToOne PROVE Spec => RefinesQueue
<1>1. OneToOne
  OBVIOUS
<1>2. Spec => []IInv
  BY <1>1, Inductive
<1>3. Init => BQ!Init
  BY <1>1, RefineInit
<1>4. IInv /\ IInv' /\ [Next]_vars => [BQ!Next]_(BQ!vars)
  BY <1>1, RefineStep
<1> QED
  BY <1>2, <1>3, <1>4, PTL DEF Spec, RefinesQueue, BQ!Spec
=============================================================================
