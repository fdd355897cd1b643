--------------------------- MODULE FragmentProofs ---------------------------
(***************************************************************************)
(* Proofs about the calculations of Resource.tla for all their arguments,  *)
(* and about the memory of Fragment.tla for every alignment, size of the   *)
(* memory and of messages, and any threads, fragments, readers and deaths. *)
(***************************************************************************)
EXTENDS Fragment, FiniteSetTheorems, TLAPS

(* Dividing gives a quotient and a remainder below the divisor. *)
LEMMA Division ==
    ASSUME NEW n \in Nat, NEW a \in Nat \ {0}
    PROVE  /\ n \div a \in Nat
           /\ n = (n \div a) * a + (n % a)
           /\ n % a \in 0 .. a - 1
BY SMTT(30)

(* align_size gives a multiple of the alignment that is at least the size   *)
(* and exceeds it by less than the alignment.                               *)
THEOREM AlignSize ==
    ASSUME NEW n \in Nat, NEW a \in Nat \ {0}
    PROVE  /\ \E q \in Nat : align_size(n, a) = q * a
           /\ align_size(n, a) \in Nat
           /\ align_size(n, a) \in n .. n + a - 1
<1> DEFINE q == (n + a - 1) \div a
           p == q * a
           r == (n + a - 1) % a
<1>1. n + a - 1 \in Nat
  OBVIOUS
<1>2. q \in Nat /\ n + a - 1 = p + r /\ r \in 0 .. a - 1
  BY <1>1, Division
<1>3. align_size(n, a) = p
  BY DEF align_size
<1>4. p \in Nat
  BY <1>2
<1>5. p \in n .. n + a - 1
  <2> HIDE DEF q, p, r
  <2> QED
    BY <1>2, <1>4
<1> QED
  BY <1>2, <1>3, <1>4, <1>5

(* make_timespec gives a time that pthread_cond_timedwait accepts, with     *)
(* tv_nsec below a second, and that is exactly tm milliseconds from now.    *)
THEOREM Deadline ==
    ASSUME NEW sec \in Nat, NEW usec \in Nat, NEW tm \in Nat
    PROVE  LET ts == make_timespec([tv_sec |-> sec, tv_usec |-> usec], tm)
           IN  /\ ts.tv_nsec \in Nat /\ ts.tv_nsec < 1000000000
               /\ ts.tv_sec * 1000000000 + ts.tv_nsec
                    = sec * 1000000000 + usec * 1000 + tm * 1000000
<1> DEFINE td == tm \div 1000
           tr == tm % 1000
           nsec == (usec + tr * 1000) * 1000
           nd == nsec \div 1000000000
           nr == nsec % 1000000000
<1>1. td \in Nat /\ tr \in Nat /\ tm = td * 1000 + tr
  BY SMT
<1>2. nsec \in Nat
  <2> HIDE DEF td, tr
  <2> QED
    BY <1>1, SMT
<1>3. nd \in Nat /\ nr \in Nat /\ nr < 1000000000 /\ nsec = nd * 1000000000 + nr
  <2> HIDE DEF nsec
  <2>1. 1000000000 \in Nat \ {0}
    BY SMT
  <2> QED
    BY <1>2, <2>1, SMT
<1>4. (sec + td + nd) * 1000000000 + nr = sec * 1000000000 + usec * 1000 + tm * 1000000
  <2>1. (usec + tr * 1000) * 1000 = nd * 1000000000 + nr
    BY <1>3, SMT
  <2> HIDE DEF td, tr, nsec, nd, nr
  <2> QED
    BY <1>1, <1>3, <2>1, SMT
<1>5. make_timespec([tv_sec |-> sec, tv_usec |-> usec], tm)
        = [tv_sec |-> sec + td + nd, tv_nsec |-> nr]
  BY SMT DEF make_timespec
<1> HIDE DEF td, tr, nsec, nd, nr
<1> QED
  BY <1>3, <1>4, <1>5, SMT

-----------------------------------------------------------------------------
(* What leaves no remainder is a multiple. *)
LEMMA Multiple ==
    ASSUME NEW n \in Nat, NEW a \in Nat \ {0}, n % a = 0
    PROVE  \E k \in Nat : n = k * a
<1> DEFINE k == n \div a
<1>1. k \in Nat /\ n = k * a + 0
  BY Division
<1>2. k * a \in Int
  BY <1>1
<1>3. n = k * a
  <2> DEFINE p == k * a
  <2> HIDE DEF p
  <2> QED
    BY <1>1, <1>2 DEF p
<1> QED
  BY <1>1, <1>3

(* A multiple of a that is below k * a + a is at most k * a. *)
LEMMA NextMultiple ==
    ASSUME NEW q \in Nat, NEW k \in Nat, NEW a \in Nat \ {0}, q * a < k * a + a
    PROVE  q * a <= k * a
<1>1. CASE q <= k
  BY <1>1, SMTT(20)
<1>2. CASE q >= k + 1
  <2>1. q * a >= (k + 1) * a
    BY <1>2, SMTT(20)
  <2>2. (k + 1) * a = k * a + a
    BY SMTT(20)
  <2> QED
    BY <2>1, <2>2, SMTT(20)
<1> QED
  BY <1>1, <1>2

(* What the pool hands out ends before the word with the reference count,   *)
(* although the pool believes that the word is part of its buffer.          *)
LEMMA FitsBelow ==
    ASSUME NEW s \in Senders, NEW n \in Sizes, top \in [Senders -> Nat], Fits(s, n)
    PROVE  /\ Place(s) \in Nat /\ PoolSize(n) \in Nat
           /\ Place(s) + PoolSize(n) <= RefOffset
<1>1. /\ Align \in Nat \ {0} /\ n + CountBytes \in Nat /\ top[s] \in Nat
      /\ RefOffset \in Nat /\ RefBytes \in Nat /\ RefBytes < Align
  BY SizeAssumption
<1>2. PICK p \in Nat : Place(s) = p * Align
  BY <1>1, AlignSize DEF Place
<1>3. PICK q \in Nat : PoolSize(n) = q * Align
  BY <1>1, AlignSize DEF PoolSize
<1>4. PICK k \in Nat : RefOffset = k * Align
  BY <1>1, Multiple, SizeAssumption
<1>5. Place(s) \in Nat /\ PoolSize(n) \in Nat
  BY <1>1, AlignSize DEF Place, PoolSize
<1>6. Place(s) + PoolSize(n) = (p + q) * Align
  BY <1>1, <1>2, <1>3, SMTT(20)
<1>7. Place(s) + PoolSize(n) < k * Align + Align
  BY <1>1, <1>4, <1>5 DEF Fits
<1>8. (p + q) * Align <= k * Align
  BY <1>1, <1>6, <1>7, NextMultiple
<1> QED
  BY <1>4, <1>5, <1>6, <1>8

\* How much of a pool is used is a number: all that CountSafe needs besides.
IInv == top \in [Senders -> Nat] /\ CountSafe

(* A write keeps its message, and so all messages, below the word. *)
LEMMA WriteIInv ==
    ASSUME IInv, NEW s \in Senders, NEW n \in Sizes, NEW accepted \in BOOLEAN,
           Write(s, n, accepted)
    PROVE  IInv'
<1> DEFINE m == Cardinality(Written) + 1
           d == [id |-> s[1], offset |-> Place(s), length |-> PoolSize(n), size |-> n, owner |-> s]
<1>1. /\ Fits(s, n)
      /\ top' = [top EXCEPT ![s] = d.offset + d.length]
      /\ desc' = [x \in Written \cup {m} |-> IF x = m THEN d ELSE desc[x]]
  BY DEF Write
<1>2. /\ Place(s) \in Nat /\ PoolSize(n) \in Nat
      /\ Place(s) + PoolSize(n) <= RefOffset
  BY <1>1, FitsBelow DEF IInv
<1>3. top' \in [Senders -> Nat]
  BY <1>1, <1>2 DEF IInv
<1>4. ASSUME NEW x \in Written'
      PROVE  desc'[x].offset + desc'[x].length <= RefOffset
  <2> HIDE DEF m
  <2>1. x \in Written \cup {m}
    BY <1>1 DEF Written
  <2>2. CASE x = m
    BY <1>1, <1>2, <2>1, <2>2
  <2>3. CASE x # m
    BY <1>1, <2>1, <2>3 DEF IInv, CountSafe
  <2> QED
    BY <2>2, <2>3
<1> QED
  BY <1>3, <1>4 DEF IInv, CountSafe

(* No other step makes a message; one that starts or ends a pool sets what  *)
(* is used of it to 0.                                                      *)
LEMMA NextIInv == IInv /\ [Next]_vars => IInv'
<1> SUFFICES ASSUME IInv, [Next]_vars PROVE IInv'
  OBVIOUS
<1>1. ASSUME NEW s \in Senders, SenderInit(s) \/ SenderClose(s) \/ SenderDies(s)
      PROVE  IInv'
  <2>1. desc' = desc /\ top' = [top EXCEPT ![s] = 0]
    BY <1>1 DEF SenderInit, SenderClose, SenderDies, Gone
  <2> QED
    BY <2>1 DEF IInv, CountSafe, Written
<1>2. ASSUME NEW s \in Senders, NEW n \in Sizes, NEW accepted \in BOOLEAN, Write(s, n, accepted)
      PROVE  IInv'
  BY <1>2, WriteIInv
<1>3. ASSUME desc' = desc /\ top' = top
      PROVE  IInv'
  BY <1>3 DEF IInv, CountSafe, Written
<1>4. ASSUME NEW s \in Senders, NEW n \in Sizes, WriteThrows(s, n)
      PROVE  IInv'
  BY <1>3, <1>4 DEF WriteThrows
<1>5. ASSUME NEW r \in Receivers, ReadCountDown(r) \/ ReceiverReset(r)
      PROVE  IInv'
  BY <1>3, <1>5 DEF ReadCountDown, ReceiverReset, sendVars
<1>6. ASSUME NEW r \in Receivers, NEW m \in Written, ReadOpen(r, m) \/ ReadFails(r, m)
      PROVE  IInv'
  BY <1>3, <1>6 DEF ReadOpen, ReadFails, sendVars
<1>7. CASE UNCHANGED vars
  BY <1>3, <1>7 DEF vars, sendVars
<1> QED
  BY <1>1, <1>2, <1>4, <1>5, <1>6, <1>7 DEF Next

(* The reference count of the handles that lies behind the pool is never    *)
(* overwritten by a message, whatever the alignment, the size of the memory *)
(* and the sizes of the messages, even when write uses the pool to its end. *)
THEOREM CountKept == Spec => []CountSafe
<1>1. Init => IInv
  BY DEF Init, IInv, CountSafe, Written
<1>2. IInv /\ [Next]_vars => IInv'
  BY NextIInv
<1>3. IInv => CountSafe
  BY DEF IInv
<1> QED
  BY <1>1, <1>2, <1>3, PTL DEF Spec

-----------------------------------------------------------------------------
(* The messages in the memory. *)

\* Unread messages in memory that belongs to one pool since they were written.
Private == Unread \ exposed

\* The messages are numbered from 1 on.
Numbered == Written = 1 .. Cardinality(Written)

\* A fragment that is open has its memory under the name of its thread.
OpenNamed == \A s \in opened : s[1] \in named

\* What lies in the memory of a thread was written to it, and it has its name.
Placed ==
    \A t \in Threads : \A x \in heap[t] : x \in Written /\ desc[x].id = t /\ t \in named

\* A message fits into what its pool gave for it.
Extents ==
    \A m \in Written :
        /\ desc[m].owner[1] = desc[m].id
        /\ CountBytes + desc[m].size <= desc[m].length

\* Whole messages do not share bytes.
NoShare == \A t \in Threads : \A x, y \in heap[t] : x # y => ~Overlap(desc[x], desc[y])

\* The only fragment that may write where a private message lies is the one
\* that wrote it, and its pool has gone on since.
Sole ==
    \A m \in Private : \A s \in SendersOf(desc[m].id) :
        s = desc[m].owner /\ desc[m].offset + desc[m].length <= top[s]

\* No memory holds both private and exposed messages.
Distinct == \A m \in Private : \A x \in exposed : desc[x].id # desc[m].id

\* A reader gets a message once.
Once == \A r \in Receivers : reading[r] \notin inbox[r]

DataInv == TypeOK /\ Numbered /\ OpenNamed /\ Placed /\ Extents /\ NoShare /\ Once
MemInv  == DataInv /\ Sole /\ Distinct /\ Intact /\ Tracked

(* The readers of a message are finitely many. *)
LEMMA PendingFinite ==
    ASSUME NEW m
    PROVE  /\ IsFiniteSet(Pending(m)) /\ Cardinality(Pending(m)) \in Nat
           /\ Pending(m) # {} => Cardinality(Pending(m)) # 0
<1>1. Pending(m) \subseteq Receivers
  BY DEF Pending
<1>2. IsFiniteSet(Pending(m)) /\ Cardinality(Pending(m)) \in Nat
  BY <1>1, FS_Subset, FS_CardinalityType, SizeAssumption
<1> QED
  BY <1>2, FS_EmptySet

(* What a message in the table of descriptors is. *)
LEMMA DescTypes ==
    ASSUME TypeOK, Extents, NEW m \in Written
    PROVE  /\ desc[m].id \in Threads /\ desc[m].owner \in Senders
           /\ desc[m].offset \in Nat /\ desc[m].length \in Nat /\ desc[m].size \in Nat
           /\ CountBytes \in Nat \ {0}
           /\ End(desc[m]) \in Nat
           /\ desc[m].offset + CountBytes <= End(desc[m])
           /\ End(desc[m]) <= desc[m].offset + desc[m].length
<1>1. desc[m] \in Descriptors
  BY DEF TypeOK
<1>2. CountBytes \in Nat \ {0} /\ desc[m].size \in Nat
  BY <1>1, SizeAssumption DEF Descriptors
<1>3. CountBytes + desc[m].size <= desc[m].length
  BY DEF Extents
<1> QED
  BY <1>1, <1>2, <1>3 DEF Descriptors, End

(* Messages in the memory of a thread that start at one place are one.      *)
LEMMA OnePlace ==
    ASSUME DataInv, NEW t \in Threads, NEW x \in heap[t], NEW y \in heap[t],
           desc[x].offset = desc[y].offset
    PROVE  x = y
<1>1. x \in Written /\ y \in Written
  BY DEF DataInv, Placed
<1>2. Overlap(desc[x], desc[y])
  BY <1>1, DescTypes DEF DataInv, Overlap
<1> QED
  BY <1>2 DEF DataInv, NoShare

(* A private message of an open fragment is in its memory. *)
LEMMA PrivateHere ==
    ASSUME MemInv, NEW m \in Private, desc[m].owner \in opened
    PROVE  m \in heap[desc[m].id] /\ desc[m].id \in named
BY DEF MemInv, Intact, Private

(* recyle_memory() keeps the private messages of its fragment: their counts *)
(* are read where nothing else lies, and they are not 0.                    *)
LEMMA RecycleKeeps ==
    ASSUME MemInv, NEW s \in opened, NEW kept \in SUBSET map[s], recyle_memory(s, kept),
           NEW m \in Private, desc[m].owner = s
    PROVE  m \in kept
<1> DEFINE t == desc[m].id
<1>1. m \in Written /\ t \in Threads
  BY DescTypes DEF Private, Unread, MemInv, DataInv
<1>2. m \in heap[t]
  BY PrivateHere
<1>3. {x \in heap[t] : desc[x].offset = desc[m].offset} = {m}
  BY <1>1, <1>2, OnePlace DEF MemInv
<1>4. Loads(m) = {count[m]}
  BY <1>3 DEF Loads
<1>5. m \in map[s] /\ count[m] = Cardinality(Pending(m))
  BY DEF MemInv, Tracked, Private
<1>6. count[m] # 0
  BY <1>5, PendingFinite DEF Private, Unread
<1> QED
  BY <1>4, <1>5, <1>6 DEF recyle_memory

\* Nothing of a message changes: neither its bytes nor who has to read it.
SameMessages == UNCHANGED <<desc, count, inbox, reading>>

(* Then nothing changes in what the messages are.                           *)
LEMMA SameUnread ==
    ASSUME SameMessages
    PROVE  /\ Written' = Written /\ Unread' = Unread
           /\ \A m : Pending(m)' = Pending(m)
           /\ Numbered => Numbered'
           /\ Extents => Extents'
           /\ Once => Once'
<1>1. \A m : Pending(m)' = Pending(m)
  BY DEF SameMessages, Pending
<1>2. Written' = Written
  BY DEF SameMessages, Written
<1>3. Unread' = Unread
  BY <1>1, <1>2 DEF Unread
<1> QED
  BY <1>1, <1>2, <1>3 DEF SameMessages, Numbered, Extents, Once

(* A fragment opens: what readers have still to read is private no more.    *)
LEMMA SenderInitKeeps ==
    ASSUME MemInv, NEW s \in Senders, SenderInit(s)
    PROVE  MemInv'
<1>1. SameMessages
  BY DEF SenderInit, SameMessages, readVars
<1>2. /\ s[1] \in Threads /\ s \notin opened
      /\ opened' = opened \cup {s} /\ named' = named \cup {s[1]}
      /\ top' = [top EXCEPT ![s] = 0]
      /\ exposed' = exposed \cup {m \in Unread : desc[m].id = s[1]}
      /\ UNCHANGED <<heap, pinned, map, handles>>
  BY DEF SenderInit, readVars, Senders
<1>3. Written' = Written /\ Unread' = Unread /\ \A m : Pending(m)' = Pending(m)
  BY <1>1, SameUnread
<1>4. TypeOK'
  BY <1>1, <1>2, <1>3 DEF MemInv, DataInv, TypeOK, SameMessages
<1>5. Numbered' /\ Extents' /\ Once'
  BY <1>1, SameUnread DEF MemInv, DataInv
<1>6. OpenNamed'
  BY <1>2 DEF MemInv, DataInv, OpenNamed
<1>7. Placed'
  BY <1>1, <1>2, <1>3 DEF MemInv, DataInv, Placed, SameMessages
<1>8. NoShare'
  BY <1>1, <1>2 DEF MemInv, DataInv, NoShare, SameMessages
<1>9. \A m \in Private' : m \in Private /\ desc[m].id # s[1]
  BY <1>2, <1>3 DEF Private
<1>10. Sole'
  <2> SUFFICES ASSUME NEW m \in Private', NEW x \in SendersOf(desc[m].id)'
               PROVE  x = desc[m].owner /\ desc[m].offset + desc[m].length <= top'[x]
    BY <1>1 DEF Sole, SameMessages
  <2>1. m \in Private /\ x # s /\ x \in SendersOf(desc[m].id)
    BY <1>1, <1>2, <1>9 DEF SendersOf, SameMessages
  <2>2. top'[x] = top[x]
    BY <1>2, <2>1 DEF SendersOf, MemInv, DataInv, TypeOK
  <2> QED
    BY <2>1, <2>2 DEF MemInv, Sole
<1>11. Distinct'
  <2> SUFFICES ASSUME NEW m \in Private', NEW x \in exposed'
               PROVE  desc[x].id # desc[m].id
    BY <1>1 DEF Distinct, SameMessages
  <2>1. m \in Private /\ desc[m].id # s[1]
    BY <1>9
  <2>2. x \in exposed \/ desc[x].id = s[1]
    BY <1>2
  <2> QED
    BY <2>1, <2>2 DEF MemInv, Distinct
<1>12. Intact'
  <2> SUFFICES ASSUME NEW m \in Private'
               PROVE  LET t == desc[m].id
                      IN  \/ m \in heap[t] /\ t \in named'
                          \/ /\ desc[m].owner \notin opened'
                             /\ \A r \in Pending(m) : t \notin handles[r]
                             /\ t \notin named'
    BY <1>1, <1>2, <1>3 DEF Intact, Private, SameMessages
  <2>1. m \in Private /\ desc[m].id # s[1] /\ m \in Written
    BY <1>9 DEF Private, Unread
  <2>2. desc[m].owner # s
    BY <2>1 DEF MemInv, DataInv, Extents
  <2> QED
    BY <1>2, <2>1, <2>2 DEF MemInv, Intact, Private
<1>13. Tracked'
  <2> SUFFICES ASSUME NEW m \in Private', desc[m].owner \in opened'
               PROVE  m \in map[desc[m].owner] /\ count[m] = Cardinality(Pending(m))
    BY <1>1, <1>2, <1>3 DEF Tracked, Private, SameMessages
  <2>1. m \in Private /\ desc[m].id # s[1] /\ m \in Written
    BY <1>9 DEF Private, Unread
  <2>2. desc[m].owner # s
    BY <2>1 DEF MemInv, DataInv, Extents
  <2> QED
    BY <1>2, <2>1, <2>2 DEF MemInv, Tracked, Private
<1> QED
  BY <1>4, <1>5, <1>6, <1>7, <1>8, <1>10, <1>11, <1>12, <1>13 DEF MemInv, DataInv

(* A fragment is closed or its process dies, or a reader lets go: fewer are *)
(* open, and what memory goes has neither a sender nor a reader left.       *)
LEMMA FewerUsers ==
    ASSUME MemInv, SameMessages, TypeOK',
           opened' \subseteq opened, named' \subseteq named, exposed' = exposed,
           \A s \in opened' : top'[s] = top[s] /\ map'[s] = map[s],
           \A r \in Receivers : handles'[r] \subseteq handles[r],
           \A t \in named' : heap'[t] = heap[t],
           \A t \in Threads \ named' :
               /\ heap'[t] = {} /\ SendersOf(t)' = {}
               /\ t \in named => ReadersOf(t)' = {}
    PROVE  MemInv'
<1>1. Written' = Written /\ Unread' = Unread /\ \A m : Pending(m)' = Pending(m)
  BY SameUnread
<1>2. Private' = Private /\ desc' = desc /\ count' = count
  BY <1>1 DEF Private, SameMessages
<1>3. ASSUME NEW t \in Threads
      PROVE  heap'[t] \subseteq heap[t]
  BY <1>3
<1>4. ASSUME NEW m \in Written
      PROVE  desc[m].id \in Threads /\ desc[m].owner \in Senders /\ desc[m].owner[1] = desc[m].id
  BY <1>4, DescTypes DEF MemInv, DataInv, Extents
<1>5. Numbered' /\ Extents' /\ Once'
  BY SameUnread DEF MemInv, DataInv
<1>6. OpenNamed'
  <2> SUFFICES ASSUME NEW s \in opened' PROVE s[1] \in named'
    BY DEF OpenNamed
  <2>1. s[1] \in Threads
    BY DEF MemInv, DataInv, TypeOK, Senders
  <2>2. s \in SendersOf(s[1])'
    BY DEF SendersOf
  <2> QED
    BY <2>1, <2>2
<1>7. Placed'
  BY <1>1, <1>2, <1>3 DEF MemInv, DataInv, Placed
<1>8. NoShare'
  <2> SUFFICES ASSUME NEW t \in Threads, NEW x \in heap'[t], NEW y \in heap'[t], x # y
               PROVE  ~Overlap(desc[x], desc[y])
    BY <1>2 DEF NoShare
  <2> QED
    BY <1>3 DEF MemInv, DataInv, NoShare
<1>9. Sole'
  <2> SUFFICES ASSUME NEW m \in Private, NEW s \in SendersOf(desc[m].id)'
               PROVE  s = desc[m].owner /\ desc[m].offset + desc[m].length <= top'[s]
    BY <1>2 DEF Sole
  <2>1. s \in SendersOf(desc[m].id) /\ top'[s] = top[s]
    BY <1>2 DEF SendersOf
  <2> QED
    BY <2>1 DEF MemInv, Sole
<1>10. Distinct'
  BY <1>2 DEF MemInv, Distinct
<1>11. Intact'
  <2> SUFFICES ASSUME NEW m \in Private
               PROVE  LET t == desc[m].id
                      IN  \/ m \in heap'[t] /\ t \in named'
                          \/ /\ desc[m].owner \notin opened'
                             /\ \A r \in Pending(m) : t \notin handles'[r]
                             /\ t \notin named'
    BY <1>1, <1>2 DEF Intact, Private
  <2> DEFINE t == desc[m].id
  <2>1. m \in Written /\ t \in Threads /\ desc[m].owner[1] = t
    BY <1>4 DEF Private, Unread
  <2>2. \A r \in Pending(m) : r \in Receivers
    BY DEF Pending
  <2>3. CASE t \in named'
    BY <2>3 DEF MemInv, Intact, Private
  <2>4. CASE t \notin named'
    <3>1. desc[m].owner \notin opened'
      BY <2>1, <2>4 DEF SendersOf
    <3>2. CASE t \in named
      BY <2>1, <2>2, <2>4, <3>1, <3>2 DEF ReadersOf
    <3>3. CASE t \notin named
      <4>1. \A r \in Pending(m) : t \notin handles[r]
        BY <3>3 DEF MemInv, Intact, Private
      <4> QED
        BY <2>2, <2>4, <3>1, <4>1
    <3> QED
      BY <3>2, <3>3
  <2> QED
    BY <2>3, <2>4
<1>12. Tracked'
  BY <1>1, <1>2 DEF MemInv, Tracked, Private
<1> QED
  BY <1>5, <1>6, <1>7, <1>8, <1>9, <1>10, <1>11, <1>12 DEF MemInv, DataInv

(* What a fragment that goes leaves behind. *)
LEMMA GoneKeeps ==
    ASSUME TypeOK, NEW s \in opened, Gone(s)
    PROVE  /\ opened' = opened \ {s} /\ s \in Senders /\ s[1] \in Threads
           /\ top' \in [Senders -> Nat] /\ map' \in [Senders -> SUBSET Messages]
           /\ \A x \in opened' : top'[x] = top[x] /\ map'[x] = map[x]
BY DEF TypeOK, Gone, Senders

(* Types where the messages are the same. *)
LEMMA SameMessagesTypes ==
    ASSUME TypeOK, SameMessages, exposed' \subseteq Unread,
           named' \subseteq Threads, pinned' \subseteq named',
           heap' \in [Threads -> SUBSET Messages], opened' \subseteq Senders,
           top' \in [Senders -> Nat], map' \in [Senders -> SUBSET Messages],
           handles' \in [Receivers -> SUBSET named']
    PROVE  TypeOK'
<1>1. Written' = Written /\ Unread' = Unread
  BY SameUnread
<1> QED
  BY <1>1 DEF TypeOK, SameMessages

(* A sender fragment is destroyed, or its process dies. *)
LEMMA SenderGoneKeeps ==
    ASSUME MemInv, NEW s \in Senders, SenderClose(s) \/ SenderDies(s)
    PROVE  MemInv'
<1>1. /\ s \in opened /\ Gone(s) /\ SameMessages
      /\ handles' = handles /\ exposed' = exposed
  BY DEF SenderClose, SenderDies, SameMessages, readVars
<1>2. TypeOK /\ OpenNamed /\ Placed
  BY DEF MemInv, DataInv
<1>3. /\ opened' = opened \ {s} /\ s[1] \in Threads
      /\ top' \in [Senders -> Nat] /\ map' \in [Senders -> SUBSET Messages]
      /\ \A x \in opened' : top'[x] = top[x] /\ map'[x] = map[x]
  BY <1>1, <1>2, GoneKeeps
<1>4. CASE SenderDies(s)
  <2>1. named' = named /\ heap' = heap /\ pinned' = pinned \cup {s[1]}
    BY <1>4 DEF SenderDies
  <2>2. s[1] \in named
    BY <1>1, <1>2 DEF OpenNamed
  <2>3. TypeOK'
    BY <1>1, <1>2, <1>3, <2>1, <2>2, SameMessagesTypes DEF TypeOK
  <2>4. ASSUME NEW t \in Threads \ named'
        PROVE  SendersOf(t)' = {} /\ t \notin named /\ heap'[t] = {}
    BY <1>2, <1>3, <2>1 DEF SendersOf, OpenNamed, Placed
  <2> QED
    BY <1>1, <1>3, <2>1, <2>3, <2>4, FewerUsers
<1>5. CASE SenderClose(s)
  <2> DEFINE t == s[1]
             users == (SendersOf(t) \ {s}) \cup ReadersOf(t)
  <2>1. Released(t, users) /\ pinned' = pinned
    BY <1>5 DEF SenderClose
  <2>2. ASSUME NEW u \in Threads
        PROVE  /\ SendersOf(u)' = SendersOf(u) \ {s}
               /\ ReadersOf(u)' = ReadersOf(u)
    BY <1>1, <1>3 DEF SendersOf, ReadersOf
  <2>3. CASE users = {} /\ t \notin pinned
    <3>1. named' = named \ {t} /\ heap' = [heap EXCEPT ![t] = {}]
      BY <2>1, <2>3 DEF Released
    <3>2. \A r \in Receivers : t \notin handles[r]
      BY <2>3 DEF ReadersOf
    <3>3. handles' \in [Receivers -> SUBSET named'] /\ pinned' \subseteq named'
      BY <1>1, <1>2, <2>1, <2>3, <3>1, <3>2 DEF TypeOK
    <3>4. heap' \in [Threads -> SUBSET Messages]
      BY <1>2, <3>1 DEF TypeOK
    <3>5. TypeOK'
      BY <1>1, <1>2, <1>3, <3>1, <3>3, <3>4, SameMessagesTypes DEF TypeOK
    <3>6. ASSUME NEW u \in Threads \ named'
          PROVE  /\ heap'[u] = {} /\ SendersOf(u)' = {}
                 /\ u \in named => ReadersOf(u)' = {}
      <4>1. CASE u = t
        BY <1>2, <1>3, <2>2, <2>3, <3>1, <4>1 DEF TypeOK
      <4>2. CASE u # t
        <5>1. u \notin named /\ SendersOf(u) = {} /\ heap[u] = {}
          BY <1>2, <3>1, <4>2 DEF SendersOf, OpenNamed, Placed
        <5> QED
          BY <1>2, <2>2, <3>1, <4>2, <5>1 DEF TypeOK
      <4> QED
        BY <4>1, <4>2
    <3>7. \A u \in named' : heap'[u] = heap[u]
      BY <1>2, <3>1 DEF TypeOK
    <3> QED
      BY <1>1, <1>3, <3>1, <3>5, <3>6, <3>7, FewerUsers
  <2>4. CASE ~(users = {} /\ t \notin pinned)
    <3>1. named' = named /\ heap' = heap
      BY <2>1, <2>4 DEF Released
    <3>2. TypeOK'
      BY <1>1, <1>2, <1>3, <2>1, <3>1, SameMessagesTypes DEF TypeOK
    <3>3. ASSUME NEW u \in Threads \ named'
          PROVE  SendersOf(u)' = {} /\ u \notin named /\ heap'[u] = {}
      BY <1>2, <2>2, <3>1 DEF SendersOf, OpenNamed, Placed
    <3> QED
      BY <1>1, <1>3, <3>1, <3>2, <3>3, FewerUsers
  <2> QED
    BY <2>3, <2>4
<1> QED
  BY <1>4, <1>5

(* A reader lets go of what it has mapped. *)
LEMMA ReceiverResetKeeps ==
    ASSUME MemInv, NEW r \in Receivers, ReceiverReset(r)
    PROVE  MemInv'
<1> DEFINE gone == {t \in handles[r] \ pinned : SendersOf(t) = {} /\ ReadersOf(t) = {r}}
<1>1. /\ SameMessages /\ UNCHANGED <<pinned, opened, top, map, exposed>>
      /\ handles' = [handles EXCEPT ![r] = {}]
      /\ named' = named \ gone
      /\ heap' = [t \in Threads |-> IF t \in gone THEN {} ELSE heap[t]]
  BY DEF ReceiverReset, SameMessages, sendVars
<1>2. TypeOK /\ OpenNamed /\ Placed
  BY DEF MemInv, DataInv
<1>3. \A t \in gone : t \in named /\ t \notin pinned /\ SendersOf(t) = {} /\ ReadersOf(t) = {r}
  BY <1>2 DEF TypeOK
<1>4. \A x \in Receivers : handles'[x] = IF x = r THEN {} ELSE handles[x]
  BY <1>1, <1>2 DEF TypeOK
<1>5. \A t \in gone : ReadersOf(t)' = {}
  <2> HIDE DEF gone
  <2> QED
    BY <1>3, <1>4 DEF ReadersOf
<1> HIDE DEF gone
<1>6. ASSUME NEW x \in Receivers
      PROVE  handles'[x] \subseteq named'
  <2>1. \A t \in gone : t \notin handles'[x]
    BY <1>5 DEF ReadersOf
  <2> QED
    BY <1>1, <1>2, <1>4, <2>1 DEF TypeOK
<1>7. TypeOK'
  <2>1. handles' \in [Receivers -> SUBSET named']
    BY <1>1, <1>2, <1>6 DEF TypeOK
  <2>2. pinned' \subseteq named'
    BY <1>1, <1>2, <1>3 DEF TypeOK
  <2>3. heap' \in [Threads -> SUBSET Messages]
    BY <1>1, <1>2 DEF TypeOK
  <2> QED
    BY <1>1, <1>2, <2>1, <2>2, <2>3, SameMessagesTypes DEF TypeOK
<1>8. ASSUME NEW t \in Threads \ named'
      PROVE  /\ heap'[t] = {} /\ SendersOf(t)' = {}
             /\ t \in named => ReadersOf(t)' = {}
  <2>1. SendersOf(t)' = SendersOf(t)
    BY <1>1 DEF SendersOf
  <2>2. CASE t \in gone
    BY <1>1, <1>3, <1>5, <2>1, <2>2
  <2>3. CASE t \notin gone
    BY <1>1, <1>2, <2>1, <2>3 DEF SendersOf, OpenNamed, Placed
  <2> QED
    BY <2>2, <2>3
<1>9. \A t \in named' : heap'[t] = heap[t]
  BY <1>1, <1>2 DEF TypeOK
<1> QED
  BY <1>1, <1>4, <1>7, <1>8, <1>9, FewerUsers

(* A write that throws has recycled, and that is all. *)
LEMMA WriteThrowsKeeps ==
    ASSUME MemInv, NEW s \in Senders, NEW n \in Sizes, WriteThrows(s, n)
    PROVE  MemInv'
<1>1. PICK kept \in SUBSET map[s] : recyle_memory(s, kept) /\ map' = [map EXCEPT ![s] = kept]
  BY DEF WriteThrows
<1>2. /\ s \in opened
      /\ UNCHANGED <<named, heap, pinned, opened, top, handles, exposed>> /\ SameMessages
  BY DEF WriteThrows, memVars, readVars, SameMessages
<1>3. /\ Written' = Written /\ Unread' = Unread /\ (\A m : Pending(m)' = Pending(m))
      /\ Numbered' /\ Extents' /\ Once'
  BY <1>2, SameUnread DEF MemInv, DataInv
<1>4. Private' = Private
  BY <1>2, <1>3 DEF Private
<1>5. TypeOK'
  <2>1. map' \in [Senders -> SUBSET Messages]
    BY <1>1, <1>2 DEF MemInv, DataInv, TypeOK
  <2> QED
    BY <1>2, <2>1, SameMessagesTypes DEF MemInv, DataInv, TypeOK
<1>6. OpenNamed' /\ Placed' /\ NoShare' /\ Sole' /\ Distinct' /\ Intact'
  <2>1. OpenNamed' /\ Placed'
    BY <1>2, <1>3 DEF MemInv, DataInv, OpenNamed, Placed, SameMessages
  <2>2. NoShare'
    BY <1>2 DEF MemInv, DataInv, NoShare, SameMessages
  <2>3. Sole' /\ Distinct'
    BY <1>2, <1>4 DEF MemInv, Sole, Distinct, SendersOf, SameMessages
  <2>4. Intact'
    BY <1>2, <1>3 DEF MemInv, Intact, SameMessages
  <2> QED
    BY <2>1, <2>2, <2>3, <2>4
<1>7. Tracked'
  <2> SUFFICES ASSUME NEW m \in Private, desc[m].owner \in opened
               PROVE  m \in map'[desc[m].owner] /\ count[m] = Cardinality(Pending(m))
    BY <1>2, <1>3 DEF Tracked, Private, SameMessages
  <2>1. m \in map[desc[m].owner] /\ count[m] = Cardinality(Pending(m))
    BY DEF MemInv, Tracked, Private
  <2>2. CASE desc[m].owner = s
    <3>1. m \in kept
      BY <1>1, <1>2, <2>2, RecycleKeeps
    <3> QED
      BY <1>1, <2>1, <2>2, <3>1 DEF MemInv, DataInv, TypeOK
  <2>3. CASE desc[m].owner # s
    BY <1>1, <2>1, <2>3 DEF MemInv, DataInv, TypeOK
  <2> QED
    BY <2>2, <2>3
<1> QED
  BY <1>3, <1>5, <1>6, <1>7 DEF MemInv, DataInv

(* read() maps the memory of a message and is with it. *)
LEMMA ReadOpenKeeps ==
    ASSUME MemInv, NEW r \in Receivers, NEW m \in Written, ReadOpen(r, m)
    PROVE  MemInv'
<1> DEFINE t == desc[m].id
<1>1. /\ UNCHANGED <<named, heap, pinned, count, opened, top, map, desc, exposed>>
      /\ reading[r] = None /\ m \in inbox[r] /\ t \in handles[r] \cup named
      /\ inbox' = [inbox EXCEPT ![r] = @ \ {m}]
      /\ handles' = [handles EXCEPT ![r] = @ \cup {t}]
      /\ reading' = [reading EXCEPT ![r] = m]
  BY DEF ReadOpen, memVars, sendVars
<1>2. TypeOK
  BY DEF MemInv, DataInv
<1>3. t \in named /\ m # None /\ Written' = Written
  BY <1>1, <1>2 DEF TypeOK, None, Messages, Written
<1>4. ASSUME NEW x \in Written
      PROVE  Pending(x)' = Pending(x)
  <2>1. x # None
    BY <1>2 DEF TypeOK, None, Messages
  <2>2. ASSUME NEW q \in Receivers
        PROVE  (x \in inbox'[q] \/ reading'[q] = x) <=> (x \in inbox[q] \/ reading[q] = x)
    BY <1>1, <1>2, <2>1 DEF TypeOK
  <2> QED
    BY <2>2 DEF Pending
<1>5. Unread' = Unread /\ Private' = Private
  BY <1>1, <1>3, <1>4 DEF Unread, Private
<1>6. \A x \in Receivers : handles'[x] = IF x = r THEN handles[x] \cup {t} ELSE handles[x]
  BY <1>1, <1>2 DEF TypeOK
<1>7. TypeOK'
  <2>1. handles' \in [Receivers -> SUBSET named']
    BY <1>1, <1>2, <1>3 DEF TypeOK
  <2>2. inbox' \in [Receivers -> SUBSET Written'] /\ reading' \in [Receivers -> Written' \cup {None}]
    BY <1>1, <1>2, <1>3 DEF TypeOK
  <2> QED
    BY <1>1, <1>2, <1>3, <1>5, <2>1, <2>2 DEF TypeOK
<1>8. /\ Numbered' /\ OpenNamed' /\ Placed' /\ Extents' /\ NoShare'
      /\ Once'
  <2>1. Once'
    BY <1>1, <1>2 DEF MemInv, DataInv, Once, TypeOK
  <2> QED
    BY <1>1, <1>3, <2>1 DEF MemInv, DataInv, Numbered, OpenNamed, Placed, Extents, NoShare
<1>9. Sole' /\ Distinct'
  BY <1>1, <1>5 DEF MemInv, Sole, Distinct, SendersOf
<1>10. Intact'
  <2> SUFFICES ASSUME NEW x \in Private
               PROVE  LET u == desc[x].id
                      IN  \/ x \in heap[u] /\ u \in named
                          \/ /\ desc[x].owner \notin opened
                             /\ \A q \in Pending(x) : u \notin handles'[q]
                             /\ u \notin named
    BY <1>1, <1>4, <1>5 DEF Intact, Private, Unread
  <2>1. \A q \in Pending(x) : q \in Receivers
    BY DEF Pending
  <2> QED
    BY <1>3, <1>6, <2>1 DEF MemInv, Intact, Private
<1>11. Tracked'
  BY <1>1, <1>4, <1>5 DEF MemInv, Tracked, Private, Unread
<1> QED
  BY <1>7, <1>8, <1>9, <1>10, <1>11 DEF MemInv, DataInv

(* read() finds nothing of the name: the message is gone for this reader.   *)
LEMMA ReadFailsKeeps ==
    ASSUME MemInv, NEW r \in Receivers, NEW m \in Written, ReadFails(r, m)
    PROVE  MemInv'
<1> DEFINE t == desc[m].id
<1>1. /\ UNCHANGED <<named, heap, pinned, count, opened, top, map, desc, handles, reading>>
      /\ reading[r] = None /\ m \in inbox[r] /\ t \notin handles[r] \cup named
      /\ inbox' = [inbox EXCEPT ![r] = @ \ {m}]
      /\ exposed' = exposed \cap Unread'
  BY DEF ReadFails, memVars, sendVars
<1>2. TypeOK
  BY DEF MemInv, DataInv
<1>3. Written' = Written
  BY <1>1 DEF Written
<1>4. ASSUME NEW x
      PROVE  /\ Pending(x)' \subseteq Pending(x)
             /\ x # m => Pending(x)' = Pending(x)
  BY <1>1, <1>2 DEF TypeOK, Pending
<1>5. Unread' \subseteq Unread /\ Private' \subseteq Private
  BY <1>1, <1>3, <1>4 DEF Unread, Private
<1>6. TypeOK'
  <2>1. inbox' \in [Receivers -> SUBSET Written']
    BY <1>1, <1>2, <1>3 DEF TypeOK
  <2>2. exposed' \subseteq Unread'
    BY <1>1
  <2> QED
    BY <1>1, <1>2, <1>3, <2>1, <2>2 DEF TypeOK
<1>7. /\ Numbered' /\ OpenNamed' /\ Placed' /\ Extents' /\ NoShare'
      /\ Once'
  <2>1. Once'
    BY <1>1, <1>2 DEF MemInv, DataInv, Once, TypeOK
  <2> QED
    BY <1>1, <1>3, <2>1 DEF MemInv, DataInv, Numbered, OpenNamed, Placed, Extents, NoShare
<1>8. Sole' /\ Distinct'
  BY <1>1, <1>5 DEF MemInv, Sole, Distinct, SendersOf
<1>9. Intact'
  <2> SUFFICES ASSUME NEW x \in Private'
               PROVE  LET u == desc[x].id
                      IN  \/ x \in heap[u] /\ u \in named
                          \/ /\ desc[x].owner \notin opened
                             /\ \A q \in Pending(x)' : u \notin handles[q]
                             /\ u \notin named
    BY <1>1 DEF Intact, Private
  <2> QED
    BY <1>4, <1>5 DEF MemInv, Intact, Private
<1>10. Tracked'
  <2> SUFFICES ASSUME NEW x \in Private', desc[x].owner \in opened
               PROVE  x \in map[desc[x].owner] /\ count[x] = Cardinality(Pending(x)')
    BY <1>1 DEF Tracked, Private
  <2>1. x \in Private
    BY <1>5
  <2>2. x # m
    <3>1. desc[x].id \in named
      BY <2>1, PrivateHere
    <3> QED
      BY <1>1, <3>1
  <2> QED
    BY <1>4, <2>1, <2>2 DEF MemInv, Tracked, Private
<1> QED
  BY <1>6, <1>7, <1>8, <1>9, <1>10 DEF MemInv, DataInv

(* A reader counts a message down.  If a private message lies at or across  *)
(* that place, it is the one that was read.                                 *)
LEMMA ReadCountDownKeeps ==
    ASSUME MemInv, NEW r \in Receivers, ReadCountDown(r)
    PROVE  MemInv'
<1> DEFINE k == reading[r]
           t == desc[k].id
           here == {x \in heap[t] : desc[x].offset = desc[k].offset}
           hit  == {x \in heap[t] : /\ desc[x].offset < desc[k].offset + CountBytes
                                    /\ desc[k].offset < End(desc[x])}
           gone == hit \ here
<1>1. /\ UNCHANGED <<named, pinned, opened, top, map, desc, inbox, handles>>
      /\ k # None
      /\ reading' = [reading EXCEPT ![r] = None]
      /\ count' = [x \in Messages |-> IF x \in here THEN count[x] - 1 ELSE count[x]]
      /\ heap' = [heap EXCEPT ![t] = @ \ gone]
      /\ exposed' = exposed \cap Unread'
  BY DEF ReadCountDown, sendVars
<1>2. TypeOK /\ Extents /\ Once
  BY DEF MemInv, DataInv
<1>3. k \in Written /\ t \in Threads /\ k \in Unread
  BY <1>1, <1>2, DescTypes DEF TypeOK, Unread, Pending
<1>4. /\ Written' = Written /\ \A x \in Written : x # None
      /\ \A q \in Receivers : reading'[q] = IF q = r THEN None ELSE reading[q]
  BY <1>1, <1>2 DEF TypeOK, None, Messages, Written
<1>5. ASSUME NEW x \in Written
      PROVE  Pending(x)' = IF x = k THEN Pending(x) \ {r} ELSE Pending(x)
  <2>1. ASSUME NEW q \in Receivers, q # r
        PROVE  q \in Pending(x)' <=> q \in Pending(x)
    BY <1>1, <1>4, <2>1 DEF Pending
  <2>2. r \in Pending(x)' <=> x \in inbox[r]
    BY <1>1, <1>4 DEF Pending
  <2>3. r \in Pending(x) <=> x \in inbox[r] \/ x = k
    BY DEF Pending
  <2>4. k \notin inbox[r]
    BY <1>2 DEF Once
  <2>5. Pending(x)' \subseteq Receivers /\ Pending(x) \subseteq Receivers
    BY DEF Pending
  <2> QED
    BY <2>1, <2>2, <2>3, <2>4, <2>5
<1>6. Unread' \subseteq Unread /\ Private' \subseteq Private
  BY <1>1, <1>4, <1>5 DEF Unread, Private
<1>7. ASSUME NEW x \in Private, x \in heap[desc[x].id], desc[x].id = t
      PROVE  /\ k \in heap[t]
             /\ x \notin gone
             /\ x \in here <=> x = k
  <2>1. x \in Written
    BY DEF Private, Unread
  <2>2. k \in Private
    BY <1>3, <1>7 DEF MemInv, Distinct, Private
  <2>3. t \in named
    BY <1>3, <1>7 DEF MemInv, DataInv, Placed
  <2>4. k \in heap[t]
    BY <2>2, <2>3 DEF MemInv, Intact, Private
  <2>5. x \in here <=> x = k
    BY <1>3, <1>7, <2>4, OnePlace DEF MemInv
  <2>6. x \in hit => x = k
    <3> SUFFICES ASSUME x \in hit, x # k PROVE FALSE
      OBVIOUS
    <3>1. ~Overlap(desc[x], desc[k])
      BY <1>3, <1>7, <2>4 DEF MemInv, DataInv, NoShare
    <3>2. desc[k].offset + CountBytes <= End(desc[k]) /\ desc[x].offset \in Nat
          /\ desc[k].offset \in Nat /\ CountBytes \in Nat /\ End(desc[k]) \in Nat
      BY <1>2, <1>3, <2>1, DescTypes
    <3> QED
      BY <3>1, <3>2 DEF Overlap
  <2> QED
    BY <2>4, <2>5, <2>6
<1> HIDE DEF here, hit
<1>8. \A u \in Threads : heap'[u] = IF u = t THEN heap[u] \ gone ELSE heap[u]
  BY <1>1, <1>2, <1>3 DEF TypeOK
<1> HIDE DEF gone
<1>9. TypeOK'
  <2>1. heap' \in [Threads -> SUBSET Messages]
    BY <1>1, <1>2, <1>3 DEF TypeOK
  <2>2. count' \in [Messages -> Int]
    BY <1>1, <1>2 DEF TypeOK
  <2>3. reading' \in [Receivers -> Written' \cup {None}]
    BY <1>1, <1>2, <1>4 DEF TypeOK
  <2> QED
    BY <1>1, <1>2, <1>4, <2>1, <2>2, <2>3 DEF TypeOK
<1>10. Numbered' /\ OpenNamed' /\ Extents'
  BY <1>1, <1>4 DEF MemInv, DataInv, Numbered, OpenNamed, Extents
<1>11. Placed' /\ NoShare'
  BY <1>1, <1>4, <1>8 DEF MemInv, DataInv, Placed, NoShare
<1>12. Once'
  BY <1>1, <1>2, <1>4 DEF Once, TypeOK
<1>13. Sole' /\ Distinct'
  BY <1>1, <1>6 DEF MemInv, Sole, Distinct, SendersOf
<1>14. Intact'
  <2> SUFFICES ASSUME NEW x \in Private'
               PROVE  LET u == desc[x].id
                      IN  \/ x \in heap'[u] /\ u \in named
                          \/ /\ desc[x].owner \notin opened
                             /\ \A q \in Pending(x)' : u \notin handles[q]
                             /\ u \notin named
    BY <1>1 DEF Intact, Private
  <2>1. x \in Private /\ x \in Written /\ desc[x].id \in Threads
    BY <1>2, <1>6, DescTypes DEF Private, Unread
  <2>2. Pending(x)' \subseteq Pending(x)
    BY <1>5, <2>1
  <2> QED
    BY <1>7, <1>8, <2>1, <2>2 DEF MemInv, Intact, Private
<1>15. Tracked'
  <2> SUFFICES ASSUME NEW x \in Private', desc[x].owner \in opened
               PROVE  x \in map[desc[x].owner] /\ count'[x] = Cardinality(Pending(x)')
    BY <1>1 DEF Tracked, Private
  <2>1. x \in Private /\ x \in Written /\ x \in heap[desc[x].id] /\ x \in Messages
    BY <1>2, <1>6, PrivateHere DEF Private, Unread, TypeOK
  <2>2. x \in map[desc[x].owner] /\ count[x] = Cardinality(Pending(x))
    BY <2>1 DEF MemInv, Tracked, Private
  <2>3. CASE x = k
    <3>1. x \in here
      BY <1>7, <2>1, <2>3
    <3>2. count'[x] = count[x] - 1
      BY <1>1, <2>1, <3>1
    <3>3. Pending(x)' = Pending(x) \ {r} /\ r \in Pending(x)
      BY <1>5, <2>1, <2>3 DEF Pending
    <3>4. Cardinality(Pending(x) \ {r}) = Cardinality(Pending(x)) - 1
      BY <3>3, PendingFinite, FS_RemoveElement
    <3> QED
      BY <2>2, <3>2, <3>3, <3>4
  <2>4. CASE x # k
    <3>1. x \notin here
      <4>1. CASE desc[x].id = t
        BY <1>7, <2>1, <2>4, <4>1
      <4>2. CASE desc[x].id # t
        <5>1. x \notin heap[t]
          BY <1>3, <4>2 DEF MemInv, DataInv, Placed
        <5> QED
          BY <5>1 DEF here
      <4> QED
        BY <4>1, <4>2
    <3>2. count'[x] = count[x]
      BY <1>1, <2>1, <3>1
    <3> QED
      BY <1>5, <2>1, <2>2, <2>4, <3>2
  <2> QED
    BY <2>3, <2>4
<1> QED
  BY <1>9, <1>10, <1>11, <1>12, <1>13, <1>14, <1>15 DEF MemInv, DataInv

(* What the pool hands out is behind all that it handed out before, and has *)
(* room for the count and the message.                                      *)
LEMMA PlaceBehind ==
    ASSUME NEW s \in Senders, NEW n \in Sizes, top \in [Senders -> Nat]
    PROVE  /\ Place(s) \in Nat /\ PoolSize(n) \in Nat
           /\ top[s] <= Place(s) /\ CountBytes + n <= PoolSize(n)
<1>1. Align \in Nat \ {0} /\ n + CountBytes \in Nat /\ top[s] \in Nat /\ n \in Nat /\ CountBytes \in Nat
  BY SizeAssumption
<1>2. Place(s) \in Nat /\ top[s] <= Place(s)
  BY <1>1, AlignSize DEF Place
<1>3. PoolSize(n) \in Nat /\ n + CountBytes <= PoolSize(n)
  BY <1>1, AlignSize DEF PoolSize
<1> QED
  BY <1>1, <1>2, <1>3

(* A message is written.  It is private if the memory was its pool's alone; *)
(* if a private message is there already, then it was, and the new one lies *)
(* behind it.                                                               *)
LEMMA WriteKeeps ==
    ASSUME MemInv, NEW s \in Senders, NEW n \in Sizes, NEW accepted \in BOOLEAN,
           Write(s, n, accepted)
    PROVE  MemInv'
<1> DEFINE t == s[1]
<1>m. PICK m : m = Cardinality(Written) + 1
  OBVIOUS
<1>n. PICK d : d = [id |-> s[1], offset |-> Place(s), length |-> PoolSize(n), size |-> n, owner |-> s]
  OBVIOUS
<1>1. PICK kept \in SUBSET map[s] :
        recyle_memory(s, kept) /\ map' = [map EXCEPT ![s] = kept \cup {m}]
  BY <1>m DEF Write
<1>2. /\ s \in opened /\ m <= MaxMsgs
      /\ top' = [top EXCEPT ![s] = d.offset + d.length]
      /\ desc' = [x \in Written \cup {m} |-> IF x = m THEN d ELSE desc[x]]
      /\ heap' = [heap EXCEPT ![t] = {x \in @ : ~Overlap(desc[x], d)} \cup {m}]
      /\ count' = [count EXCEPT ![m] = Cardinality(Receivers)]
      /\ inbox' = [r \in Receivers |-> IF accepted THEN inbox[r] \cup {m} ELSE inbox[r]]
      /\ exposed' = exposed \cup (IF accepted /\ Contended(s) THEN {m} ELSE {})
      /\ UNCHANGED <<named, pinned, opened, handles, reading>>
  BY <1>m, <1>n DEF Write
<1>3. TypeOK /\ Extents /\ Once /\ Placed /\ OpenNamed
  BY DEF MemInv, DataInv
<1>4. /\ Written = 1 .. m - 1 /\ m \in 1 .. MaxMsgs /\ m \notin Written
      /\ \A x \in Written : x # m
  <2>1. Cardinality(Written) \in Nat
    <3>1. IsFiniteSet(1 .. MaxMsgs) /\ Written \subseteq 1 .. MaxMsgs
      BY <1>3, FS_Interval, SizeAssumption DEF TypeOK, Messages
    <3> QED
      BY <3>1, FS_Subset, FS_CardinalityType
  <2> QED
    BY <1>m, <1>2, <2>1, SizeAssumption DEF MemInv, DataInv, Numbered
<1>5. /\ t \in Threads /\ d \in Descriptors /\ top[s] \in Nat /\ top[s] <= d.offset
      /\ d.offset \in Nat /\ d.length \in Nat /\ d.offset + d.length \in Nat
      /\ CountBytes + d.size <= d.length
  BY <1>n, <1>3, PlaceBehind DEF Senders, Descriptors, TypeOK
<1>6. /\ Written' = Written \cup {m} /\ desc'[m] = d
      /\ \A x \in Written : desc'[x] = desc[x]
  BY <1>2, <1>4 DEF Written
<1>d. d.id = t /\ d.owner = s
  BY <1>n
<1>7. /\ Pending(m) = {}
      /\ Pending(m)' = IF accepted THEN Receivers ELSE {}
      /\ \A x \in Written : Pending(x)' = Pending(x)
  <2>1. \A r \in Receivers : inbox[r] \subseteq Written /\ reading[r] \in Written \cup {None}
    BY <1>3 DEF TypeOK
  <2>2. m # None
    BY <1>4, SizeAssumption DEF None
  <2>3. \A r \in Receivers : m \notin inbox[r] /\ reading[r] # m
    BY <1>4, <2>1, <2>2
  <2>4. \A r \in Receivers : m \in inbox'[r] <=> accepted
    BY <1>2, <2>3
  <2>5. \A x \in Written, r \in Receivers : x \in inbox'[r] <=> x \in inbox[r]
    BY <1>2, <1>4
  <2>6. Pending(m) = {}
    BY <2>3 DEF Pending
  <2>7. Pending(m)' = IF accepted THEN Receivers ELSE {}
    BY <1>2, <2>3, <2>4 DEF Pending
  <2>8. \A x \in Written : Pending(x)' = Pending(x)
    BY <1>2, <2>5 DEF Pending
  <2> QED
    BY <2>6, <2>7, <2>8
<1>8. Unread' = Unread \cup (IF accepted THEN {m} ELSE {})
  <2>1. Receivers # {}
    BY SizeAssumption
  <2> QED
    BY <1>4, <1>6, <1>7, <2>1 DEF Unread
<1>9. \A x \in Private' : \/ x \in Private /\ x \in Written /\ x # m
                          \/ x = m /\ accepted /\ ~Contended(s)
  BY <1>2, <1>4, <1>8 DEF Private, Unread
<1>10. ASSUME NEW x \in Private, desc[x].id = t
       PROVE  /\ SendersOf(t) = {s} /\ desc[x].owner = s
              /\ \A y \in exposed : desc[y].id # t
              /\ ~Overlap(desc[x], d)
  <2>1. s \in SendersOf(t)
    BY <1>2, <1>5 DEF SendersOf
  <2>2. /\ \A y \in SendersOf(t) : y = desc[x].owner
        /\ desc[x].offset + desc[x].length <= top[s]
    BY <1>10, <2>1 DEF MemInv, Sole
  <2>3. x \in Written
    BY DEF Private, Unread
  <2>4. End(desc[x]) <= d.offset
    BY <1>3, <1>5, <2>2, <2>3, DescTypes
  <2>5. ~Overlap(desc[x], d)
    BY <1>3, <1>5, <2>3, <2>4, DescTypes DEF Overlap
  <2> QED
    BY <1>10, <2>1, <2>2, <2>5 DEF MemInv, Distinct
<1>11. ~Contended(s) => SendersOf(t) = {s} /\ \A y \in exposed : desc[y].id # t
  BY DEF Contended
<1>12. ASSUME NEW x \in Private, desc[x].id = t
       PROVE  ~Contended(s)
  BY <1>10, <1>12 DEF Contended
<1>13. TypeOK'
  <2>1. m \in Messages
    BY <1>4 DEF Messages
  <2>2. Written' \subseteq Messages /\ desc' \in [Written' -> Descriptors]
    BY <1>2, <1>3, <1>5, <1>6, <2>1 DEF TypeOK
  <2>3. heap' \in [Threads -> SUBSET Messages] /\ map' \in [Senders -> SUBSET Messages]
    BY <1>1, <1>2, <1>3, <2>1 DEF TypeOK
  <2>4. top' \in [Senders -> Nat]
    BY <1>2, <1>3, <1>5 DEF TypeOK
  <2>5. count' \in [Messages -> Int]
    <3>1. Cardinality(Receivers) \in Int
      BY FS_CardinalityType, SizeAssumption
    <3> QED
      BY <1>2, <1>3, <3>1 DEF TypeOK
  <2>6. inbox' \in [Receivers -> SUBSET Written']
    BY <1>2, <1>3, <1>6 DEF TypeOK
  <2>7. exposed' \subseteq Unread'
    BY <1>2, <1>3, <1>8 DEF TypeOK
  <2> QED
    BY <1>2, <1>3, <1>6, <2>2, <2>3, <2>4, <2>5, <2>6, <2>7 DEF TypeOK
<1>14. Numbered'
  <2>1. Written' = 1 .. m
    BY <1>4, <1>6
  <2>2. Cardinality(1 .. m) = m
    BY <1>4, FS_Interval
  <2> QED
    BY <2>1, <2>2 DEF Numbered
<1>15. OpenNamed' /\ Extents' /\ Once'
  <2>1. OpenNamed'
    BY <1>2, <1>3 DEF OpenNamed
  <2>2. Extents'
    BY <1>3, <1>5, <1>6, <1>d DEF Extents
  <2>3. Once'
    <3>1. \A r \in Receivers : reading[r] # m
      BY <1>3, <1>4 DEF TypeOK, None
    <3> QED
      BY <1>2, <1>3, <3>1 DEF Once
  <2> QED
    BY <2>1, <2>2, <2>3
<1>16. /\ \A x \in heap'[t] : x = m \/ (x \in heap[t] /\ ~Overlap(desc[x], d))
       /\ \A u \in Threads : u # t => heap'[u] = heap[u]
       /\ m \in heap'[t]
       /\ \A x \in heap[t] : ~Overlap(desc[x], d) => x \in heap'[t]
  <2>1. heap'[t] = {x \in heap[t] : ~Overlap(desc[x], d)} \cup {m}
    BY <1>2, <1>3, <1>5 DEF TypeOK
  <2>2. \A u \in Threads : u # t => heap'[u] = heap[u]
    BY <1>2, <1>3, <1>5 DEF TypeOK
  <2> QED
    BY <2>1, <2>2
<1>17. Placed'
  <2>1. t \in named
    BY <1>2, <1>3 DEF OpenNamed
  <2>2. ASSUME NEW u \in Threads, NEW x \in heap'[u]
        PROVE  x \in Written' /\ desc'[x].id = u /\ u \in named
    <3>1. CASE x = m /\ u = t
      BY <1>6, <1>d, <2>1, <3>1
    <3>2. CASE ~(x = m /\ u = t)
      <4>1. x \in heap[u]
        BY <1>16, <2>2, <3>2
      <4>2. x \in Written /\ desc[x].id = u /\ u \in named
        BY <1>3, <4>1 DEF Placed
      <4> QED
        BY <1>6, <4>2
    <3> QED
      BY <3>1, <3>2
  <2> QED
    BY <1>2, <2>2 DEF Placed
<1>18. NoShare'
  <2> SUFFICES ASSUME NEW u \in Threads, NEW x \in heap'[u], NEW y \in heap'[u], x # y
               PROVE  ~Overlap(desc'[x], desc'[y])
    BY DEF NoShare, Overlap, End
  <2>1. CASE x = m
    <3>1. u = t
      BY <1>3, <1>4, <1>16, <2>1 DEF Placed
    <3>2. y \in heap[t] /\ ~Overlap(desc[y], d)
      BY <1>16, <2>1, <3>1
    <3>3. y \in Written
      BY <1>3, <1>5, <3>2 DEF Placed
    <3>4. desc'[x] = d /\ desc'[y] = desc[y]
      BY <1>6, <2>1, <3>3
    <3> QED
      BY <3>2, <3>4 DEF Overlap
  <2>2. CASE y = m
    <3>1. u = t
      BY <1>3, <1>4, <1>16, <2>2 DEF Placed
    <3>2. x \in heap[t] /\ ~Overlap(desc[x], d)
      BY <1>16, <2>2, <3>1
    <3>3. x \in Written
      BY <1>3, <1>5, <3>2 DEF Placed
    <3>4. desc'[y] = d /\ desc'[x] = desc[x]
      BY <1>6, <2>2, <3>3
    <3> QED
      BY <3>2, <3>4 DEF Overlap
  <2>3. CASE x # m /\ y # m
    <3>1. x \in heap[u] /\ y \in heap[u]
      BY <1>16, <2>3
    <3>2. x \in Written /\ y \in Written
      BY <1>3, <3>1 DEF Placed
    <3>3. desc'[x] = desc[x] /\ desc'[y] = desc[y]
      BY <1>6, <3>2
    <3> QED
      BY <3>1, <3>3 DEF MemInv, DataInv, NoShare
  <2> QED
    BY <2>1, <2>2, <2>3
<1>19. Sole'
  <2> SUFFICES ASSUME NEW x \in Private', NEW y \in SendersOf(desc[x].id)'
               PROVE  y = desc'[x].owner /\ desc'[x].offset + desc'[x].length <= top'[y]
    BY DEF Sole
  <2>1. y \in opened /\ y[1] = desc'[x].id /\ y \in Senders
    BY <1>2, <1>3 DEF SendersOf, TypeOK
  <2>2. CASE x = m
    <3>1. desc'[x] = d
      BY <1>6, <2>2
    <3>2. ~Contended(s)
      BY <1>4, <1>9, <2>2
    <3>3. y = s
      BY <1>11, <1>d, <2>1, <3>1, <3>2 DEF SendersOf
    <3>4. top'[s] = d.offset + d.length
      BY <1>2, <1>3 DEF TypeOK
    <3> QED
      BY <1>5, <1>d, <3>1, <3>3, <3>4
  <2>3. CASE x # m
    <3>1. x \in Private /\ desc'[x] = desc[x] /\ x \in Written
      BY <1>6, <1>9, <2>3
    <3>2. y = desc[x].owner /\ desc[x].offset + desc[x].length <= top[y]
      BY <2>1, <3>1 DEF MemInv, Sole, SendersOf
    <3>3. top'[y] = IF y = s THEN d.offset + d.length ELSE top[y]
      BY <1>2, <1>3, <2>1 DEF TypeOK
    <3>4. top[y] \in Nat /\ desc[x].offset \in Nat /\ desc[x].length \in Nat
      BY <1>3, <2>1, <3>1, DescTypes DEF TypeOK
    <3> QED
      BY <1>5, <3>1, <3>2, <3>3, <3>4
  <2> QED
    BY <2>2, <2>3
<1>20. Distinct'
  <2> SUFFICES ASSUME NEW x \in Private', NEW y \in exposed'
               PROVE  desc'[y].id # desc'[x].id
    BY DEF Distinct
  <2>1. exposed \subseteq Written
    BY <1>3 DEF TypeOK, Unread
  <2>2. y \in exposed \/ (y = m /\ Contended(s))
    BY <1>2
  <2>3. CASE x = m
    <3>1. y \in exposed /\ desc[y].id # t
      BY <1>4, <1>9, <1>11, <2>2, <2>3
    <3> QED
      BY <1>6, <1>d, <2>1, <2>3, <3>1
  <2>4. CASE x # m
    <3>1. x \in Private /\ desc'[x] = desc[x]
      BY <1>6, <1>9, <2>4
    <3>2. CASE y \in exposed
      BY <1>6, <2>1, <3>1, <3>2 DEF MemInv, Distinct
    <3>3. CASE y = m /\ Contended(s)
      BY <1>6, <1>12, <1>d, <3>1, <3>3
    <3> QED
      BY <2>2, <3>2, <3>3
  <2> QED
    BY <2>3, <2>4
<1>21. Intact'
  <2> SUFFICES ASSUME NEW x \in Private'
               PROVE  LET u == desc'[x].id
                      IN  \/ x \in heap'[u] /\ u \in named
                          \/ /\ desc'[x].owner \notin opened
                             /\ \A r \in Pending(x)' : u \notin handles[r]
                             /\ u \notin named
    BY <1>2 DEF Intact, Private
  <2>1. CASE x = m
    <3>1. desc'[x].id = t
      BY <1>6, <1>d, <2>1
    <3>2. t \in named
      BY <1>2, <1>3 DEF OpenNamed
    <3> QED
      BY <1>16, <2>1, <3>1, <3>2
  <2>2. CASE x # m
    <3>1. x \in Private /\ x \in Written /\ desc'[x] = desc[x]
      BY <1>6, <1>9, <2>2
    <3>2. Pending(x)' = Pending(x) /\ desc[x].id \in Threads
      BY <1>3, <1>7, <3>1, DescTypes
    <3>3. x \in heap[desc[x].id] => x \in heap'[desc[x].id]
      BY <1>10, <1>16, <3>1, <3>2
    <3> QED
      BY <3>1, <3>2, <3>3 DEF MemInv, Intact, Private
  <2> QED
    BY <2>1, <2>2
<1>22. Tracked'
  <2> SUFFICES ASSUME NEW x \in Private', desc'[x].owner \in opened
               PROVE  /\ x \in map'[desc'[x].owner]
                      /\ count'[x] = Cardinality(Pending(x)')
    BY <1>2 DEF Tracked, Private
  <2>1. map'[s] = kept \cup {m} /\ \A y \in Senders : y # s => map'[y] = map[y]
    BY <1>1, <1>3 DEF TypeOK
  <2>2. CASE x = m
    <3>1. accepted /\ desc'[x].owner = s
      BY <1>4, <1>6, <1>9, <1>d, <2>2
    <3>2. count'[m] = Cardinality(Receivers)
      BY <1>2, <1>3, <1>4 DEF TypeOK, Messages
    <3> QED
      BY <1>7, <2>1, <2>2, <3>1, <3>2
  <2>3. CASE x # m
    <3>1. x \in Private /\ x \in Written /\ desc'[x] = desc[x]
      BY <1>6, <1>9, <2>3
    <3>2. x \in map[desc[x].owner] /\ count[x] = Cardinality(Pending(x))
      BY <3>1 DEF MemInv, Tracked, Private
    <3>3. count'[x] = count[x] /\ Pending(x)' = Pending(x)
      BY <1>2, <1>3, <1>7, <2>3, <3>1 DEF TypeOK
    <3>4. desc[x].owner = s => x \in kept
      BY <1>1, <1>2, <3>1, RecycleKeeps
    <3>5. desc[x].owner \in Senders
      BY <1>3, <3>1, DescTypes
    <3> QED
      BY <2>1, <3>1, <3>2, <3>3, <3>4, <3>5
  <2> QED
    BY <2>2, <2>3
<1> QED
  BY <1>13, <1>14, <1>15, <1>17, <1>18, <1>19, <1>20, <1>21, <1>22 DEF MemInv, DataInv

(* At the start nothing is written. *)
LEMMA InitMemInv == Init => MemInv
<1> SUFFICES ASSUME Init PROVE MemInv
  OBVIOUS
<1>1. Written = {} /\ Unread = {} /\ Private = {}
  BY DEF Init, Written, Unread, Private
<1>2. TypeOK
  BY <1>1 DEF Init, TypeOK
<1>3. Numbered
  <2>1. Cardinality({}) = 0
    BY FS_EmptySet
  <2> QED
    BY <1>1, <2>1 DEF Numbered
<1>4. OpenNamed /\ Placed /\ Extents /\ NoShare /\ Once
  BY <1>1 DEF Init, OpenNamed, Placed, Extents, NoShare, Once
<1>5. Sole /\ Distinct /\ Intact /\ Tracked
  BY <1>1 DEF Sole, Distinct, Intact, Tracked, Private
<1> QED
  BY <1>2, <1>3, <1>4, <1>5 DEF MemInv, DataInv

(* Every step keeps the invariant of the memory. *)
LEMMA NextMemInv == MemInv /\ [Next]_vars => MemInv'
<1> SUFFICES ASSUME MemInv, [Next]_vars PROVE MemInv'
  OBVIOUS
<1>1. ASSUME NEW s \in Senders, SenderInit(s) \/ SenderClose(s) \/ SenderDies(s)
      PROVE  MemInv'
  BY <1>1, SenderInitKeeps, SenderGoneKeeps
<1>2. ASSUME NEW s \in Senders, NEW n \in Sizes,
             WriteThrows(s, n) \/ \E accepted \in BOOLEAN : Write(s, n, accepted)
      PROVE  MemInv'
  BY <1>2, WriteKeeps, WriteThrowsKeeps
<1>3. ASSUME NEW r \in Receivers,
             \/ ReadCountDown(r) \/ ReceiverReset(r)
             \/ \E m \in Written : ReadOpen(r, m) \/ ReadFails(r, m)
      PROVE  MemInv'
  BY <1>3, ReadOpenKeeps, ReadFailsKeeps, ReadCountDownKeeps, ReceiverResetKeeps
<1>4. CASE UNCHANGED vars
  <2>1. SameMessages /\ UNCHANGED <<named, heap, pinned, opened, top, map, handles, exposed>>
    BY <1>4 DEF vars, memVars, sendVars, readVars, SameMessages
  <2>2. TypeOK /\ OpenNamed /\ Placed
    BY DEF MemInv, DataInv
  <2>3. TypeOK'
    BY <2>1, <2>2, SameMessagesTypes DEF TypeOK
  <2>4. ASSUME NEW t \in Threads \ named'
        PROVE  heap'[t] = {} /\ SendersOf(t)' = {} /\ t \notin named
    BY <2>1, <2>2 DEF SendersOf, OpenNamed, Placed
  <2> QED
    BY <2>1, <2>3, <2>4, FewerUsers
<1> QED
  BY <1>1, <1>2, <1>3, <1>4 DEF Next

(* The invariant of the memory holds throughout. *)
THEOREM MemoryInv == Spec => []MemInv
BY InitMemInv, NextMemInv, PTL DEF Spec

(* Names, pools, descriptors, counts and mappings keep their types. *)
THEOREM TypeCorrect == Spec => []TypeOK
<1>1. MemInv => TypeOK
  BY DEF MemInv, DataInv
<1> QED
  BY <1>1, MemoryInv, PTL

(* A message keeps its bytes until its last reader has counted it down,     *)
(* whatever fragments open, close or die beside it, unless a fragment of    *)
(* the same thread has put another pool over the memory; the memory goes    *)
(* only when its fragment was destroyed before its readers mapped it.       *)
THEOREM KeepsMessages == Spec => []Intact
<1>1. MemInv => Intact
  BY DEF MemInv
<1> QED
  BY <1>1, MemoryInv, PTL

(* recyle_memory() never forgets such a message while a reader has still to *)
(* read it, and its count is exactly the number of these readers.           *)
THEOREM RemembersMessages == Spec => []Tracked
<1>1. MemInv => Tracked
  BY DEF MemInv
<1> QED
  BY <1>1, MemoryInv, PTL
=============================================================================
