-------------------------- MODULE ConnectionProofs --------------------------
(***************************************************************************)
(* Proofs about the table of a channel (Connection.tla) for every number   *)
(* of bits and of queues, as long as fewer senders than there are bits for *)
(* them have connected in the lifetime of the table.                       *)
(***************************************************************************)
EXTENDS Connection, FiniteSetTheorems, TLAPS

FewJoins == ~Broadcast /\ MaxJoins <= MaxCnt - 2

\* Senders take the lowest bits: one more connect, one more bit at most.
LowBits == \A b \in cc : b = MaxCnt - 1 \/ b < joins

\* Identifiers by role.
IdsByRole ==
    \A p \in Ports : connected_id[p] # 0 =>
        IF role[p] = RECEIVER THEN connected_id[p] = MaxCnt ELSE connected_id[p] \in 1 .. joins

\* The receiver's bit is handed out once and never cleared.
ReceiverBit ==
    /\ \A p \in Ports : connected_id[p] = MaxCnt => MaxCnt - 1 \in cc
    /\ \A p, q \in Ports : connected_id[p] = MaxCnt /\ connected_id[q] = MaxCnt => p = q

\* The first sender's bit is cleared only by a receiver, whose bit stays.
SomeBit == (\E p \in Ports : connected_id[p] # 0) => 0 \in cc \/ MaxCnt - 1 \in cc

IInv == ConnTypeOK /\ LowBits /\ IdsByRole /\ ReceiverBit /\ SomeBit

-----------------------------------------------------------------------------
(* The least element of a set of numbers is one of its elements. *)
LEMMA LeastNat ==
    ASSUME NEW S \in SUBSET Nat, S # {}
    PROVE  /\ Min(S) \in S
           /\ \A y \in S : Min(S) <= y
<1> DEFINE Below(x) == S \cap (0 .. x)
           T == {Below(x) : x \in S}
<1>1. T \subseteq FiniteSubsetsOf(Nat)
  <2>1. ASSUME NEW x \in S
        PROVE  IsFiniteSet(Below(x)) /\ Below(x) \subseteq Nat
    <3>1. IsFiniteSet(0 .. x)
      BY FS_Interval
    <3> QED
      BY <3>1, FS_Subset
  <2> QED
    BY <2>1 DEF FiniteSubsetsOf
<1>2. T # {}
  OBVIOUS
<1>3. PICK A \in T : \A B \in T : ~(<<B, A>> \in StrictSubsetOrdering(Nat))
  <2>1. IsWellFoundedOn(StrictSubsetOrdering(Nat), FiniteSubsetsOf(Nat))
    BY FS_StrictSubsetOrderingWellFounded
  <2> HIDE DEF T
  <2> QED
    BY <1>1, <1>2, <2>1, WFMin
<1>4. PICK x \in S : A = Below(x)
  OBVIOUS
<1>5. ASSUME NEW y \in S, y < x
      PROVE  FALSE
  <2>1. Below(y) \subseteq Below(x) /\ x \in Below(x) /\ x \notin Below(y)
    BY <1>5
  <2>2. <<Below(y), A>> \in StrictSubsetOrdering(Nat)
    BY <1>4, <2>1 DEF StrictSubsetOrdering
  <2> QED
    BY <1>3, <2>2
<1>6. \A y \in S : x <= y
  BY <1>5
<1> QED
  BY <1>6 DEF Min

(* Bits of subscripts in range, and of the receiver's identifier. *)
LEMMA BitInRange ==
    /\ \A i \in 0 .. MaxCnt - 1 : Bit(i) = i
    /\ Bit(MaxCnt) = 0
<1>1. ASSUME NEW n \in Nat \ {0}
      PROVE  (\A i \in 0 .. n - 1 : i % n = i) /\ n % n = 0
  BY SMTT(20)
<1> QED
  BY <1>1, CountAssumption DEF Bit

(* A sender's connect finds the first bit that is 0, which is at most the   *)
(* number of senders that connected before.                                 *)
LEMMA SenderId ==
    ASSUME FewJoins, IInv, joins < MaxJoins
    PROVE  /\ NewId(SENDER) \in 1 .. joins + 1
           /\ 0 \notin cc => NewId(SENDER) = 1
<1> DEFINE free == {i \in 1 .. MaxCnt - 1 : Bit(i - 1) \notin cc}
<1>1. /\ MaxCnt \in Nat /\ MaxCnt >= 4 /\ joins \in Nat /\ joins + 1 <= MaxCnt - 2
  BY CountAssumption, JoinsAssumption DEF FewJoins, IInv, ConnTypeOK
<1>2. joins + 1 \in free
  <2>1. joins \notin cc
    BY <1>1 DEF IInv, LowBits
  <2> QED
    BY <1>1, <2>1, BitInRange
<1>3. 0 \notin cc => 1 \in free
  BY <1>1, BitInRange
<1>4. Min(free) \in free /\ \A y \in free : Min(free) <= y
  <2>1. free \in SUBSET Nat /\ free # {}
    BY <1>2
  <2> HIDE DEF free
  <2> QED
    BY <2>1, LeastNat
<1>5. NewId(SENDER) = Min(free)
  <2>1. FirstFree(1, MaxCnt) = Min(free)
    BY <1>2 DEF FirstFree
  <2> HIDE DEF free
  <2> QED
    BY <2>1 DEF NewId, UnicastId, FewJoins, SENDER, RECEIVER
<1> QED
  BY <1>1, <1>2, <1>3, <1>4, <1>5

(* connect finds an identifier in range, or 0, in either kind of table. *)
LEMMA IdInRange ==
    ASSUME NEW m
    PROVE  NewId(m) \in 0 .. MaxCnt /\ BitsTaken(m, NewId(m)) \subseteq Bits
<1>1. MaxCnt \in Nat /\ MaxCnt >= 4 /\ MaxCnt \div 2 \in 0 .. MaxCnt
  BY CountAssumption, SMTT(20)
<1>2. ASSUME NEW lo \in Nat, NEW hi \in 0 .. MaxCnt
      PROVE  FirstFree(lo, hi) \in 0 .. MaxCnt
  <2> DEFINE free == {i \in lo .. hi - 1 : Bit(i - 1) \notin cc}
  <2>1. free \in SUBSET Nat /\ \A i \in free : i \in 0 .. MaxCnt
    BY <1>1
  <2>2. FirstFree(lo, hi) = IF free = {} THEN 0 ELSE Min(free)
    BY DEF FirstFree
  <2> HIDE DEF free
  <2>3. CASE free = {}
    <3>1. FirstFree(lo, hi) = 0
      BY <2>2, <2>3
    <3> QED
      BY <1>1, <3>1
  <2>4. CASE free # {}
    <3>1. Min(free) \in free
      BY <2>1, <2>4, LeastNat
    <3>2. FirstFree(lo, hi) \in free
      BY <2>2, <2>4, <3>1
    <3> QED
      BY <2>1, <3>2
  <2> QED
    BY <2>3, <2>4
<1>3. NewId(m) \in 0 .. MaxCnt
  BY <1>1, <1>2 DEF NewId, UnicastId, BroadcastId
<1>4. Bit(MaxCnt - 1) \in Bits
  BY <1>1, BitInRange DEF Bits
<1>5. ASSUME NEW id \in 0 .. MaxCnt
      PROVE  BitsTaken(m, id) \subseteq Bits
  BY <1>1, <1>4 DEF BitsTaken, Bits
<1> QED
  BY <1>3, <1>5

(* Every operation of the table keeps the types, for any number of joins. *)
LEMMA StepTypes ==
    ASSUME ConnTypeOK, NEW p \in Ports,
           (\E m \in {SENDER, RECEIVER} : Connect(p, m)) \/ Disconnect(p)
    PROVE  ConnTypeOK'
<1>1. ASSUME NEW m \in {SENDER, RECEIVER}, Connect(p, m)
      PROVE  ConnTypeOK'
  <2> DEFINE id == NewId(m)
  <2>1. id \in 0 .. MaxCnt /\ BitsTaken(m, id) \subseteq Bits
    BY IdInRange
  <2>2. /\ connected_id' = [connected_id EXCEPT ![p] = id]
        /\ cc' = cc \cup BitsTaken(m, id)
        /\ role' = [role EXCEPT ![p] = m]
    BY <1>1 DEF Connect
  <2>3. joins' \in 0 .. MaxJoins
    BY <1>1, JoinsAssumption DEF Connect, ConnTypeOK
  <2> HIDE DEF id
  <2>4. cc' \subseteq Bits /\ connected_id' \in [Ports -> 0 .. MaxCnt]
    BY <2>1, <2>2 DEF ConnTypeOK
  <2>5. role' \in [Ports -> {0, SENDER, RECEIVER}]
    BY <2>2 DEF ConnTypeOK
  <2> QED
    BY <2>3, <2>4, <2>5 DEF ConnTypeOK
<1>2. ASSUME Disconnect(p)
      PROVE  ConnTypeOK'
  <2>1. 0 \in 0 .. MaxCnt
    BY CountAssumption
  <2> QED
    BY <1>2, <2>1 DEF Disconnect, ConnTypeOK
<1> QED
  BY <1>1, <1>2

(* The table and the identifiers keep their types in channels and routes.   *)
THEOREM TypeCorrect == ConnSpec => []ConnTypeOK
<1>1. ConnInit => ConnTypeOK
  BY CountAssumption, JoinsAssumption DEF ConnInit, ConnTypeOK
<1>2. ConnTypeOK /\ [ConnNext]_connVars => ConnTypeOK'
  BY StepTypes DEF ConnNext, connVars, ConnTypeOK
<1> QED
  BY <1>1, <1>2, PTL DEF ConnSpec

(* The table starts empty. *)
LEMMA InitIInv == ConnInit => IInv
BY CountAssumption, JoinsAssumption
DEF ConnInit, IInv, ConnTypeOK, LowBits, IdsByRole, ReceiverBit, SomeBit

(* connect as a sender. *)
LEMMA ConnectSender ==
    ASSUME FewJoins, IInv, NEW p \in Ports, Connect(p, SENDER)
    PROVE  IInv'
<1> DEFINE id == NewId(SENDER)
<1>1. /\ MaxCnt \in Nat /\ MaxCnt >= 4 /\ joins \in Nat /\ joins + 1 <= MaxCnt - 2
      /\ joins < MaxJoins
  BY CountAssumption, JoinsAssumption DEF FewJoins, IInv, ConnTypeOK, Connect
<1>2. /\ connected_id' = [connected_id EXCEPT ![p] = id]
      /\ cc' = cc \cup BitsTaken(SENDER, id)
      /\ role' = [role EXCEPT ![p] = SENDER]
      /\ joins' = joins + 1
  BY DEF Connect
<1>3. id \in 1 .. joins + 1 /\ (0 \notin cc => id = 1)
  BY <1>1, SenderId
<1> HIDE DEF id
<1>4. cc' = cc \cup {id - 1}
  BY <1>2, <1>3 DEF BitsTaken
<1> USE DEF IInv
<1>5. ConnTypeOK'
  <2>1. cc' \subseteq Bits
    <3>1. id - 1 \in Bits
      BY <1>1, <1>3 DEF Bits
    <3> QED
      BY <1>4, <3>1 DEF ConnTypeOK
  <2>2. connected_id' \in [Ports -> 0 .. MaxCnt]
    BY <1>1, <1>2, <1>3, <1>4 DEF ConnTypeOK
  <2>3. role' \in [Ports -> {0, SENDER, RECEIVER}]
    BY <1>2 DEF ConnTypeOK
  <2>4. joins' \in 0 .. MaxJoins
    BY <1>1, <1>2, JoinsAssumption DEF ConnTypeOK
  <2> QED
    BY <2>1, <2>2, <2>3, <2>4 DEF ConnTypeOK
<1>6. LowBits'
  BY <1>1, <1>2, <1>3, <1>4 DEF LowBits, ConnTypeOK, Bits
<1>7. IdsByRole'
  BY <1>1, <1>2, <1>3 DEF IdsByRole, ConnTypeOK, SENDER, RECEIVER
<1>8. ReceiverBit'
  BY <1>1, <1>2, <1>3, <1>4 DEF ReceiverBit, ConnTypeOK
<1>9. SomeBit'
  BY <1>2, <1>3, <1>4 DEF SomeBit
<1> QED
  BY <1>5, <1>6, <1>7, <1>8, <1>9

(* connect as a receiver. *)
LEMMA ConnectReceiver ==
    ASSUME FewJoins, IInv, NEW p \in Ports, Connect(p, RECEIVER)
    PROVE  IInv'
<1> DEFINE id == IF MaxCnt - 1 \in cc THEN 0 ELSE MaxCnt
<1>1. MaxCnt \in Nat /\ MaxCnt >= 4 /\ joins \in Nat
  BY CountAssumption, JoinsAssumption DEF IInv, ConnTypeOK
<1>2. /\ connected_id' = [connected_id EXCEPT ![p] = id]
      /\ cc' = cc \cup BitsTaken(RECEIVER, id)
      /\ role' = [role EXCEPT ![p] = RECEIVER]
      /\ joins' = joins
  BY DEF Connect, NewId, UnicastId, FewJoins, SENDER, RECEIVER
<1>3. cc' = cc \cup {MaxCnt - 1}
  BY <1>1, <1>2 DEF BitsTaken, SENDER, RECEIVER
<1> USE DEF IInv
<1>4. ConnTypeOK'
  <2>1. cc' \subseteq Bits
    <3>1. MaxCnt - 1 \in Bits
      BY <1>1 DEF Bits
    <3> QED
      BY <1>3, <3>1 DEF ConnTypeOK
  <2>2. connected_id' \in [Ports -> 0 .. MaxCnt]
    BY <1>1, <1>2, <1>3 DEF ConnTypeOK
  <2>3. role' \in [Ports -> {0, SENDER, RECEIVER}]
    BY <1>2 DEF ConnTypeOK
  <2>4. joins' \in 0 .. MaxJoins
    BY <1>1, <1>2, JoinsAssumption DEF ConnTypeOK
  <2> QED
    BY <2>1, <2>2, <2>3, <2>4 DEF ConnTypeOK
<1>5. LowBits'
  BY <1>2, <1>3 DEF LowBits
<1>6. IdsByRole'
  BY <1>1, <1>2 DEF IdsByRole, ConnTypeOK
<1>7. ReceiverBit'
  BY <1>1, <1>2, <1>3 DEF ReceiverBit, ConnTypeOK
<1>8. SomeBit'
  BY <1>2, <1>3 DEF SomeBit
<1> QED
  BY <1>4, <1>5, <1>6, <1>7, <1>8

(* disconnect clears the bit after the one that connect set: never the      *)
(* receiver's, and bit 0 only for the receiver.                             *)
LEMMA ClearedBit ==
    ASSUME FewJoins, IInv, NEW p \in Ports, connected_id[p] # 0
    PROVE  /\ BitCleared(connected_id[p]) # MaxCnt - 1
           /\ BitCleared(connected_id[p]) = 0 => connected_id[p] = MaxCnt
<1>1. /\ MaxCnt \in Nat /\ MaxCnt >= 4 /\ joins \in Nat /\ joins <= MaxCnt - 2
  BY CountAssumption, JoinsAssumption DEF FewJoins, IInv, ConnTypeOK
<1>2. CASE role[p] = RECEIVER
  BY <1>1, <1>2, BitInRange DEF IInv, IdsByRole, BitCleared
<1>3. CASE role[p] # RECEIVER
  BY <1>1, <1>3, BitInRange DEF IInv, IdsByRole, BitCleared
<1> QED
  BY <1>2, <1>3

(* disconnect preserves the invariant. *)
LEMMA DisconnectAny ==
    ASSUME FewJoins, IInv, NEW p \in Ports, Disconnect(p)
    PROVE  IInv'
<1> DEFINE b == Bit(connected_id[p])
<1>1. /\ MaxCnt \in Nat /\ MaxCnt >= 4 /\ joins \in Nat /\ joins <= MaxCnt - 2
  BY CountAssumption, JoinsAssumption DEF FewJoins, IInv, ConnTypeOK
<1>2. /\ connected_id[p] # 0
      /\ connected_id' = [connected_id EXCEPT ![p] = 0]
      /\ cc' = cc \ {b}
      /\ role' = role /\ joins' = joins
  BY DEF Disconnect, BitCleared
<1>3. /\ b # MaxCnt - 1
      /\ b = 0 => connected_id[p] = MaxCnt
  BY <1>2, ClearedBit DEF BitCleared
<1> HIDE DEF b
<1> USE DEF IInv
<1>4. ConnTypeOK'
  <2>1. cc' \subseteq Bits
    BY <1>1, <1>2 DEF ConnTypeOK, Bits
  <2>2. connected_id' \in [Ports -> 0 .. MaxCnt]
    BY <1>1, <1>2 DEF ConnTypeOK
  <2>3. role' \in [Ports -> {0, SENDER, RECEIVER}]
    BY <1>2 DEF ConnTypeOK
  <2>4. joins' \in 0 .. MaxJoins
    BY <1>1, <1>2, JoinsAssumption DEF ConnTypeOK
  <2> QED
    BY <2>1, <2>2, <2>3, <2>4 DEF ConnTypeOK
<1>5. LowBits'
  BY <1>2 DEF LowBits
<1>6. IdsByRole'
  BY <1>1, <1>2 DEF IdsByRole, ConnTypeOK
<1>7. ReceiverBit'
  BY <1>1, <1>2, <1>3 DEF ReceiverBit, ConnTypeOK
<1>8. SomeBit'
  BY <1>1, <1>2, <1>3 DEF SomeBit, ReceiverBit, ConnTypeOK
<1> QED
  BY <1>4, <1>5, <1>6, <1>7, <1>8

(* Every step preserves the invariant. *)
LEMMA NextIInv ==
    ASSUME FewJoins
    PROVE  IInv /\ [ConnNext]_connVars => IInv'
<1> SUFFICES ASSUME IInv, [ConnNext]_connVars PROVE IInv'
  OBVIOUS
<1>1. CASE UNCHANGED connVars
  BY <1>1 DEF connVars, IInv, ConnTypeOK, LowBits, IdsByRole, ReceiverBit, SomeBit
<1> QED
  BY <1>1, ConnectSender, ConnectReceiver, DisconnectAny DEF ConnNext

(* The inductive invariant of a channel's table. *)
THEOREM Inductive ==
    ASSUME FewJoins
    PROVE  ConnSpec => []IInv
<1>1. ConnInit => IInv
  BY InitIInv
<1>2. IInv /\ [ConnNext]_connVars => IInv'
  BY NextIInv
<1> QED
  BY <1>1, <1>2, PTL DEF ConnSpec

(* connect admits one receiver to a channel at a time, whatever the number  *)
(* of queues and bits, until MaxCnt - 1 senders have connected.             *)
THEOREM OneReceiver ==
    ASSUME FewJoins
    PROVE  ConnSpec => []SingleReceiver
<1>1. IInv => SingleReceiver
  <2> SUFFICES ASSUME IInv PROVE Cardinality(Connected(RECEIVER)) <= 1
    BY DEF SingleReceiver
  <2>1. \A p, q \in Connected(RECEIVER) : p = q
    BY DEF IInv, IdsByRole, ReceiverBit, Connected
  <2>2. CASE Connected(RECEIVER) = {}
    BY <2>2, FS_EmptySet
  <2>3. CASE Connected(RECEIVER) # {}
    <3>1. PICK p : p \in Connected(RECEIVER)
      BY <2>3
    <3>2. Connected(RECEIVER) = {p}
      BY <2>1, <3>1
    <3>3. Cardinality({p}) = 1
      BY FS_Singleton
    <3> QED
      BY <3>2, <3>3
  <2> QED
    BY <2>2, <2>3
<1> QED
  BY <1>1, Inductive, PTL

(* write counts a connected receiver of a channel: recv_count() is 1.       *)
THEOREM CountsReceiver ==
    ASSUME FewJoins
    PROVE  ConnSpec => []ReceiverCounted
<1>1. IInv => ReceiverCounted
  BY DEF IInv, IdsByRole, ReceiverBit, ReceiverCounted, Connected, recv_count, UnicastRecvCount
<1> QED
  BY <1>1, Inductive, PTL

(* While a queue is connected some bit is set. *)
LEMMA ConnectedCounts ==
    ASSUME IInv
    PROVE  ConnectedIsCounted
<1> SUFFICES ASSUME NEW p \in Ports, connected_id[p] # 0
             PROVE  Cardinality(cc) > 0
  BY DEF ConnectedIsCounted, connections
<1>1. cc # {}
  BY DEF IInv, SomeBit
<1>2. IsFiniteSet(cc)
  <2>1. IsFiniteSet(Bits)
    BY FS_Interval, CountAssumption DEF Bits
  <2> QED
    BY <2>1, FS_Subset DEF IInv, ConnTypeOK
<1>3. Cardinality(cc) \in Nat
  BY <1>2, FS_CardinalityType
<1>4. Cardinality(cc) # 0
  BY <1>1, <1>2, FS_EmptySet
<1> QED
  BY <1>3, <1>4

(* connections() of a channel is not 0 while a queue is connected, although *)
(* disconnect clears the bit of another.                                    *)
THEOREM CountsConnected ==
    ASSUME FewJoins
    PROVE  ConnSpec => []ConnectedIsCounted
BY ConnectedCounts, Inductive, PTL
=============================================================================
