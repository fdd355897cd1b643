----------------------------- MODULE IpcProofs ------------------------------
(***************************************************************************)
(* Proofs about channels and routes in operation (Ipc.tla), for every size *)
(* of the ring, of the counters, of the table and of the usage counts, and *)
(* any number of messages: a channel with one writer and one reader, which *)
(* come and go, and a route with one writer and two readers, which stay.   *)
(***************************************************************************)
EXTENDS Ipc, FiniteSetTheorems, TLAPS

\* One writer and one reader, which may leave and come back, as often as the
\* table has bits for the writer.
Channel ==
    /\ \E s, c : Senders = {s} /\ Receivers = {c}
    /\ ~Broadcast /\ MaxJoins <= MaxCnt - 2
    /\ ReadersFirst

\* One writer and two readers, which recv_count counts, as long as they stay.
Route ==
    /\ \E s, a, b : Senders = {s} /\ Receivers = {a, b} /\ a # b
    /\ Broadcast /\ Leavers = {}
    /\ ReadersFirst

\* Content and Connection with the lemmas about them.
RingProofs == INSTANCE ContentProofs WITH Descriptors <- Messages
Table      == INSTANCE ConnectionProofs

-----------------------------------------------------------------------------
(* The table of connections. *)

\* A reader of a channel that asked for its bit once is counted from then on.
ChannelTable ==
    /\ Table!IInv
    /\ \A c \in Receivers : role[c] # 0 => role[c] = Conn!RECEIVER /\ MaxCnt - 1 \in cc

\* The writer of a route has bit 0, and its readers two bits in the middle,
\* the lower of which lies in the half that recv_count counts.
RouteTable ==
    /\ cc = {connected_id[p] - 1 : p \in {q \in Ports : connected_id[q] # 0}}
    /\ \A p \in Ports : role[p] = 0 <=> connected_id[p] = 0
    /\ \A s \in Senders : connected_id[s] \in {0, 1}
    /\ \A c \in Receivers :
        /\ connected_id[c] \in {0, MaxCnt \div 2, MaxCnt \div 2 + 1}
        /\ role[c] # 0 => role[c] = Conn!RECEIVER
    /\ \A a, b \in Receivers : a # b /\ connected_id[a] # 0 => connected_id[a] # connected_id[b]
    /\ \A p \in Ports : apc[p] \in {"idle", "claimed"}

TableInv ==
    /\ IF Broadcast THEN RouteTable ELSE ChannelTable
    /\ \A s \in Senders : wpc[s] # "idle" => role[s] # 0 /\ Started

-----------------------------------------------------------------------------
(* The ring, the usage counts and the readers. *)

Readers == Cardinality(Receivers)

\* How far w_ and each reader's cursor are ahead of r_.
Filled    == Ring!Dist(rd, wr)
Passed(c) == Ring!Dist(rd, cursor[c])

\* Where a reader stands among the published messages: how many it has taken
\* from the ring, been given and finished with.
Taken(c)    == Released + Passed(c)
Given(c)    == IF rpc[c] = "taken" /\ rdpc[c] = "pred" THEN Taken(c) - 1 ELSE Taken(c)
Finished(c) == IF rpc[c] = "taken" /\ rdpc[c] # "counted" THEN Taken(c) - 1 ELSE Taken(c)

\* Only the reader that holds the mutex works on the ring.
Turns ==
    \A c \in Receivers :
        /\ rdpc[c] \in {"locked", "pred", "called", "counted"} => mutex = c
        /\ rpc[c] = "ready" => rdpc[c] = "pred"
        /\ rpc[c] = "taken" => rdpc[c] \in {"pred", "called", "counted"}
        /\ rdpc[c] \in {"called", "counted"} => rpc[c] = "taken"

\* The counters are ordered, and the slots between them hold the messages
\* published last.
RingInv ==
    /\ Filled <= RingSize - 1 /\ Filled <= Len(sent)
    /\ \A c \in Receivers :
        /\ Passed(c) <= Filled
        /\ rpc[c] = "ready" => Passed(c) < Filled
        /\ rpc[c] = "taken" => Passed(c) >= 1
    /\ \A i \in 0 .. Filled - 1 : block[Ring!SlotAt(rd, i)] = sent[Released + i + 1]

\* The writer's message is new, its count the number of readers, and what it
\* learned of the ring in push still holds.
SenderInv ==
    /\ \A i, j \in DOMAIN sent : i < j => sent[i] < sent[j]
    /\ \A i \in DOMAIN sent : sent[i] <= used
    /\ \A s \in Senders :
        /\ wpc[s] = "push" =>
            /\ msg[s] = used /\ used >= 1 /\ count[used] = Readers
            /\ \A i \in DOMAIN sent : sent[i] < used
        /\ spc[s] # "idle" =>
            /\ wpc[s] = "push" /\ item[s] = msg[s] /\ cur_wt[s] = Ring!Index(wr)
        /\ spc[s] \in {"claimed", "stored"} => Filled < RingSize - 1
        /\ spc[s] = "stored" => block[Ring!Index(wr)] = item[s]

\* A callback was given the published messages up to where its reader stands.
ReaderInv ==
    \A c \in Receivers :
        /\ rpc[c] = "taken" => got[c] = sent[Taken(c)]
        /\ Len(delivered[c]) = Given(c)
        /\ \A i \in 1 .. Given(c) : delivered[c][i] = sent[i]

\* A usage count is the number of readers that have not finished.
Waits(i) == {c \in Receivers : Finished(c) < i}
CountInv == \A i \in DOMAIN sent : count[sent[i]] = Cardinality(Waits(i))

\* The oldest message in the ring has a reader that has not finished with it,
\* or that finished last and is about to release it.
ReleaseInv ==
    Filled > 0 =>
        \E c \in Receivers :
            \/ Finished(c) <= Released
            \/ rdpc[c] = "counted" /\ Taken(c) = Released + 1

\* Nothing is written until every reader has connected.
Fresh ==
    ~Started =>
        /\ sent = <<>> /\ used = 0 /\ rd = 0 /\ wr = 0
        /\ \A c \in Receivers : cursor[c] = 0

IInv == TypeOK /\ TableInv /\ Turns /\ RingInv /\ SenderInv /\ ReaderInv
            /\ CountInv /\ ReleaseInv /\ Fresh

-----------------------------------------------------------------------------
(* The ring's lemmas, for the ring of a segment. *)

(* The sizes of the ring and of its counters.                               *)
LEMMA RingSizes ==
    /\ RingSize \in Nat /\ RingSize >= 2
    /\ WordSize \in Nat /\ WordSize >= RingSize
    /\ 0 \in Ring!Words
<1>1. /\ RingSize \in Nat /\ RingSize >= 2
      /\ WordSize \in Nat /\ WordSize >= RingSize
  BY RingProofs!Sizes, RingAssumption, NoneAssumption
<1> QED
  BY <1>1 DEF Ring!Words

(* Every step of the ring preserves the types of its state.                 *)
LEMMA RingTypes == Ring!TypeOK /\ [Ring!Next]_(Ring!vars) => Ring!TypeOK'
<1>1. RingProofs!TypeOK /\ [RingProofs!Next]_(RingProofs!vars) => RingProofs!TypeOK'
  BY RingProofs!TypeStep, RingAssumption, NoneAssumption
<1>2. RingProofs!TypeOK <=> Ring!TypeOK
  BY DEF RingProofs!TypeOK, Ring!TypeOK, RingProofs!Words, Ring!Words, RingProofs!Slots, Ring!Slots
<1>3. RingProofs!TypeOK' <=> Ring!TypeOK'
  BY DEF RingProofs!TypeOK, Ring!TypeOK, RingProofs!Words, Ring!Words, RingProofs!Slots, Ring!Slots
<1>4. RingProofs!vars = Ring!vars /\ RingProofs!vars' = Ring!vars'
  BY DEF RingProofs!vars, Ring!vars, RingProofs!pushVars, Ring!pushVars, RingProofs!popVars, Ring!popVars
<1>5. RingProofs!Next <=> Ring!Next
  <2>1. \A x : RingProofs!Index(x) = Ring!Index(x) /\ RingProofs!Inc(x) = Ring!Inc(x)
                /\ RingProofs!Dec(x) = Ring!Dec(x)
    BY DEF RingProofs!Index, Ring!Index, RingProofs!Inc, Ring!Inc, RingProofs!Dec, Ring!Dec
  <2>2. ASSUME NEW s \in Senders PROVE RingProofs!Push(s) <=> Ring!Push(s)
    BY <2>1, Zenon DEF RingProofs!Push, Ring!Push, RingProofs!popVars, Ring!popVars,
          RingProofs!PushLoad, Ring!PushLoad, RingProofs!PushFull, Ring!PushFull,
          RingProofs!PushClaim, Ring!PushClaim, RingProofs!PushStore, Ring!PushStore,
          RingProofs!PushPublish, Ring!PushPublish, RingProofs!Full, Ring!Full
  <2>3. ASSUME NEW c \in Receivers PROVE RingProofs!Pop(c) <=> Ring!Pop(c)
    BY <2>1, Zenon DEF RingProofs!Pop, Ring!Pop, RingProofs!pushVars, Ring!pushVars,
          RingProofs!PopReady, Ring!PopReady, RingProofs!PopTake, Ring!PopTake,
          RingProofs!PopOut, Ring!PopOut, RingProofs!Attach, Ring!Attach
  <2> QED
    BY <2>2, <2>3, Zenon DEF RingProofs!Next, Ring!Next
<1> QED
  BY <1>1, <1>2, <1>3, <1>4, <1>5

(* Slot numbers and the successors of a counter.                            *)
LEMMA RingIndex ==
    ASSUME NEW a \in Ring!Words
    PROVE  Ring!Index(a) \in Ring!Slots /\ Ring!Inc(a) \in Ring!Words
<1>1. a \in RingProofs!Words /\ a \in Int
  BY RingSizes DEF Ring!Words, RingProofs!Words
<1>2. RingProofs!Index(a) \in RingProofs!Slots
  BY <1>1, RingProofs!IndexType, RingAssumption, NoneAssumption
<1>3. RingProofs!Inc(a) \in RingProofs!Words
  BY <1>1, RingProofs!IncDec, RingAssumption, NoneAssumption
<1> QED
  BY <1>2, <1>3 DEF RingProofs!Index, Ring!Index, RingProofs!Slots, Ring!Slots,
                    RingProofs!Inc, Ring!Inc, RingProofs!Words, Ring!Words

(* The distance of two counters, and the slot at the far end.               *)
LEMMA RingDist ==
    ASSUME NEW a \in Ring!Words, NEW b \in Ring!Words
    PROVE  /\ Ring!Dist(a, b) \in Nat
           /\ Ring!Dist(a, b) = 0 <=> a = b
           /\ Ring!SlotAt(a, Ring!Dist(a, b)) = Ring!Index(b)
<1>1. a \in RingProofs!Words /\ b \in RingProofs!Words
  BY DEF Ring!Words, RingProofs!Words
<1>2. RingProofs!Dist(a, b) = Ring!Dist(a, b)
  BY DEF RingProofs!Dist, Ring!Dist
<1>3. \A i : RingProofs!SlotAt(a, i) = Ring!SlotAt(a, i)
  BY DEF RingProofs!SlotAt, Ring!SlotAt, RingProofs!Index, Ring!Index
<1>4. RingProofs!Index(b) = Ring!Index(b)
  BY DEF RingProofs!Index, Ring!Index
<1>5. /\ RingProofs!Dist(a, b) \in Nat
      /\ RingProofs!Dist(a, b) = 0 <=> a = b
      /\ RingProofs!SlotAt(a, RingProofs!Dist(a, b)) = RingProofs!Index(b)
  BY <1>1, RingProofs!DistType, RingAssumption, NoneAssumption
<1> QED
  BY <1>2, <1>3, <1>4, <1>5

(* Counters at the same distance from a third are equal.                    *)
LEMMA SameDist ==
    ASSUME NEW a \in Ring!Words, NEW b \in Ring!Words, NEW c \in Ring!Words,
           Ring!Dist(a, b) = Ring!Dist(a, c)
    PROVE  b = c
BY RingSizes DEF Ring!Dist, Ring!Words

(* One more publication; one more release.                                  *)
LEMMA DistSteps ==
    ASSUME NEW a \in Ring!Words, NEW b \in Ring!Words
    PROVE  /\ Ring!Dist(a, b) < RingSize - 1 => Ring!Dist(a, Ring!Inc(b)) = Ring!Dist(a, b) + 1
           /\ Ring!Dist(a, b) >= 1 => Ring!Dist(Ring!Inc(a), b) = Ring!Dist(a, b) - 1
<1>1. a \in RingProofs!Words /\ b \in RingProofs!Words
  BY DEF Ring!Words, RingProofs!Words
<1>2. \A x, y : RingProofs!Dist(x, y) = Ring!Dist(x, y)
  BY DEF RingProofs!Dist, Ring!Dist
<1>3. \A x : RingProofs!Inc(x) = Ring!Inc(x)
  BY DEF RingProofs!Inc, Ring!Inc
<1>4. RingProofs!Dist(a, b) < WordSize - 1 =>
        RingProofs!Dist(a, RingProofs!Inc(b)) = RingProofs!Dist(a, b) + 1
  BY <1>1, RingProofs!DistIncRight, RingAssumption, NoneAssumption
<1>5. RingProofs!Dist(a, b) >= 1 =>
        RingProofs!Dist(RingProofs!Inc(a), b) = RingProofs!Dist(a, b) - 1
  BY <1>1, RingProofs!DistIncLeft, RingAssumption, NoneAssumption
<1>6. Ring!Dist(a, b) < RingSize - 1 => Ring!Dist(a, b) < WordSize - 1
  BY RingDist, RingSizes
<1> QED
  BY <1>2, <1>3, <1>4, <1>5, <1>6

(* push's test for a full ring is exact.                                    *)
LEMMA FullTest ==
    ASSUME NEW a \in Ring!Words, NEW b \in Ring!Words, Ring!Dist(a, b) <= RingSize - 1
    PROVE  Ring!Index(b) = Ring!Index(Ring!Dec(a)) <=> Ring!Dist(a, b) = RingSize - 1
<1>1. a \in RingProofs!Words /\ b \in RingProofs!Words
  BY DEF Ring!Words, RingProofs!Words
<1>2. RingProofs!Dist(a, b) = Ring!Dist(a, b)
  BY DEF RingProofs!Dist, Ring!Dist
<1>3. \A x : RingProofs!Index(x) = Ring!Index(x) /\ RingProofs!Dec(x) = Ring!Dec(x)
  BY DEF RingProofs!Index, Ring!Index, RingProofs!Dec, Ring!Dec
<1>4. RingProofs!Index(b) = RingProofs!Index(RingProofs!Dec(a))
        <=> RingProofs!Dist(a, b) = RingSize - 1
  BY <1>1, <1>2, RingProofs!FullExact, RingAssumption, NoneAssumption
<1> QED
  BY <1>2, <1>3, <1>4

(* Places of the ring behind a counter have slots of their own, and move up *)
(* by one when the counter does.                                            *)
LEMMA SlotPlaces ==
    ASSUME NEW a \in Ring!Words
    PROVE  /\ \A i, j \in 0 .. RingSize - 1 : Ring!SlotAt(a, i) = Ring!SlotAt(a, j) => i = j
           /\ \A i \in 0 .. RingSize - 1 : Ring!SlotAt(a, i) \in Ring!Slots
           /\ \A i \in 0 .. RingSize - 2 : Ring!SlotAt(Ring!Inc(a), i) = Ring!SlotAt(a, i + 1)
<1>1. a \in RingProofs!Words
  BY DEF Ring!Words, RingProofs!Words
<1>2. \A x, i : RingProofs!SlotAt(x, i) = Ring!SlotAt(x, i)
  BY DEF RingProofs!SlotAt, Ring!SlotAt, RingProofs!Index, Ring!Index
<1>3. RingProofs!Inc(a) = Ring!Inc(a) /\ RingProofs!Slots = Ring!Slots
  BY DEF RingProofs!Inc, Ring!Inc, RingProofs!Slots, Ring!Slots
<1>4. \A i, j \in 0 .. RingSize - 1 : RingProofs!SlotAt(a, i) = RingProofs!SlotAt(a, j) => i = j
  BY <1>1, RingProofs!SlotsDistinct, RingAssumption, NoneAssumption
<1>5. \A i \in 0 .. RingSize - 1 : RingProofs!SlotAt(a, i) \in RingProofs!Slots
  BY <1>1, RingProofs!SlotAtPlain, RingAssumption, NoneAssumption
<1>6. \A i \in 0 .. RingSize - 2 :
        RingProofs!SlotAt(RingProofs!Inc(a), i) = RingProofs!SlotAt(a, i + 1)
  BY <1>1, RingProofs!SlotAtInc, RingAssumption, NoneAssumption
<1> QED
  BY <1>2, <1>3, <1>4, <1>5, <1>6

-----------------------------------------------------------------------------
(* The table of connections, under the lemmas of ConnectionProofs.          *)

\* The uses of a segment that the theorems are about.
Supported == Channel \/ Route

\* The step leaves the table of connections alone.
TableSame == UNCHANGED <<cc, connected_id, role, joins, apc>>

(* The cardinality that the table counts its bits with is that of the       *)
(* theorems about finite sets.                                              *)
LEMMA SameCardinality ==
    \A S : Conn!Cardinality(S) = Cardinality(S) /\ Table!Cardinality(S) = Cardinality(S)
<1>1. \A S : Conn!IsFiniteSet(S) <=> IsFiniteSet(S)
  BY Zenon DEF Conn!IsFiniteSet, IsFiniteSet
<1>2. \A S : Table!IsFiniteSet(S) <=> IsFiniteSet(S)
  BY Zenon DEF Table!IsFiniteSet, IsFiniteSet
<1> QED
  BY <1>1, <1>2, Zenon DEF Conn!Cardinality, Table!Cardinality, Cardinality

(* The two instances of the table are the same.                             *)
LEMMA SameTable ==
    /\ \A p, m : Conn!Connect(p, m) <=> Table!Connect(p, m)
    /\ \A p : Conn!Disconnect(p) <=> Table!Disconnect(p)
    /\ Conn!ConnInit <=> Table!ConnInit
    /\ Conn!ConnTypeOK <=> Table!ConnTypeOK
    /\ Conn!SENDER = 1 /\ Table!SENDER = 1 /\ Conn!RECEIVER = 2 /\ Table!RECEIVER = 2
    /\ Conn!recv_count = Table!recv_count
<1>1. ASSUME NEW m PROVE Conn!NewId(m) = Table!NewId(m)
  <2>1. ASSUME NEW lo, NEW hi PROVE Conn!FirstFree(lo, hi) = Table!FirstFree(lo, hi)
    BY Zenon DEF Conn!FirstFree, Table!FirstFree, Conn!Bit, Table!Bit, Conn!Min, Table!Min
  <2> QED
    BY <2>1, Zenon DEF Conn!NewId, Table!NewId, Conn!UnicastId, Table!UnicastId,
          Conn!BroadcastId, Table!BroadcastId, Conn!SENDER, Table!SENDER,
          Conn!RECEIVER, Table!RECEIVER
<1>2. ASSUME NEW m, NEW id PROVE Conn!BitsTaken(m, id) = Table!BitsTaken(m, id)
  BY Zenon DEF Conn!BitsTaken, Table!BitsTaken, Conn!Bit, Table!Bit, Conn!SENDER, Table!SENDER
<1>3. ASSUME NEW p, NEW m PROVE Conn!Connect(p, m) <=> Table!Connect(p, m)
  BY <1>1, <1>2, Zenon DEF Conn!Connect, Table!Connect, Conn!SENDER, Table!SENDER
<1>4. ASSUME NEW p PROVE Conn!Disconnect(p) <=> Table!Disconnect(p)
  BY Zenon DEF Conn!Disconnect, Table!Disconnect, Conn!BitCleared, Table!BitCleared,
        Conn!Bit, Table!Bit
<1>5. Conn!ConnInit <=> Table!ConnInit
  BY Zenon DEF Conn!ConnInit, Table!ConnInit
<1>6. Conn!ConnTypeOK <=> Table!ConnTypeOK
  BY Zenon DEF Conn!ConnTypeOK, Table!ConnTypeOK, Conn!Bits, Table!Bits,
        Conn!SENDER, Table!SENDER, Conn!RECEIVER, Table!RECEIVER
<1>7. Conn!recv_count = Table!recv_count
  BY SameCardinality, Zenon DEF Conn!recv_count, Table!recv_count, Conn!BroadcastRecvCount,
        Table!BroadcastRecvCount, Conn!UnicastRecvCount, Table!UnicastRecvCount,
        Conn!Bits, Table!Bits
<1>8. Conn!SENDER = 1 /\ Table!SENDER = 1 /\ Conn!RECEIVER = 2 /\ Table!RECEIVER = 2
  BY DEF Conn!SENDER, Table!SENDER, Conn!RECEIVER, Table!RECEIVER
<1> QED
  BY <1>3, <1>4, <1>5, <1>6, <1>7, <1>8, Zenon

(* Half the table is at least two bits wide.                                *)
LEMMA HalfTable ==
    /\ MaxCnt \in Nat /\ MaxCnt >= 4
    /\ MaxCnt \div 2 \in Nat /\ MaxCnt \div 2 >= 2
    /\ MaxCnt = MaxCnt \div 2 + MaxCnt \div 2
<1>1. MaxCnt \in Nat /\ MaxCnt >= 4 /\ MaxCnt % 2 = 0
  BY CountAssumption
<1> QED
  BY <1>1, SMTT(20)

(* Ports are writers or readers.                                            *)
LEMMA Roles ==
    ASSUME Supported, NEW p \in Ports
    PROVE  /\ p \in Senders <=> p \notin Receivers
           /\ p \in Receivers => Mode(p) = Table!RECEIVER
           /\ p \in Senders => Mode(p) = Table!SENDER
<1>1. Senders \cap Receivers = {} /\ p \in Senders \cup Receivers
  BY IpcAssumption DEF Ports
<1>2. Conn!SENDER = Table!SENDER /\ Conn!RECEIVER = Table!RECEIVER
  BY SameTable
<1> QED
  BY <1>1, <1>2 DEF Mode


(* The table of a fresh segment.                                            *)
LEMMA TableInit == Supported /\ Init => TableInv
<1> SUFFICES ASSUME Supported, Init PROVE TableInv
  OBVIOUS
<1>1. Table!ConnInit
  BY SameTable DEF Init
<1>2. \A s \in Senders : wpc[s] = "idle"
  BY DEF Init
<1>3. CASE Channel
  <2>1. Table!IInv
    BY <1>1, Table!InitIInv, CountAssumption, JoinsAssumption
  <2>2. \A c \in Receivers : role[c] = 0
    BY <1>1 DEF Table!ConnInit, Ports
  <2> QED
    BY <1>2, <1>3, <2>1, <2>2 DEF TableInv, ChannelTable, Channel
<1>4. CASE Route
  <2>1. /\ cc = {} /\ \A p \in Ports : connected_id[p] = 0 /\ role[p] = 0 /\ apc[p] = "idle"
    BY <1>1 DEF Table!ConnInit, Init
  <2>2. RouteTable
    BY <2>1 DEF RouteTable, Ports
  <2> QED
    BY <1>2, <1>4, <2>2 DEF TableInv, Route
<1> QED
  BY <1>3, <1>4 DEF Supported

(* A step that leaves the table alone and starts no write.                  *)
LEMMA TableFrame ==
    ASSUME TableInv, TableSame, \A s \in Senders : wpc'[s] # "idle" => wpc[s] # "idle"
    PROVE  TableInv' /\ (Started' <=> Started)
<1>1. Started' <=> Started
  BY Zenon DEF TableSame, Started
<1>2. ChannelTable => ChannelTable'
  BY Zenon DEF TableSame, ChannelTable, Table!IInv, Table!ConnTypeOK, Table!LowBits,
     Table!IdsByRole, Table!ReceiverBit, Table!SomeBit
<1>3. RouteTable => RouteTable'
  BY Zenon DEF TableSame, RouteTable
<1>4. (\A s \in Senders : wpc[s] # "idle" => role[s] # 0)
        => (\A s \in Senders : wpc'[s] # "idle" => role'[s] # 0)
  BY Zenon DEF TableSame
<1> QED
  BY <1>1, <1>2, <1>3, <1>4, Zenon DEF TableInv

(* connect and disconnect on a channel preserve the invariant of its table, *)
(* and never take the reader's bit back.                                    *)
LEMMA ChannelStep ==
    ASSUME Channel, ChannelTable, NEW p \in Ports,
           \/ \E m \in {Table!SENDER, Table!RECEIVER} :
                Conn!Connect(p, m) /\ (p \in Receivers => m = Table!RECEIVER)
           \/ Conn!Disconnect(p)
    PROVE  /\ ChannelTable'
           /\ MaxCnt - 1 \in cc => MaxCnt - 1 \in cc'
<1>1. Table!FewJoins
  BY DEF Channel, Table!FewJoins
<1>2. Table!IInv
  BY DEF ChannelTable
<1>3. role \in [Ports -> {0, Table!SENDER, Table!RECEIVER}]
  BY <1>2 DEF Table!IInv, Table!ConnTypeOK
<1>4. ASSUME NEW m \in {Table!SENDER, Table!RECEIVER}, Table!Connect(p, m),
             p \in Receivers => m = Table!RECEIVER
      PROVE  ChannelTable' /\ (MaxCnt - 1 \in cc => MaxCnt - 1 \in cc')
  <2>1. Table!IInv'
    <3>1. CASE m = Table!SENDER
      BY <1>1, <1>2, <1>4, <3>1, Table!ConnectSender, CountAssumption, JoinsAssumption
    <3>2. CASE m = Table!RECEIVER
      BY <1>1, <1>2, <1>4, <3>2, Table!ConnectReceiver, CountAssumption, JoinsAssumption
    <3> QED
      BY <3>1, <3>2
  <2>2. cc \subseteq cc' /\ role' = [role EXCEPT ![p] = m]
    BY <1>4 DEF Table!Connect
  <2>3. p \in Receivers => MaxCnt - 1 \in cc'
    <3> SUFFICES ASSUME p \in Receivers, MaxCnt - 1 \notin cc PROVE MaxCnt - 1 \in cc'
      BY <2>2
    <3>1. cc' = cc \cup Table!BitsTaken(m, Table!NewId(m)) /\ m = Table!RECEIVER
      BY <1>4 DEF Table!Connect
    <3>2. Table!NewId(m) = MaxCnt
      BY <1>1, <3>1 DEF Table!NewId, Table!UnicastId, Table!FewJoins
    <3>3. Table!BitsTaken(m, MaxCnt) = {MaxCnt - 1}
      BY HalfTable DEF Table!BitsTaken
    <3> QED
      BY <3>1, <3>2, <3>3
  <2>4. \A c \in Receivers : role'[c] # 0 =>
          role'[c] = Conn!RECEIVER /\ MaxCnt - 1 \in cc'
    BY <1>3, <1>4, <2>2, <2>3, SameTable DEF ChannelTable, Ports
  <2> QED
    BY <2>1, <2>2, <2>4 DEF ChannelTable
<1>5. ASSUME Table!Disconnect(p)
      PROVE  ChannelTable' /\ (MaxCnt - 1 \in cc => MaxCnt - 1 \in cc')
  <2>1. Table!IInv'
    BY <1>1, <1>2, <1>5, Table!DisconnectAny, CountAssumption, JoinsAssumption
  <2>2. /\ connected_id[p] # 0 /\ role' = role
        /\ cc' = cc \ {Table!BitCleared(connected_id[p])}
    BY <1>5 DEF Table!Disconnect
  <2>3. Table!BitCleared(connected_id[p]) # MaxCnt - 1
    BY <1>1, <1>2, <2>2, Table!ClearedBit, CountAssumption, JoinsAssumption
  <2> QED
    BY <2>1, <2>2, <2>3 DEF ChannelTable
<1> QED
  BY <1>4, <1>5, SameTable

(* A route's bits: the writer's is the first, the readers' the first free   *)
(* ones from the middle.                                                    *)
LEMMA RouteIds ==
    ASSUME Route, RouteTable, NEW p \in Ports, connected_id[p] = 0
    PROVE  /\ p \in Senders => Table!NewId(Table!SENDER) = 1
           /\ p \in Receivers =>
                /\ Table!NewId(Table!RECEIVER) \in {MaxCnt \div 2, MaxCnt \div 2 + 1}
                /\ \A q \in Receivers : connected_id[q] # Table!NewId(Table!RECEIVER)
<1> DEFINE H == MaxCnt \div 2
<1>1. /\ MaxCnt \in Nat /\ MaxCnt >= 4 /\ H \in Nat /\ H >= 2 /\ MaxCnt = H + H
  BY HalfTable
<1>2. \A i \in 1 .. MaxCnt : Table!Bit(i - 1) = i - 1
  BY <1>1, Table!BitInRange, CountAssumption, JoinsAssumption
<1>3. \A i \in 1 .. MaxCnt : i - 1 \in cc =>
        \E q \in Ports : connected_id[q] = i
  <2> SUFFICES ASSUME NEW i \in 1 .. MaxCnt, i - 1 \in cc
               PROVE  \E q \in Ports : connected_id[q] = i
    OBVIOUS
  <2>1. PICK q \in Ports : i - 1 = connected_id[q] - 1
    <3>1. i - 1 \in {connected_id[q] - 1 : q \in {r \in Ports : connected_id[r] # 0}}
      BY DEF RouteTable
    <3> QED
      BY <3>1
  <2>2. connected_id[q] \in Int
    BY <1>1 DEF RouteTable, Ports
  <2> QED
    BY <1>1, <2>1, <2>2
<1>4. ASSUME NEW lo \in 1 .. MaxCnt, NEW hi \in 1 .. MaxCnt, NEW i \in lo .. hi - 1,
             \A q \in Ports : connected_id[q] # i
      PROVE  /\ Table!FirstFree(lo, hi) \in lo .. i
             /\ Table!FirstFree(lo, hi) - 1 \notin cc
  <2> DEFINE free == {j \in lo .. hi - 1 : Table!Bit(j - 1) \notin cc}
  <2>1. i \in free
    BY <1>1, <1>2, <1>3, <1>4
  <2>2. free \in SUBSET Nat /\ free # {}
    <3>1. \A j \in lo .. hi - 1 : j \in Nat
      BY <1>1
    <3> QED
      BY <2>1, <3>1, Zenon
  <2>3. Table!Min(free) \in free /\ \A y \in free : Table!Min(free) <= y
    <3> HIDE DEF free
    <3> QED
      BY <2>2, Table!LeastNat, CountAssumption, JoinsAssumption
  <2>4. Table!FirstFree(lo, hi) = Table!Min(free)
    BY <2>2, Zenon DEF Table!FirstFree
  <2>5. /\ Table!Min(free) \in lo .. i
        /\ Table!Bit(Table!Min(free) - 1) = Table!Min(free) - 1
    BY <1>1, <1>2, <2>1, <2>3
  <2> QED
    BY <2>3, <2>4, <2>5
<1> HIDE DEF H
<1>5. ASSUME p \in Senders
      PROVE  Table!NewId(Table!SENDER) = 1
  <2>1. \A q \in Ports : connected_id[q] # 1
    BY <1>1, <1>5 DEF Route, RouteTable, Ports, H
  <2>2. Table!FirstFree(1, H) \in 1 .. 1
    BY <1>1, <1>4, <2>1
  <2>3. Table!NewId(Table!SENDER) = Table!FirstFree(1, H)
    BY DEF Route, Table!NewId, Table!BroadcastId, H
  <2> QED
    BY <2>2, <2>3
<1>6. ASSUME p \in Receivers
      PROVE  /\ Table!NewId(Table!RECEIVER) \in {H, H + 1}
             /\ \A q \in Receivers : connected_id[q] # Table!NewId(Table!RECEIVER)
  <2>1. Table!NewId(Table!RECEIVER) = Table!FirstFree(H, MaxCnt)
    BY SameTable DEF Route, Table!NewId, Table!BroadcastId, H
  <2>2. PICK q \in Receivers : \A r \in Receivers : r = p \/ r = q
    BY <1>6 DEF Route
  <2>3. \A s \in Senders : connected_id[s] # H /\ connected_id[s] # H + 1
    BY <1>1 DEF RouteTable
  <2>4. PICK i \in {H, H + 1} :
          /\ connected_id[q] # i
          /\ i = H + 1 => connected_id[q] = H
    BY <1>1
  <2>5. \A r \in Ports : connected_id[r] # i
    BY <1>1, <2>2, <2>3, <2>4 DEF Ports
  <2>6. /\ Table!FirstFree(H, MaxCnt) \in H .. i
        /\ Table!FirstFree(H, MaxCnt) - 1 \notin cc
    BY <1>1, <1>4, <2>4, <2>5
  <2>7. \A r \in Ports : connected_id[r] # Table!FirstFree(H, MaxCnt)
    <3> SUFFICES ASSUME NEW r \in Ports, connected_id[r] = Table!FirstFree(H, MaxCnt)
                 PROVE  FALSE
      OBVIOUS
    <3>1. connected_id[r] # 0
      BY <1>1, <2>6
    <3> QED
      BY <2>6, <3>1 DEF RouteTable
  <2> QED
    BY <1>1, <2>1, <2>4, <2>6, <2>7 DEF Ports
<1> QED
  BY <1>5, <1>6 DEF H

(* connect on a route preserves the invariant of its table.                 *)
LEMMA RouteStep ==
    ASSUME Route, RouteTable, Conn!ConnTypeOK, NEW p \in Ports, Conn!Connect(p, Mode(p)),
           \A q \in Ports : apc'[q] \in {"idle", "claimed"}
    PROVE  RouteTable' /\ Conn!ConnTypeOK'
<1> DEFINE H == MaxCnt \div 2
           id == Table!NewId(Mode(p))
<1>1. /\ MaxCnt \in Nat /\ MaxCnt >= 4 /\ H \in Nat /\ H >= 2 /\ MaxCnt = H + H
  BY HalfTable
<1>2. /\ p \in Senders <=> p \notin Receivers
      /\ p \in Receivers => Mode(p) = Table!RECEIVER
      /\ p \in Senders => Mode(p) = Table!SENDER
      /\ Table!SENDER = 1 /\ Table!RECEIVER = 2 /\ Conn!RECEIVER = 2
  BY Roles, SameTable DEF Supported
<1>3. /\ connected_id[p] = 0
      /\ connected_id' = [connected_id EXCEPT ![p] = id]
      /\ cc' = cc \cup Table!BitsTaken(Mode(p), id)
      /\ role' = [role EXCEPT ![p] = Mode(p)]
  BY SameTable, Zenon DEF Table!Connect
<1>4. /\ p \in Senders => id = 1
      /\ p \in Receivers => id \in {H, H + 1} /\ \A q \in Receivers : connected_id[q] # id
  BY <1>2, <1>3, RouteIds
<1> HIDE DEF id, H
<1>5. id # 0 /\ cc' = cc \cup {id - 1}
  BY <1>1, <1>2, <1>3, <1>4 DEF Table!BitsTaken
<1>6. /\ connected_id \in [Ports -> 0 .. MaxCnt] /\ role \in [Ports -> {0, 1, 2}]
      /\ cc \subseteq 0 .. MaxCnt - 1
  BY SameTable DEF Conn!ConnTypeOK, Conn!Bits
<1>7. id \in 1 .. MaxCnt
  BY <1>1, <1>2, <1>4
<1>8. connected_id' \in [Ports -> 0 .. MaxCnt] /\ role' \in [Ports -> {0, 1, 2}]
  BY <1>2, <1>3, <1>6, <1>7
<1>9. \A q \in Ports : /\ connected_id'[q] = IF q = p THEN id ELSE connected_id[q]
                       /\ role'[q] = IF q = p THEN Mode(p) ELSE role[q]
  BY <1>3, <1>6
<1>10. cc' = {connected_id'[q] - 1 : q \in {r \in Ports : connected_id'[r] # 0}}
  BY <1>3, <1>5, <1>9 DEF RouteTable
<1>11. \A q \in Ports : role'[q] = 0 <=> connected_id'[q] = 0
  BY <1>2, <1>5, <1>9 DEF RouteTable
<1>12. \A s \in Senders : connected_id'[s] \in {0, 1}
  BY <1>2, <1>4, <1>9 DEF RouteTable, Ports
<1>13. \A c \in Receivers :
        /\ connected_id'[c] \in {0, H, H + 1}
        /\ role'[c] # 0 => role'[c] = Conn!RECEIVER
  BY <1>2, <1>4, <1>9 DEF RouteTable, Ports, H
<1>14. \A a, b \in Receivers :
        a # b /\ connected_id'[a] # 0 => connected_id'[a] # connected_id'[b]
  BY <1>2, <1>4, <1>9 DEF RouteTable, Ports
<1>15. Conn!ConnTypeOK'
  <2>1. cc' \subseteq 0 .. MaxCnt - 1
    BY <1>1, <1>5, <1>6, <1>7
  <2>2. joins' \in 0 .. MaxJoins
    BY SameTable, JoinsAssumption DEF Conn!Connect, Conn!ConnTypeOK
  <2> QED
    BY <1>8, <2>1, <2>2, SameTable DEF Conn!ConnTypeOK, Conn!Bits
<1> QED
  BY <1>10, <1>11, <1>12, <1>13, <1>14, <1>15 DEF RouteTable, H

(* A set of two.                                                            *)
LEMMA Pair ==
    ASSUME NEW x, NEW y, x # y
    PROVE  IsFiniteSet({x, y}) /\ Cardinality({x, y}) = 2
<1>1. IsFiniteSet({x}) /\ Cardinality({x}) = 1
  BY FS_Singleton
<1>2. {x, y} = {x} \cup {y} /\ y \notin {x}
  OBVIOUS
<1>3. IsFiniteSet({x} \cup {y}) /\ Cardinality({x} \cup {y}) = Cardinality({x}) + 1
  BY <1>1, <1>2, FS_AddElement
<1> QED
  BY <1>1, <1>2, <1>3

(* The number of readers fits a usage count.                                *)
LEMMA ReaderCount ==
    ASSUME Supported
    PROVE  /\ IsFiniteSet(Receivers) /\ Receivers # {}
           /\ Readers \in Nat /\ Readers >= 1 /\ Readers < CountSize
           /\ CountSize \in Nat
           /\ \E s : Senders = {s}
           /\ ReadersFirst = TRUE
<1>1. /\ IsFiniteSet(Receivers) /\ Receivers # {} /\ \E s : Senders = {s}
      /\ ReadersFirst = TRUE
  <2>0. ReadersFirst => ReadersFirst = TRUE
    BY IpcAssumption
  <2>1. CASE Channel
    <3>1. PICK c : Receivers = {c}
      BY <2>1 DEF Channel
    <3>2. IsFiniteSet({c})
      BY FS_Singleton
    <3> QED
      BY <2>0, <2>1, <3>1, <3>2 DEF Channel
  <2>2. CASE Route
    <3>1. PICK a, b : Receivers = {a, b} /\ a # b
      BY <2>2 DEF Route
    <3>2. IsFiniteSet({a, b})
      BY <3>1, Pair
    <3> QED
      BY <2>0, <2>2, <3>1, <3>2 DEF Route
  <2> QED
    BY <2>1, <2>2 DEF Supported
<1>2. IsFiniteSet(Senders)
  BY <1>1, FS_Singleton
<1>3. IsFiniteSet(Ports)
  BY <1>1, <1>2, FS_Union DEF Ports
<1>4. Cardinality(Receivers) <= Cardinality(Ports)
  BY <1>3, FS_Subset DEF Ports
<1>5. /\ Cardinality(Receivers) \in Nat /\ Cardinality(Ports) \in Nat
      /\ Cardinality(Receivers) # 0
  BY <1>1, <1>3, FS_CardinalityType, FS_EmptySet
<1>6. CountSize \in Nat /\ CountSize > Cardinality(Ports)
  BY IpcAssumption
<1> QED
  BY <1>1, <1>4, <1>5, <1>6 DEF Readers

(* Once every reader has connected, recv_count() is their number, although  *)
(* a route counts the writer in the place of a reader.                      *)
LEMMA CountsReaders ==
    ASSUME Supported, TableInv, NEW s \in Senders, wpc[s] # "idle"
    PROVE  Conn!recv_count = Readers
<1>1. role[s] # 0 /\ \A c \in Receivers : role[c] # 0
  BY SameTable DEF TableInv, Started
<1>2. CASE Channel
  <2>1. PICK c : Receivers = {c}
    BY <1>2 DEF Channel
  <2>2. MaxCnt - 1 \in cc
    BY <1>1, <1>2, <2>1 DEF TableInv, Channel, ChannelTable
  <2>3. Conn!recv_count = 1
    BY <1>2, <2>2 DEF Channel, Conn!recv_count, Conn!UnicastRecvCount
  <2> QED
    BY <2>1, <2>3, FS_Singleton DEF Readers
<1>3. CASE Route
  <2> DEFINE H == MaxCnt \div 2
             counted == {b \in cc : b + H \in Conn!Bits}
  <2>1. /\ MaxCnt \in Nat /\ MaxCnt >= 4 /\ H \in Nat /\ H >= 2 /\ MaxCnt = H + H
    BY HalfTable
  <2> HIDE DEF H
  <2>2. RouteTable
    BY <1>3 DEF TableInv, Route
  <2>3. PICK a, b : Receivers = {a, b} /\ a # b
    BY <1>3 DEF Route
  <2>4. Senders = {s}
    BY <1>3 DEF Route
  <2>5. /\ connected_id[s] = 1
        /\ connected_id[a] \in {H, H + 1} /\ connected_id[b] \in {H, H + 1}
        /\ connected_id[a] # connected_id[b]
    BY <1>1, <2>1, <2>2, <2>3 DEF RouteTable, Ports, H
  <2>6. Ports = {s, a, b}
    BY <2>3, <2>4 DEF Ports
  <2>7. {p \in Ports : connected_id[p] # 0} = {s, a, b}
    BY <2>1, <2>5, <2>6
  <2>8. cc = {connected_id[s] - 1, connected_id[a] - 1, connected_id[b] - 1}
    BY <2>2, <2>7 DEF RouteTable
  <2>9. cc = {0, H - 1, H}
    BY <2>1, <2>5, <2>8
  <2>10. counted = {0, H - 1}
    <3>1. 0 + H \in Conn!Bits /\ (H - 1) + H \in Conn!Bits /\ H + H \notin Conn!Bits
      BY <2>1 DEF Conn!Bits
    <3> QED
      BY <2>9, <3>1
  <2>11. Cardinality(counted) = 2
    <3>1. 0 # H - 1
      BY <2>1
    <3>2. Cardinality({0, H - 1}) = 2
      BY <3>1, Pair
    <3> QED
      BY <2>10, <3>2
  <2>12. Conn!recv_count = 2
    BY <1>3, <2>11, SameCardinality, Zenon
    DEF Route, Conn!recv_count, Conn!BroadcastRecvCount, H
  <2> QED
    <3>1. Cardinality({a, b}) = 2
      BY <2>3, Pair
    <3> QED
      BY <2>3, <2>12, <3>1 DEF Readers
<1> QED
  BY <1>2, <1>3 DEF Supported

-----------------------------------------------------------------------------
(* Steps that leave the ring, the messages and their counts alone.          *)

\* The step moves neither the ring nor a message nor a count.
Still ==
    /\ UNCHANGED <<rd, wr, block, cursor, spc, cur_wt, item, rpc, got>>
    /\ UNCHANGED <<msg, count, used, sent, delivered>>
    /\ \A s \in Senders : wpc'[s] = "push" <=> wpc[s] = "push"
    /\ \A c \in Receivers : rdpc'[c] = rdpc[c] \/ rpc[c] = "idle"

(* They preserve what is said about the ring, the messages and the counts.  *)
LEMMA StillKeeps ==
    ASSUME IInv, Still, Started => Started'
    PROVE  RingInv' /\ SenderInv' /\ ReaderInv' /\ CountInv' /\ ReleaseInv' /\ Fresh'
<1>1. /\ Filled' = Filled /\ Released' = Released
      /\ \A c \in Receivers : Passed(c)' = Passed(c) /\ Taken(c)' = Taken(c)
  BY Zenon DEF Still, Filled, Passed, Released, Taken
<1>2. \A c \in Receivers : Given(c)' = Given(c) /\ Finished(c)' = Finished(c)
  BY <1>1, Zenon DEF Still, Given, Finished
<1>3. \A i : Waits(i)' = Waits(i)
  BY <1>2, Zenon DEF Waits
<1>4. /\ sent' = sent /\ block' = block /\ rd' = rd /\ wr' = wr
      /\ rpc' = rpc /\ got' = got /\ delivered' = delivered /\ count' = count
  BY DEF Still
<1>5. RingInv'
  BY <1>1, <1>4, Zenon DEF IInv, RingInv
<1>6. SenderInv'
  <2>1. /\ \A i, j \in DOMAIN sent' : i < j => sent'[i] < sent'[j]
        /\ \A i \in DOMAIN sent' : sent'[i] <= used'
    BY Zenon DEF IInv, SenderInv, Still
  <2>2. ASSUME NEW s \in Senders
        PROVE  /\ wpc'[s] = "push" =>
                    /\ msg'[s] = used' /\ used' >= 1 /\ count'[used'] = Readers
                    /\ \A i \in DOMAIN sent' : sent'[i] < used'
               /\ spc'[s] # "idle" =>
                    wpc'[s] = "push" /\ item'[s] = msg'[s] /\ cur_wt'[s] = Ring!Index(wr')
               /\ spc'[s] \in {"claimed", "stored"} => Filled' < RingSize - 1
               /\ spc'[s] = "stored" => block'[Ring!Index(wr')] = item'[s]
    <3>1. /\ wpc'[s] = "push" <=> wpc[s] = "push"
          /\ UNCHANGED <<wr, block, spc, cur_wt, item, msg, count, used, sent>>
      BY Zenon DEF Still
    <3> QED
      BY <1>1, <3>1 DEF IInv, SenderInv
  <2> QED
    BY <2>1, <2>2, Zenon DEF SenderInv
<1>7. ReaderInv'
  BY <1>1, <1>2, <1>4, Zenon DEF IInv, ReaderInv
<1>8. CountInv'
  BY <1>3, <1>4, Zenon DEF IInv, CountInv
<1>9. ReleaseInv'
  <2>1. \A c \in Receivers : rdpc[c] = "counted" => rdpc'[c] = "counted"
    BY DEF IInv, Turns, Still
  <2> QED
    BY <1>1, <1>2, <2>1, Zenon DEF IInv, ReleaseInv
<1>10. Fresh'
  BY Zenon DEF IInv, Fresh, Still
<1> QED
  BY <1>5, <1>6, <1>7, <1>8, <1>9, <1>10

(* Types carry over when the step changes phases only.                      *)
LEMMA StillTypes ==
    ASSUME TypeOK, Still, Conn!ConnTypeOK',
           connected' \in [Ports -> BOOLEAN],
           apc'  \in [Ports -> {"idle", "claimed", "flagged", "cleared"}],
           wpc'  \in [Senders -> {"idle", "open", "admitted", "push", "notify"}],
           rdpc' \in [Receivers -> {"out", "loop", "lock", "locked", "wait", "woken",
                                    "expired", "pred", "called", "counted"}],
           tm' \in [Receivers -> Tms],
           mutex' \in Receivers \cup {None}
    PROVE  TypeOK'
<1>1. Ring!TypeOK'
  <2>1. Ring!vars' = Ring!vars
    BY DEF Still, Ring!vars, Ring!pushVars, Ring!popVars
  <2> QED
    BY <2>1, RingTypes DEF TypeOK
<1>2. /\ msg' = msg /\ count' = count /\ used' = used /\ sent' = sent
      /\ delivered' = delivered
  BY DEF Still
<1> QED
  BY <1>1, <1>2, Zenon DEF TypeOK

(* The table's types carry over with its variables.                         *)
LEMMA SameTypes ==
    ASSUME TypeOK, TableSame
    PROVE  Conn!ConnTypeOK' /\ apc' \in [Ports -> {"idle", "claimed", "flagged", "cleared"}]
BY Zenon DEF TypeOK, TableSame, Conn!ConnTypeOK

\* The places of recv and of the wait in it.
Phases == {"out", "loop", "lock", "locked", "wait", "woken", "expired", "pred", "called", "counted"}

(* A reader outside the predicate goes from one phase of read to another.   *)
LEMMA PhaseStep ==
    ASSUME IInv, NEW c \in Receivers, NEW to \in Phases \ {"called", "counted"},
           rdpc' = [rdpc EXCEPT ![c] = to], rpc[c] = "idle",
           \/ UNCHANGED mutex /\ (to \in {"locked", "pred"} => mutex = c)
           \/ mutex = c /\ mutex' = None /\ to \notin {"locked", "pred"}
           \/ mutex = None /\ mutex' = c,
           UNCHANGED ringVars, UNCHANGED sendVars, UNCHANGED <<delivered, count>>,
           tm' \in [Receivers -> Tms]
    PROVE  /\ Turns' /\ Still
           /\ rdpc' \in [Receivers -> Phases]
           /\ mutex' \in Receivers \cup {None}
<1>1. /\ rdpc \in [Receivers -> Phases] /\ mutex \in Receivers \cup {None}
      /\ rpc \in [Receivers -> {"idle", "ready", "taken"}]
  BY DEF IInv, TypeOK, Ring!TypeOK, Phases
<1>2. None \notin Receivers
  BY IpcAssumption
<1>3. /\ rdpc' \in [Receivers -> Phases]
      /\ \A d \in Receivers : rdpc'[d] = IF d = c THEN to ELSE rdpc[d]
  BY <1>1
<1>4. rpc' = rpc
  BY DEF ringVars
<1>5. Turns'
  BY <1>1, <1>2, <1>3, <1>4 DEF IInv, Turns
<1>6. Still
  BY <1>3 DEF Still, ringVars, sendVars
<1> QED
  BY <1>1, <1>3, <1>5, <1>6

(* The waiting readers, some of them, are woken.                            *)
LEMMA WakeStep ==
    ASSUME IInv, NEW W \in SUBSET Waiting,
           rdpc' = [c \in Receivers |-> IF c \in W THEN "woken" ELSE rdpc[c]],
           UNCHANGED ringVars, UNCHANGED <<msg, used, sent, mutex, delivered, count>>,
           \A s \in Senders : wpc'[s] = "push" <=> wpc[s] = "push"
    PROVE  Turns' /\ Still /\ rdpc' \in [Receivers -> Phases]
<1>1. rdpc \in [Receivers -> Phases]
  BY DEF IInv, TypeOK, Phases
<1>2. \A c \in Receivers : rdpc'[c] = IF c \in W THEN "woken" ELSE rdpc[c]
  OBVIOUS
<1>3. \A c \in W : rdpc[c] = "wait" /\ rpc[c] = "idle"
  BY DEF IInv, Turns, Waiting, TypeOK, Ring!TypeOK
<1>4. rpc' = rpc /\ mutex' = mutex
  BY DEF ringVars
<1>5. Turns'
  BY <1>2, <1>3, <1>4 DEF IInv, Turns
<1>6. Still
  BY <1>2, <1>3 DEF Still, ringVars
<1> QED
  BY <1>1, <1>5, <1>6 DEF Phases

(* What the steps of this section are to show.                              *)
Kept == TypeOK' /\ TableInv' /\ (Started => Started') /\ Turns' /\ Still

(* read up to and after the predicate.                                      *)
LEMMA ReadPhases ==
    ASSUME IInv, NEW c \in Receivers,
           \/ Reads(c) \/ ReadLoop(c) \/ ReadLock(c) \/ ReadWait(c) \/ ReadWakeup(c)
           \/ ReadExpire(c) \/ ReadRelock(c) \/ ReadEmpty(c)
    PROVE  Kept
<1>1. /\ rdpc \in [Receivers -> Phases] /\ mutex \in Receivers \cup {None}
      /\ rpc[c] \in {"idle", "ready", "taken"} /\ tm \in [Receivers -> Tms]
      /\ connected \in [Ports -> BOOLEAN]
      /\ wpc \in [Senders -> {"idle", "open", "admitted", "push", "notify"}]
  BY DEF IInv, TypeOK, Ring!TypeOK, Phases
<1>2. /\ UNCHANGED ringVars /\ UNCHANGED sendVars /\ UNCHANGED <<delivered, count>>
      /\ UNCHANGED connVars /\ UNCHANGED apiVars
      /\ tm' \in [Receivers -> Tms]
  <2>1. CASE Reads(c)
    BY <1>1, <2>1 DEF Reads, ReadStart
  <2> QED
    BY <1>1, <2>1 DEF ReadLoop, ReadLock, ReadWait, ReadWakeup, ReadExpire, ReadRelock, ReadEmpty
<1> DEFINE GoesTo(to) ==
        /\ rdpc' = [rdpc EXCEPT ![c] = to]
        /\ rpc[c] = "idle"
        /\ \/ UNCHANGED mutex /\ (to \in {"locked", "pred"} => mutex = c)
           \/ mutex = c /\ mutex' = None /\ to \notin {"locked", "pred"}
           \/ mutex = None /\ mutex' = c
<1>3. \E to \in Phases \ {"called", "counted"} : GoesTo(to)
  <2>1. rdpc[c] \notin {"pred", "called", "counted"} => rpc[c] = "idle"
    BY <1>1 DEF IInv, Turns, Phases
  <2>2. rdpc[c] \in {"locked", "pred"} => mutex = c
    BY DEF IInv, Turns
  <2>3. Reads(c) => GoesTo("loop")
    BY <2>1 DEF Reads, ReadStart
  <2>4. ReadLoop(c) => GoesTo("lock") \/ GoesTo("out")
    BY <2>1 DEF ReadLoop
  <2>5. ReadLock(c) => GoesTo("pred") \/ GoesTo("locked")
    BY <2>1 DEF ReadLock
  <2>6. ReadWait(c) => GoesTo("wait")
    BY <2>1, <2>2 DEF ReadWait
  <2>7. ReadWakeup(c) => GoesTo("woken")
    BY <2>1 DEF ReadWakeup
  <2>8. ReadExpire(c) => GoesTo("expired")
    BY <2>1 DEF ReadExpire
  <2>9. ReadRelock(c) => GoesTo("pred") \/ GoesTo("loop")
    BY <2>1 DEF ReadRelock
  <2>10. ReadEmpty(c) => GoesTo("loop")
    BY <2>2 DEF ReadEmpty
  <2> HIDE DEF GoesTo
  <2> QED
    BY <2>3, <2>4, <2>5, <2>6, <2>7, <2>8, <2>9, <2>10 DEF Phases
<1>4. /\ Turns' /\ Still
      /\ rdpc' \in [Receivers -> Phases]
      /\ mutex' \in Receivers \cup {None}
  BY <1>2, <1>3, PhaseStep
<1>5. TableSame /\ wpc' = wpc /\ connected' = connected
  BY <1>2 DEF TableSame, connVars, apiVars, sendVars
<1>6. TableInv' /\ (Started' <=> Started)
  BY <1>5, TableFrame DEF IInv
<1>7. TypeOK'
  BY <1>1, <1>2, <1>4, <1>5, SameTypes, StillTypes DEF IInv, Phases
<1> QED
  BY <1>4, <1>6, <1>7 DEF Kept

(* A step that leaves the readers alone.                                    *)
LEMMA ReadersSame ==
    ASSUME IInv, UNCHANGED ringVars, UNCHANGED readVars, UNCHANGED <<msg, used, sent, count>>,
           \A s \in Senders : wpc'[s] = "push" <=> wpc[s] = "push"
    PROVE  Turns' /\ Still /\ rdpc' \in [Receivers -> Phases]
             /\ mutex' \in Receivers \cup {None} /\ tm' \in [Receivers -> Tms]
<1>1. /\ rdpc' = rdpc /\ mutex' = mutex /\ tm' = tm /\ delivered' = delivered
      /\ rpc' = rpc
  BY DEF readVars, ringVars
<1>2. Turns'
  BY <1>1, Zenon DEF IInv, Turns
<1>3. Still
  BY <1>1 DEF Still, ringVars
<1>4. /\ rdpc' \in [Receivers -> Phases]
      /\ mutex' \in Receivers \cup {None} /\ tm' \in [Receivers -> Tms]
  BY <1>1, Zenon DEF IInv, TypeOK, Phases
<1> QED
  BY <1>2, <1>3, <1>4

(* A channel's invariant types its table, now and after the step.           *)
LEMMA ChannelTypes == (ChannelTable => Conn!ConnTypeOK) /\ (ChannelTable' => Conn!ConnTypeOK')
BY Zenon DEF ChannelTable, Table!IInv, Conn!ConnTypeOK, Table!ConnTypeOK, Conn!Bits, Table!Bits,
      Conn!SENDER, Table!SENDER, Conn!RECEIVER, Table!RECEIVER

(* connect: the identifier.  A reader that has connected keeps its role, and *)
(* is not between the two steps of connect again.                           *)
LEMMA ConnectSlotKeeps ==
    ASSUME Supported, IInv, NEW p \in Ports, ConnectSlot(p)
    PROVE  Kept
<1>1. /\ apc[p] = "idle" /\ Conn!Connect(p, Mode(p))
      /\ apc' = [apc EXCEPT ![p] = IF connected_id'[p] = 0 THEN "idle" ELSE "claimed"]
      /\ UNCHANGED ringVars /\ UNCHANGED readVars /\ UNCHANGED <<msg, used, sent, count>>
      /\ UNCHANGED wpc /\ UNCHANGED connected
  BY DEF ConnectSlot, sendVars
<1>2. /\ apc \in [Ports -> {"idle", "claimed", "flagged", "cleared"}]
      /\ connected \in [Ports -> BOOLEAN]
      /\ wpc \in [Senders -> {"idle", "open", "admitted", "push", "notify"}]
      /\ Conn!ConnTypeOK
  BY DEF IInv, TypeOK
<1>3. /\ apc' \in [Ports -> {"idle", "claimed", "flagged", "cleared"}]
      /\ \A q \in Ports : q # p => apc'[q] = apc[q]
      /\ apc'[p] \in {"idle", "claimed"}
  BY <1>1, <1>2
<1>4. /\ connected_id[p] = 0
      /\ connected_id' = [connected_id EXCEPT ![p] = Table!NewId(Mode(p))]
      /\ role' = [role EXCEPT ![p] = Mode(p)]
  BY <1>1, SameTable, Zenon DEF Table!Connect
<1>5. /\ connected_id \in [Ports -> 0 .. MaxCnt] /\ role \in [Ports -> {0, 1, 2}]
  BY <1>2, SameTable DEF Conn!ConnTypeOK
<1>6. /\ Mode(p) \in {Table!SENDER, Table!RECEIVER}
      /\ p \in Receivers => Mode(p) = Table!RECEIVER
      /\ Table!SENDER = 1 /\ Table!RECEIVER = 2 /\ Conn!RECEIVER = 2
  BY Roles, SameTable
<1>7. /\ IF Broadcast THEN RouteTable' ELSE ChannelTable'
      /\ Conn!ConnTypeOK'
  <2>1. CASE Channel
    <3>1. ChannelTable /\ ~Broadcast
      BY <2>1 DEF IInv, TableInv, Channel
    <3>2. ChannelTable'
      BY <1>1, <1>6, <2>1, <3>1, ChannelStep
    <3> QED
      BY <3>1, <3>2, ChannelTypes
  <2>2. CASE Route
    <3>1. RouteTable /\ Broadcast = TRUE
      BY <2>2, JoinsAssumption DEF IInv, TableInv, Route
    <3>2. \A q \in Ports : apc'[q] \in {"idle", "claimed"}
      BY <1>3, <3>1 DEF RouteTable
    <3> QED
      BY <1>1, <1>2, <2>2, <3>1, <3>2, RouteStep
  <2> QED
    BY <2>1, <2>2 DEF Supported
<1>8. Started => Started'
  <2> SUFFICES ASSUME Started, NEW c \in Receivers
               PROVE  role'[c] = Conn!RECEIVER /\ apc'[c] # "claimed"
    BY DEF Started
  <2>1. role[c] = Conn!RECEIVER /\ apc[c] # "claimed" /\ c \in Ports
    BY DEF Started, Ports
  <2>2. CASE c # p
    BY <1>3, <1>4, <1>5, <2>1, <2>2
  <2>3. CASE c = p
    <3>1. CASE Channel
      <4>1. MaxCnt - 1 \in cc /\ ~Broadcast
        BY <1>6, <2>1, <3>1 DEF IInv, TableInv, Channel, ChannelTable
      <4>2. Table!NewId(Mode(p)) = 0
        BY <1>6, <2>3, <4>1 DEF Table!NewId, Table!UnicastId
      <4> QED
        BY <1>1, <1>2, <1>4, <1>5, <1>6, <2>3, <4>2
    <3>2. CASE Route
      BY <1>4, <1>6, <2>1, <2>3, <3>2, JoinsAssumption DEF IInv, TableInv, Route, RouteTable
    <3> QED
      BY <3>1, <3>2 DEF Supported
  <2> QED
    BY <2>2, <2>3
<1>9. \A s \in Senders : wpc'[s] # "idle" => role'[s] # 0 /\ Started'
  BY <1>1, <1>4, <1>5, <1>6, <1>8 DEF IInv, TableInv, Ports
<1>10. /\ Turns' /\ Still /\ rdpc' \in [Receivers -> Phases]
       /\ mutex' \in Receivers \cup {None} /\ tm' \in [Receivers -> Tms]
  BY <1>1, ReadersSame
<1>11. TypeOK'
  BY <1>1, <1>2, <1>3, <1>7, <1>10, StillTypes DEF IInv, Phases
<1>12. TableInv'
  BY <1>7, <1>9 DEF TableInv
<1> QED
  BY <1>8, <1>10, <1>11, <1>12 DEF Kept

(* connect: the cursor.  Nothing has been written yet, so r_ is where the   *)
(* reader's cursor stands anyway.                                           *)
LEMMA ConnectCursorKeeps ==
    ASSUME Supported, IInv, NEW p \in Ports, ConnectCursor(p)
    PROVE  Kept
<1>1. /\ apc[p] = "claimed"
      /\ apc' = [apc EXCEPT ![p] = "idle"]
      /\ connected' = [connected EXCEPT ![p] = TRUE]
      /\ IF p \in Receivers THEN Ring!Attach(p) ELSE UNCHANGED ringVars
      /\ UNCHANGED connVars /\ UNCHANGED readVars /\ UNCHANGED <<msg, used, sent, count>>
      /\ UNCHANGED wpc
  BY DEF ConnectCursor, sendVars
<1>2. /\ apc \in [Ports -> {"idle", "claimed", "flagged", "cleared"}]
      /\ connected \in [Ports -> BOOLEAN]
      /\ wpc \in [Senders -> {"idle", "open", "admitted", "push", "notify"}]
      /\ Conn!ConnTypeOK /\ cursor \in [Receivers -> Ring!Words]
  BY DEF IInv, TypeOK, Ring!TypeOK
<1>3. /\ apc' \in [Ports -> {"idle", "claimed", "flagged", "cleared"}]
      /\ \A q \in Ports : apc'[q] = IF q = p THEN "idle" ELSE apc[q]
  BY <1>1, <1>2
<1>4. connected' \in [Ports -> BOOLEAN]
  BY <1>1, <1>2, Zenon
<1>5. UNCHANGED ringVars
  <2>1. CASE p \in Receivers
    <3>1. ~Started
      BY <1>1, <2>1 DEF Started
    <3>2. cursor[p] = rd
      BY <2>1, <3>1 DEF IInv, Fresh
    <3>3. cursor' = cursor
      BY <1>1, <1>2, <2>1, <3>2 DEF Ring!Attach
    <3> QED
      BY <1>1, <2>1, <3>3 DEF Ring!Attach, Ring!pushVars, ringVars
  <2> QED
    BY <1>1, <2>1
<1>6. cc' = cc /\ connected_id' = connected_id /\ role' = role /\ joins' = joins
  BY <1>1 DEF connVars
<1>7. Conn!ConnTypeOK'
  BY <1>2, <1>6, Zenon DEF Conn!ConnTypeOK
<1>8. Started => Started'
  BY <1>3, <1>6 DEF Started, Ports
<1>9. ChannelTable => ChannelTable'
  BY <1>6, Zenon DEF ChannelTable, Table!IInv, Table!ConnTypeOK, Table!LowBits,
     Table!IdsByRole, Table!ReceiverBit, Table!SomeBit
<1>10. RouteTable => RouteTable'
  <2>1. (\A q \in Ports : apc[q] \in {"idle", "claimed"})
          => (\A q \in Ports : apc'[q] \in {"idle", "claimed"})
    BY <1>3
  <2> QED
    BY <1>6, <2>1, Zenon DEF RouteTable
<1>11. TableInv'
  BY <1>1, <1>6, <1>8, <1>9, <1>10, Zenon DEF IInv, TableInv
<1>12. /\ Turns' /\ Still /\ rdpc' \in [Receivers -> Phases]
       /\ mutex' \in Receivers \cup {None} /\ tm' \in [Receivers -> Tms]
  BY <1>1, <1>5, ReadersSame
<1>13. TypeOK'
  BY <1>1, <1>2, <1>3, <1>4, <1>7, <1>12, StillTypes DEF IInv, Phases
<1> QED
  BY <1>8, <1>11, <1>12, <1>13 DEF Kept

(* disconnect of a channel's port: its flag, its bit and the wakeup.        *)
LEMMA DisconnectKeeps ==
    ASSUME Supported, IInv, NEW p \in Ports,
           DisconnectFlag(p) \/ DisconnectSlot(p) \/ DisconnectQuit(p)
    PROVE  Kept
<1>1. /\ apc \in [Ports -> {"idle", "claimed", "flagged", "cleared"}]
      /\ connected \in [Ports -> BOOLEAN]
      /\ wpc \in [Senders -> {"idle", "open", "admitted", "push", "notify"}]
      /\ mutex \in Receivers \cup {None} /\ tm \in [Receivers -> Tms]
      /\ rdpc \in [Receivers -> Phases]
      /\ Conn!ConnTypeOK
  BY DEF IInv, TypeOK, Phases
<1>2. /\ UNCHANGED ringVars /\ UNCHANGED <<msg, used, sent, count>>
      /\ UNCHANGED <<wpc, tm, mutex, delivered>>
      /\ apc[p] # "claimed"
      /\ \E x \in {"idle", "flagged", "cleared"} : apc' = [apc EXCEPT ![p] = x]
      /\ connected' = connected \/ connected' = [connected EXCEPT ![p] = FALSE]
  BY DEF DisconnectFlag, DisconnectSlot, DisconnectQuit, sendVars, readVars
<1>3. /\ apc' \in [Ports -> {"idle", "claimed", "flagged", "cleared"}]
      /\ \A q \in Ports : apc'[q] = "claimed" <=> apc[q] = "claimed"
  BY <1>1, <1>2
<1>4. connected' \in [Ports -> BOOLEAN]
  BY <1>1, <1>2, Zenon
<1>5. Channel
  <2>1. CASE Route
    <3>1. p \notin Leavers /\ apc[p] \in {"idle", "claimed"}
      BY <2>1, JoinsAssumption DEF Route, IInv, TableInv, RouteTable
    <3> QED
      BY <3>1 DEF DisconnectFlag, DisconnectSlot, DisconnectQuit
  <2> QED
    BY <2>1 DEF Supported
<1>6. ChannelTable /\ ~Broadcast
  BY <1>5 DEF Channel, IInv, TableInv
<1>7. ChannelTable' /\ role' = role
  <2>1. CASE DisconnectSlot(p)
    <3>1. Conn!Disconnect(p)
      BY <2>1 DEF DisconnectSlot
    <3> QED
      BY <1>5, <1>6, <3>1, ChannelStep DEF Conn!Disconnect
  <2>2. CASE UNCHANGED connVars
    BY <1>6, <2>2, Zenon DEF connVars, ChannelTable, Table!IInv, Table!ConnTypeOK, Table!LowBits,
       Table!IdsByRole, Table!ReceiverBit, Table!SomeBit
  <2> QED
    BY <2>1, <2>2 DEF DisconnectFlag, DisconnectQuit
<1>8. Started => Started'
  BY <1>3, <1>7 DEF Started, Ports
<1>9. TableInv'
  BY <1>2, <1>6, <1>7, <1>8 DEF IInv, TableInv
<1>10. Turns' /\ Still /\ rdpc' \in [Receivers -> Phases]
  <2>1. CASE DisconnectQuit(p)
    <3>1. rdpc' = [c \in Receivers |-> IF c \in Waiting THEN "woken" ELSE rdpc[c]]
      BY <2>1 DEF DisconnectQuit, WakeAll
    <3> QED
      BY <1>2, <3>1, WakeStep
  <2>2. CASE UNCHANGED rdpc
    <3>1. UNCHANGED readVars
      BY <1>2, <2>2 DEF readVars
    <3> QED
      BY <1>2, <3>1, ReadersSame
  <2> QED
    BY <2>1, <2>2 DEF DisconnectFlag, DisconnectSlot, readVars
<1>11. TypeOK'
  BY <1>1, <1>2, <1>3, <1>4, <1>7, <1>10, ChannelTypes, StillTypes DEF IInv, Phases
<1> QED
  BY <1>8, <1>9, <1>10, <1>11 DEF Kept

(* write up to the message, and after it.  A writer that has disconnected   *)
(* and writes again asks for the reader's bit and is turned away.           *)
LEMMA WritePhases ==
    ASSUME Supported, IInv, NEW s \in Senders,
           WriteOpen(s) \/ WriteCheck(s) \/ WriteNotify(s)
    PROVE  Kept
<1>1. /\ apc \in [Ports -> {"idle", "claimed", "flagged", "cleared"}]
      /\ connected \in [Ports -> BOOLEAN]
      /\ wpc \in [Senders -> {"idle", "open", "admitted", "push", "notify"}]
      /\ mutex \in Receivers \cup {None} /\ tm \in [Receivers -> Tms]
      /\ rdpc \in [Receivers -> Phases]
      /\ Conn!ConnTypeOK /\ s \in Ports
  BY DEF IInv, TypeOK, Phases, Ports
<1>2. /\ UNCHANGED ringVars /\ UNCHANGED <<msg, used, sent, count>>
      /\ UNCHANGED <<apc, connected, tm, mutex, delivered>>
      /\ wpc[s] \in {"idle", "open", "notify"}
      /\ \E x \in {"idle", "open", "admitted"} : wpc' = [wpc EXCEPT ![s] = x]
  BY DEF WriteOpen, WriteCheck, WriteNotify, apiVars, readVars
<1>3. /\ wpc' \in [Senders -> {"idle", "open", "admitted", "push", "notify"}]
      /\ \A q \in Senders : wpc'[q] = "push" <=> wpc[q] = "push"
      /\ \A q \in Senders : q # s => wpc'[q] = wpc[q]
  BY <1>1, <1>2
<1>4. /\ Conn!ConnTypeOK'
      /\ IF Broadcast THEN RouteTable' ELSE ChannelTable'
      /\ \A q \in Ports : role'[q] = 0 => role[q] = 0
      /\ \A c \in Receivers : role'[c] = role[c]
  <2>1. CASE UNCHANGED connVars
    <3>1. /\ cc' = cc /\ connected_id' = connected_id /\ role' = role /\ joins' = joins
          /\ apc' = apc
      BY <1>2, <2>1 DEF connVars
    <3>2. TableSame
      BY <3>1 DEF TableSame
    <3>3. Conn!ConnTypeOK'
      BY <3>2, SameTypes DEF IInv
    <3>4. ChannelTable => ChannelTable'
      BY <3>1, Zenon DEF ChannelTable, Table!IInv, Table!ConnTypeOK, Table!LowBits,
         Table!IdsByRole, Table!ReceiverBit, Table!SomeBit
    <3>5. RouteTable => RouteTable'
      BY <3>1, Zenon DEF RouteTable
    <3> QED
      BY <3>1, <3>3, <3>4, <3>5, Zenon DEF IInv, TableInv
  <2>2. CASE Conn!Connect(s, Conn!RECEIVER) /\ role[s] # 0
    <3>1. /\ connected_id[s] = 0 /\ Conn!RECEIVER = Table!RECEIVER
          /\ role' = [role EXCEPT ![s] = Table!RECEIVER]
      BY <2>2, SameTable, Zenon DEF Conn!Connect
    <3>2. Table!RECEIVER = 2 /\ role \in [Ports -> {0, 1, 2}] /\ s \notin Receivers
      BY <1>1, Roles, SameTable DEF Conn!ConnTypeOK
    <3>3. Channel
      BY <1>1, <2>2, <3>1, JoinsAssumption
      DEF Supported, Route, IInv, TableInv, RouteTable
    <3>4. ChannelTable /\ ~Broadcast
      BY <3>3 DEF Channel, IInv, TableInv
    <3>5. ChannelTable'
      BY <1>1, <2>2, <3>1, <3>3, <3>4, ChannelStep
    <3> QED
      BY <3>1, <3>2, <3>4, <3>5, ChannelTypes DEF Ports
  <2>3. UNCHANGED connVars \/ (Conn!Connect(s, Conn!RECEIVER) /\ role[s] # 0)
    BY DEF WriteOpen, WriteCheck, WriteNotify
  <2> QED
    BY <2>1, <2>2, <2>3
<1>5. Started' <=> Started
  BY <1>2, <1>4, Zenon DEF Started
<1>6. wpc'[s] # "idle" => role[s] # 0 /\ Started
  <2>1. CASE WriteOpen(s)
    BY <2>1, ReaderCount DEF WriteOpen
  <2>2. CASE WriteCheck(s)
    BY <2>2 DEF WriteCheck, IInv, TableInv
  <2>3. CASE WriteNotify(s)
    BY <2>3 DEF WriteNotify, IInv, TableInv
  <2> QED
    BY <2>1, <2>2, <2>3
<1>7. TableInv'
  BY <1>3, <1>4, <1>5, <1>6 DEF IInv, TableInv, Ports
<1>8. Turns' /\ Still /\ rdpc' \in [Receivers -> Phases]
  <2>1. CASE UNCHANGED rdpc
    <3>1. UNCHANGED readVars
      BY <1>2, <2>1 DEF readVars
    <3> QED
      BY <1>2, <1>3, <3>1, ReadersSame
  <2>2. CASE WriteNotify(s)
    <3>1. \E W \in SUBSET Waiting :
            rdpc' = [c \in Receivers |-> IF c \in W THEN "woken" ELSE rdpc[c]]
      <4>1. CASE WakeAll
        BY <4>1 DEF WakeAll
      <4>2. CASE WakeOne /\ Waiting = {}
        BY <1>1, <4>2 DEF WakeOne
      <4>3. CASE WakeOne /\ Waiting # {}
        <5>1. PICK c \in Waiting : rdpc' = [rdpc EXCEPT ![c] = "woken"]
          BY <4>3 DEF WakeOne
        <5>2. rdpc' = [d \in Receivers |-> IF d \in {c} THEN "woken" ELSE rdpc[d]]
          BY <1>1, <5>1
        <5> QED
          BY <5>1, <5>2
      <4> QED
        BY <2>2, <4>1, <4>2, <4>3 DEF WriteNotify
    <3>2. PICK W \in SUBSET Waiting :
            rdpc' = [c \in Receivers |-> IF c \in W THEN "woken" ELSE rdpc[c]]
      BY <3>1
    <3> QED
      BY <1>2, <1>3, <3>2, WakeStep
  <2> QED
    BY <2>1, <2>2 DEF WriteOpen, WriteCheck, readVars
<1>9. TypeOK'
  BY <1>1, <1>2, <1>3, <1>4, <1>8, StillTypes DEF IInv, Phases
<1> QED
  BY <1>5, <1>7, <1>8, <1>9 DEF Kept

-----------------------------------------------------------------------------
(* Steps on the ring, the messages and their counts.                        *)

(* Where the counters and the readers stand, as natural numbers.            *)
LEMMA Standing ==
    ASSUME IInv
    PROVE  /\ Len(sent) \in Nat /\ DOMAIN sent = 1 .. Len(sent)
           /\ Filled \in Nat /\ Filled <= RingSize - 1
           /\ Released \in Nat /\ Len(sent) = Released + Filled
           /\ \A c \in Receivers :
                /\ Passed(c) \in Nat /\ Passed(c) <= Filled
                /\ Taken(c) \in Nat /\ Taken(c) = Released + Passed(c)
                /\ rpc[c] = "taken" => Passed(c) >= 1
                /\ Given(c) \in Nat /\ Finished(c) \in Nat
                /\ Finished(c) \in {Taken(c), Taken(c) - 1}
                /\ Given(c) \in {Taken(c), Taken(c) - 1}
<1>1. sent \in Seq(Messages) /\ rd \in Ring!Words /\ wr \in Ring!Words
        /\ \A c \in Receivers : cursor[c] \in Ring!Words
  BY DEF IInv, TypeOK, Ring!TypeOK
<1>2. Len(sent) \in Nat /\ DOMAIN sent = 1 .. Len(sent)
  BY <1>1
<1>3. Filled \in Nat /\ \A c \in Receivers : Passed(c) \in Nat
  BY <1>1, RingDist DEF Filled, Passed
<1>4. /\ Filled <= RingSize - 1 /\ Filled <= Len(sent)
      /\ \A c \in Receivers : Passed(c) <= Filled /\ (rpc[c] = "taken" => Passed(c) >= 1)
  BY DEF IInv, RingInv
<1>5. Released = Len(sent) - Filled
  BY DEF Released, Filled
<1>6. Released \in Nat /\ Len(sent) = Released + Filled
  BY <1>2, <1>3, <1>4, <1>5
<1>7. ASSUME NEW c \in Receivers
      PROVE  /\ Taken(c) \in Nat /\ Taken(c) = Released + Passed(c)
             /\ Given(c) \in Nat /\ Finished(c) \in Nat
             /\ Finished(c) \in {Taken(c), Taken(c) - 1}
             /\ Given(c) \in {Taken(c), Taken(c) - 1}
  <2>1. Taken(c) = Released + Passed(c) /\ Taken(c) \in Nat
    BY <1>3, <1>6 DEF Taken
  <2>2. rpc[c] = "taken" => Taken(c) - 1 \in Nat
    BY <1>3, <1>4, <1>6, <2>1
  <2> QED
    BY <2>1, <2>2 DEF Given, Finished
<1> QED
  BY <1>2, <1>3, <1>4, <1>6, <1>7

\* The writer's step leaves the counters and the readers alone.
WriterOnly == UNCHANGED <<rd, wr, cursor, rpc, got, sent, rdpc, mutex, delivered>>

(* What it keeps of the invariant. *)
LEMMA WriterKeeps ==
    ASSUME IInv, WriterOnly, TableSame, Started,
           \A s \in Senders : wpc'[s] # "idle" => wpc[s] # "idle"
    PROVE  /\ Turns' /\ ReaderInv' /\ ReleaseInv' /\ Fresh' /\ TableInv'
           /\ Filled' = Filled /\ Released' = Released
           /\ \A c \in Receivers : Passed(c)' = Passed(c)
           /\ \A i : Waits(i)' = Waits(i)
<1>1. /\ Filled' = Filled /\ Released' = Released
      /\ \A c \in Receivers : Passed(c)' = Passed(c) /\ Taken(c)' = Taken(c)
  BY Zenon DEF WriterOnly, Filled, Passed, Released, Taken
<1>2. \A c \in Receivers : Given(c)' = Given(c) /\ Finished(c)' = Finished(c)
  BY <1>1, Zenon DEF WriterOnly, Given, Finished
<1>3. \A i : Waits(i)' = Waits(i)
  BY <1>2, Zenon DEF Waits
<1>4. Turns'
  BY Zenon DEF IInv, Turns, WriterOnly
<1>5. ReaderInv'
  BY <1>1, <1>2, Zenon DEF IInv, ReaderInv, WriterOnly
<1>6. ReleaseInv'
  BY <1>1, <1>2, Zenon DEF IInv, ReleaseInv, WriterOnly
<1>7. TableInv' /\ (Started' <=> Started)
  BY TableFrame DEF IInv
<1>8. Fresh'
  BY <1>7 DEF Fresh
<1> QED
  BY <1>1, <1>3, <1>4, <1>5, <1>6, <1>7, <1>8

(* The message and its usage count.                                         *)
LEMMA WriteCountKeeps ==
    ASSUME Supported, IInv, NEW s \in Senders, WriteCount(s)
    PROVE  IInv'
<1>1. /\ wpc[s] = "admitted" /\ used < MaxMsgs
      /\ wpc' = [wpc EXCEPT ![s] = "push"]
      /\ msg' = [msg EXCEPT ![s] = used + 1]
      /\ used' = used + 1
      /\ count' = [count EXCEPT ![used + 1] = Conn!recv_count]
      /\ UNCHANGED ringVars /\ UNCHANGED connVars /\ UNCHANGED apiVars
      /\ UNCHANGED sent /\ UNCHANGED readVars
  BY DEF WriteCount
<1>2. /\ wpc \in [Senders -> {"idle", "open", "admitted", "push", "notify"}]
      /\ msg \in [Senders -> 0 .. MaxMsgs]
      /\ used \in 0 .. MaxMsgs
      /\ count \in [Messages -> 0 .. CountSize - 1]
      /\ sent \in Seq(Messages)
  BY DEF IInv, TypeOK
<1>3. /\ Conn!recv_count = Readers /\ Readers \in Nat /\ Readers < CountSize
      /\ CountSize \in Nat /\ Started /\ Senders = {s}
  BY <1>1, CountsReaders, ReaderCount DEF IInv, TableInv
<1>4. /\ rd' = rd /\ wr' = wr /\ block' = block /\ spc' = spc /\ item' = item
      /\ cur_wt' = cur_wt /\ sent' = sent
  BY <1>1 DEF ringVars
<1>5. /\ Turns' /\ ReaderInv' /\ ReleaseInv' /\ Fresh' /\ TableInv'
      /\ Filled' = Filled /\ Released' = Released
      /\ \A c \in Receivers : Passed(c)' = Passed(c)
      /\ \A i : Waits(i)' = Waits(i)
  <2>1. WriterOnly /\ TableSame
    BY <1>1 DEF WriterOnly, TableSame, ringVars, readVars, connVars, apiVars
  <2>2. \A q \in Senders : wpc'[q] # "idle" => wpc[q] # "idle"
    BY <1>1, <1>2, <1>3
  <2> QED
    BY <1>3, <2>1, <2>2, WriterKeeps
<1>6. used \in Nat /\ used + 1 \in Messages
  BY <1>1, <1>2, IpcAssumption DEF Messages
<1>7. /\ count' \in [Messages -> 0 .. CountSize - 1]
      /\ count'[used + 1] = Readers
      /\ \A m \in Messages : m # used + 1 => count'[m] = count[m]
  BY <1>1, <1>2, <1>3, <1>6
<1>8. \A i \in DOMAIN sent : sent[i] \in Messages /\ sent[i] <= used
  BY <1>2 DEF IInv, SenderInv
<1>9. TypeOK'
  <2>1. Ring!TypeOK'
    <3>1. Ring!vars' = Ring!vars
      BY <1>1 DEF ringVars, Ring!vars, Ring!pushVars, Ring!popVars
    <3> QED
      BY <3>1, RingTypes DEF IInv, TypeOK
  <2>2. /\ wpc' \in [Senders -> {"idle", "open", "admitted", "push", "notify"}]
        /\ msg' \in [Senders -> 0 .. MaxMsgs] /\ used' \in 0 .. MaxMsgs
    BY <1>1, <1>2, <1>6, IpcAssumption DEF Messages
  <2>3. /\ UNCHANGED connVars /\ connected' = connected /\ apc' = apc /\ rdpc' = rdpc /\ tm' = tm
        /\ mutex' = mutex /\ delivered' = delivered
    BY <1>1 DEF apiVars, readVars
  <2>4. Conn!ConnTypeOK'
    BY <2>3, Zenon DEF connVars, IInv, TypeOK, Conn!ConnTypeOK
  <2> QED
    BY <1>4, <1>7, <2>1, <2>2, <2>3, <2>4, Zenon DEF IInv, TypeOK
<1>10. RingInv'
  BY <1>1, <1>4, <1>5, Zenon DEF IInv, RingInv, ringVars
<1>11. SenderInv'
  <2>1. spc[s] = "idle"
    BY <1>1 DEF IInv, SenderInv
  <2>2. msg'[s] = used + 1
    BY <1>1, <1>2
  <2>3. \A i \in DOMAIN sent : sent[i] < used + 1 /\ sent[i] <= used + 1
    BY <1>6, <1>8 DEF Messages
  <2> QED
    BY <1>1, <1>3, <1>4, <1>6, <1>7, <2>1, <2>2, <2>3 DEF IInv, SenderInv
<1>12. CountInv'
  <2>1. \A i \in DOMAIN sent : sent[i] # used + 1
    BY <1>6, <1>8 DEF Messages
  <2> QED
    BY <1>4, <1>5, <1>7, <1>8, <2>1, Zenon DEF IInv, CountInv
<1> QED
  BY <1>5, <1>9, <1>10, <1>11, <1>12 DEF IInv

(* A step of the ring keeps the types, when the rest of the state does.     *)
LEMMA RingStepTypes ==
    ASSUME TypeOK, Ring!Next, UNCHANGED connVars, UNCHANGED apiVars,
           wpc' \in [Senders -> {"idle", "open", "admitted", "push", "notify"}],
           rdpc' \in [Receivers -> Phases],
           sent' \in Seq(Messages),
           UNCHANGED <<msg, used, tm, mutex, delivered, count>>
    PROVE  TypeOK'
<1>1. Ring!TypeOK'
  BY RingTypes DEF TypeOK
<1>2. Conn!ConnTypeOK'
  BY Zenon DEF connVars, TypeOK, Conn!ConnTypeOK
<1>3. /\ connected' \in [Ports -> BOOLEAN]
      /\ apc' \in [Ports -> {"idle", "claimed", "flagged", "cleared"}]
  BY Zenon DEF apiVars, TypeOK
<1>4. /\ msg' \in [Senders -> 0 .. MaxMsgs] /\ used' \in 0 .. MaxMsgs
      /\ count' \in [Messages -> 0 .. CountSize - 1]
  BY Zenon DEF TypeOK
<1>5. /\ tm' \in [Receivers -> Tms] /\ mutex' \in Receivers \cup {None}
      /\ delivered' \in [Receivers -> Seq(Messages)]
  BY Zenon DEF TypeOK
<1> QED
  BY <1>1, <1>2, <1>3, <1>4, <1>5, Zenon DEF TypeOK, Phases

(* push up to the publication.                                              *)
LEMMA PushKeeps ==
    ASSUME Supported, IInv, NEW s \in Senders, wpc[s] = "push",
           \/ Ring!PushLoad(s, msg[s]) /\ UNCHANGED <<wpc, sent>>
           \/ Ring!PushFull(s)         /\ wpc' = [wpc EXCEPT ![s] = "idle"] /\ UNCHANGED sent
           \/ Ring!PushClaim(s)        /\ UNCHANGED <<wpc, sent>>
           \/ Ring!PushStore(s)        /\ UNCHANGED <<wpc, sent>>,
           UNCHANGED connVars, UNCHANGED apiVars, UNCHANGED <<msg, used, count>>,
           UNCHANGED readVars
    PROVE  IInv'
<1>1. /\ wpc \in [Senders -> {"idle", "open", "admitted", "push", "notify"}]
      /\ rd \in Ring!Words /\ wr \in Ring!Words
      /\ spc \in [Senders -> {"idle", "loaded", "claimed", "stored"}]
      /\ cur_wt \in [Senders -> Ring!Slots] /\ block \in [Ring!Slots -> Messages \cup {None}]
      /\ item \in [Senders -> Messages \cup {None}]
      /\ sent \in Seq(Messages) /\ used \in 0 .. MaxMsgs /\ rdpc \in [Receivers -> Phases]
  BY DEF IInv, TypeOK, Ring!TypeOK, Phases
<1>2. Senders = {s} /\ Started
  BY ReaderCount DEF IInv, TableInv
<1>3. /\ UNCHANGED <<rd, wr, cursor, rpc, got, sent>>
      /\ wpc' = wpc \/ wpc' = [wpc EXCEPT ![s] = "idle"]
  BY DEF Ring!PushLoad, Ring!PushFull, Ring!PushClaim, Ring!PushStore, Ring!popVars
<1>4. /\ wpc' \in [Senders -> {"idle", "open", "admitted", "push", "notify"}]
      /\ \A q \in Senders : wpc'[q] # "idle" => wpc[q] # "idle"
  BY <1>1, <1>2, <1>3
<1>5. /\ Turns' /\ ReaderInv' /\ ReleaseInv' /\ Fresh' /\ TableInv'
      /\ Filled' = Filled /\ Released' = Released
      /\ \A c \in Receivers : Passed(c)' = Passed(c)
      /\ \A i : Waits(i)' = Waits(i)
  <2>1. WriterOnly /\ TableSame
    BY <1>3 DEF WriterOnly, TableSame, readVars, connVars, apiVars
  <2> QED
    BY <1>2, <1>4, <2>1, WriterKeeps
<1>6. /\ msg[s] = used /\ used >= 1 /\ count[used] = Readers
      /\ \A i \in DOMAIN sent : sent[i] < used
      /\ spc[s] # "idle" => item[s] = msg[s] /\ cur_wt[s] = Ring!Index(wr)
      /\ spc[s] \in {"claimed", "stored"} => Filled < RingSize - 1
      /\ spc[s] = "stored" => block[Ring!Index(wr)] = item[s]
  BY DEF IInv, SenderInv
<1>7. msg[s] \in Messages
  BY <1>1, <1>6, IpcAssumption DEF Messages
<1>8. TypeOK'
  <2>1. Ring!Next
    BY <1>7 DEF Ring!Next, Ring!Push
  <2>2. rdpc' = rdpc /\ sent' = sent /\ UNCHANGED <<tm, mutex, delivered>>
    BY <1>3 DEF readVars
  <2> QED
    BY <1>1, <1>4, <2>1, <2>2, RingStepTypes DEF IInv
<1>9. /\ Filled \in Nat /\ Filled <= RingSize - 1
      /\ Ring!SlotAt(rd, Filled) = Ring!Index(wr) /\ Ring!Index(wr) \in Ring!Slots
  BY <1>1, Standing, RingDist, RingIndex DEF Filled
<1>10. /\ spc'[s] # "idle" =>
            wpc'[s] = "push" /\ item'[s] = msg[s] /\ cur_wt'[s] = Ring!Index(wr)
       /\ spc'[s] \in {"claimed", "stored"} => Filled < RingSize - 1
       /\ spc'[s] = "stored" => block'[Ring!Index(wr)] = item'[s]
       /\ block' = block \/ (spc[s] = "claimed" /\ block' = [block EXCEPT ![Ring!Index(wr)] = msg[s]])
  <2>1. CASE Ring!PushLoad(s, msg[s]) /\ UNCHANGED <<wpc, sent>>
    BY <1>1, <2>1 DEF Ring!PushLoad
  <2>2. CASE Ring!PushFull(s) /\ wpc' = [wpc EXCEPT ![s] = "idle"]
    BY <1>1, <2>2 DEF Ring!PushFull
  <2>3. CASE Ring!PushClaim(s) /\ UNCHANGED <<wpc, sent>>
    <3>1. Filled # RingSize - 1
      BY <1>1, <1>6, <1>9, <2>3, FullTest DEF Ring!PushClaim, Ring!Full, Filled
    <3>2. Filled < RingSize - 1
      BY <1>9, <3>1, RingSizes
    <3> QED
      BY <1>1, <1>6, <2>3, <3>2 DEF Ring!PushClaim
  <2>4. CASE Ring!PushStore(s) /\ UNCHANGED <<wpc, sent>>
    BY <1>1, <1>6, <1>9, <2>4 DEF Ring!PushStore
  <2> QED
    BY <2>1, <2>2, <2>3, <2>4
<1>11. SenderInv'
  <2>1. UNCHANGED <<msg, used, count, sent, wr>>
    BY <1>3
  <2> QED
    BY <1>2, <1>5, <1>6, <1>10, <2>1 DEF IInv, SenderInv
<1>12. RingInv'
  <2>1. ASSUME NEW i \in 0 .. Filled - 1
        PROVE  block'[Ring!SlotAt(rd, i)] = sent[Released + i + 1]
    <3>1. block[Ring!SlotAt(rd, i)] = sent[Released + i + 1]
      BY <2>1 DEF IInv, RingInv
    <3>2. CASE block' = block
      BY <3>1, <3>2
    <3>3. CASE spc[s] = "claimed" /\ block' = [block EXCEPT ![Ring!Index(wr)] = msg[s]]
      <4>1. i \in 0 .. RingSize - 1 /\ Filled \in 0 .. RingSize - 1 /\ i # Filled
        BY <1>9, RingSizes
      <4>2. Ring!SlotAt(rd, i) # Ring!Index(wr) /\ Ring!SlotAt(rd, i) \in Ring!Slots
        BY <1>1, <1>9, <4>1, SlotPlaces
      <4> QED
        BY <1>1, <3>1, <3>3, <4>2
    <3> QED
      BY <1>10, <3>2, <3>3
  <2> QED
    BY <1>3, <1>5, <2>1, Zenon DEF IInv, RingInv
<1>13. CountInv'
  BY <1>3, <1>5, Zenon DEF IInv, CountInv
<1> QED
  BY <1>5, <1>8, <1>11, <1>12, <1>13 DEF IInv

(* push publishes the message.                                              *)
LEMMA PublishKeeps ==
    ASSUME Supported, IInv, NEW s \in Senders, wpc[s] = "push",
           Ring!PushPublish(s), wpc' = [wpc EXCEPT ![s] = "notify"],
           sent' = Append(sent, msg[s]),
           UNCHANGED connVars, UNCHANGED apiVars, UNCHANGED <<msg, used, count>>,
           UNCHANGED readVars
    PROVE  IInv'
<1> DEFINE n == Len(sent)
<1>1. /\ wpc \in [Senders -> {"idle", "open", "admitted", "push", "notify"}]
      /\ rd \in Ring!Words /\ wr \in Ring!Words
      /\ spc \in [Senders -> {"idle", "loaded", "claimed", "stored"}]
      /\ sent \in Seq(Messages) /\ used \in 0 .. MaxMsgs /\ rdpc \in [Receivers -> Phases]
      /\ \A c \in Receivers : cursor[c] \in Ring!Words
  BY DEF IInv, TypeOK, Ring!TypeOK, Phases
<1>2. Senders = {s} /\ Started
  BY ReaderCount DEF IInv, TableInv
<1>3. /\ spc[s] = "stored" /\ spc' = [spc EXCEPT ![s] = "idle"] /\ wr' = Ring!Inc(wr)
      /\ UNCHANGED <<rd, block, cur_wt, item, cursor, rpc, got>>
      /\ UNCHANGED <<rdpc, mutex, delivered, tm>>
  BY DEF Ring!PushPublish, Ring!popVars, readVars
<1>4. /\ msg[s] = used /\ used >= 1 /\ count[used] = Readers
      /\ \A i \in DOMAIN sent : sent[i] < used
      /\ item[s] = used /\ Filled < RingSize - 1 /\ block[Ring!Index(wr)] = used
  BY <1>3 DEF IInv, SenderInv
<1>5. used \in Messages
  BY <1>1, <1>4, IpcAssumption DEF Messages
<1>6. /\ wpc' \in [Senders -> {"idle", "open", "admitted", "push", "notify"}]
      /\ wpc'[s] = "notify" /\ spc'[s] = "idle"
  BY <1>1, <1>3
<1>7. /\ n \in Nat /\ DOMAIN sent = 1 .. n
      /\ Filled \in Nat /\ Released \in Nat /\ n = Released + Filled
      /\ \A c \in Receivers :
            /\ Passed(c) \in Nat /\ Passed(c) <= Filled
            /\ Taken(c) \in Nat /\ Taken(c) = Released + Passed(c)
            /\ rpc[c] = "taken" => Passed(c) >= 1
            /\ Given(c) \in Nat /\ Finished(c) \in Nat
            /\ Finished(c) \in {Taken(c), Taken(c) - 1}
            /\ Given(c) \in {Taken(c), Taken(c) - 1}
  BY Standing
<1>8. /\ sent' \in Seq(Messages) /\ Len(sent') = n + 1 /\ DOMAIN sent' = 1 .. n + 1
      /\ \A i \in 1 .. n : sent'[i] = sent[i]
      /\ sent'[n + 1] = used
  BY <1>1, <1>4, <1>5
<1> HIDE DEF n
<1>9. /\ Filled' = Filled + 1 /\ Released' = Released
      /\ \A c \in Receivers : Passed(c)' = Passed(c) /\ Taken(c)' = Taken(c)
  <2>1. Filled' = Filled + 1
    BY <1>1, <1>3, <1>4, DistSteps DEF Filled
  <2>2. Released' = Released
    BY <1>7, <1>8, <2>1 DEF Released, Filled, n
  <2>3. \A c \in Receivers : Passed(c)' = Passed(c)
    BY <1>3, Zenon DEF Passed
  <2> QED
    BY <2>1, <2>2, <2>3, Zenon DEF Taken
<1>10. \A c \in Receivers : Given(c)' = Given(c) /\ Finished(c)' = Finished(c)
  BY <1>3, <1>9, Zenon DEF Given, Finished
<1>11. \A i : Waits(i)' = Waits(i)
  BY <1>10, Zenon DEF Waits
<1>12. TableInv' /\ (Started' <=> Started)
  <2>1. TableSame
    BY DEF TableSame, connVars, apiVars
  <2>2. \A q \in Senders : wpc'[q] # "idle" => wpc[q] # "idle"
    BY <1>2
  <2> QED
    BY <2>1, <2>2, TableFrame DEF IInv
<1>13. TypeOK'
  <2>1. Ring!Next
    BY DEF Ring!Next, Ring!Push
  <2>2. rdpc' \in [Receivers -> Phases]
    BY <1>1, <1>3
  <2> QED
    BY <1>3, <1>6, <1>8, <2>1, <2>2, RingStepTypes DEF IInv
<1>14. Turns'
  BY <1>3, Zenon DEF IInv, Turns
<1>15. RingInv'
  <2>1. \A c \in Receivers : rpc[c] = "ready" => Passed(c) < Filled
    BY DEF IInv, RingInv
  <2>2. ASSUME NEW i \in 0 .. Filled
        PROVE  block[Ring!SlotAt(rd, i)] = sent'[Released + i + 1]
    <3>1. CASE i = Filled
      <4>1. Ring!SlotAt(rd, i) = Ring!Index(wr)
        BY <1>1, <3>1, RingDist DEF Filled
      <4> QED
        BY <1>4, <1>7, <1>8, <3>1, <4>1
    <3>2. CASE i < Filled
      <4>1. i \in 0 .. Filled - 1 /\ Released + i + 1 \in 1 .. n
        BY <1>7, <3>2
      <4> QED
        BY <1>8, <4>1 DEF IInv, RingInv
    <3> QED
      BY <1>7, <3>1, <3>2
  <2>3. /\ Filled + 1 <= RingSize - 1 /\ Filled + 1 <= n + 1
        /\ \A c \in Receivers :
            /\ Passed(c) <= Filled + 1
            /\ rpc[c] = "ready" => Passed(c) < Filled + 1
            /\ rpc[c] = "taken" => Passed(c) >= 1
    BY <1>4, <1>7, <2>1, RingSizes
  <2>4. (Filled + 1) - 1 = Filled
    BY <1>7
  <2> QED
    BY <1>3, <1>8, <1>9, <2>2, <2>3, <2>4 DEF RingInv
<1>16. SenderInv'
  <2>1. \A i, j \in 1 .. n : i < j => sent[i] < sent[j]
    BY <1>7 DEF IInv, SenderInv
  <2>2. used' = used /\ \A i \in 1 .. n : sent[i] < used /\ sent[i] <= used
    BY <1>4, <1>7 DEF IInv, SenderInv
  <2>3. used <= used
    BY <1>1
  <2>4. \A i, j \in 1 .. n + 1 : i < j => sent'[i] < sent'[j]
    BY <1>7, <1>8, <2>1, <2>2
  <2>5. \A i \in 1 .. n + 1 : sent'[i] <= used
    BY <1>7, <1>8, <2>2, <2>3
  <2> QED
    BY <1>2, <1>6, <1>8, <2>2, <2>4, <2>5 DEF SenderInv
<1>17. ReaderInv'
  <2> SUFFICES ASSUME NEW c \in Receivers
               PROVE  /\ rpc[c] = "taken" => got[c] = sent'[Taken(c)]
                      /\ Len(delivered[c]) = Given(c)
                      /\ \A i \in 1 .. Given(c) : delivered[c][i] = sent'[i]
    BY <1>3, <1>9, <1>10, Zenon DEF ReaderInv
  <2>1. /\ rpc[c] = "taken" => got[c] = sent[Taken(c)]
        /\ Len(delivered[c]) = Given(c)
        /\ \A i \in 1 .. Given(c) : delivered[c][i] = sent[i]
    BY DEF IInv, ReaderInv
  <2>2. rpc[c] = "taken" => Taken(c) \in 1 .. n
    BY <1>7
  <2>3. \A i \in 1 .. Given(c) : i \in 1 .. n
    BY <1>7
  <2> QED
    BY <1>8, <2>1, <2>2, <2>3
<1>18. CountInv'
  <2>1. \A i \in 1 .. n : count[sent[i]] = Cardinality(Waits(i))
    BY <1>7 DEF IInv, CountInv
  <2>2. Waits(n + 1) = Receivers
    <3>1. \A c \in Receivers : Finished(c) < n + 1
      BY <1>7
    <3> QED
      BY <3>1 DEF Waits
  <2>3. ASSUME NEW i \in 1 .. n + 1
        PROVE  count[sent'[i]] = Cardinality(Waits(i))
    <3>1. CASE i = n + 1
      BY <1>4, <1>8, <2>2, <3>1 DEF Readers
    <3>2. CASE i # n + 1
      <4>1. i \in 1 .. n
        BY <1>7, <3>2
      <4> QED
        BY <1>8, <2>1, <4>1
    <3> QED
      BY <3>1, <3>2
  <2> QED
    BY <1>8, <1>11, <2>3, Zenon DEF CountInv
<1>19. ReleaseInv'
  <2> SUFFICES \E c \in Receivers :
                \/ Finished(c) <= Released
                \/ rdpc[c] = "counted" /\ Taken(c) = Released + 1
    BY <1>3, <1>9, <1>10, Zenon DEF ReleaseInv
  <2>1. CASE Filled > 0
    BY <2>1 DEF IInv, ReleaseInv
  <2>2. CASE Filled = 0
    <3>1. PICK c \in Receivers : TRUE
      BY ReaderCount
    <3>2. Finished(c) <= Released
      BY <1>7, <2>2, <3>1
    <3> QED
      BY <3>2
  <2> QED
    BY <1>7, <2>1, <2>2
<1>20. Fresh'
  BY <1>2, <1>12 DEF Fresh
<1> QED
  BY <1>12, <1>13, <1>14, <1>15, <1>16, <1>17, <1>18, <1>19, <1>20 DEF IInv

\* The reader's step leaves the writer, the table and the messages alone.
ReaderOnly ==
    /\ UNCHANGED <<wr, block, spc, cur_wt, item>>
    /\ UNCHANGED connVars /\ UNCHANGED apiVars /\ UNCHANGED sendVars
    /\ UNCHANGED tm /\ UNCHANGED mutex

(* What it keeps of the invariant. *)
LEMMA ReaderKeeps ==
    ASSUME IInv, ReaderOnly,
           Filled' \in Nat, Filled' <= Filled,
           \A s \in Senders : wpc[s] = "push" => count'[used] = count[used]
    PROVE  TableInv' /\ SenderInv' /\ (Started' <=> Started)
<1>1. /\ UNCHANGED <<wr, block, spc, cur_wt, item, wpc, msg, used, sent>>
      /\ UNCHANGED connVars /\ UNCHANGED apiVars
  BY DEF ReaderOnly, sendVars
<1>2. TableInv' /\ (Started' <=> Started)
  <2>1. TableSame
    BY <1>1 DEF TableSame, connVars, apiVars
  <2>2. \A q \in Senders : wpc'[q] # "idle" => wpc[q] # "idle"
    BY <1>1
  <2> QED
    BY <2>1, <2>2, TableFrame DEF IInv
<1>3. Filled < RingSize - 1 => Filled' < RingSize - 1
  BY Standing, RingSizes
<1>4. SenderInv'
  BY <1>1, <1>3 DEF IInv, SenderInv
<1> QED
  BY <1>2, <1>4

(* Something to read in the ring shows that every reader has connected.     *)
LEMMA RingNotFresh ==
    ASSUME IInv, Filled > 0
    PROVE  Started
<1>1. rd \in Ring!Words /\ wr \in Ring!Words
  BY DEF IInv, TypeOK, Ring!TypeOK
<1>2. rd # wr
  BY <1>1, RingDist, Standing DEF Filled
<1> QED
  BY <1>2 DEF IInv, Fresh

(* pop: there is a message, and the reader takes it.                        *)
LEMMA PopKeeps ==
    ASSUME Supported, IInv, NEW c \in Receivers, ReadPop(c)
    PROVE  IInv'
<1>1. /\ rd \in Ring!Words /\ wr \in Ring!Words
      /\ cursor \in [Receivers -> Ring!Words]
      /\ rpc \in [Receivers -> {"idle", "ready", "taken"}]
      /\ got \in [Receivers -> Messages \cup {None}]
      /\ rdpc \in [Receivers -> Phases] /\ sent \in Seq(Messages)
      /\ wpc \in [Senders -> {"idle", "open", "admitted", "push", "notify"}]
  BY DEF IInv, TypeOK, Ring!TypeOK, Phases
<1>2. /\ rdpc[c] = "pred" /\ (Ring!PopReady(c) \/ Ring!PopTake(c))
      /\ UNCHANGED <<rd, wr, block, spc, cur_wt, item>>
      /\ UNCHANGED connVars /\ UNCHANGED apiVars /\ UNCHANGED sendVars
      /\ UNCHANGED readVars /\ UNCHANGED count
  BY DEF ReadPop, Ring!PopReady, Ring!PopTake, Ring!pushVars
<1>3. UNCHANGED <<rdpc, tm, mutex, delivered, sent, wpc, msg, used>>
  BY <1>2 DEF readVars, sendVars
<1>4. /\ Len(sent) \in Nat /\ DOMAIN sent = 1 .. Len(sent)
      /\ Filled \in Nat /\ Filled <= RingSize - 1
      /\ Released \in Nat /\ Len(sent) = Released + Filled
      /\ \A d \in Receivers :
            /\ Passed(d) \in Nat /\ Passed(d) <= Filled
            /\ Taken(d) \in Nat /\ Taken(d) = Released + Passed(d)
            /\ rpc[d] = "taken" => Passed(d) >= 1
  BY Standing
<1>5. Filled' = Filled /\ Released' = Released
  BY <1>2, <1>3, Zenon DEF Filled, Released
<1>6. /\ Passed(c) < Filled
      /\ \/ rpc[c] = "idle" /\ rpc' = [rpc EXCEPT ![c] = "ready"] /\ UNCHANGED <<cursor, got>>
         \/ /\ rpc[c] = "ready" /\ rpc' = [rpc EXCEPT ![c] = "taken"]
            /\ got' = [got EXCEPT ![c] = block[Ring!Index(cursor[c])]]
            /\ cursor' = [cursor EXCEPT ![c] = Ring!Inc(cursor[c])]
  <2>1. CASE Ring!PopReady(c)
    <3>1. cursor[c] # wr
      BY <2>1 DEF Ring!PopReady
    <3>2. Passed(c) # Filled
      BY <1>1, <3>1, SameDist DEF Passed, Filled
    <3> QED
      BY <1>4, <2>1, <3>2 DEF Ring!PopReady
  <2>2. CASE Ring!PopTake(c)
    BY <2>2 DEF Ring!PopTake, IInv, RingInv
  <2> QED
    BY <1>2, <2>1, <2>2
<1>7. Started
  <2>1. Filled > 0
    BY <1>4, <1>6
  <2> QED
    BY <2>1, RingNotFresh
<1>8. \A d \in Receivers : d # c =>
        /\ rpc'[d] = rpc[d] /\ got'[d] = got[d] /\ cursor'[d] = cursor[d]
        /\ Passed(d)' = Passed(d) /\ Taken(d)' = Taken(d)
        /\ Given(d)' = Given(d) /\ Finished(d)' = Finished(d)
  <2> SUFFICES ASSUME NEW d \in Receivers, d # c
               PROVE  /\ rpc'[d] = rpc[d] /\ got'[d] = got[d] /\ cursor'[d] = cursor[d]
                      /\ Passed(d)' = Passed(d) /\ Taken(d)' = Taken(d)
                      /\ Given(d)' = Given(d) /\ Finished(d)' = Finished(d)
    OBVIOUS
  <2>1. rpc'[d] = rpc[d] /\ got'[d] = got[d] /\ cursor'[d] = cursor[d]
    BY <1>1, <1>6
  <2>2. Passed(d)' = Passed(d) /\ Taken(d)' = Taken(d)
    BY <1>2, <1>5, <2>1, Zenon DEF Passed, Taken
  <2> QED
    BY <1>3, <2>1, <2>2, Zenon DEF Given, Finished
<1>9. \/ /\ rpc'[c] = "ready" /\ rpc[c] = "idle" /\ Passed(c)' = Passed(c)
         /\ Taken(c)' = Taken(c) /\ got'[c] = got[c]
      \/ /\ rpc'[c] = "taken" /\ rpc[c] = "ready" /\ Passed(c)' = Passed(c) + 1
         /\ Taken(c)' = Taken(c) + 1 /\ got'[c] = sent[Taken(c) + 1]
  <2>1. CASE rpc[c] = "idle" /\ rpc' = [rpc EXCEPT ![c] = "ready"] /\ UNCHANGED <<cursor, got>>
    <3>1. Passed(c)' = Passed(c) /\ Taken(c)' = Taken(c)
      BY <1>2, <1>5, <2>1, Zenon DEF Passed, Taken
    <3> QED
      BY <1>1, <2>1, <3>1
  <2>2. CASE /\ rpc[c] = "ready" /\ rpc' = [rpc EXCEPT ![c] = "taken"]
             /\ got' = [got EXCEPT ![c] = block[Ring!Index(cursor[c])]]
             /\ cursor' = [cursor EXCEPT ![c] = Ring!Inc(cursor[c])]
    <3>1. cursor'[c] = Ring!Inc(cursor[c]) /\ got'[c] = block[Ring!Index(cursor[c])]
            /\ rpc'[c] = "taken"
      BY <1>1, <2>2
    <3>2. Passed(c) < RingSize - 1
      BY <1>4, <1>6, RingSizes
    <3>3. Passed(c)' = Passed(c) + 1
      BY <1>1, <1>2, <3>1, <3>2, DistSteps DEF Passed
    <3>4. Taken(c)' = Taken(c) + 1
      BY <1>4, <1>5, <3>3 DEF Taken
    <3>5. Ring!SlotAt(rd, Passed(c)) = Ring!Index(cursor[c])
      BY <1>1, RingDist DEF Passed
    <3>6. Passed(c) \in 0 .. Filled - 1
      BY <1>4, <1>6
    <3>7. block[Ring!SlotAt(rd, Passed(c))] = sent[Released + Passed(c) + 1]
      BY <3>6 DEF IInv, RingInv
    <3> QED
      BY <1>4, <2>2, <3>1, <3>3, <3>4, <3>5, <3>7
  <2> QED
    BY <1>6, <2>1, <2>2
<1>10. Given(c)' = Given(c) /\ Finished(c)' = Finished(c)
  BY <1>2, <1>3, <1>4, <1>9 DEF Given, Finished
<1>11. \A i : Waits(i)' = Waits(i)
  BY <1>8, <1>10 DEF Waits
<1>12. TableInv' /\ SenderInv' /\ (Started' <=> Started)
  <2>1. ReaderOnly
    BY <1>2, <1>3 DEF ReaderOnly
  <2> QED
    BY <1>2, <1>4, <1>5, <2>1, ReaderKeeps
<1>13. TypeOK'
  <2>1. Ring!Next
    BY <1>2 DEF Ring!Next, Ring!Pop
  <2> QED
    BY <1>1, <1>2, <1>3, <2>1, RingStepTypes DEF IInv
<1>14. Turns'
  BY <1>2, <1>3, <1>8, <1>9 DEF IInv, Turns
<1>15. RingInv'
  <2>1. ASSUME NEW d \in Receivers
        PROVE  /\ Passed(d)' <= Filled
               /\ rpc'[d] = "ready" => Passed(d)' < Filled
               /\ rpc'[d] = "taken" => Passed(d)' >= 1
    <3>1. CASE d # c
      BY <1>4, <1>8, <3>1 DEF IInv, RingInv
    <3>2. CASE d = c
      BY <1>4, <1>6, <1>9, <3>2
    <3> QED
      BY <3>1, <3>2
  <2> QED
    BY <1>2, <1>3, <1>5, <2>1, Zenon DEF IInv, RingInv
<1>16. ReaderInv'
  <2> SUFFICES ASSUME NEW d \in Receivers
               PROVE  /\ rpc'[d] = "taken" => got'[d] = sent[Taken(d)']
                      /\ Len(delivered[d]) = Given(d)'
                      /\ \A i \in 1 .. Given(d)' : delivered[d][i] = sent[i]
    BY <1>3, Zenon DEF ReaderInv
  <2>1. /\ rpc[d] = "taken" => got[d] = sent[Taken(d)]
        /\ Len(delivered[d]) = Given(d)
        /\ \A i \in 1 .. Given(d) : delivered[d][i] = sent[i]
    BY DEF IInv, ReaderInv
  <2>2. Given(d)' = Given(d)
    BY <1>8, <1>10
  <2>3. rpc'[d] = "taken" => got'[d] = sent[Taken(d)']
    BY <1>8, <1>9, <2>1
  <2> QED
    BY <2>1, <2>2, <2>3, Zenon
<1>17. CountInv'
  BY <1>2, <1>3, <1>11, Zenon DEF IInv, CountInv
<1>18. ReleaseInv'
  <2>1. \A d \in Receivers : Finished(d)' = Finished(d)
    BY <1>8, <1>10
  <2>2. \A d \in Receivers : rdpc[d] = "counted" => Taken(d)' = Taken(d)
    BY <1>2, <1>8
  <2> QED
    BY <1>3, <1>5, <2>1, <2>2, Zenon DEF IInv, ReleaseInv
<1>19. Fresh'
  BY <1>7, <1>12 DEF Fresh
<1> QED
  BY <1>12, <1>13, <1>14, <1>15, <1>16, <1>17, <1>18, <1>19 DEF IInv

(* A step of a reader with a message in hand leaves the ring alone.         *)
LEMMA HandSame ==
    ASSUME IInv, NEW c \in Receivers, NEW to \in Phases,
           UNCHANGED ringVars, UNCHANGED connVars, UNCHANGED apiVars, UNCHANGED sendVars,
           UNCHANGED tm, UNCHANGED mutex, rpc[c] = "taken",
           rdpc' = [rdpc EXCEPT ![c] = to], to \in {"called", "counted"}
    PROVE  /\ Filled' = Filled /\ Released' = Released
           /\ \A d \in Receivers : Passed(d)' = Passed(d) /\ Taken(d)' = Taken(d)
           /\ \A d \in Receivers : d # c =>
                Given(d)' = Given(d) /\ Finished(d)' = Finished(d) /\ rdpc'[d] = rdpc[d]
           /\ rdpc'[c] = to /\ rdpc' \in [Receivers -> Phases]
           /\ Started /\ ReaderOnly /\ RingInv' /\ Fresh'
<1>1. rdpc \in [Receivers -> Phases]
  BY DEF IInv, TypeOK, Phases
<1>2. /\ rdpc'[c] = to /\ rdpc' \in [Receivers -> Phases]
      /\ \A d \in Receivers : d # c => rdpc'[d] = rdpc[d]
  BY <1>1
<1>3. /\ UNCHANGED <<rd, wr, block, spc, cur_wt, item, cursor, rpc, got>>
      /\ UNCHANGED <<wpc, msg, used, sent>>
  BY DEF ringVars, sendVars
<1>4. /\ Filled' = Filled /\ Released' = Released
      /\ \A d \in Receivers : Passed(d)' = Passed(d) /\ Taken(d)' = Taken(d)
  BY <1>3, Zenon DEF Filled, Passed, Released, Taken
<1>5. \A d \in Receivers : d # c => Given(d)' = Given(d) /\ Finished(d)' = Finished(d)
  BY <1>2, <1>3, <1>4, Zenon DEF Given, Finished
<1>6. ReaderOnly
  BY <1>3 DEF ReaderOnly
<1>7. Started
  <2>1. Passed(c) >= 1 /\ Passed(c) <= Filled /\ Passed(c) \in Nat /\ Filled \in Nat
    BY Standing
  <2> QED
    BY <2>1, RingNotFresh
<1>8. RingInv'
  BY <1>3, <1>4, Zenon DEF IInv, RingInv
<1>9. Fresh'
  <2>1. TableSame
    BY DEF TableSame, connVars, apiVars
  <2>2. Started' <=> Started
    BY <1>3, <2>1, TableFrame DEF IInv
  <2> QED
    BY <1>7, <2>2 DEF Fresh
<1> QED
  BY <1>2, <1>4, <1>5, <1>6, <1>7, <1>8, <1>9

(* The callback is given the message.                                       *)
LEMMA CallbackKeeps ==
    ASSUME Supported, IInv, NEW c \in Receivers, ReadCallback(c)
    PROVE  IInv'
<1>1. /\ rdpc[c] = "pred" /\ rpc[c] = "taken"
      /\ rdpc' = [rdpc EXCEPT ![c] = "called"]
      /\ delivered' = [delivered EXCEPT ![c] = Append(delivered[c], got[c])]
      /\ UNCHANGED ringVars /\ UNCHANGED connVars /\ UNCHANGED apiVars /\ UNCHANGED sendVars
      /\ UNCHANGED tm /\ UNCHANGED mutex /\ UNCHANGED count
  BY DEF ReadCallback
<1>2. /\ Filled' = Filled /\ Released' = Released
      /\ \A d \in Receivers : Passed(d)' = Passed(d) /\ Taken(d)' = Taken(d)
      /\ \A d \in Receivers : d # c =>
            Given(d)' = Given(d) /\ Finished(d)' = Finished(d) /\ rdpc'[d] = rdpc[d]
      /\ rdpc'[c] = "called" /\ rdpc' \in [Receivers -> Phases]
      /\ Started /\ ReaderOnly /\ RingInv' /\ Fresh'
  BY <1>1, HandSame DEF Phases
<1>3. /\ Len(sent) \in Nat /\ DOMAIN sent = 1 .. Len(sent)
      /\ Filled \in Nat /\ Released \in Nat /\ Len(sent) = Released + Filled
      /\ Passed(c) \in Nat /\ Passed(c) <= Filled /\ Passed(c) >= 1
      /\ Taken(c) \in Nat /\ Taken(c) = Released + Passed(c)
  BY <1>1, Standing
<1>4. /\ UNCHANGED <<rd, wr, block, spc, cur_wt, item, cursor, rpc, got>>
      /\ UNCHANGED <<wpc, msg, used, sent>>
  BY <1>1 DEF ringVars, sendVars
<1>5. /\ Given(c) = Taken(c) - 1 /\ Given(c)' = Taken(c)
      /\ Finished(c)' = Finished(c)
  BY <1>1, <1>2, <1>4 DEF Given, Finished
<1>6. /\ sent \in Seq(Messages) /\ delivered \in [Receivers -> Seq(Messages)]
  BY DEF IInv, TypeOK
<1>7. /\ got[c] = sent[Taken(c)] /\ Len(delivered[c]) = Given(c)
      /\ \A i \in 1 .. Given(c) : delivered[c][i] = sent[i]
  BY <1>1 DEF IInv, ReaderInv
<1>8. got[c] \in Messages
  BY <1>3, <1>6, <1>7
<1>9. /\ delivered' \in [Receivers -> Seq(Messages)]
      /\ \A d \in Receivers : d # c => delivered'[d] = delivered[d]
      /\ delivered'[c] = Append(delivered[c], got[c])
  BY <1>1, <1>6, <1>8
<1>10. /\ Len(delivered'[c]) = Taken(c)
       /\ \A i \in 1 .. Taken(c) : delivered'[c][i] = sent[i]
  <2>1. /\ delivered[c] \in Seq(Messages) /\ Len(delivered[c]) = Taken(c) - 1
        /\ \A i \in 1 .. Taken(c) - 1 : delivered[c][i] = sent[i]
    BY <1>5, <1>6, <1>7
  <2> HIDE DEF IInv
  <2> QED
    BY <1>3, <1>7, <1>8, <1>9, <2>1
<1>11. TypeOK'
  <2>1. Ring!TypeOK'
    <3>1. Ring!vars' = Ring!vars
      BY <1>4 DEF Ring!vars, Ring!pushVars, Ring!popVars
    <3> QED
      BY <3>1, RingTypes DEF IInv, TypeOK
  <2>2. Conn!ConnTypeOK'
    BY <1>1, Zenon DEF connVars, IInv, TypeOK, Conn!ConnTypeOK
  <2> QED
    BY <1>1, <1>2, <1>4, <1>9, <2>1, <2>2, Zenon DEF IInv, TypeOK, apiVars, Phases
<1>12. TableInv' /\ SenderInv'
  BY <1>1, <1>2, <1>3, ReaderKeeps
<1>13. Turns'
  BY <1>1, <1>2, <1>4 DEF IInv, Turns
<1>14. ReaderInv'
  <2> SUFFICES ASSUME NEW d \in Receivers
               PROVE  /\ rpc[d] = "taken" => got[d] = sent[Taken(d)]
                      /\ Len(delivered'[d]) = Given(d)'
                      /\ \A i \in 1 .. Given(d)' : delivered'[d][i] = sent[i]
    BY <1>2, <1>4, Zenon DEF ReaderInv
  <2>1. CASE d = c
    BY <1>5, <1>7, <1>10, <2>1
  <2>2. CASE d # c
    BY <1>2, <1>9, <2>2 DEF IInv, ReaderInv
  <2> QED
    BY <2>1, <2>2
<1>15. CountInv'
  <2>1. \A i : Waits(i)' = Waits(i)
    BY <1>2, <1>5 DEF Waits
  <2> QED
    BY <1>1, <1>4, <2>1, Zenon DEF IInv, CountInv
<1>16. ReleaseInv'
  <2>1. \A d \in Receivers : Finished(d)' = Finished(d)
    BY <1>2, <1>5
  <2>2. \A d \in Receivers : rdpc[d] = "counted" => rdpc'[d] = "counted"
    BY <1>1, <1>2
  <2> QED
    BY <1>2, <2>1, <2>2, Zenon DEF IInv, ReleaseInv
<1> QED
  BY <1>2, <1>11, <1>12, <1>13, <1>14, <1>15, <1>16 DEF IInv

(* The reader takes itself off the usage count, which loses exactly one of  *)
(* those that wait for the message and does not wrap.                       *)
LEMMA CountDownKeeps ==
    ASSUME Supported, IInv, NEW c \in Receivers, ReadCountDown(c)
    PROVE  IInv'
<1>1. /\ rdpc[c] = "called"
      /\ rdpc' = [rdpc EXCEPT ![c] = "counted"]
      /\ count' = [count EXCEPT ![got[c]] = (count[got[c]] + CountSize - 1) % CountSize]
      /\ UNCHANGED ringVars /\ UNCHANGED connVars /\ UNCHANGED apiVars /\ UNCHANGED sendVars
      /\ UNCHANGED tm /\ UNCHANGED mutex /\ UNCHANGED delivered
  BY DEF ReadCountDown
<1>2. rpc[c] = "taken"
  BY <1>1 DEF IInv, Turns
<1>3. /\ Filled' = Filled /\ Released' = Released
      /\ \A d \in Receivers : Passed(d)' = Passed(d) /\ Taken(d)' = Taken(d)
      /\ \A d \in Receivers : d # c =>
            Given(d)' = Given(d) /\ Finished(d)' = Finished(d) /\ rdpc'[d] = rdpc[d]
      /\ rdpc'[c] = "counted" /\ rdpc' \in [Receivers -> Phases]
      /\ Started /\ ReaderOnly /\ RingInv' /\ Fresh'
  BY <1>1, <1>2, HandSame DEF Phases
<1>4. /\ Len(sent) \in Nat /\ DOMAIN sent = 1 .. Len(sent)
      /\ Filled \in Nat /\ Released \in Nat /\ Len(sent) = Released + Filled
      /\ Passed(c) \in Nat /\ Passed(c) <= Filled /\ Passed(c) >= 1
      /\ Taken(c) \in Nat /\ Taken(c) = Released + Passed(c)
      /\ \A d \in Receivers : Finished(d) \in Nat
  BY <1>2, Standing
<1>5. /\ UNCHANGED <<rd, wr, block, spc, cur_wt, item, cursor, rpc, got>>
      /\ UNCHANGED <<wpc, msg, used, sent>>
  BY <1>1 DEF ringVars, sendVars
<1>6. /\ Finished(c) = Taken(c) - 1 /\ Finished(c)' = Taken(c)
      /\ Given(c)' = Given(c)
  BY <1>1, <1>2, <1>3, <1>5 DEF Given, Finished
<1>7. /\ sent \in Seq(Messages) /\ count \in [Messages -> 0 .. CountSize - 1]
      /\ got[c] = sent[Taken(c)] /\ Taken(c) \in DOMAIN sent
  <2>1. Taken(c) \in 1 .. Len(sent)
    BY <1>4
  <2>2. got[c] = sent[Taken(c)]
    BY <1>2, Zenon DEF IInv, ReaderInv
  <2> QED
    BY <1>4, <2>1, <2>2, Zenon DEF IInv, TypeOK
<1>8. got[c] \in Messages
  BY <1>7
<1>9. /\ count[got[c]] = Cardinality(Waits(Taken(c)))
      /\ IsFiniteSet(Waits(Taken(c))) /\ c \in Waits(Taken(c))
  <2>1. Waits(Taken(c)) \subseteq Receivers
    BY DEF Waits
  <2>2. IsFiniteSet(Waits(Taken(c)))
    BY <2>1, ReaderCount, FS_Subset
  <2>3. c \in Waits(Taken(c))
    BY <1>4, <1>6 DEF Waits
  <2> QED
    BY <1>7, <2>2, <2>3 DEF IInv, CountInv
<1>10. /\ Cardinality(Waits(Taken(c)) \ {c}) = count[got[c]] - 1
       /\ count[got[c]] - 1 \in Nat
  <2>1. IsFiniteSet(Waits(Taken(c)) \ {c})
    BY <1>9, FS_RemoveElement
  <2>2. Cardinality(Waits(Taken(c)) \ {c}) = Cardinality(Waits(Taken(c))) - 1
    BY <1>9, FS_RemoveElement
  <2>3. Cardinality(Waits(Taken(c)) \ {c}) \in Nat
    BY <2>1, FS_CardinalityType
  <2> QED
    BY <1>9, <2>2, <2>3
<1>11. (count[got[c]] + CountSize - 1) % CountSize = count[got[c]] - 1
  <2>1. ASSUME NEW n \in Nat \ {0}, NEW k \in 1 .. n - 1
        PROVE  (k + n - 1) % n = k - 1
    BY SMTT(20)
  <2>2. CountSize \in Nat \ {0} /\ count[got[c]] \in 1 .. CountSize - 1
    BY <1>7, <1>8, <1>10, ReaderCount
  <2> QED
    BY <2>1, <2>2
<1>12. /\ count' \in [Messages -> 0 .. CountSize - 1]
       /\ count'[got[c]] = count[got[c]] - 1
       /\ \A m \in Messages : m # got[c] => count'[m] = count[m]
  <2>1. count' = [count EXCEPT ![got[c]] = count[got[c]] - 1]
    BY <1>1, <1>11, Zenon
  <2>2. count[got[c]] - 1 \in 0 .. CountSize - 1
    BY <1>7, <1>8, <1>10, ReaderCount
  <2> QED
    BY <1>7, <1>8, <2>1, <2>2, Zenon
<1>13. TypeOK'
  <2>1. Ring!TypeOK'
    <3>1. Ring!vars' = Ring!vars
      BY <1>5 DEF Ring!vars, Ring!pushVars, Ring!popVars
    <3> QED
      BY <3>1, RingTypes DEF IInv, TypeOK
  <2>2. Conn!ConnTypeOK'
    BY <1>1, Zenon DEF connVars, IInv, TypeOK, Conn!ConnTypeOK
  <2> QED
    BY <1>1, <1>3, <1>5, <1>12, <2>1, <2>2, Zenon DEF IInv, TypeOK, apiVars, Phases
<1>14. TableInv' /\ SenderInv'
  <2>1. ASSUME NEW s \in Senders, wpc[s] = "push"
        PROVE  count'[used] = count[used]
    <3>1. /\ used >= 1 /\ used \in 0 .. MaxMsgs
          /\ \A i \in DOMAIN sent : sent[i] < used
      BY <2>1 DEF IInv, SenderInv, TypeOK
    <3>2. used \in Messages /\ used # got[c]
      BY <1>7, <1>8, <3>1, IpcAssumption DEF Messages
    <3> QED
      BY <1>12, <3>2
  <2> QED
    BY <1>3, <1>4, <2>1, ReaderKeeps
<1>15. Turns'
  BY <1>1, <1>2, <1>3, <1>5 DEF IInv, Turns
<1>16. ReaderInv'
  <2>1. \A d \in Receivers : Given(d)' = Given(d)
    BY <1>3, <1>6
  <2> QED
    BY <1>1, <1>3, <1>5, <2>1, Zenon DEF IInv, ReaderInv
<1>17. CountInv'
  <2> SUFFICES ASSUME NEW i \in DOMAIN sent
               PROVE  count'[sent[i]] = Cardinality(Waits(i)')
    BY <1>5, Zenon DEF CountInv
  <2>1. sent[i] \in Messages /\ count[sent[i]] = Cardinality(Waits(i))
    BY <1>7 DEF IInv, CountInv
  <2>2. CASE i = Taken(c)
    <3>1. Waits(i)' = Waits(i) \ {c}
      BY <1>3, <1>4, <1>6, <2>2 DEF Waits
    <3> QED
      BY <1>7, <1>10, <1>12, <2>2, <3>1
  <2>3. CASE i # Taken(c)
    <3>1. Waits(i)' = Waits(i)
      BY <1>3, <1>4, <1>6, <2>3 DEF Waits
    <3>2. sent[i] # sent[Taken(c)]
      <4>1. i < Taken(c) \/ Taken(c) < i
        BY <1>4, <2>3
      <4>2. \A x, y \in DOMAIN sent : x < y => sent[x] < sent[y]
        BY DEF IInv, SenderInv
      <4>3. sent[i] \in Int /\ sent[Taken(c)] \in Int
        BY <1>7, <1>8, <2>1 DEF Messages
      <4> QED
        BY <1>7, <4>1, <4>2, <4>3
    <3> QED
      BY <1>7, <1>12, <2>1, <3>1, <3>2
  <2> QED
    BY <2>2, <2>3
<1>18. ReleaseInv'
  <2> SUFFICES ASSUME Filled > 0
               PROVE  \E d \in Receivers :
                        \/ Finished(d)' <= Released
                        \/ rdpc'[d] = "counted" /\ Taken(d) = Released + 1
    BY <1>3, Zenon DEF ReleaseInv
  <2>1. PICK d \in Receivers :
            \/ Finished(d) <= Released
            \/ rdpc[d] = "counted" /\ Taken(d) = Released + 1
    BY DEF IInv, ReleaseInv
  <2>2. CASE d # c
    BY <1>3, <2>1, <2>2
  <2>3. CASE d = c
    <3>1. Taken(c) = Released + 1
      BY <1>1, <1>4, <1>6, <2>1, <2>3
    <3> QED
      BY <1>3, <3>1
  <2> QED
    BY <2>2, <2>3
<1> QED
  BY <1>3, <1>13, <1>14, <1>15, <1>16, <1>17, <1>18 DEF IInv

(* The reader that counted down finds out whether it was the last: then all *)
(* others have taken the message, and it was the oldest in the ring.        *)
LEMMA LastReader ==
    ASSUME IInv, Supported, NEW c \in Receivers, rdpc[c] = "counted", rpc[c] = "taken"
    PROVE  /\ Taken(c) \in DOMAIN sent /\ got[c] = sent[Taken(c)]
           /\ count[got[c]] = 0 =>
                /\ Taken(c) = Released + 1
                /\ \A d \in Receivers : Finished(d) >= Released + 1 /\ Passed(d) >= 1
           /\ count[got[c]] # 0 => \E d \in Receivers : Finished(d) < Taken(c)
<1>1. /\ Len(sent) \in Nat /\ DOMAIN sent = 1 .. Len(sent)
      /\ Filled \in Nat /\ Released \in Nat /\ Len(sent) = Released + Filled
      /\ \A d \in Receivers :
            /\ Passed(d) \in Nat /\ Passed(d) <= Filled
            /\ Taken(d) \in Nat /\ Taken(d) = Released + Passed(d)
            /\ rpc[d] = "taken" => Passed(d) >= 1
            /\ Finished(d) \in Nat /\ Finished(d) \in {Taken(d), Taken(d) - 1}
  BY Standing
<1>2. Taken(c) \in 1 .. Len(sent) /\ Passed(c) >= 1 /\ Filled > 0
  BY <1>1
<1>3. got[c] = sent[Taken(c)]
  BY Zenon DEF IInv, ReaderInv
<1>4. count[got[c]] = Cardinality(Waits(Taken(c)))
  BY <1>1, <1>2, <1>3, Zenon DEF IInv, CountInv
<1>5. IsFiniteSet(Waits(Taken(c)))
  <2>1. Waits(Taken(c)) \subseteq Receivers
    BY DEF Waits
  <2> QED
    BY <2>1, ReaderCount, FS_Subset
<1>6. count[got[c]] = 0 <=> Waits(Taken(c)) = {}
  BY <1>4, <1>5, FS_EmptySet
<1>7. ASSUME Waits(Taken(c)) = {}
      PROVE  /\ Taken(c) = Released + 1
             /\ \A d \in Receivers : Finished(d) >= Released + 1 /\ Passed(d) >= 1
  <2>1. \A d \in Receivers : Finished(d) >= Taken(c)
    BY <1>1, <1>7 DEF Waits
  <2>2. PICK d \in Receivers :
            \/ Finished(d) <= Released
            \/ rdpc[d] = "counted" /\ Taken(d) = Released + 1
    BY <1>2 DEF IInv, ReleaseInv
  <2>3. d = c /\ Taken(c) = Released + 1
    <3>1. ~(Finished(d) <= Released)
      BY <1>1, <1>2, <2>1
    <3> QED
      BY <2>2, <3>1 DEF IInv, Turns
  <2> QED
    BY <1>1, <2>1, <2>3
<1>8. ASSUME Waits(Taken(c)) # {}
      PROVE  \E d \in Receivers : Finished(d) < Taken(c)
  BY <1>8 DEF Waits
<1> QED
  BY <1>1, <1>2, <1>3, <1>6, <1>7, <1>8

(* It releases the message's slot, or leaves it to another.                 *)
LEMMA OutKeeps ==
    ASSUME Supported, IInv, NEW c \in Receivers, ReadOut(c)
    PROVE  IInv'
<1> DEFINE last == count[got[c]] = 0
<1>1. /\ rdpc[c] = "counted" /\ rpc[c] = "taken"
      /\ rdpc' = [rdpc EXCEPT ![c] = "pred"]
      /\ rpc' = [rpc EXCEPT ![c] = "idle"]
      /\ rd' = IF last THEN Ring!Inc(rd) ELSE rd
      /\ UNCHANGED <<wr, block, cursor, got, spc, cur_wt, item>>
      /\ UNCHANGED connVars /\ UNCHANGED apiVars /\ UNCHANGED sendVars
      /\ UNCHANGED tm /\ UNCHANGED mutex /\ UNCHANGED delivered /\ UNCHANGED count
      /\ Ring!PopOut(c, last)
  BY DEF ReadOut, Ring!PopOut, Ring!pushVars
<1>2. /\ UNCHANGED <<wpc, msg, used, sent>>
  BY <1>1 DEF sendVars
<1>3. /\ rd \in Ring!Words /\ wr \in Ring!Words
      /\ \A d \in Receivers : cursor[d] \in Ring!Words
      /\ rpc \in [Receivers -> {"idle", "ready", "taken"}]
      /\ rdpc \in [Receivers -> Phases] /\ sent \in Seq(Messages)
      /\ wpc \in [Senders -> {"idle", "open", "admitted", "push", "notify"}]
  BY DEF IInv, TypeOK, Ring!TypeOK, Phases
<1>4. /\ Len(sent) \in Nat /\ DOMAIN sent = 1 .. Len(sent)
      /\ Filled \in Nat /\ Filled <= RingSize - 1
      /\ Released \in Nat /\ Len(sent) = Released + Filled
      /\ \A d \in Receivers :
            /\ Passed(d) \in Nat /\ Passed(d) <= Filled
            /\ Taken(d) \in Nat /\ Taken(d) = Released + Passed(d)
            /\ rpc[d] = "taken" => Passed(d) >= 1
            /\ Finished(d) \in Nat
  BY Standing
<1>5. /\ last => /\ Taken(c) = Released + 1
                 /\ \A d \in Receivers : Finished(d) >= Released + 1 /\ Passed(d) >= 1
      /\ ~last => \E d \in Receivers : Finished(d) < Taken(c)
  BY <1>1, LastReader
<1> HIDE DEF last
<1>6. /\ rpc'[c] = "idle" /\ rdpc'[c] = "pred"
      /\ rdpc' \in [Receivers -> Phases]
      /\ \A d \in Receivers : d # c => rpc'[d] = rpc[d] /\ rdpc'[d] = rdpc[d]
  BY <1>1, <1>3 DEF Phases
<1>7. \A d \in Receivers : d # c => rpc[d] = "idle"
  BY <1>1, <1>3 DEF IInv, Turns
<1>8. \A d \in Receivers : rpc'[d] = "idle"
  BY <1>6, <1>7
<1>9. /\ last => /\ Filled >= 1 /\ Filled' = Filled - 1 /\ Released' = Released + 1
                 /\ \A d \in Receivers : Passed(d)' = Passed(d) - 1
      /\ ~last => /\ Filled' = Filled /\ Released' = Released
                  /\ \A d \in Receivers : Passed(d)' = Passed(d)
  <2>1. CASE last
    <3>1. rd' = Ring!Inc(rd) /\ wr' = wr /\ cursor' = cursor
      BY <1>1, <2>1
    <3>2. Filled >= 1
      BY <1>1, <1>4
    <3>3. Filled' = Filled - 1
      BY <1>3, <3>1, <3>2, DistSteps DEF Filled
    <3>4. \A d \in Receivers : Passed(d)' = Passed(d) - 1
      BY <1>3, <1>5, <2>1, <3>1, DistSteps DEF Passed
    <3>5. Released' = Released + 1
      BY <1>2, <1>4, <3>3 DEF Released, Filled
    <3> QED
      BY <2>1, <3>2, <3>3, <3>4, <3>5
  <2>2. CASE ~last
    <3>1. rd' = rd /\ wr' = wr /\ cursor' = cursor
      BY <1>1, <2>2
    <3> QED
      BY <1>2, <2>2, <3>1, Zenon DEF Filled, Passed, Released
  <2> QED
    BY <2>1, <2>2
<1>10. \A d \in Receivers : Taken(d)' = Taken(d)
  <2> SUFFICES ASSUME NEW d \in Receivers PROVE Taken(d)' = Taken(d)
    OBVIOUS
  <2>1. Taken(d)' = Released' + Passed(d)' /\ Taken(d) = Released + Passed(d)
    BY DEF Taken
  <2> QED
    BY <1>4, <1>5, <1>9, <2>1
<1>11. \A d \in Receivers : Given(d)' = Given(d) /\ Finished(d)' = Finished(d)
  BY <1>1, <1>6, <1>7, <1>8, <1>10 DEF Given, Finished
<1>12. \A i : Waits(i)' = Waits(i)
  BY <1>11, Zenon DEF Waits
<1>13. Started
  <2>1. Filled > 0
    BY <1>1, <1>4
  <2> QED
    BY <2>1, RingNotFresh
<1>14. TableInv' /\ SenderInv' /\ (Started' <=> Started)
  <2>1. ReaderOnly
    BY <1>1 DEF ReaderOnly
  <2>2. Filled' \in Nat /\ Filled' <= Filled
    BY <1>4, <1>9
  <2> QED
    BY <1>1, <2>1, <2>2, ReaderKeeps
<1>15. TypeOK'
  <2>1. Ring!Next
    BY <1>1 DEF Ring!Next, Ring!Pop, last
  <2> QED
    BY <1>1, <1>2, <1>3, <1>6, <2>1, RingStepTypes DEF IInv
<1>16. Turns'
  BY <1>1, <1>6, <1>8 DEF IInv, Turns
<1>17. RingInv'
  <2>1. /\ Filled' <= RingSize - 1 /\ Filled' <= Len(sent)
        /\ \A d \in Receivers : Passed(d)' <= Filled'
    BY <1>4, <1>9, RingSizes
  <2>2. ASSUME NEW i \in 0 .. Filled' - 1
        PROVE  block[Ring!SlotAt(rd', i)] = sent[Released' + i + 1]
    <3>1. CASE last
      <4>1. i \in 0 .. RingSize - 2 /\ i + 1 \in 0 .. Filled - 1 /\ Filled' = Filled - 1
        BY <1>4, <1>9, <3>1, RingSizes
      <4>2. Ring!SlotAt(rd', i) = Ring!SlotAt(rd, i + 1)
        BY <1>1, <1>3, <3>1, <4>1, SlotPlaces
      <4>3. block[Ring!SlotAt(rd, i + 1)] = sent[Released + (i + 1) + 1]
        BY <4>1 DEF IInv, RingInv
      <4>4. Released + (i + 1) + 1 = Released' + i + 1
        BY <1>4, <1>9, <3>1, <4>1
      <4> QED
        BY <4>2, <4>3, <4>4
    <3>2. CASE ~last
      BY <1>1, <1>9, <2>2, <3>2 DEF IInv, RingInv
    <3> QED
      BY <3>1, <3>2
  <2> QED
    BY <1>1, <1>2, <1>8, <2>1, <2>2 DEF RingInv
<1>18. ReaderInv'
  <2>1. \A d \in Receivers : rpc'[d] # "taken"
    BY <1>8
  <2> QED
    BY <1>1, <1>2, <1>11, <2>1, Zenon DEF IInv, ReaderInv
<1>19. CountInv'
  BY <1>1, <1>2, <1>12, Zenon DEF IInv, CountInv
<1>20. ReleaseInv'
  <2> SUFFICES ASSUME Filled' > 0
               PROVE  \E d \in Receivers : Finished(d) <= Released'
    BY <1>11 DEF ReleaseInv
  <2>1. CASE last
    <3>1. Finished(c) = Taken(c)
      BY <1>1 DEF Finished
    <3>2. Finished(c) <= Released'
      BY <1>4, <1>5, <1>9, <2>1, <3>1
    <3> QED
      BY <3>2
  <2>2. CASE ~last
    <3>1. PICK d \in Receivers :
            \/ Finished(d) <= Released
            \/ rdpc[d] = "counted" /\ Taken(d) = Released + 1
      BY <1>9, <2>2 DEF IInv, ReleaseInv
    <3>2. CASE Finished(d) <= Released
      BY <1>9, <2>2, <3>2
    <3>3. CASE rdpc[d] = "counted" /\ Taken(d) = Released + 1
      <4>1. d = c
        BY <1>1, <3>3 DEF IInv, Turns
      <4>2. PICK e \in Receivers : Finished(e) < Taken(c)
        BY <1>5, <2>2
      <4>3. Finished(e) <= Released
        BY <1>4, <3>3, <4>1, <4>2
      <4> QED
        BY <1>9, <2>2, <4>3
    <3> QED
      BY <3>1, <3>2, <3>3
  <2> QED
    BY <2>1, <2>2
<1>21. Fresh'
  BY <1>13, <1>14 DEF Fresh
<1> QED
  BY <1>14, <1>15, <1>16, <1>17, <1>18, <1>19, <1>20, <1>21 DEF IInv

-----------------------------------------------------------------------------
(* The inductive invariant, and what follows from it. *)

(* A fresh segment.                                                         *)
LEMMA InitInv == Supported /\ Init => IInv
<1> SUFFICES ASSUME Supported, Init PROVE IInv
  OBVIOUS
<1>1. Ring!Init /\ Conn!ConnInit
  BY DEF Init
<1>2. /\ rd = 0 /\ wr = 0 /\ block = [i \in Ring!Slots |-> None]
      /\ cursor = [c \in Receivers |-> 0] /\ spc = [s \in Senders |-> "idle"]
      /\ cur_wt = [s \in Senders |-> 0] /\ item = [s \in Senders |-> None]
      /\ rpc = [c \in Receivers |-> "idle"] /\ got = [c \in Receivers |-> None]
  BY <1>1 DEF Ring!Init
<1>3. /\ mutex = None /\ used = 0 /\ sent = <<>>
      /\ wpc = [s \in Senders |-> "idle"] /\ rdpc = [c \in Receivers |-> "out"]
      /\ delivered = [c \in Receivers |-> <<>>]
  BY DEF Init
<1>4. 0 \in Ring!Words /\ 0 \in Ring!Slots
  BY RingSizes DEF Ring!Slots
<1>5. TypeOK
  <2>1. Ring!TypeOK
    BY <1>2, <1>4 DEF Ring!TypeOK
  <2>2. Conn!ConnTypeOK
    <3>1. Table!ConnInit
      BY <1>1, SameTable
    <3>2. MaxCnt \in Nat /\ MaxJoins \in Nat
      BY HalfTable, JoinsAssumption
    <3> QED
      BY <3>1, <3>2 DEF Table!ConnInit, Conn!ConnTypeOK
  <2>3. count \in [Messages -> 0 .. CountSize - 1]
    BY ReaderCount DEF Init
  <2>4. /\ connected \in [Ports -> BOOLEAN]
        /\ apc \in [Ports -> {"idle", "claimed", "flagged", "cleared"}]
        /\ msg \in [Senders -> 0 .. MaxMsgs] /\ tm \in [Receivers -> Tms]
        /\ used \in 0 .. MaxMsgs
    BY IpcAssumption DEF Init
  <2> QED
    BY <1>3, <2>1, <2>2, <2>3, <2>4 DEF TypeOK
<1>6. /\ Filled = 0 /\ Len(sent) = 0 /\ DOMAIN sent = {} /\ Released = 0
      /\ \A c \in Receivers : /\ Passed(c) = 0 /\ Taken(c) = 0
                              /\ Given(c) = 0 /\ Finished(c) = 0
                              /\ rpc[c] = "idle" /\ rdpc[c] = "out"
                              /\ cursor[c] = 0 /\ delivered[c] = <<>>
  <2>1. Filled = 0
    BY <1>2, <1>4, RingDist DEF Filled
  <2>2. Len(sent) = 0 /\ DOMAIN sent = {}
    BY <1>3
  <2>3. Released = 0
    BY <2>1, <2>2 DEF Released, Filled
  <2>4. ASSUME NEW c \in Receivers
        PROVE  /\ Passed(c) = 0 /\ rpc[c] = "idle" /\ rdpc[c] = "out"
               /\ cursor[c] = 0 /\ delivered[c] = <<>>
    <3>1. cursor[c] = 0 /\ rpc[c] = "idle" /\ rdpc[c] = "out" /\ delivered[c] = <<>>
      BY <1>2, <1>3
    <3> QED
      BY <1>2, <1>4, <3>1, RingDist DEF Passed
  <2> QED
    BY <2>1, <2>2, <2>3, <2>4 DEF Taken, Given, Finished
<1>7. TableInv
  BY TableInit
<1>8. Turns /\ RingInv
  BY <1>6, RingSizes DEF Turns, RingInv
<1>9. SenderInv
  BY <1>2, <1>3, <1>6 DEF SenderInv
<1>10. ReaderInv /\ CountInv /\ ReleaseInv
  BY <1>6 DEF ReaderInv, CountInv, ReleaseInv
<1>11. Fresh
  BY <1>2, <1>3, <1>6 DEF Fresh
<1> QED
  BY <1>5, <1>7, <1>8, <1>9, <1>10, <1>11 DEF IInv

(* Every step preserves the invariant.                                      *)
LEMMA StepInv == Supported /\ IInv /\ [Next]_vars => IInv'
<1> SUFFICES ASSUME Supported, IInv, [Next]_vars PROVE IInv'
  OBVIOUS
<1>1. Kept => IInv'
  BY StillKeeps DEF Kept, IInv
<1>2. CASE UNCHANGED vars
  <2>1. /\ UNCHANGED ringVars /\ UNCHANGED readVars /\ UNCHANGED connVars /\ UNCHANGED apiVars
        /\ UNCHANGED sendVars /\ UNCHANGED count
    BY <1>2 DEF vars
  <2>2. TableSame /\ UNCHANGED <<wpc, msg, used, sent>> /\ connected' = connected
    BY <2>1 DEF TableSame, connVars, apiVars, sendVars
  <2>3. TableInv' /\ (Started' <=> Started)
    BY <2>2, TableFrame DEF IInv
  <2>4. /\ Turns' /\ Still /\ rdpc' \in [Receivers -> Phases]
        /\ mutex' \in Receivers \cup {None} /\ tm' \in [Receivers -> Tms]
    BY <2>1, <2>2, ReadersSame
  <2>5. TypeOK'
    <3>1. /\ connected \in [Ports -> BOOLEAN]
          /\ wpc \in [Senders -> {"idle", "open", "admitted", "push", "notify"}]
      BY DEF IInv, TypeOK
    <3> QED
      BY <2>2, <2>4, <3>1, SameTypes, StillTypes DEF IInv, Phases
  <2> QED
    BY <1>1, <2>3, <2>4, <2>5 DEF Kept
<1>3. ASSUME NEW p \in Ports, ConnectSlot(p) \/ DisconnectFlag(p) \/ Calling(p)
      PROVE  IInv'
  BY <1>1, <1>3, ConnectSlotKeeps, ConnectCursorKeeps, DisconnectKeeps DEF Calling
<1>4. ASSUME NEW s \in Senders, WriteOpen(s) \/ Writing(s)
      PROVE  IInv'
  <2>1. CASE WriteOpen(s) \/ WriteCheck(s) \/ WriteNotify(s)
    BY <1>1, <2>1, WritePhases
  <2>2. CASE WriteCount(s)
    BY <2>2, WriteCountKeeps
  <2>3. CASE WritePush(s)
    <3>1. /\ wpc[s] = "push"
          /\ UNCHANGED connVars /\ UNCHANGED apiVars /\ UNCHANGED <<msg, used, count>>
          /\ UNCHANGED readVars
      BY <2>3 DEF WritePush
    <3>2. CASE Ring!PushPublish(s) /\ wpc' = [wpc EXCEPT ![s] = "notify"]
                                   /\ sent' = Append(sent, msg[s])
      BY <3>1, <3>2, PublishKeeps
    <3>3. CASE \/ Ring!PushLoad(s, msg[s]) /\ UNCHANGED <<wpc, sent>>
               \/ Ring!PushFull(s)         /\ wpc' = [wpc EXCEPT ![s] = "idle"] /\ UNCHANGED sent
               \/ Ring!PushClaim(s)        /\ UNCHANGED <<wpc, sent>>
               \/ Ring!PushStore(s)        /\ UNCHANGED <<wpc, sent>>
      BY <3>1, <3>3, PushKeeps
    <3> QED
      BY <2>3, <3>2, <3>3, Zenon DEF WritePush
  <2> QED
    BY <1>4, <2>1, <2>2, <2>3 DEF Writing
<1>5. ASSUME NEW c \in Receivers, Reads(c) \/ ReadWakeup(c) \/ Reading(c)
      PROVE  IInv'
  <2>1. CASE \/ Reads(c) \/ ReadLoop(c) \/ ReadLock(c) \/ ReadWait(c) \/ ReadWakeup(c)
             \/ ReadExpire(c) \/ ReadRelock(c) \/ ReadEmpty(c)
    BY <1>1, <2>1, ReadPhases
  <2>2. CASE ReadPop(c)
    BY <2>2, PopKeeps
  <2>3. CASE ReadCallback(c)
    BY <2>3, CallbackKeeps
  <2>4. CASE ReadCountDown(c)
    BY <2>4, CountDownKeeps
  <2>5. CASE ReadOut(c)
    BY <2>5, OutKeeps
  <2> QED
    BY <1>5, <2>1, <2>2, <2>3, <2>4, <2>5 DEF Reading
<1> QED
  BY <1>2, <1>3, <1>4, <1>5 DEF Next

(* The inductive invariant of a channel and of a route.                     *)
THEOREM Inductive == ASSUME Supported PROVE Spec => []IInv
<1>1. Supported
  OBVIOUS
<1>2. Init => IInv
  BY <1>1, InitInv
<1>3. IInv /\ [Next]_vars => IInv'
  BY <1>1, StepInv
<1> QED
  BY <1>2, <1>3, PTL DEF Spec

(* The state of a channel and of a route is well typed; in particular no    *)
(* reader takes a slot that was never assigned.                             *)
THEOREM TypeCorrect == ASSUME Supported PROVE Spec => []TypeOK
<1>1. Supported
  OBVIOUS
<1>2. Spec => []IInv
  BY <1>1, Inductive
<1>3. IInv => TypeOK
  BY DEF IInv
<1> QED
  BY <1>2, <1>3, PTL

(* Every reader's callback is given the published messages in the order of  *)
(* publication, none skipped, repeated or altered, whatever the wraps of    *)
(* the ring and of the counters, the interleaving of write and read, and a  *)
(* disconnect in their midst.                                               *)
THEOREM DeliversInOrder == ASSUME Supported PROVE Spec => []InOrder
<1>1. Supported
  OBVIOUS
<1>2. Spec => []IInv
  BY <1>1, Inductive
<1>3. IInv => InOrder
  <2> SUFFICES ASSUME IInv, NEW c \in Receivers PROVE IsPrefix(delivered[c], sent)
    BY DEF InOrder
  <2>1. /\ delivered[c] \in Seq(Messages) /\ sent \in Seq(Messages)
    BY DEF IInv, TypeOK
  <2>2. /\ Given(c) \in Nat /\ Given(c) <= Len(sent)
    BY Standing
  <2>3. Len(delivered[c]) = Given(c) /\ \A i \in 1 .. Given(c) : delivered[c][i] = sent[i]
    BY DEF IInv, ReaderInv
  <2> HIDE DEF IInv
  <2>4. SubSeq(sent, 1, Given(c)) = SubSeq(delivered[c], 1, Given(c))
    BY <2>1, <2>2, <2>3
  <2> QED
    BY <2>2, <2>3, <2>4 DEF IsPrefix
<1> QED
  BY <1>2, <1>3, PTL

(* A message that a reader was given and has counted is one up to where it  *)
(* has finished.                                                            *)
LEMMA DoneFinished ==
    ASSUME IInv, NEW c \in Receivers, NEW i \in DOMAIN sent
    PROVE  Done(c, sent[i]) <=> i <= Finished(c)
<1>1. /\ Len(sent) \in Nat /\ DOMAIN sent = 1 .. Len(sent)
      /\ Given(c) \in Nat /\ Finished(c) \in Nat /\ Taken(c) \in Nat /\ Given(c) <= Len(sent)
      /\ rpc[c] = "taken" => Taken(c) \in 1 .. Len(sent)
  BY Standing
<1>2. /\ delivered[c] \in Seq(Messages) /\ Len(delivered[c]) = Given(c)
      /\ DOMAIN delivered[c] = 1 .. Given(c)
      /\ \A j \in 1 .. Given(c) : delivered[c][j] = sent[j]
  BY DEF IInv, TypeOK, ReaderInv
<1>3. \A x, y \in 1 .. Len(sent) : sent[x] = sent[y] => x = y
  <2>1. \A x, y \in 1 .. Len(sent) : x < y => sent[x] < sent[y]
    BY <1>1 DEF IInv, SenderInv
  <2>2. \A x \in 1 .. Len(sent) : sent[x] \in Int
    <3>1. sent \in Seq(Messages) /\ \A m \in Messages : m \in Int
      BY DEF IInv, TypeOK, Messages
    <3>2. \A x \in 1 .. Len(sent) : sent[x] \in Messages
      BY <1>1, <3>1
    <3> QED
      BY <3>1, <3>2
  <2> QED
    BY <1>1, <2>1, <2>2
<1>4. (\E j \in DOMAIN delivered[c] : delivered[c][j] = sent[i]) <=> i <= Given(c)
  BY <1>1, <1>2, <1>3
<1>5. rdpc[c] = "called" =>
        /\ rpc[c] = "taken" /\ Given(c) = Taken(c) /\ Finished(c) = Taken(c) - 1
        /\ (got[c] = sent[i] <=> i = Taken(c))
  <2>1. rdpc[c] = "called" => rpc[c] = "taken"
    BY DEF IInv, Turns
  <2>2. rpc[c] = "taken" => got[c] = sent[Taken(c)]
    BY DEF IInv, ReaderInv
  <2> QED
    BY <1>1, <1>3, <2>1, <2>2 DEF Given, Finished
<1>6. rdpc[c] # "called" => Finished(c) = Given(c)
  BY DEF IInv, Turns, Given, Finished
<1> QED
  BY <1>1, <1>4, <1>5, <1>6 DEF Done

(* The usage count of a published message is the number of readers that     *)
(* have not finished with it, and none of them needs a released one.        *)
THEOREM CountsExactly == ASSUME Supported PROVE Spec => []CountExact
<1>1. Supported
  OBVIOUS
<1>2. Spec => []IInv
  BY <1>1, Inductive
<1>3. IInv => CountExact
  <2> SUFFICES ASSUME IInv, NEW i \in DOMAIN sent
               PROVE  /\ count[sent[i]] = Cardinality({c \in Receivers : ~Done(c, sent[i])})
                      /\ i <= Released => \A c \in Receivers : Done(c, sent[i])
    BY DEF CountExact
  <2>1. /\ i \in Nat /\ Released \in Nat
        /\ \A c \in Receivers : Finished(c) \in Nat /\ Finished(c) >= Released
    <3>1. ASSUME NEW c \in Receivers PROVE Finished(c) >= Released
      BY Standing DEF Finished
    <3> QED
      BY <3>1, Standing
  <2>2. \A c \in Receivers : Done(c, sent[i]) <=> ~(Finished(c) < i)
    BY <2>1, DoneFinished
  <2>3. {c \in Receivers : ~Done(c, sent[i])} = Waits(i)
    BY <2>2 DEF Waits
  <2>4. count[sent[i]] = Cardinality(Waits(i))
    BY DEF IInv, CountInv
  <2>5. i <= Released => \A c \in Receivers : Done(c, sent[i])
    BY <2>1, <2>2
  <2> QED
    BY <2>3, <2>4, <2>5
<1> QED
  BY <1>2, <1>3, PTL

(* push refuses a message only while some reader has one to read.           *)
THEOREM RefusesUnread == ASSUME Supported PROVE Spec => []FullMeansUnread
<1>1. Supported
  OBVIOUS
<1>2. Spec => []IInv
  BY <1>1, Inductive
<1>3. IInv => FullMeansUnread
  <2> SUFFICES ASSUME IInv, \A c \in Receivers : rpc[c] = "idle" /\ cursor[c] = wr
               PROVE  Filled < RingSize - 1
    BY DEF FullMeansUnread, Filled
  <2>1. \A c \in Receivers : Passed(c) = Filled
    BY DEF Passed, Filled
  <2>2. \A c \in Receivers : Finished(c) = Released + Filled /\ rdpc[c] # "counted"
    BY <2>1 DEF IInv, Turns, Finished, Taken
  <2>3. Filled \in Nat /\ Released \in Nat
    BY Standing
  <2>4. ~(Filled > 0)
    <3>1. Filled > 0 => \E c \in Receivers : Finished(c) <= Released \/ rdpc[c] = "counted"
      BY Zenon DEF IInv, ReleaseInv
    <3> QED
      BY <2>2, <2>3, <3>1
  <2> QED
    BY <2>3, <2>4, RingSizes
<1> QED
  BY <1>2, <1>3, PTL

(* With one writer no published message is lost: a reader that has caught   *)
(* up with w_ was given every one of them.                                  *)
THEOREM LosesNothing == ASSUME Supported PROVE Spec => []NothingLost
<1>1. Supported
  OBVIOUS
<1>2. Spec => []IInv
  BY <1>1, Inductive
<1>3. IInv => NothingLost
  <2> SUFFICES ASSUME IInv, NEW c \in Receivers, rpc[c] = "idle", cursor[c] = wr,
                      NEW i \in DOMAIN sent
               PROVE  \E j \in DOMAIN delivered[c] : delivered[c][j] = sent[i]
    BY DEF NothingLost
  <2>1. Given(c) = Released + Filled
    BY DEF Given, Taken, Passed, Filled
  <2>2. Given(c) = Len(sent) /\ DOMAIN sent = 1 .. Len(sent)
    BY <2>1, Standing
  <2>3. /\ delivered[c] \in Seq(Messages) /\ Len(delivered[c]) = Given(c)
        /\ \A j \in 1 .. Given(c) : delivered[c][j] = sent[j]
    BY DEF IInv, TypeOK, ReaderInv
  <2> QED
    BY <2>2, <2>3
<1> QED
  BY <1>2, <1>3, PTL
=============================================================================
