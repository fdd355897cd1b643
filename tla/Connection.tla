----------------------------- MODULE Connection -----------------------------
(***************************************************************************)
(* The connection table cc_ of a segment (src/core/Connection.hpp, both    *)
(* specialisations) and the identifier connected_id_ that each queue       *)
(* object keeps (QueueConn and QueueBase, src/Queue.hpp).                  *)
(*                                                                         *)
(* Every operation on cc_ runs under the spin lock lcc_, so it is one      *)
(* step.  cc_ is a std::bitset of TINYIPC_MAX_CNT = 64 bits, one machine   *)
(* word; a subscript out of range, which bitset::operator[] does not       *)
(* check, selects the bit of that word with the subscript modulo 64.       *)
(***************************************************************************)
EXTENDS Integers, FiniteSets, FiniteSetsExt

CONSTANTS
    Ports,          \* queue objects, one in each connected Ipc object
    Broadcast,      \* TRUE for a route, FALSE for a channel
    MaxCnt,         \* TINYIPC_MAX_CNT, 64
    MaxJoins        \* bound on the calls of connect as SENDER

ASSUME CountAssumption == MaxCnt \in Nat /\ MaxCnt >= 4 /\ MaxCnt % 2 = 0
ASSUME JoinsAssumption == MaxJoins \in Nat /\ Broadcast \in BOOLEAN

VARIABLES
    cc,             \* cc_: the set of the bits that are 1
    connected_id,   \* connected_id_ of each queue, 0 when not connected
    role,           \* the mode each queue asked for last, 0 before the first
    joins           \* number of connects as SENDER so far (history)

connVars == <<cc, connected_id, role, joins>>

SENDER   == 1
RECEIVER == 2

Bits == 0 .. MaxCnt - 1
Bit(i) == i % MaxCnt

\* The for loops of connect: the first i in lo .. hi - 1 whose bit is 0, or 0.
FirstFree(lo, hi) ==
    LET free == {i \in lo .. hi - 1 : Bit(i - 1) \notin cc}
    IN  IF free = {} THEN 0 ELSE Min(free)

\* A bug: a channel's receiver does not look at its bit.
UnicastIdUnchecked(m) == IF m = RECEIVER THEN MaxCnt ELSE FirstFree(1, MaxCnt)

\* The identifier that connect(m) of a channel finds: one bit for the receiver.
UnicastId(m) ==
    IF m = RECEIVER THEN IF MaxCnt - 1 \in cc THEN 0 ELSE MaxCnt
    ELSE FirstFree(1, MaxCnt)

\* The identifier that connect(m) of a route finds, in the half for m.
BroadcastId(m) ==
    IF m = SENDER THEN FirstFree(1, MaxCnt \div 2) ELSE FirstFree(MaxCnt \div 2, MaxCnt)

NewId(m) == IF Broadcast THEN BroadcastId(m) ELSE UnicastId(m)

\* The bit that connect(m) sets on its way to return id.  A channel that has
\* no bit left for a sender sets cc_[0 - 1] and returns 0.
BitsTaken(m, id) ==
    IF id # 0 THEN {id - 1}
    ELSE IF ~Broadcast /\ m = SENDER THEN {Bit(MaxCnt - 1)} ELSE {}

connections == Cardinality(cc)

UnicastRecvCount == IF MaxCnt - 1 \in cc THEN 1 ELSE 0

\* (cc_ << (MAX_CNT / 2)).count(): the bits that the shift does not push out.
BroadcastRecvCount == Cardinality({b \in cc : b + MaxCnt \div 2 \in Bits})

recv_count == IF Broadcast THEN BroadcastRecvCount ELSE UnicastRecvCount

-----------------------------------------------------------------------------
ConnInit ==
    /\ cc = {}
    /\ connected_id = [p \in Ports |-> 0]
    /\ role = [p \in Ports |-> 0]
    /\ joins = 0

\* QueueConn::connect on a queue that is not connected.
Connect(p, m) ==
    /\ connected_id[p] = 0
    /\ m = SENDER => joins < MaxJoins
    /\ LET id == NewId(m)
       IN  /\ connected_id' = [connected_id EXCEPT ![p] = id]
           /\ cc' = cc \cup BitsTaken(m, id)
    /\ role' = [role EXCEPT ![p] = m]
    /\ joins' = IF m = SENDER THEN joins + 1 ELSE joins

\* A bug: disconnect trusts its mode argument, which is RECEIVER in every call.
BitClearedByMode(id) == MaxCnt - 1

\* The bit that disconnect(mode, id) clears: cc_[id], while connect set cc_[id - 1].
BitCleared(id) == Bit(id)

\* A bug: the whole table is reset, as in the destructor.
DisconnectResets(p) ==
    /\ connected_id[p] # 0
    /\ cc' = {}
    /\ connected_id' = [connected_id EXCEPT ![p] = 0]
    /\ UNCHANGED <<role, joins>>

\* QueueBase::disconnect on a connected queue.
Disconnect(p) ==
    /\ connected_id[p] # 0
    /\ cc' = cc \ {BitCleared(connected_id[p])}
    /\ connected_id' = [connected_id EXCEPT ![p] = 0]
    /\ UNCHANGED <<role, joins>>

ConnNext ==
    \E p \in Ports :
        \/ \E m \in {SENDER, RECEIVER} : Connect(p, m)
        \/ Disconnect(p)

ConnSpec == ConnInit /\ [][ConnNext]_connVars

-----------------------------------------------------------------------------
Connected(m) == {p \in Ports : connected_id[p] # 0 /\ role[p] = m}

ConnTypeOK ==
    /\ cc \subseteq Bits
    /\ connected_id \in [Ports -> 0 .. MaxCnt]
    /\ role \in [Ports -> {0, SENDER, RECEIVER}]
    /\ joins \in 0 .. MaxJoins

(* A channel has one reader: connect hands the receiver's bit to one queue  *)
(* at a time, whatever senders come and go between.                         *)
SingleReceiver == ~Broadcast => Cardinality(Connected(RECEIVER)) <= 1

(* While a reader is connected to a channel, write counts it: recv_count    *)
(* answers 1.  A message counted 0 could never be released.                 *)
ReceiverCounted == ~Broadcast /\ Connected(RECEIVER) # {} => recv_count = 1

(* write goes ahead only if connections() is not 0: it never turns away a   *)
(* queue that is connected, although disconnect clears bits of others.      *)
ConnectedIsCounted == (\E p \in Ports : connected_id[p] # 0) => connections > 0
=============================================================================
