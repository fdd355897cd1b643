-------------------------------- MODULE Ipc ---------------------------------
(***************************************************************************)
(* A channel or a route in operation (src/Ipc.cpp): Ipc::connect,          *)
(* disconnect, write and read over one segment.  It composes the ring      *)
(* (Content), the connection table (Connection), the usage count in front  *)
(* of each message (src/core/Fragment.hpp) and the process-shared mutex    *)
(* and condition variable (src/sync/Waiter.h) that readers wait on.        *)
(*                                                                         *)
(* A port is an Ipc object that one thread drives; disconnect may come     *)
(* from a signal handler or another thread while that thread is inside     *)
(* write or read, as in the examples.  Each access to shared memory, and   *)
(* each critical section of a lock, is one step.                           *)
(***************************************************************************)
EXTENDS Integers, Sequences, FiniteSets, SequencesExt

CONSTANTS
    Senders, Receivers, None, RingSize, WordSize,   \* as in Content
    Broadcast, MaxCnt, MaxJoins,                    \* as in Connection
    Tms,            \* the arguments of read: 0, a time limit or no limit
    CountSize,      \* number of values of a usage count, 2^32
    MaxMsgs,        \* bound on the writes that reach the ring
    Leavers,        \* the ports whose application calls disconnect
    ReadersFirst    \* TRUE: applications write once every reader has connected

Ports == Senders \cup Receivers
Messages == 1 .. MaxMsgs

ASSUME IpcAssumption ==
    /\ Senders \cap Receivers = {}
    /\ Tms \subseteq {"zero", "limit", "forever"}
    /\ CountSize \in Nat /\ CountSize > Cardinality(Ports)
    /\ MaxMsgs \in Nat
    /\ Leavers \subseteq Ports
    /\ ReadersFirst \in BOOLEAN
    /\ None \notin Receivers

\* The assumptions of Content and of Connection.
ASSUME RingAssumption ==
    /\ RingSize \in Nat /\ RingSize >= 2
    /\ WordSize \in Nat
    /\ \E k \in 1 .. WordSize : WordSize = k * RingSize

ASSUME NoneAssumption == None \notin Messages

ASSUME CountAssumption == MaxCnt \in Nat /\ MaxCnt >= 4 /\ MaxCnt % 2 = 0
ASSUME JoinsAssumption == MaxJoins \in Nat /\ Broadcast \in BOOLEAN

VARIABLES
    rd, wr, block, cursor, spc, cur_wt, item, rpc, got,     \* as in Content
    cc, connected_id, role, joins,                          \* as in Connection
    connected,  \* IpcImpl::connected
    apc,        \* where each port stands in connect or disconnect
    wpc,        \* where each sender stands in write
    msg,        \* the message of each sender's write
    rdpc,       \* where each receiver stands in read
    tm,         \* the argument of each receiver's last read
    mutex,      \* the holder of Waiter::mutex_, or None
    count,      \* the usage count of each message
    used,       \* number of messages allocated
    sent,       \* the messages published, in order (history)
    delivered   \* the messages each callback was given, in order (history)

ringVars == <<rd, wr, block, cursor, spc, cur_wt, item, rpc, got>>
connVars == <<cc, connected_id, role, joins>>
apiVars  == <<connected, apc>>
sendVars == <<wpc, msg, used, sent>>
readVars == <<rdpc, tm, mutex, delivered>>
vars     == <<ringVars, connVars, apiVars, sendVars, readVars, count>>

Ring == INSTANCE Content WITH Descriptors <- Messages
Conn == INSTANCE Connection

-----------------------------------------------------------------------------
Init ==
    /\ Ring!Init
    /\ Conn!ConnInit
    /\ connected = [p \in Ports |-> FALSE]
    /\ apc  = [p \in Ports |-> "idle"]
    /\ wpc  = [s \in Senders |-> "idle"]
    /\ msg  = [s \in Senders |-> 0]
    /\ rdpc = [c \in Receivers |-> "out"]
    /\ tm \in [Receivers -> Tms]
    /\ mutex = None
    /\ count = [m \in Messages |-> 0]
    /\ used = 0
    /\ sent = <<>>
    /\ delivered = [c \in Receivers |-> <<>>]

\* The driving thread of p is in none of write and read.
Quiet(p) == IF p \in Senders THEN wpc[p] = "idle" ELSE rdpc[p] = "out"

Waiting == {c \in Receivers : rdpc[c] = "wait"}

\* pthread_cond_signal and pthread_cond_broadcast
WakeOne == IF Waiting = {} THEN UNCHANGED rdpc
           ELSE \E c \in Waiting : rdpc' = [rdpc EXCEPT ![c] = "woken"]
WakeAll == rdpc' = [c \in Receivers |-> IF c \in Waiting THEN "woken" ELSE rdpc[c]]

-----------------------------------------------------------------------------
(* connect: take an identifier, then load r_ into the cursor.  It begins   *)
(* with a call of disconnect: on a connected port that is the three        *)
(* actions further down, on another it only wakes the waiters, which       *)
(* ReadWakeup allows at any time.                                          *)

Mode(p) == IF p \in Senders THEN Conn!SENDER ELSE Conn!RECEIVER

ConnectSlot(p) ==
    /\ apc[p] = "idle" /\ Quiet(p)
    /\ Conn!Connect(p, Mode(p))
    /\ apc' = [apc EXCEPT ![p] = IF connected_id'[p] = 0 THEN "idle" ELSE "claimed"]
    /\ UNCHANGED <<ringVars, connected, sendVars, readVars, count>>

ConnectCursor(p) ==
    /\ apc[p] = "claimed"
    /\ apc' = [apc EXCEPT ![p] = "idle"]
    /\ connected' = [connected EXCEPT ![p] = TRUE]
    /\ IF p \in Receivers THEN Ring!Attach(p) ELSE UNCHANGED ringVars
    /\ UNCHANGED <<connVars, sendVars, readVars, count>>

(* disconnect: CONNECTED = false, clear the bit, wake every waiter.  The   *)
(* port may be in the middle of write or read.                             *)

DisconnectFlag(p) ==
    /\ p \in Leavers
    /\ apc[p] = "idle" /\ connected_id[p] # 0
    /\ apc' = [apc EXCEPT ![p] = "flagged"]
    /\ connected' = [connected EXCEPT ![p] = FALSE]
    /\ UNCHANGED <<ringVars, connVars, sendVars, readVars, count>>

DisconnectSlot(p) ==
    /\ apc[p] = "flagged"
    /\ apc' = [apc EXCEPT ![p] = "cleared"]
    /\ Conn!Disconnect(p)
    /\ UNCHANGED <<ringVars, connected, sendVars, readVars, count>>

DisconnectQuit(p) ==
    /\ apc[p] = "cleared"
    /\ apc' = [apc EXCEPT ![p] = "idle"]
    /\ WakeAll
    /\ UNCHANGED <<ringVars, connVars, connected, sendVars, tm, mutex, delivered, count>>

-----------------------------------------------------------------------------
(* write: que->connect(), connections(), recv_count(), the message and its *)
(* usage count, the steps of push, and the wakeup.                         *)

Started == \A c \in Receivers : role[c] = Conn!RECEIVER /\ apc[c] # "claimed"

\* que->connect() of a connected queue does nothing; one that is not
\* connected is connected by default as a RECEIVER.
WriteOpen(s) ==
    /\ wpc[s] = "idle" /\ apc[s] = "idle"
    /\ role[s] # 0                     \* valid()
    /\ used < MaxMsgs
    /\ ReadersFirst => Started
    /\ IF connected_id[s] # 0 THEN UNCHANGED connVars ELSE Conn!Connect(s, Conn!RECEIVER)
    /\ wpc' = [wpc EXCEPT ![s] = IF connected_id'[s] = 0 THEN "idle" ELSE "open"]
    /\ UNCHANGED <<ringVars, apiVars, msg, used, sent, readVars, count>>

WriteCheck(s) ==
    /\ wpc[s] = "open"
    /\ wpc' = [wpc EXCEPT ![s] = IF Conn!connections = 0 THEN "idle" ELSE "admitted"]
    /\ UNCHANGED <<ringVars, connVars, apiVars, msg, used, sent, readVars, count>>

\* A bug: every connection is counted as a reader.
WriteCountAll(s) ==
    /\ wpc[s] = "admitted"
    /\ used < MaxMsgs
    /\ wpc' = [wpc EXCEPT ![s] = "push"]
    /\ msg' = [msg EXCEPT ![s] = used + 1]
    /\ used' = used + 1
    /\ count' = [count EXCEPT ![used + 1] = Conn!connections]
    /\ UNCHANGED <<ringVars, connVars, apiVars, sent, readVars>>

WriteCount(s) ==
    /\ wpc[s] = "admitted"
    /\ used < MaxMsgs
    /\ wpc' = [wpc EXCEPT ![s] = "push"]
    /\ msg' = [msg EXCEPT ![s] = used + 1]
    /\ used' = used + 1
    /\ count' = [count EXCEPT ![used + 1] = Conn!recv_count]
    /\ UNCHANGED <<ringVars, connVars, apiVars, sent, readVars>>

WritePush(s) ==
    /\ wpc[s] = "push"
    /\ \/ Ring!PushLoad(s, msg[s]) /\ UNCHANGED <<wpc, sent>>
       \/ Ring!PushFull(s)         /\ wpc' = [wpc EXCEPT ![s] = "idle"] /\ UNCHANGED sent
       \/ Ring!PushClaim(s)        /\ UNCHANGED <<wpc, sent>>
       \/ Ring!PushStore(s)        /\ UNCHANGED <<wpc, sent>>
       \/ Ring!PushPublish(s)      /\ wpc' = [wpc EXCEPT ![s] = "notify"]
                                   /\ sent' = Append(sent, msg[s])
    /\ UNCHANGED <<connVars, apiVars, msg, used, readVars, count>>

WriteNotify(s) ==
    /\ wpc[s] = "notify"
    /\ wpc' = [wpc EXCEPT ![s] = "idle"]
    /\ IF Broadcast THEN WakeAll ELSE WakeOne
    /\ UNCHANGED <<ringVars, connVars, apiVars, msg, used, sent, tm, mutex, delivered, count>>

-----------------------------------------------------------------------------
(* read: the loop of wait_for, whose predicate empties the ring under the  *)
(* mutex.  With a time limit, or none, it waits before it looks.           *)

ReadStart(c, t) ==
    /\ rdpc[c] = "out" /\ apc[c] = "idle" /\ connected_id[c] # 0
    /\ rdpc' = [rdpc EXCEPT ![c] = "loop"]
    /\ tm' = [tm EXCEPT ![c] = t]
    /\ UNCHANGED <<ringVars, connVars, apiVars, sendVars, mutex, delivered, count>>

\* A bug: the loop of read does not look at CONNECTED.
ReadLoopForever(c) ==
    /\ rdpc[c] = "loop"
    /\ rdpc' = [rdpc EXCEPT ![c] = "lock"]
    /\ UNCHANGED <<ringVars, connVars, apiVars, sendVars, tm, mutex, delivered, count>>

ReadLoop(c) ==
    /\ rdpc[c] = "loop"
    /\ rdpc' = [rdpc EXCEPT ![c] = IF connected[c] THEN "lock" ELSE "out"]
    /\ UNCHANGED <<ringVars, connVars, apiVars, sendVars, tm, mutex, delivered, count>>

\* A bug: wait_for waits on the condition whatever tm is.
ReadLockWaits(c) ==
    /\ rdpc[c] = "lock" /\ mutex = None
    /\ rdpc' = [rdpc EXCEPT ![c] = "locked"]
    /\ mutex' = c
    /\ UNCHANGED <<ringVars, connVars, apiVars, sendVars, tm, delivered, count>>

ReadLock(c) ==
    /\ rdpc[c] = "lock" /\ mutex = None
    /\ rdpc' = [rdpc EXCEPT ![c] = IF tm[c] = "zero" THEN "pred" ELSE "locked"]
    /\ mutex' = c
    /\ UNCHANGED <<ringVars, connVars, apiVars, sendVars, tm, delivered, count>>

ReadWait(c) ==
    /\ rdpc[c] = "locked"
    /\ rdpc' = [rdpc EXCEPT ![c] = "wait"]
    /\ mutex' = None
    /\ UNCHANGED <<ringVars, connVars, apiVars, sendVars, tm, delivered, count>>

\* The wait may end without a signal, spuriously.
ReadWakeup(c) ==
    /\ rdpc[c] = "wait"
    /\ rdpc' = [rdpc EXCEPT ![c] = "woken"]
    /\ UNCHANGED <<ringVars, connVars, apiVars, sendVars, tm, mutex, delivered, count>>

\* The wait ends at its time limit.
ReadExpire(c) ==
    /\ rdpc[c] = "wait" /\ tm[c] = "limit"
    /\ rdpc' = [rdpc EXCEPT ![c] = "expired"]
    /\ UNCHANGED <<ringVars, connVars, apiVars, sendVars, tm, mutex, delivered, count>>

\* A bug: the predicate runs although another reader holds the mutex.
ReadRelockShared(c) ==
    /\ \/ /\ rdpc[c] = "woken"
          /\ rdpc' = [rdpc EXCEPT ![c] = "pred"]
          /\ mutex' = c
       \/ /\ rdpc[c] = "expired"
          /\ rdpc' = [rdpc EXCEPT ![c] = "loop"]
          /\ UNCHANGED mutex
    /\ UNCHANGED <<ringVars, connVars, apiVars, sendVars, tm, delivered, count>>

\* The wait takes the mutex again.  After a time-out wait_for gives it back
\* and returns without looking at the ring.
ReadRelock(c) ==
    /\ mutex = None
    /\ \/ /\ rdpc[c] = "woken"
          /\ rdpc' = [rdpc EXCEPT ![c] = "pred"]
          /\ mutex' = c
       \/ /\ rdpc[c] = "expired"
          /\ rdpc' = [rdpc EXCEPT ![c] = "loop"]
          /\ UNCHANGED mutex
    /\ UNCHANGED <<ringVars, connVars, apiVars, sendVars, tm, delivered, count>>

\* The ring is empty: by empty(), which compares the counters, or by pop,
\* which compares their low bytes.
ReadEmpty(c) ==
    /\ rdpc[c] = "pred" /\ rpc[c] = "idle"
    /\ Ring!Index(cursor[c]) = Ring!Index(wr)
    /\ rdpc' = [rdpc EXCEPT ![c] = "loop"]
    /\ mutex' = None
    /\ UNCHANGED <<ringVars, connVars, apiVars, sendVars, tm, delivered, count>>

ReadPop(c) ==
    /\ rdpc[c] = "pred"
    /\ Ring!PopReady(c) \/ Ring!PopTake(c)
    /\ UNCHANGED <<connVars, apiVars, sendVars, readVars, count>>

(* Fragment::read: the callback, fetch_sub on the usage count, and a load  *)
(* of it whose outcome decides in pop whether r_ moves.                    *)
ReadCallback(c) ==
    /\ rdpc[c] = "pred" /\ rpc[c] = "taken"
    /\ rdpc' = [rdpc EXCEPT ![c] = "called"]
    /\ delivered' = [delivered EXCEPT ![c] = Append(@, got[c])]
    /\ UNCHANGED <<ringVars, connVars, apiVars, sendVars, tm, mutex, count>>

ReadCountDown(c) ==
    /\ rdpc[c] = "called"
    /\ rdpc' = [rdpc EXCEPT ![c] = "counted"]
    /\ count' = [count EXCEPT ![got[c]] = (@ + CountSize - 1) % CountSize]
    /\ UNCHANGED <<ringVars, connVars, apiVars, sendVars, tm, mutex, delivered>>

\* Bugs: the first reader releases the slot; and the test looks at what
\* fetch_sub returned, the count before the subtraction.
ReadOutAtOnce(c) ==
    /\ rdpc[c] = "counted"
    /\ rdpc' = [rdpc EXCEPT ![c] = "pred"]
    /\ Ring!PopOut(c, TRUE)
    /\ UNCHANGED <<connVars, apiVars, sendVars, tm, mutex, delivered, count>>

ReadOutOldCount(c) ==
    /\ rdpc[c] = "counted"
    /\ rdpc' = [rdpc EXCEPT ![c] = "pred"]
    /\ Ring!PopOut(c, (count[got[c]] + 1) % CountSize = 0)
    /\ UNCHANGED <<connVars, apiVars, sendVars, tm, mutex, delivered, count>>

ReadOut(c) ==
    /\ rdpc[c] = "counted"
    /\ rdpc' = [rdpc EXCEPT ![c] = "pred"]
    /\ Ring!PopOut(c, count[got[c]] = 0)
    /\ UNCHANGED <<connVars, apiVars, sendVars, tm, mutex, delivered, count>>

-----------------------------------------------------------------------------
Writing(s) == WriteCheck(s) \/ WriteCount(s) \/ WritePush(s) \/ WriteNotify(s)

Reading(c) ==
    \/ ReadLoop(c) \/ ReadLock(c) \/ ReadWait(c) \/ ReadExpire(c) \/ ReadRelock(c)
    \/ ReadEmpty(c) \/ ReadPop(c)
    \/ ReadCallback(c) \/ ReadCountDown(c) \/ ReadOut(c)

Reads(c) == \E t \in Tms : ReadStart(c, t)

Calling(p) == ConnectCursor(p) \/ DisconnectSlot(p) \/ DisconnectQuit(p)

Next ==
    \/ \E p \in Ports : ConnectSlot(p) \/ DisconnectFlag(p) \/ Calling(p)
    \/ \E s \in Senders : WriteOpen(s) \/ Writing(s)
    \/ \E c \in Receivers : Reads(c) \/ ReadWakeup(c) \/ Reading(c)

Spec == Init /\ [][Next]_vars

(* A thread that has begun a call goes on with it, and a reader that has   *)
(* connected calls read.  Nobody is obliged to connect, to write or to     *)
(* leave, and a wait without a time limit need not end without a signal.   *)
FairSpec ==
    /\ Spec
    /\ \A p \in Ports : WF_vars(Calling(p))
    /\ \A s \in Senders : WF_vars(Writing(s))
    /\ \A c \in Receivers : WF_vars(Reading(c)) /\ WF_vars(Reads(c))
-----------------------------------------------------------------------------
TypeOK ==
    /\ Ring!TypeOK
    /\ Conn!ConnTypeOK
    /\ connected \in [Ports -> BOOLEAN]
    /\ apc  \in [Ports -> {"idle", "claimed", "flagged", "cleared"}]
    /\ wpc  \in [Senders -> {"idle", "open", "admitted", "push", "notify"}]
    /\ msg  \in [Senders -> 0 .. MaxMsgs]
    /\ rdpc \in [Receivers -> {"out", "loop", "lock", "locked", "wait", "woken",
                               "expired", "pred", "called", "counted"}]
    /\ tm \in [Receivers -> Tms]
    /\ mutex \in Receivers \cup {None}
    /\ count \in [Messages -> 0 .. CountSize - 1]
    /\ used \in 0 .. MaxMsgs
    /\ sent \in Seq(Messages)
    /\ delivered \in [Receivers -> Seq(Messages)]

\* How many of the published messages have been released, oldest first.
Released == Len(sent) - Ring!Dist(rd, wr)

\* c has been given m and has taken it off the usage count.
Done(c, m) ==
    /\ \E i \in DOMAIN delivered[c] : delivered[c][i] = m
    /\ ~(rdpc[c] = "called" /\ got[c] = m)

(* With one writer, every reader's callback is given the published          *)
(* messages in the order of publication, with none skipped, repeated or     *)
(* altered, across wraps of the ring and concurrent reads and writes.       *)
InOrder == \A c \in Receivers : IsPrefix(delivered[c], sent)

(* The usage count in front of a published message is the number of readers *)
(* that have not finished with it, and r_ has not passed a message that a   *)
(* reader still needs: write counts the readers before it publishes, each   *)
(* reader counts itself down after its callback, and one of them, the last, *)
(* sees 0 and releases the slot.                                            *)
CountExact ==
    /\ \A i \in DOMAIN sent :
        count[sent[i]] = Cardinality({c \in Receivers : ~Done(c, sent[i])})
    /\ \A i \in DOMAIN sent :
        i <= Released => \A c \in Receivers : Done(c, sent[i])

(* push refuses a message as full only while some reader has a message to   *)
(* read: a ring whose messages have all been read has been released.        *)
FullMeansUnread ==
    (\A c \in Receivers : rpc[c] = "idle" /\ cursor[c] = wr) =>
        Ring!Dist(rd, wr) < RingSize - 1

(* Every published message reaches the reader: once it has caught up with   *)
(* w_, its callback has been given everything that write reported as sent.  *)
NothingLost ==
    \A c \in Receivers :
        connected[c] /\ rpc[c] = "idle" /\ cursor[c] = wr =>
            \A i \in DOMAIN sent : \E j \in DOMAIN delivered[c] : delivered[c][j] = sent[i]

(* A published message is eventually given to every reader that stays       *)
(* connected, without the help of a later write.                            *)
EventuallyDelivered ==
    \A c \in Receivers, m \in Messages :
        (\E i \in DOMAIN sent : sent[i] = m) ~>
            (~connected[c] \/ \E i \in DOMAIN delivered[c] : delivered[c][i] = m)

(* A reader that polls needs no wakeup: whatever the writer, the mutex and  *)
(* a late disconnect do, it is given everything that was published, unless  *)
(* it is disconnected first.  (MaxMsgs bounds the messages; behind an       *)
(* endless stream it might never be level with the writer.)                 *)
PollingDelivers ==
    \A c \in Receivers :
        (tm[c] = "zero" /\ rdpc[c] # "out") ~> (~connected[c] \/ delivered[c] = sent)

\* c has yet to test CONNECTED, or is in a wait that its disconnect will end.
\* What is left out is a read without a limit that disconnect overtakes: its
\* flag comes after the test and its broadcast before the wait.
Heard(c) ==
    \/ tm[c] # "forever"
    \/ rdpc[c] \notin {"lock", "locked", "wait"}
    \/ rdpc[c] = "wait" /\ apc[c] \in {"flagged", "cleared"}

(* disconnect ends a read that polls or has a time limit, wherever it finds *)
(* it, and a read without a limit that it finds in the wait or outside of   *)
(* wait_for's lock: once no more messages come, the loop returns.  A        *)
(* disconnect between the test of CONNECTED and a wait without a limit is   *)
(* excepted (Heard): such a reader may sleep for good.                      *)
ReaderStops ==
    \A c \in Receivers :
        used = MaxMsgs /\ ~connected[c] /\ Heard(c) ~> rdpc[c] = "out"
=============================================================================
