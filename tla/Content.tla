------------------------------ MODULE Content -------------------------------
(***************************************************************************)
(* The ring of descriptors in shared memory: Content::push and            *)
(* Content::pop (src/core/Content.hpp, both specialisations are the same   *)
(* code) over the block_ array of Segment (src/core/Segment.hpp), and the  *)
(* cursor_ of each reader's QueueBase (src/Queue.hpp).                     *)
(*                                                                         *)
(* r_ and w_ are uint32_t counters that wrap; a slot number is their low   *)
(* byte.  Nothing locks the ring, so every access to shared memory is a    *)
(* step of its own.                                                        *)
(***************************************************************************)
EXTENDS Integers

CONSTANTS
    Senders,        \* threads that push
    Receivers,      \* threads that pop
    Descriptors,    \* what the slots carry
    None,           \* a slot or a local that was never assigned
    RingSize,       \* number of slots, 256: the values of a uint8_t
    WordSize        \* number of values of a cursor, 2^32: uint32_t

ASSUME SizeAssumption ==
    /\ RingSize \in Nat /\ RingSize >= 2
    /\ WordSize \in Nat
    /\ \E k \in 1 .. WordSize : WordSize = k * RingSize

ASSUME NoneAssumption == None \notin Descriptors

VARIABLES
    rd,         \* r_: releases so far
    wr,         \* w_: publications so far
    block,      \* block_
    cursor,     \* QueueBase::cursor_ of each reader
    spc,        \* where each sender stands in push
    cur_wt,     \* push: the slot read from w_
    item,       \* push: the descriptor to store
    rpc,        \* where each receiver stands in pop
    got         \* pop: the descriptor moved out of the ring

pushVars == <<spc, cur_wt, item>>
popVars  == <<cursor, rpc, got>>
vars     == <<rd, wr, block, pushVars, popVars>>

Words == 0 .. WordSize - 1
Slots == 0 .. RingSize - 1

\* static_cast<uint8_t>(x)
Index(x) == x % RingSize

\* A bug: a counter that does not wrap.
IncNoWrap(x) == x + 1

\* fetch_add(1) on a uint32_t, and r_.load() - 1
Inc(x) == (x + 1) % WordSize
Dec(x) == (x + WordSize - 1) % WordSize

-----------------------------------------------------------------------------
(* The segment is zero-filled shared memory. *)
Init ==
    /\ rd = 0
    /\ wr = 0
    /\ block  = [i \in Slots |-> None]
    /\ cursor = [c \in Receivers |-> 0]
    /\ spc    = [s \in Senders |-> "idle"]
    /\ cur_wt = [s \in Senders |-> 0]
    /\ item   = [s \in Senders |-> None]
    /\ rpc    = [c \in Receivers |-> "idle"]
    /\ got    = [c \in Receivers |-> None]

-----------------------------------------------------------------------------
(* push: load w_, load r_ and compare, store into the slot, add 1 to w_. *)

\* A bug: the slot is taken from r_ instead of w_.
PushLoadFromRead(s, d) ==
    /\ spc[s] = "idle"
    /\ spc'    = [spc EXCEPT ![s] = "loaded"]
    /\ cur_wt' = [cur_wt EXCEPT ![s] = Index(rd)]
    /\ item'   = [item EXCEPT ![s] = d]
    /\ UNCHANGED <<rd, wr, block, popVars>>

PushLoad(s, d) ==
    /\ spc[s] = "idle"
    /\ spc'    = [spc EXCEPT ![s] = "loaded"]
    /\ cur_wt' = [cur_wt EXCEPT ![s] = Index(wr)]
    /\ item'   = [item EXCEPT ![s] = d]
    /\ UNCHANGED <<rd, wr, block, popVars>>

\* Bugs: no test for a full ring, and one that refuses a place too soon.
NeverFull(s) == FALSE
FullTooSoon(s) == cur_wt[s] = Index(Dec(Dec(rd)))

Full(s) == cur_wt[s] = Index(Dec(rd))

PushFull(s) ==
    /\ spc[s] = "loaded"
    /\ Full(s)
    /\ spc' = [spc EXCEPT ![s] = "idle"]
    /\ UNCHANGED <<rd, wr, block, cur_wt, item, popVars>>

PushClaim(s) ==
    /\ spc[s] = "loaded"
    /\ ~Full(s)
    /\ spc' = [spc EXCEPT ![s] = "claimed"]
    /\ UNCHANGED <<rd, wr, block, cur_wt, item, popVars>>

PushStore(s) ==
    /\ spc[s] = "claimed"
    /\ spc'   = [spc EXCEPT ![s] = "stored"]
    /\ block' = [block EXCEPT ![cur_wt[s]] = item[s]]
    /\ UNCHANGED <<rd, wr, cur_wt, item, popVars>>

PushPublish(s) ==
    /\ spc[s] = "stored"
    /\ spc' = [spc EXCEPT ![s] = "idle"]
    /\ wr'  = Inc(wr)
    /\ UNCHANGED <<rd, block, cur_wt, item, popVars>>

-----------------------------------------------------------------------------
(* pop: load w_ and compare (an empty ring returns without a change), move *)
(* the descriptor out and advance the cursor, run the caller's out; r_ is  *)
(* advanced only when out reports that this was the last reader.           *)

\* A bug: no test for an empty ring.
PopReadyAlways(c) ==
    /\ rpc[c] = "idle"
    /\ rpc' = [rpc EXCEPT ![c] = "ready"]
    /\ UNCHANGED <<rd, wr, block, cursor, got, pushVars>>

PopReady(c) ==
    /\ rpc[c] = "idle"
    /\ Index(cursor[c]) # Index(wr)
    /\ rpc' = [rpc EXCEPT ![c] = "ready"]
    /\ UNCHANGED <<rd, wr, block, cursor, got, pushVars>>

PopTake(c) ==
    /\ rpc[c] = "ready"
    /\ rpc'    = [rpc EXCEPT ![c] = "taken"]
    /\ got'    = [got EXCEPT ![c] = block[Index(cursor[c])]]
    /\ cursor' = [cursor EXCEPT ![c] = Inc(cursor[c])]
    /\ UNCHANGED <<rd, wr, block, pushVars>>

PopOut(c, last) ==
    /\ rpc[c] = "taken"
    /\ rpc' = [rpc EXCEPT ![c] = "idle"]
    /\ rd'  = IF last THEN Inc(rd) ELSE rd
    /\ UNCHANGED <<wr, block, cursor, got, pushVars>>

\* QueueBase::connect: the cursor of a new connection is rd()
Attach(c) ==
    /\ rpc[c] = "idle"
    /\ cursor' = [cursor EXCEPT ![c] = rd]
    /\ UNCHANGED <<rd, wr, block, rpc, got, pushVars>>

-----------------------------------------------------------------------------
Push(s) ==
    \/ \E d \in Descriptors : PushLoad(s, d)
    \/ PushFull(s)
    \/ PushClaim(s)
    \/ PushStore(s)
    \/ PushPublish(s)

Pop(c) ==
    \/ PopReady(c)
    \/ PopTake(c)
    \/ \E last \in BOOLEAN : PopOut(c, last)
    \/ Attach(c)

Next ==
    \/ \E s \in Senders : Push(s)
    \/ \E c \in Receivers : Pop(c)

Spec == Init /\ [][Next]_vars
-----------------------------------------------------------------------------
(* Properties of the ring with one sender and one receiver. *)

TypeOK ==
    /\ rd \in Words
    /\ wr \in Words
    /\ block  \in [Slots -> Descriptors \cup {None}]
    /\ cursor \in [Receivers -> Words]
    /\ spc    \in [Senders -> {"idle", "loaded", "claimed", "stored"}]
    /\ cur_wt \in [Senders -> Slots]
    /\ item   \in [Senders -> Descriptors \cup {None}]
    /\ rpc    \in [Receivers -> {"idle", "ready", "taken"}]
    /\ got    \in [Receivers -> Descriptors \cup {None}]

\* How far the counter b is ahead of the counter a.
Dist(a, b) == IF b >= a THEN b - a ELSE b - a + WordSize

\* The slot of the i-th descriptor behind the counter a, from 0.
SlotAt(a, i) == Index((a + i) % WordSize)

(* A slot that push is about to overwrite, or has overwritten and not yet   *)
(* published, is not one whose descriptor the reader still has to take,     *)
(* although r_ was read before the store and may have moved since.          *)
NoOverrun ==
    \A s \in Senders, c \in Receivers :
        spc[s] \in {"claimed", "stored"} =>
            \A i \in Slots :
                i < Dist(cursor[c], wr) => SlotAt(cursor[c], i) # cur_wt[s]

(* The counters stay ordered, r_ <= cursor_ <= w_ <= r_ + RingSize - 1 in   *)
(* the order of a counter that wraps, whatever out answers.                 *)
CountersOrdered ==
    /\ Dist(rd, wr) <= RingSize - 1
    /\ \A c \in Receivers : Dist(rd, cursor[c]) <= Dist(rd, wr)

(* What makes CountersOrdered and NoOverrun inductive: what a thread read   *)
(* at an earlier step still holds when it acts on it.                       *)
StepsAgree ==
    /\ \A c \in Receivers :
        /\ rpc[c] = "ready" => Dist(rd, cursor[c]) < Dist(rd, wr)
        /\ rpc[c] = "taken" => Dist(rd, cursor[c]) >= 1
    /\ \A s \in Senders :
        /\ spc[s] # "idle" => cur_wt[s] = Index(wr) /\ item[s] \in Descriptors
        /\ spc[s] \in {"claimed", "stored"} => Dist(rd, wr) < RingSize - 1
        /\ spc[s] = "stored" => block[Index(wr)] = item[s]

IInv == TypeOK /\ CountersOrdered /\ StepsAgree

-----------------------------------------------------------------------------
(* One sender and one receiver see the bounded queue. *)
TheSender   == CHOOSE s \in Senders : TRUE
TheReceiver == CHOOSE c \in Receivers : TRUE

queueBar   == [i \in 1 .. Dist(rd, wr) |-> block[SlotAt(rd, i - 1)]]
takenBar   == Dist(rd, cursor[TheReceiver])
pendingBar == IF spc[TheSender] = "idle" THEN None ELSE item[TheSender]
gotBar     == got[TheReceiver]

BQ == INSTANCE BoundedQueue WITH
        Items <- Descriptors, Capacity <- RingSize - 1,
        queue <- queueBar, taken <- takenBar,
        pending <- pendingBar, got <- gotBar

(* The ring with one sender and one receiver implements the bounded queue: *)
(* nothing accepted is lost, duplicated, reordered or altered before it is *)
(* taken, and push refuses exactly when every place is occupied.           *)
RefinesQueue == BQ!Spec
=============================================================================
