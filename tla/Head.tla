-------------------------------- MODULE Head --------------------------------
(***************************************************************************)
(* Opening, using and closing the segment of one name: QueueConn::open,    *)
(* Head::init (src/core/Head.hpp), connect and disconnect, ~QueueBase      *)
(* (src/Queue.hpp), by queue objects in several processes that may die.    *)
(*                                                                         *)
(* init() is guarded by a flag and by the spin lock lc_, both inside the   *)
(* memory that it constructs: the placement new, which goes through the    *)
(* members in their order, frees the lock that its caller holds.  A step   *)
(* is one access to lc_ or constructed_, or the construction or            *)
(* initialisation of one other member.  An acquire or release of the       *)
(* handle is one step, and ref() the number of users (module Handle); the  *)
(* table of connections is that of module Connection.                      *)
(***************************************************************************)
EXTENDS Integers, FiniteSets

CONSTANTS
    Ports, Broadcast, MaxCnt, MaxJoins,     \* as in Connection
    MaxOpens,       \* bound on the calls of open
    MaxDeaths       \* bound on the processes that die

ASSUME HeadAssumption == MaxOpens \in Nat /\ MaxDeaths \in Nat
ASSUME CountAssumption == MaxCnt \in Nat /\ MaxCnt >= 4 /\ MaxCnt % 2 = 0
ASSUME JoinsAssumption == MaxJoins \in Nat /\ Broadcast \in BOOLEAN

VARIABLES
    cc, connected_id, role, joins,  \* as in Connection
    constructed,    \* constructed_
    lc,             \* lc_: 1 when the spin lock is taken
    waiter,         \* the members of waiter_ that are initialised
    pinned,         \* a dead process is still counted as a user
    pc,             \* where each queue stands in its open or destructor
    opens, deaths,  \* calls of open and dead processes so far
    marks           \* what has happened to this segment (history)

connVars == <<cc, connected_id, role, joins>>
memVars  == <<constructed, lc, waiter>>
bounds   == <<opens, deaths>>
vars     == <<connVars, memVars, pinned, pc, bounds, marks>>

Conn == INSTANCE Connection

Ready == {"cond", "mutex"}
Users == {p \in Ports : pc[p] # "closed"}

Locked   == {"recheck", "construct", "table", "lock", "leave"}
Building == {"construct", "table", "lock", "flag", "cond", "mutex", "publish"}
Opening  == {"check", "spin", "unlock"} \cup Locked \cup Building
Closing  == {"last", "closed waiter", "release"}

Goto(p, l) == pc' = [pc EXCEPT ![p] = l]
Mark(m, happened) == marks' = IF happened THEN marks \cup {m} ELSE marks

Init ==
    /\ Conn!ConnInit
    /\ constructed = FALSE /\ lc = 0 /\ waiter = {}
    /\ pinned = FALSE
    /\ pc = [p \in Ports |-> "closed"]
    /\ opens = 0 /\ deaths = 0
    /\ marks = {}

-----------------------------------------------------------------------------
\* QueueConn::open acquires the memory and calls init.  One that comes while
\* another is closing the segment as its last user is late.
Acquire(p) ==
    /\ pc[p] = "closed"
    /\ opens < MaxOpens
    /\ opens' = opens + 1
    /\ Goto(p, "check")
    /\ Mark("late", \E q \in Ports : pc[q] \in {"last", "closed waiter"})
    /\ UNCHANGED <<connVars, memVars, pinned, deaths>>

Check(p) ==
    /\ pc[p] = "check"
    /\ Goto(p, IF constructed THEN "open" ELSE "spin")
    /\ UNCHANGED <<connVars, memVars, pinned, bounds, marks>>

\* SpinLock::lock gets out of its loop.
SpinLock(p) ==
    /\ pc[p] = "spin"
    /\ lc = 0
    /\ lc' = 1
    /\ Goto(p, "recheck")
    /\ UNCHANGED <<connVars, constructed, waiter, pinned, bounds, marks>>

\* A bug: the flag is not looked at again under the lock.
RecheckNot(p) ==
    /\ pc[p] = "recheck"
    /\ Goto(p, "construct")
    /\ Mark("doubled", \E q \in Ports : pc[q] \in Building)
    /\ UNCHANGED <<connVars, memVars, pinned, bounds>>

\* constructed_ once more, under the lock.  The segment is built twice if
\* another is building it, whose placement new has let p in.
Recheck(p) ==
    /\ pc[p] = "recheck"
    /\ Goto(p, IF constructed THEN "leave" ELSE "construct")
    /\ Mark("doubled", ~constructed /\ \E q \in Ports : pc[q] \in Building)
    /\ UNCHANGED <<connVars, memVars, pinned, bounds>>

\* ::new (this) Head resets waiter_, ctx_ with the table, lc_ although it is
\* held, and constructed_.
Construct(p) ==
    /\ pc[p] = "construct"
    /\ Goto(p, "table")
    /\ waiter' = {}
    /\ UNCHANGED <<connVars, constructed, lc, pinned, bounds, marks>>

ResetTable(p) ==
    /\ pc[p] = "table"
    /\ Goto(p, "lock")
    /\ cc' = {}
    /\ UNCHANGED <<connected_id, role, joins, memVars, pinned, bounds, marks>>

ResetLock(p) ==
    /\ pc[p] = "lock"
    /\ Goto(p, "flag")
    /\ lc' = 0
    /\ UNCHANGED <<connVars, constructed, waiter, pinned, bounds, marks>>

ResetFlag(p) ==
    /\ pc[p] = "flag"
    /\ Goto(p, "cond")
    /\ constructed' = FALSE
    /\ UNCHANGED <<connVars, lc, waiter, pinned, bounds, marks>>

CondInit(p) ==
    /\ pc[p] = "cond"
    /\ Goto(p, "mutex")
    /\ waiter' = waiter \cup {"cond"}
    /\ UNCHANGED <<connVars, constructed, lc, pinned, bounds, marks>>

MutexInit(p) ==
    /\ pc[p] = "mutex"
    /\ Goto(p, "publish")
    /\ waiter' = waiter \cup {"mutex"}
    /\ UNCHANGED <<connVars, constructed, lc, pinned, bounds, marks>>

\* A bug: the flag is never set.
PublishNot(p) ==
    /\ pc[p] = "publish"
    /\ Goto(p, "unlock")
    /\ UNCHANGED <<connVars, memVars, pinned, bounds, marks>>

Publish(p) ==
    /\ pc[p] = "publish"
    /\ Goto(p, "unlock")
    /\ constructed' = TRUE
    /\ UNCHANGED <<connVars, lc, waiter, pinned, bounds, marks>>

\* A bug: the lock is given back only by the one who constructed.
UnlockBuilder(p) ==
    /\ pc[p] \in {"unlock", "leave"}
    /\ Goto(p, "open")
    /\ lc' = IF pc[p] = "unlock" THEN 0 ELSE lc
    /\ UNCHANGED <<connVars, constructed, waiter, pinned, bounds, marks>>

\* SpinLock::unlock by the guard.
Unlock(p) ==
    /\ pc[p] \in {"unlock", "leave"}
    /\ Goto(p, "open")
    /\ lc' = 0
    /\ UNCHANGED <<connVars, constructed, waiter, pinned, bounds, marks>>

-----------------------------------------------------------------------------
Use(p) ==
    /\ pc[p] = "open"
    /\ \/ \E m \in {Conn!SENDER, Conn!RECEIVER} : Conn!Connect(p, m)
       \/ Conn!Disconnect(p)
    /\ UNCHANGED <<memVars, pinned, pc, bounds, marks>>

\* ~QueueBase, after ~Ipc has disconnected: ref() <= 1.
CloseCheck(p) ==
    /\ pc[p] = "open" /\ connected_id[p] = 0
    /\ Goto(p, IF Users = {p} /\ ~pinned THEN "last" ELSE "release")
    /\ UNCHANGED <<connVars, memVars, pinned, bounds, marks>>

\* segment_->waiter().close()
CloseWaiter(p) ==
    /\ pc[p] = "last"
    /\ Goto(p, "closed waiter")
    /\ waiter' = {}
    /\ UNCHANGED <<connVars, constructed, lc, pinned, bounds, marks>>

\* handle_.release(): the last user removes the memory, and a new one is zero.
Release(p) ==
    /\ pc[p] \in {"release", "closed waiter"}
    /\ Goto(p, "closed")
    /\ IF Users = {p} /\ ~pinned
       THEN constructed' = FALSE /\ lc' = 0 /\ waiter' = {} /\ cc' = {} /\ marks' = {}
       ELSE UNCHANGED <<memVars, cc, marks>>
    /\ UNCHANGED <<connected_id, role, joins, pinned, bounds>>

\* A process dies.  Its connection and its reference stay, and so does lc_.
Die(p) ==
    /\ pc[p] # "closed"
    /\ deaths < MaxDeaths
    /\ deaths' = deaths + 1
    /\ Goto(p, "closed")
    /\ pinned' = TRUE
    /\ connected_id' = [connected_id EXCEPT ![p] = 0]
    /\ marks' = marks \cup (IF pc[p] \in Locked THEN {"locked"} ELSE {})
                      \cup (IF pc[p] \in Building THEN {"unfinished"} ELSE {})
                      \cup (IF pc[p] \in {"last", "closed waiter"} THEN {"late"} ELSE {})
    /\ UNCHANGED <<cc, role, joins, memVars, opens>>

Step(p) ==
    \/ Check(p) \/ SpinLock(p) \/ Recheck(p)
    \/ Construct(p) \/ ResetTable(p) \/ ResetLock(p) \/ ResetFlag(p)
    \/ CondInit(p) \/ MutexInit(p) \/ Publish(p) \/ Unlock(p)
    \/ CloseWaiter(p) \/ Release(p)

Next == \E p \in Ports : Acquire(p) \/ Step(p) \/ Use(p) \/ CloseCheck(p) \/ Die(p)

Spec == Init /\ [][Next]_vars

\* A process that is inside open or the destructor goes on.
FairSpec == Spec /\ \A p \in Ports : WF_vars(Step(p))

-----------------------------------------------------------------------------
Opened == {p \in Ports : pc[p] = "open"}

TypeOK ==
    /\ Conn!ConnTypeOK
    /\ constructed \in BOOLEAN /\ lc \in {0, 1} /\ waiter \subseteq Ready
    /\ pinned \in BOOLEAN
    /\ pc \in [Ports -> {"closed", "open"} \cup Opening \cup Closing]
    /\ opens \in 0 .. MaxOpens /\ deaths \in 0 .. MaxDeaths
    /\ marks \subseteq {"doubled", "late", "locked", "unfinished"}

(* As long as one queue built the segment, and none opened it while its     *)
(* last user was closing it, who returns from open() has a segment whose    *)
(* waiter is complete and stays so, and a connection made in it is counted: *)
(* other queues may open, close, connect and die at any point.  A segment   *)
(* that a second queue built ("doubled") or that was opened during its last *)
(* close ("late") is excepted: the code does not keep it usable.            *)
Usable ==
    Opened # {} /\ marks \cap {"doubled", "late"} = {} =>
        /\ constructed
        /\ waiter = Ready
        /\ Conn!ConnectedIsCounted

(* Even if it is built twice, the segment is whole for its users whenever   *)
(* nobody is building it: a second placement new undoes the flag and the    *)
(* waiter under them only until its own queue has made them again, and the  *)
(* lock is free once nobody is inside.  (Connections that it erased from    *)
(* the table stay erased.)                                                  *)
Settles ==
    /\ Opened # {}
    /\ marks \subseteq {"doubled"}
    /\ \A p \in Ports : pc[p] \notin Building
    => /\ constructed
       /\ waiter = Ready
       /\ (\A p \in Ports : pc[p] \notin Locked) => lc = 0

(* open() returns: the spin lock is always given back, even though the      *)
(* constructor resets it, unless a process dies with it; one that dies      *)
(* after the placement new holds nobody up.                                 *)
OpenReturns ==
    \A p \in Ports : pc[p] \in Opening ~> (pc[p] \notin Opening \/ "locked" \in marks)
=============================================================================
