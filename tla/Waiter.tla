------------------------------- MODULE Waiter -------------------------------
(***************************************************************************)
(* Waiter::wait_for (src/sync/Waiter.h) over the robust, process-shared    *)
(* mutex of src/sync/Mutex.cpp and the condition of src/sync/Condition.cpp *)
(* when processes die.  Module Ipc has the same loop with an ideal mutex;  *)
(* here the predicate is a critical section and a thread may die in it.    *)
(*                                                                         *)
(* The next to lock a mutex whose owner died gets it in an inconsistent    *)
(* state with EOWNERDEAD; it is to call pthread_mutex_consistent before it *)
(* unlocks, or nobody can ever lock the mutex again (ENOTRECOVERABLE).     *)
(***************************************************************************)
EXTENDS Integers

CONSTANTS
    Threads,        \* the threads of all processes that use the waiter
    Nobody,         \* owner of a free mutex
    MaxDeaths       \* bound on the threads that die

ASSUME WaiterAssumption == Nobody \notin Threads /\ MaxDeaths \in Nat

VARIABLES
    owner,      \* who holds mutex_, or Nobody
    mstate,     \* state of mutex_
    pc,         \* where each thread stands
    tm,         \* the argument of wait_for, or "try" for try_lock
    deaths,     \* threads that died so far
    spoilt      \* a wait was ended by EOWNERDEAD (history)

vars == <<owner, mstate, pc, tm, deaths, spoilt>>

Init ==
    /\ owner = Nobody
    /\ mstate = "normal"
    /\ pc = [t \in Threads |-> "idle"]
    /\ tm = [t \in Threads |-> "zero"]
    /\ deaths = 0
    /\ spoilt = FALSE

Goto(t, l) == pc' = [pc EXCEPT ![t] = l]

\* pthread_mutex_lock when it can return, and pthread_mutex_unlock by the owner.
Free == owner = Nobody /\ mstate # "broken"
Taken(t) == owner' = t /\ mstate' = IF mstate = "dead" THEN "inconsistent" ELSE mstate
GivenBack == owner' = Nobody /\ mstate' = IF mstate = "inconsistent" THEN "broken" ELSE mstate

-----------------------------------------------------------------------------
\* wait_for(pred, tm): std::lock_guard calls Mutex::lock.
Call(t, limit) ==
    /\ pc[t] = "idle"
    /\ Goto(t, "lock")
    /\ tm' = [tm EXCEPT ![t] = limit]
    /\ UNCHANGED <<owner, mstate, deaths, spoilt>>

\* A bug: EOWNERDEAD is taken for success and the mutex is not made consistent.
LockUnrepaired(t) ==
    /\ pc[t] = "lock"
    /\ Free
    /\ Taken(t)
    /\ Goto(t, "held")
    /\ UNCHANGED <<tm, deaths, spoilt>>

\* pthread_mutex_lock answers 0 or EOWNERDEAD.
Lock(t) ==
    /\ pc[t] = "lock"
    /\ Free
    /\ Taken(t)
    /\ Goto(t, IF mstate = "dead" THEN "repair" ELSE "held")
    /\ UNCHANGED <<tm, deaths, spoilt>>

\* pthread_mutex_lock answers ENOTRECOVERABLE and Mutex::lock false; the
\* lock_guard does not look at that and wait_for goes on without the mutex.
LockFails(t) ==
    /\ pc[t] = "lock"
    /\ mstate = "broken"
    /\ Goto(t, "bare")
    /\ UNCHANGED <<owner, mstate, tm, deaths, spoilt>>

\* try_lock, which throws after the repair of a mutex whose owner died.  When
\* the mutex is not free it answers false or throws, and nothing changes.
TryLock(t) ==
    /\ pc[t] = "idle"
    /\ Free
    /\ Taken(t)
    /\ Goto(t, IF mstate = "dead" THEN "repair" ELSE "pred")
    /\ tm' = [tm EXCEPT ![t] = "try"]
    /\ UNCHANGED <<deaths, spoilt>>

\* pthread_mutex_consistent
Repair(t) ==
    /\ pc[t] = "repair"
    /\ mstate' = "normal"
    /\ Goto(t, "repaired")
    /\ UNCHANGED <<owner, tm, deaths, spoilt>>

\* A bug: the loop repeats the repair and never unlocks.
RepairedAgain(t) ==
    /\ pc[t] = "repaired"
    /\ Goto(t, "repair")
    /\ UNCHANGED <<owner, mstate, tm, deaths, spoilt>>

\* pthread_mutex_unlock, and lock tries again.  The returns after an error of
\* pthread_mutex_consistent or of this unlock are left out: POSIX has none for
\* the owner of an inconsistent mutex.
Repaired(t) ==
    /\ pc[t] = "repaired"
    /\ GivenBack
    /\ Goto(t, IF tm[t] = "try" THEN "idle" ELSE "lock")
    /\ UNCHANGED <<tm, deaths, spoilt>>

-----------------------------------------------------------------------------
\* wait_for(pred, 0) runs the predicate at once, with the mutex or without.
Poll(t) ==
    /\ pc[t] \in {"held", "bare"}
    /\ tm[t] = "zero"
    /\ Goto(t, "pred")
    /\ UNCHANGED <<owner, mstate, tm, deaths, spoilt>>

\* pthread_cond_wait gives the mutex up.
Wait(t) ==
    /\ pc[t] = "held"
    /\ tm[t] # "zero"
    /\ GivenBack
    /\ Goto(t, "wait")
    /\ UNCHANGED <<tm, deaths, spoilt>>

\* Of one that does not own the mutex pthread_cond_wait refuses to wait.
WaitRefused(t) ==
    /\ pc[t] = "bare"
    /\ tm[t] # "zero"
    /\ Goto(t, "leave")
    /\ UNCHANGED <<owner, mstate, tm, deaths, spoilt>>

\* A signal, a spurious wakeup, or the end of the time limit.
Wake(t) ==
    /\ pc[t] = "wait"
    /\ \/ Goto(t, "woken")
       \/ tm[t] = "limit" /\ Goto(t, "expired")
    /\ UNCHANGED <<owner, mstate, tm, deaths, spoilt>>

\* A bug: the wait does not take the mutex again.
RelockNot(t) ==
    /\ pc[t] \in {"woken", "expired"}
    /\ Goto(t, IF pc[t] = "woken" THEN "pred" ELSE "leave")
    /\ UNCHANGED <<owner, mstate, tm, deaths, spoilt>>

\* The wait takes the mutex again.  After the time limit, and when the owner
\* has died meanwhile, Condition::wait is false and wait_for returns.
Relock(t) ==
    /\ pc[t] \in {"woken", "expired"}
    /\ Free
    /\ Taken(t)
    /\ Goto(t, IF pc[t] = "woken" /\ mstate = "normal" THEN "pred" ELSE "leave")
    /\ spoilt' = (spoilt \/ mstate = "dead")
    /\ UNCHANGED <<tm, deaths>>

\* The mutex cannot be locked any more: Condition::wait is false.
RelockFails(t) ==
    /\ pc[t] \in {"woken", "expired"}
    /\ mstate = "broken"
    /\ Goto(t, "leave")
    /\ UNCHANGED <<owner, mstate, tm, deaths, spoilt>>

PredReturns(t) ==
    /\ pc[t] = "pred"
    /\ Goto(t, "leave")
    /\ UNCHANGED <<owner, mstate, tm, deaths, spoilt>>

\* A bug: an early return skips the unlock.
LeaveLocked(t) ==
    /\ pc[t] = "leave"
    /\ Goto(t, "idle")
    /\ UNCHANGED <<owner, mstate, tm, deaths, spoilt>>

\* Mutex::unlock by the lock_guard; of one that is not the owner it fails.
Leave(t) ==
    /\ pc[t] = "leave"
    /\ IF owner = t THEN GivenBack ELSE UNCHANGED <<owner, mstate>>
    /\ Goto(t, "idle")
    /\ UNCHANGED <<tm, deaths, spoilt>>

\* The kernel marks the mutexes of a thread that dies.
Die(t) ==
    /\ pc[t] # "idle"
    /\ deaths < MaxDeaths
    /\ deaths' = deaths + 1
    /\ Goto(t, "idle")
    /\ IF owner = t THEN owner' = Nobody /\ mstate' = "dead" ELSE UNCHANGED <<owner, mstate>>
    /\ UNCHANGED <<tm, spoilt>>

Step(t) ==
    \/ Lock(t) \/ LockFails(t) \/ Repair(t) \/ Repaired(t)
    \/ Poll(t) \/ Wait(t) \/ WaitRefused(t)
    \/ Relock(t) \/ RelockFails(t) \/ PredReturns(t) \/ Leave(t)

Next ==
    \E t \in Threads :
        \/ \E limit \in {"zero", "limit", "forever"} : Call(t, limit)
        \/ TryLock(t) \/ Step(t) \/ Wake(t) \/ Die(t)

Spec == Init /\ [][Next]_vars

\* A thread that can go on goes on; no wait need end, and nobody need call.
FairSpec == Spec /\ \A t \in Threads : WF_vars(Step(t))

-----------------------------------------------------------------------------
TypeOK ==
    /\ owner \in Threads \cup {Nobody}
    /\ mstate \in {"normal", "dead", "inconsistent", "broken"}
    /\ pc \in [Threads -> {"idle", "lock", "repair", "repaired", "held", "bare", "wait",
                           "woken", "expired", "pred", "leave"}]
    /\ tm \in [Threads -> {"zero", "limit", "forever", "try"}]
    /\ deaths \in 0 .. MaxDeaths
    /\ spoilt \in BOOLEAN

(* Deaths of owners do not let two predicates run at the same time: while   *)
(* the mutex can be locked, a thread runs its predicate as the owner, even  *)
(* though wait_for never looks at what Mutex::lock answered.                *)
PredicateAlone == mstate # "broken" => \A t \in Threads : pc[t] = "pred" => owner = t

(* Mutex::lock and try_lock always bring a mutex back whose owner died, in  *)
(* whatever step it died, also in the repair.  It becomes unusable only     *)
(* through Condition::wait, which leaves a dead owner's mutex unrepaired.   *)
BrokenByWaitOnly == mstate = "broken" => spoilt

(* Every way out of wait_for, lock and try_lock, the ones after an error    *)
(* included, gives the mutex back: an owner is at work inside them.         *)
NothingKept == \A t \in Threads : owner = t => pc[t] \notin {"idle", "lock", "wait", "bare"}

(* Whoever wants the mutex of a dead owner gets it going again: in the end  *)
(* it is free and consistent, or broken by a wait, unless everyone who was  *)
(* at it has died or gone.                                                  *)
GoesOn ==
    (mstate = "dead" /\ \E t \in Threads : pc[t] = "lock") ~>
        \/ owner = Nobody /\ mstate # "dead"
        \/ \A t \in Threads : pc[t] \notin {"lock", "repair", "repaired"}
=============================================================================
