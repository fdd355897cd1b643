------------------------------- MODULE RwLock -------------------------------
(***************************************************************************)
(* The readers-writer lock of src/sync/RwLock.h: one word lc_ whose high   *)
(* bit w_flag announces a writer and whose other bits count the readers.   *)
(* Each step is one atomic access to lc_, in a total order; the weaker     *)
(* order memory_order_release of compare_exchange_weak is not modelled.    *)
(***************************************************************************)
EXTENDS Integers, FiniteSets

CONSTANTS
    Threads,        \* the threads that use the lock
    WFlag           \* w_flag, 2^31; a reader adds 1

\* The readers never carry into w_flag: there are fewer than 2^31 threads.
ASSUME ThreadsAssumption ==
    /\ IsFiniteSet(Threads)
    /\ WFlag \in Nat /\ WFlag >= 2
    /\ Cardinality(Threads) < WFlag

VARIABLES
    lc,     \* lc_
    pc,     \* where each thread is
    old     \* the local variable old of lock_shared

rwVars == <<lc, pc, old>>

At(l) == {t \in Threads : pc[t] = l}

\* The two halves of the word.
Flagged(w)  == w >= WFlag               \* w & w_flag
Count(w)    == w % WFlag                \* w & w_mask

Init ==
    /\ lc = 0
    /\ pc = [t \in Threads |-> "idle"]
    /\ old = [t \in Threads |-> 0]

\* lock() is called.
LockCall(t) ==
    /\ pc[t] = "idle"
    /\ pc' = [pc EXCEPT ![t] = "lock"]
    /\ UNCHANGED <<lc, old>>

\* A bug: the flag is added, not set.
LockTryAdds(t) ==
    /\ pc[t] = "lock"
    /\ lc' = lc + WFlag
    /\ pc' = [pc EXCEPT ![t] = IF Flagged(lc) THEN "lock"
                               ELSE IF lc = 0 THEN "writing" ELSE "drain"]
    /\ UNCHANGED old

\* lc_.fetch_or(w_flag): free, held by readers, or held by a writer.
LockTry(t) ==
    /\ pc[t] = "lock"
    /\ lc' = WFlag + Count(lc)
    /\ pc' = [pc EXCEPT ![t] = IF Flagged(lc) THEN "lock"
                               ELSE IF lc = 0 THEN "writing" ELSE "drain"]
    /\ UNCHANGED old

\* The loop that waits for the readers to finish ends.
LockDrain(t) ==
    /\ pc[t] = "drain"
    /\ Count(lc) = 0
    /\ pc' = [pc EXCEPT ![t] = "writing"]
    /\ UNCHANGED <<lc, old>>

\* unlock()
Unlock(t) ==
    /\ pc[t] = "writing"
    /\ lc' = 0
    /\ pc' = [pc EXCEPT ![t] = "idle"]
    /\ UNCHANGED old

\* lock_shared() up to its first load.
SharedLoad(t) ==
    /\ pc[t] = "idle"
    /\ old' = [old EXCEPT ![t] = lc]
    /\ pc' = [pc EXCEPT ![t] = "shared"]
    /\ UNCHANGED lc

\* A writer was there: load again.
SharedReload(t) ==
    /\ pc[t] = "shared"
    /\ Flagged(old[t])
    /\ old' = [old EXCEPT ![t] = lc]
    /\ UNCHANGED <<lc, pc>>

\* A bug: lc_.fetch_add(1), which enters whatever has happened since the load.
SharedAdd(t) ==
    /\ pc[t] = "shared"
    /\ ~Flagged(old[t])
    /\ lc' = lc + 1
    /\ pc' = [pc EXCEPT ![t] = "reading"]
    /\ UNCHANGED old

\* compare_exchange_weak(old, old + 1) succeeds.
SharedEnter(t) ==
    /\ pc[t] = "shared"
    /\ ~Flagged(old[t])
    /\ lc = old[t]
    /\ lc' = lc + 1
    /\ pc' = [pc EXCEPT ![t] = "reading"]
    /\ UNCHANGED old

\* compare_exchange_weak fails, perhaps spuriously, and loads the word.
SharedFail(t) ==
    /\ pc[t] = "shared"
    /\ ~Flagged(old[t])
    /\ old' = [old EXCEPT ![t] = lc]
    /\ UNCHANGED <<lc, pc>>

\* A bug: the lock is released as a writer releases it.
UnlockSharedStores(t) ==
    /\ pc[t] = "reading"
    /\ lc' = 0
    /\ pc' = [pc EXCEPT ![t] = "idle"]
    /\ UNCHANGED old

\* A bug: a reader forgets to take itself off the count.
UnlockSharedForgets(t) ==
    /\ pc[t] = "reading"
    /\ pc' = [pc EXCEPT ![t] = "idle"]
    /\ UNCHANGED <<lc, old>>

\* unlock_shared(): lc_.fetch_sub(1).
UnlockShared(t) ==
    /\ pc[t] = "reading"
    /\ lc' = lc - 1
    /\ pc' = [pc EXCEPT ![t] = "idle"]
    /\ UNCHANGED old

Step(t) ==
    \/ LockTry(t) \/ LockDrain(t) \/ Unlock(t)
    \/ SharedReload(t) \/ SharedEnter(t) \/ SharedFail(t) \/ UnlockShared(t)

Next == \E t \in Threads : LockCall(t) \/ SharedLoad(t) \/ Step(t)

Spec == Init /\ [][Next]_rwVars

\* Every thread that is inside the lock's functions or holds the lock is
\* scheduled, and holders release what they hold.
FairSpec == Spec /\ \A t \in Threads : WF_rwVars(Step(t))

-----------------------------------------------------------------------------
Locations == {"idle", "lock", "drain", "writing", "shared", "reading"}

TypeOK ==
    /\ lc \in 0 .. 2 * WFlag - 1
    /\ pc \in [Threads -> Locations]
    /\ old \in [Threads -> 0 .. 2 * WFlag - 1]

Writers == At("drain") \cup At("writing")

(* A writer excludes readers and other writers, although lock() has already *)
(* set w_flag when it still waits for readers, and lock_shared() compares   *)
(* with a word it loaded before.                                            *)
MutualExclusion ==
    \A t \in At("writing") : \A u \in Threads :
        u # t => pc[u] \notin {"writing", "reading"}

(* The word is exact: w_flag is set while one writer owns it, and the rest  *)
(* is the number of readers, so unlock()'s store of 0 discards no reader.   *)
WordExact ==
    /\ Flagged(lc) <=> Writers # {}
    /\ Count(lc) = Cardinality(At("reading"))

(* Readers cannot starve a writer that has set w_flag: it gets in once the  *)
(* readers inside have left, since no other enters.                         *)
WriterEnters == \A t \in Threads : pc[t] = "drain" ~> pc[t] = "writing"
=============================================================================
