---------------------------- MODULE WaiterProofs ----------------------------
(***************************************************************************)
(* Proofs about Waiter.tla for any threads and any number of deaths.       *)
(***************************************************************************)
EXTENDS Waiter, TLAPS

\* Where a thread holds a mutex that can be locked.
Inside == {"repair", "repaired", "held", "pred", "leave"}

\* Who is inside owns the mutex, and the owner is inside; a mutex that is
\* broken, or whose owner died, has no owner, and only a broken one was refused.
OwnerInside ==
    /\ \A t \in Threads : owner = t => pc[t] \in Inside
    /\ mstate # "broken" => \A t \in Threads : pc[t] \in Inside => owner = t
    /\ \A t \in Threads : pc[t] \in {"repair", "repaired", "held"} => owner = t
    /\ mstate \in {"dead", "broken"} => owner = Nobody
    /\ \A t \in Threads : pc[t] = "bare" => mstate = "broken"

\* A mutex taken from a dead owner is about to be repaired, or was taken by
\* Condition::wait.
InRepair ==
    mstate = "inconsistent" =>
        \E t \in Threads : owner = t /\ (pc[t] = "repair" \/ (pc[t] = "leave" /\ spoilt))

IInv == TypeOK /\ OwnerInside /\ InRepair /\ BrokenByWaitOnly

-----------------------------------------------------------------------------
(* No thread is at work at the start. *)
LEMMA InitIInv == Init => IInv
<1> SUFFICES ASSUME Init PROVE IInv
  OBVIOUS
<1>1. TypeOK
  <2>1. spoilt \in BOOLEAN
    BY Zenon DEF Init
  <2>2. deaths \in 0 .. MaxDeaths
    BY WaiterAssumption DEF Init
  <2> QED
    BY <2>1, <2>2, Zenon DEF Init, TypeOK
<1>2. OwnerInside /\ InRepair /\ BrokenByWaitOnly
  BY WaiterAssumption DEF Init, OwnerInside, Inside, InRepair, BrokenByWaitOnly
<1> QED
  BY <1>1, <1>2 DEF IInv

(* The types are preserved: the number of deaths stays within its bound. *)
LEMMA NextTypeOK == TypeOK /\ [Next]_vars => TypeOK'
<1> SUFFICES ASSUME TypeOK, [Next]_vars PROVE TypeOK'
  OBVIOUS
<1> USE WaiterAssumption DEF TypeOK, Goto, Taken, GivenBack
<1>1. ASSUME NEW t \in Threads, NEW limit \in {"zero", "limit", "forever"}, Call(t, limit)
      PROVE  TypeOK'
  BY <1>1 DEF Call
<1>2. ASSUME NEW t \in Threads, Lock(t) \/ TryLock(t) \/ Relock(t)
      PROVE  TypeOK'
  BY <1>2 DEF Lock, TryLock, Relock
<1>3. ASSUME NEW t \in Threads, LockFails(t) \/ Repair(t) \/ Repaired(t) \/ Poll(t) \/ Wait(t)
      PROVE  TypeOK'
  BY <1>3 DEF LockFails, Repair, Repaired, Poll, Wait
<1>4. ASSUME NEW t \in Threads,
             WaitRefused(t) \/ Wake(t) \/ RelockFails(t) \/ PredReturns(t) \/ Leave(t)
      PROVE  TypeOK'
  BY <1>4 DEF WaitRefused, Wake, RelockFails, PredReturns, Leave
<1>5. ASSUME NEW t \in Threads, Die(t)
      PROVE  TypeOK'
  BY <1>5 DEF Die
<1>6. CASE UNCHANGED vars
  BY <1>6 DEF vars
<1> QED
  BY <1>1, <1>2, <1>3, <1>4, <1>5, <1>6 DEF Next, Step

(* Every step preserves the invariant: the mutex changes hands only when it *)
(* is free, and each way out passes an unlock.                              *)
LEMMA NextIInv == IInv /\ [Next]_vars => IInv'
<1> SUFFICES ASSUME IInv, [Next]_vars PROVE IInv'
  OBVIOUS
<1>0. TypeOK /\ TypeOK'
  BY NextTypeOK DEF IInv
<1> SUFFICES OwnerInside' /\ InRepair' /\ BrokenByWaitOnly'
  BY <1>0 DEF IInv
<1> USE <1>0, WaiterAssumption
    DEF TypeOK, IInv, OwnerInside, Inside, InRepair, BrokenByWaitOnly, Goto
<1>1. ASSUME NEW t \in Threads, NEW limit \in {"zero", "limit", "forever"}, Call(t, limit)
      PROVE  OwnerInside' /\ InRepair' /\ BrokenByWaitOnly'
  BY <1>1 DEF Call
<1>2. ASSUME NEW t \in Threads, Lock(t)
      PROVE  OwnerInside' /\ InRepair' /\ BrokenByWaitOnly'
  BY <1>2 DEF Lock, Free, Taken
<1>3. ASSUME NEW t \in Threads, TryLock(t)
      PROVE  OwnerInside' /\ InRepair' /\ BrokenByWaitOnly'
  BY <1>3 DEF TryLock, Free, Taken
<1>4. ASSUME NEW t \in Threads, LockFails(t)
      PROVE  OwnerInside' /\ InRepair' /\ BrokenByWaitOnly'
  BY <1>4 DEF LockFails
<1>5. ASSUME NEW t \in Threads, Repair(t)
      PROVE  OwnerInside' /\ InRepair' /\ BrokenByWaitOnly'
  BY <1>5 DEF Repair
<1>6. ASSUME NEW t \in Threads, Repaired(t)
      PROVE  OwnerInside' /\ InRepair' /\ BrokenByWaitOnly'
  BY <1>6 DEF Repaired, GivenBack
<1>7. ASSUME NEW t \in Threads, Poll(t)
      PROVE  OwnerInside' /\ InRepair' /\ BrokenByWaitOnly'
  BY <1>7 DEF Poll
<1>8. ASSUME NEW t \in Threads, Wait(t)
      PROVE  OwnerInside' /\ InRepair' /\ BrokenByWaitOnly'
  BY <1>8 DEF Wait, GivenBack
<1>9. ASSUME NEW t \in Threads, WaitRefused(t)
      PROVE  OwnerInside' /\ InRepair' /\ BrokenByWaitOnly'
  BY <1>9 DEF WaitRefused
<1>10. ASSUME NEW t \in Threads, Wake(t)
       PROVE  OwnerInside' /\ InRepair' /\ BrokenByWaitOnly'
  BY <1>10 DEF Wake
<1>11. ASSUME NEW t \in Threads, Relock(t)
       PROVE  OwnerInside' /\ InRepair' /\ BrokenByWaitOnly'
  BY <1>11 DEF Relock, Free, Taken
<1>12. ASSUME NEW t \in Threads, RelockFails(t)
       PROVE  OwnerInside' /\ InRepair' /\ BrokenByWaitOnly'
  BY <1>12 DEF RelockFails
<1>13. ASSUME NEW t \in Threads, PredReturns(t)
       PROVE  OwnerInside' /\ InRepair' /\ BrokenByWaitOnly'
  BY <1>13 DEF PredReturns
<1>14. ASSUME NEW t \in Threads, Leave(t)
       PROVE  OwnerInside' /\ InRepair' /\ BrokenByWaitOnly'
  BY <1>14 DEF Leave, GivenBack
<1>15. ASSUME NEW t \in Threads, Die(t)
       PROVE  OwnerInside' /\ InRepair' /\ BrokenByWaitOnly'
  BY <1>15 DEF Die
<1>16. CASE UNCHANGED vars
  BY <1>16 DEF vars
<1> QED
  BY <1>1, <1>2, <1>3, <1>4, <1>5, <1>6, <1>7, <1>8, <1>9, <1>10, <1>11, <1>12,
     <1>13, <1>14, <1>15, <1>16
  DEF Next, Step

(* The inductive invariant of the waiter, whatever threads call wait_for    *)
(* and try_lock and wherever they die.                                      *)
THEOREM Inductive == Spec => []IInv
<1>1. Init => IInv
  BY InitIInv
<1>2. IInv /\ [Next]_vars => IInv'
  BY NextIInv
<1> QED
  BY <1>1, <1>2, PTL DEF Spec

(* Two predicates of wait_for never run at the same time while the mutex    *)
(* can be locked, whichever owners die.                                     *)
THEOREM Alone == Spec => []PredicateAlone
<1>1. IInv => PredicateAlone
  BY DEF IInv, OwnerInside, Inside, PredicateAlone
<1> QED
  BY <1>1, Inductive, PTL

(* Only Condition::wait makes the mutex unusable; Mutex::lock and try_lock  *)
(* never do, wherever their threads die.                                    *)
THEOREM WaitOnly == Spec => []BrokenByWaitOnly
<1>1. IInv => BrokenByWaitOnly
  BY DEF IInv
<1> QED
  BY <1>1, Inductive, PTL

(* wait_for, lock and try_lock give the mutex back on every way out.        *)
THEOREM GivesBack == Spec => []NothingKept
<1>1. IInv => NothingKept
  BY DEF IInv, OwnerInside, Inside, NothingKept
<1> QED
  BY <1>1, Inductive, PTL
=============================================================================
