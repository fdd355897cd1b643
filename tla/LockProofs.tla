---------------------------- MODULE LockProofs ----------------------------
(***************************************************************************)
(* Proofs about the locks of src/sync: RwLock.tla, for every finite set of *)
(* threads smaller than w_flag, and RobustExclusiveLock.tla, for every set *)
(* of processes.                                                           *)
(***************************************************************************)
EXTENDS RwLock, RobustExclusiveLock, FiniteSetTheorems, TLAPS

-----------------------------------------------------------------------------
Readers == At("reading")

\* The word, as a sum: what the inductive argument needs of WordExact.
WordIs == lc = Cardinality(Readers) + IF Writers = {} THEN 0 ELSE WFlag

\* w_flag has one owner.
OneWriter == \A t, u \in Writers : t = u

\* The owner is past its wait only when no reader is left.
WriterAlone == At("writing") # {} => Readers = {}

IInv == TypeOK /\ WordIs /\ OneWriter /\ WriterAlone

-----------------------------------------------------------------------------
(* The number of threads anywhere fits below w_flag. *)
LEMMA FewThreads ==
    ASSUME NEW S \in SUBSET Threads
    PROVE  /\ IsFiniteSet(S)
           /\ Cardinality(S) \in 0 .. WFlag - 1
           /\ Cardinality(S) = 0 <=> S = {}
<1>1. /\ IsFiniteSet(S) /\ Cardinality(S) <= Cardinality(Threads)
  BY FS_Subset, ThreadsAssumption
<1>2. Cardinality(S) \in Nat /\ Cardinality(Threads) \in Nat
  BY <1>1, FS_CardinalityType, ThreadsAssumption
<1>3. Cardinality(S) = 0 <=> S = {}
  BY <1>1, FS_EmptySet
<1> QED
  BY <1>1, <1>2, <1>3, ThreadsAssumption

(* Masking a word with w_mask subtracts w_flag if it is set. *)
LEMMA Mask ==
    ASSUME NEW w \in 0 .. 2 * WFlag - 1
    PROVE  Count(w) = IF Flagged(w) THEN w - WFlag ELSE w
<1>1. ASSUME NEW n \in Nat, n >= 2, NEW x \in 0 .. 2 * n - 1
      PROVE  x % n = IF x >= n THEN x - n ELSE x
  BY <1>1, SMTT(20)
<1> QED
  BY <1>1, ThreadsAssumption DEF Count, Flagged

(* What the word says, under the inductive invariant. *)
LEMMA WordSays ==
    ASSUME IInv
    PROVE  /\ Flagged(lc) <=> Writers # {}
           /\ Count(lc) = Cardinality(Readers)
           /\ lc = 0 => Readers = {} /\ Writers = {}
           /\ Cardinality(Readers) \in 0 .. WFlag - 1
           /\ IsFiniteSet(Readers)
<1>1. /\ Cardinality(Readers) \in 0 .. WFlag - 1
      /\ Cardinality(Readers) = 0 <=> Readers = {}
      /\ IsFiniteSet(Readers)
  BY FewThreads DEF Readers, At
<1>2. Flagged(lc) <=> Writers # {}
  BY <1>1, ThreadsAssumption DEF IInv, WordIs, Flagged
<1>3. Count(lc) = IF Flagged(lc) THEN lc - WFlag ELSE lc
  BY Mask DEF IInv, TypeOK
<1>4. Count(lc) = Cardinality(Readers)
  BY <1>1, <1>2, <1>3, ThreadsAssumption DEF IInv, WordIs
<1>5. lc = 0 => Readers = {} /\ Writers = {}
  BY <1>1, ThreadsAssumption DEF IInv, WordIs
<1> QED
  BY <1>1, <1>2, <1>4, <1>5

(* The lock starts free. *)
LEMMA InitIInv == Init => IInv
<1> SUFFICES ASSUME Init PROVE IInv
  OBVIOUS
<1>1. Readers = {} /\ Writers = {} /\ At("writing") = {}
  BY DEF Init, Readers, Writers, At
<1>2. Cardinality(Readers) = 0
  BY <1>1, FS_EmptySet
<1>3. TypeOK
  BY ThreadsAssumption DEF Init, TypeOK, Locations
<1> QED
  BY <1>1, <1>2, <1>3 DEF Init, IInv, WordIs, OneWriter, WriterAlone

-----------------------------------------------------------------------------
(* A step that moves a thread among locations where it holds nothing, and   *)
(* leaves the word alone, keeps the invariant.                              *)
LEMMA MoveOutside ==
    ASSUME IInv, TypeOK', lc' = lc,
           Readers' = Readers, Writers' = Writers, At("writing")' = At("writing")
    PROVE  IInv'
BY DEF IInv, WordIs, OneWriter, WriterAlone

(* lock() enters, starts to drain, or tries again. *)
LEMMA LockTryIInv ==
    ASSUME IInv, NEW t \in Threads, LockTry(t)
    PROVE  IInv'
<1> USE WordSays
<1>1. CASE Flagged(lc)
  <2>1. pc' = pc
    BY <1>1 DEF LockTry, IInv, TypeOK
  <2>2. lc' = lc
    BY <1>1, ThreadsAssumption DEF LockTry, IInv, WordIs
  <2>3. TypeOK'
    BY <2>1, <2>2 DEF LockTry, IInv, TypeOK
  <2> QED
    BY <2>1, <2>2, <2>3, MoveOutside DEF Readers, Writers, At
<1>2. CASE ~Flagged(lc)
  <2>1. Writers = {}
    BY <1>2
  <2>2. Writers' = {t} /\ Readers' = Readers
    BY <1>2, <2>1 DEF LockTry, IInv, TypeOK, Writers, Readers, At, Locations
  <2>3. lc' = WFlag + Cardinality(Readers)
    BY DEF LockTry
  <2>4. TypeOK'
    BY <2>3, <1>2, ThreadsAssumption DEF LockTry, IInv, TypeOK, Locations
  <2>5. WordIs'
    BY <2>2, <2>3, ThreadsAssumption DEF WordIs
  <2>6. OneWriter'
    BY <2>2 DEF OneWriter
  <2>7. WriterAlone'
    <3>1. CASE lc = 0
      BY <3>1, <2>2 DEF WriterAlone
    <3>2. CASE lc # 0
      BY <3>2, <1>2, <2>1 DEF LockTry, IInv, TypeOK, WriterAlone, Writers, At
    <3> QED
      BY <3>1, <3>2
  <2> QED
    BY <2>4, <2>5, <2>6, <2>7 DEF IInv
<1> QED
  BY <1>1, <1>2

(* The owner of w_flag goes on once the count is 0. *)
LEMMA LockDrainIInv ==
    ASSUME IInv, NEW t \in Threads, LockDrain(t)
    PROVE  IInv'
<1>1. Readers = {}
  BY WordSays, FewThreads DEF LockDrain, Readers, At
<1>2. Writers' = Writers /\ Readers' = Readers
  BY DEF LockDrain, IInv, TypeOK, Writers, Readers, At
<1>3. TypeOK'
  BY DEF LockDrain, IInv, TypeOK, Locations
<1> QED
  BY <1>1, <1>2, <1>3 DEF LockDrain, IInv, WordIs, OneWriter, WriterAlone

(* unlock() discards no reader, since there is none. *)
LEMMA UnlockIInv ==
    ASSUME IInv, NEW t \in Threads, Unlock(t)
    PROVE  IInv'
<1>1. t \in At("writing") /\ t \in Writers
  BY DEF Unlock, Writers, At
<1>2. Readers = {} /\ Writers = {t}
  BY <1>1 DEF IInv, OneWriter, WriterAlone
<1>3. Writers' = {} /\ Readers' = {} /\ At("writing")' = {}
  <2>1. Readers' = Readers /\ Writers' = Writers \ {t}
    BY DEF Unlock, IInv, TypeOK, Writers, Readers, At
  <2> QED
    BY <2>1, <1>2 DEF Writers
<1>4. TypeOK'
  BY ThreadsAssumption DEF Unlock, IInv, TypeOK, Locations
<1>5. WordIs'
  BY <1>3, FS_EmptySet DEF Unlock, WordIs
<1> QED
  BY <1>3, <1>4, <1>5 DEF IInv, OneWriter, WriterAlone

(* A reader enters only on a word without w_flag that is still current. *)
LEMMA SharedEnterIInv ==
    ASSUME IInv, NEW t \in Threads, SharedEnter(t)
    PROVE  IInv'
<1>1. Writers = {} /\ IsFiniteSet(Readers)
  BY WordSays DEF SharedEnter
<1>2. Readers' = Readers \cup {t} /\ t \notin Readers
  BY DEF SharedEnter, IInv, TypeOK, Readers, At
<1>3. Writers' = {} /\ At("writing")' = {}
  BY <1>1 DEF SharedEnter, IInv, TypeOK, Writers, At
<1>4. Cardinality(Readers') = Cardinality(Readers) + 1
  BY <1>1, <1>2, FS_AddElement
<1>5. Cardinality(Readers') \in 0 .. WFlag - 1
  BY <1>2, FewThreads DEF Readers, At
<1>6. lc' = Cardinality(Readers')
  BY <1>1, <1>4, WordSays DEF SharedEnter, IInv, WordIs
<1>7. TypeOK'
  BY <1>5, <1>6, ThreadsAssumption DEF SharedEnter, IInv, TypeOK, Locations
<1> QED
  BY <1>3, <1>5, <1>6, <1>7 DEF IInv, WordIs, OneWriter, WriterAlone

(* A reader leaves, with or without a writer that waits for it. *)
LEMMA UnlockSharedIInv ==
    ASSUME IInv, NEW t \in Threads, UnlockShared(t)
    PROVE  IInv'
<1>1. t \in Readers /\ IsFiniteSet(Readers) /\ Cardinality(Readers) \in 0 .. WFlag - 1
  BY WordSays DEF UnlockShared, Readers, At
<1>2. Readers' = Readers \ {t} /\ Writers' = Writers /\ At("writing")' = At("writing")
  BY DEF UnlockShared, IInv, TypeOK, Readers, Writers, At
<1>3. Cardinality(Readers') = Cardinality(Readers) - 1
  BY <1>1, <1>2, FS_RemoveElement
<1>4. Cardinality(Readers') \in 0 .. WFlag - 1
  BY <1>2, FewThreads DEF Readers, At
<1>5. WordIs'
  BY <1>1, <1>2, <1>3, ThreadsAssumption DEF UnlockShared, IInv, WordIs
<1>6. TypeOK'
  BY <1>2, <1>4, <1>5, ThreadsAssumption DEF UnlockShared, IInv, TypeOK, WordIs, Locations
<1>7. At("writing") = {}
  BY <1>1 DEF IInv, WriterAlone
<1> QED
  BY <1>2, <1>5, <1>6, <1>7 DEF IInv, OneWriter, WriterAlone

(* Every step keeps the invariant. *)
LEMMA NextIInv == IInv /\ [Next]_rwVars => IInv'
<1> SUFFICES ASSUME IInv, [Next]_rwVars PROVE IInv'
  OBVIOUS
<1>1. CASE UNCHANGED rwVars
  BY <1>1, MoveOutside DEF rwVars, IInv, TypeOK, Readers, Writers, At
<1>2. ASSUME NEW t \in Threads,
             LockCall(t) \/ SharedLoad(t) \/ SharedReload(t) \/ SharedFail(t)
      PROVE  IInv'
  <2>1. lc' = lc
    BY <1>2 DEF LockCall, SharedLoad, SharedReload, SharedFail
  <2>2. TypeOK'
    BY <1>2 DEF LockCall, SharedLoad, SharedReload, SharedFail, IInv, TypeOK, Locations
  <2>3. Readers' = Readers /\ Writers' = Writers /\ At("writing")' = At("writing")
    BY <1>2 DEF LockCall, SharedLoad, SharedReload, SharedFail, IInv, TypeOK,
                Readers, Writers, At
  <2> QED
    BY <2>1, <2>2, <2>3, MoveOutside
<1> QED
  BY <1>1, <1>2, LockTryIInv, LockDrainIInv, UnlockIInv, SharedEnterIInv,
     UnlockSharedIInv DEF Next, Step

-----------------------------------------------------------------------------
(* lc and the variables of the threads keep their types. *)
THEOREM TypeCorrect == Spec => []TypeOK
<1>1. IInv => TypeOK
  BY DEF IInv
<1> QED
  BY <1>1, InitIInv, NextIInv, PTL DEF Spec

(* lock() gives a writer the lock alone, against every interleaving of any  *)
(* number of readers and writers.                                           *)
THEOREM Exclusive == Spec => []MutualExclusion
<1>1. IInv => MutualExclusion
  BY DEF IInv, OneWriter, WriterAlone, MutualExclusion, Writers, Readers, At
<1> QED
  BY <1>1, InitIInv, NextIInv, PTL DEF Spec

(* The word stays within its type and means what the code takes it to mean: *)
(* w_flag is owned by a writer and the rest is the number of readers.       *)
THEOREM Exact == Spec => [](TypeOK /\ WordExact)
<1>1. IInv => TypeOK /\ WordExact
  BY WordSays DEF IInv, WordExact, Readers
<1> QED
  BY <1>1, InitIInv, NextIInv, PTL DEF Spec


-----------------------------------------------------------------------------
(* RobustExclusiveLock, for all processes and files and any deaths.         *)

\* Flocks and open files: each flock is that of a process which holds it.
FlocksHeld ==
    /\ \A p \in Procs : lpc[p] \in {"flock", "held", "close"} <=> fd[p] # NoFile
    /\ \A p \in Procs : lpc[p] = "held" => [file |-> fd[p], proc |-> p] \in locked
    /\ \A l \in locked : lpc[l.proc] = "held" /\ l.file = fd[l.proc]
    /\ \A l, k \in locked : l.file = k.file => l.proc = k.proc

\* As long as no path was removed, there is one file.
OneFile == removed \/ \A p \in Procs : fd[p] # NoFile => fd[p] = path

\* Somebody is there to remove the file.
Remover ==
    crashes = 0 /\ path # NoFile =>
        \E p \in Procs : lpc[p] \in {"flock", "held", "close", "remove"}

RobustInv == RobustTypeOK /\ FlocksHeld /\ OneFile /\ Remover

(* Every system call, and every death, keeps the types.                     *)
LEMMA RobustTypes ==
    ASSUME RobustTypeOK, FlocksHeld, [RobustNext]_lockVars
    PROVE  RobustTypeOK'
<1> USE DEF RobustTypeOK
<1>1. CASE UNCHANGED lockVars
  BY <1>1 DEF lockVars
<1>2. ASSUME NEW p \in Procs, NEW b \in BOOLEAN, Call(p, b)
      PROVE  RobustTypeOK'
  BY <1>2 DEF Call
<1>3. ASSUME NEW p \in Procs, OpenExisting(p)
      PROVE  RobustTypeOK'
  BY <1>3 DEF OpenExisting
<1>4. ASSUME NEW p \in Procs, OpenMissing(p)
      PROVE  RobustTypeOK'
  BY <1>4 DEF OpenMissing
<1>5. ASSUME NEW p \in Procs, Create(p)
      PROVE  RobustTypeOK'
  <2>1. \E f \in Files \cup {NoFile} : path' = f /\ fd' = [fd EXCEPT ![p] = f]
    BY <1>5 DEF Create, Free
  <2> QED
    BY <1>5, <2>1 DEF Create
<1>6. ASSUME NEW p \in Procs, Flock(p)
      PROVE  RobustTypeOK'
  <2>1. fd[p] \in Files
    BY <1>6 DEF Flock, FlocksHeld
  <2>2. locked' \subseteq [file : Files, proc : Procs]
    BY <1>6, <2>1 DEF Flock
  <2> QED
    BY <1>6, <2>2 DEF Flock
<1>7. ASSUME NEW p \in Procs, FlockFails(p)
      PROVE  RobustTypeOK'
  BY <1>7 DEF FlockFails
<1>8. ASSUME NEW p \in Procs, UnlockFile(p)
      PROVE  RobustTypeOK'
  BY <1>8 DEF UnlockFile, Unlocked
<1>9. ASSUME NEW p \in Procs, CloseFile(p)
      PROVE  RobustTypeOK'
  BY <1>9 DEF CloseFile
<1>10. ASSUME NEW p \in Procs, Remove(p) \/ RemoveCall(p)
      PROVE  RobustTypeOK'
  BY <1>10 DEF Remove, RemoveCall
<1>11. ASSUME NEW p \in Procs, Crash(p)
       PROVE  RobustTypeOK'
  <2>1. locked' \subseteq locked /\ crashes' \in 0 .. MaxCrashes
    BY <1>11, LockAssumption DEF Crash, Unlocked
  <2> QED
    BY <1>11, <2>1 DEF Crash
<1> QED
  BY <1>1, <1>2, <1>3, <1>4, <1>5, <1>6, <1>7, <1>8, <1>9, <1>10, <1>11 DEF RobustNext

(* A flock that was refused is held by another process.                     *)
LEMMA RefusedByOther ==
    ASSUME FlocksHeld, NEW p \in Procs, RobustTypeOK, FlockFails(p)
    PROVE  \E q \in Procs : q # p /\ lpc[q] = "held"
<1>1. PICK l \in locked : l.file = fd[p]
  BY DEF FlockFails, Available
<1>2. l.proc \in Procs /\ lpc[l.proc] = "held" /\ lpc[p] = "flock"
  BY DEF FlocksHeld, RobustTypeOK, FlockFails
<1> QED
  BY <1>2

(* Flocks stay with the processes that hold them.                           *)
LEMMA FlocksStep ==
    ASSUME RobustTypeOK, FlocksHeld, NEW p \in Procs,
           \/ \E b \in BOOLEAN : Call(p, b)
           \/ OpenExisting(p) \/ OpenMissing(p) \/ Create(p)
           \/ Flock(p) \/ FlockFails(p)
           \/ UnlockFile(p) \/ CloseFile(p) \/ Remove(p) \/ RemoveCall(p)
           \/ Crash(p)
    PROVE  FlocksHeld'
<1> USE DEF FlocksHeld, RobustTypeOK
<1>1. ASSUME NEW b, Call(p, b)
      PROVE  FlocksHeld'
  BY <1>1 DEF Call
<1>2. CASE OpenExisting(p)
  BY <1>2 DEF OpenExisting
<1>3. CASE OpenMissing(p)
  BY <1>3 DEF OpenMissing
<1>4. CASE Create(p)
  BY <1>4 DEF Create, Free
<1>5. CASE Flock(p)
  BY <1>5 DEF Flock, Available
<1>6. CASE FlockFails(p)
  BY <1>6 DEF FlockFails
<1>7. CASE UnlockFile(p)
  BY <1>7 DEF UnlockFile, Unlocked
<1>8. CASE Remove(p)
  BY <1>8 DEF Remove
<1>9. CASE RemoveCall(p)
  BY <1>9 DEF RemoveCall
<1>10. CASE Crash(p)
  BY <1>10 DEF Crash, Unlocked
<1>11. CASE CloseFile(p)
  BY <1>11 DEF CloseFile
<1> QED
  BY <1>1, <1>2, <1>3, <1>4, <1>5, <1>6, <1>7, <1>8, <1>9, <1>10, <1>11

(* One file until a path is removed, and a process left to remove it.       *)
LEMMA FileStep ==
    ASSUME RobustInv, NEW p \in Procs,
           \/ \E b \in BOOLEAN : Call(p, b)
           \/ OpenExisting(p) \/ OpenMissing(p) \/ Create(p)
           \/ Flock(p) \/ FlockFails(p)
           \/ UnlockFile(p) \/ CloseFile(p) \/ Remove(p) \/ RemoveCall(p)
           \/ Crash(p)
    PROVE  OneFile' /\ Remover'
<1> USE DEF RobustInv, OneFile, Remover, RobustTypeOK
<1>1. ASSUME NEW b, Call(p, b)
      PROVE  OneFile' /\ Remover'
  BY <1>1 DEF Call
<1>2. CASE OpenExisting(p)
  BY <1>2 DEF OpenExisting
<1>3. CASE OpenMissing(p)
  BY <1>3 DEF OpenMissing
<1>4. CASE Create(p)
  BY <1>4 DEF Create
<1>5. CASE Flock(p)
  BY <1>5 DEF Flock
<1>6. CASE FlockFails(p)
  BY <1>6, RefusedByOther DEF FlockFails
<1>7. CASE UnlockFile(p)
  BY <1>7 DEF UnlockFile
<1>8. CASE Remove(p) \/ RemoveCall(p)
  BY <1>8 DEF Remove, RemoveCall
<1>9. CASE Crash(p)
  <2>1. crashes' # 0
    BY <1>9 DEF Crash
  <2> QED
    BY <1>9, <2>1 DEF Crash
<1>10. CASE CloseFile(p)
  BY <1>10 DEF CloseFile
<1> QED
  BY <1>1, <1>2, <1>3, <1>4, <1>5, <1>6, <1>7, <1>8, <1>9, <1>10

(* The invariant of the lock file.                                          *)
THEOREM RobustInductive == RobustSpec => []RobustInv
<1>1. RobustInit => RobustInv
  <2>1. 0 \in 0 .. MaxCrashes
    BY LockAssumption
  <2> QED
    BY <2>1 DEF RobustInit, RobustInv, RobustTypeOK, FlocksHeld, OneFile, Remover
<1>2. RobustInv /\ [RobustNext]_lockVars => RobustInv'
  <2> SUFFICES ASSUME RobustInv, [RobustNext]_lockVars PROVE RobustInv'
    OBVIOUS
  <2>1. RobustTypeOK'
    BY RobustTypes DEF RobustInv
  <2>2. CASE UNCHANGED lockVars
    BY <2>1, <2>2 DEF lockVars, RobustInv, FlocksHeld, OneFile, Remover
  <2>3. CASE RobustNext
    <3>1. FlocksHeld'
      BY <2>3, FlocksStep DEF RobustInv, RobustNext
    <3>2. OneFile' /\ Remover'
      BY <2>3, FileStep DEF RobustNext
    <3> QED
      BY <2>1, <3>1, <3>2 DEF RobustInv
  <2> QED
    BY <2>2, <2>3
<1> QED
  BY <1>1, <1>2, PTL DEF RobustSpec

(* The members and the files keep their types.                              *)
THEOREM RobustTypeCorrect == RobustSpec => []RobustTypeOK
<1>1. RobustInv => RobustTypeOK
  BY DEF RobustInv
<1> QED
  BY <1>1, RobustInductive, PTL

(* The lock file excludes, for any number of processes that come, go and    *)
(* die at any point, until the first path is removed.                       *)
THEOREM ExclusiveByFile == RobustSpec => []ExclusiveWhilePathStays
<1>1. RobustInv => ExclusiveWhilePathStays
  <2> SUFFICES ASSUME RobustInv, ~removed, NEW p \in Procs, NEW q \in Procs,
                      lpc[p] = "held", lpc[q] = "held"
               PROVE  p = q
    BY DEF ExclusiveWhilePathStays, Owners
  <2>1. fd[p] = path /\ fd[q] = path
    BY DEF RobustInv, FlocksHeld, OneFile
  <2>2. PICK l \in locked : l = [file |-> path, proc |-> p]
    BY <2>1 DEF RobustInv, FlocksHeld
  <2>3. PICK k \in locked : k = [file |-> path, proc |-> q]
    BY <2>1 DEF RobustInv, FlocksHeld
  <2> QED
    BY <2>2, <2>3 DEF RobustInv, FlocksHeld
<1> QED
  BY <1>1, RobustInductive, PTL

(* The file is gone when all processes have let go and none has died,       *)
(* whoever created it and whoever lost the race for the flock.              *)
THEOREM FileRemoved == RobustSpec => []NoFileLeft
<1>1. RobustInv => NoFileLeft
  BY DEF RobustInv, Remover, NoFileLeft
<1> QED
  BY <1>1, RobustInductive, PTL
=============================================================================
