------------------------ MODULE RobustExclusiveLock -------------------------
(***************************************************************************)
(* RobustExclusiveLock (src/sync/RobustExclusiveLock.hpp, the POSIX part): *)
(* a lock of one name, kept as a flock on a file under /dev/shm that the   *)
(* holder removes when it lets go.  A step is one system call; only the    *)
(* close after a flock that failed is one step with it, since nobody else  *)
(* sees that descriptor.  open, flock, close and std::remove are modelled  *)
(* by what POSIX says of them; a file lives on while it is open, after its *)
(* path is gone.                                                           *)
(***************************************************************************)
EXTENDS Integers, FiniteSets

CONSTANTS
    Procs,          \* processes, each with at most one lock object at a time
    Files,          \* identities of files (reused when free)
    NoFile,         \* not a file
    MaxCrashes      \* bound on the processes that die

ASSUME LockAssumption == NoFile \notin Files /\ MaxCrashes \in Nat

VARIABLES
    path,       \* the file that the path leads to, or NoFile
    locked,     \* the files under a flock, each with its process
    lpc,         \* where each process is
    probe,      \* TRUE in is_locked(), FALSE in the constructor
    fd,         \* the file each process has open, or NoFile
    was_lock_created,
    crashes,    \* processes that died so far
    removed     \* a path has been removed (history)

lockVars == <<path, locked, lpc, probe, fd, was_lock_created, crashes, removed>>

Free == {f \in Files : f # path /\ \A p \in Procs : f # fd[p]}

RobustInit ==
    /\ path = NoFile
    /\ locked = {}
    /\ lpc = [p \in Procs |-> "idle"]
    /\ probe = [p \in Procs |-> FALSE]
    /\ fd = [p \in Procs |-> NoFile]
    /\ was_lock_created = [p \in Procs |-> FALSE]
    /\ crashes = 0
    /\ removed = FALSE

\* The constructor (probe FALSE) or is_locked (probe TRUE) is called.
Call(p, b) ==
    /\ lpc[p] = "idle"
    /\ lpc' = [lpc EXCEPT ![p] = "open"]
    /\ probe' = [probe EXCEPT ![p] = b]
    /\ UNCHANGED <<path, locked, fd, was_lock_created, crashes, removed>>

\* open of a file that exists.
OpenExisting(p) ==
    /\ lpc[p] = "open"
    /\ path # NoFile
    /\ fd' = [fd EXCEPT ![p] = path]
    /\ was_lock_created' = [was_lock_created EXCEPT ![p] = FALSE]
    /\ lpc' = [lpc EXCEPT ![p] = "flock"]
    /\ UNCHANGED <<path, locked, probe, crashes, removed>>

\* open fails: the file is to be created.
OpenMissing(p) ==
    /\ lpc[p] = "open"
    /\ path = NoFile
    /\ was_lock_created' = [was_lock_created EXCEPT ![p] = TRUE]
    /\ lpc' = [lpc EXCEPT ![p] = "create"]
    /\ UNCHANGED <<path, locked, probe, fd, crashes, removed>>

\* A bug: the second open has no O_CREAT, and its failure is not noticed.
CreateUnopened(p) ==
    /\ lpc[p] = "create"
    /\ fd' = [fd EXCEPT ![p] = path]
    /\ lpc' = [lpc EXCEPT ![p] = "flock"]
    /\ UNCHANGED <<path, locked, probe, was_lock_created, crashes, removed>>

\* open with O_CREAT makes the file, unless another process has by now.
Create(p) ==
    /\ lpc[p] = "create"
    /\ IF path # NoFile
       THEN /\ fd' = [fd EXCEPT ![p] = path]
            /\ UNCHANGED path
       ELSE \E f \in Free :
            /\ path' = f
            /\ fd' = [fd EXCEPT ![p] = f]
    /\ lpc' = [lpc EXCEPT ![p] = "flock"]
    /\ UNCHANGED <<locked, probe, was_lock_created, crashes, removed>>

\* A bug: a shared lock.
AvailableShared(f) == TRUE

\* Whether flock(LOCK_EX | LOCK_NB) on f succeeds.
Available(f) == \A l \in locked : l.file # f

\* flock succeeds: the constructor returns.
Flock(p) ==
    /\ lpc[p] = "flock"
    /\ Available(fd[p])
    /\ locked' = locked \cup {[file |-> fd[p], proc |-> p]}
    /\ lpc' = [lpc EXCEPT ![p] = "held"]
    /\ UNCHANGED <<path, probe, fd, was_lock_created, crashes, removed>>

\* flock fails: close, and the constructor throws or is_locked answers true.
FlockFails(p) ==
    /\ lpc[p] = "flock"
    /\ ~Available(fd[p])
    /\ fd' = [fd EXCEPT ![p] = NoFile]
    /\ lpc' = [lpc EXCEPT ![p] = "idle"]
    /\ UNCHANGED <<path, locked, probe, was_lock_created, crashes, removed>>

Unlocked(p) == {l \in locked : l.proc # p}

\* The destructor, or the end of is_locked: flock(LOCK_UN) ...
UnlockFile(p) ==
    /\ lpc[p] = "held"
    /\ locked' = Unlocked(p)
    /\ lpc' = [lpc EXCEPT ![p] = "close"]
    /\ UNCHANGED <<path, probe, fd, was_lock_created, crashes, removed>>

\* ... and close.
CloseFile(p) ==
    /\ lpc[p] = "close"
    /\ fd' = [fd EXCEPT ![p] = NoFile]
    /\ lpc' = [lpc EXCEPT ![p] = "remove"]
    /\ UNCHANGED <<path, locked, probe, was_lock_created, crashes, removed>>

\* A bug: only the process that made the file removes it.
RemoveOwn(p) ==
    /\ lpc[p] = "remove"
    /\ path' = IF was_lock_created[p] THEN NoFile ELSE path
    /\ lpc' = [lpc EXCEPT ![p] = "idle"]
    /\ removed' = TRUE
    /\ UNCHANGED <<locked, probe, fd, was_lock_created, crashes>>

\* std::remove of the path, whatever file it leads to by now.
Remove(p) ==
    /\ lpc[p] = "remove"
    /\ path' = NoFile
    /\ lpc' = [lpc EXCEPT ![p] = "idle"]
    /\ removed' = TRUE
    /\ UNCHANGED <<locked, probe, fd, was_lock_created, crashes>>

\* The static function remove(), by a process that is in no other call.
RemoveCall(p) ==
    /\ lpc[p] = "idle"
    /\ path # NoFile
    /\ path' = NoFile
    /\ removed' = TRUE
    /\ UNCHANGED <<locked, lpc, probe, fd, was_lock_created, crashes>>

\* The process dies; the kernel closes the file, which unlocks it.
Crash(p) ==
    /\ crashes < MaxCrashes
    /\ lpc[p] # "idle"
    /\ crashes' = crashes + 1
    /\ locked' = Unlocked(p)
    /\ fd' = [fd EXCEPT ![p] = NoFile]
    /\ lpc' = [lpc EXCEPT ![p] = "idle"]
    /\ UNCHANGED <<path, probe, was_lock_created, removed>>

RobustNext ==
    \E p \in Procs :
        \/ \E b \in BOOLEAN : Call(p, b)
        \/ OpenExisting(p) \/ OpenMissing(p) \/ Create(p)
        \/ Flock(p) \/ FlockFails(p)
        \/ UnlockFile(p) \/ CloseFile(p) \/ Remove(p) \/ RemoveCall(p) \/ Crash(p)

RobustSpec == RobustInit /\ [][RobustNext]_lockVars

-----------------------------------------------------------------------------
Owners == {p \in Procs : lpc[p] = "held" /\ ~probe[p]}

RobustTypeOK ==
    /\ path \in Files \cup {NoFile}
    /\ locked \subseteq [file : Files, proc : Procs]
    /\ lpc \in [Procs -> {"idle", "open", "create", "flock", "held", "close", "remove"}]
    /\ probe \in [Procs -> BOOLEAN]
    /\ fd \in [Procs -> Files \cup {NoFile}]
    /\ was_lock_created \in [Procs -> BOOLEAN]
    /\ crashes \in 0 .. MaxCrashes
    /\ removed \in BOOLEAN

(* The class comment: the object "holds a mutual exclusion lock until       *)
(* destroyed, or until the creator process dies".  That holds until the     *)
(* first path is removed: owners may unlock or die at any point of the      *)
(* calls of others, and the second open may find a file of another process. *)
ExclusiveWhilePathStays == removed \/ \A p, q \in Owners : p = q

(* The last of the processes that let go takes the file away, also when the *)
(* process that created it lost the race for the flock to another.          *)
NoFileLeft ==
    crashes = 0 /\ (\A p \in Procs : lpc[p] = "idle") => path = NoFile
=============================================================================
