------------------------------- MODULE Handle -------------------------------
(***************************************************************************)
(* Handle (src/Handle.cpp): the shared memory objects of one name, and the *)
(* handles of several processes that acquire and release it.  The last     *)
(* word of the mapped memory counts the handles; the release that takes    *)
(* the count to 0 unlinks the name.  A step is one system call or one      *)
(* access to the count.                                                    *)
(*                                                                         *)
(* Sizes are in words of sizeof(info_t), after the rounding in get().  A   *)
(* request for s words makes an object of s + 1, with the count at word s; *)
(* two handles share a count only if they asked for the same size.         *)
(***************************************************************************)
EXTENDS Integers, FiniteSets

CONSTANTS
    Handles,        \* the handle objects, in any processes
    Objects,        \* identities for shared memory objects (reused when free)
    Sizes,          \* the sizes asked for, in words
    MaxCrashes      \* bound on the processes that die

ASSUME HandleAssumption ==
    /\ IsFiniteSet(Handles)
    /\ 0 \notin Objects
    /\ Sizes \subseteq Nat \ {0}
    /\ MaxCrashes \in Nat

None == 0

VARIABLES
    named,      \* the object the name leads to, or None
    length,     \* file length of each object, 0 before ftruncate
    acc,        \* acc[o][k]: word k of o, the acc_ of handles of size k + 1
    pc,         \* where each handle is in acquire, release or get
    todo,       \* the acquire that is to follow release: [mode, size] or None
    fd,         \* fd_: the object that is open but not yet mapped, or None
    mem,        \* mem_: the object that is mapped, or None
    size,       \* size_
    crashes,    \* processes that died so far
    overlapped  \* a call has begun while another handle was in one (history)

osVars     == <<named, length, acc>>
handleVars == <<named, length, acc, pc, todo, fd, mem, size, crashes, overlapped>>

Modes    == {"open", "create", "both"}
Requests == [mode : Modes, size : Sizes]
NoRequest == [mode |-> "none", size |-> 0]

Free == {o \in Objects : o # named /\ \A h \in Handles : o \notin {fd[h], mem[h]}}

Init ==
    /\ named = None
    /\ length = [o \in Objects |-> 0]
    /\ acc = [o \in Objects |-> [k \in Sizes |-> 0]]
    /\ pc = [h \in Handles |-> "idle"]
    /\ todo = [h \in Handles |-> NoRequest]
    /\ fd = [h \in Handles |-> None]
    /\ mem = [h \in Handles |-> None]
    /\ size = [h \in Handles |-> 0]
    /\ crashes = 0
    /\ overlapped = FALSE

Start(h, l) ==
    /\ pc[h] = "idle"
    /\ pc' = [pc EXCEPT ![h] = l]
    /\ overlapped' = (overlapped \/ \E g \in Handles : pc[g] # "idle")

\* A bug: acquire forgets what the handle held.
AcquireOver(h, r) ==
    /\ Start(h, "open")
    /\ todo' = [todo EXCEPT ![h] = r]
    /\ UNCHANGED <<osVars, fd, mem, size, crashes>>

\* acquire(name, size, mode): it calls release() first.
Acquire(h, r) ==
    /\ Start(h, "release")
    /\ todo' = [todo EXCEPT ![h] = r]
    /\ UNCHANGED <<osVars, fd, mem, size, crashes>>

\* release(), the destructor, or acquire() of a name that is not valid.
Release(h) ==
    /\ Start(h, "release")
    /\ UNCHANGED <<osVars, todo, fd, mem, size, crashes>>

\* release() clears the members and acquire() goes on, if it is the caller.
Cleared(h) ==
    /\ pc' = [pc EXCEPT ![h] = IF todo[h] = NoRequest THEN "idle" ELSE "open"]
    /\ fd' = [fd EXCEPT ![h] = None]
    /\ mem' = [mem EXCEPT ![h] = None]
    /\ size' = [size EXCEPT ![h] = 0]

\* release() of a handle that maps nothing; an open fd_ is dropped, not closed.
ReleaseEmpty(h) ==
    /\ pc[h] = "release"
    /\ mem[h] = None
    /\ Cleared(h)
    /\ UNCHANGED <<osVars, todo, crashes, overlapped>>

\* A bug: one too few.
LastRefLate(n) == n < 1

\* A bug: every release unlinks.
LastRefAlways(n) == TRUE

\* The value before fetch_sub that makes a release the last one.
LastRef(n) == n <= 1

\* acc_of(mem_, size_).fetch_sub(1), and munmap if others remain.
SubRef(h) ==
    /\ pc[h] = "release"
    /\ mem[h] # None
    /\ LET o == mem[h]
           k == size[h] - 1
       IN  /\ acc' = [acc EXCEPT ![o][k] = @ - 1]
           /\ IF LastRef(acc[o][k])
              THEN /\ pc' = [pc EXCEPT ![h] = "unlink"]
                   /\ UNCHANGED <<fd, mem, size>>
              ELSE Cleared(h)
    /\ UNCHANGED <<named, length, todo, crashes, overlapped>>

\* munmap and shm_unlink: the name goes, whatever object it leads to by now.
Unlink(h) ==
    /\ pc[h] = "unlink"
    /\ named' = None
    /\ Cleared(h)
    /\ UNCHANGED <<length, acc, todo, crashes, overlapped>>

\* shm_open fails: O_EXCL and the name exists, or no O_CREAT and it does not.
ShmOpenFails(h) ==
    /\ pc[h] = "open"
    /\ todo[h].mode = IF named = None THEN "open" ELSE "create"
    /\ pc' = [pc EXCEPT ![h] = "idle"]
    /\ todo' = [todo EXCEPT ![h] = NoRequest]
    /\ UNCHANGED <<osVars, fd, mem, size, crashes, overlapped>>

Opened(h, o) ==
    /\ fd' = [fd EXCEPT ![h] = o]
    /\ size' = [size EXCEPT ![h] = IF todo[h].mode = "open" THEN 0 ELSE todo[h].size]
    /\ todo' = [todo EXCEPT ![h] = NoRequest]
    /\ pc' = [pc EXCEPT ![h] = "get"]
    /\ UNCHANGED <<mem, crashes, overlapped>>

\* shm_open of the object that has the name.
ShmOpen(h) ==
    /\ pc[h] = "open"
    /\ named # None
    /\ todo[h].mode # "create"
    /\ Opened(h, named)
    /\ UNCHANGED osVars

\* shm_open creates an object of length 0.
ShmCreate(h) ==
    /\ pc[h] = "open"
    /\ named = None
    /\ todo[h].mode # "open"
    /\ \E o \in Free :
        /\ named' = o
        /\ length' = [length EXCEPT ![o] = 0]
        /\ acc' = [acc EXCEPT ![o] = [k \in Sizes |-> 0]]
        /\ Opened(h, o)

\* get() or valid() is called again on a handle that could not be mapped.
Retry(h) ==
    /\ Start(h, "get")
    /\ fd[h] # None
    /\ UNCHANGED <<osVars, todo, fd, mem, size, crashes>>

\* A bug: get() maps what it opened, whatever its length.
TooSmallNever(len) == FALSE

\* A file that does not even hold the count, as before its creator's ftruncate.
TooSmall(len) == len <= 1

\* get() without a size: fstat finds an object that its creator has not sized.
GetFails(h) ==
    /\ pc[h] = "get"
    /\ size[h] = 0
    /\ TooSmall(length[fd[h]])
    /\ size' = [size EXCEPT ![h] = length[fd[h]]]
    /\ pc' = [pc EXCEPT ![h] = "idle"]
    /\ UNCHANGED <<osVars, todo, fd, mem, crashes, overlapped>>

Mapped(h, len) ==
    /\ size' = [size EXCEPT ![h] = len]
    /\ mem' = [mem EXCEPT ![h] = fd[h]]
    /\ fd' = [fd EXCEPT ![h] = None]
    /\ pc' = [pc EXCEPT ![h] = "count"]
    /\ UNCHANGED <<named, todo, crashes, overlapped>>

\* get() without a size: fstat, then mmap.
GetStat(h) ==
    /\ pc[h] = "get"
    /\ size[h] = 0
    /\ ~TooSmall(length[fd[h]])
    /\ Mapped(h, length[fd[h]])
    /\ UNCHANGED <<length, acc>>

\* A bug: the place for the count is added twice.
GetTruncateLong(h) ==
    /\ pc[h] = "get"
    /\ size[h] # 0
    /\ Mapped(h, size[h] + 2)
    /\ length' = [length EXCEPT ![fd[h]] = size[h] + 2]
    /\ UNCHANGED acc

\* get() with a size: ftruncate, which clears what it cuts off, then mmap.
GetTruncate(h) ==
    /\ pc[h] = "get"
    /\ size[h] # 0
    /\ Mapped(h, size[h] + 1)
    /\ length' = [length EXCEPT ![fd[h]] = size[h] + 1]
    /\ acc' = [acc EXCEPT ![fd[h]] = [k \in Sizes |-> IF k <= size[h] THEN @[k] ELSE 0]]

\* The end of get(): acc_of(mem, size_).fetch_add(1).
AddRef(h) ==
    /\ pc[h] = "count"
    /\ acc' = [acc EXCEPT ![mem[h]][size[h] - 1] = @ + 1]
    /\ pc' = [pc EXCEPT ![h] = "idle"]
    /\ UNCHANGED <<named, length, todo, fd, mem, size, crashes, overlapped>>

\* The process of a handle dies, and a new one has an empty handle.
Crash(h) ==
    /\ crashes < MaxCrashes
    /\ crashes' = crashes + 1
    /\ pc' = [pc EXCEPT ![h] = "idle"]
    /\ todo' = [todo EXCEPT ![h] = NoRequest]
    /\ fd' = [fd EXCEPT ![h] = None]
    /\ mem' = [mem EXCEPT ![h] = None]
    /\ size' = [size EXCEPT ![h] = 0]
    /\ UNCHANGED <<osVars, overlapped>>

Step(h) ==
    \/ ReleaseEmpty(h) \/ SubRef(h) \/ Unlink(h)
    \/ ShmOpenFails(h) \/ ShmOpen(h) \/ ShmCreate(h)
    \/ GetFails(h) \/ GetStat(h) \/ GetTruncate(h) \/ AddRef(h)

Next ==
    \E h \in Handles :
        \/ \E r \in Requests : Acquire(h, r)
        \/ Release(h) \/ Retry(h) \/ Step(h) \/ Crash(h)

Spec == Init /\ [][Next]_handleVars

-----------------------------------------------------------------------------
Counted(h) == mem[h] # None /\ pc[h] \notin {"count", "unlink"}
Holders(o, k) == {h \in Handles : Counted(h) /\ mem[h] = o /\ size[h] = k + 1}
Quiet == \A h \in Handles : pc[h] = "idle"

TypeOK ==
    /\ named \in Objects \cup {None}
    /\ length \in [Objects -> {0} \cup {k + 1 : k \in Sizes}]
    /\ acc \in [Objects -> [Sizes -> Int]]
    /\ pc \in [Handles -> {"idle", "release", "unlink", "open", "get", "count"}]
    /\ todo \in [Handles -> Requests \cup {NoRequest}]
    /\ fd \in [Handles -> Objects \cup {None}]
    /\ mem \in [Handles -> Objects \cup {None}]
    /\ size \in [Handles -> {0} \cup Sizes \cup {k + 1 : k \in Sizes}]
    /\ crashes \in 0 .. MaxCrashes
    /\ overlapped \in BOOLEAN

(* fetch_add in get() and fetch_sub in release() stay balanced through      *)
(* overlapping calls, failed ones and calls of acquire() on a handle in     *)
(* use: the count is never below the number of handles, and above it by at  *)
(* most one for each process that died.  This needs one size for the name.  *)
RefExact ==
    \A o \in Objects, k \in Sizes :
        LET n == Cardinality(Holders(o, k)) IN acc[o][k] \in n .. n + crashes

(* A name that nobody uses is gone: whatever calls overlapped, when all     *)
(* have returned and no handle is valid, the next acquire() starts with a   *)
(* new object full of zeros.                                                *)
NoLeftover == Quiet /\ crashes = 0 /\ (\A h \in Handles : mem[h] = None) => named = None

(* A mapping ends where its file ends: a reader that opens an object whose  *)
(* creator has not yet called ftruncate does not map it.                    *)
MappedInBounds == \A h \in Handles : mem[h] # None => 1 < size[h] /\ size[h] <= length[mem[h]]

(* Handles of one name that are valid at the same time map one object, and  *)
(* it is the one the name leads to.  This needs calls that do not overlap,  *)
(* and processes that do not die within a call.                             *)
SharedByName ==
    Quiet /\ ~overlapped /\ crashes = 0 =>
        \A h \in Handles : mem[h] # None => mem[h] = named
=============================================================================
