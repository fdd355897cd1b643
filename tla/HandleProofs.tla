---------------------------- MODULE HandleProofs ----------------------------
(***************************************************************************)
(* Proofs about Handle.tla for any finite number of handles, any objects   *)
(* and any number of processes that die, when all ask for one size.        *)
(***************************************************************************)
EXTENDS Handle, FiniteSetTheorems, TLAPS

OneSize == \E k : Sizes = {k}

\* What the members of a handle hold at each place of its calls.
Shape ==
    \A h \in Handles :
        /\ mem[h] # None => fd[h] = None /\ size[h] - 1 \in Sizes
        /\ fd[h] # None => size[h] \in {0} \cup Sizes
        /\ pc[h] = "get" => fd[h] # None
        /\ pc[h] \in {"count", "unlink"} => mem[h] # None
        /\ pc[h] = "open" => mem[h] = None /\ fd[h] = None /\ todo[h] # NoRequest

\* TypeOK without the history variable.
Types ==
    /\ named \in Objects \cup {None}
    /\ length \in [Objects -> {0} \cup {k + 1 : k \in Sizes}]
    /\ acc \in [Objects -> [Sizes -> Int]]
    /\ pc \in [Handles -> {"idle", "release", "unlink", "open", "get", "count"}]
    /\ todo \in [Handles -> Requests \cup {NoRequest}]
    /\ fd \in [Handles -> Objects \cup {None}]
    /\ mem \in [Handles -> Objects \cup {None}]
    /\ size \in [Handles -> {0} \cup Sizes \cup {k + 1 : k \in Sizes}]
    /\ crashes \in 0 .. MaxCrashes

IInv == Types /\ Shape /\ RefExact

\* A handle that maps the object of the name, or is about to.
Keeps(h) == mem[h] = named \/ (fd[h] = named /\ pc[h] = "get" /\ size[h] # 0)

\* A name that is there has a handle that will remove it.
Kept == crashes = 0 /\ named # None => \E h \in Handles : Keeps(h)

\* One handle at a time is in a call; what is mapped or open is what the name
\* leads to; and the handle that is about to unlink it is the last.
OneByOne ==
    /\ \A g, h \in Handles : pc[g] # "idle" /\ pc[h] # "idle" => g = h
    /\ \A h \in Handles : mem[h] # None => mem[h] = named
    /\ \A h \in Handles : fd[h] # None => pc[h] = "get" /\ fd[h] = named
    /\ \A g, h \in Handles : pc[h] = "unlink" /\ mem[g] # None => g = h

Apart == ~overlapped /\ crashes = 0 => OneByOne

NameInv == IInv /\ MappedInBounds /\ Kept /\ Apart

-----------------------------------------------------------------------------
(* The handles that hold an object are finitely many. *)
LEMMA HoldersFinite ==
    ASSUME NEW o, NEW k
    PROVE  IsFiniteSet(Holders(o, k)) /\ Cardinality(Holders(o, k)) \in Nat
<1>1. IsFiniteSet(Holders(o, k))
  BY FS_Subset, HandleAssumption DEF Holders
<1> QED
  BY <1>1, FS_CardinalityType

(* size_ is a number. *)
LEMMA SizeNat ==
    ASSUME Types, NEW h \in Handles
    PROVE  size[h] \in Nat
<1>1. \A k \in Sizes : k \in Nat /\ k + 1 \in Nat
  BY HandleAssumption
<1>2. size[h] \in {0} \cup Sizes \cup {k + 1 : k \in Sizes}
  BY DEF Types
<1> QED
  BY <1>1, <1>2

(* A step that leaves the counts and their holders alone. *)
LEMMA SameHolders ==
    ASSUME RefExact, acc' = acc, crashes' = crashes,
           \A h \in Handles : Counted(h)' <=> Counted(h),
           \A h \in Handles : Counted(h) => mem'[h] = mem[h] /\ size'[h] = size[h]
    PROVE  RefExact'
<1>1. ASSUME NEW o \in Objects, NEW k \in Sizes
      PROVE  Holders(o, k)' = Holders(o, k)
  BY DEF Holders
<1> QED
  BY <1>1 DEF RefExact

(* At the start there are no objects and no handles. *)
LEMMA InitIInv == Init => IInv
<1> SUFFICES ASSUME Init PROVE IInv
  OBVIOUS
<1>1. Types
  BY HandleAssumption DEF Init, Types, Requests, NoRequest, None
<1>2. Shape
  BY DEF Init, Shape
<1>3. ASSUME NEW o \in Objects, NEW k \in Sizes
      PROVE  LET n == Cardinality(Holders(o, k)) IN acc[o][k] \in n .. n + crashes
  <2>1. Holders(o, k) = {}
    BY DEF Init, Holders, Counted
  <2>2. Cardinality(Holders(o, k)) = 0
    BY <2>1, FS_EmptySet
  <2> QED
    BY <2>2 DEF Init
<1> QED
  BY <1>1, <1>2, <1>3 DEF IInv, RefExact

-----------------------------------------------------------------------------
(* The beginning of a call moves only pc and todo. *)
LEMMA CallShape ==
    ASSUME Types, Shape, NEW h \in Handles,
           (\E r \in Requests : Acquire(h, r)) \/ Release(h) \/ Retry(h)
    PROVE  Types' /\ Shape'
<1>1. Types'
  BY DEF Types, Acquire, Release, Retry, Start, osVars
<1>2. Shape'
  BY DEF Types, Shape, Acquire, Release, Retry, Start, osVars
<1> QED
  BY <1>1, <1>2

(* release(): what is mapped was asked for with one of the sizes. *)
LEMMA ReleaseShape ==
    ASSUME Types, Shape, NEW h \in Handles, ReleaseEmpty(h) \/ SubRef(h) \/ Unlink(h)
    PROVE  Types' /\ Shape'
<1>1. ASSUME ReleaseEmpty(h)
      PROVE  Types' /\ Shape'
  BY <1>1 DEF Types, Shape, ReleaseEmpty, Cleared, osVars
<1>2. ASSUME Unlink(h)
      PROVE  Types' /\ Shape'
  BY <1>2 DEF Types, Shape, Unlink, Cleared
<1>3. ASSUME SubRef(h)
      PROVE  Types' /\ Shape'
  <2>1. mem[h] \in Objects /\ size[h] - 1 \in Sizes
    BY <1>3 DEF Types, Shape, SubRef
  <2>2. acc' \in [Objects -> [Sizes -> Int]]
    BY <1>3, <2>1 DEF Types, SubRef
  <2>3. CASE LastRef(acc[mem[h]][size[h] - 1])
    BY <1>3, <2>2, <2>3 DEF Types, Shape, SubRef
  <2>4. CASE ~LastRef(acc[mem[h]][size[h] - 1])
    <3>1. Cleared(h) /\ UNCHANGED <<named, length, todo, crashes>>
      BY <1>3, <2>4 DEF SubRef
    <3>2. Types'
      BY <2>2, <3>1 DEF Types, Cleared
    <3>3. Shape'
      BY <3>1 DEF Types, Shape, Cleared
    <3> QED
      BY <3>2, <3>3
  <2> QED
    BY <2>3, <2>4
<1> QED
  BY <1>1, <1>2, <1>3

(* acquire() after its release(): the handle is empty until shm_open. *)
LEMMA OpenShape ==
    ASSUME Types, Shape, NEW h \in Handles, ShmOpenFails(h) \/ ShmOpen(h) \/ ShmCreate(h)
    PROVE  Types' /\ Shape'
<1>1. ASSUME ShmOpenFails(h)
      PROVE  Types' /\ Shape'
  BY <1>1 DEF Types, Shape, ShmOpenFails, osVars
<1>2. ASSUME NEW o \in Objects, pc[h] = "open", Opened(h, o)
      PROVE  /\ pc' \in [Handles -> {"idle", "release", "unlink", "open", "get", "count"}]
             /\ todo' \in [Handles -> Requests \cup {NoRequest}]
             /\ fd' \in [Handles -> Objects \cup {None}]
             /\ mem' = mem /\ crashes' = crashes
             /\ size' \in [Handles -> {0} \cup Sizes \cup {k + 1 : k \in Sizes}]
             /\ Shape'
  <2>1. todo[h] \in Requests /\ todo[h].size \in Sizes
    BY <1>2 DEF Types, Shape, Requests
  <2>2. o # None
    BY HandleAssumption DEF None
  <2> QED
    BY <1>2, <2>1, <2>2 DEF Types, Shape, Opened
<1>3. ASSUME ShmOpen(h)
      PROVE  Types' /\ Shape'
  <2>1. named \in Objects /\ pc[h] = "open" /\ Opened(h, named)
    BY <1>3 DEF Types, ShmOpen
  <2> QED
    BY <1>2, <1>3, <2>1 DEF Types, ShmOpen, osVars
<1>4. ASSUME ShmCreate(h)
      PROVE  Types' /\ Shape'
  <2>1. PICK o \in Objects :
          /\ pc[h] = "open" /\ Opened(h, o)
          /\ named' = o
          /\ length' = [length EXCEPT ![o] = 0]
          /\ acc' = [acc EXCEPT ![o] = [k \in Sizes |-> 0]]
    BY <1>4 DEF ShmCreate, Free
  <2> QED
    BY <1>2, <2>1 DEF Types
<1> QED
  BY <1>1, <1>3, <1>4

(* get(): a size it was opened with, or the length that fstat finds. *)
LEMMA GetShape ==
    ASSUME Types, Shape, NEW h \in Handles,
           GetFails(h) \/ GetStat(h) \/ GetTruncate(h) \/ AddRef(h)
    PROVE  Types' /\ Shape'
<1>1. ASSUME pc[h] = "get"
      PROVE  /\ fd[h] \in Objects /\ mem[h] = None /\ size[h] \in {0} \cup Sizes
             /\ length[fd[h]] \in {0} \cup {k + 1 : k \in Sizes}
  BY <1>1 DEF Types, Shape
<1>2. ASSUME GetFails(h)
      PROVE  Types' /\ Shape'
  <2>1. length[fd[h]] = 0
    BY <1>1, <1>2, HandleAssumption DEF GetFails, TooSmall
  <2> QED
    BY <1>1, <1>2, <2>1 DEF Types, Shape, GetFails, osVars
<1>3. ASSUME GetStat(h)
      PROVE  Types' /\ Shape'
  <2>1. length[fd[h]] - 1 \in Sizes
    BY <1>1, <1>3, HandleAssumption DEF GetStat, TooSmall
  <2> QED
    BY <1>1, <1>3, <2>1 DEF Types, Shape, GetStat, Mapped
<1>4. ASSUME GetTruncate(h)
      PROVE  Types' /\ Shape'
  <2>1. size[h] \in Sizes /\ size[h] \in Nat
    BY <1>1, <1>4, HandleAssumption DEF GetTruncate
  <2>2. length' \in [Objects -> {0} \cup {k + 1 : k \in Sizes}]
    BY <1>1, <1>4, <2>1 DEF Types, GetTruncate
  <2>3. acc' \in [Objects -> [Sizes -> Int]]
    BY <1>1, <1>4 DEF Types, GetTruncate
  <2>4. Mapped(h, size[h] + 1) /\ size[h] + 1 - 1 = size[h]
    BY <1>4, <2>1 DEF GetTruncate
  <2>5. size' \in [Handles -> {0} \cup Sizes \cup {k + 1 : k \in Sizes}]
    BY <2>1, <2>4 DEF Types, Mapped
  <2>6. Types'
    BY <1>1, <2>2, <2>3, <2>4, <2>5 DEF Types, Mapped
  <2>7. Shape'
    <3> DEFINE len == size[h] + 1
    <3>1. /\ fd'[h] = None /\ mem'[h] = fd[h] /\ size'[h] = len /\ pc'[h] = "count"
          /\ fd[h] # None /\ len - 1 \in Sizes
      BY <1>4, <2>1, <2>4 DEF Types, Shape, Mapped, GetTruncate
    <3>2. ASSUME NEW g \in Handles, g # h
          PROVE  /\ fd'[g] = fd[g] /\ mem'[g] = mem[g] /\ size'[g] = size[g]
                 /\ pc'[g] = pc[g] /\ todo'[g] = todo[g]
      BY <2>4, <3>2 DEF Types, Mapped
    <3> HIDE DEF len
    <3> QED
      BY <3>1, <3>2 DEF Shape
  <2> QED
    BY <2>6, <2>7
<1>5. ASSUME AddRef(h)
      PROVE  Types' /\ Shape'
  <2>1. mem[h] \in Objects /\ size[h] - 1 \in Sizes
    BY <1>5 DEF Types, Shape, AddRef
  <2>2. acc' \in [Objects -> [Sizes -> Int]]
    BY <1>5, <2>1 DEF Types, AddRef
  <2> QED
    BY <1>5, <2>2 DEF Types, Shape, AddRef
<1> QED
  BY <1>2, <1>3, <1>4, <1>5

(* The handle of a new process is empty. *)
LEMMA CrashShape ==
    ASSUME Types, Shape, NEW h \in Handles, Crash(h)
    PROVE  Types' /\ Shape'
<1>1. Types'
  <2>1. crashes' \in 0 .. MaxCrashes
    BY HandleAssumption DEF Types, Crash
  <2>2. todo' \in [Handles -> Requests \cup {NoRequest}]
    BY DEF Types, Crash
  <2> QED
    BY <2>1, <2>2 DEF Types, Crash, osVars
<1>2. Shape'
  BY DEF Types, Shape, Crash
<1> QED
  BY <1>1, <1>2

-----------------------------------------------------------------------------
(* The count. *)

(* Steps that are not about the count. *)
LEMMA OtherRef ==
    ASSUME IInv, NEW h \in Handles,
           \/ (\E r \in Requests : Acquire(h, r)) \/ Release(h) \/ Retry(h)
           \/ ReleaseEmpty(h) \/ Unlink(h) \/ ShmOpenFails(h) \/ ShmOpen(h)
           \/ GetFails(h) \/ GetStat(h)
    PROVE  RefExact'
<1> USE DEF IInv, Types, Shape, Counted
<1>1. CASE (\E r \in Requests : Acquire(h, r)) \/ Release(h) \/ Retry(h)
  BY <1>1, SameHolders DEF Acquire, Release, Retry, Start, osVars
<1>2. CASE ReleaseEmpty(h) \/ Unlink(h)
  BY <1>2, SameHolders DEF ReleaseEmpty, Unlink, Cleared, osVars
<1>3. CASE ShmOpenFails(h) \/ ShmOpen(h)
  BY <1>3, SameHolders DEF ShmOpenFails, ShmOpen, Opened, osVars
<1>4. CASE GetFails(h) \/ GetStat(h)
  BY <1>4, SameHolders DEF GetFails, GetStat, Mapped, osVars
<1> QED
  BY <1>1, <1>2, <1>3, <1>4

(* A new object has no holders and its count is 0. *)
LEMMA CreateRef ==
    ASSUME IInv, NEW h \in Handles, ShmCreate(h)
    PROVE  RefExact'
<1>1. PICK x \in Free :
        /\ pc[h] = "open" /\ Opened(h, x)
        /\ acc' = [acc EXCEPT ![x] = [k \in Sizes |-> 0]]
  BY DEF ShmCreate
<1>2. ASSUME NEW o \in Objects, NEW k \in Sizes
      PROVE  Holders(o, k)' = Holders(o, k)
  BY <1>1 DEF Holders, Counted, Opened, IInv, Types, Shape
<1>3. ASSUME NEW o \in Objects, NEW k \in Sizes
      PROVE  LET n == Cardinality(Holders(o, k)) IN acc'[o][k] \in n .. n + crashes
  <2>1. CASE o = x
    <3>1. Holders(o, k) = {}
      BY <2>1 DEF Holders, Free
    <3>2. Cardinality(Holders(o, k)) = 0
      BY <3>1, FS_EmptySet
    <3>3. acc'[o][k] = 0
      BY <1>1, <2>1 DEF IInv, Types
    <3> QED
      BY <3>2, <3>3 DEF IInv, Types
  <2>2. CASE o # x
    BY <1>1, <2>2 DEF IInv, Types, RefExact
  <2> QED
    BY <2>1, <2>2
<1>4. crashes' = crashes
  BY <1>1 DEF Opened
<1> QED
  BY <1>2, <1>3, <1>4 DEF RefExact

(* With one size ftruncate never cuts a count off. *)
LEMMA TruncateRef ==
    ASSUME OneSize, IInv, NEW h \in Handles, GetTruncate(h)
    PROVE  RefExact'
<1>1. size[h] \in Sizes /\ fd[h] \in Objects
  BY DEF IInv, Types, Shape, GetTruncate
<1>2. ASSUME NEW k \in Sizes
      PROVE  k <= size[h]
  BY <1>1, HandleAssumption DEF OneSize
<1>3. acc' = acc
  BY <1>1, <1>2 DEF GetTruncate, IInv, Types
<1> QED
  BY <1>3, SameHolders DEF GetTruncate, Mapped, IInv, Types, Shape, Counted

(* fetch_add: the handle becomes a holder. *)
LEMMA AddRefRef ==
    ASSUME IInv, NEW h \in Handles, AddRef(h)
    PROVE  RefExact'
<1> DEFINE x == mem[h]
           z == size[h] - 1
<1>1. x \in Objects /\ z \in Sizes /\ ~Counted(h)
  BY DEF IInv, Types, Shape, AddRef, Counted
<1>2. /\ acc' = [acc EXCEPT ![x][z] = @ + 1]
      /\ pc' = [pc EXCEPT ![h] = "idle"]
      /\ mem' = mem /\ size' = size /\ crashes' = crashes
  BY DEF AddRef
<1>3. size[h] = z + 1 /\ mem[h] # None
  <2>1. size[h] \in Nat
    BY SizeNat DEF IInv
  <2>2. mem[h] # None
    BY DEF IInv, Shape, AddRef
  <2> QED
    BY <2>1, <2>2
<1>4. ASSUME NEW o \in Objects, NEW k \in Sizes
      PROVE  LET n == Cardinality(Holders(o, k)') IN acc'[o][k] \in n .. n + crashes
  <2>0. /\ acc[o][k] \in Int
        /\ Cardinality(Holders(o, k)) \in Nat /\ IsFiniteSet(Holders(o, k))
        /\ acc[o][k] \in Cardinality(Holders(o, k)) .. Cardinality(Holders(o, k)) + crashes
        /\ crashes \in Nat
    BY HoldersFinite, HandleAssumption DEF IInv, Types, RefExact
  <2>1. CASE o = x /\ k = z
    <3>1. Holders(o, k)' = Holders(o, k) \cup {h} /\ h \notin Holders(o, k)
      BY <1>1, <1>2, <1>3, <2>1 DEF Holders, Counted, IInv, Types
    <3>2. Cardinality(Holders(o, k)') = Cardinality(Holders(o, k)) + 1
      BY <2>0, <3>1, FS_AddElement
    <3>3. acc'[o][k] = acc[o][k] + 1
      BY <1>1, <1>2, <2>1 DEF IInv, Types
    <3> QED
      BY <2>0, <3>2, <3>3
  <2>2. CASE ~(o = x /\ k = z)
    <3>1. Holders(o, k)' = Holders(o, k)
      <4>1. h \notin Holders(o, k)
        BY <1>1 DEF Holders
      <4>2. k \in Nat /\ z \in Nat
        BY <1>1, HandleAssumption
      <4>3. ~(mem[h] = o /\ size[h] = k + 1)
        BY <1>3, <2>2, <4>2
      <4>4. h \notin Holders(o, k)'
        BY <1>2, <4>3 DEF Holders
      <4>5. ASSUME NEW g \in Handles, g # h
            PROVE  g \in Holders(o, k)' <=> g \in Holders(o, k)
        BY <1>2, <4>5 DEF Holders, Counted, IInv, Types
      <4>6. Holders(o, k)' \subseteq Handles /\ Holders(o, k) \subseteq Handles
        BY DEF Holders
      <4> QED
        BY <4>1, <4>4, <4>5, <4>6
    <3>2. acc'[o][k] = acc[o][k]
      BY <1>1, <1>2, <2>2 DEF IInv, Types
    <3> QED
      BY <2>0, <3>1, <3>2
  <2> QED
    BY <2>1, <2>2
<1> QED
  BY <1>2, <1>4 DEF RefExact

(* fetch_sub: the holder is one no more, whether it unlinks or clears. *)
LEMMA SubRefRef ==
    ASSUME IInv, NEW h \in Handles, SubRef(h)
    PROVE  RefExact'
<1> DEFINE x == mem[h]
           z == size[h] - 1
<1>1. x \in Objects /\ z \in Sizes /\ Counted(h)
  BY DEF IInv, Types, Shape, SubRef, Counted
<1>2. /\ acc' = [acc EXCEPT ![x][z] = @ - 1]
      /\ crashes' = crashes
      /\ \A g \in Handles \ {h} : pc'[g] = pc[g] /\ mem'[g] = mem[g] /\ size'[g] = size[g]
      /\ ~Counted(h)'
  <2>1. CASE LastRef(acc[mem[h]][size[h] - 1])
    BY <2>1 DEF SubRef, Counted, IInv, Types
  <2>2. CASE ~LastRef(acc[mem[h]][size[h] - 1])
    BY <2>2 DEF SubRef, Cleared, Counted, IInv, Types
  <2> QED
    BY <2>1, <2>2
<1>3. size[h] = z + 1 /\ mem[h] # None
  <2>1. size[h] \in Nat
    BY SizeNat DEF IInv
  <2>2. mem[h] # None
    BY DEF IInv, Shape, SubRef
  <2> QED
    BY <2>1, <2>2
<1>4. ASSUME NEW o \in Objects, NEW k \in Sizes
      PROVE  LET n == Cardinality(Holders(o, k)') IN acc'[o][k] \in n .. n + crashes
  <2>0. /\ acc[o][k] \in Int
        /\ Cardinality(Holders(o, k)) \in Nat /\ IsFiniteSet(Holders(o, k))
        /\ acc[o][k] \in Cardinality(Holders(o, k)) .. Cardinality(Holders(o, k)) + crashes
        /\ crashes \in Nat
    BY HoldersFinite, HandleAssumption DEF IInv, Types, RefExact
  <2>1. CASE o = x /\ k = z
    <3>1. Holders(o, k)' = Holders(o, k) \ {h} /\ h \in Holders(o, k)
      BY <1>1, <1>2, <1>3, <2>1 DEF Holders, Counted
    <3>2. Cardinality(Holders(o, k)') = Cardinality(Holders(o, k)) - 1
      BY <2>0, <3>1, FS_RemoveElement
    <3>3. acc'[o][k] = acc[o][k] - 1
      BY <1>1, <1>2, <2>1 DEF IInv, Types
    <3> QED
      BY <2>0, <3>2, <3>3
  <2>2. CASE ~(o = x /\ k = z)
    <3>1. Holders(o, k)' = Holders(o, k)
      BY <1>1, <1>2, <1>3, <2>2, HandleAssumption DEF Holders, Counted
    <3>2. acc'[o][k] = acc[o][k]
      BY <1>1, <1>2, <2>2 DEF IInv, Types
    <3> QED
      BY <2>0, <3>1, <3>2
  <2> QED
    BY <2>1, <2>2
<1> QED
  BY <1>2, <1>4 DEF RefExact

(* A process that dies may leave one holder too many in the count. *)
LEMMA CrashRef ==
    ASSUME IInv, NEW h \in Handles, Crash(h)
    PROVE  RefExact'
<1>1. /\ acc' = acc /\ crashes' = crashes + 1
      /\ \A g \in Handles \ {h} : pc'[g] = pc[g] /\ mem'[g] = mem[g] /\ size'[g] = size[g]
      /\ ~Counted(h)'
  BY DEF Crash, osVars, Counted, IInv, Types
<1>2. ASSUME NEW o \in Objects, NEW k \in Sizes
      PROVE  LET n == Cardinality(Holders(o, k)') IN acc'[o][k] \in n .. n + crashes'
  <2>0. /\ acc[o][k] \in Int
        /\ Cardinality(Holders(o, k)) \in Nat /\ IsFiniteSet(Holders(o, k))
        /\ acc[o][k] \in Cardinality(Holders(o, k)) .. Cardinality(Holders(o, k)) + crashes
        /\ crashes \in Nat
    BY HoldersFinite, HandleAssumption DEF IInv, Types, RefExact
  <2>1. CASE h \in Holders(o, k)
    <3>1. Holders(o, k)' = Holders(o, k) \ {h}
      BY <1>1, <2>1 DEF Holders, Counted
    <3>2. Cardinality(Holders(o, k)') = Cardinality(Holders(o, k)) - 1
      BY <2>0, <2>1, <3>1, FS_RemoveElement
    <3> QED
      BY <1>1, <2>0, <3>2
  <2>2. CASE h \notin Holders(o, k)
    <3>1. Holders(o, k)' = Holders(o, k)
      BY <1>1, <2>2 DEF Holders, Counted
    <3> QED
      BY <1>1, <2>0, <3>1
  <2> QED
    BY <2>1, <2>2
<1> QED
  BY <1>2 DEF RefExact

-----------------------------------------------------------------------------
(* Every step preserves the invariant. *)
LEMMA NextIInv ==
    ASSUME OneSize
    PROVE  IInv /\ [Next]_handleVars => IInv'
<1> SUFFICES ASSUME IInv, [Next]_handleVars PROVE IInv'
  OBVIOUS
<1>1. CASE UNCHANGED handleVars
  <2>1. Types' /\ Shape'
    BY <1>1 DEF handleVars, IInv, Types, Shape
  <2>2. RefExact'
    BY <1>1, SameHolders DEF handleVars, IInv, Counted
  <2> QED
    BY <2>1, <2>2 DEF IInv
<1>2. ASSUME NEW h \in Handles,
             \/ (\E r \in Requests : Acquire(h, r)) \/ Release(h) \/ Retry(h)
             \/ Step(h) \/ Crash(h)
      PROVE  IInv'
  <2>1. Types' /\ Shape'
    BY <1>2, CallShape, ReleaseShape, OpenShape, GetShape, CrashShape DEF IInv, Step
  <2>2. RefExact'
    BY <1>2, OtherRef, CreateRef, TruncateRef, AddRefRef, SubRefRef, CrashRef DEF Step
  <2> QED
    BY <2>1, <2>2 DEF IInv
<1> QED
  BY <1>1, <1>2 DEF Next

(* The count behind the memory is the number of handles that hold it, and   *)
(* too high by at most one for each process that died, for any number of    *)
(* handles and whatever calls of acquire, get and release overlap.          *)
THEOREM CountExactly ==
    ASSUME OneSize
    PROVE  Spec => []RefExact
<1>1. Init => IInv
  BY InitIInv
<1>2. IInv /\ [Next]_handleVars => IInv'
  BY NextIInv
<1>3. IInv => RefExact
  BY DEF IInv
<1> QED
  BY <1>1, <1>2, <1>3, PTL DEF Spec

-----------------------------------------------------------------------------
(* The name. *)

(* A step leaves the history alone or is the start of a call. *)
LEMMA OverlapType ==
    ASSUME overlapped \in BOOLEAN, [Next]_handleVars
    PROVE  overlapped' \in BOOLEAN
<1>1. ASSUME NEW h \in Handles,
             (\E r \in Requests : Acquire(h, r)) \/ Release(h) \/ Retry(h)
      PROVE  overlapped' \in BOOLEAN
  BY <1>1 DEF Acquire, Release, Retry, Start
<1>2. ASSUME NEW h \in Handles, Step(h) \/ Crash(h)
      PROVE  overlapped' = overlapped
  BY <1>2 DEF Step, Crash, ReleaseEmpty, SubRef, Unlink, ShmOpenFails, ShmOpen, ShmCreate,
              Opened, GetFails, GetStat, GetTruncate, Mapped, AddRef
<1> QED
  BY <1>1, <1>2 DEF Next, handleVars

(* Every step keeps the members of a handle in shape, for any sizes. *)
LEMMA NextShape == Types /\ Shape /\ [Next]_handleVars => Types' /\ Shape'
<1>1. ASSUME Types, Shape, UNCHANGED handleVars
      PROVE  Types' /\ Shape'
  BY <1>1 DEF handleVars, Types, Shape
<1>2. ASSUME Types, Shape, NEW h \in Handles,
             \/ (\E r \in Requests : Acquire(h, r)) \/ Release(h) \/ Retry(h)
             \/ Step(h) \/ Crash(h)
      PROVE  Types' /\ Shape'
  BY <1>2, CallShape, ReleaseShape, OpenShape, GetShape, CrashShape DEF Step
<1> QED
  BY <1>1, <1>2 DEF Next

(* The objects, the counts and the members of every handle keep their types, *)
(* whatever sizes are asked for.                                            *)
THEOREM TypeCorrect == Spec => []TypeOK
<1> DEFINE Typed == Types /\ Shape /\ overlapped \in BOOLEAN
<1>1. Init => Typed
  BY InitIInv DEF IInv, Init
<1>2. Typed /\ [Next]_handleVars => Typed'
  BY NextShape, OverlapType
<1>3. Typed => TypeOK
  BY DEF Types, TypeOK
<1> QED
  BY <1>1, <1>2, <1>3, PTL DEF Spec

(* With one size, the file of an object never shrinks under a mapping. *)
LEMMA BoundsKeep ==
    ASSUME OneSize, IInv, MappedInBounds, [Next]_handleVars
    PROVE  MappedInBounds'
<1> USE DEF IInv, Types, Shape, MappedInBounds
<1>1. ASSUME UNCHANGED <<mem, size, length>>
      PROVE  MappedInBounds'
  BY <1>1
<1>2. ASSUME NEW h \in Handles, Cleared(h), UNCHANGED length
      PROVE  MappedInBounds'
  BY <1>2 DEF Cleared
<1>3. ASSUME NEW h \in Handles,
             (\E r \in Requests : Acquire(h, r)) \/ Release(h) \/ Retry(h)
               \/ ShmOpenFails(h) \/ AddRef(h)
      PROVE  MappedInBounds'
  BY <1>1, <1>3 DEF Acquire, Release, Retry, ShmOpenFails, AddRef, osVars
<1>4. ASSUME NEW h \in Handles, ReleaseEmpty(h) \/ Unlink(h) \/ SubRef(h)
      PROVE  MappedInBounds'
  BY <1>1, <1>2, <1>4 DEF ReleaseEmpty, Unlink, SubRef, osVars
<1>5. ASSUME NEW h \in Handles, ShmOpen(h)
      PROVE  MappedInBounds'
  BY <1>5 DEF ShmOpen, Opened, osVars
<1>6. ASSUME NEW h \in Handles, ShmCreate(h)
      PROVE  MappedInBounds'
  <2>1. PICK o \in Free :
          pc[h] = "open" /\ Opened(h, o) /\ length' = [length EXCEPT ![o] = 0]
    BY <1>6 DEF ShmCreate
  <2>2. \A g \in Handles : mem[g] # o /\ o # None
    BY <2>1, HandleAssumption DEF Free, None
  <2>3. mem[h] = None
    BY <2>1
  <2> QED
    BY <2>1, <2>2, <2>3 DEF Opened
<1>7. ASSUME NEW h \in Handles, GetFails(h)
      PROVE  MappedInBounds'
  <2>1. mem[h] = None
    BY <1>7 DEF GetFails
  <2> QED
    BY <1>7, <2>1 DEF GetFails, osVars
<1>8. ASSUME NEW h \in Handles, GetStat(h)
      PROVE  MappedInBounds'
  <2>1. fd[h] \in Objects /\ length[fd[h]] \in Nat /\ 1 < length[fd[h]]
    BY <1>8, HandleAssumption DEF GetStat, TooSmall
  <2> QED
    BY <1>8, <2>1 DEF GetStat, Mapped
<1>9. ASSUME NEW h \in Handles, GetTruncate(h)
      PROVE  MappedInBounds'
  <2>1. PICK k \in Nat \ {0} : Sizes = {k}
    BY HandleAssumption DEF OneSize
  <2>2. size[h] = k /\ fd[h] \in Objects /\ mem[h] = None
    BY <1>9, <2>1 DEF GetTruncate
  <2>3. /\ length' = [length EXCEPT ![fd[h]] = k + 1]
        /\ size' = [size EXCEPT ![h] = k + 1]
        /\ mem' = [mem EXCEPT ![h] = fd[h]]
    BY <1>9, <2>2 DEF GetTruncate, Mapped
  <2>4. ASSUME NEW g \in Handles, mem'[g] # None
        PROVE  1 < size'[g] /\ size'[g] <= length'[mem'[g]]
    <3>1. CASE g = h
      BY <2>1, <2>2, <2>3, <3>1
    <3>2. CASE g # h
      <4>1. size[g] - 1 \in Sizes /\ size[g] \in Nat /\ mem[g] \in Objects
        BY <2>3, <2>4, <3>2, SizeNat
      <4>2. size'[g] = k + 1 /\ mem'[g] = mem[g] /\ size[g] = k + 1
        BY <2>1, <2>3, <3>2, <4>1
      <4>3. 1 < size[g] /\ size[g] <= length[mem[g]]
        BY <2>4, <4>2
      <4>4. length'[mem[g]] = IF mem[g] = fd[h] THEN k + 1 ELSE length[mem[g]]
        BY <2>3, <4>1
      <4> QED
        BY <4>2, <4>3, <4>4
    <3> QED
      BY <3>1, <3>2
  <2> QED
    BY <2>4
<1>10. ASSUME NEW h \in Handles, Crash(h)
       PROVE  MappedInBounds'
  BY <1>10 DEF Crash, osVars
<1>11. CASE UNCHANGED handleVars
  BY <1>1, <1>11 DEF handleVars
<1> QED
  BY <1>3, <1>4, <1>5, <1>6, <1>7, <1>8, <1>9, <1>10, <1>11 DEF Next, Step

(* While nobody has died, a release that is not the last leaves a holder of *)
(* the same object.                                                         *)
LEMMA OthersHold ==
    ASSUME IInv, crashes = 0, NEW h \in Handles, SubRef(h),
           ~LastRef(acc[mem[h]][size[h] - 1])
    PROVE  \E g \in Handles : g # h /\ mem[g] = mem[h]
<1> DEFINE o == mem[h]
           k == size[h] - 1
           H == Holders(o, k)
<1>1. o \in Objects /\ k \in Sizes
  BY DEF IInv, Types, Shape, SubRef
<1>2. IsFiniteSet(H) /\ Cardinality(H) \in Nat
  BY HoldersFinite
<1>3. acc[o][k] \in Int /\ acc[o][k] <= Cardinality(H)
  BY <1>1, <1>2 DEF IInv, Types, RefExact
<1>4. Cardinality(H) >= 2
  BY <1>1, <1>2, <1>3 DEF LastRef
<1>5. ASSUME \A g \in H : g = h
      PROVE  FALSE
  <2>1. H \subseteq {h}
    BY <1>5
  <2>2. Cardinality({h}) = 1 /\ IsFiniteSet({h})
    BY FS_Singleton
  <2>3. Cardinality(H) <= 1
    BY <2>1, <2>2, FS_Subset
  <2> QED
    BY <1>2, <1>4, <2>3
<1> QED
  BY <1>5 DEF Holders

(* The last release has no other handle that holds the same object. *)
LEMMA LastHolds ==
    ASSUME OneSize, IInv, NEW h \in Handles, SubRef(h),
           LastRef(acc[mem[h]][size[h] - 1])
    PROVE  \A g \in Handles : Counted(g) /\ mem[g] = mem[h] => g = h
<1> SUFFICES ASSUME NEW g \in Handles, Counted(g), mem[g] = mem[h], g # h
             PROVE  FALSE
  OBVIOUS
<1> DEFINE o == mem[h]
           k == size[h] - 1
           H == Holders(o, k)
<1>1. o \in Objects /\ k \in Sizes /\ size[g] - 1 \in Sizes
  BY DEF IInv, Types, Shape, SubRef, Counted
<1>2. size[h] = k + 1 /\ size[g] = k + 1
  <2>1. size[h] \in Nat /\ size[g] \in Nat
    BY SizeNat DEF IInv
  <2>2. size[g] - 1 = k
    BY <1>1 DEF OneSize
  <2> QED
    BY <2>1, <2>2
<1>3. {g, h} \subseteq H
  BY <1>2 DEF Holders, Counted, SubRef
<1>4. IsFiniteSet(H) /\ Cardinality(H) \in Nat
  BY HoldersFinite
<1>5. Cardinality({g, h}) = 2
  <2>1. Cardinality({g}) = 1 /\ IsFiniteSet({g})
    BY FS_Singleton
  <2>2. {g, h} = {g} \cup {h}
    OBVIOUS
  <2>3. Cardinality({g} \cup {h}) = Cardinality({g}) + 1
    BY <2>1, FS_AddElement
  <2> QED
    BY <2>1, <2>2, <2>3
<1>6. Cardinality({g, h}) <= Cardinality(H)
  BY <1>3, <1>4, FS_Subset
<1>7. acc[o][k] \in Int /\ acc[o][k] >= Cardinality(H)
  BY <1>1, <1>4 DEF IInv, Types, RefExact
<1>8. acc[o][k] <= 1
  BY DEF LastRef
<1> QED
  BY <1>4, <1>5, <1>6, <1>7, <1>8

(* As long as nobody dies, the name stays with a handle that will remove it. *)
LEMMA NameKept ==
    ASSUME IInv, Kept, [Next]_handleVars
    PROVE  Kept'
<1> SUFFICES ASSUME crashes' = 0, named' # None
             PROVE  \E h \in Handles : Keeps(h)'
  BY DEF Kept
<1> USE DEF IInv, Types, Shape, Keeps
<1>1. ASSUME crashes = 0, named # None
      PROVE  \E g \in Handles : Keeps(g)
  BY <1>1 DEF Kept
<1>2. ASSUME NEW h \in Handles,
             (\E r \in Requests : Acquire(h, r)) \/ Release(h) \/ Retry(h)
      PROVE  \E g \in Handles : Keeps(g)'
  BY <1>1, <1>2 DEF Acquire, Release, Retry, Start, osVars
<1>3. ASSUME NEW h \in Handles, ReleaseEmpty(h) \/ Unlink(h)
      PROVE  \E g \in Handles : Keeps(g)'
  BY <1>1, <1>3 DEF ReleaseEmpty, Unlink, Cleared, osVars
<1>4. ASSUME NEW h \in Handles, SubRef(h)
      PROVE  \E g \in Handles : Keeps(g)'
  <2>1. named' = named /\ crashes = 0
    BY <1>4 DEF SubRef
  <2>2. PICK g \in Handles : Keeps(g)
    BY <1>1, <2>1
  <2>3. CASE LastRef(acc[mem[h]][size[h] - 1])
    BY <1>4, <2>1, <2>2, <2>3 DEF SubRef
  <2>4. CASE ~LastRef(acc[mem[h]][size[h] - 1])
    <3>1. Cleared(h)
      BY <1>4, <2>4 DEF SubRef
    <3>2. CASE g # h
      BY <2>1, <2>2, <3>1, <3>2 DEF Cleared
    <3>3. CASE g = h
      <4>1. PICK i \in Handles : i # h /\ mem[i] = mem[h]
        BY <1>4, <2>1, <2>4, OthersHold
      <4>2. mem[h] = named
        BY <1>4, <2>2, <3>3 DEF SubRef
      <4> QED
        BY <2>1, <3>1, <4>1, <4>2 DEF Cleared
    <3> QED
      BY <3>2, <3>3
  <2> QED
    BY <2>3, <2>4
<1>5. ASSUME NEW h \in Handles, ShmOpenFails(h) \/ ShmOpen(h)
      PROVE  \E g \in Handles : Keeps(g)'
  BY <1>1, <1>5 DEF ShmOpenFails, ShmOpen, Opened, osVars
<1>6. ASSUME NEW h \in Handles, ShmCreate(h)
      PROVE  \E g \in Handles : Keeps(g)'
  <2>1. todo[h] \in Requests /\ todo[h].size # 0
    BY <1>6, HandleAssumption DEF ShmCreate, Requests
  <2> QED
    BY <1>6, <2>1 DEF ShmCreate, Opened
<1>7. ASSUME NEW h \in Handles, GetFails(h) \/ GetStat(h)
      PROVE  \E g \in Handles : Keeps(g)'
  BY <1>1, <1>7 DEF GetFails, GetStat, Mapped, osVars
<1>8. ASSUME NEW h \in Handles, GetTruncate(h)
      PROVE  \E g \in Handles : Keeps(g)'
  BY <1>1, <1>8 DEF GetTruncate, Mapped
<1>9. ASSUME NEW h \in Handles, AddRef(h)
      PROVE  \E g \in Handles : Keeps(g)'
  BY <1>1, <1>9 DEF AddRef
<1>10. ASSUME NEW h \in Handles, Crash(h)
       PROVE  FALSE
  BY <1>10, HandleAssumption DEF Crash
<1>11. CASE UNCHANGED handleVars
  BY <1>1, <1>11 DEF handleVars
<1> QED
  BY <1>2, <1>3, <1>4, <1>5, <1>6, <1>7, <1>8, <1>9, <1>10, <1>11 DEF Next, Step

(* A name that is there leads to an object with a length, unless the handle *)
(* that opened it is about to set it.                                       *)
LEMMA NameHasLength ==
    ASSUME NameInv, OneByOne, crashes = 0, NEW h \in Handles,
           pc[h] = "get", size[h] = 0
    PROVE  ~TooSmall(length[fd[h]])
<1>1. fd[h] = named /\ named # None
  BY DEF OneByOne, NameInv, IInv, Shape
<1>2. PICK g \in Handles : Keeps(g)
  BY <1>1 DEF NameInv, Kept
<1>3. mem[g] = named
  BY <1>2 DEF Keeps, OneByOne
<1>4. 1 < size[g] /\ size[g] <= length[named]
  BY <1>1, <1>3 DEF NameInv, MappedInBounds
<1>5. size[g] \in Nat
  BY SizeNat DEF NameInv, IInv
<1>6. length[named] \in Nat
  <2>1. named \in Objects
    BY <1>1 DEF NameInv, IInv, Types
  <2> QED
    BY <2>1, HandleAssumption DEF NameInv, IInv, Types
<1> QED
  BY <1>1, <1>4, <1>5, <1>6 DEF TooSmall

(* The start of a call while no other handle is in one. *)
LEMMA StartApart ==
    ASSUME IInv, OneByOne, ~overlapped', NEW h \in Handles,
           (\E r \in Requests : Acquire(h, r)) \/ Release(h) \/ Retry(h)
    PROVE  OneByOne'
<1>1. ~Retry(h)
  BY DEF OneByOne, Retry, Start
<1>2. /\ \A g \in Handles : pc[g] = "idle"
      /\ pc' = [pc EXCEPT ![h] = "release"]
      /\ UNCHANGED <<named, fd, mem>>
  BY <1>1 DEF Acquire, Release, Start, osVars
<1>3. \A g \in Handles : pc'[g] # "idle" => g = h /\ pc'[g] = "release"
  BY <1>2 DEF IInv, Types
<1> QED
  BY <1>2, <1>3 DEF OneByOne

(* The steps of release(). *)
LEMMA ReleaseApart ==
    ASSUME OneSize, IInv, OneByOne, NEW h \in Handles,
           ReleaseEmpty(h) \/ SubRef(h) \/ Unlink(h)
    PROVE  OneByOne'
<1> USE DEF IInv, Types, Shape, OneByOne
<1>1. CASE ReleaseEmpty(h)
  BY <1>1 DEF ReleaseEmpty, Cleared, osVars
<1>2. CASE SubRef(h) /\ ~LastRef(acc[mem[h]][size[h] - 1])
  <2>1. Cleared(h) /\ named' = named
    BY <1>2 DEF SubRef
  <2> QED
    BY <1>2, <2>1 DEF SubRef, Cleared
<1>3. CASE SubRef(h) /\ LastRef(acc[mem[h]][size[h] - 1])
  <2>1. /\ pc' = [pc EXCEPT ![h] = "unlink"] /\ pc[h] = "release"
        /\ UNCHANGED <<named, fd, mem>>
    BY <1>3 DEF SubRef
  <2>2. \A g \in Handles : Counted(g) /\ mem[g] = mem[h] => g = h
    BY <1>3, LastHolds
  <2>3. ASSUME NEW g \in Handles, mem[g] # None
        PROVE  g = h
    <3>1. mem[h] # None /\ mem[g] = mem[h]
      BY <1>3, <2>3 DEF SubRef
    <3>2. pc[g] \notin {"count", "unlink"}
      BY <2>1
    <3> QED
      BY <2>2, <2>3, <3>1, <3>2 DEF Counted
  <2> QED
    BY <2>1, <2>3
<1>4. CASE Unlink(h)
  <2>1. /\ pc[h] = "unlink" /\ named' = None /\ Cleared(h)
        /\ \A g \in Handles : g # h => mem[g] = None
    BY <1>4 DEF Unlink
  <2>2. \A g \in Handles : mem'[g] = None /\ fd'[g] = None
    BY <2>1 DEF Cleared
  <2>3. \A g \in Handles : g # h => pc'[g] = "idle"
    BY <2>1 DEF Cleared
  <2>4. pc'[h] # "unlink"
    BY <2>1 DEF Cleared
  <2> QED
    BY <2>2, <2>3, <2>4
<1> QED
  BY <1>1, <1>2, <1>3, <1>4

(* The steps of acquire() after its release(). *)
LEMMA OpenApart ==
    ASSUME IInv, OneByOne, NEW h \in Handles,
           ShmOpenFails(h) \/ ShmOpen(h) \/ ShmCreate(h)
    PROVE  OneByOne'
<1> USE DEF IInv, Types, Shape, OneByOne
<1>1. CASE ShmOpenFails(h)
  BY <1>1 DEF ShmOpenFails, osVars
<1>2. CASE ShmOpen(h)
  BY <1>2 DEF ShmOpen, Opened, osVars
<1>3. CASE ShmCreate(h)
  <2>1. PICK o \in Objects :
          /\ pc[h] = "open" /\ named = None /\ named' = o
          /\ fd' = [fd EXCEPT ![h] = o]
          /\ pc' = [pc EXCEPT ![h] = "get"]
          /\ mem' = mem
    BY <1>3 DEF ShmCreate, Opened, Free
  <2>2. \A g \in Handles : mem[g] = None
    BY <2>1
  <2> QED
    BY <2>1, <2>2
<1> QED
  BY <1>1, <1>2, <1>3

(* The steps of get(): what it opened is mapped, as it has a length. *)
LEMMA GetApart ==
    ASSUME NameInv, OneByOne, crashes = 0, NEW h \in Handles,
           GetFails(h) \/ GetStat(h) \/ GetTruncate(h) \/ AddRef(h)
    PROVE  OneByOne'
<1> USE DEF NameInv, IInv, Types, Shape, OneByOne
<1>1. ~GetFails(h)
  BY NameHasLength DEF GetFails
<1>2. CASE GetStat(h)
  BY <1>2 DEF GetStat, Mapped
<1>3. CASE GetTruncate(h)
  BY <1>3 DEF GetTruncate, Mapped
<1>4. CASE AddRef(h)
  BY <1>4 DEF AddRef
<1> QED
  BY <1>1, <1>2, <1>3, <1>4

(* Calls that do not overlap leave one handle at a time in a call, and every *)
(* handle on the object of the name.                                        *)
LEMMA StaysApart ==
    ASSUME OneSize, NameInv, [Next]_handleVars
    PROVE  Apart'
<1> SUFFICES ASSUME ~overlapped', crashes' = 0 PROVE OneByOne'
  BY DEF Apart
<1>1. ASSUME NEW h \in Handles,
             (\E r \in Requests : Acquire(h, r)) \/ Release(h) \/ Retry(h)
      PROVE  OneByOne'
  <2>1. ~overlapped /\ crashes = 0
    BY <1>1 DEF Acquire, Release, Retry, Start
  <2> QED
    BY <1>1, <2>1, StartApart DEF NameInv, Apart
<1>2. ASSUME NEW h \in Handles, Step(h)
      PROVE  OneByOne'
  <2>1. ~overlapped /\ crashes = 0
    BY <1>2 DEF Step, ReleaseEmpty, SubRef, Unlink, ShmOpenFails, ShmOpen, ShmCreate,
                Opened, GetFails, GetStat, GetTruncate, Mapped, AddRef
  <2>2. OneByOne
    BY <2>1 DEF NameInv, Apart
  <2> QED
    BY <1>2, <2>1, <2>2, ReleaseApart, OpenApart, GetApart DEF Step, NameInv
<1>3. ASSUME NEW h \in Handles, Crash(h)
      PROVE  FALSE
  BY <1>3, HandleAssumption DEF Crash, NameInv, IInv, Types
<1>4. CASE UNCHANGED handleVars
  BY <1>4 DEF handleVars, NameInv, Apart, OneByOne
<1> QED
  BY <1>1, <1>2, <1>3, <1>4 DEF Next

(* The invariant of the name holds throughout. *)
THEOREM Inductive == ASSUME OneSize PROVE Spec => []NameInv
<1>1. Init => NameInv
  <2>1. Init => MappedInBounds /\ Kept /\ Apart
    BY DEF Init, MappedInBounds, Kept, Apart, OneByOne
  <2> QED
    BY <2>1, InitIInv DEF NameInv
<1>2. NameInv /\ [Next]_handleVars => NameInv'
  BY NextIInv, BoundsKeep, NameKept, StaysApart DEF NameInv
<1> QED
  BY <1>1, <1>2, PTL DEF Spec

(* With one size, no handle is ever mapped beyond the end of its file,      *)
(* however the ftruncate of a creator and the fstat of a reader interleave. *)
THEOREM InBounds == ASSUME OneSize PROVE Spec => []MappedInBounds
<1>1. OneSize
  OBVIOUS
<1>2. NameInv => MappedInBounds
  BY DEF NameInv
<1> QED
  BY <1>1, <1>2, Inductive, PTL

(* With one size and no deaths, a name that no handle maps is gone when all *)
(* calls have returned, however they overlapped.                            *)
THEOREM LeavesNothing == ASSUME OneSize PROVE Spec => []NoLeftover
<1>1. OneSize
  OBVIOUS
<1>2. NameInv => NoLeftover
  BY DEF NameInv, NoLeftover, Kept, Keeps, Quiet
<1> QED
  BY <1>1, <1>2, Inductive, PTL

(* With one size, calls that do not overlap and no deaths, all handles that *)
(* are valid map the object the name leads to.                              *)
THEOREM Shared == ASSUME OneSize PROVE Spec => []SharedByName
<1>1. OneSize
  OBVIOUS
<1>2. NameInv => SharedByName
  BY DEF NameInv, SharedByName, Apart, OneByOne
<1> QED
  BY <1>1, <1>2, Inductive, PTL
=============================================================================
