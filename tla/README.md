# tiny_ipc: a TLA+ model of shared-memory channels and routes

tiny_ipc passes messages between processes through shared memory. A *channel*
(`Wr<UNICAST>`) is meant for N writers and one reader, a *route*
(`Wr<BROADCAST>`) for N writers and N readers. This directory holds TLA+
modules translated from the C++ code, TLC configurations that check them on
small instances, and TLAPS proofs: every invariant that a passing run checks is
also a theorem for every value of the constants, under the assumptions of
section 4.

Paths below are relative to the repository (`src/` is its library code).

## 1. The system

| Part | State | Operations | Interacts with |
|---|---|---|---|
| `core/Content.hpp`, `core/Segment.hpp` (the ring) | `r_`, `w_` (uint32 counters), 256 slots `block_` | `push`, `pop` | called by `QueueBase`; shared by all processes, no lock |
| `core/Connection.hpp` | bitset `cc_` of 64 bits under spin lock `lcc_` | `connect`, `disconnect`, `connections`, `recv_count` | called by `QueueConn` and `Ipc::write` |
| `core/Head.hpp` | `constructed_`, spin lock `lc_`, the waiter | `init` | called on every open of a segment |
| `Queue.hpp`, `MessageQueue.hpp` | `connected_id_`, `cursor_` of each queue object | `connect`, `disconnect`, `push`, `pop`, `empty`, `open`, `close` | `Ipc` above, segment below |
| `core/Fragment.hpp` | per sender thread: 1 GB of shared memory, a monotonic pool; a usage count in front of each message | `write`, `recyle_memory`, `read` | `Ipc::write` stores the count, each reader takes 1 off |
| `sync/Waiter.*`, `Mutex.*`, `Condition.*` | process-shared robust mutex and condition variable | `wait_for`, `notify`, `broadcast`, `quit` | readers wait, writers wake |
| `Ipc.cpp` | `connected`, `mode`, handle, fragment | `connect`, `reconnect`, `disconnect`, `write`, `read` | everything above |
| `Handle.cpp` | shared memory object with a reference count | `acquire`, `get`, `release` | segments, fragments |
| `sync/RwLock.h` | `SpinLock`, `RwLock` words | `lock`, `unlock`, ... | `Connection`, `Head`, `Fragment` |
| `sync/RobustExclusiveLock.hpp` | a lock file | construct, destroy, `is_locked`, `remove` | not used by the rest |
| `Resource.hpp`, `Buffer.cpp`, `Descriptor.cpp`, `ScopeGuard.h` | none shared | helpers | |

What is hard: the ring is not locked, so each load and store of `push` and
`pop` interleaves with those of other processes; its counters wrap and are
compared by one byte; a slot is released by whichever reader sees a shared
count reach 0; that count is computed from a table whose bits `connect` and
`disconnect` index differently; readers wait on a condition variable that
writers signal without its mutex, and the mutex may be left behind by a dead
process; a segment is constructed by whoever opens it first, under a lock that
the construction resets; the memory of messages is named after a thread, so two
fragments of a thread share it; `disconnect` may come from another thread or a
signal handler while `write` or `read` runs. `PROJECT.json` lists these hazards by line.

What makes the parts correct: the ring never loses, repeats, reorders or
overwrites a descriptor and refuses only when full; the table admits one
reader to a channel and counts the readers of a message exactly; a slot is
released after its last reader and no earlier, and the bytes of a message last
until then; a published message reaches a reader that is receiving;
`disconnect` ends `read`; whoever opens a segment finds it whole; the death of
an owner does not let two into a critical section nor stop the others. The code
keeps each of these only in part: section 3 says under which conditions the
runs show them, and what happens beyond.

## 2. The modules

| Module | Models |
|---|---|
| `BoundedQueue` | abstract: a bounded FIFO with offer, accept or refuse, take, release, rewind |
| `Content` | `Content::push`/`pop`, one action per access to shared memory; the cursor of each reader |
| `ContentProofs` | TLAPS proofs about `Content` |
| `Connection`, `ConnectionProofs` | `cc_`, `connected_id_`; `Connect`, `Disconnect`; TLAPS proofs |
| `Ipc` | composition: `Ring == INSTANCE Content`, `Conn == INSTANCE Connection`, usage counts, mutex and condition, the control of `connect`, `disconnect`, `write`, `read` |
| `IpcProofs` | TLAPS proofs about `Ipc`, from the lemmas of `ContentProofs` and `ConnectionProofs` |
| `RwLock` | `RwLock` of `sync/RwLock.h`, one action per access to its word |
| `Waiter`, `WaiterProofs` | `wait_for`, the robust mutex and the condition, with owners that die; TLAPS proofs |
| `Head`, `HeadProofs` | opening, using and closing one segment: `QueueConn::open`, `Head::init`, `~QueueBase`; `Conn == INSTANCE Connection`; TLAPS proofs |
| `Handle`, `HandleProofs` | the shared memory objects of one name and the handles of several processes; TLAPS proofs |
| `Resource` | `align_size`, `make_timespec` |
| `Fragment`, `FragmentProofs` | the memory of messages: pools, `recyle_memory`, the readers' mappings; TLAPS proofs, those about `Resource` too |
| `RobustExclusiveLock` | the lock file, its opening, locking and removal by several processes |
| `LockProofs` | TLAPS proofs about the two locks, `RwLock` and `RobustExclusiveLock` |
| `MC*` | instances for TLC |

**Content.** `rd`, `wr`, `block` are `r_`, `w_`, `block_`; `cur_wt` and `item`
are the locals of `push`, `got` that of `pop`; `spc` and `rpc` say where a
thread stands. `PushLoad` reads `w_`; `PushFull`/`PushClaim` read `r_` and
compare; `PushStore` constructs the descriptor in the slot; `PushPublish` adds
1 to `w_`. `PopReady` reads `w_`; `PopTake` moves the descriptor out and
advances the cursor; `PopOut(c, last)` is the call of `out` and, if it answers
true, the addition to `r_`. `Attach` loads `r_` into the cursor at connect.
The code is sequentially consistent where it matters here (release additions,
acquire loads of the other side's counter), so steps are interleaved. The two
specialisations of `Content` are the same text and one module stands for both.

**Connection.** `cc` is the set of bits that are 1. Identifiers and subscripts
are those of the code: `connect` sets bit `id - 1`, `disconnect` clears bit
`id`. A subscript outside 0..63 is undefined for `bitset::operator[]`; on
libstdc++, with 64 bits in one machine word and assertions off, it selects the
bit modulo 64, and `Bit` models that outcome. `role` and `joins` are history.

**Ipc.** A port is an `Ipc` object driven by one thread, except that its
`disconnect` may fall between any two steps of its `write` or `read`. `apc`, `wpc`, `rdpc` are
program counters of connect/disconnect, write and read, `tm` the argument of
`read`: 0, a limit, or none. `count[m]` is the usage count in front of message
`m`, a word that wraps (`CountSize`). `mutex` and the state `"wait"` are the
waiter: `ReadWait` gives up the mutex and waits in one step, `WakeOne`/`WakeAll`
are signal and broadcast, `ReadWakeup` a spurious wakeup, `ReadExpire` the time
limit, `ReadRelock` the return from the wait. An expired wait returns without
looking at the ring, as `wait_for` does. `sent` and `delivered` are history.

**Waiter.** `owner` and `mstate` are the robust mutex as POSIX describes it
(external): `dead` after its owner died, `inconsistent` once it was taken from a
dead owner, `broken` when it was unlocked in that state. The error returns after
`pthread_mutex_consistent` and the unlock that follows it (`Mutex.cpp:100-108`)
are left out: POSIX has none for an owner. `Lock`, `Repair`,
`Repaired`, `LockFails` are `Mutex::lock`; `TryLock` is `try_lock`; `Wait`, `Wake`,
`Relock`, `WaitRefused`, `RelockFails` are `Condition::wait`; `Poll` and
`PredReturns` the rest of `wait_for`. `wait_for` holds a `lock_guard`, which
ignores what `lock` answered, so a thread may go on without the mutex
(`"bare"`). `Die` ends a thread anywhere. `spoilt` (history): a wait took the
mutex of a dead owner and left it unrepaired.

**Head.** `constructed`, `lc`, `waiter` and `cc` are members of the segment, in
shared memory; `pc` places a queue in `open` or its destructor. `Construct`,
`ResetTable`, `ResetLock` and `ResetFlag` are the placement new, which resets the
members in their order, the lock that its caller holds included. `Release` by the last user removes the memory; a dead process keeps
its reference (`pinned`). `marks` is history: `doubled`, a second queue began to
build the segment; `late`, one opened it while its last user was closing it;
`locked` and `unfinished`, where a process died. A process that is neither
opening nor closing works on the table with the actions of `Connection`.

**Fragment.** `heap[t]` holds the messages whose bytes are whole in the memory
named after thread `t`, `top` and `map` are the pool and `map_` of a sender
fragment, `desc` the descriptors, `inbox` those a reader has still to pop,
`handles` its mappings. `Write` is `Ipc::write` down to the push: `recyle_memory`,
the allocation, the copy, the count; a push that is refused leaves the message
allocated. `ReadOpen`/`ReadFails` are `get_handle`, `ReadCountDown` the
`fetch_sub` on whatever lies at the offset by then. Messages that overlap
destroy each other; a load from destroyed bytes gives any value that matters
(`Loads`). `exposed` (history) are unread messages under a second pool.

**RwLock.** `lc` is the word, `old` the local of `lock_shared`. `LockTry` is
`fetch_or`, which finds the lock free, held by readers (`LockDrain` then waits)
or held by a writer. `SharedEnter`/`SharedFail` are the two outcomes of
`compare_exchange_weak`, the second also spurious. Accesses are totally
ordered; that the exchange has only release order is not modelled.

**Handle.** `named` is the object the name leads to; `length` and `acc` belong
to objects, `fd`, `mem`, `size` to handles. `Acquire` and `Release` begin a
call; `ReleaseEmpty`/`SubRef`/`Unlink` are `release()`, `ShmOpen*` the opening
in `acquire()`, `Get*` and `AddRef` are `get()`. `munmap`, which no other
process can see, is one step with what follows it. `Crash` ends a process at
any point. An object without name, descriptor and mapping is `Free` and its
identity is used again, so no bound on the number of objects is needed.
`overlapped` is history.

**RobustExclusiveLock.** `OpenExisting`, `OpenMissing`, `Create`, `Flock`,
`FlockFails` are `open_and_lock_file`, called by the constructors and by
`is_locked` (`probe`); `UnlockFile`, `CloseFile` and `Remove` are
`unlock_and_close`;
`RemoveCall` is the static `remove`. `removed` is history.

Definitions whose comment begins with "A bug" are variants of the definition
that follows them; no specification uses them. They document which mistake
each property rules out (`mutants` in `PROJECT.json`).

## 3. The runs

Passing:

- `content`: one sender, one receiver, 3 slots, counters modulo 6, so that the
  counters wrap and the ring wraps twice as often; two descriptors suffice to
  tell values apart. `NoOverrun`, `CountersOrdered`, the strengthening
  `StepsAgree`, and refinement of `BoundedQueue`. Deadlock is checked.
- `connection`: three queues, a table of 6 bits, senders connecting at most 4 =
  `MaxCnt - 2` times in all. Three queues are enough for a receiver, a sender
  that disturbs it and a competitor. Under that bound one reader at a time is
  admitted, it is counted, and `connections()` is not 0 for a connected queue.
  The queues are interchangeable, hence the symmetry.
- `channel`: one writer, one reader that calls `read` with 0, with a limit or
  without one, both free to leave, also in the middle of a call, and to return;
  6 messages on 3 slots with counters modulo 6, so the counters wrap too;
  readers connect before the first write. Order, exact usage counts, no leaked
  slot; `PollingDelivers`: a reader inside `read(0)` is given all that was
  published while it stays; `ReaderStops`: `disconnect` ends a `read` that polls
  or has a time limit wherever it finds it, and a `read` without a limit except
  in one window (`Heard`): between the loop's test of `CONNECTED` and the wait,
  where flag and broadcast are both missed. Both speak of the time when the
  writes have ended, for the loop over the ring does not look at `CONNECTED`
  and an endless stream of messages could keep the reader inside; the bound on
  messages is the assumption that they end.
- `route`: one writer, two readers, 7 messages. `recv_count` adds the senders
  and the first receiver; only with one writer and two readers is that the
  number of readers, and this run shows that the release protocol is right
  when the count is. The readers are interchangeable.
- `fragment`: one thread with two sender fragments, two readers, memory of two
  aligned blocks, three messages of a small and of a rounded-up size: enough for
  a pool that is used up, a second pool over unread messages, a sender that
  dies or goes and comes back, and readers that map early, late or never.
  `CountSafe`: no message reaches the word with the reference count. `Intact`
  and `Tracked`: bytes, count and entry in `map_` of an unread message last,
  except for messages under a second pool, and for memory that went with its
  fragment before any reader mapped it.
- `waiter`: three threads, two deaths: one may die while it repairs what another
  left, with a third to see the outcome. Predicates exclude each other, only
  `Condition::wait` can make the mutex unusable, every way out gives the mutex
  back, and who locks a dead owner's mutex gets it going again or dies at it. Deadlock is
  checked.
- `head`: three queues, three calls of `open`, one death; three queues let one
  build, a second enter through the reset lock and a third wait for it or come
  late. Who returns from `open` has a whole segment that counts it, except
  after `doubled` or `late`; after `doubled` its flag and waiter are whole
  whenever nobody is building, while erased connections stay erased; `open`
  returns unless a process died with the lock. No
  deadlock check: with all calls of `open` used and everything closed, it stops.
- `rwlock`: three threads, a word of four bits; three suffice for a writer that
  drains, a reader inside and a reader with a stale `old`. Exclusion, the exact
  word, and that readers cannot starve a writer that has set its flag.
- `handle`: three handles, four objects, one crash; one size for the name, as
  `QueueConn::open` and `Fragment` use it. `RefExact`, `NoLeftover` and
  `MappedInBounds` hold for calls that overlap in every way. `SharedByName`
  holds only until calls overlap: an `acquire` between the last `fetch_sub` and
  `shm_unlink` keeps an object that later ones do not find. It also needs that
  no process dies between `shm_open` and `ftruncate`: a reader that failed on
  the empty file keeps its `fd_` and may map it after its name is gone.
- `robust`: three processes, four files, two crashes. Exclusion holds until the
  first path is removed, also against processes that die and come back, and
  the file never outlives its users unless one dies. After a removal exclusion
  is lost: the destructor unlocks, another process locks the file it had
  already opened, the destructor removes the path, and a third process creates
  and locks a new file. The comment of the class (lines 28-31) does not allow
  for that; TLC finds such a run when `removed \/` is taken out of
  `ExclusiveWhilePathStays`.

The `Ipc` runs do not check deadlock: after the last message, with everyone
disconnected, the system may stop; so may `fragment`, with its messages written.

Violations, each a finding in `PROJECT.json`:

- `lost_wakeup`: `read()` without a limit, the default, sleeps beside an unread
  message.
- `two_senders`: two writers of a channel lose a message.

Limits of the code that the models show, each with what reproduces it:

- With `MaxCnt - 1` sender connects in all (63 in the code), `disconnect` of the
  last sender frees the receiver's bit and a second reader is admitted
  (`MaxJoins = MaxCnt - 1` in `MCConnection.cfg`: `SingleReceiver` fails). A
  channel's receiver has identifier 64, so its `disconnect` leaves bit 63 set and
  no receiver can connect again.
- `recv_count` of a route counts the low half of the table, the senders and the
  first receiver: a third reader misses messages (three `Receivers`, `RingSize` 2,
  `WordSize` 4, `MaxMsgs` 3 in `MCIpcRoute.cfg`: `InOrder` fails).
- `read()` without a limit may never return although `disconnect` was called, from
  another thread or, as in the examples, from a signal handler: the flag is set
  after the test at `Ipc.cpp:341` and the broadcast is sent before the wait, which
  then has nobody to end it (`ReaderStops` without `Heard(c)` in
  `MCIpcChannel.cfg`). It is the cause of `lost_wakeup` once more: the wait comes
  before the look, and what it waits for is changed without the mutex. A handler
  that interrupts its own thread while that holds `lcc_` spins on it for ever; the
  models take such a critical section as one step.
- A message written while no reader is connected has count 0, which the reader's
  `fetch_sub` wraps, so its slot is never released (`ReadersFirst = FALSE`
  in `MCIpcChannel.cfg`: `CountExact` fails, and checked without it
  `FullMeansUnread`).
- Two fragments of one thread, for two channels or for a new `connect`, share one
  memory, and the second pool overwrites what readers have not read (`Intact`
  without `\ exposed`). The pool never gives memory back, so a fragment can
  carry 1 GB in all and `write` throws afterwards; the comment at
  `core/Fragment.hpp:62` has recycling in mind. The length a reader is given is
  the padded one.
- The placement new in `Head::init` frees the lock its caller holds; a queue
  waiting for it builds the segment a second time, under users of the first
  (`Usable` without `"doubled"`). A queue that opens during the close of the last
  user keeps a destroyed waiter (without `"late"`). `~QueueBase` of a queue whose
  `open` failed goes through a null `segment_`; in the model queues that open
  succeed.
- `Condition::wait` does not repair the mutex that it takes from a dead owner; its
  unlock makes the mutex unusable for good, and from then on `wait_for` runs the
  predicate without it (`PredicateAlone` without its premise).
- A time-out of `wait_for` returns without a look at the ring, so a reader with a
  time limit may go from one expired wait to the next beside an unread message;
  nothing is promised of when it is read.

**Fairness** (`FairSpec`): weak fairness of each thread that is inside a call
and of a connected reader's call of `read`. The operating system schedules
every runnable thread; nothing obliges an application to connect, write or
leave. A wait with a time limit ends (`ReadExpire`), no other is assumed to end
without a signal. Weak fairness of taking
the mutex is enough in the runs with liveness because the one reader is its
only user; for several polling readers the code gives no such guarantee, and no
liveness is claimed. For `RwLock`, weak fairness of threads that are inside its
functions or hold it: a holder lets go in the end, or nobody could get in. For
`Waiter` and `Head`, weak fairness of each thread inside a call: threads may die,
which disables their steps, and no thread is obliged to call. `OpenReturns` needs
no strong fairness for the spin lock because each queue takes it at most once
for each of finitely many calls of `open`.

## 4. The proofs

`ContentProofs` (checked by TLAPS with Z3, Zenon and LS4). Assumptions:
`RingSize >= 2`, `WordSize` a positive multiple of `RingSize`, `None` not a
descriptor; except for type correctness, one sender and one receiver
(`OneToOne`). Nothing bounds the sizes: the theorems cover 256 and 2^32.

- `TypeCorrect`: `Spec => []TypeOK`, any number of senders and receivers.
- `Inductive`: `Spec => []IInv`. `CountersOrdered` is not inductive: that
  `push` may store depends on a load of `r_` made earlier. `StepsAgree` adds
  what each thread has learned: a sender past the test has room, its slot is
  still `Index(wr)`, a stored slot holds its item; a reader past its test has
  something to take. It survives the other thread's steps because `r_` only
  moves towards the cursor and `w_` has one writer.
- `Ordered`, `NeverOverruns`: the two safety properties; `NothingStale`:
  `StepsAgree`.
- `Refinement`: `Spec => RefinesQueue`. The queue is the slots from `rd` to
  `wr`; `PushPublish` is Accept, `PushFull` is Refuse, `PopTake` is Take,
  `PopOut` with `last` is Release, `Attach` is Rewind, the rest stutters.

The lemmas are arithmetic: a slot is unchanged by the wrap of a counter because
`RingSize` divides `WordSize`; positions less than `RingSize` apart are distinct
slots; hence the byte comparison of `push` is exact (`FullExact`).

`IpcProofs` is about `Supported` uses of a segment, the two that the runs `channel`
and `route` check: a channel with one writer and one reader, both of which may
leave and come back, at most `MaxCnt - 2` connects of the writer; or a route with
one writer and two readers that stay. In both, applications write once every
reader has connected. Ring, counters, table, usage counts and number of messages
are of any size. Sections 3 and 5 say what goes wrong beyond these conditions.

- `TypeCorrect`: `Spec => []TypeOK`.
- `DeliversInOrder`: `Spec => []InOrder`.
- `CountsExactly`: `Spec => []CountExact`.
- `RefusesUnread`: `Spec => []FullMeansUnread`.
- `LosesNothing`: `Spec => []NothingLost`, which the run `two_senders` refutes for
  two writers.

The invariant (`Inductive`) relates the parts. `TableInv` says which bits and
identifiers there can be, so that `recv_count` is the number of readers while a
message is on its way; in a channel it rests on `IInv` of `ConnectionProofs`.
`Turns`: only the reader with the mutex works on the ring. `RingInv` measures
every counter by its distance ahead of `r_` and says that the slots between
`r_` and `w_` hold the messages published last. `SenderInv` is what the writer has
learned inside `push`. `ReaderInv` ties what callbacks were given to the cursor.
`CountInv`: the usage count of a published message is the number of readers that
have not finished with it; this is what makes "reached 0" and "last reader" one
event, although readers count down in any order. `ReleaseInv` names, for the
oldest slot, a reader that still has to come or the one about to release it, so
no slot leaks. `CountExact` and `FullMeansUnread` follow; neither is inductive,
since a release is decided by a count taken off one step earlier.

`LockProofs`, `RwLock`: a finite set of threads smaller than `WFlag`, so that the
count never carries into the flag.

- `TypeCorrect`: `Spec => []TypeOK`.
- `Exclusive`: `Spec => []MutualExclusion`.
- `Exact`: `Spec => [](TypeOK /\ WordExact)`.

`MutualExclusion` is not inductive: it says nothing of the word. `IInv` adds
that the word is the number of readers plus the flag of at most one owner
(`WordIs`, `OneWriter`), and that the owner is past its wait only when no
reader is left (`WriterAlone`). A reader enters by comparing with the current
word, so the flag alone keeps it out while the owner waits.

`LockProofs`, `RobustExclusiveLock`: any processes and files, any bound on deaths.

- `RobustTypeCorrect`, `ExclusiveByFile`, `FileRemoved`: `RobustTypeOK`,
  `ExclusiveWhilePathStays`, `NoFileLeft`.

`RobustInv` adds that a flock belongs to the process which holds its file open
(`FlocksHeld`), that all open files are the one the path leads to until a path is
removed (`OneFile`), and that a file with a path has a process on its way to the
removal unless one died (`Remover`): a flock that fails is held by another.

`ConnectionProofs` assumes `FewJoins`, except for types: a channel, and at most
`MaxCnt - 2` connects of senders in its life; any number of queues and bits.

- `TypeCorrect`: `ConnTypeOK`, for channels and routes and any number of connects.
- `OneReceiver`, `CountsReceiver`, `CountsConnected`: `SingleReceiver`,
  `ReceiverCounted`, `ConnectedIsCounted`.

The three are not inductive, since `disconnect` clears a bit that belongs to
another. `IInv` adds where bits and identifiers can be: senders have used only
the lowest `joins` bits (`LowBits`, `IdsByRole`), so no `disconnect` reaches the
last bit, which is handed out once (`ReceiverBit`); and the first bit is cleared
only by a receiver, whose own bit stays (`SomeBit`).

`WaiterProofs`: any threads, any bound on deaths.

- `Alone`, `WaitOnly`, `GivesBack`: `PredicateAlone`, `BrokenByWaitOnly`,
  `NothingKept`.

`IInv` ties the program counters to the owner (`OwnerInside`) and says who may hold
an inconsistent mutex: a thread about to repair it, or one on its way out of
`Condition::wait` (`InRepair`).

`HandleProofs`: any finite set of handles, any objects and deaths; one size
(`OneSize`), because `ftruncate` to another size cuts a count off.

- `TypeCorrect`: `Spec => []TypeOK`, for any sizes.
- `CountExactly`: `Spec => []RefExact`.
- `InBounds`, `LeavesNothing`, `Shared`: `MappedInBounds`, `NoLeftover`,
  `SharedByName`.

The invariant adds the types and what a handle's members are at each place
(`Shape`): a mapping excludes a descriptor and has the size asked for plus the
word of the count. The cardinality argument is that `AddRef` adds one holder and
`SubRef`, or a death, removes one. `NameInv` adds `Kept`: a name that is there has a
handle that maps its object or is about to, hence one that will count down to the
removal, unless a process died; two handles cannot both find themselves the
last, by `RefExact`. `Apart` describes the time before calls overlap: one handle at
a time is in a call and every mapping is of the object that the name leads to.

`FragmentProofs`: any sizes under `SizeAssumption` (the offset of the reference
count a multiple of the alignment, its word smaller than it), any threads,
fragments and messages, any finite set of readers.

- `AlignSize`, `Deadline`: what the two calculations of `Resource` give, for all
  natural arguments.
- `CountKept`: `Spec => []CountSafe`. The pool believes the count's word to be its
  own; allocations are multiples of the alignment and the word is too short for
  one.
- `TypeCorrect`, `KeepsMessages`, `RemembersMessages`: `TypeOK`, `Intact`, `Tracked`.

`Intact` is not inductive: whether a write hits an unread message depends on
where the pools of the same thread stand. `MemInv` adds that an unread message
not under a second pool (`Private`) lies below the top of the fragment that wrote
it, and that no other fragment of its thread is there (`Sole`); that exposed
messages are never in the same memory as private ones (`Distinct`); and that whole
messages do not share bytes (`NoShare`). The private messages of one memory thus
have one pool, whose top only grows.

`HeadProofs`: any queues, calls of `open` and deaths.

- `TypeCorrect`: `Spec => []TypeOK`, for channels and routes.
- `SettlesWhole`: `Spec => []Settles`.
- `UsableIfBuiltOnce`: `Spec => []Usable`, under `FewJoins`: a channel, and at most
  `MaxCnt - 2` connects of senders in all, so that the table counts them. `Usable`
  is a promise about segments that one queue built and nobody opened during
  their last close; of the others (`doubled`, `late`) it says nothing, because
  the code breaks them (section 3).

The two properties excuse different things and need two invariants. `BuiltOnce`
holds without `doubled` and `late`, whoever died: one queue builds, the flag is off
while it does, and who is past `open` finds it set. `Whole` holds without deaths
and late openers, even if the segment is built again and again: a member that a
second placement new undid has a builder on its way to make it again
(`FlagPending`, `CondPending`, `MutexPending`), hence `Settles`. Both need that the last user is
alone while it closes (`LastIsAlone`), and `Idle`, that only an open queue is
connected, which makes the reset of the table by a single builder harmless.

Only model-checked: liveness (`PollingDelivers`, `ReaderStops`, `OpenReturns` and the
like), which rests on fairness and `ENABLED` and is out of this prover's reach, and
the violations, which TLC finds. The integers of the calculations are
unbounded; that `size_t` and `time_t` do not overflow for sizes up to 1 GB and
times in use is taken for granted.

## 5. Not modelled, and the plan

Left out, and why:

- `Buffer`, `ScopeGuard`, `Callback`, error codes, logging: no shared state and one
  thread; the Windows variant of the lock file; the functions of `Resource` that
  build names.
- Callbacks other than `message_arrived`, and moves of `Ipc` objects and handles:
  they change nothing that another thread sees.
- Failures of `mmap` and `ftruncate`; `Ipc` takes the initialisation of its parts
  and the mapping of a sender's memory to succeed (`Fragment` has its failure).
- The order of memory accesses weaker than sequential consistency
  (`sync/RwLock.h:167`): the models interleave whole accesses.
- A process that dies inside `lcc_`: as for `lc_` in `Head`, everyone else spins.
- Readers that join or leave a route in operation: `recv_count` is wrong there in
  any case (section 3).

Work that remains, in order: the exact counts of a channel whose reader comes
after the first message, as far as they hold; `ConnectedIsCounted` for routes;
that `Handle` implements an abstract object with a name and a set of users, as a
refinement.
