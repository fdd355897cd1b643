------------------------------ MODULE Fragment ------------------------------
(***************************************************************************)
(* The memory that carries the messages (src/core/Fragment.hpp).  A sender *)
(* fragment maps shared memory named after the thread that made it and     *)
(* takes the messages from a monotonic pool laid over it; a reader maps    *)
(* the memory of a thread when a descriptor first names that thread, and   *)
(* keeps the mapping.                                                      *)
(*                                                                         *)
(* A fragment is a pair of its thread and a label: the fragments that one  *)
(* thread makes, one after the other or for several channels, all use the  *)
(* same name.  Calls of one thread do not overlap, and a message is not    *)
(* seen by others before its descriptor is pushed, so write is one step.   *)
(* An acquire or release of a handle is one step as well; module Handle    *)
(* has their steps and shows that the reference count is exact, so here it *)
(* is the number of users.  Names lead to one object at a time.            *)
(***************************************************************************)
EXTENDS Resource, FiniteSets

CONSTANTS
    Threads,        \* thread identifiers
    Copies,         \* names for the sender fragments of one thread
    Receivers,      \* receiver fragments
    Align,          \* alignof(std::max_align_t)
    CountBytes,     \* sizeof(uint32_t), the usage count before a message
    RefOffset,      \* DEFAULT_CACHE_SIZE: where Handle keeps its count
    RefBytes,       \* sizeof(info_t), that count
    Sizes,          \* the sizes of messages
    MaxMsgs         \* bound on the messages written

Senders  == Threads \X Copies
Messages == 1 .. MaxMsgs

ASSUME SizeAssumption ==
    /\ Align \in Nat \ {0} /\ CountBytes \in Nat \ {0} /\ RefBytes \in Nat
    /\ RefBytes < Align
    /\ RefOffset \in Nat /\ RefOffset % Align = 0
    /\ Sizes \subseteq Nat \ {0}
    /\ MaxMsgs \in Nat
    /\ IsFiniteSet(Receivers) /\ Receivers # {}

VARIABLES
    named,      \* the threads whose shared memory has its name
    heap,       \* heap[t]: the messages whose bytes are whole in t's memory
    pinned,     \* the threads whose memory a dead process still counts for
    opened,     \* the sender fragments that are initialised
    top,        \* how many bytes of each pool are used
    map,        \* map_: the messages each sender fragment keeps track of
    desc,       \* desc[m]: the descriptor of m, its size and its fragment
    count,      \* the usage count of each message; -1 stands for 2^32 - 1
    inbox,      \* the messages whose descriptor a reader has still to pop
    handles,    \* handles_: the threads whose memory a reader has mapped
    reading,    \* the message each reader is in read() with, 0 for none
    exposed     \* unread messages in memory that another pool lies over (history)

memVars  == <<named, heap, pinned, count>>
sendVars == <<opened, top, map, desc>>
readVars == <<inbox, handles, reading>>
vars     == <<memVars, sendVars, readVars, exposed>>

None    == 0
Written == DOMAIN desc

Init ==
    /\ named = {} /\ pinned = {} /\ opened = {}
    /\ heap = [t \in Threads |-> {}]
    /\ top = [s \in Senders |-> 0]
    /\ map = [s \in Senders |-> {}]
    /\ desc = <<>>
    /\ count = [m \in Messages |-> 0]
    /\ inbox = [r \in Receivers |-> {}]
    /\ handles = [r \in Receivers |-> {}]
    /\ reading = [r \in Receivers |-> None]
    /\ exposed = {}

\* The readers that have still to count m down, and the messages with any.
Pending(m) == {r \in Receivers : m \in inbox[r] \/ reading[r] = m}
Unread == {m \in Written : Pending(m) # {}}

\* A bug: every release unlinks.
ReleasedAlways(t, users) ==
    named' = named \ {t} /\ heap' = [heap EXCEPT ![t] = {}]

\* A release of t's memory with these users left unlinks it if there are none.
Released(t, users) ==
    IF users = {} /\ t \notin pinned
    THEN named' = named \ {t} /\ heap' = [heap EXCEPT ![t] = {}]
    ELSE UNCHANGED <<named, heap>>

SendersOf(t) == {s \in opened : s[1] = t}
ReadersOf(t) == {r \in Receivers : t \in handles[r]}

-----------------------------------------------------------------------------
(* Ipc::connect as a SENDER makes a fragment; its init() acquires the      *)
(* memory and starts a pool at its beginning.                              *)
SenderInit(s) ==
    /\ s \notin opened
    /\ opened' = opened \cup {s}
    /\ named' = named \cup {s[1]}
    /\ top' = [top EXCEPT ![s] = 0]
    /\ exposed' = exposed \cup {m \in Unread : desc[m].id = s[1]}
    /\ UNCHANGED <<heap, pinned, count, map, desc, readVars>>

\* The fragment is no more, and with it its pool and map_.
Gone(s) ==
    /\ opened' = opened \ {s}
    /\ top' = [top EXCEPT ![s] = 0]
    /\ map' = [map EXCEPT ![s] = {}]

\* The destructor; deallocate() of a monotonic pool does nothing.
SenderClose(s) ==
    /\ s \in opened
    /\ Gone(s)
    /\ Released(s[1], (SendersOf(s[1]) \ {s}) \cup ReadersOf(s[1]))
    /\ UNCHANGED <<pinned, count, desc, readVars, exposed>>

\* The sender's process dies: its reference to the memory stays counted.
SenderDies(s) ==
    /\ s \in opened
    /\ Gone(s)
    /\ pinned' = pinned \cup {s[1]}
    /\ UNCHANGED <<named, heap, count, desc, readVars, exposed>>

-----------------------------------------------------------------------------
\* What a load of the usage count at m's place may give: after its bytes were
\* overwritten, the count of the message that is there now, or anything.
Loads(m) ==
    LET at == {x \in heap[desc[m].id] : desc[x].offset = desc[m].offset}
    IN  IF at = {} THEN {0, 1} ELSE {count[x] : x \in at}

\* A bug: a message that one reader has still to read is forgotten.
recyle_memory_early(s, kept) ==
    /\ kept \subseteq map[s]
    /\ \A m \in map[s] : \E c \in Loads(m) : m \in kept <=> c > 1

\* recyle_memory(): map_ keeps the messages whose count is not 0.
recyle_memory(s, kept) ==
    /\ kept \subseteq map[s]
    /\ \A m \in map[s] : \E c \in Loads(m) : m \in kept <=> c # 0

\* A bug: the size is not rounded up.
PoolSizeUnaligned(n) == n + CountBytes

PoolSize(n) == align_size(n + CountBytes, Align)

\* monotonic_buffer_resource::allocate aligns its pointer and moves it on, or
\* throws when the buffer, the whole of the mapping, is used up.
Place(s) == align_size(top[s], Align)
Fits(s, n) == Place(s) + PoolSize(n) <= RefOffset + RefBytes

\* The first byte after a message, and whether two messages share bytes.
End(d) == d.offset + CountBytes + d.size
Overlap(d, e) == d.offset < End(e) /\ e.offset < End(d)

\* Another pool over the memory, or descriptors from one that readers still use.
Contended(s) ==
    \/ SendersOf(s[1]) # {s}
    \/ \E m \in exposed : desc[m].id = s[1]

\* Ipc::write of n bytes, when the ring accepts the descriptor and when not.
Write(s, n, accepted) ==
    LET m == Cardinality(Written) + 1
        d == [id |-> s[1], offset |-> Place(s), length |-> PoolSize(n), size |-> n, owner |-> s]
        t == s[1]
    IN  /\ s \in opened
        /\ m <= MaxMsgs
        /\ Fits(s, n)
        /\ \E kept \in SUBSET map[s] :
            /\ recyle_memory(s, kept)
            /\ map' = [map EXCEPT ![s] = kept \cup {m}]
        /\ top' = [top EXCEPT ![s] = d.offset + d.length]
        /\ desc' = [x \in Written \cup {m} |-> IF x = m THEN d ELSE desc[x]]
        /\ heap' = [heap EXCEPT ![t] = {x \in @ : ~Overlap(desc[x], d)} \cup {m}]
        /\ count' = [count EXCEPT ![m] = Cardinality(Receivers)]
        /\ inbox' = [r \in Receivers |-> IF accepted THEN inbox[r] \cup {m} ELSE inbox[r]]
        /\ exposed' = exposed \cup (IF accepted /\ Contended(s) THEN {m} ELSE {})
        /\ UNCHANGED <<named, pinned, opened, handles, reading>>

\* allocate() throws std::bad_alloc out of Ipc::write.
WriteThrows(s, n) ==
    /\ s \in opened
    /\ ~Fits(s, n)
    /\ \E kept \in SUBSET map[s] :
        /\ recyle_memory(s, kept)
        /\ map' = [map EXCEPT ![s] = kept]
    /\ UNCHANGED <<memVars, opened, top, desc, readVars, exposed>>

-----------------------------------------------------------------------------
\* get_handle(): the mapping kept from before, or one of the name as it is now.
ReadOpen(r, m) ==
    /\ reading[r] = None /\ m \in inbox[r]
    /\ desc[m].id \in handles[r] \cup named
    /\ inbox' = [inbox EXCEPT ![r] = @ \ {m}]
    /\ handles' = [handles EXCEPT ![r] = @ \cup {desc[m].id}]
    /\ reading' = [reading EXCEPT ![r] = m]
    /\ UNCHANGED <<memVars, sendVars, exposed>>

\* There is nothing of that name: read() answers false and the message is gone.
ReadFails(r, m) ==
    /\ reading[r] = None /\ m \in inbox[r]
    /\ desc[m].id \notin handles[r] \cup named
    /\ inbox' = [inbox EXCEPT ![r] = @ \ {m}]
    /\ UNCHANGED <<memVars, sendVars, handles, reading>>
    /\ exposed' = exposed \cap Unread'

\* The callback has returned: fetch_sub on the word at the descriptor's offset,
\* whatever is there now.
ReadCountDown(r) ==
    LET d == desc[reading[r]]
        here == {x \in heap[d.id] : desc[x].offset = d.offset}
        hit  == {x \in heap[d.id] : desc[x].offset < d.offset + CountBytes /\ d.offset < End(desc[x])}
    IN  /\ reading[r] # None
        /\ reading' = [reading EXCEPT ![r] = None]
        /\ count' = [x \in Messages |-> IF x \in here THEN count[x] - 1 ELSE count[x]]
        /\ heap' = [heap EXCEPT ![d.id] = @ \ (hit \ here)]
        /\ UNCHANGED <<named, pinned, sendVars, inbox, handles>>
        /\ exposed' = exposed \cap Unread'

\* A bug: the last reader to let go of the memory unlinks it.
ReceiverResetUnlinks(r) ==
    /\ reading[r] = None /\ handles[r] # {}
    /\ handles' = [handles EXCEPT ![r] = {}]
    /\ LET gone == {t \in handles[r] : ReadersOf(t) = {r}}
       IN  /\ named' = named \ gone
           /\ heap' = [t \in Threads |-> IF t \in gone THEN {} ELSE heap[t]]
    /\ UNCHANGED <<pinned, count, sendVars, inbox, reading, exposed>>

\* Ipc::connect as a RECEIVER replaces the fragment: the mappings are released.
ReceiverReset(r) ==
    /\ reading[r] = None /\ handles[r] # {}
    /\ handles' = [handles EXCEPT ![r] = {}]
    /\ LET gone == {t \in handles[r] \ pinned : SendersOf(t) = {} /\ ReadersOf(t) = {r}}
       IN  /\ named' = named \ gone
           /\ heap' = [t \in Threads |-> IF t \in gone THEN {} ELSE heap[t]]
    /\ UNCHANGED <<pinned, count, sendVars, inbox, reading, exposed>>

Next ==
    \/ \E s \in Senders :
        \/ SenderInit(s) \/ SenderClose(s) \/ SenderDies(s)
        \/ \E n \in Sizes, accepted \in BOOLEAN : Write(s, n, accepted)
        \/ \E n \in Sizes : WriteThrows(s, n)
    \/ \E r \in Receivers :
        \/ ReadCountDown(r) \/ ReceiverReset(r)
        \/ \E m \in Written : ReadOpen(r, m) \/ ReadFails(r, m)

Spec == Init /\ [][Next]_vars

-----------------------------------------------------------------------------
Descriptors ==
    [id : Threads, offset : Nat, length : Nat, size : Sizes, owner : Senders]

TypeOK ==
    /\ named \subseteq Threads /\ pinned \subseteq named
    /\ heap \in [Threads -> SUBSET Messages]
    /\ opened \subseteq Senders
    /\ top \in [Senders -> Nat]
    /\ map \in [Senders -> SUBSET Messages]
    /\ Written \subseteq Messages /\ desc \in [Written -> Descriptors]
    /\ count \in [Messages -> Int]
    /\ inbox \in [Receivers -> SUBSET Written]
    /\ handles \in [Receivers -> SUBSET named]
    /\ reading \in [Receivers -> Written \cup {None}]
    /\ exposed \subseteq Unread

(* The pool is given the whole mapping, the word with the reference count   *)
(* of the handles included; no message ever reaches that word, even when    *)
(* the pool is used to its end, because sizes are rounded up.               *)
CountSafe == \A m \in Written : desc[m].offset + desc[m].length <= RefOffset

(* A message keeps its bytes until its last reader has counted it down,     *)
(* whether or not the sender is alive, unless it is exposed: a fragment of  *)
(* the same thread put another pool over the memory.  Its memory goes only  *)
(* when its fragment was destroyed before any of these readers mapped it,   *)
(* never while the fragment is open or because its process died.            *)
Intact ==
    \A m \in Unread \ exposed :
        LET t == desc[m].id
        IN  \/ m \in heap[t] /\ t \in named
            \/ /\ desc[m].owner \notin opened
               /\ \A r \in Pending(m) : t \notin handles[r]
               /\ t \notin named

(* recyle_memory() forgets a message only after every reader has counted it *)
(* down: while a reader has still to read it, its sender keeps track of it  *)
(* and the count is the number of readers to come.                          *)
Tracked ==
    \A m \in Unread \ exposed :
        desc[m].owner \in opened =>
            /\ m \in map[desc[m].owner]
            /\ count[m] = Cardinality(Pending(m))
=============================================================================
