----------------------------- MODULE HeadProofs -----------------------------
(***************************************************************************)
(* Proofs about opening and closing a segment (Head.tla), for every number *)
(* of processes, of calls of open and of deaths.                           *)
(*                                                                         *)
(* Two invariants stand side by side, since the code makes two promises.   *)
(* BuiltOnce is about a segment that was built once, whoever died in it;   *)
(* Whole is about one that nobody died in, even if it was built twice.     *)
(***************************************************************************)
EXTENDS Head, FiniteSetTheorems, TLAPS

Table == INSTANCE ConnectionProofs

\* Fewer senders connect than a channel has bits for them.
FewJoins == ~Broadcast /\ MaxJoins <= MaxCnt - 2

At(S) == \E p \in Ports : pc[p] \in S

\* Where a queue has found or made the segment.
Done == {"open", "unlock", "leave"} \cup Closing

Places == {"closed", "open"} \cup Opening \cup Closing

\* Only an open queue is connected.
Idle == \A p \in Ports : connected_id[p] # 0 => pc[p] = "open"

Alone(p) == ~pinned /\ \A q \in Ports \ {p} : pc[q] = "closed"

\* Who found itself the last user is alone, and stays so.
LastIsAlone == \A p \in Ports : pc[p] \in {"last", "closed waiter"} => Alone(p)

Fresh == marks \cap {"doubled", "late"} = {}

\* The members of a segment with one builder, between placement new and close.
OneBuilder ==
    /\ \A p, q \in Ports : pc[p] \in Building /\ pc[q] \in Building => p = q
    /\ At(Building) => ~constructed
    /\ At(Done) => constructed

\* The waiter is complete.
Equipped == "cond" \in waiter /\ "mutex" \in waiter

Complete ==
    /\ constructed => Equipped \/ At({"closed waiter"})
    /\ At({"mutex"}) => "cond" \in waiter
    /\ At({"publish"}) => Equipped

BuiltOnce == Fresh => OneBuilder /\ Complete /\ LastIsAlone

\* A builder whose placement new has wiped waiter_ and is not through.
Wiped == {"table", "lock", "flag"}

\* A later builder may undo a member, but then it has yet to make it again.
LockHeld == lc = 1 => At(Locked)
FlagPending == At(Done) => constructed \/ At(Building)
CondPending ==
    constructed \/ At(Done) \/ At({"mutex", "publish"})
        => "cond" \in waiter \/ At(Wiped \cup {"cond", "closed waiter"})
MutexPending ==
    constructed \/ At(Done) \/ At({"publish"})
        => "mutex" \in waiter \/ At(Wiped \cup {"cond", "mutex", "closed waiter"})

Whole ==
    marks \subseteq {"doubled"}
        => LockHeld /\ FlagPending /\ CondPending /\ MutexPending /\ LastIsAlone

IInv == TypeOK /\ Idle /\ BuiltOnce /\ Whole

\* The table, unless it was reset under the queues that are connected.
TableInv == Fresh => Table!IInv

-----------------------------------------------------------------------------
(* The table of connections, under the lemmas of ConnectionProofs.          *)

(* The two instances of the table are the same.                             *)
LEMMA SameTable ==
    /\ \A p, m : Conn!Connect(p, m) <=> Table!Connect(p, m)
    /\ \A p : Conn!Disconnect(p) <=> Table!Disconnect(p)
    /\ Conn!ConnInit <=> Table!ConnInit
    /\ Conn!ConnTypeOK <=> Table!ConnTypeOK
    /\ Conn!SENDER = Table!SENDER /\ Conn!RECEIVER = Table!RECEIVER
    /\ Conn!ConnectedIsCounted <=> Table!ConnectedIsCounted
<1>1. ASSUME NEW m PROVE Conn!NewId(m) = Table!NewId(m)
  <2>1. ASSUME NEW lo, NEW hi PROVE Conn!FirstFree(lo, hi) = Table!FirstFree(lo, hi)
    BY Zenon DEF Conn!FirstFree, Table!FirstFree, Conn!Bit, Table!Bit, Conn!Min, Table!Min
  <2> QED
    BY <2>1, Zenon DEF Conn!NewId, Table!NewId, Conn!UnicastId, Table!UnicastId,
          Conn!BroadcastId, Table!BroadcastId, Conn!SENDER, Table!SENDER,
          Conn!RECEIVER, Table!RECEIVER
<1>2. ASSUME NEW m, NEW id PROVE Conn!BitsTaken(m, id) = Table!BitsTaken(m, id)
  BY Zenon DEF Conn!BitsTaken, Table!BitsTaken, Conn!Bit, Table!Bit, Conn!SENDER, Table!SENDER
<1>3. ASSUME NEW p, NEW m PROVE Conn!Connect(p, m) <=> Table!Connect(p, m)
  BY <1>1, <1>2, Zenon DEF Conn!Connect, Table!Connect, Conn!SENDER, Table!SENDER
<1>4. ASSUME NEW p PROVE Conn!Disconnect(p) <=> Table!Disconnect(p)
  BY Zenon DEF Conn!Disconnect, Table!Disconnect, Conn!BitCleared, Table!BitCleared,
        Conn!Bit, Table!Bit
<1>5. Conn!ConnInit <=> Table!ConnInit
  BY Zenon DEF Conn!ConnInit, Table!ConnInit
<1>6. Conn!ConnTypeOK <=> Table!ConnTypeOK
  BY Zenon DEF Conn!ConnTypeOK, Table!ConnTypeOK, Conn!Bits, Table!Bits,
        Conn!SENDER, Table!SENDER, Conn!RECEIVER, Table!RECEIVER
<1>7. Conn!SENDER = Table!SENDER /\ Conn!RECEIVER = Table!RECEIVER
  BY DEF Conn!SENDER, Table!SENDER, Conn!RECEIVER, Table!RECEIVER
<1>8. Conn!ConnectedIsCounted <=> Table!ConnectedIsCounted
  <2>1. \A S : Conn!IsFiniteSet(S) <=> Table!IsFiniteSet(S)
    BY Zenon DEF Conn!IsFiniteSet, Table!IsFiniteSet
  <2>2. Conn!connections = Table!connections
    BY <2>1, Zenon DEF Conn!connections, Table!connections,
          Conn!Cardinality, Table!Cardinality
  <2> QED
    BY <2>2, Zenon DEF Conn!ConnectedIsCounted, Table!ConnectedIsCounted
<1> QED
  BY <1>3, <1>4, <1>5, <1>6, <1>7, <1>8, Zenon

(* connect and disconnect keep the types.                                   *)
LEMMA UseTypes ==
    ASSUME TypeOK, NEW p \in Ports, Use(p)
    PROVE  Conn!ConnTypeOK'
<1>1. Table!ConnTypeOK
  BY SameTable DEF TypeOK
<1>2. (\E m \in {Table!SENDER, Table!RECEIVER} : Table!Connect(p, m)) \/ Table!Disconnect(p)
  BY SameTable, Zenon DEF Use
<1>3. Table!ConnTypeOK'
  BY <1>1, <1>2, Table!StepTypes, CountAssumption, JoinsAssumption
<1> QED
  BY <1>3 DEF Conn!ConnTypeOK, Table!ConnTypeOK, Conn!Bits, Table!Bits,
        Conn!SENDER, Table!SENDER, Conn!RECEIVER, Table!RECEIVER

(* What the other steps do to the table keeps its types.                    *)
LEMMA TableTypes ==
    ASSUME Conn!ConnTypeOK, cc' = cc \/ cc' = {}, role' = role, joins' = joins,
           connected_id' = connected_id
             \/ \E p \in Ports : connected_id' = [connected_id EXCEPT ![p] = 0]
    PROVE  Conn!ConnTypeOK'
BY CountAssumption DEF Conn!ConnTypeOK

-----------------------------------------------------------------------------
(* Every step keeps the types.                                              *)
LEMMA StepTypes ==
    ASSUME TypeOK, NEW p \in Ports,
           Acquire(p) \/ Step(p) \/ Use(p) \/ CloseCheck(p) \/ Die(p)
    PROVE  TypeOK'
<1> USE DEF Opening, Closing, Locked, Building, Ready
<1>1. CASE Acquire(p)
  <2>1. Conn!ConnTypeOK'
    BY <1>1, TableTypes DEF Acquire, TypeOK, connVars
  <2>2. marks' \subseteq {"doubled", "late", "locked", "unfinished"}
    BY <1>1 DEF Acquire, TypeOK, Mark
  <2>3. opens' \in 0 .. MaxOpens
    <3>1. opens \in 0 .. MaxOpens
      BY Zenon DEF TypeOK
    <3>2. opens < MaxOpens /\ opens' = opens + 1
      BY <1>1, Zenon DEF Acquire
    <3> QED
      BY <3>1, <3>2, HeadAssumption
  <2>4. pc' \in [Ports -> {"closed", "open"} \cup Opening \cup Closing]
    BY <1>1 DEF Acquire, TypeOK, Goto
  <2>5. /\ constructed' = constructed /\ lc' = lc /\ waiter' = waiter /\ pinned' = pinned
        /\ deaths' = deaths
    BY <1>1 DEF Acquire, memVars
  <2> QED
    BY <2>1, <2>2, <2>3, <2>4, <2>5, Zenon DEF TypeOK
<1>2. CASE Step(p) /\ ~Release(p)
  <2>1. /\ Conn!ConnTypeOK' /\ pinned' = pinned /\ opens' = opens /\ deaths' = deaths
    BY <1>2, TableTypes DEF Step, TypeOK, connVars, memVars, bounds, Check, SpinLock, Recheck,
         Construct, ResetTable, ResetLock, ResetFlag, CondInit, MutexInit, Publish, Unlock, CloseWaiter
  <2>2. /\ constructed' \in BOOLEAN /\ lc' \in {0, 1} /\ waiter' \subseteq Ready
    BY <1>2 DEF Step, TypeOK, connVars, memVars, Check, SpinLock, Recheck,
         Construct, ResetTable, ResetLock, ResetFlag, CondInit, MutexInit, Publish, Unlock, CloseWaiter
  <2>3. marks' \subseteq {"doubled", "late", "locked", "unfinished"}
    BY <1>2 DEF Step, TypeOK, Mark, Check, SpinLock, Recheck,
         Construct, ResetTable, ResetLock, ResetFlag, CondInit, MutexInit, Publish, Unlock, CloseWaiter
  <2>4. pc' \in [Ports -> {"closed", "open"} \cup Opening \cup Closing]
    <3>1. \E l \in {"closed", "open"} \cup Opening \cup Closing : Goto(p, l)
      BY <1>2 DEF Step, Check, SpinLock, Recheck,
           Construct, ResetTable, ResetLock, ResetFlag, CondInit, MutexInit, Publish, Unlock, CloseWaiter
    <3> QED
      BY <3>1 DEF Goto, TypeOK
  <2> QED
    BY <2>1, <2>2, <2>3, <2>4 DEF TypeOK
<1>3. CASE Release(p)
  <2>1. Conn!ConnTypeOK'
    BY <1>3, TableTypes DEF Release, TypeOK, memVars
  <2>2. /\ constructed' \in BOOLEAN /\ lc' \in {0, 1} /\ waiter' \subseteq Ready
        /\ marks' \subseteq {"doubled", "late", "locked", "unfinished"}
    BY <1>3 DEF Release, TypeOK, memVars
  <2> QED
    BY <1>3, <2>1, <2>2 DEF Release, TypeOK, Goto, bounds
<1>4. CASE Use(p)
  BY <1>4, UseTypes DEF Use, TypeOK, memVars, bounds
<1>5. CASE CloseCheck(p)
  <2>1. Conn!ConnTypeOK'
    BY <1>5, TableTypes DEF CloseCheck, TypeOK, connVars
  <2> QED
    BY <1>5, <2>1 DEF CloseCheck, TypeOK, Goto, memVars, bounds
<1>6. CASE Die(p)
  <2>1. Conn!ConnTypeOK'
    BY <1>6, TableTypes DEF Die, TypeOK
  <2>2. marks' \subseteq {"doubled", "late", "locked", "unfinished"}
    BY <1>6, Zenon DEF Die, TypeOK
  <2>3. deaths' \in 0 .. MaxDeaths
    <3>1. deaths \in 0 .. MaxDeaths
      BY Zenon DEF TypeOK
    <3>2. deaths < MaxDeaths /\ deaths' = deaths + 1
      BY <1>6, Zenon DEF Die
    <3> QED
      BY <3>1, <3>2, HeadAssumption
  <2>4. pc' \in [Ports -> {"closed", "open"} \cup Opening \cup Closing]
    BY <1>6 DEF Die, TypeOK, Goto
  <2>5. /\ constructed' = constructed /\ lc' = lc /\ waiter' = waiter /\ pinned' \in BOOLEAN
        /\ opens' = opens
    BY <1>6 DEF Die, memVars
  <2> QED
    BY <2>1, <2>2, <2>3, <2>4, <2>5, Zenon DEF TypeOK
<1> QED
  BY <1>1, <1>2, <1>3, <1>4, <1>5, <1>6 DEF Step

(* No step at all keeps them, too.                                          *)
LEMMA StutterTypes == TypeOK /\ UNCHANGED vars => TypeOK'
<1> SUFFICES ASSUME TypeOK, UNCHANGED vars PROVE TypeOK'
  OBVIOUS
<1>1. Conn!ConnTypeOK'
  BY TableTypes DEF TypeOK, vars, connVars
<1> QED
  BY <1>1 DEF TypeOK, vars, connVars, memVars, bounds

(* A segment that nobody has opened.                                        *)
LEMMA InitTypes == Init => TypeOK
<1> SUFFICES ASSUME Init PROVE TypeOK
  OBVIOUS
<1>1. Conn!ConnTypeOK
  BY CountAssumption, JoinsAssumption DEF Init, Conn!ConnInit, Conn!ConnTypeOK
<1>2. 0 \in 0 .. MaxOpens /\ 0 \in 0 .. MaxDeaths
  BY HeadAssumption
<1> QED
  BY <1>1, <1>2, Zenon DEF Init, TypeOK

(* The members of the segment, the table and the places of the queues keep  *)
(* their types, whoever opens, closes or dies.                              *)
THEOREM TypeCorrect == Spec => []TypeOK
<1>1. TypeOK /\ [Next]_vars => TypeOK'
  BY StepTypes, StutterTypes DEF Next
<1> QED
  BY <1>1, InitTypes, PTL DEF Spec


-----------------------------------------------------------------------------
(* A queue is alone in the sense of ~QueueBase.                             *)
LEMMA AloneIsUsers ==
    ASSUME NEW p \in Ports, pc[p] # "closed"
    PROVE  Users = {p} /\ ~pinned <=> Alone(p)
BY DEF Users, Alone

\* p, and no other queue, moves from a place in From to one in To.
Turn(p, From, To) ==
    /\ pc[p] \in From /\ pc'[p] \in To
    /\ \A q \in Ports : q # p => pc'[q] = pc[q]

(* A step of one queue moves that queue only.                               *)
LEMMA Moved ==
    ASSUME TypeOK, NEW p \in Ports, NEW l, Goto(p, l)
    PROVE  Turn(p, {pc[p]}, {l})
BY DEF TypeOK, Goto, Turn

(* Nothing is connected before open returns or after the destructor began.  *)
LEMMA IdleStep ==
    ASSUME TypeOK, Idle, NEW p \in Ports,
           Acquire(p) \/ Step(p) \/ Use(p) \/ CloseCheck(p) \/ Die(p)
    PROVE  Idle'
<1> USE DEF Idle
<1>1. CASE Use(p)
  <2>1. connected_id \in [Ports -> 0 .. MaxCnt]
    BY DEF TypeOK, Conn!ConnTypeOK
  <2> QED
    BY <1>1, <2>1 DEF Use, Conn!Connect, Conn!Disconnect
<1>2. CASE Acquire(p) \/ CloseCheck(p) \/ Step(p)
  <2>1. connected_id' = connected_id /\ connected_id[p] = 0
    BY <1>2 DEF Step, Acquire, CloseCheck, Check, SpinLock, Recheck, Construct,
         ResetTable, ResetLock, ResetFlag, CondInit, MutexInit, Publish, Unlock, CloseWaiter, Release, connVars
  <2>2. \E l : Goto(p, l)
    BY <1>2 DEF Step, Acquire, CloseCheck, Check, SpinLock, Recheck, Construct,
         ResetTable, ResetLock, ResetFlag, CondInit, MutexInit, Publish, Unlock, CloseWaiter, Release
  <2> QED
    BY <2>1, <2>2, Moved DEF Turn
<1>3. CASE Die(p)
  <2>1. connected_id' = [connected_id EXCEPT ![p] = 0] /\ Goto(p, "closed")
    BY <1>3 DEF Die
  <2>2. connected_id \in [Ports -> 0 .. MaxCnt]
    BY DEF TypeOK, Conn!ConnTypeOK
  <2> QED
    BY <2>1, <2>2, Moved DEF Turn
<1> QED
  BY <1>1, <1>2, <1>3

-----------------------------------------------------------------------------
\* A step of p that does not remove the memory.
Stays(p) ==
    /\ Acquire(p) \/ Step(p) \/ Use(p) \/ CloseCheck(p) \/ Die(p)
    /\ Release(p) => ~Alone(p)

(* What each step does to the place of its queue and to the members.        *)
LEMMA Effects ==
    ASSUME TypeOK, NEW p \in Ports
    PROVE  /\ Acquire(p) => Turn(p, {"closed"}, {"check"}) /\ UNCHANGED memVars
           /\ Check(p) =>
                Turn(p, {"check"}, {IF constructed THEN "open" ELSE "spin"})
                /\ UNCHANGED memVars
           /\ SpinLock(p) =>
                Turn(p, {"spin"}, {"recheck"}) /\ UNCHANGED <<constructed, waiter>>
           /\ Recheck(p) =>
                Turn(p, {"recheck"}, {IF constructed THEN "leave" ELSE "construct"})
                /\ UNCHANGED memVars
           /\ Construct(p) =>
                Turn(p, {"construct"}, {"table"}) /\ UNCHANGED <<constructed, lc>>
                /\ waiter' = {}
           /\ ResetTable(p) =>
                Turn(p, {"table"}, {"lock"}) /\ UNCHANGED memVars
           /\ ResetLock(p) =>
                Turn(p, {"lock"}, {"flag"}) /\ lc' # 1
                /\ UNCHANGED <<constructed, waiter>>
           /\ ResetFlag(p) =>
                Turn(p, {"flag"}, {"cond"}) /\ ~constructed'
                /\ UNCHANGED <<lc, waiter>>
           /\ CondInit(p) =>
                Turn(p, {"cond"}, {"mutex"}) /\ UNCHANGED <<constructed, lc>>
                /\ waiter' = waiter \cup {"cond"}
           /\ MutexInit(p) =>
                Turn(p, {"mutex"}, {"publish"}) /\ UNCHANGED <<constructed, lc>>
                /\ waiter' = waiter \cup {"mutex"}
           /\ Publish(p) =>
                Turn(p, {"publish"}, {"unlock"}) /\ constructed' /\ UNCHANGED <<lc, waiter>>
           /\ Unlock(p) =>
                Turn(p, {"unlock", "leave"}, {"open"}) /\ lc' # 1
                /\ UNCHANGED <<constructed, waiter>>
           /\ CloseCheck(p) =>
                Turn(p, {"open"}, {"last", "release"}) /\ UNCHANGED memVars
           /\ CloseWaiter(p) =>
                Turn(p, {"last"}, {"closed waiter"}) /\ UNCHANGED <<constructed, lc>>
                /\ waiter' = {}
           /\ Release(p) /\ ~Alone(p) =>
                Turn(p, {"release", "closed waiter"}, {"closed"}) /\ UNCHANGED memVars
           /\ Die(p) => Turn(p, Places \ {"closed"}, {"closed"}) /\ UNCHANGED memVars
<1> USE DEF memVars
<1>1. Acquire(p) => Turn(p, {"closed"}, {"check"}) /\ UNCHANGED memVars
  BY Moved, AloneIsUsers DEF Acquire, Turn, Places, TypeOK
<1>2. Check(p) =>
           Turn(p, {"check"}, {IF constructed THEN "open" ELSE "spin"})
           /\ UNCHANGED memVars
  BY Moved, AloneIsUsers DEF Check, Turn, Places, TypeOK
<1>3. SpinLock(p) =>
           Turn(p, {"spin"}, {"recheck"}) /\ UNCHANGED <<constructed, waiter>>
  BY Moved, AloneIsUsers DEF SpinLock, Turn, Places, TypeOK
<1>4. Recheck(p) =>
           Turn(p, {"recheck"}, {IF constructed THEN "leave" ELSE "construct"})
           /\ UNCHANGED memVars
  BY Moved, AloneIsUsers DEF Recheck, Turn, Places, TypeOK
<1>5. Construct(p) =>
           Turn(p, {"construct"}, {"table"}) /\ UNCHANGED <<constructed, lc>>
           /\ waiter' = {}
  BY Moved, AloneIsUsers DEF Construct, Turn, Places, TypeOK
<1>6. CondInit(p) =>
           Turn(p, {"cond"}, {"mutex"}) /\ UNCHANGED <<constructed, lc>>
           /\ waiter' = waiter \cup {"cond"}
  BY Moved, AloneIsUsers DEF CondInit, Turn, Places, TypeOK
<1>7. MutexInit(p) =>
           Turn(p, {"mutex"}, {"publish"}) /\ UNCHANGED <<constructed, lc>>
           /\ waiter' = waiter \cup {"mutex"}
  BY Moved, AloneIsUsers DEF MutexInit, Turn, Places, TypeOK
<1>8. Publish(p) =>
           Turn(p, {"publish"}, {"unlock"}) /\ constructed' /\ UNCHANGED <<lc, waiter>>
  BY Moved, AloneIsUsers DEF Publish, Turn, Places, TypeOK
<1>9. Unlock(p) =>
           Turn(p, {"unlock", "leave"}, {"open"}) /\ lc' # 1
           /\ UNCHANGED <<constructed, waiter>>
  BY Moved, AloneIsUsers DEF Unlock, Turn, Places, TypeOK
<1>10. CloseCheck(p) =>
           Turn(p, {"open"}, {"last", "release"}) /\ UNCHANGED memVars
  BY Moved, AloneIsUsers DEF CloseCheck, Turn, Places, TypeOK
<1>11. CloseWaiter(p) =>
           Turn(p, {"last"}, {"closed waiter"}) /\ UNCHANGED <<constructed, lc>>
           /\ waiter' = {}
  BY Moved, AloneIsUsers DEF CloseWaiter, Turn, Places, TypeOK
<1>12. Release(p) /\ ~Alone(p) =>
           Turn(p, {"release", "closed waiter"}, {"closed"}) /\ UNCHANGED memVars
  BY Moved, AloneIsUsers DEF Release, Turn, Places, TypeOK
<1>13. Die(p) => Turn(p, Places \ {"closed"}, {"closed"}) /\ UNCHANGED memVars
  BY Moved, AloneIsUsers DEF Die, Turn, Places, TypeOK
<1>14. ResetTable(p) =>
           Turn(p, {"table"}, {"lock"}) /\ UNCHANGED memVars
  BY Moved, AloneIsUsers DEF ResetTable, Turn, Places, TypeOK
<1>15. ResetLock(p) =>
           Turn(p, {"lock"}, {"flag"}) /\ lc' # 1
           /\ UNCHANGED <<constructed, waiter>>
  BY Moved, AloneIsUsers DEF ResetLock, Turn, Places, TypeOK
<1>16. ResetFlag(p) =>
           Turn(p, {"flag"}, {"cond"}) /\ ~constructed'
           /\ UNCHANGED <<lc, waiter>>
  BY Moved, AloneIsUsers DEF ResetFlag, Turn, Places, TypeOK
<1> QED
  BY <1>1, <1>2, <1>3, <1>4, <1>5, <1>6, <1>7, <1>8, <1>9, <1>10, <1>11, <1>12, <1>13,
     <1>14, <1>15, <1>16

(* A segment that one queue builds stays complete until its removal.        *)
LEMMA BuiltStep ==
    ASSUME TypeOK, NEW p \in Ports, Stays(p), OneBuilder, Complete, LastIsAlone,
           Fresh'
    PROVE  (OneBuilder /\ Complete)'
<1> USE DEF Done, Closing, Locked, Building, At, Turn, memVars
<1>1. CASE Acquire(p)
  <2>1. OneBuilder'
    BY <1>1, Effects DEF OneBuilder, Complete, Equipped, LastIsAlone
  <2>2. Complete'
    BY <1>1, Effects DEF OneBuilder, Complete, Equipped, LastIsAlone
  <2> QED
    BY <2>1, <2>2
<1>2. CASE Check(p)
  <2>1. OneBuilder'
    BY <1>2, Effects DEF OneBuilder, Complete, Equipped, LastIsAlone
  <2>2. Complete'
    BY <1>2, Effects DEF OneBuilder, Complete, Equipped, LastIsAlone
  <2> QED
    BY <2>1, <2>2
<1>3. CASE SpinLock(p)
  <2>1. OneBuilder'
    BY <1>3, Effects DEF OneBuilder, Complete, Equipped, LastIsAlone
  <2>2. Complete'
    BY <1>3, Effects DEF OneBuilder, Complete, Equipped, LastIsAlone
  <2> QED
    BY <2>1, <2>2
<1>4. CASE Recheck(p)
  <2>1. OneBuilder'
    BY <1>4, Effects DEF OneBuilder, Complete, Equipped, LastIsAlone, Recheck, Mark, Fresh
  <2>2. Complete'
    BY <1>4, Effects DEF OneBuilder, Complete, Equipped, LastIsAlone, Recheck, Mark, Fresh
  <2> QED
    BY <2>1, <2>2
<1>5. CASE Construct(p)
  <2>1. OneBuilder'
    BY <1>5, Effects DEF OneBuilder, Complete, Equipped, LastIsAlone
  <2>2. \A q \in Ports : pc'[q] \notin {"mutex", "publish"}
    <3>1. Turn(p, {"construct"}, {"table"})
      BY <1>5, Effects
    <3>2. \A q \in Ports : q # p => pc[q] \notin {"mutex", "publish"}
      BY <3>1 DEF OneBuilder
    <3> QED
      BY <3>1, <3>2
  <2>3. ~constructed'
    BY <1>5, Effects DEF OneBuilder
  <2>4. Complete'
    BY <2>2, <2>3 DEF Complete
  <2> QED
    BY <2>1, <2>4
<1>6. CASE CondInit(p)
  <2>1. OneBuilder'
    BY <1>6, Effects DEF OneBuilder, Complete, Equipped, LastIsAlone
  <2>2. Complete'
    BY <1>6, Effects DEF OneBuilder, Complete, Equipped, LastIsAlone
  <2> QED
    BY <2>1, <2>2
<1>7. CASE MutexInit(p)
  <2>1. OneBuilder'
    BY <1>7, Effects DEF OneBuilder, Complete, Equipped, LastIsAlone
  <2>2. Complete'
    BY <1>7, Effects DEF OneBuilder, Complete, Equipped, LastIsAlone
  <2> QED
    BY <2>1, <2>2
<1>8. CASE Publish(p)
  <2>1. OneBuilder'
    BY <1>8, Effects DEF OneBuilder, Complete, Equipped, LastIsAlone
  <2>2. Complete'
    BY <1>8, Effects DEF OneBuilder, Complete, Equipped, LastIsAlone
  <2> QED
    BY <2>1, <2>2
<1>9. CASE Unlock(p)
  <2>1. OneBuilder'
    BY <1>9, Effects DEF OneBuilder, Complete, Equipped, LastIsAlone
  <2>2. Complete'
    BY <1>9, Effects DEF OneBuilder, Complete, Equipped, LastIsAlone
  <2> QED
    BY <2>1, <2>2
<1>10. CASE CloseCheck(p)
  <2>1. OneBuilder'
    BY <1>10, Effects DEF OneBuilder, Complete, Equipped, LastIsAlone
  <2>2. Complete'
    BY <1>10, Effects DEF OneBuilder, Complete, Equipped, LastIsAlone
  <2> QED
    BY <2>1, <2>2
<1>11. CASE CloseWaiter(p)
  <2>1. OneBuilder'
    BY <1>11, Effects DEF OneBuilder, Complete, Equipped, LastIsAlone, Alone
  <2>2. Complete'
    BY <1>11, Effects DEF OneBuilder, Complete, Equipped, LastIsAlone, Alone
  <2> QED
    BY <2>1, <2>2
<1>12. CASE Release(p)
  <2>1. OneBuilder'
    BY <1>12, Effects DEF OneBuilder, Complete, Equipped, LastIsAlone, Alone, Stays
  <2>2. Complete'
    BY <1>12, Effects DEF OneBuilder, Complete, Equipped, LastIsAlone, Alone, Stays
  <2> QED
    BY <2>1, <2>2
<1>13. CASE Die(p)
  <2>1. OneBuilder'
    BY <1>13, Effects DEF OneBuilder, Complete, Equipped, LastIsAlone, Die, Fresh, Alone
  <2>2. Complete'
    BY <1>13, Effects DEF OneBuilder, Complete, Equipped, LastIsAlone, Die, Fresh, Alone
  <2> QED
    BY <2>1, <2>2
<1>14. CASE Use(p)
  <2>1. OneBuilder'
    BY <1>14 DEF OneBuilder, Complete, Equipped, LastIsAlone, Use
  <2>2. Complete'
    BY <1>14 DEF OneBuilder, Complete, Equipped, LastIsAlone, Use
  <2> QED
    BY <2>1, <2>2
<1>15. CASE ResetTable(p)
  <2>1. OneBuilder'
    BY <1>15, Effects DEF OneBuilder, Complete, Equipped, LastIsAlone
  <2>2. Complete'
    BY <1>15, Effects DEF OneBuilder, Complete, Equipped, LastIsAlone
  <2> QED
    BY <2>1, <2>2
<1>16. CASE ResetLock(p)
  <2>1. OneBuilder'
    BY <1>16, Effects DEF OneBuilder, Complete, Equipped, LastIsAlone
  <2>2. Complete'
    BY <1>16, Effects DEF OneBuilder, Complete, Equipped, LastIsAlone
  <2> QED
    BY <2>1, <2>2
<1>17. CASE ResetFlag(p)
  <2>1. OneBuilder'
    BY <1>17, Effects DEF OneBuilder, Complete, Equipped, LastIsAlone
  <2>2. Complete'
    BY <1>17, Effects DEF OneBuilder, Complete, Equipped, LastIsAlone
  <2> QED
    BY <2>1, <2>2
<1> QED
  BY <1>1, <1>2, <1>3, <1>4, <1>5, <1>6, <1>7, <1>8, <1>9, <1>10, <1>11, <1>12, <1>13,
     <1>14, <1>15, <1>16, <1>17 DEF Step, Stays

(* The last user stays alone until the memory is removed, or "late" is set. *)
LEMMA AloneStep ==
    ASSUME TypeOK, NEW p \in Ports, Stays(p), LastIsAlone,
           "late" \notin marks'
    PROVE  (LastIsAlone)'
<1> USE DEF Done, Closing, Locked, Building, At, Turn, memVars
<1>1. CASE Acquire(p)
  BY <1>1, Effects DEF LastIsAlone, Alone, Acquire, Mark
<1>2. CASE Check(p)
  BY <1>2, Effects DEF LastIsAlone, Alone, Check
<1>3. CASE SpinLock(p)
  BY <1>3, Effects DEF LastIsAlone, Alone, SpinLock
<1>4. CASE Recheck(p)
  BY <1>4, Effects DEF LastIsAlone, Alone, Recheck
<1>5. CASE Construct(p)
  BY <1>5, Effects DEF LastIsAlone, Alone, Construct
<1>6. CASE CondInit(p)
  BY <1>6, Effects DEF LastIsAlone, Alone, CondInit
<1>7. CASE MutexInit(p)
  BY <1>7, Effects DEF LastIsAlone, Alone, MutexInit
<1>8. CASE Publish(p)
  BY <1>8, Effects DEF LastIsAlone, Alone, Publish
<1>9. CASE Unlock(p)
  BY <1>9, Effects DEF LastIsAlone, Alone, Unlock
<1>10. CASE CloseCheck(p)
  <2>1. Turn(p, {"open"}, {"last", "release"}) /\ pinned' = pinned
    BY <1>10, Effects DEF CloseCheck
  <2>2. pc'[p] = "last" => Alone(p)
    BY <1>10, AloneIsUsers DEF CloseCheck, Goto, TypeOK
  <2> QED
    BY <2>1, <2>2 DEF LastIsAlone, Alone
<1>11. CASE CloseWaiter(p)
  BY <1>11, Effects DEF LastIsAlone, Alone, CloseWaiter
<1>12. CASE Release(p)
  BY <1>12, Effects DEF LastIsAlone, Alone, Release, Stays
<1>13. CASE Die(p)
  BY <1>13, Effects DEF LastIsAlone, Alone, Die
<1>14. CASE Use(p)
  BY <1>14 DEF LastIsAlone, Alone, Use
<1>15. CASE ResetTable(p)
  BY <1>15, Effects DEF LastIsAlone, Alone, ResetTable
<1>16. CASE ResetLock(p)
  BY <1>16, Effects DEF LastIsAlone, Alone, ResetLock
<1>17. CASE ResetFlag(p)
  BY <1>17, Effects DEF LastIsAlone, Alone, ResetFlag
<1> QED
  BY <1>1, <1>2, <1>3, <1>4, <1>5, <1>6, <1>7, <1>8, <1>9, <1>10, <1>11, <1>12, <1>13,
     <1>14, <1>15, <1>16, <1>17 DEF Step, Stays

(* What a second builder undoes it is on its way to make again.             *)
LEMMA WholeStep ==
    ASSUME TypeOK, NEW p \in Ports, Stays(p), LockHeld, FlagPending, CondPending, MutexPending, LastIsAlone,
           marks' \subseteq {"doubled"}
    PROVE  (LockHeld /\ FlagPending /\ CondPending /\ MutexPending)'
<1> USE DEF Done, Closing, Locked, Building, Wiped, At, Turn, memVars
<1>1. CASE Acquire(p)
  <2>1. LockHeld'
    BY <1>1, Effects DEF LockHeld, FlagPending, CondPending, MutexPending, LastIsAlone
  <2>2. FlagPending'
    BY <1>1, Effects DEF LockHeld, FlagPending, CondPending, MutexPending, LastIsAlone
  <2>3. CondPending'
    BY <1>1, Effects DEF LockHeld, FlagPending, CondPending, MutexPending, LastIsAlone
  <2>4. MutexPending'
    BY <1>1, Effects DEF LockHeld, FlagPending, CondPending, MutexPending, LastIsAlone
  <2> QED
    BY <2>1, <2>2, <2>3, <2>4
<1>2. CASE Check(p)
  <2>1. LockHeld'
    BY <1>2, Effects DEF LockHeld, FlagPending, CondPending, MutexPending, LastIsAlone
  <2>2. FlagPending'
    BY <1>2, Effects DEF LockHeld, FlagPending, CondPending, MutexPending, LastIsAlone
  <2>3. CondPending'
    BY <1>2, Effects DEF LockHeld, FlagPending, CondPending, MutexPending, LastIsAlone
  <2>4. MutexPending'
    BY <1>2, Effects DEF LockHeld, FlagPending, CondPending, MutexPending, LastIsAlone
  <2> QED
    BY <2>1, <2>2, <2>3, <2>4
<1>3. CASE SpinLock(p)
  <2>1. LockHeld'
    BY <1>3, Effects DEF LockHeld, FlagPending, CondPending, MutexPending, LastIsAlone
  <2>2. FlagPending'
    BY <1>3, Effects DEF LockHeld, FlagPending, CondPending, MutexPending, LastIsAlone
  <2>3. CondPending'
    BY <1>3, Effects DEF LockHeld, FlagPending, CondPending, MutexPending, LastIsAlone
  <2>4. MutexPending'
    BY <1>3, Effects DEF LockHeld, FlagPending, CondPending, MutexPending, LastIsAlone
  <2> QED
    BY <2>1, <2>2, <2>3, <2>4
<1>4. CASE Recheck(p)
  <2>1. LockHeld'
    BY <1>4, Effects DEF LockHeld, FlagPending, CondPending, MutexPending, LastIsAlone
  <2>2. FlagPending'
    BY <1>4, Effects DEF LockHeld, FlagPending, CondPending, MutexPending, LastIsAlone
  <2>3. CondPending'
    BY <1>4, Effects DEF LockHeld, FlagPending, CondPending, MutexPending, LastIsAlone
  <2>4. MutexPending'
    BY <1>4, Effects DEF LockHeld, FlagPending, CondPending, MutexPending, LastIsAlone
  <2> QED
    BY <2>1, <2>2, <2>3, <2>4
<1>5. CASE Construct(p)
  <2>1. LockHeld'
    BY <1>5, Effects DEF LockHeld, FlagPending, CondPending, MutexPending, LastIsAlone
  <2>2. FlagPending'
    BY <1>5, Effects DEF LockHeld, FlagPending, CondPending, MutexPending, LastIsAlone
  <2>3. CondPending'
    BY <1>5, Effects DEF LockHeld, FlagPending, CondPending, MutexPending, LastIsAlone
  <2>4. MutexPending'
    BY <1>5, Effects DEF LockHeld, FlagPending, CondPending, MutexPending, LastIsAlone
  <2> QED
    BY <2>1, <2>2, <2>3, <2>4
<1>6. CASE CondInit(p)
  <2>1. LockHeld'
    BY <1>6, Effects DEF LockHeld, FlagPending, CondPending, MutexPending, LastIsAlone
  <2>2. FlagPending'
    BY <1>6, Effects DEF LockHeld, FlagPending, CondPending, MutexPending, LastIsAlone
  <2>3. CondPending'
    BY <1>6, Effects DEF LockHeld, FlagPending, CondPending, MutexPending, LastIsAlone
  <2>4. MutexPending'
    BY <1>6, Effects DEF LockHeld, FlagPending, CondPending, MutexPending, LastIsAlone
  <2> QED
    BY <2>1, <2>2, <2>3, <2>4
<1>7. CASE MutexInit(p)
  <2>1. LockHeld'
    BY <1>7, Effects DEF LockHeld, FlagPending, CondPending, MutexPending, LastIsAlone
  <2>2. FlagPending'
    BY <1>7, Effects DEF LockHeld, FlagPending, CondPending, MutexPending, LastIsAlone
  <2>3. CondPending'
    BY <1>7, Effects DEF LockHeld, FlagPending, CondPending, MutexPending, LastIsAlone
  <2>4. MutexPending'
    BY <1>7, Effects DEF LockHeld, FlagPending, CondPending, MutexPending, LastIsAlone
  <2> QED
    BY <2>1, <2>2, <2>3, <2>4
<1>8. CASE Publish(p)
  <2>1. LockHeld'
    BY <1>8, Effects DEF LockHeld, FlagPending, CondPending, MutexPending, LastIsAlone
  <2>2. FlagPending'
    BY <1>8, Effects DEF LockHeld, FlagPending, CondPending, MutexPending, LastIsAlone
  <2>3. CondPending'
    BY <1>8, Effects DEF LockHeld, FlagPending, CondPending, MutexPending, LastIsAlone
  <2>4. MutexPending'
    BY <1>8, Effects DEF LockHeld, FlagPending, CondPending, MutexPending, LastIsAlone
  <2> QED
    BY <2>1, <2>2, <2>3, <2>4
<1>9. CASE Unlock(p)
  <2>1. LockHeld'
    BY <1>9, Effects DEF LockHeld, FlagPending, CondPending, MutexPending, LastIsAlone
  <2>2. FlagPending'
    BY <1>9, Effects DEF LockHeld, FlagPending, CondPending, MutexPending, LastIsAlone
  <2>3. CondPending'
    BY <1>9, Effects DEF LockHeld, FlagPending, CondPending, MutexPending, LastIsAlone
  <2>4. MutexPending'
    BY <1>9, Effects DEF LockHeld, FlagPending, CondPending, MutexPending, LastIsAlone
  <2> QED
    BY <2>1, <2>2, <2>3, <2>4
<1>10. CASE CloseCheck(p)
  <2>1. LockHeld'
    BY <1>10, Effects DEF LockHeld, FlagPending, CondPending, MutexPending, LastIsAlone
  <2>2. FlagPending'
    BY <1>10, Effects DEF LockHeld, FlagPending, CondPending, MutexPending, LastIsAlone
  <2>3. CondPending'
    BY <1>10, Effects DEF LockHeld, FlagPending, CondPending, MutexPending, LastIsAlone
  <2>4. MutexPending'
    BY <1>10, Effects DEF LockHeld, FlagPending, CondPending, MutexPending, LastIsAlone
  <2> QED
    BY <2>1, <2>2, <2>3, <2>4
<1>11. CASE CloseWaiter(p)
  <2>1. LockHeld'
    BY <1>11, Effects DEF LockHeld, FlagPending, CondPending, MutexPending, LastIsAlone
  <2>2. FlagPending'
    BY <1>11, Effects DEF LockHeld, FlagPending, CondPending, MutexPending, LastIsAlone
  <2>3. CondPending'
    BY <1>11, Effects DEF LockHeld, FlagPending, CondPending, MutexPending, LastIsAlone
  <2>4. MutexPending'
    BY <1>11, Effects DEF LockHeld, FlagPending, CondPending, MutexPending, LastIsAlone
  <2> QED
    BY <2>1, <2>2, <2>3, <2>4
<1>12. CASE Release(p)
  <2>1. LockHeld'
    BY <1>12, Effects DEF LockHeld, FlagPending, CondPending, MutexPending, LastIsAlone, Alone, Stays
  <2>2. FlagPending'
    BY <1>12, Effects DEF LockHeld, FlagPending, CondPending, MutexPending, LastIsAlone, Alone, Stays
  <2>3. CondPending'
    BY <1>12, Effects DEF LockHeld, FlagPending, CondPending, MutexPending, LastIsAlone, Alone, Stays
  <2>4. MutexPending'
    BY <1>12, Effects DEF LockHeld, FlagPending, CondPending, MutexPending, LastIsAlone, Alone, Stays
  <2> QED
    BY <2>1, <2>2, <2>3, <2>4
<1>13. CASE Die(p)
  <2>1. LockHeld'
    BY <1>13, Effects DEF LockHeld, FlagPending, CondPending, MutexPending, LastIsAlone, Die, Alone
  <2>2. FlagPending'
    BY <1>13, Effects DEF LockHeld, FlagPending, CondPending, MutexPending, LastIsAlone, Die, Alone
  <2>3. CondPending'
    BY <1>13, Effects DEF LockHeld, FlagPending, CondPending, MutexPending, LastIsAlone, Die, Alone
  <2>4. MutexPending'
    BY <1>13, Effects DEF LockHeld, FlagPending, CondPending, MutexPending, LastIsAlone, Die, Alone
  <2> QED
    BY <2>1, <2>2, <2>3, <2>4
<1>14. CASE Use(p)
  <2>1. LockHeld'
    BY <1>14 DEF LockHeld, FlagPending, CondPending, MutexPending, LastIsAlone, Use
  <2>2. FlagPending'
    BY <1>14 DEF LockHeld, FlagPending, CondPending, MutexPending, LastIsAlone, Use
  <2>3. CondPending'
    BY <1>14 DEF LockHeld, FlagPending, CondPending, MutexPending, LastIsAlone, Use
  <2>4. MutexPending'
    BY <1>14 DEF LockHeld, FlagPending, CondPending, MutexPending, LastIsAlone, Use
  <2> QED
    BY <2>1, <2>2, <2>3, <2>4
<1>15. CASE ResetTable(p)
  <2>1. LockHeld'
    BY <1>15, Effects DEF LockHeld, FlagPending, CondPending, MutexPending, LastIsAlone
  <2>2. FlagPending'
    BY <1>15, Effects DEF LockHeld, FlagPending, CondPending, MutexPending, LastIsAlone
  <2>3. CondPending'
    BY <1>15, Effects DEF LockHeld, FlagPending, CondPending, MutexPending, LastIsAlone
  <2>4. MutexPending'
    BY <1>15, Effects DEF LockHeld, FlagPending, CondPending, MutexPending, LastIsAlone
  <2> QED
    BY <2>1, <2>2, <2>3, <2>4
<1>16. CASE ResetLock(p)
  <2>1. LockHeld'
    BY <1>16, Effects DEF LockHeld, FlagPending, CondPending, MutexPending, LastIsAlone
  <2>2. FlagPending'
    BY <1>16, Effects DEF LockHeld, FlagPending, CondPending, MutexPending, LastIsAlone
  <2>3. CondPending'
    BY <1>16, Effects DEF LockHeld, FlagPending, CondPending, MutexPending, LastIsAlone
  <2>4. MutexPending'
    BY <1>16, Effects DEF LockHeld, FlagPending, CondPending, MutexPending, LastIsAlone
  <2> QED
    BY <2>1, <2>2, <2>3, <2>4
<1>17. CASE ResetFlag(p)
  <2>1. LockHeld'
    BY <1>17, Effects DEF LockHeld, FlagPending, CondPending, MutexPending, LastIsAlone
  <2>2. FlagPending'
    BY <1>17, Effects DEF LockHeld, FlagPending, CondPending, MutexPending, LastIsAlone
  <2>3. CondPending'
    BY <1>17, Effects DEF LockHeld, FlagPending, CondPending, MutexPending, LastIsAlone
  <2>4. MutexPending'
    BY <1>17, Effects DEF LockHeld, FlagPending, CondPending, MutexPending, LastIsAlone
  <2> QED
    BY <2>1, <2>2, <2>3, <2>4
<1> QED
  BY <1>1, <1>2, <1>3, <1>4, <1>5, <1>6, <1>7, <1>8, <1>9, <1>10, <1>11, <1>12, <1>13,
     <1>14, <1>15, <1>16, <1>17 DEF Step, Stays


(* The last user removes the memory: nothing is left of it.                 *)
LEMMA Removal ==
    ASSUME TypeOK, NEW p \in Ports, Release(p), Alone(p)
    PROVE  /\ (OneBuilder /\ Complete /\ LastIsAlone)'
           /\ (LockHeld /\ FlagPending /\ CondPending /\ MutexPending)'
<1>1. \A q \in Ports : pc'[q] = "closed"
  BY Moved DEF Release, Alone, Turn
<1>2. ~constructed' /\ lc' # 1
  <2>1. Users = {p} /\ ~pinned
    BY AloneIsUsers DEF Release
  <2>2. constructed' = FALSE /\ lc' = 0
    BY <2>1, Zenon DEF Release
  <2> QED
    BY <2>2
<1> USE DEF At, Done, Closing, Locked, Building, Wiped
<1>3. (OneBuilder /\ Complete /\ LastIsAlone)'
  BY <1>1, <1>2 DEF OneBuilder, Complete, LastIsAlone
<1>4. (LockHeld /\ FlagPending /\ CondPending /\ MutexPending)'
  BY <1>1, <1>2 DEF LockHeld, FlagPending, CondPending, MutexPending
<1> QED
  BY <1>3, <1>4

(* What has happened to a segment is remembered while it lasts.             *)
LEMMA MarksGrow ==
    ASSUME NEW p \in Ports, Stays(p)
    PROVE  marks \subseteq marks'
<1>1. CASE Acquire(p) \/ Recheck(p)
  BY <1>1 DEF Acquire, Recheck, Mark
<1>2. CASE Release(p)
  BY <1>2, AloneIsUsers DEF Stays, Release
<1>3. CASE Die(p)
  BY <1>3 DEF Die
<1>4. CASE Use(p) \/ CloseCheck(p)
  BY <1>4 DEF Use, CloseCheck
<1>5. CASE Step(p) /\ ~Recheck(p) /\ ~Release(p)
  BY <1>5 DEF Step, Check, SpinLock, Construct, ResetTable, ResetLock, ResetFlag, CondInit,
       MutexInit, Publish, Unlock, CloseWaiter
<1> QED
  BY <1>1, <1>2, <1>3, <1>4, <1>5 DEF Stays

(* Every step keeps the invariant.                                          *)
LEMMA StepIInv ==
    ASSUME IInv, NEW p \in Ports,
           Acquire(p) \/ Step(p) \/ Use(p) \/ CloseCheck(p) \/ Die(p)
    PROVE  IInv'
<1>1. TypeOK' /\ Idle'
  BY StepTypes, IdleStep DEF IInv
<1>2. CASE Stays(p)
  <2>1. marks \subseteq marks'
    BY <1>2, MarksGrow
  <2>2. BuiltOnce'
    <3> SUFFICES ASSUME Fresh' PROVE (OneBuilder /\ Complete /\ LastIsAlone)'
      BY DEF BuiltOnce
    <3>1. OneBuilder /\ Complete /\ LastIsAlone
      BY <2>1 DEF IInv, BuiltOnce, Fresh
    <3>2. "late" \notin marks'
      BY DEF Fresh
    <3> QED
      BY <1>2, <3>1, <3>2, BuiltStep, AloneStep DEF IInv
  <2>3. Whole'
    <3> SUFFICES ASSUME marks' \subseteq {"doubled"}
                 PROVE  (LockHeld /\ FlagPending /\ CondPending /\ MutexPending /\ LastIsAlone)'
      BY DEF Whole
    <3>1. LockHeld /\ FlagPending /\ CondPending /\ MutexPending /\ LastIsAlone
      BY <2>1 DEF IInv, Whole
    <3>2. "late" \notin marks'
      OBVIOUS
    <3> QED
      BY <1>2, <3>1, <3>2, WholeStep, AloneStep DEF IInv
  <2> QED
    BY <1>1, <2>2, <2>3 DEF IInv
<1>3. CASE ~Stays(p)
  <2>1. Release(p) /\ Alone(p)
    BY <1>3 DEF Stays
  <2>2. /\ (OneBuilder /\ Complete /\ LastIsAlone)'
        /\ (LockHeld /\ FlagPending /\ CondPending /\ MutexPending)'
    BY <2>1, Removal DEF IInv
  <2>3. BuiltOnce' /\ Whole'
    BY <2>2 DEF BuiltOnce, Whole
  <2> QED
    BY <1>1, <2>3 DEF IInv
<1> QED
  BY <1>2, <1>3

(* The inductive invariant: a segment built once is complete while it is    *)
(* in use, and one that nobody died in becomes so in any case.              *)
THEOREM Inductive == Spec => []IInv
<1>1. Init => IInv
  <2> SUFFICES ASSUME Init PROVE IInv
    OBVIOUS
  <2>1. TypeOK
    BY InitTypes
  <2>2. Idle /\ \A p \in Ports : pc[p] = "closed"
    BY DEF Init, Conn!ConnInit, Idle
  <2>3. ~constructed /\ lc # 1
    BY DEF Init
  <2>4. OneBuilder /\ Complete /\ LastIsAlone
    BY <2>2, <2>3 DEF OneBuilder, Complete, LastIsAlone, At, Done, Closing, Building
  <2>5. LockHeld /\ FlagPending /\ CondPending /\ MutexPending
    BY <2>2, <2>3 DEF LockHeld, FlagPending, CondPending, MutexPending, At, Done, Closing,
         Building, Locked, Wiped
  <2> QED
    BY <2>1, <2>2, <2>4, <2>5 DEF IInv, BuiltOnce, Whole
<1>2. IInv /\ [Next]_vars => IInv'
  <2>1. CASE UNCHANGED vars
    <3>1. IInv => TypeOK'
      BY <2>1, StutterTypes DEF IInv
    <3>2. /\ constructed' = constructed /\ lc' = lc /\ waiter' = waiter /\ pinned' = pinned
          /\ pc' = pc /\ marks' = marks /\ connected_id' = connected_id
      BY <2>1 DEF vars, memVars, connVars
    <3>3. IInv => Idle' /\ BuiltOnce' /\ Whole'
      BY <3>2 DEF IInv, Idle, BuiltOnce, Whole, Fresh, OneBuilder, Complete, Equipped,
           LastIsAlone, Alone, LockHeld, FlagPending, CondPending, MutexPending, At
    <3> QED
      BY <3>1, <3>3 DEF IInv
  <2> QED
    BY <2>1, StepIInv DEF Next
<1> QED
  BY <1>1, <1>2, PTL DEF Spec

(* However often a segment is built, it is whole for its users whenever     *)
(* nobody is building it: flag set, waiter complete, and the lock free when *)
(* nobody is inside; if nobody died in it or opened it during its last      *)
(* close.                                                                   *)
THEOREM SettlesWhole == Spec => []Settles
<1>1. IInv => Settles
  <2> SUFFICES ASSUME IInv, Opened # {}, marks \subseteq {"doubled"},
                      \A p \in Ports : pc[p] \notin Building
               PROVE  /\ constructed
                      /\ waiter = Ready
                      /\ (\A p \in Ports : pc[p] \notin Locked) => lc = 0
    BY DEF Settles
  <2>1. PICK p \in Ports : pc[p] = "open"
    BY DEF Opened
  <2>2. ~At({"closed waiter"})
    BY <2>1 DEF IInv, Whole, LastIsAlone, Alone, At
  <2>3. At(Done) /\ ~At(Building)
    BY <2>1 DEF At, Done
  <2>4. ~At(Wiped \cup {"cond", "closed waiter"})
        /\ ~At(Wiped \cup {"cond", "mutex", "closed waiter"})
    BY <2>2, <2>3 DEF At, Building, Wiped
  <2>5. constructed /\ Equipped
    BY <2>3, <2>4 DEF IInv, Whole, FlagPending, CondPending, MutexPending, Equipped
  <2>6. (\A q \in Ports : pc[q] \notin Locked) => lc = 0
    BY DEF IInv, Whole, LockHeld, At, TypeOK
  <2> QED
    BY <2>5, <2>6 DEF IInv, TypeOK, Equipped, Ready
<1> QED
  BY <1>1, Inductive, PTL

-----------------------------------------------------------------------------
(* A queue that leaves without disconnect only makes fewer claims.          *)
LEMMA TableDrop ==
    ASSUME Table!IInv, NEW p \in Ports, cc' = cc, role' = role, joins' = joins,
           connected_id' = [connected_id EXCEPT ![p] = 0]
    PROVE  Table!IInv'
<1> USE DEF Table!IInv
<1>1. Table!ConnTypeOK'
  BY CountAssumption DEF Table!ConnTypeOK, Table!Bits
<1>2. \A q \in Ports : connected_id'[q] # 0 => connected_id[q] = connected_id'[q]
  BY DEF Table!ConnTypeOK
<1>3. Table!LowBits' /\ Table!IdsByRole'
  BY <1>2 DEF Table!LowBits, Table!IdsByRole, Table!RECEIVER
<1>4. Table!ReceiverBit' /\ Table!SomeBit'
  BY <1>2, CountAssumption DEF Table!ReceiverBit, Table!SomeBit
<1> QED
  BY <1>1, <1>3, <1>4

(* The placement new and the removal reset a table that nobody uses.        *)
LEMMA TableReset ==
    ASSUME Table!ConnTypeOK, \A q \in Ports : connected_id[q] = 0,
           cc' = {}, role' = role, joins' = joins, connected_id' = connected_id
    PROVE  Table!IInv'
<1>1. Table!ConnTypeOK'
  BY DEF Table!ConnTypeOK
<1>2. \A q \in Ports : connected_id'[q] = 0
  OBVIOUS
<1>3. Table!LowBits' /\ Table!IdsByRole' /\ Table!ReceiverBit'
  BY <1>2, CountAssumption DEF Table!LowBits, Table!IdsByRole, Table!ReceiverBit
<1>4. Table!SomeBit'
  BY <1>2 DEF Table!SomeBit
<1> QED
  BY <1>1, <1>3, <1>4 DEF Table!IInv

(* The bits and the identifiers stay as module ConnectionProofs has them.   *)
LEMMA TableStep ==
    ASSUME FewJoins, IInv, TableInv, NEW p \in Ports,
           Acquire(p) \/ Step(p) \/ Use(p) \/ CloseCheck(p) \/ Die(p)
    PROVE  TableInv'
<1> SUFFICES ASSUME Fresh' PROVE Table!IInv'
  BY DEF TableInv
<1>1. Table!ConnTypeOK
  BY SameTable DEF IInv, TypeOK
<1>2. CASE Release(p) /\ Alone(p)
  <2>1. cc' = {} /\ connected_id' = connected_id /\ role' = role /\ joins' = joins
    BY <1>2, AloneIsUsers DEF Release
  <2>2. \A q \in Ports : connected_id[q] = 0
    BY <1>2 DEF Release, Alone, IInv, Idle
  <2> QED
    BY <1>1, <2>1, <2>2, TableReset
<1>3. CASE Stays(p)
  <2>1. Fresh
    BY <1>3, MarksGrow DEF Fresh
  <2>2. Table!IInv /\ OneBuilder
    BY <2>1 DEF TableInv, IInv, BuiltOnce
  <2>3. CASE Use(p)
    <3>1. (\E m \in {Table!SENDER, Table!RECEIVER} : Table!Connect(p, m))
            \/ Table!Disconnect(p)
      BY <2>3, SameTable, Zenon DEF Use
    <3>2. Table!FewJoins
      BY DEF FewJoins, Table!FewJoins
    <3> QED
      BY <2>2, <3>1, <3>2, Table!ConnectSender, Table!ConnectReceiver, Table!DisconnectAny,
         CountAssumption, JoinsAssumption
  <2>4. CASE Die(p)
    BY <2>2, <2>4, TableDrop DEF Die
  <2>5. CASE ResetTable(p)
    <3>1. cc' = {} /\ connected_id' = connected_id /\ role' = role /\ joins' = joins
      BY <2>5 DEF ResetTable, memVars
    <3>2. ~At(Done)
      BY <2>2, <2>5 DEF OneBuilder, At, Building, ResetTable
    <3>3. \A q \in Ports : connected_id[q] = 0
      BY <3>2 DEF IInv, Idle, At, Done
    <3> QED
      BY <1>1, <3>1, <3>3, TableReset
  <2>6. CASE Acquire(p) \/ CloseCheck(p) \/ (Step(p) /\ ~ResetTable(p))
    <3>1. UNCHANGED connVars
      BY <1>3, <2>6, AloneIsUsers DEF Acquire, CloseCheck, Step, Check, SpinLock, Recheck,
           Construct, ResetLock, ResetFlag, CondInit, MutexInit, Publish, Unlock, CloseWaiter, Release, Stays, connVars
    <3> QED
      BY <2>2, <3>1 DEF connVars, Table!IInv, Table!ConnTypeOK, Table!LowBits,
           Table!IdsByRole, Table!ReceiverBit, Table!SomeBit
  <2> QED
    BY <1>3, <2>3, <2>4, <2>5, <2>6 DEF Stays
<1> QED
  BY <1>2, <1>3 DEF Stays

(* As long as a segment has been built by one queue and nobody opened it    *)
(* while its last user was closing it, who returns from open() has it       *)
(* complete and its connection counted, whatever else other queues do and   *)
(* wherever they die: in a channel, until MaxCnt - 1 senders have           *)
(* connected.  Nothing is said of a segment that was built twice or opened  *)
(* during its last close: there the code fails, and Usable excuses it.      *)
THEOREM UsableIfBuiltOnce ==
    ASSUME FewJoins
    PROVE  Spec => []Usable
<1>1. Init => TableInv
  <2> SUFFICES ASSUME Init PROVE Table!IInv
    BY DEF TableInv
  <2>1. Table!ConnInit
    BY SameTable DEF Init
  <2> QED
    BY <2>1, Table!InitIInv, CountAssumption, JoinsAssumption
<1>2. IInv /\ TableInv /\ [Next]_vars => TableInv'
  <2>1. CASE UNCHANGED vars
    BY <2>1 DEF vars, connVars, TableInv, Fresh, Table!IInv, Table!ConnTypeOK,
         Table!LowBits, Table!IdsByRole, Table!ReceiverBit, Table!SomeBit
  <2> QED
    BY <2>1, TableStep DEF Next
<1>3. Spec => []TableInv
  BY <1>1, <1>2, Inductive, PTL DEF Spec
<1>4. IInv /\ TableInv => Usable
  <2> SUFFICES ASSUME IInv, TableInv, Opened # {}, Fresh
               PROVE  constructed /\ waiter = Ready /\ Conn!ConnectedIsCounted
    BY DEF Usable, Fresh
  <2>1. OneBuilder /\ Complete /\ LastIsAlone /\ Table!IInv
    BY DEF IInv, BuiltOnce, TableInv
  <2>2. PICK p \in Ports : pc[p] = "open"
    BY DEF Opened
  <2>3. constructed
    BY <2>1, <2>2 DEF OneBuilder, At, Done
  <2>4. ~At({"closed waiter"})
    BY <2>1, <2>2 DEF LastIsAlone, Alone, At
  <2>5. waiter = Ready
    BY <2>1, <2>3, <2>4 DEF Complete, Equipped, Ready, IInv, TypeOK
  <2>6. Conn!ConnectedIsCounted
    BY <2>1, Table!ConnectedCounts, SameTable, CountAssumption, JoinsAssumption
  <2> QED
    BY <2>3, <2>5, <2>6
<1> QED
  BY <1>3, <1>4, Inductive, PTL
=============================================================================
