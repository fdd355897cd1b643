---------------------------- MODULE BoundedQueue ----------------------------
(***************************************************************************)
(* What the ring of a channel promises to one writer and one reader: a     *)
(* bounded FIFO queue.  A descriptor that the writer offers is either      *)
(* accepted, behind everything accepted before it, or refused because the  *)
(* queue is full.  The reader takes the accepted descriptors one by one in *)
(* the order of acceptance; a place of the queue becomes free only when a  *)
(* taken descriptor is released.  A reader that connects again starts over *)
(* with the oldest descriptor whose place has not been freed.              *)
(***************************************************************************)
EXTENDS Integers, Sequences

CONSTANTS
    Items,      \* what can be queued
    None,       \* no item
    Capacity    \* the number of places

VARIABLES
    queue,      \* the occupied places, oldest first
    taken,      \* how many of them, from the oldest, the reader has taken
    pending,    \* the item on offer, or None
    got         \* the item taken last, or None

vars == <<queue, taken, pending, got>>

Init ==
    /\ queue = <<>>
    /\ taken = 0
    /\ pending = None
    /\ got = None

Offer(d) ==
    /\ pending = None
    /\ pending' = d
    /\ UNCHANGED <<queue, taken, got>>

Accept ==
    /\ pending # None
    /\ Len(queue) < Capacity
    /\ queue' = Append(queue, pending)
    /\ pending' = None
    /\ UNCHANGED <<taken, got>>

Refuse ==
    /\ pending # None
    /\ Len(queue) = Capacity
    /\ pending' = None
    /\ UNCHANGED <<queue, taken, got>>

Take ==
    /\ taken < Len(queue)
    /\ got' = queue[taken + 1]
    /\ taken' = taken + 1
    /\ UNCHANGED <<queue, pending>>

Release ==
    /\ taken > 0
    /\ queue' = Tail(queue)
    /\ taken' = taken - 1
    /\ UNCHANGED <<pending, got>>

Rewind ==
    /\ taken' = 0
    /\ UNCHANGED <<queue, pending, got>>

Next ==
    \/ \E d \in Items : Offer(d)
    \/ Accept
    \/ Refuse
    \/ Take
    \/ Release
    \/ Rewind

Spec == Init /\ [][Next]_vars
=============================================================================
