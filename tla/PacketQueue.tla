---------------------------- MODULE PacketQueue ----------------------------
(***************************************************************************)
(* What a work queue of the driver promises to the threads that share it:  *)
(* a bounded FIFO of packets.  A full queue drops the newest packet, a     *)
(* consumer takes a prefix of the queue in one indivisible step, and once  *)
(* the queue has been released every call is refused.                      *)
(*                                                                         *)
(* The ring buffer, the mutex, the condition variable and the calls in     *)
(* progress are those of module Workqueue, which implements this module.   *)
(* Module DataPlane composes two of these queues with the worker threads.  *)
(***************************************************************************)
EXTENDS Integers, Sequences

CONSTANTS
    Packets,        \* the packets that may be pushed
    NULL,           \* the null pointer
    Consumers,      \* the threads that take packets out
    Bound,          \* the number of packets the queue can hold
    MaxTake(_),     \* the most packets consumer c takes in one call
    Garbage         \* what an unset size variable of a caller may hold

VARIABLES
    q,              \* the packets in the queue, oldest first
    released,       \* releaseAll has been called
    out             \* the result of consumer c's last call, until it is used

vars == <<q, released, out>>

\* No result: the consumer is between two calls, or its call is in progress.
NoResult == [done |-> FALSE, list |-> <<>>, n |-> 0]

\* A list of packets, and its length as the caller sees it.
Taken(l) == [done |-> TRUE, list |-> l, n |-> Len(l)]

\* The null pointer.  The length the caller sees then means nothing.
Refused(n) == [done |-> TRUE, list |-> NULL, n |-> n]

TakeCount(c) == IF Len(q) < MaxTake(c) THEN Len(q) ELSE MaxTake(c)

Init ==
    /\ q = <<>>
    /\ released = FALSE
    /\ out = [c \in Consumers |-> NoResult]

\* A variant that accepts one packet too many.
PushOneTooMany(w) ==
    /\ q' = IF Len(q) <= Bound THEN Append(q, w) ELSE q
    /\ UNCHANGED <<released, out>>

\* A full queue drops the packet.
Push(w) ==
    /\ q' = IF Len(q) < Bound THEN Append(q, w) ELSE q
    /\ UNCHANGED <<released, out>>

\* A variant that leaves the last packet taken in the queue.
TakeKeepsLast(c) ==
    /\ ~released
    /\ ~out[c].done
    /\ q # <<>>
    /\ out' = [out EXCEPT ![c] = Taken(SubSeq(q, 1, TakeCount(c)))]
    /\ q' = SubSeq(q, TakeCount(c), Len(q))
    /\ UNCHANGED released

Take(c) ==
    /\ ~released
    /\ ~out[c].done
    /\ q # <<>>
    /\ out' = [out EXCEPT ![c] = Taken(SubSeq(q, 1, TakeCount(c)))]
    /\ q' = SubSeq(q, TakeCount(c) + 1, Len(q))
    /\ UNCHANGED released

Refuse(c) ==
    /\ released
    /\ ~out[c].done
    /\ \E n \in Garbage : out' = [out EXCEPT ![c] = Refused(n)]
    /\ UNCHANGED <<q, released>>

\* The consumer is done with the result and may call again.
Use(c) ==
    /\ out[c].done
    /\ out' = [out EXCEPT ![c] = NoResult]
    /\ UNCHANGED <<q, released>>

Release ==
    /\ released' = TRUE
    /\ UNCHANGED <<q, out>>

Next ==
    \/ \E w \in Packets : Push(w)
    \/ \E c \in Consumers : Take(c) \/ Refuse(c) \/ Use(c)
    \/ Release

(***************************************************************************)
(* Packets in the queue do not wait for ever while some consumer is ready  *)
(* to take them, and after the release no call hangs.                      *)
(***************************************************************************)
Fairness ==
    /\ WF_vars(\E c \in Consumers : Take(c) \/ Refuse(c))
    /\ \A c \in Consumers : WF_vars(Refuse(c))

Spec == Init /\ [][Next]_vars

FairSpec == Spec /\ Fairness
=============================================================================
