---------------------------- MODULE BoundedFifo ----------------------------
(* What a ring between one producer and one consumer promises: a queue that *)
(* hands out what was put in, once each, in order, and refuses when full.   *)
EXTENDS Naturals, Sequences

CONSTANTS Item, Room

VARIABLES
    queue,  \* items accepted and not yet handed out
    out     \* the item handed out last

vars == <<queue, out>>

Init == queue = <<>> /\ out \in Item

Accept(item) ==
    /\ Len(queue) < Room
    /\ queue' = Append(queue, item)
    /\ UNCHANGED out

HandOut ==
    /\ queue # <<>>
    /\ out' = Head(queue)
    /\ queue' = Tail(queue)

Next == HandOut \/ \E item \in Item : Accept(item)

Spec == Init /\ [][Next]_vars
=============================================================================
