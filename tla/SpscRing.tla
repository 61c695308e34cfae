------------------------------ MODULE SpscRing ------------------------------
(***************************************************************************)
(* The lock-free ring between the DALI interrupt and a task (RX captures,   *)
(* session events, queued transmissions).  One side pushes, the other pops; *)
(* each atomic load, slot access and atomic store is a step of its own, so   *)
(* the two sides interleave anywhere.  The Release/Acquire pairs on head and *)
(* tail order the slot accesses, hence sequential consistency.              *)
(***************************************************************************)
EXTENDS Naturals, Sequences

CONSTANTS Item, Uninit, CAP

ASSUME CapAssumption == CAP \in Nat /\ CAP > 1
ASSUME UninitAssumption == Uninit \notin Item

VARIABLES
    slots,  \* the array of MaybeUninit: Uninit before a write, after a read
    head, tail,
    prod,   \* the producer: pc, its item, the indices it loaded
    cons,   \* the consumer: likewise, and the item it read
    out     \* the item the last completed pop returned

vars == <<slots, head, tail, prod, cons, out>>

Index == 0 .. CAP - 1

\* next: modular increment without division.
NextIndex(i) == IF i + 1 >= CAP THEN 0 ELSE i + 1

Init ==
    /\ slots = [i \in Index |-> Uninit]
    /\ head = 0 /\ tail = 0
    /\ prod \in [pc : {"idle"}, item : Item, head : {0}, tail : {0}]
    /\ cons \in [pc : {"idle"}, item : Item, head : {0}, tail : {0}]
    /\ out = cons.item

----------------------------------------------------------------------------
\* try_push, first load: head.
PushBegin ==
    /\ prod.pc = "idle"
    /\ \E item \in Item :
        prod' = [prod EXCEPT !.pc = "load", !.item = item, !.head = head]
    /\ UNCHANGED <<slots, head, tail, cons, out>>

\* The producer loads tail.
PushLoad ==
    /\ prod.pc = "load"
    /\ prod' = [prod EXCEPT !.pc = "test", !.tail = tail]
    /\ UNCHANGED <<slots, head, tail, cons, out>>

\* The ring is full when the slot after head is tail: the item is returned.
PushFull ==
    /\ prod.pc = "test" /\ NextIndex(prod.head) = prod.tail
    /\ prod' = [prod EXCEPT !.pc = "idle"]
    /\ UNCHANGED <<slots, head, tail, cons, out>>

\* Mutant: the slot after head is written.
PushWriteNext ==
    /\ prod.pc = "test" /\ NextIndex(prod.head) # prod.tail
    /\ slots' = [slots EXCEPT ![NextIndex(prod.head)] = prod.item]
    /\ prod' = [prod EXCEPT !.pc = "store"]
    /\ UNCHANGED <<head, tail, cons, out>>

\* The free slot is written.
PushWrite ==
    /\ prod.pc = "test" /\ NextIndex(prod.head) # prod.tail
    /\ slots' = [slots EXCEPT ![prod.head] = prod.item]
    /\ prod' = [prod EXCEPT !.pc = "store"]
    /\ UNCHANGED <<head, tail, cons, out>>

\* The release store that makes the item visible.
PushStore ==
    /\ prod.pc = "store"
    /\ head' = NextIndex(prod.head)
    /\ prod' = [prod EXCEPT !.pc = "idle"]
    /\ UNCHANGED <<slots, tail, cons, out>>

\* try_pop, first load: tail.
PopBegin ==
    /\ cons.pc = "idle"
    /\ cons' = [cons EXCEPT !.pc = "load", !.tail = tail]
    /\ UNCHANGED <<slots, head, tail, prod, out>>

\* The consumer loads head.
PopLoad ==
    /\ cons.pc = "load"
    /\ cons' = [cons EXCEPT !.pc = "test", !.head = head]
    /\ UNCHANGED <<slots, head, tail, prod, out>>

PopEmpty ==
    /\ cons.pc = "test" /\ cons.tail = cons.head
    /\ cons' = [cons EXCEPT !.pc = "idle"]
    /\ UNCHANGED <<slots, head, tail, prod, out>>

\* assume_init_read moves the item out of its slot.
PopRead ==
    /\ cons.pc = "test" /\ cons.tail # cons.head
    /\ cons' = [cons EXCEPT !.pc = "store", !.item = slots[cons.tail]]
    /\ slots' = [slots EXCEPT ![cons.tail] = Uninit]
    /\ UNCHANGED <<head, tail, prod, out>>

\* The release store that frees the slot; the item is returned.
PopStore ==
    /\ cons.pc = "store"
    /\ tail' = NextIndex(cons.tail)
    /\ out' = cons.item
    /\ cons' = [cons EXCEPT !.pc = "idle"]
    /\ UNCHANGED <<slots, head, prod>>

Producer == PushBegin \/ PushLoad \/ PushFull \/ PushWrite \/ PushStore
Consumer == PopBegin \/ PopLoad \/ PopEmpty \/ PopRead \/ PopStore

Next == Producer \/ Consumer

Spec == Init /\ [][Next]_vars

----------------------------------------------------------------------------
\* Slots between tail and head, in the order they are popped.
Used == IF head >= tail THEN head - tail ELSE head + CAP - tail

At(k) == IF tail + k >= CAP THEN tail + k - CAP ELSE tail + k

\* Indices stay inside the array and loaded copies have the indices' type.
TypeOK ==
    /\ slots \in [Index -> Item \cup {Uninit}]
    /\ head \in Index /\ tail \in Index
    /\ prod \in [pc : {"idle", "load", "test", "store"}, item : Item,
                 head : Index, tail : Index]
    /\ cons \in [pc : {"idle", "load", "test", "store"}, item : Item \cup {Uninit},
                 head : Index, tail : Index]
    /\ out \in Item

\* A pop never returns a slot that holds no item: neither one the producer has
\* not finished writing nor one already moved out (the SAFETY comment of
\* try_pop).
ReadsOnlyWritten == cons.pc = "store" => cons.item # Uninit

\* A push never writes over an item not yet popped (the SAFETY comment of
\* try_push).
WritesOnlyFree ==
    prod.pc = "test" /\ NextIndex(prod.head) # prod.tail => slots[prod.head] = Uninit

\* The item at the front while its pop is between the read and the store.
Front(k) == IF k = 0 /\ cons.pc = "store" THEN cons.item ELSE slots[At(k)]

Queue == [k \in 1 .. Used |-> Front(k - 1)]

Fifo == INSTANCE BoundedFifo WITH Room <- CAP - 1, queue <- Queue

\* The ring is a bounded queue: a push takes effect with its head store, a pop
\* with its tail store, whatever loads and slot accesses lie between.
IsFifo == Fifo!Spec
=============================================================================
