----------------------------- MODULE PhyProofs -----------------------------
(***************************************************************************)
(* Proofs about the interrupt side: SpscRing for every capacity and every   *)
(* set of items, AnswerPath for every ring size and width of its counters.  *)
(***************************************************************************)
EXTENDS SpscRing, AnswerPath, SequenceTheorems, TLAPS

\* A leaf that names no prover is for Zenon; one that counts, or takes a record or
\* a sequence apart, cites SMT.
USE Zenon

\* Slot i lies between tail and head.
InUse(i) ==
    IF head >= tail THEN tail <= i /\ i < head ELSE tail <= i \/ i < head

\* The producer's copy of head is head, and room it saw is still there: only
\* the consumer moves tail, and it moves away from head.
ProdInv ==
    /\ prod.pc # "idle" => prod.head = head
    /\ prod.pc = "test" /\ NextIndex(prod.head) # prod.tail => NextIndex(head) # tail
    /\ prod.pc = "store" => NextIndex(head) # tail /\ slots[head] = prod.item

\* The consumer's copy of tail is tail, and an item it saw is still there.
ConsInv ==
    /\ cons.pc # "idle" => cons.tail = tail
    /\ cons.pc = "test" /\ cons.tail # cons.head => tail # head
    /\ cons.pc = "store" => tail # head /\ cons.item # Uninit

\* A slot is initialised exactly when it is in use and not moved out yet, or
\* written and not published yet.
SlotInv ==
    \A i \in Index :
        slots[i] # Uninit <=> \/ InUse(i) /\ ~(cons.pc = "store" /\ i = tail)
                              \/ prod.pc = "store" /\ i = head

IInv == TypeOK /\ ProdInv /\ ConsInv /\ SlotInv

\* The modular increment stays in the array and is injective.
LEMMA NextIndexType == ASSUME NEW i \in Index PROVE NextIndex(i) \in Index
  BY CapAssumption, SMT DEF Index, NextIndex

LEMMA NextIndexInjective ==
    ASSUME NEW i \in Index, NEW j \in Index, i # j
    PROVE  NextIndex(i) # NextIndex(j)
  BY CapAssumption, SMT DEF Index, NextIndex

\* try_push's store adds exactly the slot at head to the used ones.
LEMMA HeadStep ==
    ASSUME TypeOK, NextIndex(head) # tail, head' = NextIndex(head), tail' = tail,
           NEW i \in Index
    PROVE  InUse(i)' <=> InUse(i) \/ i = head
  BY CapAssumption, SMT DEF TypeOK, Index, NextIndex, InUse

\* try_pop's store removes exactly the slot at tail from the used ones.
LEMMA TailStep ==
    ASSUME TypeOK, head # tail, tail' = NextIndex(tail), head' = head,
           NEW i \in Index
    PROVE  InUse(i)' <=> InUse(i) /\ i # tail
  BY CapAssumption, SMT DEF TypeOK, Index, NextIndex, InUse

\* The slot at head is free, the one at tail used when the ring is not empty.
LEMMA Ends == ASSUME TypeOK PROVE ~InUse(head) /\ (head # tail => InUse(tail))
  BY CapAssumption, SMT DEF TypeOK, Index, InUse

LEMMA InitHolds == Init => IInv
<1> SUFFICES ASSUME Init PROVE IInv
  OBVIOUS
<1>1. TypeOK
  BY CapAssumption, SMT DEF Init, TypeOK, Index
<1>2. ProdInv /\ ConsInv
  BY DEF Init, ProdInv, ConsInv
<1>3. SlotInv
  BY SMT DEF Init, SlotInv, InUse, Index
<1> QED
  BY <1>1, <1>2, <1>3 DEF IInv

LEMMA ProducerPreserves == IInv /\ Producer => IInv'
<1> SUFFICES ASSUME IInv, Producer PROVE IInv'
  OBVIOUS
<1>t. TypeOK /\ ProdInv /\ ConsInv /\ SlotInv
  BY DEF IInv
<1>1. CASE PushBegin
  <2>1. TypeOK'
    BY <1>t, <1>1 DEF PushBegin, TypeOK
  <2>2. ProdInv' /\ ConsInv'
    BY <1>t, <1>1 DEF PushBegin, TypeOK, ProdInv, ConsInv
  <2>3. SlotInv'
    BY <1>t, <1>1 DEF PushBegin, TypeOK, SlotInv, InUse
  <2> QED
    BY <2>1, <2>2, <2>3 DEF IInv
<1>2. CASE PushLoad
  <2>1. TypeOK'
    BY <1>t, <1>2 DEF PushLoad, TypeOK
  <2>2. ProdInv' /\ ConsInv'
    BY <1>t, <1>2 DEF PushLoad, TypeOK, ProdInv, ConsInv
  <2>3. SlotInv'
    BY <1>t, <1>2 DEF PushLoad, TypeOK, SlotInv, InUse
  <2> QED
    BY <2>1, <2>2, <2>3 DEF IInv
<1>3. CASE PushFull
  <2>1. TypeOK'
    BY <1>t, <1>3 DEF PushFull, TypeOK
  <2>2. ProdInv' /\ ConsInv'
    BY <1>t, <1>3 DEF PushFull, TypeOK, ProdInv, ConsInv
  <2>3. SlotInv'
    BY <1>t, <1>3 DEF PushFull, TypeOK, SlotInv, InUse
  <2> QED
    BY <2>1, <2>2, <2>3 DEF IInv
<1>4. CASE PushWrite
  <2>1. TypeOK'
    BY <1>t, <1>4 DEF PushWrite, TypeOK
  <2>2. ProdInv' /\ ConsInv'
    BY <1>t, <1>4 DEF PushWrite, TypeOK, ProdInv, ConsInv
  <2>3. SlotInv'
    <3> SUFFICES ASSUME NEW i \in Index
                 PROVE  (slots[i] # Uninit <=> \/ InUse(i) /\ ~(cons.pc = "store" /\ i = tail)
                                               \/ prod.pc = "store" /\ i = head)'
      BY DEF SlotInv
    <3>1. InUse(i)' <=> InUse(i)
      BY <1>4 DEF PushWrite, InUse
    <3>2. prod.head = head /\ prod'.pc = "store" /\ cons' = cons /\ tail' = tail /\ head' = head
      BY <1>t, <1>4 DEF PushWrite, ProdInv, TypeOK
    <3>3. slots'[i] = IF i = head THEN prod.item ELSE slots[i]
      BY <1>t, <1>4, <3>2 DEF PushWrite, TypeOK
    <3>4. prod.item # Uninit
      BY <1>t, UninitAssumption DEF TypeOK
    <3>5. prod.pc # "store"
      BY <1>4 DEF PushWrite
    <3>6. slots[i] # Uninit <=> InUse(i) /\ ~(cons.pc = "store" /\ i = tail)
      BY <1>t, <3>5 DEF SlotInv
    <3> QED
      BY <3>1, <3>2, <3>3, <3>4, <3>6
  <2> QED
    BY <2>1, <2>2, <2>3 DEF IInv
<1>5. CASE PushStore
  <2>0. /\ prod.head = head /\ head' = NextIndex(head) /\ NextIndex(head) # tail
        /\ tail' = tail /\ cons' = cons /\ slots' = slots
        /\ prod.pc = "store" /\ prod'.pc = "idle"
    BY <1>t, <1>5 DEF PushStore, ProdInv, TypeOK
  <2>1. TypeOK'
    <3>1. head' \in Index
      BY <1>t, <2>0, NextIndexType DEF TypeOK
    <3> QED
      BY <1>t, <1>5, <3>1 DEF PushStore, TypeOK
  <2>2. ProdInv' /\ ConsInv'
    BY <1>t, <2>0 DEF ProdInv, ConsInv
  <2>3. SlotInv'
    <3> SUFFICES ASSUME NEW i \in Index
                 PROVE  (slots[i] # Uninit <=> \/ InUse(i) /\ ~(cons.pc = "store" /\ i = tail)
                                               \/ prod.pc = "store" /\ i = head)'
      BY DEF SlotInv
    <3>1. InUse(i)' <=> InUse(i) \/ i = head
      BY <1>t, <2>0, HeadStep
    <3>2. slots[i] # Uninit <=> \/ InUse(i) /\ ~(cons.pc = "store" /\ i = tail)
                                \/ i = head
      BY <1>t, <2>0 DEF SlotInv
    <3>3. cons.pc = "store" => tail # head
      BY <1>t DEF ConsInv
    <3> QED
      BY <2>0, <3>1, <3>2, <3>3
  <2> QED
    BY <2>1, <2>2, <2>3 DEF IInv
<1> QED
  BY <1>1, <1>2, <1>3, <1>4, <1>5 DEF Producer

LEMMA ConsumerPreserves == IInv /\ Consumer => IInv'
<1> SUFFICES ASSUME IInv, Consumer PROVE IInv'
  OBVIOUS
<1>t. TypeOK /\ ProdInv /\ ConsInv /\ SlotInv
  BY DEF IInv
<1>1. CASE PopBegin
  <2>1. TypeOK'
    BY <1>t, <1>1 DEF PopBegin, TypeOK
  <2>2. ProdInv' /\ ConsInv'
    BY <1>t, <1>1 DEF PopBegin, TypeOK, ProdInv, ConsInv
  <2>3. SlotInv'
    BY <1>t, <1>1 DEF PopBegin, TypeOK, SlotInv, InUse
  <2> QED
    BY <2>1, <2>2, <2>3 DEF IInv
<1>2. CASE PopLoad
  <2>1. TypeOK'
    BY <1>t, <1>2 DEF PopLoad, TypeOK
  <2>2. ProdInv' /\ ConsInv'
    BY <1>t, <1>2 DEF PopLoad, TypeOK, ProdInv, ConsInv
  <2>3. SlotInv'
    BY <1>t, <1>2 DEF PopLoad, TypeOK, SlotInv, InUse
  <2> QED
    BY <2>1, <2>2, <2>3 DEF IInv
<1>3. CASE PopEmpty
  <2>1. TypeOK'
    BY <1>t, <1>3 DEF PopEmpty, TypeOK
  <2>2. ProdInv' /\ ConsInv'
    BY <1>t, <1>3 DEF PopEmpty, TypeOK, ProdInv, ConsInv
  <2>3. SlotInv'
    BY <1>t, <1>3 DEF PopEmpty, TypeOK, SlotInv, InUse
  <2> QED
    BY <2>1, <2>2, <2>3 DEF IInv
<1>4. CASE PopRead
  <2>0. /\ cons.tail = tail /\ tail # head /\ cons.pc = "test"
        /\ prod' = prod /\ head' = head /\ tail' = tail
    BY <1>t, <1>4 DEF PopRead, ConsInv
  <2>1. slots[tail] # Uninit
    BY <1>t, <2>0, Ends DEF SlotInv, TypeOK
  <2>2. cons'.pc = "store" /\ cons'.item = slots[tail] /\ cons'.tail = tail
    BY <1>t, <1>4, <2>0 DEF PopRead, TypeOK
  <2>3. TypeOK'
    BY <1>t, <1>4 DEF PopRead, TypeOK
  <2>6. slots'[head] = slots[head]
    BY <1>t, <1>4, <2>0 DEF PopRead, TypeOK
  <2>4. ProdInv' /\ ConsInv'
    BY <1>t, <2>0, <2>1, <2>2, <2>6 DEF ProdInv, ConsInv
  <2>5. SlotInv'
    <3> SUFFICES ASSUME NEW i \in Index
                 PROVE  (slots[i] # Uninit <=> \/ InUse(i) /\ ~(cons.pc = "store" /\ i = tail)
                                               \/ prod.pc = "store" /\ i = head)'
      BY DEF SlotInv
    <3>1. InUse(i)' <=> InUse(i)
      BY <2>0 DEF InUse
    <3>2. slots'[i] = IF i = tail THEN Uninit ELSE slots[i]
      BY <1>t, <1>4, <2>0 DEF PopRead, TypeOK
    <3>3. slots[i] # Uninit <=> \/ InUse(i)
                                \/ prod.pc = "store" /\ i = head
      BY <1>t, <2>0 DEF SlotInv
    <3> QED
      BY <2>0, <2>2, <3>1, <3>2, <3>3
  <2> QED
    BY <2>3, <2>4, <2>5 DEF IInv
<1>5. CASE PopStore
  <2>0. /\ cons.tail = tail /\ tail' = NextIndex(tail) /\ tail # head
        /\ head' = head /\ prod' = prod /\ slots' = slots
        /\ cons.pc = "store" /\ cons'.pc = "idle"
    BY <1>t, <1>5 DEF PopStore, ConsInv, TypeOK
  <2>1. TypeOK'
    <3>1. tail' \in Index
      BY <1>t, <2>0, NextIndexType DEF TypeOK
    <3>2. cons.item \in Item
      BY <1>t, <2>0 DEF TypeOK, ConsInv
    <3> QED
      BY <1>t, <1>5, <3>1, <3>2 DEF PopStore, TypeOK
  <2>2. NextIndex(head) # NextIndex(tail)
    BY <1>t, <2>0, NextIndexInjective DEF TypeOK
  <2>3. ProdInv' /\ ConsInv'
    BY <1>t, <2>0, <2>2 DEF ProdInv, ConsInv
  <2>4. SlotInv'
    <3> SUFFICES ASSUME NEW i \in Index
                 PROVE  (slots[i] # Uninit <=> \/ InUse(i) /\ ~(cons.pc = "store" /\ i = tail)
                                               \/ prod.pc = "store" /\ i = head)'
      BY DEF SlotInv
    <3>1. InUse(i)' <=> InUse(i) /\ i # tail
      BY <1>t, <2>0, TailStep
    <3>2. slots[i] # Uninit <=> \/ InUse(i) /\ i # tail
                                \/ prod.pc = "store" /\ i = head
      BY <1>t, <2>0 DEF SlotInv
    <3> QED
      BY <2>0, <3>1, <3>2
  <2> QED
    BY <2>1, <2>3, <2>4 DEF IInv
<1> QED
  BY <1>1, <1>2, <1>3, <1>4, <1>5 DEF Consumer

LEMMA StutterPreserves == IInv /\ UNCHANGED vars => IInv'
  BY DEF IInv, TypeOK, ProdInv, ConsInv, SlotInv, InUse, vars

LEMMA Inductive == Spec => []IInv
<1>1. IInv /\ [Next]_vars => IInv'
  BY ProducerPreserves, ConsumerPreserves, StutterPreserves DEF Next
<1> QED
  BY InitHolds, <1>1, PTL DEF Spec

\* Indices stay inside the array, whatever the capacity (next, try_push and
\* try_pop).
THEOREM TypeCorrect == Spec => []TypeOK
<1>1. IInv => TypeOK
  BY DEF IInv
<1> QED
  BY Inductive, <1>1, PTL

\* try_pop reads only initialised slots, whatever the capacity and wherever
\* the producer is.
THEOREM ReadsOnlyWrittenSafe == Spec => []ReadsOnlyWritten
<1>1. IInv => ReadsOnlyWritten
  BY DEF IInv, ConsInv, ReadsOnlyWritten
<1> QED
  BY Inductive, <1>1, PTL

\* try_push writes only slots whose item was moved out, whatever the capacity
\* and wherever the consumer is.
THEOREM WritesOnlyFreeSafe == Spec => []WritesOnlyFree
<1>1. IInv => WritesOnlyFree
  <2> SUFFICES ASSUME IInv, prod.pc = "test", NextIndex(prod.head) # prod.tail
               PROVE  slots[prod.head] = Uninit
    BY DEF WritesOnlyFree
  <2>1. TypeOK /\ ProdInv /\ SlotInv
    BY DEF IInv
  <2>2. prod.head = head /\ ~InUse(head) /\ head \in Index
    BY <2>1, Ends DEF ProdInv, TypeOK
  <2> QED
    BY <2>1, <2>2 DEF SlotInv
<1> QED
  BY Inductive, <1>1, PTL

----------------------------------------------------------------------------
\* The ring as a sequence: positions are distinct slots in use.
LEMMA UsedType == ASSUME TypeOK PROVE Used \in 0 .. CAP - 1
  BY CapAssumption, SMT DEF TypeOK, Index, Used

LEMMA AtInUse ==
    ASSUME TypeOK, NEW k \in 0 .. Used - 1
    PROVE  /\ At(k) \in Index /\ InUse(At(k)) /\ At(k) # head
           /\ At(k) = tail <=> k = 0
  BY CapAssumption, SMT DEF TypeOK, Index, Used, At, InUse

\* The abstract queue is a sequence of items.
QueueOK ==
    /\ Queue \in Seq(Item) /\ Len(Queue) = Used
    /\ \A k \in 1 .. Used : Queue[k] = Front(k - 1)

LEMMA QueueType == IInv => QueueOK
<1> SUFFICES ASSUME IInv PROVE QueueOK
  OBVIOUS
<1>1. TypeOK /\ ConsInv /\ SlotInv /\ Used \in Nat
  BY UsedType, SMT DEF IInv
<1>2. ASSUME NEW k \in 1 .. Used PROVE Front(k - 1) \in Item
  <2>1. k - 1 \in 0 .. Used - 1
    BY <1>1, SMT
  <2>2. At(k - 1) \in Index /\ InUse(At(k - 1)) /\ (At(k - 1) = tail <=> k - 1 = 0)
    BY <1>1, <2>1, AtInUse
  <2>3. CASE k - 1 = 0 /\ cons.pc = "store"
    BY <1>1, <2>3 DEF Front, ConsInv, TypeOK
  <2>4. CASE ~(k - 1 = 0 /\ cons.pc = "store")
    <3>1. slots[At(k - 1)] # Uninit
      BY <1>1, <2>2, <2>4 DEF SlotInv
    <3> QED
      BY <1>1, <2>2, <2>4, <3>1 DEF Front, TypeOK
  <2> QED
    BY <2>3, <2>4
<1>3. Queue \in [1 .. Used -> Item]
  BY <1>2 DEF Queue
<1>4. Queue \in Seq(Item) /\ Len(Queue) = Used
  BY <1>1, <1>3, SMT
<1> QED
  BY <1>4 DEF Queue, QueueOK

\* A step that keeps the number of used slots and every position keeps the
\* queue.
LEMMA SameQueue ==
    ASSUME IInv, Used' = Used, \A k \in 1 .. Used : Front(k - 1)' = Front(k - 1)
    PROVE  Queue' = Queue
  BY DEF Queue

\* try_push appends its item with the head store.
LEMMA PushAccepts == ASSUME IInv, IInv', PushStore PROVE Fifo!Accept(prod.item)
<1>1. TypeOK /\ ProdInv /\ ConsInv
  BY DEF IInv
<1>2. /\ head' = NextIndex(head) /\ NextIndex(head) # tail /\ tail' = tail
      /\ slots' = slots /\ cons' = cons /\ out' = out /\ slots[head] = prod.item
  BY <1>1 DEF PushStore, ProdInv
<1>3. Used' = Used + 1 /\ Used < CAP - 1 /\ At(Used) = head
  BY <1>1, <1>2, CapAssumption, SMT DEF TypeOK, Index, NextIndex, Used, At
<1>4. \A k \in Nat : At(k)' = At(k) /\ Front(k)' = Front(k)
  BY <1>2 DEF At, Front
<1>5. /\ Queue \in Seq(Item) /\ Len(Queue) = Used
      /\ \A k \in 1 .. Used : Queue[k] = Front(k - 1)
  BY QueueType DEF QueueOK
<1>6. /\ Queue' \in Seq(Item) /\ Len(Queue') = Used + 1
      /\ \A k \in 1 .. Used + 1 : Queue'[k] = Front(k - 1)
  <2>1. /\ Queue' \in Seq(Item) /\ Len(Queue') = Used'
        /\ \A k \in 1 .. Used' : Queue'[k] = Front(k - 1)'
    <3>1. QueueOK'
      BY QueueType, PTL
    <3> QED
      BY <3>1 DEF QueueOK
  <2> QED
    BY <2>1, <1>3, <1>4, <1>1, UsedType, SMT
<1>7. Front(Used) = prod.item
  <2>1. Used = 0 => cons.pc # "store"
    BY <1>1, CapAssumption, SMT DEF TypeOK, Index, Used, ConsInv
  <2> QED
    BY <1>2, <1>3, <2>1 DEF Front
<1>8. Queue' = Append(Queue, prod.item)
  <2>1. prod.item \in Item /\ Used \in Nat
    BY <1>1, UsedType, SMT DEF TypeOK
  <2>2. /\ Append(Queue, prod.item) \in Seq(Item)
        /\ Len(Append(Queue, prod.item)) = Used + 1
        /\ \A k \in 1 .. Used : Append(Queue, prod.item)[k] = Queue[k]
        /\ Append(Queue, prod.item)[Used + 1] = prod.item
    BY <1>5, <2>1, AppendProperties, SMT
  <2>3. \A k \in 1 .. Used + 1 : Queue'[k] = Append(Queue, prod.item)[k]
    BY <1>5, <1>6, <1>7, <2>1, <2>2, SMT
  <2> QED
    BY <1>6, <2>2, <2>3, SeqEqual
<1> QED
  BY <1>2, <1>3, <1>5, <1>8 DEF Fifo!Accept

\* try_pop hands out the oldest item with the tail store.
LEMMA PopHandsOut == ASSUME IInv, IInv', PopStore PROVE Fifo!HandOut
<1>1. TypeOK /\ ConsInv
  BY DEF IInv
<1>2. /\ tail' = NextIndex(tail) /\ tail # head /\ head' = head /\ slots' = slots
      /\ cons.pc = "store" /\ cons'.pc = "idle" /\ out' = cons.item
  BY <1>1 DEF PopStore, ConsInv, TypeOK
<1>3. Used' = Used - 1 /\ Used > 0 /\ Used \in Nat
  BY <1>1, <1>2, CapAssumption, SMT DEF TypeOK, Index, NextIndex, Used
<1>4. ASSUME NEW k \in 1 .. Used - 1 PROVE Front(k - 1)' = Front(k)
  <2>1. At(k - 1)' = At(k)
    BY <1>1, <1>2, CapAssumption, SMT DEF TypeOK, Index, NextIndex, At, Used
  <2> QED
    BY <1>2, <2>1, <1>3, SMT DEF Front
<1>5. /\ Queue \in Seq(Item) /\ Len(Queue) = Used
      /\ \A k \in 1 .. Used : Queue[k] = Front(k - 1)
  BY QueueType DEF QueueOK
<1>6. /\ Queue' \in Seq(Item) /\ Len(Queue') = Used - 1
      /\ \A k \in 1 .. Used - 1 : Queue'[k] = Front(k)
  <2>1. /\ Queue' \in Seq(Item) /\ Len(Queue') = Used'
        /\ \A k \in 1 .. Used' : Queue'[k] = Front(k - 1)'
    <3>1. QueueOK'
      BY QueueType, PTL
    <3> QED
      BY <3>1 DEF QueueOK
  <2> QED
    BY <2>1, <1>3, <1>4
<1>7. Queue # <<>>
  BY <1>3, <1>5, SMT
<1>8. Head(Queue) = cons.item
  BY <1>2, <1>3, <1>5, <1>7, SMT DEF Front
<1>9. Queue' = Tail(Queue)
  <2>1. /\ Tail(Queue) \in Seq(Item) /\ Len(Tail(Queue)) = Used - 1
        /\ \A k \in 1 .. Used - 1 : Tail(Queue)[k] = Queue[k + 1]
    BY <1>3, <1>5, <1>7, SMT
  <2>2. \A k \in 1 .. Used - 1 : Queue'[k] = Tail(Queue)[k]
    BY <1>3, <1>5, <1>6, <2>1, SMT
  <2> QED
    BY <1>6, <2>1, <2>2, SeqEqual
<1> QED
  BY <1>2, <1>7, <1>8, <1>9 DEF Fifo!HandOut

\* No other step of try_push or try_pop changes the queue.
LEMMA OthersStutter ==
    ASSUME IInv, [Next]_vars, ~PushStore, ~PopStore
    PROVE  UNCHANGED <<Queue, out>>
<1>1. TypeOK /\ ProdInv /\ ConsInv /\ Used \in Nat
  BY UsedType, SMT DEF IInv
<1>2. CASE PushWrite
  <2>1. /\ slots' = [slots EXCEPT ![head] = prod.item]
        /\ head' = head /\ tail' = tail /\ cons' = cons /\ out' = out
    BY <1>1, <1>2 DEF PushWrite, ProdInv
  <2>2. ASSUME NEW k \in 1 .. Used PROVE Front(k - 1)' = Front(k - 1)
    <3>1. k - 1 \in 0 .. Used - 1
      BY <1>1, SMT
    <3>2. At(k - 1) \in Index /\ At(k - 1) # head
      BY <1>1, <3>1, AtInUse
    <3>3. At(k - 1)' = At(k - 1)
      BY <2>1 DEF At
    <3>4. slots'[At(k - 1)] = slots[At(k - 1)]
      BY <1>1, <2>1, <3>2 DEF TypeOK
    <3> QED
      BY <2>1, <3>3, <3>4 DEF Front
  <2>3. Used' = Used
    BY <2>1 DEF Used
  <2> QED
    BY <2>1, <2>2, <2>3, SameQueue
<1>3. CASE PopRead
  <2>1. /\ slots' = [slots EXCEPT ![tail] = Uninit]
        /\ head' = head /\ tail' = tail /\ out' = out
        /\ cons.pc = "test" /\ cons'.pc = "store" /\ cons'.item = slots[tail]
    BY <1>1, <1>3 DEF PopRead, ConsInv, TypeOK
  <2>2. ASSUME NEW k \in 1 .. Used PROVE Front(k - 1)' = Front(k - 1)
    <3>1. k - 1 \in 0 .. Used - 1
      BY <1>1, SMT
    <3>2. At(k - 1) \in Index /\ (At(k - 1) = tail <=> k - 1 = 0)
      BY <1>1, <3>1, AtInUse
    <3>3. At(k - 1)' = At(k - 1)
      BY <2>1 DEF At
    <3>4. k - 1 # 0 => slots'[At(k - 1)] = slots[At(k - 1)]
      BY <1>1, <2>1, <3>2 DEF TypeOK
    <3> QED
      BY <2>1, <3>2, <3>3, <3>4 DEF Front
  <2>3. Used' = Used
    BY <2>1 DEF Used
  <2> QED
    BY <2>1, <2>2, <2>3, SameQueue
<1>4. CASE ~PushWrite /\ ~PopRead
  <2>1. /\ slots' = slots /\ head' = head /\ tail' = tail /\ out' = out
        /\ cons'.pc = "store" <=> cons.pc = "store"
        /\ cons'.item = cons.item
    BY <1>1, <1>4 DEF Next, Producer, Consumer, PushBegin, PushLoad, PushFull,
       PopBegin, PopLoad, PopEmpty, vars, TypeOK
  <2>2. Used' = Used /\ \A k \in 1 .. Used : Front(k - 1)' = Front(k - 1)
    BY <2>1 DEF Used, Front, At
  <2> QED
    BY <2>1, <2>2, SameQueue
<1> QED
  BY <1>2, <1>3, <1>4

\* The ring of ring.rs implements the bounded queue, for every capacity: a
\* push takes effect with its head store, a pop with its tail store.
THEOREM RingImplementsFifo == Spec => IsFifo
<1>1. Init => Fifo!Init
  <2> SUFFICES ASSUME Init PROVE Fifo!Init
    OBVIOUS
  <2>1. IInv /\ Used = 0
    BY InitHolds, SMT DEF Init, Used
  <2>2. Queue = <<>>
    BY <2>1, QueueType, SMT DEF QueueOK
  <2> QED
    BY <2>2 DEF Init, Fifo!Init
<1>2. IInv /\ IInv' /\ [Next]_vars => [Fifo!Next]_(Fifo!vars)
  <2> SUFFICES ASSUME IInv, IInv', [Next]_vars PROVE [Fifo!Next]_(Fifo!vars)
    OBVIOUS
  <2>1. CASE PushStore
    <3>1. prod.item \in Item
      BY DEF IInv, TypeOK
    <3> QED
      BY <2>1, <3>1, PushAccepts DEF Fifo!Next
  <2>2. CASE PopStore
    BY <2>2, PopHandsOut DEF Fifo!Next
  <2>3. CASE ~PushStore /\ ~PopStore
    BY <2>3, OthersStutter DEF Fifo!vars
  <2> QED
    BY <2>1, <2>2, <2>3
<1> QED
  BY Inductive, <1>1, <1>2, PTL DEF Spec, IsFifo, Fifo!Spec

----------------------------------------------------------------------------
(* The answer path.                                                        *)

\* Captures are numbered in the order they are heard and passed on in that order;
\* the one still being decoded is the last.
Frames == Sets \cup Others
Entry == [frame : Frames, seq : Nat]

RingOK(q, from, upto) ==
    /\ q \in Seq(Entry) /\ Len(q) <= RingRoom
    /\ \A i \in 1 .. Len(q) : from < q[i].seq /\ q[i].seq <= upto
    /\ \A i, j \in 1 .. Len(q) : i < j => q[i].seq < q[j].seq

Passed == IF held = None THEN sniffSeq ELSE sniffSeq - 1

CaptureInv ==
    /\ sniffSeq \in Nat /\ sniffSeq <= MaxCaptures /\ accountsFor \in Nat /\ accountsFor <= sniffSeq
    /\ RingOK(rxRing, accountsFor, Passed)
    /\ held # None => held.frame \in Frames /\ held.seq = sniffSeq /\ accountsFor < sniffSeq

\* The last forward frame on the bus is x's, or one more has followed it.
Level(x) == busEpoch = x.epoch /\ forwards = x.nth
Ahead(x) == busEpoch = Plus(x.epoch, 1, EpochModulus) /\ forwards = x.nth + 1

Numbered(x) == x.epoch \in 0 .. EpochModulus - 1 /\ x.nth \in Nat

\* What is held or staged is at most one forward frame old: an own frame that
\* started beside it, or the capture after which a stale answer is dropped.
EpochInv ==
    /\ busEpoch \in 0 .. EpochModulus - 1 /\ txBusy \in BOOLEAN
    /\ forwards \in Nat /\ (txBusy => forwards > 0)
    /\ held # None => Numbered(held) /\ (IF txBusy THEN Ahead(held) ELSE Level(held))
    /\ answerCell # None =>
        /\ Numbered(answerCell)
        /\ Ahead(answerCell) \/ (~txBusy /\ Level(answerCell))

CopyType == [gen : 0 .. GenModulus - 1, accountsFor : Nat, word : Value \cup {None}]
Even(c) == copies[c].gen % 2 = 0
Writing == writer \in {"accounts", "word", "settle"}

\* A copy's generation is odd exactly while its words are being written, and the
\* live copy's are not.
CopyInv ==
    /\ live \in {0, 1} /\ writer \in {"idle", "accounts", "word", "settle", "flip"}
    /\ copies \in [{0, 1} -> CopyType]
    /\ \A c \in {0, 1} : copies[c].accountsFor <= accountsFor
    /\ \A c \in {0, 1} : Even(c) <=> ~(Writing /\ c = 1 - live)
    /\ writer \in {"word", "settle", "flip"} => copies[1 - live].accountsFor = accountsFor
    /\ writer \in {"settle", "flip"} => copies[1 - live].word = unit

\* d generation stores after the look-up read its copy's generation: while there
\* was none, and the generation is even, what it has read is what the copy holds.
Since(d) ==
    /\ copies[reader.copy].gen = Plus(reader.gen, d, GenModulus)
    /\ d = 0 /\ reader.gen % 2 = 0 =>
        /\ reader.pc \in {"word", "settled"} => reader.accountsFor = copies[reader.copy].accountsFor
        /\ reader.pc = "settled" => reader.word = copies[reader.copy].word

ReaderType ==
    [pc : {"idle", "gen", "accounts", "word", "settled"} \cup Outcomes, copy : {0, 1},
     gen : 0 .. GenModulus - 1, accountsFor : Nat, word : Value \cup {None},
     flips : {0, 1}, spanned : Nat]

LookInv ==
    /\ reader \in ReaderType
    /\ reader.pc = "idle" => reader = Idle
    /\ reader.pc # "idle" => held # None /\ reader.spanned < GenModulus
    /\ reader.pc # "idle" /\ reader.flips = 0 => reader.copy = live /\ reader.spanned = 0
    /\ reader.pc \in {"accounts", "word", "settled"} => \E d \in 0 .. reader.spanned : Since(d)
    /\ reader.pc = "torn" => reader.flips > 0

\* The table of a query that found it up to date stays so until the look-up.
ReadyInv ==
    held # None /\ held.ready =>
        /\ accountsFor = sniffSeq - 1 /\ copies[live].accountsFor = accountsFor
        /\ reader.pc # "idle" => copies[reader.copy].accountsFor = accountsFor
        /\ reader.pc \in {"word", "settled"} => reader.accountsFor = accountsFor
        /\ reader.pc # "behind"

\* What h, the register after each capture, says of capture x.
Tells(h, x) == h[x.seq] = IF x.frame.kind = "set" THEN x.frame.value ELSE h[x.seq - 1]

\* The unit, and a copy not being written, hold the register as it was after the
\* last capture they account for, or know nothing; what is read as the answer is
\* the register as it was before the query.
History(h) ==
    /\ h[sniffSeq] = truth
    /\ held # None => Tells(h, held) /\ held.before = h[sniffSeq - 1]
    /\ \A i \in 1 .. Len(rxRing) : Tells(h, rxRing[i])
    /\ unit \in {None, h[accountsFor]}
    /\ \A c \in {0, 1} : Even(c) => copies[c].word \in {None, h[copies[c].accountsFor]}
    /\ reader.pc = "answer" => reader.word = held.before

HistoryInv == truth \in Value /\ unit \in Value \cup {None} /\ \E h \in [0 .. sniffSeq -> Value] : History(h)

AnswerIInv ==
    /\ CaptureInv /\ EpochInv /\ CopyInv /\ LookInv /\ ReadyInv /\ HistoryInv
    /\ AnswersCurrent /\ AnswerFollowsItsQuery

----------------------------------------------------------------------------
(* Counters that wrap.                                                     *)
LEMMA PlusSmall ==
    ASSUME NEW m \in Nat \ {0}, NEW x \in 0 .. m - 1, NEW n \in 0 .. m - 1
    PROVE  Plus(x, n, m) = (IF x + n < m THEN x + n ELSE x + n - m) /\ Plus(x, n, m) \in 0 .. m - 1
<1>1. CASE x + n < m
  BY <1>1, SMT DEF Plus
<1>2. CASE x + n >= m
  <2>1. x + n - m \in 0 .. m - 1
    BY <1>2, SMT
  <2> QED BY <2>1, <1>2, SMT DEF Plus
<1> QED BY <1>1, <1>2, SMT

LEMMA Moduli ==
    /\ GenModulus \in Nat \ {0} /\ 2 < GenModulus /\ GenModulus % 2 = 0
    /\ EpochModulus \in Nat \ {0} /\ 1 < EpochModulus
    /\ 1 \in 0 .. GenModulus - 1 /\ 1 \in 0 .. EpochModulus - 1
    /\ 0 \in 0 .. GenModulus - 1 /\ EpochModulus - 1 \in 0 .. EpochModulus - 1
    /\ RingRoom \in Nat /\ RingRoom > 0
  BY AnswerAssumption, SMT

\* The bus epoch moves on and back, and one frame is seen.
LEMMA EpochStep ==
    ASSUME NEW e \in 0 .. EpochModulus - 1
    PROVE  /\ Plus(e, 1, EpochModulus) \in 0 .. EpochModulus - 1
           /\ Plus(e, 1, EpochModulus) # e
           /\ Plus(Plus(e, 1, EpochModulus), EpochModulus - 1, EpochModulus) = e
<1> DEFINE f == Plus(e, 1, EpochModulus)
<1>1. f = (IF e + 1 < EpochModulus THEN e + 1 ELSE e + 1 - EpochModulus) /\ f \in 0 .. EpochModulus - 1
  BY Moduli, PlusSmall
<1> HIDE DEF f
<1>2. Plus(f, EpochModulus - 1, EpochModulus) =
        IF f + (EpochModulus - 1) < EpochModulus THEN f + (EpochModulus - 1)
        ELSE f + (EpochModulus - 1) - EpochModulus
  BY Moduli, PlusSmall, <1>1
<1>3. f # e /\ Plus(f, EpochModulus - 1, EpochModulus) = e
  BY Moduli, <1>1, <1>2, SMT
<1> QED BY <1>1, <1>3 DEF f

\* A generation store turns the parity, and less than a round of them is seen.
LEMMA GenStep ==
    ASSUME NEW g \in 0 .. GenModulus - 1
    PROVE  /\ Plus(g, 1, GenModulus) \in 0 .. GenModulus - 1
           /\ Plus(g, 1, GenModulus) # g
           /\ Plus(g, 0, GenModulus) = g
           /\ Plus(g, 1, GenModulus) % 2 = 0 <=> g % 2 # 0
<1>1. Plus(g, 1, GenModulus) = (IF g + 1 < GenModulus THEN g + 1 ELSE g + 1 - GenModulus)
      /\ Plus(g, 1, GenModulus) \in 0 .. GenModulus - 1
  BY Moduli, PlusSmall
<1>2. Plus(g, 0, GenModulus) = IF g + 0 < GenModulus THEN g + 0 ELSE g + 0 - GenModulus
  BY Moduli, PlusSmall
<1>3. CASE g + 1 < GenModulus
  BY <1>1, <1>2, <1>3, Moduli, SMT
<1>4. CASE ~(g + 1 < GenModulus)
  <2>1. g + 1 = GenModulus /\ Plus(g, 1, GenModulus) = 0
    BY <1>1, <1>4, Moduli, SMT
  <2> QED BY <1>1, <1>2, <2>1, Moduli, SMT
<1> QED BY <1>3, <1>4

LEMMA GenRound ==
    ASSUME NEW g \in 0 .. GenModulus - 1, NEW d \in Nat, d < GenModulus
    PROVE  /\ Plus(g, d, GenModulus) = g => d = 0
           /\ d + 1 < GenModulus =>
                Plus(Plus(g, d, GenModulus), 1, GenModulus) = Plus(g, d + 1, GenModulus)
<1>0. d \in 0 .. GenModulus - 1
  BY Moduli, SMT
<1> DEFINE f == Plus(g, d, GenModulus)
<1>1. f = (IF g + d < GenModulus THEN g + d ELSE g + d - GenModulus) /\ f \in 0 .. GenModulus - 1
  BY Moduli, PlusSmall, <1>0
<1> HIDE DEF f
<1>2. f = g => d = 0
  BY <1>1, <1>0, Moduli, SMT
<1>3. ASSUME d + 1 < GenModulus PROVE Plus(f, 1, GenModulus) = Plus(g, d + 1, GenModulus)
  <2>1. d + 1 \in 0 .. GenModulus - 1
    BY <1>3, Moduli, SMT
  <2>2. Plus(g, d + 1, GenModulus) =
          IF g + (d + 1) < GenModulus THEN g + (d + 1) ELSE g + (d + 1) - GenModulus
    BY Moduli, PlusSmall, <2>1
  <2>3. Plus(f, 1, GenModulus) = IF f + 1 < GenModulus THEN f + 1 ELSE f + 1 - GenModulus
    BY Moduli, PlusSmall, <1>1
  <2> QED BY <1>0, <1>1, <2>2, <2>3, <1>3, Moduli, SMT
<1> QED BY <1>2, <1>3 DEF f

----------------------------------------------------------------------------
(* The capture ring.                                                       *)
LEMMA Entries ==
    ASSUME NEW q \in Seq(Entry)
    PROVE  /\ Len(q) \in Nat
           /\ \A i \in 1 .. Len(q) : q[i].seq \in Nat /\ q[i].frame \in Frames
<1>1. Len(q) \in Nat /\ \A i \in 1 .. Len(q) : q[i] \in Entry
  BY SMT
<1> QED BY <1>1 DEF Entry

LEMMA RingReaches ==
    ASSUME NEW q, NEW n \in Nat, NEW m \in Nat, NEW k \in Nat, RingOK(q, n, m), m <= k
    PROVE  RingOK(q, n, k)
<1>1. q \in Seq(Entry) /\ \A i \in 1 .. Len(q) : q[i].seq \in Nat
  BY Entries DEF RingOK
<1> QED BY <1>1, SMT DEF RingOK

\* What Pushed leaves is what was there, and the capture if there was room.
LEMMA PushedIs ==
    ASSUME NEW q \in Seq(Entry), NEW x,
           x.frame \in Frames, x.seq \in Nat
    PROVE  /\ Pushed(q, x) \in Seq(Entry)
           /\ Len(q) <= RingRoom => Len(Pushed(q, x)) <= RingRoom
           /\ Len(Pushed(q, x)) \in {Len(q), Len(q) + 1}
           /\ \A i \in 1 .. Len(q) : Pushed(q, x)[i] = q[i]
           /\ Len(Pushed(q, x)) = Len(q) + 1 =>
                Pushed(q, x)[Len(q) + 1] = [frame |-> x.frame, seq |-> x.seq]
<1> DEFINE e == [frame |-> x.frame, seq |-> x.seq]
<1>1. e \in Entry
  BY DEF Entry
<1>2. Pushed(q, x) = IF Len(q) < RingRoom THEN Append(q, e) ELSE q
  BY DEF Pushed
<1> HIDE DEF e
<1>3. CASE Len(q) < RingRoom
  <2>1. Pushed(q, x) = Append(q, e)
    BY <1>2, <1>3
  <2>2. /\ Append(q, e) \in Seq(Entry) /\ Len(Append(q, e)) = Len(q) + 1
        /\ \A i \in 1 .. Len(q) : Append(q, e)[i] = q[i]
        /\ Append(q, e)[Len(q) + 1] = e
    BY <1>1, SMT
  <2>3. Len(q) + 1 <= RingRoom
    BY <1>3, Moduli, SMT
  <2> QED BY <2>1, <2>2, <2>3 DEF e
<1>4. CASE ~(Len(q) < RingRoom)
  <2>1. Pushed(q, x) = q
    BY <1>2, <1>4
  <2>2. Len(q) # Len(q) + 1
    BY SMT
  <2> QED BY <2>1, <2>2
<1> QED BY <1>3, <1>4

LEMMA PushedOK ==
    ASSUME NEW q, NEW n \in Nat, NEW m \in Nat, RingOK(q, n, m), n <= m,
           NEW x, x.frame \in Frames, x.seq = m + 1
    PROVE  RingOK(Pushed(q, x), n, m + 1)
<1> DEFINE p == Pushed(q, x)
<1>0. q \in Seq(Entry) /\ Len(q) <= RingRoom /\ x.seq \in Nat
  BY SMT DEF RingOK
<1>1. /\ p \in Seq(Entry) /\ Len(p) <= RingRoom
      /\ Len(p) \in {Len(q), Len(q) + 1}
      /\ \A i \in 1 .. Len(q) : p[i] = q[i]
      /\ Len(p) = Len(q) + 1 => p[Len(q) + 1] = [frame |-> x.frame, seq |-> x.seq]
  <2>1. /\ Pushed(q, x) \in Seq(Entry)
        /\ Len(q) <= RingRoom => Len(Pushed(q, x)) <= RingRoom
        /\ Len(Pushed(q, x)) \in {Len(q), Len(q) + 1}
        /\ \A i \in 1 .. Len(q) : Pushed(q, x)[i] = q[i]
        /\ Len(Pushed(q, x)) = Len(q) + 1 =>
             Pushed(q, x)[Len(q) + 1] = [frame |-> x.frame, seq |-> x.seq]
    BY <1>0, PushedIs, ZenonT(30)
  <2> QED BY <2>1, <1>0
<1> HIDE DEF p
<1>2. /\ \A i \in 1 .. Len(q) : q[i].seq \in Nat /\ n < q[i].seq /\ q[i].seq <= m
      /\ \A i, j \in 1 .. Len(q) : i < j => q[i].seq < q[j].seq
      /\ Len(q) \in Nat
  BY <1>0, Entries DEF RingOK
<1>3. \A i \in 1 .. Len(p) : \/ i \in 1 .. Len(q) /\ p[i].seq = q[i].seq
                             \/ i = Len(q) + 1 /\ p[i].seq = m + 1
  <2> TAKE i \in 1 .. Len(p)
  <2>1. i \in 1 .. Len(q) \/ (i = Len(q) + 1 /\ Len(p) = Len(q) + 1)
    BY <1>1, <1>2, SMT
  <2>2. CASE i \in 1 .. Len(q)
    BY <2>2, <1>1
  <2>3. CASE i = Len(q) + 1 /\ Len(p) = Len(q) + 1
    <3>1. p[i] = [frame |-> x.frame, seq |-> x.seq]
      BY <2>3, <1>1
    <3>2. p[i].seq = x.seq
      BY <3>1, SMT
    <3> QED BY <3>2, <2>3
  <2> QED BY <2>1, <2>2, <2>3
<1>4. \A i \in 1 .. Len(p) : n < p[i].seq /\ p[i].seq <= m + 1
  BY <1>2, <1>3, SMT
<1>5. \A i, j \in 1 .. Len(p) : i < j => p[i].seq < p[j].seq
  BY <1>2, <1>3, SMTT(20)
<1> QED BY <1>1, <1>4, <1>5 DEF RingOK, p

----------------------------------------------------------------------------
(* Captures keep their order.                                              *)
LEMMA CaptureNumbers ==
    ASSUME CaptureInv
    PROVE  /\ sniffSeq \in Nat /\ accountsFor \in Nat /\ accountsFor <= sniffSeq
           /\ Passed \in Nat /\ accountsFor <= Passed /\ Passed <= sniffSeq
           /\ held # None => Passed + 1 = sniffSeq
  BY SMT DEF CaptureInv, Passed

\* The held capture goes to the ring.
LEMMA HeldPassed ==
    ASSUME CaptureInv, held # None
    PROVE  RingOK(Pushed(rxRing, held), accountsFor, sniffSeq)
<1>1. RingOK(Pushed(rxRing, held), accountsFor, Passed + 1)
  <2>1. held.seq = Passed + 1 /\ held.frame \in Frames
    BY CaptureNumbers DEF CaptureInv
  <2>2. RingOK(rxRing, accountsFor, Passed)
    BY DEF CaptureInv
  <2> QED BY <2>1, <2>2, CaptureNumbers, PushedOK
<1> QED BY <1>1, CaptureNumbers

LEMMA PassesOn ==
    ASSUME CaptureInv, held # None, rxRing' = Pushed(rxRing, held), held' = None,
           sniffSeq' = sniffSeq, accountsFor' = accountsFor
    PROVE  CaptureInv'
<1>1. RingOK(rxRing', accountsFor', Passed')
  BY HeldPassed DEF Passed
<1> QED BY <1>1 DEF CaptureInv

\* What Capture makes of a frame, and the ring with the capture before it passed on.
Caught(frame) ==
    [frame |-> frame, seq |-> sniffSeq + 1,
     epoch |-> IF frame.kind = "backward" THEN busEpoch ELSE Plus(busEpoch, 1, EpochModulus),
     before |-> truth, nth |-> IF frame.kind = "backward" THEN forwards ELSE forwards + 1,
     ready |-> copies[live].gen # 0 /\ copies[live].accountsFor = sniffSeq]

RingBefore == IF held = None THEN rxRing ELSE Pushed(rxRing, held)

LEMMA CaptureEffect ==
    ASSUME NEW frame, Capture(frame)
    PROVE  /\ reader = Idle /\ ~txBusy /\ NoStaleCell /\ sniffSeq < MaxCaptures
           /\ sniffSeq' = sniffSeq + 1
           /\ busEpoch' = Caught(frame).epoch /\ forwards' = Caught(frame).nth
           /\ truth' = IF frame.kind = "set" THEN frame.value ELSE truth
           /\ \/ held' = Caught(frame) /\ rxRing' = RingBefore
              \/ held' = None /\ rxRing' = Pushed(RingBefore, Caught(frame))
           /\ UNCHANGED <<txBusy, reader, answerCell, answerSent, accountsFor, unit, writer, copies, live>>
  BY DEF Capture, Caught, RingBefore, sniffer

LEMMA CaughtFields ==
    ASSUME NEW frame
    PROVE  /\ Caught(frame).frame = frame /\ Caught(frame).seq = sniffSeq + 1
           /\ Caught(frame).before = truth
           /\ Caught(frame).epoch = IF frame.kind = "backward" THEN busEpoch
                                    ELSE Plus(busEpoch, 1, EpochModulus)
           /\ Caught(frame).nth = IF frame.kind = "backward" THEN forwards ELSE forwards + 1
           /\ Caught(frame).ready = (copies[live].gen # 0 /\ copies[live].accountsFor = sniffSeq)
  BY DEF Caught

LEMMA CaptureComes ==
    ASSUME CaptureInv, NEW frame \in Frames, Capture(frame)
    PROVE  CaptureInv'
<1>0. sniffSeq \in Nat /\ accountsFor \in Nat /\ accountsFor <= sniffSeq
  BY CaptureNumbers
<1>1. RingOK(RingBefore, accountsFor, sniffSeq)
  <2>1. CASE held = None
    BY <2>1 DEF CaptureInv, Passed, RingBefore
  <2>2. CASE held # None
    BY <2>2, HeldPassed DEF RingBefore
  <2> QED BY <2>1, <2>2
<1>2. /\ sniffSeq' = sniffSeq + 1 /\ accountsFor' = accountsFor /\ sniffSeq < MaxCaptures
      /\ \/ held' = Caught(frame) /\ rxRing' = RingBefore
         \/ held' = None /\ rxRing' = Pushed(RingBefore, Caught(frame))
  BY CaptureEffect
<1>3. /\ sniffSeq' \in Nat /\ sniffSeq' <= MaxCaptures /\ accountsFor' \in Nat
      /\ accountsFor' <= sniffSeq' /\ accountsFor' < sniffSeq' /\ sniffSeq + 1 \in Nat
      /\ sniffSeq <= sniffSeq + 1 /\ sniffSeq' - 1 = sniffSeq
  BY <1>0, <1>2, AnswerAssumption, SMT
<1>4. CASE held' = Caught(frame) /\ rxRing' = RingBefore
  <2>1. RingOK(RingBefore, accountsFor, sniffSeq + 1)
    BY <1>0, <1>1, <1>3, RingReaches
  <2>2. Passed' \in {sniffSeq, sniffSeq + 1}
    BY <1>2, <1>3 DEF Passed
  <2>3. RingOK(rxRing', accountsFor', Passed')
    BY <1>1, <1>2, <1>4, <2>1, <2>2
  <2>4. held'.frame \in Frames /\ held'.seq = sniffSeq'
    BY <1>2, <1>4, CaughtFields
  <2> QED BY <1>3, <2>3, <2>4 DEF CaptureInv
<1>5. CASE held' = None /\ rxRing' = Pushed(RingBefore, Caught(frame))
  <2>1. RingOK(Pushed(RingBefore, Caught(frame)), accountsFor, sniffSeq + 1)
    BY <1>0, <1>1, CaughtFields, PushedOK
  <2>2. RingOK(rxRing', accountsFor', Passed')
    BY <1>2, <1>5, <2>1 DEF Passed
  <2> QED BY <1>3, <1>5, <2>2 DEF CaptureInv
<1> QED BY <1>2, <1>4, <1>5

\* The first capture of the ring, and the rest.
LEMMA FirstPassed ==
    ASSUME CaptureInv, rxRing # <<>>
    PROVE  /\ Len(rxRing) \in Nat /\ 1 \in 1 .. Len(rxRing) /\ Head(rxRing) = rxRing[1]
           /\ Len(Tail(rxRing)) = Len(rxRing) - 1
           /\ \A i \in 1 .. Len(rxRing) - 1 : i + 1 \in 1 .. Len(rxRing) /\ Tail(rxRing)[i] = rxRing[i + 1]
           /\ Tail(rxRing) \in Seq(Entry)
<1>1. rxRing \in Seq(Entry)
  BY DEF CaptureInv, RingOK
<1> QED BY <1>1, SMT

LEMMA CaptureDrained ==
    ASSUME CaptureInv, Drain
    PROVE  /\ CaptureInv'
           /\ accountsFor < accountsFor' /\ accountsFor' <= Passed
<1>0. rxRing # <<>> /\ accountsFor' = Head(rxRing).seq /\ rxRing' = Tail(rxRing)
      /\ held' = held /\ sniffSeq' = sniffSeq
  BY DEF Drain, interrupt
<1> DEFINE q == rxRing  t == Tail(rxRing)  a == accountsFor'
<1>1. /\ q \in Seq(Entry) /\ Len(q) <= RingRoom
      /\ \A i \in 1 .. Len(q) : accountsFor < q[i].seq /\ q[i].seq <= Passed
      /\ \A i, j \in 1 .. Len(q) : i < j => q[i].seq < q[j].seq
  BY DEF CaptureInv, RingOK
<1>2. Len(q) \in Nat /\ \A i \in 1 .. Len(q) : q[i].seq \in Nat
  BY <1>1, Entries
<1>3. /\ 1 \in 1 .. Len(q) /\ Len(t) = Len(q) - 1 /\ a = q[1].seq /\ t \in Seq(Entry)
      /\ \A i \in 1 .. Len(q) - 1 : i + 1 \in 1 .. Len(q) /\ t[i] = q[i + 1]
  BY <1>0, FirstPassed
<1> HIDE DEF q, t, a
<1>4. a \in Nat /\ accountsFor < a /\ a <= Passed /\ Len(t) <= RingRoom
  BY <1>1, <1>2, <1>3, Moduli, SMT
<1>5. \A i \in 1 .. Len(t) : t[i] = q[i + 1] /\ i + 1 \in 1 .. Len(q) /\ i \in Nat /\ 1 < i + 1
  BY <1>2, <1>3, SMT
<1>6. \A i \in 1 .. Len(t) : a < t[i].seq /\ t[i].seq <= Passed
  BY <1>1, <1>3, <1>5
<1>7. \A i, j \in 1 .. Len(t) : i < j => t[i].seq < t[j].seq
  <2> SUFFICES ASSUME NEW i \in 1 .. Len(t), NEW j \in 1 .. Len(t), i < j
               PROVE  t[i].seq < t[j].seq
    OBVIOUS
  <2>1. i + 1 < j + 1
    BY <1>5, SMT
  <2> QED BY <2>1, <1>1, <1>5
<1>8. RingOK(t, a, Passed)
  BY <1>3, <1>4, <1>6, <1>7 DEF RingOK
<1>9. a <= sniffSeq /\ (held # None => a < sniffSeq)
  <2>1. /\ Passed \in Nat /\ sniffSeq \in Nat /\ Passed <= sniffSeq
        /\ held # None => Passed + 1 = sniffSeq
    BY CaptureNumbers
  <2> QED BY <1>4, <2>1, SMT
<1> QED BY <1>0, <1>4, <1>8, <1>9 DEF CaptureInv, a, t, Passed

----------------------------------------------------------------------------
(* An answer is staged, and goes out, under its own query.                 *)
LEMMA EpochCaptured ==
    ASSUME EpochInv, NEW frame \in Frames, Capture(frame)
    PROVE  EpochInv'
<1> DEFINE x == Caught(frame)
<1>0. /\ ~txBusy /\ NoStaleCell /\ busEpoch' = x.epoch /\ forwards' = x.nth
      /\ held' = x \/ held' = None
      /\ txBusy' = txBusy /\ answerCell' = answerCell
  BY CaptureEffect
<1>1. /\ busEpoch \in 0 .. EpochModulus - 1 /\ forwards \in Nat
      /\ x.epoch \in {busEpoch, Plus(busEpoch, 1, EpochModulus)}
      /\ x.nth \in {forwards, forwards + 1}
      /\ \/ x.epoch = Plus(busEpoch, 1, EpochModulus) /\ x.nth = forwards + 1
         \/ x.epoch = busEpoch /\ x.nth = forwards
  BY CaughtFields DEF EpochInv
<1> HIDE DEF x
<1>2. x.epoch \in 0 .. EpochModulus - 1 /\ x.nth \in Nat
  <2>1. forwards + 1 \in Nat
    BY <1>1, SMT
  <2> QED BY <1>1, <2>1, EpochStep
<1>3. held' # None => Numbered(held') /\ ~txBusy' /\ Level(held)'
  BY <1>0, <1>2 DEF Numbered, Level
<1>4. ASSUME answerCell # None
      PROVE  Numbered(answerCell) /\ (Ahead(answerCell)' \/ Level(answerCell)')
  <2>1. Numbered(answerCell) /\ answerCell.epoch = busEpoch
    BY <1>0, <1>4 DEF EpochInv, NoStaleCell
  <2>2. ~Ahead(answerCell)
    BY <1>1, <2>1, EpochStep DEF Ahead
  <2>3. busEpoch = answerCell.epoch /\ forwards = answerCell.nth
    BY <1>4, <2>2 DEF EpochInv, Level
  <2> QED BY <1>0, <1>1, <2>1, <2>3 DEF Ahead, Level
<1> QED BY <1>0, <1>2, <1>3, <1>4 DEF EpochInv

\* A yielded frame is taken back.
LEMMA AheadYields ==
    ASSUME NEW x, Numbered(x), Ahead(x),
           busEpoch' = Plus(busEpoch, EpochModulus - 1, EpochModulus), forwards' = forwards - 1
    PROVE  busEpoch' = x.epoch /\ forwards' = x.nth
<1>1. forwards' = x.nth
  BY SMT DEF Numbered, Ahead
<1> QED BY <1>1, EpochStep DEF Numbered, Ahead

LEMMA EpochOwnFrame ==
    ASSUME EpochInv, OwnFrameStarts \/ \E yielded \in BOOLEAN : OwnFrameEnds(yielded)
    PROVE  EpochInv'
<1>1. /\ busEpoch \in 0 .. EpochModulus - 1 /\ forwards \in Nat
      /\ forwards + 1 \in Nat /\ forwards + 1 > 0
      /\ txBusy => forwards - 1 \in Nat
      /\ held # None => held.nth \in Nat /\ held.nth + 1 - 1 = held.nth
      /\ answerCell # None => answerCell.nth \in Nat /\ answerCell.nth + 1 - 1 = answerCell.nth
  BY SMT DEF EpochInv, Numbered
<1>2. CASE OwnFrameStarts
  <2>1. /\ ~txBusy /\ txBusy' = TRUE /\ busEpoch' = Plus(busEpoch, 1, EpochModulus)
        /\ forwards' = forwards + 1 /\ answerCell = None /\ answerCell' = None /\ held' = held
    BY <1>2 DEF OwnFrameStarts
  <2>2. busEpoch' \in 0 .. EpochModulus - 1
    BY <1>1, <2>1, EpochStep
  <2>3. held # None => Numbered(held) /\ Ahead(held)'
    BY <2>1 DEF EpochInv, Level, Ahead
  <2> QED BY <1>1, <2>1, <2>2, <2>3 DEF EpochInv
<1>3. ASSUME OwnFrameEnds(FALSE) PROVE EpochInv'
  <2>1. /\ held = None /\ held' = None /\ txBusy /\ txBusy' = FALSE
        /\ busEpoch' = busEpoch /\ forwards' = forwards /\ answerCell' = answerCell
    BY <1>3 DEF OwnFrameEnds
  <2>2. answerCell # None => Numbered(answerCell) /\ Ahead(answerCell)'
    BY <2>1 DEF EpochInv, Ahead
  <2> QED BY <1>1, <2>1, <2>2 DEF EpochInv
<1>4. ASSUME OwnFrameEnds(TRUE) PROVE EpochInv'
  <2>1. /\ txBusy /\ txBusy' = FALSE /\ held' = held /\ answerCell' = answerCell
        /\ busEpoch' = Plus(busEpoch, EpochModulus - 1, EpochModulus) /\ forwards' = forwards - 1
    BY <1>4 DEF OwnFrameEnds
  <2>2. busEpoch' \in 0 .. EpochModulus - 1
    BY <1>1, <2>1, Moduli, PlusSmall
  <2>3. held # None => Numbered(held) /\ Level(held)'
    <3> HAVE held # None
    <3>1. Numbered(held) /\ Ahead(held)
      BY <2>1 DEF EpochInv
    <3> QED BY <2>1, <3>1, AheadYields DEF Level
  <2>4. answerCell # None => Numbered(answerCell) /\ Level(answerCell)'
    <3> HAVE answerCell # None
    <3>1. Numbered(answerCell) /\ Ahead(answerCell)
      BY <2>1 DEF EpochInv
    <3> QED BY <2>1, <3>1, AheadYields DEF Level
  <2> QED BY <1>1, <2>1, <2>2, <2>3, <2>4 DEF EpochInv
<1> QED BY <1>2, <1>3, <1>4

\* An answer is staged with the numbers of the query it answers.
LEMMA EpochStaged ==
    ASSUME EpochInv, held' = None, UNCHANGED <<busEpoch, txBusy, forwards>>,
           \/ answerCell' = answerCell
           \/ answerCell' = None
           \/ held # None /\ answerCell'.epoch = held.epoch /\ answerCell'.nth = held.nth
    PROVE  EpochInv'
<1>1. CASE answerCell' = answerCell \/ answerCell' = None
  BY <1>1 DEF EpochInv, Numbered, Level, Ahead
<1>2. CASE held # None /\ answerCell'.epoch = held.epoch /\ answerCell'.nth = held.nth
  <2>1. Numbered(answerCell)' /\ (IF txBusy THEN Ahead(answerCell)' ELSE Level(answerCell)')
    BY <1>2 DEF EpochInv, Numbered, Level, Ahead
  <2> QED BY <1>2, <2>1 DEF EpochInv
<1> QED BY <1>1, <1>2

LEMMA EpochKept ==
    ASSUME EpochInv, UNCHANGED <<busEpoch, txBusy, forwards, held>>,
           answerCell' = answerCell \/ answerCell' = None
    PROVE  EpochInv'
  BY DEF EpochInv, Numbered, Level, Ahead

\* What fires has seen no other forward frame since its query.
LEMMA FiresInTurn ==
    ASSUME EpochInv, Fire
    PROVE  answerSent' # "too_late"
<1>1. Numbered(answerCell) /\ answerCell.epoch = busEpoch /\ answerCell # None /\ ~txBusy
  BY DEF EpochInv, Fire
<1>2. ~Ahead(answerCell)
  BY <1>1, EpochStep DEF Ahead, Numbered
<1>3. forwards = answerCell.nth
  BY <1>1, <1>2 DEF EpochInv, Level
<1> QED BY <1>3 DEF Fire

----------------------------------------------------------------------------
(* The two copies of the table.                                            *)
LEMMA TwoCopies ==
    ASSUME NEW l \in {0, 1}
    PROVE  /\ 1 - l \in {0, 1} /\ 1 - l # l /\ 1 - (1 - l) = l
           /\ \A c \in {0, 1} : c = l \/ c = 1 - l
  BY SMT

LEMMA CopyFields ==
    ASSUME NEW r \in CopyType
    PROVE  r.gen \in 0 .. GenModulus - 1 /\ r.accountsFor \in Nat /\ r.word \in Value \cup {None}
  BY DEF CopyType

\* A store to a copy changes one of its words.
LEMMA CopyWords ==
    ASSUME NEW r \in CopyType, NEW g \in 0 .. GenModulus - 1, NEW a \in Nat, NEW v \in Value \cup {None}
    PROVE  /\ LET n == [r EXCEPT !.gen = g] IN
                n \in CopyType /\ n.gen = g /\ n.accountsFor = r.accountsFor /\ n.word = r.word
           /\ LET n == [r EXCEPT !.accountsFor = a] IN
                n \in CopyType /\ n.gen = r.gen /\ n.accountsFor = a /\ n.word = r.word
           /\ LET n == [r EXCEPT !.word = v] IN
                n \in CopyType /\ n.gen = r.gen /\ n.accountsFor = r.accountsFor /\ n.word = v
  BY SMT DEF CopyType

\* The five stores of a publication, each of them on the copy that is not live.
Publication == PublishBegins \/ PublishAccounts \/ PublishWord \/ PublishSettles \/ PublishFlips

StoreOf(from, to, n) ==
    /\ writer = from /\ writer' = to /\ n \in CopyType
    /\ copies' = [copies EXCEPT ![1 - live] = n]
    /\ UNCHANGED <<accountsFor, unit>>

LEMMA PublicationStores ==
    ASSUME CopyInv, accountsFor \in Nat, unit \in Value \cup {None}, Publication
    PROVE  \E n :
            LET m == copies[1 - live] IN
            \/ /\ StoreOf("idle", "accounts", n) /\ live' = live
               /\ n.gen = Plus(m.gen, 1, GenModulus) /\ n.accountsFor = m.accountsFor /\ n.word = m.word
            \/ /\ StoreOf("accounts", "word", n) /\ live' = live
               /\ n.gen = m.gen /\ n.accountsFor = accountsFor /\ n.word = m.word
            \/ /\ StoreOf("word", "settle", n) /\ live' = live
               /\ n.gen = m.gen /\ n.accountsFor = m.accountsFor /\ n.word = unit
            \/ /\ StoreOf("settle", "flip", n) /\ live' = live
               /\ n.gen = Plus(m.gen, 1, GenModulus) /\ n.accountsFor = m.accountsFor /\ n.word = m.word
            \/ StoreOf("flip", "idle", n) /\ live' = 1 - live /\ n = m
<1> DEFINE m == copies[1 - live]
<1>1. m \in CopyType /\ m.gen \in 0 .. GenModulus - 1
  BY TwoCopies, CopyFields DEF CopyInv
<1>2. Plus(m.gen, 1, GenModulus) \in 0 .. GenModulus - 1
  BY <1>1, GenStep
<1> HIDE DEF m
<1>3. CASE PublishBegins
  <2> DEFINE n == [m EXCEPT !.gen = Plus(m.gen, 1, GenModulus)]
  <2>1. StoreOf("idle", "accounts", n) /\ live' = live
    BY <1>1, <1>2, <1>3, CopyWords DEF m, PublishBegins, Store, StoreOf, NextCopy, Generation
  <2>2. n.gen = Plus(m.gen, 1, GenModulus) /\ n.accountsFor = m.accountsFor /\ n.word = m.word
    BY <1>1, <1>2, SMT DEF CopyType
  <2> QED BY <2>1, <2>2 DEF m
<1>4. CASE PublishAccounts
  <2> DEFINE n == [m EXCEPT !.accountsFor = accountsFor]
  <2>1. StoreOf("accounts", "word", n) /\ live' = live
    BY <1>1, <1>4, CopyWords DEF m, PublishAccounts, Store, StoreOf, NextCopy
  <2>2. n.gen = m.gen /\ n.accountsFor = accountsFor /\ n.word = m.word
    BY <1>1, SMT DEF CopyType
  <2> QED BY <2>1, <2>2 DEF m
<1>5. CASE PublishWord
  <2> DEFINE n == [m EXCEPT !.word = unit]
  <2>1. StoreOf("word", "settle", n) /\ live' = live
    BY <1>1, <1>5, CopyWords DEF m, PublishWord, Store, StoreOf, NextCopy
  <2>2. n.gen = m.gen /\ n.accountsFor = m.accountsFor /\ n.word = unit
    BY <1>1, SMT DEF CopyType
  <2> QED BY <2>1, <2>2 DEF m
<1>6. CASE PublishSettles
  <2> DEFINE n == [m EXCEPT !.gen = Plus(m.gen, 1, GenModulus)]
  <2>1. StoreOf("settle", "flip", n) /\ live' = live
    BY <1>1, <1>2, <1>6, CopyWords DEF m, PublishSettles, Store, StoreOf, NextCopy, Generation
  <2>2. n.gen = Plus(m.gen, 1, GenModulus) /\ n.accountsFor = m.accountsFor /\ n.word = m.word
    BY <1>1, <1>2, SMT DEF CopyType
  <2> QED BY <2>1, <2>2 DEF m
<1>7. CASE PublishFlips
  <2>1. StoreOf("flip", "idle", m) /\ live' = 1 - live
    BY <1>1, <1>7 DEF m, PublishFlips, Store, StoreOf, NextCopy
  <2> QED BY <2>1 DEF m
<1> QED BY <1>3, <1>4, <1>5, <1>6, <1>7 DEF Publication

LEMMA StoredCopies ==
    ASSUME CopyInv, NEW n \in CopyType, copies' = [copies EXCEPT ![1 - live] = n]
    PROVE  /\ copies' \in [{0, 1} -> CopyType]
           /\ copies'[1 - live] = n /\ copies'[live] = copies[live]
  BY TwoCopies DEF CopyInv

LEMMA CopyPublished ==
    ASSUME CopyInv, accountsFor \in Nat, unit \in Value \cup {None}, Publication
    PROVE  CopyInv'
<1> DEFINE m == copies[1 - live]
<1>1. /\ live \in {0, 1} /\ 1 - live \in {0, 1} /\ 1 - live # live /\ 1 - (1 - live) = live
      /\ \A c \in {0, 1} : c = live \/ c = 1 - live
  BY TwoCopies DEF CopyInv
<1>2. /\ m \in CopyType /\ m.gen \in 0 .. GenModulus - 1 /\ m.accountsFor <= accountsFor
      /\ copies[live].accountsFor <= accountsFor /\ copies[live].gen % 2 = 0
      /\ m.gen % 2 = 0 <=> ~Writing
  BY <1>1, CopyFields DEF CopyInv, Even
<1>3. accountsFor <= accountsFor /\ (Plus(m.gen, 1, GenModulus) % 2 = 0 <=> m.gen % 2 # 0)
  BY <1>2, GenStep, SMT
<1>4. PICK n :
        \/ /\ StoreOf("idle", "accounts", n) /\ live' = live
           /\ n.gen = Plus(m.gen, 1, GenModulus) /\ n.accountsFor = m.accountsFor /\ n.word = m.word
        \/ /\ StoreOf("accounts", "word", n) /\ live' = live
           /\ n.gen = m.gen /\ n.accountsFor = accountsFor /\ n.word = m.word
        \/ /\ StoreOf("word", "settle", n) /\ live' = live
           /\ n.gen = m.gen /\ n.accountsFor = m.accountsFor /\ n.word = unit
        \/ /\ StoreOf("settle", "flip", n) /\ live' = live
           /\ n.gen = Plus(m.gen, 1, GenModulus) /\ n.accountsFor = m.accountsFor /\ n.word = m.word
        \/ StoreOf("flip", "idle", n) /\ live' = 1 - live /\ n = m
  BY PublicationStores
<1>5. /\ copies' \in [{0, 1} -> CopyType] /\ copies'[1 - live] = n /\ copies'[live] = copies[live]
      /\ accountsFor' = accountsFor /\ unit' = unit
  BY <1>4, StoredCopies DEF StoreOf
<1>6. /\ writer \in {"word", "settle", "flip"} => m.accountsFor = accountsFor
      /\ writer \in {"settle", "flip"} => m.word = unit
  BY DEF CopyInv
<1> HIDE DEF m
<1>7. CASE /\ live' = live
           /\ \/ /\ StoreOf("idle", "accounts", n)
                 /\ n.gen = Plus(m.gen, 1, GenModulus) /\ n.accountsFor = m.accountsFor
              \/ /\ StoreOf("settle", "flip", n) /\ n.word = m.word
                 /\ n.gen = Plus(m.gen, 1, GenModulus) /\ n.accountsFor = m.accountsFor
              \/ /\ StoreOf("accounts", "word", n)
                 /\ n.gen = m.gen /\ n.accountsFor = accountsFor
              \/ /\ StoreOf("word", "settle", n)
                 /\ n.gen = m.gen /\ n.accountsFor = m.accountsFor /\ n.word = unit
  <2>1. n.accountsFor <= accountsFor
    BY <1>2, <1>3, <1>7
  <2>2. n.gen % 2 = 0 <=> ~Writing'
    BY <1>2, <1>3, <1>7 DEF StoreOf, Writing
  <2>3. /\ writer' \in {"word", "settle", "flip"} => n.accountsFor = accountsFor
        /\ writer' \in {"settle", "flip"} => n.word = unit
        /\ writer' \in {"idle", "accounts", "word", "settle", "flip"}
    BY <1>6, <1>7 DEF StoreOf
  <2>4. \A c \in {0, 1} : (copies'[c].gen % 2 = 0 <=> ~(Writing' /\ c = 1 - live'))
                           /\ copies'[c].accountsFor <= accountsFor'
    BY <1>1, <1>2, <1>5, <1>7, <2>1, <2>2
  <2> QED BY <1>1, <1>5, <1>7, <2>3, <2>4 DEF CopyInv, Even
<1>8. CASE StoreOf("flip", "idle", n) /\ live' = 1 - live /\ n = m
  <2>1. writer' = "idle" /\ writer = "flip" /\ ~Writing /\ ~Writing'
    BY <1>8 DEF StoreOf, Writing
  <2>2. \A c \in {0, 1} : copies'[c].gen % 2 = 0 /\ copies'[c].accountsFor <= accountsFor'
    BY <1>1, <1>2, <1>5, <1>8, <2>1
  <2> QED BY <1>1, <1>5, <1>8, <2>1, <2>2 DEF CopyInv, Even
<1> QED BY <1>4, <1>7, <1>8

LEMMA CopyDrained ==
    ASSUME CopyInv, writer = "idle", UNCHANGED <<writer, copies, live>>,
           accountsFor \in Nat, accountsFor' \in Nat, accountsFor < accountsFor'
    PROVE  CopyInv'
<1>1. \A c \in {0, 1} : copies'[c].accountsFor <= accountsFor'
  <2> TAKE c \in {0, 1}
  <2>1. copies[c].accountsFor \in Nat /\ copies[c].accountsFor <= accountsFor
    BY CopyFields DEF CopyInv
  <2> QED BY <2>1, SMT
<1> QED BY <1>1 DEF CopyInv, Even, Writing

LEMMA CopyKept ==
    ASSUME CopyInv, UNCHANGED <<writer, copies, live, accountsFor, unit>>
    PROVE  CopyInv'
  BY DEF CopyInv, Even, Writing

----------------------------------------------------------------------------
(* The look-up.                                                            *)
LEMMA ReaderFields ==
    ASSUME NEW r \in ReaderType
    PROVE  /\ r.pc \in {"idle", "gen", "accounts", "word", "settled"} \cup Outcomes
           /\ r.copy \in {0, 1} /\ r.gen \in 0 .. GenModulus - 1 /\ r.accountsFor \in Nat
           /\ r.word \in Value \cup {None} /\ r.flips \in {0, 1} /\ r.spanned \in Nat
  BY DEF ReaderType

LEMMA IdleIs ==
    Idle \in ReaderType /\ Idle.pc = "idle"
<1>1. 0 \in 0 .. GenModulus - 1
  BY Moduli
<1> QED BY <1>1, SMT DEF Idle, ReaderType

LEMMA LookIdle ==
    ASSUME reader' = Idle
    PROVE  LookInv'
<1>1. reader'.pc = "idle" /\ reader' \in ReaderType /\ "idle" # "torn"
      /\ "idle" \notin {"accounts", "word", "settled"}
  BY IdleIs
<1> QED BY <1>1 DEF LookInv

LEMMA NotIdle ==
    ASSUME LookInv
    PROVE  reader = Idle <=> reader.pc = "idle"
  BY IdleIs DEF LookInv

\* What a publication counts of itself in the look-up under way.
LEMMA ReaderSpans ==
    ASSUME NEW r \in ReaderType, NEW s \in Nat, NEW q, q = [r EXCEPT !.spanned = s]
    PROVE  /\ q \in ReaderType /\ q.spanned = s /\ q.flips = r.flips
           /\ q.pc = r.pc /\ q.copy = r.copy /\ q.gen = r.gen
           /\ q.accountsFor = r.accountsFor /\ q.word = r.word
  BY SMT DEF ReaderType

LEMMA ReaderFlips ==
    ASSUME NEW r \in ReaderType, NEW f \in {0, 1}, NEW q, q = [r EXCEPT !.flips = f]
    PROVE  /\ q \in ReaderType /\ q.spanned = r.spanned /\ q.flips = f
           /\ q.pc = r.pc /\ q.copy = r.copy /\ q.gen = r.gen
           /\ q.accountsFor = r.accountsFor /\ q.word = r.word
  BY SMT DEF ReaderType

Counted(c, n, l) ==
    /\ reader' \in ReaderType
    /\ reader'.pc = reader.pc /\ reader'.copy = reader.copy /\ reader'.gen = reader.gen
    /\ reader'.accountsFor = reader.accountsFor /\ reader'.word = reader.word
    /\ IF reader.copy = c /\ n.gen # copies[c].gen
       THEN reader'.spanned = reader.spanned + 1 /\ reader.spanned + 1 < GenModulus
       ELSE reader'.spanned = reader.spanned
    /\ reader'.flips = IF l # live /\ reader.flips = 0 THEN 1 ELSE reader.flips

LEMMA StoreCounts ==
    ASSUME LookInv, reader # Idle, NEW from, NEW to, NEW c \in {0, 1}, NEW n, NEW l \in {0, 1},
           Store(from, to, c, n, l)
    PROVE  Counted(c, n, l)
<1> DEFINE look == reader.copy = c /\ n.gen # copies[c].gen
           s == IF look THEN reader.spanned + 1 ELSE reader.spanned
           f == IF l # live /\ reader.flips = 0 THEN 1 ELSE reader.flips
<1>0. reader \in ReaderType
  BY DEF LookInv
<1>1. reader.spanned \in Nat /\ reader.flips \in {0, 1} /\ reader.spanned + 1 \in Nat
  BY <1>0, ReaderFields, SMT
<1>2. s \in Nat /\ f \in {0, 1}
  BY <1>1
<1> DEFINE q == [reader EXCEPT !.spanned = s]
<1>3. /\ q \in ReaderType /\ q.spanned = s /\ q.flips = reader.flips
      /\ q.pc = reader.pc /\ q.copy = reader.copy /\ q.gen = reader.gen
      /\ q.accountsFor = reader.accountsFor /\ q.word = reader.word
  <2> HIDE DEF s
  <2>1. q = [reader EXCEPT !.spanned = s]
    OBVIOUS
  <2>2. s \in Nat
    BY <1>2
  <2> HIDE DEF q
  <2> QED BY <1>0, <2>1, <2>2, ReaderSpans, SMT
<1>4. /\ reader' = [q EXCEPT !.flips = f]
      /\ look => reader.spanned + 1 < GenModulus
  <2>1. reader' = [[reader EXCEPT !.spanned = IF look THEN reader.spanned + 1 ELSE reader.spanned]
                     EXCEPT !.flips = IF l # live /\ q.flips = 0 THEN 1 ELSE q.flips]
    BY DEF Store
  <2>2. look => reader.spanned + 1 < GenModulus
    BY DEF Store
  <2> QED BY <2>1, <2>2, <1>3
<1> HIDE DEF q, f
<1>5. /\ reader' \in ReaderType /\ reader'.spanned = q.spanned /\ reader'.flips = f
      /\ reader'.pc = q.pc /\ reader'.copy = q.copy /\ reader'.gen = q.gen
      /\ reader'.accountsFor = q.accountsFor /\ reader'.word = q.word
  <2>1. q \in ReaderType /\ f \in {0, 1} /\ reader' = [q EXCEPT !.flips = f]
    BY <1>2, <1>3, <1>4
  <2> QED BY <2>1, ReaderFlips, SMT
<1> QED BY <1>3, <1>4, <1>5 DEF f, Counted

\* A look-up's copy is untouched, or has one more generation, or is being
\* written and its generation is odd.
LEMMA LookedUpMeanwhile ==
    ASSUME CopyInv, LookInv, reader # Idle, accountsFor \in Nat, unit \in Value \cup {None},
           Publication
    PROVE  /\ reader' \in ReaderType /\ held' = held
           /\ reader'.pc = reader.pc /\ reader'.copy = reader.copy /\ reader'.gen = reader.gen
           /\ reader'.accountsFor = reader.accountsFor /\ reader'.word = reader.word
           /\ reader'.flips = 0 => reader.flips = 0 /\ live' = live
           /\ LET was == copies[reader.copy]
                  is == copies'[reader.copy] IN
              \/ is = was /\ reader'.spanned = reader.spanned
              \/ /\ is.gen = Plus(was.gen, 1, GenModulus) /\ reader.copy = 1 - live
                 /\ reader'.spanned = reader.spanned + 1 /\ reader.spanned + 1 < GenModulus
              \/ /\ is.gen = was.gen /\ is.gen % 2 # 0 /\ reader.copy = 1 - live
                 /\ reader'.spanned = reader.spanned
<1> DEFINE m == copies[1 - live]
<1>1. /\ live \in {0, 1} /\ 1 - live \in {0, 1} /\ 1 - live # live
      /\ reader.copy \in {0, 1} /\ (reader.copy = live \/ reader.copy = 1 - live)
      /\ m \in CopyType /\ m.gen \in 0 .. GenModulus - 1
      /\ reader.flips \in {0, 1}
  BY TwoCopies, CopyFields, ReaderFields DEF CopyInv, LookInv
<1>2. Plus(m.gen, 1, GenModulus) # m.gen
  BY <1>1, GenStep
<1>3. m.gen % 2 # 0 <=> Writing
  BY <1>1 DEF CopyInv, Even
<1>4. PICK from, to, n, l : Store(from, to, 1 - live, n, l) /\ l \in {0, 1}
  BY <1>1 DEF Publication, PublishBegins, PublishAccounts, PublishWord, PublishSettles,
              PublishFlips, NextCopy
<1>5. Counted(1 - live, n, l)
  BY <1>1, <1>4, StoreCounts
<1>6. held' = held /\ live' = l /\ copies' = [copies EXCEPT ![1 - live] = n]
  BY <1>4 DEF Store
<1>7. copies'[1 - live] = n /\ copies'[live] = copies[live]
  BY <1>1, <1>6 DEF CopyInv
<1>8. \/ n.gen = Plus(m.gen, 1, GenModulus)
      \/ n.gen = m.gen /\ n.gen % 2 # 0
      \/ n = m
  <2> HIDE DEF m
  <2>1. \E x : /\ copies'[1 - live] = x
               /\ \/ x.gen = Plus(m.gen, 1, GenModulus)
                  \/ x.gen = m.gen /\ Writing
                  \/ x = m
    <3>1. \E x : /\ x \in CopyType /\ copies' = [copies EXCEPT ![1 - live] = x]
                 /\ \/ x.gen = Plus(m.gen, 1, GenModulus)
                    \/ x.gen = m.gen /\ Writing
                    \/ x = m
      BY PublicationStores DEF m, StoreOf, Writing
    <3> QED BY <3>1, StoredCopies
  <2> QED BY <1>3, <1>7, <2>1
<1>9. reader'.flips = 0 => reader.flips = 0 /\ live' = live
  BY <1>5, <1>6, <1>1 DEF Counted
<1> QED BY <1>1, <1>2, <1>5, <1>6, <1>7, <1>8, <1>9 DEF Counted

LEMMA LookPublished ==
    ASSUME CopyInv, LookInv, accountsFor \in Nat, unit \in Value \cup {None}, Publication
    PROVE  LookInv'
<1>1. CASE reader = Idle
  <2>1. reader' = reader
    BY <1>1 DEF Publication, PublishBegins, PublishAccounts, PublishWord, PublishSettles,
                PublishFlips, Store
  <2> QED BY <1>1, <2>1, LookIdle
<1>2. CASE reader # Idle
  <2> DEFINE c == reader.copy
             was == copies[c]
             is == copies'[c]
  <2>1. /\ reader' \in ReaderType /\ held' = held
        /\ reader'.pc = reader.pc /\ reader'.copy = c /\ reader'.gen = reader.gen
        /\ reader'.accountsFor = reader.accountsFor /\ reader'.word = reader.word
        /\ reader'.flips = 0 => reader.flips = 0 /\ live' = live
        /\ \/ is = was /\ reader'.spanned = reader.spanned
           \/ /\ is.gen = Plus(was.gen, 1, GenModulus) /\ c = 1 - live
              /\ reader'.spanned = reader.spanned + 1 /\ reader.spanned + 1 < GenModulus
           \/ /\ is.gen = was.gen /\ is.gen % 2 # 0 /\ c = 1 - live
              /\ reader'.spanned = reader.spanned
    BY <1>2, LookedUpMeanwhile
  <2>2. /\ reader.pc # "idle" /\ held # None /\ reader.spanned < GenModulus
        /\ reader.flips = 0 => c = live /\ reader.spanned = 0
        /\ reader.pc = "torn" => reader.flips > 0
        /\ live # 1 - live /\ reader.spanned \in Nat /\ reader.flips \in {0, 1}
        /\ reader'.flips \in {0, 1} /\ reader.gen \in 0 .. GenModulus - 1
    BY <1>2, <2>1, NotIdle, ReaderFields, TwoCopies DEF LookInv, CopyInv
  <2>3. reader'.pc = "torn" => reader'.flips > 0
    BY <2>1, <2>2, SMT
  <2>4. reader'.spanned < GenModulus /\ (reader'.flips = 0 => c = live' /\ reader'.spanned = 0)
    BY <2>1, <2>2
  <2>5. ASSUME reader'.pc \in {"accounts", "word", "settled"}
        PROVE  \E d \in 0 .. reader'.spanned : Since(d)'
    <3>1. PICK d \in 0 .. reader.spanned : Since(d)
      BY <2>1, <2>5 DEF LookInv
    <3>2. was.gen = Plus(reader.gen, d, GenModulus) /\ d \in Nat /\ d < GenModulus /\ d <= reader.spanned
      BY <2>2, <3>1, Moduli, SMT DEF Since
    <3>3. CASE is = was /\ reader'.spanned = reader.spanned
      <4>1. Since(d)'
        BY <2>1, <3>1, <3>3 DEF Since
      <4> QED BY <3>3, <4>1
    <3>4. CASE /\ is.gen = Plus(was.gen, 1, GenModulus)
               /\ reader'.spanned = reader.spanned + 1 /\ reader.spanned + 1 < GenModulus
      <4>1. /\ d + 1 \in 0 .. reader.spanned + 1 /\ d + 1 < GenModulus /\ d + 1 # 0
        BY <2>2, <3>2, <3>4, Moduli, SMT
      <4>2. is.gen = Plus(reader.gen, d + 1, GenModulus)
        BY <2>2, <3>2, <3>4, <4>1, GenRound
      <4>3. Since(d + 1)'
        BY <2>1, <4>1, <4>2 DEF Since
      <4> QED BY <3>4, <4>1, <4>3
    <3>5. CASE /\ is.gen = was.gen /\ is.gen % 2 # 0
               /\ reader'.spanned = reader.spanned
      <4>1. d = 0 => reader.gen % 2 # 0
        BY <2>2, <3>2, <3>5, GenStep
      <4>2. Since(d)'
        BY <2>1, <3>2, <3>5, <4>1 DEF Since
      <4> QED BY <3>5, <4>2
    <3> QED BY <2>1, <3>3, <3>4, <3>5
  <2> QED BY <2>1, <2>2, <2>3, <2>4, <2>5 DEF LookInv
<1> QED BY <1>1, <1>2

LEMMA LookKept ==
    ASSUME LookInv, UNCHANGED <<reader, held, copies, live>>
    PROVE  LookInv'
  BY DEF LookInv, Since

\* A step of the look-up itself.
ReadSome == ReadGeneration \/ ReadAccounts \/ ReadWord \/ \E aged, alive \in BOOLEAN : ReadSettled(aged, alive)

Pcs == {"idle", "gen", "accounts", "word", "settled"} \cup Outcomes

ReadsAs(q, r, p, g, a, v) ==
    \/ q = [r EXCEPT !.pc = p] /\ g = r.gen /\ a = r.accountsFor /\ v = r.word
    \/ q = [r EXCEPT !.pc = p, !.gen = g] /\ a = r.accountsFor /\ v = r.word
    \/ q = [r EXCEPT !.pc = p, !.accountsFor = a] /\ g = r.gen /\ v = r.word
    \/ q = [r EXCEPT !.pc = p, !.word = v] /\ g = r.gen /\ a = r.accountsFor

HasRead(q, r, p, g, a, v) ==
    /\ q \in ReaderType /\ q.spanned = r.spanned /\ q.flips = r.flips
    /\ q.pc = p /\ q.copy = r.copy /\ q.gen = g /\ q.accountsFor = a /\ q.word = v

LEMMA ReaderReads ==
    ASSUME NEW r \in ReaderType, NEW q, NEW p \in Pcs,
           NEW g \in 0 .. GenModulus - 1, NEW a \in Nat, NEW v \in Value \cup {None},
           ReadsAs(q, r, p, g, a, v)
    PROVE  HasRead(q, r, p, g, a, v)
<1>1. ReaderType = [pc : Pcs, copy : {0, 1}, gen : 0 .. GenModulus - 1, accountsFor : Nat,
                    word : Value \cup {None}, flips : {0, 1}, spanned : Nat]
  BY DEF ReaderType, Pcs
<1> DEFINE x == [r EXCEPT !.pc = p]
<1>2. /\ x \in ReaderType /\ x.spanned = r.spanned /\ x.flips = r.flips /\ x.pc = p
      /\ x.copy = r.copy /\ x.gen = r.gen /\ x.accountsFor = r.accountsFor /\ x.word = r.word
  BY <1>1, SMT
<1> HIDE DEF x
<1>3. CASE q = [r EXCEPT !.pc = p] /\ g = r.gen /\ a = r.accountsFor /\ v = r.word
  BY <1>2, <1>3 DEF x, HasRead
<1>4. CASE q = [r EXCEPT !.pc = p, !.gen = g] /\ a = r.accountsFor /\ v = r.word
  <2>1. q = [x EXCEPT !.gen = g]
    BY <1>4 DEF x
  <2>2. /\ q \in ReaderType /\ q.spanned = x.spanned /\ q.flips = x.flips
        /\ q.pc = x.pc /\ q.copy = x.copy /\ q.gen = g
        /\ q.accountsFor = x.accountsFor /\ q.word = x.word
    BY <1>1, <1>2, <2>1, SMT
  <2> QED BY <1>2, <1>4, <2>2 DEF HasRead
<1>5. CASE q = [r EXCEPT !.pc = p, !.accountsFor = a] /\ g = r.gen /\ v = r.word
  <2>1. q = [x EXCEPT !.accountsFor = a]
    BY <1>5 DEF x
  <2>2. /\ q \in ReaderType /\ q.spanned = x.spanned /\ q.flips = x.flips
        /\ q.pc = x.pc /\ q.copy = x.copy /\ q.accountsFor = a
        /\ q.gen = x.gen /\ q.word = x.word
    BY <1>1, <1>2, <2>1, SMT
  <2> QED BY <1>2, <1>5, <2>2 DEF HasRead
<1>6. CASE q = [r EXCEPT !.pc = p, !.word = v] /\ g = r.gen /\ a = r.accountsFor
  <2>1. q = [x EXCEPT !.word = v]
    BY <1>6 DEF x
  <2>2. /\ q \in ReaderType /\ q.spanned = x.spanned /\ q.flips = x.flips
        /\ q.pc = x.pc /\ q.copy = x.copy /\ q.word = v
        /\ q.gen = x.gen /\ q.accountsFor = x.accountsFor
    BY <1>1, <1>2, <2>1, SMT
  <2> QED BY <1>2, <1>6, <2>2 DEF HasRead
<1> QED BY <1>3, <1>4, <1>5, <1>6 DEF ReadsAs

Reading ==
    LET c == copies[reader.copy] IN
    /\ reader' \in ReaderType /\ reader'.copy = reader.copy
    /\ reader'.spanned = reader.spanned /\ reader'.flips = reader.flips
    /\ \/ /\ reader.pc = "gen" /\ reader'.pc \in {"not_published", "accounts"} /\ reader'.gen = c.gen
       \/ /\ reader.pc = "accounts" /\ reader'.pc = "word"
          /\ reader'.gen = reader.gen /\ reader'.accountsFor = c.accountsFor
       \/ /\ reader.pc = "word" /\ reader'.pc = "settled"
          /\ reader'.gen = reader.gen /\ reader'.accountsFor = reader.accountsFor /\ reader'.word = c.word
       \/ /\ reader.pc = "settled" /\ \E aged, alive \in BOOLEAN : reader'.pc = Decide(aged, alive)
          /\ reader'.gen = reader.gen /\ reader'.accountsFor = reader.accountsFor
          /\ reader'.word = reader.word

LEMMA DecideIs ==
    ASSUME NEW aged, NEW alive
    PROVE  Decide(aged, alive) \in {"torn", "behind", "aged", "silent", "answer"}
  BY DEF Decide

LEMMA ReadDoes ==
    ASSUME LookInv, CopyInv, ReadSome
    PROVE  Reading /\ UNCHANGED <<truth, forwards, sniffSeq, busEpoch, txBusy, held, rxRing,
                                  answerCell, answerSent, accountsFor, unit, writer, copies, live>>
<1> DEFINE c == copies[reader.copy]
<1>1. /\ reader \in ReaderType
      /\ reader.gen \in 0 .. GenModulus - 1 /\ reader.accountsFor \in Nat
      /\ reader.word \in Value \cup {None}
      /\ c.gen \in 0 .. GenModulus - 1 /\ c.accountsFor \in Nat /\ c.word \in Value \cup {None}
  BY ReaderFields, CopyFields DEF LookInv, CopyInv
<1>2. UNCHANGED <<truth, forwards, sniffSeq, busEpoch, txBusy, held, rxRing, answerCell,
                  answerSent, accountsFor, unit, writer, copies, live>>
  BY DEF ReadSome, ReadGeneration, ReadAccounts, ReadWord, ReadSettled, Read, sniffer
<1> HIDE DEF c
<1>3. CASE ReadGeneration
  <2> DEFINE p == IF c.gen = 0 THEN "not_published" ELSE "accounts"
  <2>1. reader.pc = "gen" /\ reader' = [reader EXCEPT !.pc = p, !.gen = c.gen]
    BY <1>3 DEF ReadGeneration, Read, c
  <2>2. p \in Pcs /\ p \in {"not_published", "accounts"}
    BY DEF Outcomes, Pcs
  <2> HIDE DEF p
  <2>3. ReadsAs(reader', reader, p, c.gen, reader.accountsFor, reader.word)
    BY <2>1 DEF ReadsAs
  <2>4. HasRead(reader', reader, p, c.gen, reader.accountsFor, reader.word)
    BY <1>1, <2>2, <2>3, ReaderReads
  <2> QED BY <1>2, <2>1, <2>2, <2>4 DEF Reading, HasRead, c
<1>4. CASE ReadAccounts
  <2>1. reader.pc = "accounts" /\ reader' = [reader EXCEPT !.pc = "word", !.accountsFor = c.accountsFor]
    BY <1>4 DEF ReadAccounts, Read, c
  <2>2. "word" \in Pcs
    BY DEF Pcs
  <2>3. ReadsAs(reader', reader, "word", reader.gen, c.accountsFor, reader.word)
    BY <2>1 DEF ReadsAs
  <2>4. HasRead(reader', reader, "word", reader.gen, c.accountsFor, reader.word)
    BY <1>1, <2>2, <2>3, ReaderReads
  <2> QED BY <1>2, <2>1, <2>4 DEF Reading, HasRead, c
<1>5. CASE ReadWord
  <2>1. reader.pc = "word" /\ reader' = [reader EXCEPT !.pc = "settled", !.word = c.word]
    BY <1>5 DEF ReadWord, Read, c
  <2>2. "settled" \in Pcs
    BY DEF Pcs
  <2>3. ReadsAs(reader', reader, "settled", reader.gen, reader.accountsFor, c.word)
    BY <2>1 DEF ReadsAs
  <2>4. HasRead(reader', reader, "settled", reader.gen, reader.accountsFor, c.word)
    BY <1>1, <2>2, <2>3, ReaderReads
  <2> QED BY <1>2, <2>1, <2>4 DEF Reading, HasRead, c
<1>6. CASE \E aged, alive \in BOOLEAN : ReadSettled(aged, alive)
  <2>0. PICK aged \in BOOLEAN, alive \in BOOLEAN : ReadSettled(aged, alive)
    BY <1>6
  <2> DEFINE p == Decide(aged, alive)
  <2>1. reader.pc = "settled" /\ reader' = [reader EXCEPT !.pc = p]
    BY <2>0 DEF ReadSettled, Read
  <2>2. p \in Pcs
    BY DecideIs DEF Outcomes, Pcs
  <2> HIDE DEF p
  <2>3. ReadsAs(reader', reader, p, reader.gen, reader.accountsFor, reader.word)
    BY <2>1 DEF ReadsAs
  <2>4. HasRead(reader', reader, p, reader.gen, reader.accountsFor, reader.word)
    BY <1>1, <2>2, <2>3, ReaderReads
  <2>5. \E ag, al \in BOOLEAN : reader'.pc = Decide(ag, al)
    BY <2>4 DEF p, HasRead
  <2> QED BY <1>2, <2>1, <2>4, <2>5 DEF Reading, HasRead, c
<1> QED BY <1>3, <1>4, <1>5, <1>6 DEF ReadSome

\* The live copy is even and does not move: only a flip under the look-up tears it.
LEMMA TornBy ==
    ASSUME LookInv, CopyInv, reader.pc = "settled", ~SettledSince(reader.gen)
    PROVE  reader.flips > 0
<1>1. reader.flips \in {0, 1} /\ reader.gen \in 0 .. GenModulus - 1 /\ reader.spanned \in Nat
  BY ReaderFields DEF LookInv
<1>2. SUFFICES ASSUME reader.flips = 0 PROVE FALSE
  BY <1>1, SMT
<1>3. reader.copy = live /\ reader.spanned = 0
  BY <1>2 DEF LookInv
<1>4. PICK d \in 0 .. 0 : Since(d)
  BY <1>3 DEF LookInv
<1>5. copies[live].gen = reader.gen
  <2>1. d = 0
    BY SMT
  <2> QED BY <1>1, <1>3, <1>4, <2>1, GenStep DEF Since
<1>6. copies[live].gen % 2 = 0
  BY TwoCopies DEF CopyInv, Even
<1> QED BY <1>3, <1>5, <1>6 DEF SettledSince

LEMMA LookRead ==
    ASSUME LookInv, CopyInv, Reading, UNCHANGED <<held, copies, live>>
    PROVE  LookInv'
<1> DEFINE c == copies[reader.copy]
<1>1. /\ reader' \in ReaderType /\ reader'.copy = reader.copy
      /\ reader'.spanned = reader.spanned /\ reader'.flips = reader.flips
  BY DEF Reading
<1>2. /\ reader.pc # "idle" /\ reader'.pc # "idle"
      /\ held' # None /\ reader.spanned < GenModulus /\ reader.spanned \in Nat
      /\ reader.flips = 0 => reader.copy = live /\ reader.spanned = 0
      /\ c.gen \in 0 .. GenModulus - 1
  BY DecideIs, ReaderFields, CopyFields, ZenonT(30) DEF Reading, LookInv, CopyInv
<1>3. ASSUME reader'.pc = "torn" PROVE reader'.flips > 0
  <2>1. reader.pc = "settled" /\ \E aged, alive \in BOOLEAN : Decide(aged, alive) = "torn"
    BY <1>3 DEF Reading
  <2>2. ~SettledSince(reader.gen)
    BY <2>1 DEF Decide
  <2> QED BY <1>1, <2>1, <2>2, TornBy
<1>4. ASSUME reader'.pc \in {"accounts", "word", "settled"}
      PROVE  \E d \in 0 .. reader'.spanned : Since(d)'
  <2>1. CASE reader'.pc = "accounts"
    <3>1. reader'.gen = c.gen
      BY <2>1, DecideIs DEF Reading
    <3>2. Since(0)'
      BY <1>1, <1>2, <2>1, <3>1, GenStep DEF Since
    <3>3. 0 \in 0 .. reader'.spanned
      BY <1>1, <1>2, SMT
    <3> QED BY <3>2, <3>3
  <2>2. CASE reader'.pc = "word"
    <3>1. reader.pc = "accounts" /\ reader'.gen = reader.gen /\ reader'.accountsFor = c.accountsFor
      BY <2>2, DecideIs DEF Reading
    <3>2. PICK d \in 0 .. reader.spanned : Since(d)
      BY <3>1 DEF LookInv
    <3>3. Since(d)'
      BY <1>1, <2>2, <3>1, <3>2 DEF Since
    <3> QED BY <1>1, <3>3
  <2>3. CASE reader'.pc = "settled"
    <3>1. /\ reader.pc = "word" /\ reader'.gen = reader.gen
          /\ reader'.accountsFor = reader.accountsFor /\ reader'.word = c.word
      BY <2>3, DecideIs DEF Reading
    <3>2. PICK d \in 0 .. reader.spanned : Since(d)
      BY <3>1 DEF LookInv
    <3>3. Since(d)'
      BY <1>1, <2>3, <3>1, <3>2 DEF Since
    <3> QED BY <1>1, <3>3
  <2> QED BY <1>4, <2>1, <2>2, <2>3
<1> QED BY <1>1, <1>2, <1>3, <1>4 DEF LookInv

LEMMA LookingIs ==
    ASSUME live \in {0, 1}
    PROVE  /\ Looking \in ReaderType /\ Looking.pc = "gen" /\ Looking.copy = live
           /\ Looking.flips = 0 /\ Looking.spanned = 0
<1>1. Idle \in ReaderType /\ Idle.flips = 0 /\ Idle.spanned = 0 /\ "gen" \in Pcs
  BY IdleIs DEF Idle, Pcs
<1>2. ReaderType = [pc : Pcs, copy : {0, 1}, gen : 0 .. GenModulus - 1, accountsFor : Nat,
                    word : Value \cup {None}, flips : {0, 1}, spanned : Nat]
  BY DEF ReaderType, Pcs
<1> DEFINE x == [Idle EXCEPT !.pc = "gen"]
<1>3. x \in ReaderType /\ x.pc = "gen" /\ x.flips = 0 /\ x.spanned = 0
  BY <1>1, <1>2, SMT
<1>4. Looking = [x EXCEPT !.copy = live]
  BY DEF Looking
<1> HIDE DEF x
<1> QED BY <1>2, <1>3, <1>4, SMT

LEMMA LookStarts ==
    ASSUME CopyInv, DecodeQuery
    PROVE  LookInv'
<1>1. reader' = Looking /\ held' # None /\ live' = live /\ live \in {0, 1}
  BY DEF DecodeQuery, sniffer, CopyInv
<1>2. reader' \in ReaderType /\ reader'.pc = "gen" /\ reader'.copy = live'
      /\ reader'.flips = 0 /\ reader'.spanned = 0
  BY <1>1, LookingIs
<1>3. 0 < GenModulus
  BY Moduli, SMT
<1> QED BY <1>1, <1>2, <1>3 DEF LookInv

----------------------------------------------------------------------------
(* A table that was up to date at the capture stays so until the look-up.  *)
LEMMA ReadyCaptured ==
    ASSUME CaptureInv, CopyInv, NEW frame \in Frames, Capture(frame)
    PROVE  ReadyInv'
<1>1. /\ reader' = Idle /\ sniffSeq' = sniffSeq + 1
      /\ held' = Caught(frame) \/ held' = None
      /\ UNCHANGED <<accountsFor, copies, live>>
  BY CaptureEffect
<1>2. /\ copies[live].accountsFor \in Nat /\ copies[live].accountsFor <= accountsFor
      /\ accountsFor \in Nat /\ accountsFor <= sniffSeq /\ sniffSeq \in Nat
  BY CaptureNumbers, CopyFields DEF CopyInv
<1>3. copies[live].accountsFor = sniffSeq => accountsFor = sniffSeq' - 1 /\ accountsFor = sniffSeq
  BY <1>1, <1>2, SMT
<1>4. reader'.pc = "idle"
  BY <1>1, IdleIs
<1>5. SUFFICES ASSUME held' # None, held'.ready PROVE copies[live].accountsFor = sniffSeq
  BY <1>1, <1>3, <1>4 DEF ReadyInv
<1> QED BY <1>1, <1>5, CaughtFields

\* With such a capture held the ring is empty.
LEMMA ReadyDrained ==
    ASSUME CaptureInv, ReadyInv, Drain
    PROVE  ReadyInv'
<1>1. accountsFor < accountsFor' /\ accountsFor' <= Passed /\ accountsFor' \in Nat
  BY CaptureDrained DEF CaptureInv
<1>2. held' = held
  BY DEF Drain, interrupt
<1>3. ASSUME held # None, held.ready PROVE FALSE
  <2>1. accountsFor = sniffSeq - 1 /\ Passed = sniffSeq - 1
    BY <1>3 DEF ReadyInv, Passed
  <2>2. sniffSeq \in Nat
    BY CaptureNumbers
  <2> QED BY <1>1, <2>1, <2>2, SMT
<1> QED BY <1>2, <1>3 DEF ReadyInv

LEMMA ReadyPublished ==
    ASSUME CopyInv, LookInv, ReadyInv, accountsFor \in Nat, unit \in Value \cup {None}, Publication
    PROVE  ReadyInv'
<1> DEFINE m == copies[1 - live]
<1>1. /\ live \in {0, 1} /\ 1 - live \in {0, 1} /\ (reader.copy = live \/ reader.copy = 1 - live)
  BY TwoCopies, ReaderFields DEF CopyInv, LookInv
<1>2. held' = held /\ sniffSeq' = sniffSeq /\ accountsFor' = accountsFor
  BY DEF Publication, PublishBegins, PublishAccounts, PublishWord, PublishSettles, PublishFlips, Store
<1>3. reader'.pc = reader.pc /\ reader'.copy = reader.copy /\ reader'.accountsFor = reader.accountsFor
  <2>1. CASE reader = Idle
    BY <2>1 DEF Publication, PublishBegins, PublishAccounts, PublishWord, PublishSettles,
                PublishFlips, Store
  <2>2. CASE reader # Idle
    BY <2>2, LookedUpMeanwhile
  <2> QED BY <2>1, <2>2
<1>4. \E n : /\ n \in CopyType /\ copies' = [copies EXCEPT ![1 - live] = n]
             /\ n.accountsFor \in {m.accountsFor, accountsFor}
             /\ live' = live \/ (live' = 1 - live /\ n.accountsFor = accountsFor)
  <2> HIDE DEF m
  <2>1. writer = "flip" => m.accountsFor = accountsFor
    BY DEF CopyInv, m
  <2> QED BY <2>1, PublicationStores DEF StoreOf, m
<1>5. /\ copies'[live] = copies[live] /\ copies'[1 - live].accountsFor \in {m.accountsFor, accountsFor}
      /\ live' = live \/ (live' = 1 - live /\ copies'[1 - live].accountsFor = accountsFor)
  BY <1>4, StoredCopies
<1> QED BY <1>1, <1>2, <1>3, <1>5 DEF ReadyInv

LEMMA ReadyRead ==
    ASSUME CaptureInv, LookInv, ReadyInv, Reading, UNCHANGED <<held, sniffSeq, accountsFor, copies, live>>
    PROVE  ReadyInv'
<1> DEFINE c == copies[reader.copy]
<1> SUFFICES ASSUME held # None, held.ready
             PROVE  /\ reader'.pc # "idle" => copies[reader'.copy].accountsFor = accountsFor
                    /\ reader'.pc \in {"word", "settled"} => reader'.accountsFor = accountsFor
                    /\ reader'.pc # "behind"
  BY DEF ReadyInv
<1>1. /\ reader'.copy = reader.copy /\ reader.pc # "idle" /\ c.accountsFor = accountsFor
      /\ reader.pc \in {"word", "settled"} => reader.accountsFor = accountsFor
      /\ accountsFor = sniffSeq - 1 /\ held.seq = sniffSeq
  BY DEF Reading, ReadyInv, CaptureInv
<1>2. reader.pc = "settled" => \A aged, alive \in BOOLEAN : Decide(aged, alive) # "behind"
  BY <1>1 DEF Decide
<1>3. reader'.pc \in {"word", "settled"} => reader'.accountsFor = accountsFor
  BY <1>1, DecideIs DEF Reading
<1>4. reader'.pc # "behind"
  BY <1>2 DEF Reading
<1> QED BY <1>1, <1>3, <1>4

LEMMA ReadyLooks ==
    ASSUME CopyInv, ReadyInv, DecodeQuery
    PROVE  ReadyInv'
<1>1. reader' = Looking /\ UNCHANGED <<held, sniffSeq, accountsFor, copies, live>>
  BY DEF DecodeQuery, sniffer
<1>2. reader'.pc = "gen" /\ reader'.copy = live
  BY <1>1, LookingIs DEF CopyInv
<1> QED BY <1>1, <1>2 DEF ReadyInv

----------------------------------------------------------------------------
(* What the register was after each capture.                               *)
LEMMA HistoryKept ==
    ASSUME HistoryInv, UNCHANGED <<truth, sniffSeq, held, rxRing, unit, accountsFor, copies>>,
           \/ reader'.pc # "answer"
           \/ reader'.pc = reader.pc /\ reader'.word = reader.word
    PROVE  HistoryInv'
<1>1. PICK h \in [0 .. sniffSeq -> Value] : History(h)
  BY DEF HistoryInv
<1>2. History(h)'
  BY <1>1 DEF History, Tells, Even
<1> QED BY <1>2 DEF HistoryInv

LEMMA TellsPushed ==
    ASSUME NEW h, NEW q \in Seq(Entry), NEW x, x.frame \in Frames, x.seq \in Nat, Tells(h, x),
           \A i \in 1 .. Len(q) : Tells(h, q[i])
    PROVE  \A i \in 1 .. Len(Pushed(q, x)) : Tells(h, Pushed(q, x)[i])
<1> DEFINE p == Pushed(q, x)
           e == [frame |-> x.frame, seq |-> x.seq]
<1>1. /\ p \in Seq(Entry) /\ Len(p) \in {Len(q), Len(q) + 1}
      /\ \A i \in 1 .. Len(q) : p[i] = q[i]
      /\ Len(p) = Len(q) + 1 => p[Len(q) + 1] = e
  <2>1. /\ Pushed(q, x) \in Seq(Entry)
        /\ Len(q) <= RingRoom => Len(Pushed(q, x)) <= RingRoom
        /\ Len(Pushed(q, x)) \in {Len(q), Len(q) + 1}
        /\ \A i \in 1 .. Len(q) : Pushed(q, x)[i] = q[i]
        /\ Len(Pushed(q, x)) = Len(q) + 1 =>
             Pushed(q, x)[Len(q) + 1] = [frame |-> x.frame, seq |-> x.seq]
    BY PushedIs
  <2> QED BY <2>1
<1>2. e.frame = x.frame /\ e.seq = x.seq
  BY SMT
<1>3. Tells(h, e)
  <2> HIDE DEF e
  <2> QED BY <1>2 DEF Tells
<1>4. Len(q) \in Nat
  BY Entries
<1> HIDE DEF p, e
<1>5. \A i \in 1 .. Len(p) : i \in 1 .. Len(q) \/ (i = Len(q) + 1 /\ Len(p) = Len(q) + 1)
  BY <1>1, <1>4, SMT
<1>6. \A i \in 1 .. Len(p) : Tells(h, p[i])
  BY <1>1, <1>3, <1>5
<1> QED BY <1>6 DEF p

\* Of the captures in the ring and of the one held.
LEMMA HeardOf ==
    ASSUME CaptureInv
    PROVE  /\ rxRing \in Seq(Entry)
           /\ \A i \in 1 .. Len(rxRing) : rxRing[i].seq \in 1 .. sniffSeq
           /\ held # None => held.frame \in Frames /\ held.seq \in 1 .. sniffSeq /\ held.seq \in Nat
<1>1. RingOK(rxRing, accountsFor, Passed)
  BY DEF CaptureInv
<1>2. /\ sniffSeq \in Nat /\ accountsFor \in Nat /\ Passed \in Nat /\ Passed <= sniffSeq
      /\ held # None => Passed + 1 = sniffSeq
  BY CaptureNumbers
<1>3. rxRing \in Seq(Entry) /\ \A i \in 1 .. Len(rxRing) : rxRing[i].seq \in Nat
  BY <1>1, Entries DEF RingOK
<1>4. \A i \in 1 .. Len(rxRing) : rxRing[i].seq \in 1 .. sniffSeq
  <2> TAKE i \in 1 .. Len(rxRing)
  <2>1. rxRing[i].seq \in Nat /\ accountsFor < rxRing[i].seq /\ rxRing[i].seq <= Passed
    BY <1>1, <1>3 DEF RingOK
  <2> QED BY <1>2, <2>1, SMT
<1>5. held # None => sniffSeq \in 1 .. sniffSeq
  BY <1>2, SMT
<1> QED BY <1>2, <1>3, <1>4, <1>5 DEF CaptureInv

LEMMA HistoryPassed ==
    ASSUME CaptureInv, HistoryInv, held # None, rxRing' = Pushed(rxRing, held), held' = None,
           reader'.pc # "answer", UNCHANGED <<truth, sniffSeq, unit, accountsFor, copies>>
    PROVE  HistoryInv'
<1>1. PICK h \in [0 .. sniffSeq -> Value] : History(h)
  BY DEF HistoryInv
<1>2. \A i \in 1 .. Len(rxRing') : Tells(h, rxRing'[i])
  BY <1>1, HeardOf, TellsPushed DEF History
<1>3. History(h)'
  BY <1>1, <1>2 DEF History, Tells, Even
<1> QED BY <1>3 DEF HistoryInv

LEMMA FrameSets ==
    ASSUME NEW frame \in Frames, frame.kind = "set"
    PROVE  frame.value \in Value
<1>1. CASE frame \in Sets
  BY <1>1 DEF Sets
<1>2. CASE frame \in Others
  BY <1>2, SMT DEF Others
<1> QED BY <1>1, <1>2 DEF Frames

LEMMA HistoryCaptured ==
    ASSUME CaptureInv, CopyInv, HistoryInv, NEW frame \in Frames, Capture(frame)
    PROVE  HistoryInv'
<1> DEFINE x == Caught(frame)
<1>0. PICK h \in [0 .. sniffSeq -> Value] : History(h)
  BY DEF HistoryInv
<1>1. /\ reader' = Idle /\ sniffSeq' = sniffSeq + 1
      /\ truth' = IF frame.kind = "set" THEN frame.value ELSE truth
      /\ \/ held' = x /\ rxRing' = RingBefore
         \/ held' = None /\ rxRing' = Pushed(RingBefore, x)
      /\ UNCHANGED <<accountsFor, unit, copies>>
  BY CaptureEffect
<1>2. x.frame = frame /\ x.seq = sniffSeq + 1 /\ x.before = truth
  BY CaughtFields
<1> HIDE DEF x
<1>3. truth \in Value /\ truth' \in Value
  <2>1. frame.kind = "set" => frame.value \in Value
    BY FrameSets
  <2> QED BY <1>1, <2>1 DEF HistoryInv
<1>4. /\ sniffSeq \in Nat /\ accountsFor \in 0 .. sniffSeq /\ sniffSeq \in 0 .. sniffSeq
      /\ sniffSeq + 1 \in Nat /\ sniffSeq + 1 - 1 = sniffSeq
      /\ \A c \in {0, 1} : copies[c].accountsFor \in 0 .. sniffSeq
  <2>1. /\ sniffSeq \in Nat /\ accountsFor \in Nat /\ accountsFor <= sniffSeq
    BY CaptureNumbers
  <2>2. \A c \in {0, 1} : copies[c].accountsFor \in Nat /\ copies[c].accountsFor <= accountsFor
    BY CopyFields DEF CopyInv
  <2> QED BY <2>1, <2>2, SMT
<1>5. PICK g \in [0 .. sniffSeq + 1 -> Value] :
         g[sniffSeq + 1] = truth' /\ \A i \in 0 .. sniffSeq : g[i] = h[i]
  <2> DEFINE f == [i \in 0 .. sniffSeq + 1 |-> IF i <= sniffSeq THEN h[i] ELSE truth']
  <2>1. /\ f \in [0 .. sniffSeq + 1 -> Value] /\ f[sniffSeq + 1] = truth'
        /\ \A i \in 0 .. sniffSeq : f[i] = h[i]
    BY <1>3, <1>4, SMT
  <2> HIDE DEF f
  <2> QED BY <2>1
<1>6. ASSUME NEW y, y.seq \in 1 .. sniffSeq, Tells(h, y) PROVE Tells(g, y)
  <2>1. y.seq \in 0 .. sniffSeq /\ y.seq - 1 \in 0 .. sniffSeq
    BY <1>4, <1>6, SMT
  <2> QED BY <1>5, <1>6, <2>1 DEF Tells
<1>7. Tells(g, x)
  <2>1. g[sniffSeq] = truth
    BY <1>0, <1>4, <1>5 DEF History
  <2>2. x.seq - 1 = sniffSeq /\ g[x.seq] = truth'
    BY <1>2, <1>4, <1>5, SMT
  <2>3. truth' = IF x.frame.kind = "set" THEN x.frame.value ELSE g[x.seq - 1]
    BY <1>1, <1>2, <2>1, <2>2
  <2> QED BY <2>2, <2>3 DEF Tells
<1>8. RingBefore \in Seq(Entry) /\ \A i \in 1 .. Len(RingBefore) : Tells(g, RingBefore[i])
  <2>1. rxRing \in Seq(Entry) /\ \A i \in 1 .. Len(rxRing) : Tells(g, rxRing[i])
    BY <1>0, <1>6, HeardOf DEF History
  <2>2. CASE held = None
    BY <2>1, <2>2 DEF RingBefore
  <2>3. CASE held # None
    <3>1. /\ held.frame \in Frames /\ held.seq \in Nat /\ Tells(g, held)
      BY <1>0, <1>6, <2>3, HeardOf DEF History
    <3> QED BY <2>1, <2>3, <3>1, PushedIs, TellsPushed DEF RingBefore
  <2> QED BY <2>2, <2>3
<1>9. \A i \in 1 .. Len(rxRing') : Tells(g, rxRing'[i])
  <2>1. CASE rxRing' = RingBefore
    BY <1>8, <2>1
  <2>2. CASE rxRing' = Pushed(RingBefore, x)
    BY <1>2, <1>4, <1>7, <1>8, <2>2, TellsPushed
  <2> QED BY <1>1, <2>1, <2>2
<1>10. held' # None => Tells(g, held') /\ held'.before = g[sniffSeq' - 1]
  <2>1. sniffSeq' - 1 = sniffSeq
    BY <1>1, <1>4, SMT
  <2>2. g[sniffSeq' - 1] = truth
    BY <1>0, <1>4, <1>5, <2>1 DEF History
  <2>3. held' = x \/ held' = None
    BY <1>1
  <2> QED BY <1>2, <1>7, <2>2, <2>3
<1>11. /\ unit' \in {None, g[accountsFor']}
       /\ \A c \in {0, 1} : Even(c)' => copies'[c].word \in {None, g[copies'[c].accountsFor]}
  BY <1>0, <1>1, <1>4, <1>5 DEF History, Even
<1>12. reader'.pc # "answer"
  BY <1>1, IdleIs
<1>13. History(g)'
  BY <1>1, <1>5, <1>9, <1>10, <1>11, <1>12 DEF History, Tells
<1> QED BY <1>1, <1>3, <1>5, <1>13 DEF HistoryInv

LEMMA HistoryDrained ==
    ASSUME CaptureInv, HistoryInv, Drain
    PROVE  HistoryInv'
<1> DEFINE e == Head(rxRing)
<1>0. PICK h \in [0 .. sniffSeq -> Value] : History(h)
  BY DEF HistoryInv
<1>1. /\ rxRing # <<>> /\ accountsFor' = e.seq /\ unit' = Applied(e) /\ rxRing' = Tail(rxRing)
      /\ UNCHANGED <<truth, sniffSeq, held, reader, copies>>
  BY DEF Drain, interrupt
<1>2. /\ 1 \in 1 .. Len(rxRing) /\ e = rxRing[1] /\ Len(Tail(rxRing)) = Len(rxRing) - 1
      /\ \A i \in 1 .. Len(rxRing) - 1 : i + 1 \in 1 .. Len(rxRing) /\ Tail(rxRing)[i] = rxRing[i + 1]
  BY <1>1, FirstPassed
<1>3. \A i \in 1 .. Len(rxRing') : Tells(h, rxRing'[i])
  BY <1>0, <1>1, <1>2 DEF History
<1>4. Tells(h, e) /\ e.frame \in Frames /\ e.seq \in 0 .. sniffSeq /\ e.seq \in Nat
  <2>1. e.seq \in 1 .. sniffSeq /\ e.frame \in Frames /\ e.seq \in Nat
    BY <1>2, HeardOf, Entries
  <2>2. e.seq \in 0 .. sniffSeq
    BY <2>1, CaptureNumbers, SMT
  <2> QED BY <1>0, <1>2, <2>1, <2>2 DEF History
<1> HIDE DEF e
<1>5. unit' \in {None, h[e.seq]}
  <2>1. CASE e.frame.kind = "set"
    BY <1>1, <1>4, <2>1 DEF Applied, Tells
  <2>2. CASE e.frame.kind # "set" /\ e.seq # accountsFor + 1
    BY <1>1, <2>2 DEF Applied
  <2>3. CASE e.frame.kind # "set" /\ e.seq = accountsFor + 1
    <3>1. e.seq - 1 = accountsFor
      BY <2>3, CaptureNumbers, SMT
    <3>2. h[e.seq] = h[accountsFor]
      BY <1>4, <2>3, <3>1 DEF Tells
    <3>3. unit' = unit
      BY <1>1, <2>3 DEF Applied
    <3> QED BY <1>0, <3>2, <3>3 DEF History
  <2> QED BY <2>1, <2>2, <2>3
<1>6. unit' \in Value \cup {None}
  BY <1>4, <1>5
<1>7. History(h)'
  BY <1>0, <1>1, <1>3, <1>5 DEF History, Tells, Even
<1> QED BY <1>1, <1>6, <1>7 DEF HistoryInv

\* A look-up that finds its generation again has read one publication.
LEMMA SettledRead ==
    ASSUME CopyInv, LookInv, reader.pc = "settled", SettledSince(reader.gen)
    PROVE  /\ reader.copy \in {0, 1} /\ Even(reader.copy)
           /\ reader.accountsFor = copies[reader.copy].accountsFor
           /\ reader.word = copies[reader.copy].word
<1>1. /\ reader.gen \in 0 .. GenModulus - 1 /\ reader.spanned \in Nat /\ reader.spanned < GenModulus
      /\ reader.copy \in {0, 1}
  BY ReaderFields DEF LookInv
<1>2. PICK d \in 0 .. reader.spanned : Since(d)
  BY DEF LookInv
<1>3. d \in Nat /\ d < GenModulus
  BY <1>1, Moduli, SMT
<1>4. Plus(reader.gen, d, GenModulus) = reader.gen /\ reader.gen % 2 = 0
  BY <1>2 DEF Since, SettledSince
<1>5. d = 0
  BY <1>1, <1>3, <1>4, GenRound
<1>6. Even(reader.copy)
  BY <1>4 DEF SettledSince, Even
<1> QED BY <1>1, <1>2, <1>4, <1>5, <1>6 DEF Since

LEMMA HistoryRead ==
    ASSUME CaptureInv, CopyInv, LookInv, HistoryInv, Reading,
           UNCHANGED <<truth, sniffSeq, held, rxRing, unit, accountsFor, copies>>
    PROVE  HistoryInv'
<1>1. CASE reader'.pc # "answer"
  BY <1>1, HistoryKept
<1>2. CASE reader'.pc = "answer"
  <2>0. PICK h \in [0 .. sniffSeq -> Value] : History(h)
    BY DEF HistoryInv
  <2>1. /\ reader.pc = "settled" /\ reader'.word = reader.word
        /\ \E aged, alive \in BOOLEAN : Decide(aged, alive) = "answer"
    BY <1>2 DEF Reading
  <2>2. /\ SettledSince(reader.gen) /\ reader.accountsFor = held.seq - 1 /\ reader.word # None
    BY <2>1 DEF Decide
  <2>3. held # None /\ held.seq = sniffSeq
    BY <2>1 DEF LookInv, CaptureInv
  <2>4. /\ reader.copy \in {0, 1} /\ Even(reader.copy)
        /\ reader.accountsFor = copies[reader.copy].accountsFor
        /\ reader.word = copies[reader.copy].word
    BY <2>1, <2>2, SettledRead
  <2>5. reader.word = h[sniffSeq - 1]
    BY <2>0, <2>2, <2>3, <2>4 DEF History
  <2>6. reader'.word = held.before
    BY <2>0, <2>1, <2>3, <2>5 DEF History
  <2>7. History(h)'
    BY <2>0, <2>6 DEF History, Tells, Even
  <2> QED BY <2>7 DEF HistoryInv
<1> QED BY <1>1, <1>2

LEMMA HistoryPublished ==
    ASSUME CaptureInv, CopyInv, LookInv, HistoryInv, Publication
    PROVE  HistoryInv'
<1> DEFINE m == copies[1 - live]
<1>0. PICK h \in [0 .. sniffSeq -> Value] : History(h)
  BY DEF HistoryInv
<1>1. /\ accountsFor \in Nat /\ unit \in Value \cup {None}
      /\ UNCHANGED <<truth, sniffSeq, held, rxRing, accountsFor, unit>>
  BY CaptureNumbers DEF HistoryInv, Publication, PublishBegins, PublishAccounts, PublishWord,
                        PublishSettles, PublishFlips, Store
<1>2. reader'.pc = reader.pc /\ reader'.word = reader.word
  <2>1. CASE reader = Idle
    BY <2>1 DEF Publication, PublishBegins, PublishAccounts, PublishWord, PublishSettles,
                PublishFlips, Store
  <2>2. CASE reader # Idle
    BY <1>1, <2>2, LookedUpMeanwhile
  <2> QED BY <2>1, <2>2
<1>3. CopyInv' /\ live \in {0, 1} /\ 1 - live \in {0, 1}
      /\ \A c \in {0, 1} : c = live \/ c = 1 - live
  BY <1>1, CopyPublished, TwoCopies DEF CopyInv
<1>4. /\ writer = "settle" => m.accountsFor = accountsFor /\ m.word = unit
      /\ ~Writing => m.word \in {None, h[m.accountsFor]}
  BY <1>0, <1>3 DEF CopyInv, History
<1>5. unit \in {None, h[accountsFor]}
  BY <1>0 DEF History
<1> HIDE DEF m
<1>6. PICK n : /\ n \in CopyType /\ copies' = [copies EXCEPT ![1 - live] = n]
               /\ \/ writer' \in {"accounts", "word", "settle"} /\ live' = live
                  \/ writer = "settle" /\ n.word = m.word /\ n.accountsFor = m.accountsFor
                  \/ writer = "flip" /\ n = m
  BY <1>1, PublicationStores DEF StoreOf, m
<1>7. copies'[1 - live] = n /\ copies'[live] = copies[live]
  BY <1>6, StoredCopies
<1>8. n.gen % 2 = 0 => n.word \in {None, h[n.accountsFor]}
  <2>1. CASE writer' \in {"accounts", "word", "settle"} /\ live' = live
    BY <1>3, <1>7, <2>1 DEF CopyInv, Even, Writing
  <2>2. CASE writer = "settle" /\ n.word = m.word /\ n.accountsFor = m.accountsFor
    BY <1>4, <1>5, <2>2
  <2>3. CASE writer = "flip" /\ n = m
    BY <1>4, <2>3 DEF Writing
  <2> QED BY <1>6, <2>1, <2>2, <2>3
<1>9. \A c \in {0, 1} : Even(c)' => copies'[c].word \in {None, h[copies'[c].accountsFor]}
  BY <1>0, <1>3, <1>7, <1>8 DEF History, Even
<1>10. History(h)'
  BY <1>0, <1>1, <1>2, <1>9 DEF History, Tells
<1> QED BY <1>1, <1>10 DEF HistoryInv

----------------------------------------------------------------------------
(* Every step keeps the invariant.                                         *)
LEMMA CaptureKept ==
    ASSUME CaptureInv, UNCHANGED <<sniffSeq, accountsFor, rxRing, held>>
    PROVE  CaptureInv'
  BY DEF CaptureInv, RingOK, Passed

LEMMA ReadyKept ==
    ASSUME ReadyInv, UNCHANGED <<held, sniffSeq, accountsFor, copies, live, reader>>
    PROVE  ReadyInv'
  BY DEF ReadyInv

LEMMA CellKept ==
    ASSUME AnswersCurrent, AnswerFollowsItsQuery, answerSent' = answerSent,
           answerCell' = answerCell \/ answerCell' = None
    PROVE  AnswersCurrent' /\ AnswerFollowsItsQuery'
  BY DEF AnswersCurrent, AnswerFollowsItsQuery

LEMMA StepCaptures ==
    ASSUME AnswerIInv, NEW frame \in Frames, Capture(frame)
    PROVE  AnswerIInv'
<1>1. reader' = Idle /\ UNCHANGED <<answerCell, answerSent, accountsFor, unit, writer, copies, live>>
  BY CaptureEffect
<1>2. CaptureInv' /\ EpochInv' /\ CopyInv' /\ LookInv'
  BY <1>1, CaptureComes, EpochCaptured, CopyKept, LookIdle DEF AnswerIInv
<1>3. ReadyInv' /\ HistoryInv'
  BY ReadyCaptured, HistoryCaptured DEF AnswerIInv
<1> QED BY <1>1, <1>2, <1>3, CellKept DEF AnswerIInv

LEMMA StepOwnFrame ==
    ASSUME AnswerIInv, OwnFrameStarts \/ \E yielded \in BOOLEAN : OwnFrameEnds(yielded)
    PROVE  AnswerIInv'
<1>1. /\ reader' = Idle
      /\ UNCHANGED <<truth, sniffSeq, held, reader, rxRing, answerCell, answerSent,
                     accountsFor, unit, writer, copies, live>>
  BY DEF OwnFrameStarts, OwnFrameEnds, sniffer
<1>2. CaptureInv' /\ EpochInv' /\ CopyInv' /\ LookInv'
  BY <1>1, CaptureKept, EpochOwnFrame, CopyKept, LookIdle DEF AnswerIInv
<1>3. ReadyInv' /\ HistoryInv'
  BY <1>1, ReadyKept, HistoryKept DEF AnswerIInv
<1> QED BY <1>1, <1>2, <1>3, CellKept DEF AnswerIInv

LEMMA StepPassesOn ==
    ASSUME AnswerIInv, DecodeNoQuery
    PROVE  AnswerIInv'
<1>1. /\ reader' = Idle /\ held # None /\ held' = None /\ rxRing' = Pushed(rxRing, held)
      /\ UNCHANGED <<truth, forwards, sniffSeq, busEpoch, txBusy, answerCell, answerSent,
                     accountsFor, unit, writer, copies, live>>
  BY DEF DecodeNoQuery, sniffer
<1>2. reader'.pc # "answer"
  BY <1>1, IdleIs
<1>3. CaptureInv' /\ CopyInv' /\ LookInv'
  BY <1>1, PassesOn, CopyKept, LookIdle DEF AnswerIInv
<1>4. EpochInv' /\ ReadyInv'
  BY <1>1, EpochStaged DEF AnswerIInv, ReadyInv
<1>5. HistoryInv'
  BY <1>1, <1>2, HistoryPassed DEF AnswerIInv
<1> QED BY <1>1, <1>3, <1>4, <1>5, CellKept DEF AnswerIInv

LEMMA StepLooks ==
    ASSUME AnswerIInv, DecodeQuery
    PROVE  AnswerIInv'
<1>1. /\ reader' = Looking
      /\ UNCHANGED <<truth, forwards, sniffSeq, busEpoch, txBusy, held, rxRing, answerCell,
                     answerSent, accountsFor, unit, writer, copies, live>>
  BY DEF DecodeQuery, sniffer
<1>2. reader'.pc # "answer"
  BY <1>1, LookingIs DEF AnswerIInv, CopyInv
<1>3. CaptureInv' /\ EpochInv' /\ CopyInv'
  BY <1>1, CaptureKept, EpochKept, CopyKept DEF AnswerIInv
<1>4. LookInv' /\ ReadyInv'
  BY LookStarts, ReadyLooks DEF AnswerIInv
<1>5. HistoryInv'
  BY <1>1, <1>2, HistoryKept DEF AnswerIInv
<1> QED BY <1>1, <1>3, <1>4, <1>5, CellKept DEF AnswerIInv

LEMMA StepReads ==
    ASSUME AnswerIInv, ReadSome
    PROVE  AnswerIInv'
<1>1. /\ Reading
      /\ UNCHANGED <<truth, forwards, sniffSeq, busEpoch, txBusy, held, rxRing, answerCell,
                     answerSent, accountsFor, unit, writer, copies, live>>
  BY ReadDoes DEF AnswerIInv
<1>2. CaptureInv' /\ EpochInv' /\ CopyInv'
  BY <1>1, CaptureKept, EpochKept, CopyKept DEF AnswerIInv
<1>3. LookInv' /\ ReadyInv'
  BY <1>1, LookRead, ReadyRead DEF AnswerIInv
<1>4. HistoryInv'
  BY <1>1, HistoryRead DEF AnswerIInv
<1> QED BY <1>1, <1>2, <1>3, <1>4, CellKept DEF AnswerIInv

LEMMA StepEnds ==
    ASSUME AnswerIInv, LookupEnds
    PROVE  AnswerIInv'
<1>1. /\ reader' = Idle /\ held' = None /\ rxRing' = Pushed(rxRing, held)
      /\ UNCHANGED <<truth, forwards, sniffSeq, busEpoch, txBusy, answerSent,
                     accountsFor, unit, writer, copies, live>>
  BY DEF LookupEnds, sniffer
<1>2. reader'.pc # "answer" /\ held # None
  BY <1>1, IdleIs DEF LookupEnds, Outcomes, AnswerIInv, LookInv
<1>3. \/ answerCell' = answerCell
      \/ /\ reader.pc = "answer" /\ answerCell'.answer = reader.word
         /\ answerCell'.epoch = held.epoch /\ answerCell'.nth = held.nth
         /\ answerCell'.before = held.before
  <2>1. CASE reader.pc = "answer" /\ answerCell = None
    <3>1. answerCell' = [answer |-> reader.word, epoch |-> held.epoch,
                         before |-> held.before, nth |-> held.nth]
      BY <2>1 DEF LookupEnds
    <3> QED BY <2>1, <3>1
  <2>2. CASE ~(reader.pc = "answer" /\ answerCell = None)
    BY <2>2 DEF LookupEnds
  <2> QED BY <2>1, <2>2
<1>4. CaptureInv' /\ CopyInv' /\ LookInv'
  BY <1>1, <1>2, PassesOn, CopyKept, LookIdle DEF AnswerIInv
<1>5. EpochInv' /\ ReadyInv'
  BY <1>1, <1>2, <1>3, EpochStaged DEF AnswerIInv, ReadyInv
<1>6. HistoryInv'
  BY <1>1, <1>2, HistoryPassed DEF AnswerIInv
<1>7. reader.pc = "answer" => reader.word = held.before
  BY DEF AnswerIInv, HistoryInv, History
<1>8. AnswersCurrent' /\ AnswerFollowsItsQuery'
  BY <1>1, <1>3, <1>7 DEF AnswerIInv, AnswersCurrent, AnswerFollowsItsQuery
<1> QED BY <1>4, <1>5, <1>6, <1>8 DEF AnswerIInv

LEMMA StepFires ==
    ASSUME AnswerIInv, Fire \/ DropAnswer
    PROVE  AnswerIInv'
<1>1. /\ reader' = Idle /\ answerCell' = None
      /\ UNCHANGED <<truth, forwards, sniffSeq, busEpoch, txBusy, held, reader, rxRing,
                     accountsFor, unit, writer, copies, live>>
  BY DEF Fire, DropAnswer, sniffer
<1>2. CaptureInv' /\ EpochInv' /\ CopyInv' /\ LookInv'
  BY <1>1, CaptureKept, EpochKept, CopyKept, LookIdle DEF AnswerIInv
<1>3. ReadyInv' /\ HistoryInv'
  BY <1>1, ReadyKept, HistoryKept DEF AnswerIInv
<1>4. answerSent' # "too_late"
  BY FiresInTurn DEF AnswerIInv, DropAnswer, AnswerFollowsItsQuery
<1> QED BY <1>1, <1>2, <1>3, <1>4 DEF AnswerIInv, AnswersCurrent, AnswerFollowsItsQuery

LEMMA StepDrains ==
    ASSUME AnswerIInv, Drain
    PROVE  AnswerIInv'
<1>1. /\ writer = "idle"
      /\ UNCHANGED <<truth, forwards, sniffSeq, busEpoch, txBusy, held, reader, answerCell,
                     answerSent, writer, copies, live>>
  BY DEF Drain, interrupt
<1>2. CaptureInv' /\ accountsFor < accountsFor' /\ accountsFor \in Nat /\ accountsFor' \in Nat
  BY CaptureDrained DEF AnswerIInv, CaptureInv
<1>3. EpochInv' /\ CopyInv' /\ LookInv'
  BY <1>1, <1>2, EpochKept, CopyDrained, LookKept DEF AnswerIInv
<1>4. ReadyInv' /\ HistoryInv'
  BY ReadyDrained, HistoryDrained DEF AnswerIInv
<1> QED BY <1>1, <1>2, <1>3, <1>4, CellKept DEF AnswerIInv

LEMMA StepPublishes ==
    ASSUME AnswerIInv, Publication
    PROVE  AnswerIInv'
<1>1. /\ accountsFor \in Nat /\ unit \in Value \cup {None}
      /\ UNCHANGED <<truth, forwards, sniffSeq, busEpoch, txBusy, held, rxRing, answerCell,
                     answerSent, accountsFor, unit>>
  BY DEF AnswerIInv, CaptureInv, HistoryInv, Publication, PublishBegins, PublishAccounts,
         PublishWord, PublishSettles, PublishFlips, Store
<1>2. CaptureInv' /\ EpochInv'
  BY <1>1, CaptureKept, EpochKept DEF AnswerIInv
<1>3. CopyInv' /\ LookInv' /\ ReadyInv'
  BY <1>1, CopyPublished, LookPublished, ReadyPublished DEF AnswerIInv
<1>4. HistoryInv'
  BY HistoryPublished DEF AnswerIInv
<1> QED BY <1>1, <1>2, <1>3, <1>4, CellKept DEF AnswerIInv

LEMMA StepStays ==
    ASSUME AnswerIInv, UNCHANGED answerVars
    PROVE  AnswerIInv'
<1>1. UNCHANGED <<truth, forwards, sniffSeq, busEpoch, txBusy, held, reader, rxRing, answerCell,
                  answerSent, accountsFor, unit, writer, copies, live>>
  BY DEF answerVars, interrupt, sniffer
<1>2. CaptureInv' /\ EpochInv' /\ CopyInv' /\ LookInv'
  BY <1>1, CaptureKept, EpochKept, CopyKept, LookKept DEF AnswerIInv
<1>3. ReadyInv' /\ HistoryInv'
  BY <1>1, ReadyKept, HistoryKept DEF AnswerIInv
<1> QED BY <1>1, <1>2, <1>3, CellKept DEF AnswerIInv

LEMMA AnswerStarts ==
    ASSUME AnswerInit
    PROVE  AnswerIInv
<1>0. /\ truth \in Value /\ unit = truth /\ forwards = 0 /\ sniffSeq = 0 /\ busEpoch = 0
      /\ txBusy = FALSE /\ held = None /\ reader = Idle /\ rxRing = <<>> /\ answerCell = None
      /\ answerSent = None /\ accountsFor = 0 /\ writer = "idle" /\ live = 0
      /\ copies = [c \in {0, 1} |-> Unpublished(None)]
  BY DEF AnswerInit
<1>1. CaptureInv
  <2>1. rxRing \in Seq(Entry) /\ Len(rxRing) = 0
    BY <1>0, SMT
  <2>2. 0 \in Nat /\ 0 <= MaxCaptures /\ 0 <= RingRoom /\ 0 <= 0 /\ 1 .. 0 = {}
    BY AnswerAssumption, SMT
  <2>3. RingOK(rxRing, accountsFor, Passed)
    BY <2>1, <2>2 DEF RingOK
  <2> QED BY <1>0, <2>2, <2>3 DEF CaptureInv
<1>2. EpochInv
  <2>1. 0 \in Nat /\ 0 \in 0 .. EpochModulus - 1
    BY AnswerAssumption, SMT
  <2> QED BY <1>0, <2>1 DEF EpochInv
<1>3. /\ \A c \in {0, 1} : copies[c] \in CopyType /\ copies[c].gen = 0
                           /\ copies[c].accountsFor = 0 /\ copies[c].word = None
      /\ copies \in [{0, 1} -> CopyType]
  <2>1. 0 \in 0 .. GenModulus - 1
    BY Moduli
  <2>2. Unpublished(None) \in CopyType /\ Unpublished(None).gen = 0
        /\ Unpublished(None).accountsFor = 0 /\ Unpublished(None).word = None
    BY <2>1, SMT DEF Unpublished, CopyType
  <2> QED BY <1>0, <2>2
<1>4. CopyInv
  <2>1. 0 % 2 = 0 /\ 0 <= 0
    BY SMT
  <2>2. ~Writing /\ \A c \in {0, 1} : Even(c) /\ copies[c].accountsFor <= accountsFor
    BY <1>0, <1>3, <2>1 DEF Writing, Even
  <2> QED BY <1>0, <1>3, <2>2 DEF CopyInv
<1>5. reader.pc = "idle" /\ reader \in ReaderType
  BY <1>0, IdleIs
<1>6. LookInv /\ ReadyInv
  BY <1>0, <1>5 DEF LookInv, ReadyInv
<1>7. HistoryInv
  <2> DEFINE h == [i \in 0 .. 0 |-> truth]
  <2>1. h \in [0 .. sniffSeq -> Value] /\ h[0] = truth
    BY <1>0, SMT
  <2> HIDE DEF h
  <2>2. \A i \in 1 .. Len(rxRing) : FALSE
    BY <1>0, SMT
  <2>3. History(h)
    BY <1>0, <1>3, <1>5, <2>1, <2>2 DEF History
  <2> QED BY <1>0, <2>1, <2>3 DEF HistoryInv
<1>8. AnswersCurrent
  BY <1>0 DEF AnswersCurrent
<1>9. AnswerFollowsItsQuery
  BY <1>0, AnswerAssumption DEF AnswerFollowsItsQuery
<1> QED BY <1>1, <1>2, <1>4, <1>6, <1>7, <1>8, <1>9 DEF AnswerIInv

LEMMA AnswerSteps ==
    ASSUME AnswerIInv, [AnswerNext]_answerVars
    PROVE  AnswerIInv'
<1>1. CASE Interrupt
  <2>1. CASE \E frame \in Sets \cup Others : Capture(frame)
    BY <2>1, StepCaptures DEF Frames
  <2>2. CASE OwnFrameStarts \/ \E yielded \in BOOLEAN : OwnFrameEnds(yielded)
    BY <2>2, StepOwnFrame
  <2>3. CASE DecodeNoQuery \/ DecodeQuery
    BY <2>3, StepPassesOn, StepLooks
  <2>4. CASE ReadSome
    BY <2>4, StepReads
  <2>5. CASE LookupEnds \/ Fire \/ DropAnswer
    BY <2>5, StepEnds, StepFires
  <2> QED BY <1>1, <2>1, <2>2, <2>3, <2>4, <2>5 DEF Interrupt, ReadSome
<1>2. CASE Task
  BY <1>2, StepDrains, StepPublishes DEF Task, Publication
<1>3. CASE UNCHANGED answerVars
  BY <1>3, StepStays
<1> QED BY <1>1, <1>2, <1>3 DEF AnswerNext

LEMMA AnswerIsRight ==
    ASSUME AnswerIInv
    PROVE  AnswersRight
<1>1. AnswerTypeOK
  <2>1. sniffSeq \in 0 .. MaxCaptures /\ accountsFor \in 0 .. sniffSeq
    BY AnswerAssumption, SMT DEF AnswerIInv, CaptureInv
  <2>2. \A c \in {0, 1} : copies[c].gen \in 0 .. GenModulus - 1 /\ copies[c].word \in Value \cup {None}
    BY CopyFields DEF AnswerIInv, CopyInv
  <2>3. /\ Len(rxRing) <= RingRoom
        /\ \A i \in 1 .. Len(rxRing) - 1 : rxRing[i].seq < rxRing[i + 1].seq
    <3>1. RingOK(rxRing, accountsFor, Passed)
      BY DEF AnswerIInv, CaptureInv
    <3>2. Len(rxRing) \in Nat
      BY <3>1, Entries DEF RingOK
    <3>3. \A i \in 1 .. Len(rxRing) - 1 : i \in 1 .. Len(rxRing) /\ i + 1 \in 1 .. Len(rxRing) /\ i < i + 1
      BY <3>2, SMT
    <3> QED BY <3>1, <3>3 DEF RingOK
  <2> QED BY <2>1, <2>2, <2>3 DEF AnswerTypeOK, AnswerIInv, HistoryInv, EpochInv, CopyInv
<1>2. TornNeedsTwoPublications
  BY DEF AnswerIInv, LookInv, TornNeedsTwoPublications
<1>3. NotRefusedWhenReady
  BY DEF AnswerIInv, LookInv, ReadyInv, NotRefusedWhenReady
<1> QED BY <1>1, <1>2, <1>3 DEF AnswerIInv, AnswersRight

\* What the interrupt answers another controller is right: however the capture,
\* look-up and publication steps interleave, an answer taken from the table is
\* the one a unit that missed nothing gives, it goes out only under its own
\* query, a look-up is torn only when a publication completes under it, and is
\* refused as behind only if the table was behind when the query came
\* (AnswerTableCell::publish and read_live, decide, AnswerPublisher::drain,
\* try_arm_answer), for every ring size and counter width.
THEOREM AnswersAreRight == AnswerSpec => []AnswersRight
<1>1. AnswerInit => AnswerIInv
  BY AnswerStarts
<1>2. AnswerIInv /\ [AnswerNext]_answerVars => AnswerIInv'
  BY AnswerSteps
<1>3. AnswerIInv => AnswersRight
  BY AnswerIsRight
<1> QED BY <1>1, <1>2, <1>3, PTL DEF AnswerSpec

=============================================================================
