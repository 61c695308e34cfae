---------------------- MODULE ConfirmationBridgeProofs ----------------------
(***************************************************************************)
(* For any number of handler threads, any pool capacity and any batch      *)
(* size, no request is ever handed another request's confirmation, and no  *)
(* slot of the pool outlives the request that registered it.               *)
(***************************************************************************)
EXTENDS ConfirmationBridge, TLAPS

\* A leaf that names no prover is for Zenon; one that counts, or takes a record or
\* a sequence apart, cites SMT.
USE Zenon

Gens == 0..(GenMod - 1)

ClientRecords ==
    [pc : Phases, ids : Seq(Ids), handles : Seq(Handles), sent : Nat, at : Nat,
     cancelAt : Nat, cancelTo : Nat, expired : BOOLEAN, reply : Replies]

\* The indices a request uses in its current phase are within its batch.
Waiting == {"wait", "retry", "withdraw", "last"}

ClientOK(r) ==
    /\ Len(r.handles) <= Len(r.ids)
    /\ r.pc = "register" => Len(r.handles) < Len(r.ids) /\ r.sent = 0 /\ r.at = 0
    /\ r.pc = "publish" => Len(r.handles) = Len(r.ids) /\ r.sent < Len(r.ids) /\ r.at = 0
    /\ r.pc \in Waiting =>
         Len(r.handles) = Len(r.ids) /\ 1 <= r.at /\ r.at <= r.sent /\ r.sent <= Len(r.ids)
    /\ r.pc = "cancel" =>
         /\ 1 <= r.cancelAt /\ r.cancelAt <= r.cancelTo /\ r.cancelTo <= Len(r.ids)
         /\ (r.reply = "partial" /\ r.at = 0)
               => Len(r.handles) = Len(r.ids) /\ 1 <= r.sent /\ r.sent < Len(r.ids)

\* Type correctness, made inductive by the phase indices.
TypeInv == TypeOK /\ \A c \in Clients : ClientOK(client[c])

LEMMA ModRange == \A n \in Nat : n % GenMod \in Gens
  BY GenModAssumption, SMT DEF Gens

LEMMA TypeInit == Init => TypeInv
  <1> SUFFICES ASSUME Init PROVE TypeInv
    OBVIOUS
  <1> USE GenModAssumption, CapacityAssumption, BoundAssumption DEF Init, TypeInv
  <1>1. Idle \in ClientRecords /\ ClientOK(Idle)
    BY SMT DEF Idle, Request, ClientRecords, ClientOK, Phases, Replies, Waiting
  <1>2. TypeOK
    BY <1>1, SMT DEF TypeOK, NoSlot, NoBody, NoDelivery, ClientRecords
  <1> QED BY <1>1, <1>2

\* A step that replaces one client's record keeps the type of all of them.
LEMMA RecordType ==
    ASSUME NEW r \in ClientRecords, NEW pc \in Phases, NEW n \in Nat
    PROVE  /\ [r EXCEPT !.pc = pc] \in ClientRecords
           /\ [r EXCEPT !.sent = n] \in ClientRecords
           /\ [r EXCEPT !.at = n] \in ClientRecords
           /\ [r EXCEPT !.cancelAt = n] \in ClientRecords
           /\ [r EXCEPT !.pc = pc, !.at = n] \in ClientRecords
           /\ [r EXCEPT !.sent = n, !.pc = pc, !.at = 1] \in ClientRecords
           /\ [r EXCEPT !.pc = pc, !.expired = TRUE] \in ClientRecords
  BY DEF ClientRecords

LEMMA UpdateType ==
    ASSUME TypeInv, NEW c \in Clients, NEW r,
           r \in ClientRecords, ClientOK(r), Update(c, r)
    PROVE  client' \in [Clients -> ClientRecords] /\ \A d \in Clients : ClientOK(client'[d])
  BY DEF TypeInv, TypeOK, ClientRecords, Update

LEMMA RespondType ==
    ASSUME TypeInv, NEW c \in Clients, NEW reply \in Replies, Respond(c, reply)
    PROVE  client' \in [Clients -> ClientRecords] /\ \A d \in Clients : ClientOK(client'[d])
  <1>1. Request("idle", <<>>, reply) \in ClientRecords
    BY SMT DEF Request, ClientRecords, Phases
  <1>2. ClientOK(Request("idle", <<>>, reply))
    BY SMT DEF Request, ClientOK, Waiting
  <1> QED BY <1>1, <1>2, UpdateType DEF Respond

LEMMA GiveUpType ==
    ASSUME TypeInv, NEW c \in Clients, NEW reply \in Replies,
           NEW from \in Nat, NEW to \in Nat, 1 <= from, to <= Len(client[c].ids),
           (reply = "partial" /\ client[c].at = 0) =>
               /\ Len(client[c].handles) = Len(client[c].ids)
               /\ 1 <= client[c].sent /\ client[c].sent < Len(client[c].ids),
           GiveUp(c, from, to, reply)
    PROVE  client' \in [Clients -> ClientRecords] /\ \A d \in Clients : ClientOK(client'[d])
  <1> DEFINE r == [client[c] EXCEPT !.pc = "cancel", !.cancelAt = from,
                                    !.cancelTo = to, !.reply = reply]
  <1>0. client[c] \in ClientRecords /\ ClientOK(client[c])
    BY DEF TypeInv, TypeOK, ClientRecords
  <1>1. CASE from > to
    BY <1>1, RespondType DEF GiveUp
  <1>2. CASE ~(from > to)
    <2>1. r \in ClientRecords
      BY <1>0 DEF ClientRecords, Phases
    <2>2. ClientOK(r)
      BY <1>0, <1>2, SMT DEF ClientRecords, ClientOK, Waiting
    <2> QED BY <1>2, <2>1, <2>2, UpdateType DEF GiveUp
  <1> QED BY <1>1, <1>2

LEMMA TypeNext == TypeInv /\ [Next]_vars => TypeInv'
  <1> SUFFICES ASSUME TypeInv, [Next]_vars PROVE TypeInv'
    OBVIOUS
  <1> USE GenModAssumption, CapacityAssumption, BoundAssumption, BatchAssumption
  <1> DEFINE ClientsOK == /\ client' \in [Clients -> ClientRecords]
                          /\ \A d \in Clients : ClientOK(client'[d])
             OthersOK == /\ slots' \in [Idx -> [id : Ids, gen : Gens] \cup {NoSlot}]
                         /\ generation' \in [Idx -> Gens]
                         /\ body' \in [Idx -> Bodies \cup {NoBody}]
                         /\ nextId' \in 1..(MaxId + 1)
                         /\ queued' \subseteq Ids
                         /\ inbox' \in Seq(Bodies)
                         /\ bridge' \in [idx : Idx, gen : Gens, body : Bodies] \cup {NoDelivery}
                         /\ delivered' \subseteq Ids
  <1>a. ClientsOK /\ OthersOK => TypeInv'
    BY DEF TypeInv, TypeOK, ClientRecords, Gens, ClientOK
  <1>b. /\ client \in [Clients -> ClientRecords]
        /\ \A d \in Clients : client[d] \in ClientRecords /\ ClientOK(client[d])
        /\ slots \in [Idx -> [id : Ids, gen : Gens] \cup {NoSlot}]
        /\ generation \in [Idx -> Gens]
        /\ body \in [Idx -> Bodies \cup {NoBody}]
        /\ nextId \in 1..(MaxId + 1)
        /\ queued \subseteq Ids
        /\ inbox \in Seq(Bodies)
        /\ bridge \in [idx : Idx, gen : Gens, body : Bodies] \cup {NoDelivery}
        /\ delivered \subseteq Ids
    BY DEF TypeInv, TypeOK, ClientRecords, Gens
  <1>c. client' = client => ClientsOK
    BY <1>b
  <1>d. \A s \in [Idx -> [id : Ids, gen : Gens] \cup {NoSlot}], id \in Ids :
            Cancel(s, id) \in [Idx -> [id : Ids, gen : Gens] \cup {NoSlot}]
    BY DEF Cancel
  <1> HIDE DEF ClientsOK, OthersOK
  <1>1. ASSUME NEW c \in Clients, NEW n \in 1..MaxBatch, Start(c, n)
        PROVE  TypeInv'
    <2> DEFINE ids == [k \in 1..n |-> nextId + k - 1]
    <2>1. ids \in Seq(Ids) /\ Len(ids) = n
      BY <1>1, <1>b, SMT DEF Start, Ids
    <2>2. Request("register", ids, "none") \in ClientRecords
      BY <2>1, SMT DEF Request, ClientRecords, Phases, Replies
    <2>3. ClientOK(Request("register", ids, "none"))
      BY <2>1, SMT DEF Request, ClientOK, Waiting
    <2>4. ClientsOK
      BY <1>1, <2>2, <2>3, UpdateType DEF Start, ClientsOK
    <2>5. OthersOK
      BY <1>1, <1>b, SMT DEF Start, OthersOK
    <2> QED BY <1>a, <2>4, <2>5
  <1>2. ASSUME NEW c \in Clients, Register(c) PROVE TypeInv'
    <2> DEFINE r == client[c]
               k == Len(r.handles) + 1
    <2>0. r \in ClientRecords /\ ClientOK(r) /\ r.pc = "register"
      BY <1>2, <1>b DEF Register
    <2>1. k \in 1..Len(r.ids) /\ r.ids[k] \in Ids
      BY <2>0, SMT DEF ClientRecords, ClientOK
    <2>2. PICK i \in Idx :
             /\ generation' = [generation EXCEPT ![i] = NextGen(i)]
             /\ body' = [body EXCEPT ![i] = NoBody]
             /\ slots' = [slots EXCEPT ![i] = [id |-> r.ids[k], gen |-> NextGen(i)]]
             /\ Update(c, [r EXCEPT !.handles = Append(@, [idx |-> i, gen |-> NextGen(i)]),
                                    !.pc = IF k = Len(r.ids) THEN "publish" ELSE "register"])
      BY <1>2 DEF Register
    <2>3. NextGen(i) \in Gens
      <3>1. generation[i] + 1 \in Nat
        BY <1>b, SMT DEF Gens
      <3> QED BY <3>1, ModRange DEF NextGen
    <2> DEFINE h == [idx |-> i, gen |-> NextGen(i)]
               hs == Append(r.handles, h)
               p == IF k = Len(r.ids) THEN "publish" ELSE "register"
               q == [r EXCEPT !.handles = hs, !.pc = p]
    <2>4. h \in Handles /\ r.handles \in Seq(Handles)
      BY <2>0, <2>3 DEF Handles, Gens, ClientRecords
    <2>4a. hs \in Seq(Handles) /\ Len(hs) = k
      BY <2>4, SMT
    <2> HIDE DEF hs
    <2>5. q \in ClientRecords
      BY <2>0, <2>4a DEF ClientRecords, Phases
    <2>6. ClientOK(q)
      <3>1. /\ q.handles = hs /\ q.pc = p /\ q.ids = r.ids /\ q.sent = r.sent /\ q.at = r.at
        BY <2>0 DEF ClientRecords
      <3> QED BY <3>1, <2>0, <2>1, <2>4a, SMT DEF ClientRecords, ClientOK, Waiting
    <2>7. ClientsOK
      BY <2>2, <2>5, <2>6, UpdateType DEF ClientsOK, hs
    <2>8. OthersOK
      BY <1>2, <1>b, <2>1, <2>2, <2>3 DEF Register, OthersOK
    <2> QED BY <1>a, <2>7, <2>8
  <1>3. ASSUME NEW c \in Clients, RegisterRefused(c) PROVE TypeInv'
    <2> DEFINE r == client[c]
    <2>1. r \in ClientRecords /\ GiveUp(c, 1, Len(r.ids), "exhausted")
      BY <1>3, <1>b DEF RegisterRefused
    <2>2. ClientsOK
      BY <2>1, GiveUpType, SMT DEF ClientsOK, ClientRecords, Replies
    <2>3. OthersOK
      BY <1>3, <1>b DEF RegisterRefused, OthersOK
    <2> QED BY <1>a, <2>2, <2>3
  <1>4. ASSUME NEW c \in Clients, Publish(c) PROVE TypeInv'
    <2> DEFINE r == client[c]
               n == r.sent + 1
    <2>0. r \in ClientRecords /\ ClientOK(r) /\ r.pc = "publish"
      BY <1>4, <1>b DEF Publish
    <2>1. n \in 1..Len(r.ids) /\ r.ids[n] \in Ids /\ n \in Nat
      BY <2>0, SMT DEF ClientRecords, ClientOK
    <2>2. CASE n = Len(r.ids)
      <3> DEFINE q == [r EXCEPT !.sent = n, !.pc = "wait", !.at = 1]
      <3>1. q \in ClientRecords
        BY <2>0, <2>1, RecordType DEF Phases
      <3>2. ClientOK(q)
        BY <2>0, <2>1, <2>2, SMT DEF ClientRecords, ClientOK, Waiting
      <3> QED BY <1>4, <2>2, <3>1, <3>2, UpdateType, <1>a, <1>b, <2>1
              DEF Publish, ClientsOK, OthersOK
    <2>3. CASE n # Len(r.ids)
      <3> DEFINE q == [r EXCEPT !.sent = n]
      <3>1. q \in ClientRecords
        BY <2>0, <2>1, RecordType DEF Phases
      <3>2. ClientOK(q)
        BY <2>0, <2>1, <2>3, SMTT(20) DEF ClientRecords, ClientOK, Waiting
      <3> QED BY <1>4, <2>3, <3>1, <3>2, UpdateType, <1>a, <1>b, <2>1
              DEF Publish, ClientsOK, OthersOK
    <2> QED BY <2>2, <2>3
  <1>5. ASSUME NEW c \in Clients, PublishRefused(c) PROVE TypeInv'
    <2> DEFINE r == client[c]
               reply == IF r.sent = 0 THEN "overload" ELSE "partial"
    <2>0. r \in ClientRecords /\ ClientOK(r) /\ r.pc = "publish"
      BY <1>5, <1>b DEF PublishRefused
    <2>1. reply \in Replies /\ r.sent + 1 \in Nat /\ Len(r.ids) \in Nat
      BY <2>0, SMT DEF ClientRecords, Replies
    <2>2. ClientsOK
      BY <1>5, <2>0, <2>1, GiveUpType, SMT DEF PublishRefused, ClientsOK, ClientRecords, ClientOK
    <2>3. OthersOK
      BY <1>5, <1>b DEF PublishRefused, OthersOK
    <2> QED BY <1>a, <2>2, <2>3
  <1>e. ASSUME NEW c \in Clients, client[c].pc \in Waiting,
               NEW reply \in Replies, reply # "partial", Fail(c, reply)
        PROVE  ClientsOK
    <2> DEFINE r == client[c]
               answer == IF r.reply = "partial" THEN "partial" ELSE reply
    <2>0. r \in ClientRecords /\ ClientOK(r)
      BY <1>b
    <2>1. /\ answer \in Replies /\ r.at + 1 \in Nat /\ r.sent \in Nat
          /\ r.at # 0 /\ r.sent <= Len(r.ids) /\ 1 <= r.at + 1
      BY <1>e, <2>0, SMT DEF ClientRecords, ClientOK, Replies
    <2> QED BY <1>e, <2>1, GiveUpType DEF Fail, ClientsOK
  <1>6. ASSUME NEW c \in Clients, Await(c) PROVE TypeInv'
    <2> DEFINE r == client[c]
               h == r.handles[r.at]
    <2>0. r \in ClientRecords /\ ClientOK(r) /\ r.pc \in Waiting
      BY <1>6, <1>b DEF Await, Waiting
    <2>1. body' = [body EXCEPT ![h.idx] = NoBody]
      BY <1>6 DEF Await, Take
    <2>2. OthersOK
      BY <1>6, <2>1, <1>b DEF Await, OthersOK
    <2>3. CASE ~body[h.idx].ok
      <3>1. Fail(c, "failed")
        BY <1>6, <2>3 DEF Await, Take
      <3> QED BY <1>a, <1>e, <2>0, <2>2, <3>1 DEF Replies
    <2>4. CASE body[h.idx].ok /\ r.at = r.sent
      <3> DEFINE reply == IF r.reply = "partial" THEN "partial" ELSE "ok"
      <3>1. Respond(c, reply) /\ reply \in Replies
        BY <1>6, <2>4 DEF Await, Take, Replies
      <3> QED BY <1>a, <2>2, <3>1, RespondType DEF ClientsOK
    <2>5. CASE body[h.idx].ok /\ r.at # r.sent
      <3> DEFINE q == [r EXCEPT !.pc = "wait", !.at = @ + 1]
      <3>1. Update(c, q)
        BY <1>6, <2>5 DEF Await, Take
      <3>2. q \in ClientRecords
        <4>1. r.at + 1 \in Nat
          BY <2>0, SMT DEF ClientRecords
        <4> QED BY <2>0, <4>1, RecordType DEF Phases
      <3>3. ClientOK(q)
        BY <2>0, <2>5, SMTT(20) DEF ClientRecords, ClientOK, Waiting
      <3> QED BY <1>a, <2>2, <3>1, <3>2, <3>3, UpdateType DEF ClientsOK
    <2> QED BY <2>3, <2>4, <2>5
  <1>7. ASSUME NEW c \in Clients,
               WaitExpired(c) \/ WaitOvertaken(c) \/ RetryEmpty(c) \/ Withdraw(c)
        PROVE  TypeInv'
    <2> DEFINE r == client[c]
    <2>0. /\ r \in ClientRecords /\ ClientOK(r) /\ r.pc \in Waiting
          /\ r.at \in 1..Len(r.ids) /\ r.ids[r.at] \in Ids
      BY <1>7, <1>b, SMT DEF WaitExpired, WaitOvertaken, RetryEmpty, Withdraw, Waiting,
                        ClientOK, ClientRecords
    <2>1. OthersOK
      BY <1>7, <1>b, <1>d, <2>0, SMTT(20)
         DEF WaitExpired, WaitOvertaken, RetryEmpty, Withdraw, OthersOK
    <2>2. ASSUME NEW pc \in Waiting, Update(c, [r EXCEPT !.pc = pc])
          PROVE  ClientsOK
      <3>1. [r EXCEPT !.pc = pc] \in ClientRecords
        BY <2>0, RecordType DEF Phases, Waiting
      <3>2. ClientOK([r EXCEPT !.pc = pc])
        BY <2>0 DEF ClientOK, ClientRecords, Waiting
      <3> QED BY <2>2, <3>1, <3>2, UpdateType DEF ClientsOK
    <2>3. CASE WaitExpired(c)
      <3> DEFINE q == [r EXCEPT !.pc = "retry", !.expired = TRUE]
      <3>1. q \in ClientRecords
        BY <2>0, RecordType DEF Phases
      <3>2. ClientOK(q)
        BY <2>0 DEF ClientOK, ClientRecords, Waiting
      <3> QED BY <1>a, <2>1, <2>3, <3>1, <3>2, UpdateType DEF WaitExpired, ClientsOK
    <2>4. CASE WaitOvertaken(c)
      BY <1>a, <2>1, <2>2, <2>4 DEF WaitOvertaken, Waiting
    <2>5. CASE RetryEmpty(c)
      BY <1>a, <2>1, <2>2, <2>5 DEF RetryEmpty, Waiting
    <2>6. CASE Withdraw(c)
      BY <1>a, <2>1, <2>2, <2>6 DEF Withdraw, Waiting
    <2> QED BY <1>7, <2>3, <2>4, <2>5, <2>6
  <1>8. ASSUME NEW c \in Clients, TimedOut(c) PROVE TypeInv'
    <2>1. ClientsOK
      BY <1>8, <1>e DEF TimedOut, Waiting, Replies
    <2>2. OthersOK
      BY <1>8, <1>b DEF TimedOut, OthersOK
    <2> QED BY <1>a, <2>1, <2>2
  <1>9. ASSUME NEW c \in Clients, CancelNext(c) PROVE TypeInv'
    <2> DEFINE r == client[c]
    <2>a. r \in ClientRecords /\ ClientOK(r) /\ r.pc = "cancel"
      BY <1>9, <1>b DEF CancelNext
    <2>b. r.cancelAt \in 1..Len(r.ids) /\ r.cancelAt + 1 \in Nat
      BY <2>a, SMT DEF ClientOK, ClientRecords
    <2>0. /\ r \in ClientRecords /\ ClientOK(r) /\ r.pc = "cancel"
          /\ r.cancelAt \in 1..Len(r.ids) /\ r.ids[r.cancelAt] \in Ids
          /\ r.cancelAt + 1 \in Nat /\ r.reply \in Replies
      BY <2>a, <2>b, SMT DEF ClientRecords
    <2>1. OthersOK
      BY <1>9, <1>b, <1>d, <2>0 DEF CancelNext, OthersOK
    <2>2. CASE r.cancelAt < r.cancelTo
      <3> DEFINE q == [r EXCEPT !.cancelAt = @ + 1]
      <3>1. q \in ClientRecords
        BY <2>0, RecordType DEF Phases
      <3>2. ClientOK(q)
        BY <2>0, <2>2, SMTT(20) DEF ClientOK, ClientRecords, Waiting
      <3> QED BY <1>a, <1>9, <2>1, <2>2, <3>1, <3>2, UpdateType DEF CancelNext, ClientsOK
    <2>3. CASE ~(r.cancelAt < r.cancelTo) /\ r.reply = "partial" /\ r.at = 0
      <3> DEFINE q == [r EXCEPT !.pc = "wait", !.at = 1]
      <3>1. q \in ClientRecords
        BY <2>0, RecordType DEF Phases
      <3>2. ClientOK(q)
        BY <2>0, <2>3, SMT DEF ClientOK, ClientRecords, Waiting
      <3> QED BY <1>a, <1>9, <2>1, <2>3, <3>1, <3>2, UpdateType DEF CancelNext, ClientsOK
    <2>4. CASE ~(r.cancelAt < r.cancelTo) /\ ~(r.reply = "partial" /\ r.at = 0)
      BY <1>a, <1>9, <2>0, <2>1, <2>4, RespondType DEF CancelNext, ClientsOK
    <2> QED BY <2>2, <2>3, <2>4
  <1>10. ASSUME NEW id \in Ids, NEW ok \in BOOLEAN, Confirm(id, ok) PROVE TypeInv'
    <2>1. [id |-> id, ok |-> ok] \in Bodies
      BY DEF Bodies
    <2>2. OthersOK
      BY <1>10, <1>b, <2>1, SMT DEF Confirm, OthersOK
    <2> QED BY <1>a, <1>c, <1>10, <2>2 DEF Confirm
  <1>11. ASSUME Match PROVE TypeInv'
    <2>1. Head(inbox) \in Bodies /\ inbox' \in Seq(Bodies)
      BY <1>11, <1>b, SMT DEF Match
    <2>2. PICK i \in Idx, formatted \in BOOLEAN :
             /\ slots[i].id = Head(inbox).id
             /\ slots' = [slots EXCEPT ![i] = NoSlot]
             /\ bridge' = [idx |-> i, gen |-> slots[i].gen,
                           body |-> [Head(inbox) EXCEPT !.ok = @ /\ formatted]]
      BY <1>11 DEF Match
    <2>3. slots[i] \in [id : Ids, gen : Gens]
      BY <1>b, <2>1, <2>2, SMT DEF NoSlot, Bodies, Ids
    <2>4. [Head(inbox) EXCEPT !.ok = @ /\ formatted] \in Bodies
      BY <2>1 DEF Bodies
    <2>5. OthersOK
      BY <1>11, <1>b, <2>1, <2>2, <2>3, <2>4 DEF Match, OthersOK
    <2> QED BY <1>a, <1>c, <1>11, <2>5 DEF Match
  <1>12. ASSUME Unmatched PROVE TypeInv'
    BY <1>12, <1>a, <1>b, <1>c, SMT DEF Unmatched, OthersOK
  <1>13. ASSUME Deliver PROVE TypeInv'
    <2>1. bridge.idx \in Idx /\ bridge.body \in Bodies /\ bridge.body.id \in Ids
      BY <1>13, <1>b DEF Deliver, Bodies
    <2>2. OthersOK
      BY <1>13, <1>b, <2>1 DEF Deliver, OthersOK
    <2> QED BY <1>a, <1>c, <1>13, <2>2 DEF Deliver
  <1>14. ASSUME UNCHANGED vars PROVE TypeInv'
    BY <1>14, <1>a, <1>b, <1>c DEF vars, OthersOK
  <1> QED
    BY <1>1, <1>2, <1>3, <1>4, <1>5, <1>6, <1>7, <1>8, <1>9, <1>10, <1>11, <1>12,
       <1>13, <1>14 DEF Next, ClientStep, BridgeStep, Finished

-----------------------------------------------------------------------------
\* The inductive invariant.

\* An occupied slot carries its waiter's current generation, its waiter holds
\* no body yet, and no delivery to it is under way.
SlotInv ==
    \A i \in Idx : ~Free(i) =>
        /\ slots[i].gen = generation[i]
        /\ body[i] = NoBody
        /\ ~(bridge.idx = i /\ bridge.gen = slots[i].gen)

\* Wherever a handle's generation is still current, in the pool, in the bridge
\* thread's hands or at the waiter, what it leads to is the handle's own id.
HandleOK(h, id) ==
    /\ (~Free(h.idx) /\ slots[h.idx].gen = h.gen) => slots[h.idx].id = id
    /\ (bridge.idx = h.idx /\ bridge.gen = h.gen) => bridge.body.id = id
    /\ HasBody(h) => body[h.idx].id = id

HandleInv ==
    \A c \in Clients : \A k \in 1..Len(client[c].handles) :
        HandleOK(client[c].handles[k], client[c].ids[k])

\* The entries of a request's batch that may still occupy a slot.
Pending(r, k) ==
    \/ r.pc \in {"register", "publish"}
    \/ r.pc \in {"wait", "retry", "withdraw"} /\ r.at <= k /\ k <= r.sent
    \/ r.pc = "last" /\ r.at < k /\ k <= r.sent
    \/ r.pc = "cancel" /\ r.cancelAt <= k /\ k <= r.cancelTo
    \/ r.pc = "cancel" /\ r.reply = "partial" /\ r.at = 0 /\ k <= r.sent

Owns(c, k, i) ==
    /\ k \in 1..Len(client[c].handles)
    /\ client[c].ids[k] = slots[i].id
    /\ client[c].handles[k] = [idx |-> i, gen |-> slots[i].gen]

OwnerInv ==
    \A i \in Idx : ~Free(i) =>
        \E c \in Clients : \E k \in 1..Len(client[c].handles) :
            Owns(c, k, i) /\ Pending(client[c], k)

IInv == TypeInv /\ SlotInv /\ HandleInv /\ OwnerInv

\* What the steps other than Register, Match and Deliver have in common: they
\* start no generation and no delivery, they may only empty slots and waiters,
\* and each request keeps its handles or has none.
Shrinks ==
    /\ generation' = generation
    /\ bridge' = bridge
    /\ \A i \in Idx : slots'[i] = slots[i] \/ slots'[i] = NoSlot
    /\ \A i \in Idx : body'[i] = body[i] \/ body'[i] = NoBody
    /\ \A c \in Clients :
         \/ client'[c].handles = client[c].handles /\ client'[c].ids = client[c].ids
         \/ client'[c].handles = <<>>

LEMMA TypeFacts ==
    ASSUME TypeInv
    PROVE  /\ client \in [Clients -> ClientRecords]
           /\ \A c \in Clients :
                /\ client[c] \in ClientRecords /\ ClientOK(client[c])
                /\ client[c].handles \in Seq(Handles) /\ client[c].ids \in Seq(Ids)
                /\ \A k \in 1..Len(client[c].handles) :
                     /\ client[c].handles[k] \in Handles
                     /\ client[c].handles[k].idx \in Idx
                     /\ client[c].handles[k].gen \in Gens
                     /\ k \in 1..Len(client[c].ids)
           /\ slots \in [Idx -> [id : Ids, gen : Gens] \cup {NoSlot}]
           /\ generation \in [Idx -> Gens]
           /\ body \in [Idx -> Bodies \cup {NoBody}]
           /\ bridge \in [idx : Idx, gen : Gens, body : Bodies] \cup {NoDelivery}
  <1>1. /\ client \in [Clients -> ClientRecords]
        /\ \A c \in Clients : client[c] \in ClientRecords /\ ClientOK(client[c])
        /\ slots \in [Idx -> [id : Ids, gen : Gens] \cup {NoSlot}]
        /\ generation \in [Idx -> Gens]
        /\ body \in [Idx -> Bodies \cup {NoBody}]
        /\ bridge \in [idx : Idx, gen : Gens, body : Bodies] \cup {NoDelivery}
    BY DEF TypeInv, TypeOK, ClientRecords, Gens
  <1>2. ASSUME NEW c \in Clients
        PROVE  /\ client[c].handles \in Seq(Handles) /\ client[c].ids \in Seq(Ids)
               /\ Len(client[c].handles) <= Len(client[c].ids)
    BY <1>1 DEF ClientRecords, ClientOK
  <1>3. ASSUME NEW c \in Clients, NEW k \in 1..Len(client[c].handles)
        PROVE  /\ client[c].handles[k] \in Handles
               /\ client[c].handles[k].idx \in Idx
               /\ client[c].handles[k].gen \in Gens
               /\ k \in 1..Len(client[c].ids)
    <2>1. client[c].handles[k] \in Handles
      BY <1>2, SMT
    <2>2. client[c].handles[k].idx \in Idx /\ client[c].handles[k].gen \in Gens
      BY <2>1 DEF Handles, Gens
    <2>3. k \in 1..Len(client[c].ids)
      BY <1>2, SMT
    <2> QED BY <2>1, <2>2, <2>3
  <1> QED BY <1>1, <1>2, <1>3

LEMMA SlotShrinks == TypeInv /\ SlotInv /\ Shrinks => SlotInv'
  BY DEF SlotInv, Shrinks, Free

LEMMA HandleShrinks == TypeInv /\ HandleInv /\ Shrinks => HandleInv'
  <1> SUFFICES ASSUME TypeInv, HandleInv, Shrinks,
                      NEW c \in Clients, NEW k \in 1..Len(client'[c].handles)
               PROVE  HandleOK(client[c].handles[k], client[c].ids[k])'
    BY DEF HandleInv
  <1>1. /\ client'[c].handles = client[c].handles /\ client'[c].ids = client[c].ids
        /\ k \in 1..Len(client[c].handles)
    BY SMT DEF Shrinks
  <1> DEFINE h == client[c].handles[k]
             id == client[c].ids[k]
  <1>2. h.idx \in Idx /\ HandleOK(h, id)
    BY <1>1, TypeFacts DEF HandleInv
  <1>3. client'[c].handles[k] = h /\ client'[c].ids[k] = id
    BY <1>1
  <1> HIDE DEF h, id
  <1>4. /\ (slots'[h.idx] # NoSlot /\ slots'[h.idx].gen = h.gen) => slots'[h.idx].id = id
        /\ (bridge'.idx = h.idx /\ bridge'.gen = h.gen) => bridge'.body.id = id
        /\ (generation'[h.idx] = h.gen /\ body'[h.idx] # NoBody) => body'[h.idx].id = id
    BY <1>2 DEF HandleOK, Shrinks, Free, HasBody
  <1> QED BY <1>3, <1>4 DEF HandleOK, Free, HasBody

LEMMA OwnerShrinks ==
    ASSUME TypeInv, OwnerInv, NEW c \in Clients, NEW q, Update(c, q),
           \A i \in Idx : slots'[i] = slots[i] \/ slots'[i] = NoSlot,
           \A i \in Idx : \A k \in 1..Len(client[c].handles) :
               (slots'[i] = slots[i] /\ ~Free(i) /\ Owns(c, k, i) /\ Pending(client[c], k))
                   => q.handles = client[c].handles /\ q.ids = client[c].ids /\ Pending(q, k)
    PROVE  OwnerInv'
  <1> SUFFICES ASSUME NEW i \in Idx, slots'[i] # NoSlot
               PROVE  \E d \in Clients : \E k \in 1..Len(client'[d].handles) :
                          /\ k \in 1..Len(client'[d].handles)
                          /\ client'[d].ids[k] = slots'[i].id
                          /\ client'[d].handles[k] = [idx |-> i, gen |-> slots'[i].gen]
                          /\ Pending(client'[d], k)
    BY DEF OwnerInv, Owns, Free, Pending
  <1>1. slots'[i] = slots[i] /\ ~Free(i)
    BY DEF Free
  <1>a. PICK d \in Clients : \E k \in 1..Len(client[d].handles) :
           Owns(d, k, i) /\ Pending(client[d], k)
    BY <1>1 DEF OwnerInv
  <1>2. PICK k \in 1..Len(client[d].handles) : Owns(d, k, i) /\ Pending(client[d], k)
    BY <1>a
  <1>3. client' = [client EXCEPT ![c] = q] /\ client \in [Clients -> ClientRecords]
    BY TypeFacts DEF Update
  <1>4. CASE d = c
    BY <1>1, <1>2, <1>3, <1>4 DEF Owns
  <1>5. CASE d # c
    BY <1>1, <1>2, <1>3, <1>5 DEF Owns
  <1> QED BY <1>4, <1>5

LEMMA UpdateShrinks ==
    ASSUME TypeInv, NEW c \in Clients, NEW q, Update(c, q),
           (q.handles = client[c].handles /\ q.ids = client[c].ids) \/ q.handles = <<>>
    PROVE  \A d \in Clients :
             \/ client'[d].handles = client[d].handles /\ client'[d].ids = client[d].ids
             \/ client'[d].handles = <<>>
  <1>1. client' = [client EXCEPT ![c] = q] /\ client \in [Clients -> ClientRecords]
    BY TypeFacts DEF Update
  <1>2. ASSUME NEW d \in Clients, d # c PROVE client'[d] = client[d]
    BY <1>1, <1>2
  <1>3. client'[c] = q
    BY <1>1
  <1> QED BY <1>2, <1>3

LEMMA RespondShrinks ==
    ASSUME TypeInv, NEW c \in Clients, NEW reply, Respond(c, reply)
    PROVE  \A d \in Clients :
             \/ client'[d].handles = client[d].handles /\ client'[d].ids = client[d].ids
             \/ client'[d].handles = <<>>
  <1>1. Request("idle", <<>>, reply).handles = <<>>
    BY DEF Request
  <1> QED BY <1>1, UpdateShrinks DEF Respond

LEMMA GiveUpShrinks ==
    ASSUME TypeInv, NEW c \in Clients, NEW from, NEW to, NEW reply, GiveUp(c, from, to, reply)
    PROVE  \A d \in Clients :
             \/ client'[d].handles = client[d].handles /\ client'[d].ids = client[d].ids
             \/ client'[d].handles = <<>>
  <1> DEFINE q == [client[c] EXCEPT !.pc = "cancel", !.cancelAt = from,
                                    !.cancelTo = to, !.reply = reply]
  <1>1. q.handles = client[c].handles /\ q.ids = client[c].ids
    BY TypeFacts DEF ClientRecords
  <1> QED BY <1>1, UpdateShrinks, RespondShrinks DEF GiveUp

\* Giving up after the entries outside from..to have been dealt with.
LEMMA GiveUpOwner ==
    ASSUME TypeInv, OwnerInv, NEW c \in Clients, NEW from \in Nat, NEW to \in Nat, NEW reply,
           GiveUp(c, from, to, reply),
           \A i \in Idx : slots'[i] = slots[i] \/ slots'[i] = NoSlot,
           \A i \in Idx : \A k \in 1..Len(client[c].handles) :
               (slots'[i] = slots[i] /\ ~Free(i) /\ Owns(c, k, i) /\ Pending(client[c], k))
                   => \/ from <= k /\ k <= to
                      \/ reply = "partial" /\ client[c].at = 0 /\ k <= client[c].sent /\ from <= to
    PROVE  OwnerInv'
  <1>1. CASE from > to
    <2>1. Update(c, Request("idle", <<>>, reply))
      BY <1>1 DEF GiveUp, Respond
    <2> QED BY <1>1, <2>1, OwnerShrinks, SMT
  <1>2. CASE ~(from > to)
    <2> DEFINE q == [client[c] EXCEPT !.pc = "cancel", !.cancelAt = from,
                                      !.cancelTo = to, !.reply = reply]
    <2>1. Update(c, q)
      BY <1>2 DEF GiveUp
    <2>2. client[c] \in ClientRecords
      BY TypeFacts
    <2>3. /\ q.handles = client[c].handles /\ q.ids = client[c].ids /\ q.pc = "cancel"
          /\ q.cancelAt = from /\ q.cancelTo = to /\ q.reply = reply
          /\ q.at = client[c].at /\ q.sent = client[c].sent
      BY <2>2 DEF ClientRecords
    <2> HIDE DEF q
    <2>4. ASSUME NEW i \in Idx, NEW k \in 1..Len(client[c].handles),
                 slots'[i] = slots[i], ~Free(i), Owns(c, k, i), Pending(client[c], k)
          PROVE  q.handles = client[c].handles /\ q.ids = client[c].ids /\ Pending(q, k)
      BY <2>3, <2>4 DEF Pending
    <2> QED BY <2>1, <2>4, OwnerShrinks
  <1> QED BY <1>1, <1>2

\* Answering once no entry of the batch is pending any more.
LEMMA RespondOwner ==
    ASSUME TypeInv, OwnerInv, NEW c \in Clients, NEW reply, Respond(c, reply),
           \A i \in Idx : slots'[i] = slots[i] \/ slots'[i] = NoSlot,
           \A i \in Idx : \A k \in 1..Len(client[c].handles) :
               ~(slots'[i] = slots[i] /\ ~Free(i) /\ Owns(c, k, i) /\ Pending(client[c], k))
    PROVE  OwnerInv'
  <1>1. Update(c, Request("idle", <<>>, reply))
    BY DEF Respond
  <1> QED BY <1>1, OwnerShrinks

LEMMA CancelFrees ==
    ASSUME TypeInv, NEW id \in Ids, slots' = Cancel(slots, id)
    PROVE  /\ \A i \in Idx : slots'[i] = slots[i] \/ slots'[i] = NoSlot
           /\ \A i \in Idx : slots[i].id = id => slots'[i] = NoSlot
  BY TypeFacts DEF Cancel

\* A request that can take a body no longer occupies the slot it came through.
LEMMA TakenSlotFree ==
    ASSUME TypeInv, SlotInv, NEW c \in Clients, NEW k \in 1..Len(client[c].handles),
           HasBody(client[c].handles[k]), NEW i \in Idx, ~Free(i)
    PROVE  ~Owns(c, k, i)
  BY SMT DEF SlotInv, HasBody, Owns

\* The steps that neither register, match nor deliver.
LEMMA ShrinkingSteps ==
    ASSUME IInv, NEW c \in Clients,
           \/ \E n \in 1..MaxBatch : Start(c, n)
           \/ RegisterRefused(c) \/ Publish(c) \/ PublishRefused(c) \/ Await(c)
           \/ WaitExpired(c) \/ WaitOvertaken(c) \/ RetryEmpty(c) \/ Withdraw(c)
           \/ TimedOut(c) \/ CancelNext(c)
    PROVE  Shrinks /\ OwnerInv'
  <1> DEFINE r == client[c]
  <1>a. TypeInv /\ SlotInv /\ OwnerInv
    BY DEF IInv
  <1>b. /\ r \in ClientRecords /\ ClientOK(r) /\ r.sent \in Nat /\ r.at \in Nat
        /\ r.cancelAt \in Nat /\ r.cancelTo \in Nat
        /\ Len(r.ids) \in Nat /\ Len(r.handles) \in Nat
    BY <1>a, TypeFacts, SMT DEF ClientRecords
  <1>c. /\ slots \in [Idx -> [id : Ids, gen : Gens] \cup {NoSlot}]
        /\ body \in [Idx -> Bodies \cup {NoBody}]
    BY <1>a, TypeFacts
  <1>d. ASSUME NEW q, Update(c, q), q.handles = r.handles, q.ids = r.ids,
               UNCHANGED <<slots, generation, body, bridge>>,
               \A k \in 1..Len(r.handles) : Pending(r, k) => Pending(q, k)
        PROVE  Shrinks /\ OwnerInv'
    <2>1. Shrinks
      BY <1>a, <1>d, UpdateShrinks DEF Shrinks
    <2>2. OwnerInv'
      BY <1>a, <1>d, OwnerShrinks
    <2> QED BY <2>1, <2>2
  <1>e. ASSUME NEW from \in Nat, NEW to \in Nat, NEW reply, GiveUp(c, from, to, reply),
               UNCHANGED <<slots, generation, body, bridge>>,
               \A k \in 1..Len(r.handles) : Pending(r, k) =>
                   \/ from <= k /\ k <= to
                   \/ reply = "partial" /\ r.at = 0 /\ k <= r.sent /\ from <= to
        PROVE  Shrinks /\ OwnerInv'
    <2>1. Shrinks
      BY <1>a, <1>e, GiveUpShrinks DEF Shrinks
    <2>2. OwnerInv'
      BY <1>a, <1>e, GiveUpOwner
    <2> QED BY <2>1, <2>2
  <1>1. ASSUME NEW n \in 1..MaxBatch, Start(c, n) PROVE Shrinks /\ OwnerInv'
    <2> DEFINE q == Request("register", [k \in 1..n |-> nextId + k - 1], "none")
    <2>1. Update(c, q) /\ UNCHANGED <<slots, generation, body, bridge>> /\ r.pc = "idle"
      BY <1>1 DEF Start
    <2>2. q.handles = <<>>
      BY DEF Request
    <2>3. \A k \in 1..Len(r.handles) : ~Pending(r, k)
      BY <2>1 DEF Pending
    <2>4. Shrinks
      BY <1>a, <2>1, <2>2, UpdateShrinks DEF Shrinks
    <2>5. OwnerInv'
      BY <1>a, <2>1, <2>3, OwnerShrinks
    <2> QED BY <2>4, <2>5
  <1>2. ASSUME RegisterRefused(c) PROVE Shrinks /\ OwnerInv'
    <2>1. GiveUp(c, 1, Len(r.ids), "exhausted") /\ UNCHANGED <<slots, generation, body, bridge>>
      BY <1>2 DEF RegisterRefused
    <2>2. \A k \in 1..Len(r.handles) : 1 <= k /\ k <= Len(r.ids)
      BY <1>b, SMT DEF ClientOK
    <2> QED BY <1>b, <1>e, <2>1, <2>2
  <1>3. ASSUME Publish(c) PROVE Shrinks /\ OwnerInv'
    <2> DEFINE n == r.sent + 1
               q == IF n = Len(r.ids) THEN [r EXCEPT !.sent = n, !.pc = "wait", !.at = 1]
                                      ELSE [r EXCEPT !.sent = n]
    <2>1. Update(c, q) /\ UNCHANGED <<slots, generation, body, bridge>> /\ r.pc = "publish"
      BY <1>3 DEF Publish
    <2>2. /\ q.handles = r.handles /\ q.ids = r.ids
          /\ q.pc = (IF n = Len(r.ids) THEN "wait" ELSE "publish")
          /\ n = Len(r.ids) => q.at = 1 /\ q.sent = n
      BY <1>b, <2>1 DEF ClientRecords
    <2> HIDE DEF q
    <2>3. ASSUME NEW k \in 1..Len(r.handles) PROVE Pending(q, k)
      <3>1. Len(r.handles) = Len(r.ids)
        BY <1>b, <2>1 DEF ClientOK
      <3> QED BY <1>b, <2>2, <3>1, SMT DEF Pending
    <2> QED BY <1>d, <2>1, <2>2, <2>3
  <1>4. ASSUME PublishRefused(c) PROVE Shrinks /\ OwnerInv'
    <2> DEFINE reply == IF r.sent = 0 THEN "overload" ELSE "partial"
    <2>1. /\ GiveUp(c, r.sent + 1, Len(r.ids), reply)
          /\ UNCHANGED <<slots, generation, body, bridge>> /\ r.pc = "publish"
      BY <1>4 DEF PublishRefused
    <2>2. ASSUME NEW k \in 1..Len(r.handles)
          PROVE  \/ r.sent + 1 <= k /\ k <= Len(r.ids)
                 \/ reply = "partial" /\ r.at = 0 /\ k <= r.sent /\ r.sent + 1 <= Len(r.ids)
      BY <1>b, <2>1, SMT DEF ClientOK
    <2> QED BY <1>b, <1>e, <2>1, <2>2, SMT
  <1>5. ASSUME TimedOut(c) PROVE Shrinks /\ OwnerInv'
    <2> DEFINE reply == IF r.reply = "partial" THEN "partial" ELSE "timeout"
    <2>1. /\ GiveUp(c, r.at + 1, r.sent, reply)
          /\ UNCHANGED <<slots, generation, body, bridge>> /\ r.pc = "last"
      BY <1>5 DEF TimedOut, Fail
    <2>2. \A k \in 1..Len(r.handles) : Pending(r, k) => r.at + 1 <= k /\ k <= r.sent
      BY <1>b, <2>1, SMT DEF Pending
    <2>3. r.at + 1 \in Nat
      BY <1>b, SMT
    <2> QED BY <1>b, <1>e, <2>1, <2>2, <2>3
  <1>6. ASSUME WaitExpired(c) \/ WaitOvertaken(c) \/ RetryEmpty(c) PROVE Shrinks /\ OwnerInv'
    <2>1. PICK q : /\ Update(c, q) /\ UNCHANGED <<slots, generation, body, bridge>>
                   /\ q.handles = r.handles /\ q.ids = r.ids /\ q.at = r.at /\ q.sent = r.sent
                   /\ r.pc \in {"wait", "retry"} /\ q.pc \in {"retry", "withdraw"}
      <3>1. CASE WaitExpired(c)
        <4> DEFINE q == [r EXCEPT !.pc = "retry", !.expired = TRUE]
        <4>1. Update(c, q) /\ UNCHANGED <<slots, generation, body, bridge>> /\ r.pc = "wait"
          BY <3>1 DEF WaitExpired
        <4>2. /\ q.handles = r.handles /\ q.ids = r.ids /\ q.at = r.at
              /\ q.sent = r.sent /\ q.pc = "retry"
          BY <1>b DEF ClientRecords
        <4> QED BY <4>1, <4>2
      <3>2. CASE WaitOvertaken(c)
        <4> DEFINE q == [r EXCEPT !.pc = "retry"]
        <4>1. Update(c, q) /\ UNCHANGED <<slots, generation, body, bridge>> /\ r.pc = "wait"
          BY <3>2 DEF WaitOvertaken
        <4>2. /\ q.handles = r.handles /\ q.ids = r.ids /\ q.at = r.at
              /\ q.sent = r.sent /\ q.pc = "retry"
          BY <1>b DEF ClientRecords
        <4> QED BY <4>1, <4>2
      <3>3. CASE RetryEmpty(c)
        <4> DEFINE q == [r EXCEPT !.pc = "withdraw"]
        <4>1. Update(c, q) /\ UNCHANGED <<slots, generation, body, bridge>> /\ r.pc = "retry"
          BY <3>3 DEF RetryEmpty
        <4>2. /\ q.handles = r.handles /\ q.ids = r.ids /\ q.at = r.at
              /\ q.sent = r.sent /\ q.pc = "withdraw"
          BY <1>b DEF ClientRecords
        <4> QED BY <4>1, <4>2
      <3> QED BY <1>6, <3>1, <3>2, <3>3
    <2>2. \A k \in 1..Len(r.handles) : Pending(r, k) => Pending(q, k)
      BY <2>1 DEF Pending
    <2> QED BY <1>d, <2>1, <2>2
  <1>7. ASSUME Withdraw(c) PROVE Shrinks /\ OwnerInv'
    <2> DEFINE q == [r EXCEPT !.pc = "last"]
               id == r.ids[r.at]
    <2>1. /\ Update(c, q) /\ UNCHANGED <<generation, body, bridge>> /\ r.pc = "withdraw"
          /\ slots' = Cancel(slots, id)
      BY <1>7 DEF Withdraw
    <2>2. /\ q.handles = r.handles /\ q.ids = r.ids /\ q.at = r.at
          /\ q.sent = r.sent /\ q.pc = "last"
      BY <1>b DEF ClientRecords
    <2>3. r.at \in 1..Len(r.ids) /\ r.ids \in Seq(Ids)
      BY <1>b, <2>1, SMT DEF ClientOK, ClientRecords, Waiting
    <2>3a. id \in Ids
      BY <2>3, SMT
    <2>4. /\ \A i \in Idx : slots'[i] = slots[i] \/ slots'[i] = NoSlot
          /\ \A i \in Idx : slots[i].id = id => slots'[i] = NoSlot
      BY <1>a, <2>1, <2>3a, CancelFrees
    <2>5. Shrinks
      BY <1>a, <2>1, <2>2, <2>4, UpdateShrinks DEF Shrinks
    <2>6. ASSUME NEW i \in Idx, NEW k \in 1..Len(r.handles), slots'[i] = slots[i], ~Free(i),
                 Owns(c, k, i), Pending(r, k)
          PROVE  Pending(q, k)
      <3>1. k # r.at
        BY <2>4, <2>6 DEF Owns, Free
      <3> QED BY <1>b, <2>1, <2>2, <2>6, <3>1, SMT DEF Pending
    <2>7. OwnerInv'
      BY <1>a, <2>1, <2>2, <2>4, <2>6, OwnerShrinks
    <2> QED BY <2>5, <2>7
  <1>8. ASSUME CancelNext(c) PROVE Shrinks /\ OwnerInv'
    <2> DEFINE id == r.ids[r.cancelAt]
    <2>1. UNCHANGED <<generation, body, bridge>> /\ r.pc = "cancel" /\ slots' = Cancel(slots, id)
      BY <1>8 DEF CancelNext
    <2>2. r.cancelAt \in 1..Len(r.ids) /\ r.ids \in Seq(Ids)
      BY <1>b, <2>1, SMT DEF ClientOK, ClientRecords
    <2>3. id \in Ids
      BY <2>2, SMT
    <2>4. /\ \A i \in Idx : slots'[i] = slots[i] \/ slots'[i] = NoSlot
          /\ \A i \in Idx : slots[i].id = id => slots'[i] = NoSlot
      BY <1>a, <2>1, <2>3, CancelFrees
    <2>5. ASSUME NEW i \in Idx, NEW k \in 1..Len(r.handles), slots'[i] = slots[i], ~Free(i),
                 Owns(c, k, i)
          PROVE  k # r.cancelAt
      BY <2>4, <2>5 DEF Owns, Free
    <2>6. CASE r.cancelAt < r.cancelTo
      <3> DEFINE q == [r EXCEPT !.cancelAt = @ + 1]
      <3>1. Update(c, q)
        BY <1>8, <2>6 DEF CancelNext
      <3>2. /\ q.handles = r.handles /\ q.ids = r.ids /\ q.at = r.at /\ q.sent = r.sent
            /\ q.pc = "cancel" /\ q.cancelAt = r.cancelAt + 1 /\ q.cancelTo = r.cancelTo
            /\ q.reply = r.reply
        BY <1>b, <2>1 DEF ClientRecords
      <3>3. \A k \in 1..Len(r.handles) : Pending(r, k) /\ k # r.cancelAt => Pending(q, k)
        BY <1>b, <2>1, <3>2, SMT DEF Pending
      <3> HIDE DEF q
      <3>4. Shrinks
        BY <1>a, <2>1, <2>4, <3>1, <3>2, UpdateShrinks DEF Shrinks
      <3>5. OwnerInv'
        <4>1. \A i \in Idx : \A k \in 1..Len(client[c].handles) :
                 (slots'[i] = slots[i] /\ ~Free(i) /\ Owns(c, k, i) /\ Pending(client[c], k))
                     => q.handles = client[c].handles /\ q.ids = client[c].ids /\ Pending(q, k)
          BY <2>5, <3>2, <3>3
        <4> QED BY <1>a, <2>4, <3>1, <4>1, OwnerShrinks
      <3> QED BY <3>4, <3>5
    <2>7. CASE ~(r.cancelAt < r.cancelTo) /\ r.reply = "partial" /\ r.at = 0
      <3> DEFINE q == [r EXCEPT !.pc = "wait", !.at = 1]
      <3>1. Update(c, q)
        BY <1>8, <2>7 DEF CancelNext
      <3>2. /\ q.handles = r.handles /\ q.ids = r.ids /\ q.at = 1 /\ q.sent = r.sent
            /\ q.pc = "wait"
        BY <1>b, <2>1 DEF ClientRecords
      <3>3. \A k \in 1..Len(r.handles) : Pending(r, k) /\ k # r.cancelAt => Pending(q, k)
        BY <1>b, <2>1, <2>7, <3>2, SMT DEF Pending
      <3> HIDE DEF q
      <3>4. Shrinks
        BY <1>a, <2>1, <2>4, <3>1, <3>2, UpdateShrinks DEF Shrinks
      <3>5. OwnerInv'
        <4>1. \A i \in Idx : \A k \in 1..Len(client[c].handles) :
                 (slots'[i] = slots[i] /\ ~Free(i) /\ Owns(c, k, i) /\ Pending(client[c], k))
                     => q.handles = client[c].handles /\ q.ids = client[c].ids /\ Pending(q, k)
          BY <2>5, <3>2, <3>3
        <4> QED BY <1>a, <2>4, <3>1, <4>1, OwnerShrinks
      <3> QED BY <3>4, <3>5
    <2>8. CASE ~(r.cancelAt < r.cancelTo) /\ ~(r.reply = "partial" /\ r.at = 0)
      <3>1. Respond(c, r.reply)
        BY <1>8, <2>8 DEF CancelNext
      <3>2. Shrinks
        BY <1>a, <2>1, <2>4, <3>1, RespondShrinks DEF Shrinks
      <3>3. \A k \in 1..Len(r.handles) : Pending(r, k) => k = r.cancelAt
        <4> SUFFICES ASSUME NEW k \in 1..Len(r.handles), Pending(r, k) PROVE k = r.cancelAt
          OBVIOUS
        <4>1. r.cancelAt <= k /\ k <= r.cancelTo
          BY <2>1, <2>8 DEF Pending
        <4>2. k \in Nat
          BY SMT
        <4> QED BY <1>b, <2>8, <4>1, <4>2, SMT
      <3>4. \A i \in Idx : \A k \in 1..Len(r.handles) :
                ~(slots'[i] = slots[i] /\ ~Free(i) /\ Owns(c, k, i) /\ Pending(r, k))
        BY <2>5, <3>3
      <3>5. OwnerInv'
        BY <1>a, <2>4, <3>1, <3>4, RespondOwner
      <3> QED BY <3>2, <3>5
    <2> QED BY <2>6, <2>7, <2>8
  <1>9. ASSUME Await(c) PROVE Shrinks /\ OwnerInv'
    <2> DEFINE h == r.handles[r.at]
    <2>1. /\ UNCHANGED <<slots, generation, bridge>> /\ r.pc \in {"wait", "retry", "last"}
          /\ HasBody(h) /\ body' = [body EXCEPT ![h.idx] = NoBody]
      BY <1>9 DEF Await, Take
    <2>2. r.at \in 1..Len(r.handles)
      BY <1>b, <2>1, SMT DEF ClientOK, Waiting
    <2>3. \A i \in Idx : ~Free(i) => ~Owns(c, r.at, i)
      BY <1>a, <2>1, <2>2, TakenSlotFree
    <2>4. \A i \in Idx : body'[i] = body[i] \/ body'[i] = NoBody
      BY <1>c, <2>1
    <2>5. ASSUME NEW k \in 1..Len(r.handles), NEW i \in Idx, ~Free(i), Owns(c, k, i),
                 Pending(r, k)
          PROVE  r.at + 1 <= k /\ k <= r.sent
      <3>1. k # r.at
        BY <2>3, <2>5
      <3> QED BY <1>b, <2>1, <2>5, <3>1, SMT DEF Pending
    <2>6. CASE ~body[h.idx].ok
      <3> DEFINE reply == IF r.reply = "partial" THEN "partial" ELSE "failed"
      <3>1. GiveUp(c, r.at + 1, r.sent, reply)
        BY <1>9, <2>6 DEF Await, Take, Fail
      <3>2. Shrinks
        BY <1>a, <2>1, <2>4, <3>1, GiveUpShrinks DEF Shrinks
      <3>a. r.at + 1 \in Nat /\ r.sent \in Nat
        BY <1>b, SMT
      <3>b. \A i \in Idx : slots'[i] = slots[i]
        BY <2>1
      <3> HIDE DEF reply
      <3>3. OwnerInv'
        BY <1>a, <2>5, <3>1, <3>a, <3>b, GiveUpOwner, SMT
      <3> QED BY <3>2, <3>3
    <2>7. CASE body[h.idx].ok /\ r.at = r.sent
      <3>1. PICK reply : Respond(c, reply)
        BY <1>9, <2>7 DEF Await, Take
      <3>2. Shrinks
        BY <1>a, <2>1, <2>4, <3>1, RespondShrinks DEF Shrinks
      <3>3. \A i \in Idx : \A k \in 1..Len(r.handles) :
                ~(~Free(i) /\ Owns(c, k, i) /\ Pending(r, k))
        <4> SUFFICES ASSUME NEW i \in Idx, NEW k \in 1..Len(r.handles), ~Free(i),
                            Owns(c, k, i), Pending(r, k)
                     PROVE  FALSE
          OBVIOUS
        <4>1. r.at + 1 <= k /\ k <= r.at
          BY <2>5, <2>7
        <4>2. k \in Nat /\ r.at \in Nat
          BY <1>b, SMT
        <4> QED BY <4>1, <4>2, SMT
      <3>4. OwnerInv'
        BY <1>a, <2>1, <3>1, <3>3, RespondOwner
      <3> QED BY <3>2, <3>4
    <2>8. CASE body[h.idx].ok /\ r.at # r.sent
      <3> DEFINE q == [r EXCEPT !.pc = "wait", !.at = @ + 1]
      <3>1. Update(c, q)
        BY <1>9, <2>8 DEF Await, Take
      <3>2. /\ q.handles = r.handles /\ q.ids = r.ids /\ q.at = r.at + 1 /\ q.sent = r.sent
            /\ q.pc = "wait"
        BY <1>b, <2>1 DEF ClientRecords
      <3>3. \A k \in 1..Len(r.handles) : r.at + 1 <= k /\ k <= r.sent => Pending(q, k)
        BY <3>2 DEF Pending
      <3> HIDE DEF q
      <3>4. Shrinks
        BY <1>a, <2>1, <2>4, <3>1, <3>2, UpdateShrinks DEF Shrinks
      <3>5. OwnerInv'
        BY <1>a, <2>1, <2>5, <3>1, <3>2, <3>3, OwnerShrinks
      <3> QED BY <3>4, <3>5
    <2> QED BY <2>6, <2>7, <2>8
  <1> QED BY <1>1, <1>2, <1>3, <1>4, <1>5, <1>6, <1>7, <1>8, <1>9

LEMMA RegisterStep ==
    ASSUME IInv, NEW c \in Clients, Register(c)
    PROVE  SlotInv' /\ HandleInv' /\ OwnerInv'
  <1> DEFINE r == client[c]
             k == Len(r.handles) + 1
             id == r.ids[k]
  <1>a. TypeInv /\ SlotInv /\ HandleInv /\ OwnerInv
    BY DEF IInv
  <1>b. /\ r \in ClientRecords /\ ClientOK(r) /\ r.pc = "register"
        /\ r.handles \in Seq(Handles) /\ r.ids \in Seq(Ids) /\ Len(r.handles) \in Nat
    BY <1>a, TypeFacts, SMT DEF Register
  <1>c. /\ slots \in [Idx -> [id : Ids, gen : Gens] \cup {NoSlot}]
        /\ generation \in [Idx -> Gens] /\ body \in [Idx -> Bodies \cup {NoBody}]
        /\ client \in [Clients -> ClientRecords]
    BY <1>a, TypeFacts
  <1>1. PICK i \in Idx :
           /\ FirstFree(i) /\ ~Carried(i, NextGen(i))
           /\ generation' = [generation EXCEPT ![i] = NextGen(i)]
           /\ body' = [body EXCEPT ![i] = NoBody]
           /\ slots' = [slots EXCEPT ![i] = [id |-> id, gen |-> NextGen(i)]]
           /\ Update(c, [r EXCEPT !.handles = Append(@, [idx |-> i, gen |-> NextGen(i)]),
                                  !.pc = IF k = Len(r.ids) THEN "publish" ELSE "register"])
    BY DEF Register
  <1> DEFINE g == NextGen(i)
             hnew == [idx |-> i, gen |-> g]
             hs == Append(r.handles, hnew)
             q == [r EXCEPT !.handles = hs,
                            !.pc = IF k = Len(r.ids) THEN "publish" ELSE "register"]
  <1>2. /\ q.handles = hs /\ q.ids = r.ids /\ q.pc \in {"publish", "register"}
    BY <1>b DEF ClientRecords
  <1>3. client' = [client EXCEPT ![c] = q] /\ bridge' = bridge
    BY <1>1 DEF Update, Register
  <1>4. g \in Gens
    <2>1. generation[i] + 1 \in Nat
      BY <1>c, SMT DEF Gens
    <2> QED BY <2>1, ModRange DEF NextGen
  <1>5. hnew \in Handles
    BY <1>4 DEF Handles, Gens
  <1>6. Len(hs) = k /\ hs[k] = hnew /\ \A l \in 1..Len(r.handles) : hs[l] = r.handles[l]
    BY <1>b, <1>5, SMT
  <1>7. ~(bridge.idx = i /\ bridge.gen = g)
    BY <1>1 DEF Carried
  <1>8. \A d \in Clients : \A l \in 1..Len(client[d].handles) : client[d].handles[l] # hnew
    BY <1>1, <1>a, TypeFacts, SMT DEF Carried
  <1>9. /\ client'[c] = q
        /\ \A d \in Clients : d # c => client'[d] = client[d]
        /\ generation'[i] = g /\ body'[i] = NoBody /\ slots'[i] = [id |-> id, gen |-> g]
        /\ \A j \in Idx : j # i => /\ generation'[j] = generation[j] /\ body'[j] = body[j]
                                   /\ slots'[j] = slots[j]
    BY <1>1, <1>3, <1>c
  <1> HIDE DEF g, hs, q
  <1>10. SlotInv'
    BY <1>3, <1>7, <1>9, <1>a, SMT DEF SlotInv, Free
  <1>11. ASSUME NEW d \in Clients, NEW l \in 1..Len(client[d].handles)
         PROVE  HandleOK(client[d].handles[l], client[d].ids[l])
                  => /\ (slots'[client[d].handles[l].idx] # NoSlot
                           /\ slots'[client[d].handles[l].idx].gen = client[d].handles[l].gen)
                        => slots'[client[d].handles[l].idx].id = client[d].ids[l]
                     /\ (bridge'.idx = client[d].handles[l].idx
                           /\ bridge'.gen = client[d].handles[l].gen)
                        => bridge'.body.id = client[d].ids[l]
                     /\ (generation'[client[d].handles[l].idx] = client[d].handles[l].gen
                           /\ body'[client[d].handles[l].idx] # NoBody)
                        => body'[client[d].handles[l].idx].id = client[d].ids[l]
    <2> DEFINE h == client[d].handles[l]
    <2>1. h \in Handles /\ h.idx \in Idx /\ h # hnew
      BY <1>a, <1>8, TypeFacts
    <2>2. h = [idx |-> h.idx, gen |-> h.gen]
      BY <2>1 DEF Handles
    <2>3. h.idx # i \/ h.gen # g
      BY <2>1, <2>2
    <2> HIDE DEF h
    <2>4. CASE h.idx = i
      <3>1. h.gen # g
        BY <2>3, <2>4
      <3>2. slots'[h.idx].gen = g /\ generation'[h.idx] = g /\ bridge' = bridge
        BY <2>4, <1>3, <1>9, SMT
      <3> QED BY <3>1, <3>2 DEF h, HandleOK
    <2>5. CASE h.idx # i
      BY <2>1, <2>5, <1>3, <1>9 DEF h, HandleOK, Free, HasBody
    <2> QED BY <2>4, <2>5
  <1>12. HandleInv'
    <2> SUFFICES ASSUME NEW d \in Clients, NEW l \in 1..Len(client'[d].handles)
                 PROVE  HandleOK(client[d].handles[l], client[d].ids[l])'
      BY DEF HandleInv
    <2>1. CASE d = c /\ l = k
      <3>1. client'[d].handles[l] = hnew /\ client'[d].ids[l] = id
        BY <1>2, <1>6, <1>9, <2>1
      <3>2. /\ slots'[i].id = id /\ body'[i] = NoBody /\ bridge' = bridge
            /\ hnew.idx = i /\ hnew.gen = g
        BY <1>3, <1>9, SMT
      <3> QED BY <1>7, <3>1, <3>2 DEF HandleOK, Free, HasBody
    <2>2. CASE ~(d = c /\ l = k)
      <3>1. /\ l \in 1..Len(client[d].handles)
            /\ client'[d].handles[l] = client[d].handles[l]
            /\ client'[d].ids[l] = client[d].ids[l]
        <4>1. CASE d = c
          <5>1. client'[d].handles = hs /\ client'[d].ids = r.ids
            BY <1>2, <1>9, <4>1
          <5>2. l \in 1..Len(hs) /\ l # k
            BY <2>2, <4>1, <5>1
          <5>3. l \in 1..Len(r.handles)
            BY <1>b, <1>6, <5>2, SMT
          <5> QED BY <1>6, <4>1, <5>1, <5>3
        <4>2. CASE d # c
          BY <1>9, <4>2
        <4> QED BY <4>1, <4>2
      <3>2. HandleOK(client[d].handles[l], client[d].ids[l])
        BY <3>1, <1>a DEF HandleInv
      <3> DEFINE h == client[d].handles[l]
      <3>3. /\ (slots'[h.idx] # NoSlot /\ slots'[h.idx].gen = h.gen) => slots'[h.idx].id = client[d].ids[l]
            /\ (bridge'.idx = h.idx /\ bridge'.gen = h.gen) => bridge'.body.id = client[d].ids[l]
            /\ (generation'[h.idx] = h.gen /\ body'[h.idx] # NoBody) => body'[h.idx].id = client[d].ids[l]
        BY <3>1, <3>2, <1>11
      <3> QED BY <3>1, <3>3 DEF HandleOK, Free, HasBody
    <2> QED BY <2>1, <2>2
  <1>13. OwnerInv'
    <2> SUFFICES ASSUME NEW j \in Idx, slots'[j] # NoSlot
                 PROVE  \E d \in Clients : \E l \in 1..Len(client'[d].handles) :
                          /\ client'[d].ids[l] = slots'[j].id
                          /\ client'[d].handles[l] = [idx |-> j, gen |-> slots'[j].gen]
                          /\ Pending(client'[d], l)
      BY SMT DEF OwnerInv, Owns, Free, Pending
    <2>1. \A l : Pending(q, l)
      BY <1>2 DEF Pending
    <2>2. CASE j = i
      <3>1. /\ k \in 1..Len(client'[c].handles) /\ client'[c].handles[k] = hnew
            /\ client'[c].ids[k] = id /\ slots'[j] = [id |-> id, gen |-> g]
        <4>1. client'[c].handles = hs /\ client'[c].ids = r.ids
          BY <1>2, <1>9
        <4>2. k \in 1..Len(hs)
          BY <1>6, <1>b, SMT
        <4>3. k \in 1..Len(client'[c].handles) /\ client'[c].ids[k] = id
          BY <4>1, <4>2
        <4>4. client'[c].handles[k] = hnew
          BY <1>6, <4>1
        <4>5. slots'[j] = [id |-> id, gen |-> g]
          BY <1>9, <2>2
        <4> QED BY <4>3, <4>4, <4>5
      <3>2. /\ client'[c].ids[k] = slots'[j].id
            /\ client'[c].handles[k] = [idx |-> j, gen |-> slots'[j].gen]
        BY <2>2, <3>1, SMT
      <3>3. Pending(client'[c], k)
        BY <1>9, <2>1
      <3>4. k \in 1..Len(client'[c].handles)
        BY <3>1
      <3> HIDE DEF k
      <3> QED BY <3>2, <3>3, <3>4
    <2>3. CASE j # i
      <3>1. slots'[j] = slots[j] /\ ~Free(j)
        BY <1>9, <2>3 DEF Free
      <3>2. PICK d \in Clients : \E l \in 1..Len(client[d].handles) :
                 Owns(d, l, j) /\ Pending(client[d], l)
        BY <1>a, <3>1 DEF OwnerInv
      <3>3. PICK l \in 1..Len(client[d].handles) : Owns(d, l, j) /\ Pending(client[d], l)
        BY <3>2
      <3>4. CASE d = c
        <4>1. /\ l \in 1..Len(client'[c].handles)
              /\ client'[c].handles[l] = r.handles[l] /\ client'[c].ids[l] = r.ids[l]
          BY <1>2, <1>6, <1>9, <1>b, <3>3, <3>4, SMT
        <4> QED BY <1>9, <2>1, <3>1, <3>3, <3>4, <4>1 DEF Owns
      <3>5. CASE d # c
        BY <1>9, <3>1, <3>3, <3>5 DEF Owns
      <3> QED BY <3>4, <3>5
    <2> QED BY <2>2, <2>3
  <1> QED BY <1>10, <1>12, <1>13

\* The steps of the bus and the bridge that leave requests and slots alone.
LEMMA QuietSteps ==
    ASSUME IInv, client' = client, slots' = slots, generation' = generation,
           body' = body, bridge' = bridge
    PROVE  SlotInv' /\ HandleInv' /\ OwnerInv'
  <1>1. SlotInv'
    BY DEF IInv, SlotInv, Free
  <1>2. HandleInv'
    BY DEF IInv, HandleInv, HandleOK, Free, HasBody
  <1>3. OwnerInv'
    BY SMT DEF IInv, OwnerInv, Owns, Pending, Free
  <1> QED BY <1>1, <1>2, <1>3

LEMMA MatchStep ==
    ASSUME IInv, Match
    PROVE  SlotInv' /\ HandleInv' /\ OwnerInv'
  <1>a. TypeInv /\ SlotInv /\ HandleInv /\ OwnerInv
    BY DEF IInv
  <1>b. /\ slots \in [Idx -> [id : Ids, gen : Gens] \cup {NoSlot}]
        /\ inbox \in Seq(Bodies) /\ inbox # <<>>
    BY <1>a, TypeFacts DEF TypeInv, TypeOK, Match
  <1>c. Head(inbox) \in Bodies
    BY <1>b, SMT
  <1>1. PICK i \in Idx : \E formatted \in BOOLEAN :
           /\ slots[i].id = Head(inbox).id
           /\ slots' = [slots EXCEPT ![i] = NoSlot]
           /\ bridge' = [idx |-> i, gen |-> slots[i].gen,
                         body |-> [Head(inbox) EXCEPT !.ok = @ /\ formatted]]
    BY DEF Match
  <1>2. ~Free(i)
    BY <1>1, <1>c, SMT DEF Free, NoSlot, Bodies, Ids
  <1>3. bridge'.idx = i /\ bridge'.gen = slots[i].gen /\ bridge'.body.id = slots[i].id
    BY <1>1, <1>c, SMT DEF Bodies
  <1>4. slots'[i] = NoSlot /\ \A j \in Idx : j # i => slots'[j] = slots[j]
    BY <1>1, <1>b
  <1>5. client' = client /\ generation' = generation /\ body' = body
    BY DEF Match
  <1>6. SlotInv'
    BY <1>3, <1>4, <1>5, <1>a DEF SlotInv, Free
  <1>7. HandleInv'
    <2> SUFFICES ASSUME NEW c \in Clients, NEW k \in 1..Len(client'[c].handles)
                 PROVE  HandleOK(client[c].handles[k], client[c].ids[k])'
      BY DEF HandleInv
    <2>1. HandleOK(client[c].handles[k], client[c].ids[k])
      BY <1>5, <1>a DEF HandleInv
    <2>2. client[c].handles[k].idx \in Idx
      BY <1>5, <1>a, TypeFacts
    <2> QED BY <1>2, <1>3, <1>4, <1>5, <2>1, <2>2 DEF HandleOK, Free, HasBody
  <1>8. OwnerInv'
    BY <1>4, <1>5, <1>a, SMT DEF OwnerInv, Owns, Pending, Free
  <1> QED BY <1>6, <1>7, <1>8

LEMMA DeliverStep ==
    ASSUME IInv, Deliver
    PROVE  SlotInv' /\ HandleInv' /\ OwnerInv'
  <1>a. TypeInv /\ SlotInv /\ HandleInv /\ OwnerInv
    BY DEF IInv
  <1>b. /\ bridge \in [idx : Idx, gen : Gens, body : Bodies]
        /\ body \in [Idx -> Bodies \cup {NoBody}]
        /\ client' = client /\ generation' = generation /\ slots' = slots
        /\ bridge' = NoDelivery
    BY <1>a, TypeFacts DEF Deliver
  <1>1. \A i \in Idx : \/ body'[i] = body[i]
                       \/ /\ i = bridge.idx /\ generation[i] = bridge.gen
                          /\ body'[i] = bridge.body
    BY <1>b DEF Deliver
  <1>c. bridge'.idx \notin Idx
    BY <1>b, SMT DEF NoDelivery, Idx
  <1>2. SlotInv'
    BY <1>1, <1>b, <1>c, <1>a DEF SlotInv, Free
  <1>3. HandleInv'
    <2> SUFFICES ASSUME NEW c \in Clients, NEW k \in 1..Len(client'[c].handles)
                 PROVE  HandleOK(client[c].handles[k], client[c].ids[k])'
      BY DEF HandleInv
    <2>1. HandleOK(client[c].handles[k], client[c].ids[k])
      BY <1>b, <1>a DEF HandleInv
    <2>2. client[c].handles[k].idx \in Idx
      BY <1>b, <1>a, TypeFacts
    <2> QED BY <1>1, <1>b, <1>c, <2>1, <2>2 DEF HandleOK, Free, HasBody
  <1>4. OwnerInv'
    BY <1>b, <1>a, SMT DEF OwnerInv, Owns, Pending, Free
  <1> QED BY <1>2, <1>3, <1>4

LEMMA InitInv == Init => IInv
  <1> SUFFICES ASSUME Init PROVE IInv
    OBVIOUS
  <1>1. TypeInv
    BY TypeInit
  <1>2. \A c \in Clients : client[c].handles = <<>>
    BY DEF Init, Idle, Request
  <1>3. \A i \in Idx : Free(i)
    BY DEF Init, Free
  <1> QED BY <1>1, <1>2, <1>3, SMT DEF IInv, SlotInv, HandleInv, OwnerInv

LEMMA NextInv == IInv /\ [Next]_vars => IInv'
  <1> SUFFICES ASSUME IInv, [Next]_vars PROVE IInv'
    OBVIOUS
  <1>a. TypeInv /\ SlotInv /\ HandleInv /\ TypeInv'
    BY TypeNext DEF IInv
  <1>1. ASSUME NEW c \in Clients, NEW n \in 1..MaxBatch, Start(c, n)
        PROVE  IInv'
    BY <1>1, <1>a, ShrinkingSteps, SlotShrinks, HandleShrinks DEF IInv
  <1>2. ASSUME NEW c \in Clients, Register(c)
        PROVE  IInv'
    BY <1>2, <1>a, RegisterStep DEF IInv
  <1>3. ASSUME NEW c \in Clients, ClientStep(c), ~Register(c)
        PROVE  IInv'
    <2>1. Shrinks /\ OwnerInv'
      BY <1>3, ShrinkingSteps DEF ClientStep
    <2> QED BY <1>a, <2>1, SlotShrinks, HandleShrinks DEF IInv
  <1>4. CASE Match
    BY <1>4, <1>a, MatchStep DEF IInv
  <1>5. CASE Deliver
    BY <1>5, <1>a, DeliverStep DEF IInv
  <1>6. CASE \/ Unmatched \/ UNCHANGED vars
             \/ \E id \in Ids, ok \in BOOLEAN : Confirm(id, ok)
    <2>1. /\ client' = client /\ slots' = slots /\ generation' = generation
          /\ body' = body /\ bridge' = bridge
      BY <1>6 DEF Unmatched, Confirm, vars
    <2> QED BY <1>a, <2>1, QuietSteps DEF IInv
  <1>7. CASE Finished
    BY <1>6, <1>7 DEF Finished
  <1> QED BY <1>1, <1>2, <1>3, <1>4, <1>5, <1>6, <1>7 DEF Next, BridgeStep

LEMMA InvImplies == IInv => TypeOK /\ RightBody /\ NoStrandedSlot
  <1> SUFFICES ASSUME IInv PROVE TypeOK /\ RightBody /\ NoStrandedSlot
    OBVIOUS
  <1>a. TypeInv /\ HandleInv /\ OwnerInv
    BY DEF IInv
  <1>b. \A c \in Clients : DOMAIN client[c].handles = 1..Len(client[c].handles)
    BY <1>a, TypeFacts, SMT
  <1>1. TypeOK
    BY <1>a DEF TypeInv
  <1>2. RightBody
    BY <1>a, <1>b DEF RightBody, HandleInv, HandleOK
  <1>3. NoStrandedSlot
    BY <1>a, <1>b DEF NoStrandedSlot, OwnerInv, Owns
  <1> QED BY <1>1, <1>2, <1>3

\* The pool, the requests and the bridge keep their shape for every number of
\* handlers, slots and commands per batch.
THEOREM TypeCorrect == Spec => []TypeOK
  <1>1. TypeInv => TypeOK
    BY DEF TypeInv
  <1> QED BY <1>1, TypeInit, TypeNext, PTL DEF Spec

\* No request is ever handed another request's confirmation: a handle that can
\* take a body (ConfirmationWaiter::take) takes the one built from its own id,
\* whatever cancellations, slot reuse and late deliveries came before.
THEOREM RightBodySafe == Spec => []RightBody
  BY InitInv, NextInv, InvImplies, PTL DEF Spec

\* The pool never leaks: every occupied slot belongs to a request that is still
\* being served and still going to withdraw or await it.
THEOREM NoStrandedSlotSafe == Spec => []NoStrandedSlot
  BY InitInv, NextInv, InvImplies, PTL DEF Spec

\* Both together: a waiter slot of the bridge belongs to one live request and
\* carries that request's confirmation.
THEOREM SlotsOwnedSafe == Spec => []SlotsOwned
<1>1. RightBody /\ NoStrandedSlot => SlotsOwned
  BY DEF SlotsOwned
<1> QED
  BY <1>1, RightBodySafe, NoStrandedSlotSafe, PTL

-----------------------------------------------------------------------------
\* What the answers claim.  The ids of a batch are its own, and those the bus has
\* accepted are the first `sent` of them; the confirmations before the one it
\* awaits were delivered; and the reply it carries fits how far it got.

GoodReply(r, reply) ==
    /\ reply \in {"exhausted", "overload"} => r.sent = 0
    /\ reply = "partial" => 1 <= r.sent /\ r.sent < Len(r.ids)
    /\ reply = "ok" => \A k \in 1..Len(r.ids) : r.ids[k] \in delivered

Verdict(r) ==
    /\ r.pc \in {"register", "publish"} => r.reply = "none"
    /\ r.pc \in Waiting => \/ r.reply = "none" /\ r.sent = Len(r.ids)
                           \/ r.reply = "partial"
    /\ r.pc = "cancel" => r.reply \notin {"none", "ok"}
    /\ r.pc # "idle" => r.reply # "ok" /\ GoodReply(r, r.reply)

BatchOK(r) ==
    /\ \A k \in 1..Len(r.ids) : /\ r.ids[k] < nextId
                                /\ r.ids[k] \in queued <=> k <= r.sent
                                /\ k < r.at => r.ids[k] \in delivered
    /\ \A k, l \in 1..Len(r.ids) : r.ids[k] = r.ids[l] => k = l

Apart(r, s) == \A k \in 1..Len(r.ids), l \in 1..Len(s.ids) : r.ids[k] # s.ids[l]

AnswerInv ==
    /\ \A id \in queued : id < nextId
    /\ \A c \in Clients : BatchOK(client[c]) /\ Verdict(client[c])
    /\ \A c, d \in Clients : c # d => Apart(client[c], client[d])
    /\ \A i \in Idx : body[i] # NoBody => body[i].id \in delivered

\* An answer is true of the bus: what AnswersAreTrue says of one step.
Honest(r, reply) ==
    LET batch == {r.ids[k] : k \in DOMAIN r.ids}
    IN /\ reply \in {"overload", "exhausted"} => batch \cap queued = {}
       /\ reply = "partial" => batch \cap queued # {} /\ ~(batch \subseteq queued)
       /\ reply = "ok" => batch \subseteq delivered

Answered ==
    \A c \in Clients : client[c].pc # "idle" /\ client'[c].pc = "idle"
                          => Honest(client[c], client'[c].reply)

\* A reply that fits how far the batch got is true of the bus.
LEMMA GoodIsHonest ==
    ASSUME TypeInv, AnswerInv, NEW c \in Clients, NEW reply, GoodReply(client[c], reply)
    PROVE  Honest(client[c], reply)
  <1> DEFINE r == client[c]
             batch == {r.ids[k] : k \in DOMAIN r.ids}
  <1>1. DOMAIN r.ids = 1..Len(r.ids) /\ Len(r.ids) \in Nat /\ r.sent \in Nat
    BY TypeFacts, SMT DEF ClientRecords
  <1>2. \A k \in 1..Len(r.ids) : r.ids[k] \in queued <=> k <= r.sent
    BY DEF AnswerInv, BatchOK
  <1>3. ASSUME r.sent = 0 PROVE batch \cap queued = {}
    <2>1. \A k \in 1..Len(r.ids) : ~(k <= r.sent)
      BY <1>1, <1>3, SMT
    <2> QED BY <1>1, <1>2, <2>1
  <1>4. ASSUME 1 <= r.sent, r.sent < Len(r.ids)
        PROVE  batch \cap queued # {} /\ ~(batch \subseteq queued)
    <2>1. /\ 1 \in 1..Len(r.ids) /\ 1 <= r.sent
          /\ Len(r.ids) \in 1..Len(r.ids) /\ ~(Len(r.ids) <= r.sent)
      BY <1>1, <1>4, SMT
    <2>2. r.ids[1] \in batch /\ r.ids[Len(r.ids)] \in batch
      BY <1>1, <2>1
    <2> QED BY <1>2, <2>1, <2>2
  <1>5. ASSUME \A k \in 1..Len(r.ids) : r.ids[k] \in delivered PROVE batch \subseteq delivered
    BY <1>1, <1>5
  <1> QED BY <1>3, <1>4, <1>5 DEF GoodReply, Honest

LEMMA SameBatch ==
    ASSUME NEW r, NEW q, q.ids = r.ids, q.sent = r.sent, q.at = r.at, BatchOK(r)
    PROVE  BatchOK(q)
  BY DEF BatchOK

\* A step that moves one request on, and touches neither the bus nor the history.
LEMMA MovesOn ==
    ASSUME TypeInv, AnswerInv, NEW c \in Clients, NEW q, Update(c, q),
           q.ids = client[c].ids, q.pc # "idle", BatchOK(q), Verdict(q),
           nextId' = nextId, queued' = queued, delivered' = delivered,
           \A i \in Idx : body'[i] = body[i] \/ body'[i] = NoBody
    PROVE  AnswerInv' /\ Answered
  <1>1. client'[c] = q /\ \A d \in Clients : d # c => client'[d] = client[d]
    BY TypeFacts DEF Update
  <1>2. \A d \in Clients : client'[d].ids = client[d].ids
    BY <1>1
  <1>3. \A d \in Clients : BatchOK(client'[d]) /\ Verdict(client'[d])
    BY <1>1 DEF AnswerInv
  <1>4. \A d \in Clients : BatchOK(client[d])' /\ Verdict(client[d])'
    BY <1>3, SMT DEF BatchOK, Verdict, GoodReply
  <1>5. \A d, e \in Clients : d # e => Apart(client[d], client[e])'
    BY <1>2, SMTT(20) DEF AnswerInv, Apart
  <1>6. AnswerInv'
    BY <1>4, <1>5 DEF AnswerInv
  <1> QED BY <1>1, <1>6 DEF Answered

\* A step that answers a request with a reply that fits.
LEMMA Answers ==
    ASSUME TypeInv, AnswerInv, NEW c \in Clients, NEW reply, Respond(c, reply),
           GoodReply(client[c], reply),
           nextId' = nextId, queued' = queued, delivered' = delivered,
           \A i \in Idx : body'[i] = body[i] \/ body'[i] = NoBody
    PROVE  AnswerInv' /\ Answered
  <1> DEFINE q == Request("idle", <<>>, reply)
  <1>0. q.pc = "idle" /\ q.ids = <<>> /\ q.reply = reply
    BY DEF Request
  <1>1. client'[c] = q /\ \A d \in Clients : d # c => client'[d] = client[d]
    BY TypeFacts DEF Respond, Update
  <1> HIDE DEF q
  <1>2. \A k : k \notin 1..Len(q.ids)
    BY <1>0, SMT
  <1>3. BatchOK(q) /\ Verdict(q)
    BY <1>0, <1>2 DEF BatchOK, Verdict, Waiting
  <1>4. \A d \in Clients : BatchOK(client'[d]) /\ Verdict(client'[d])
    BY <1>1, <1>3 DEF AnswerInv
  <1>5. \A d \in Clients : BatchOK(client[d])' /\ Verdict(client[d])'
    BY <1>4, SMT DEF BatchOK, Verdict, GoodReply
  <1>6. \A d, e \in Clients : d # e => Apart(client[d], client[e])'
    BY <1>1, <1>2, SMT DEF AnswerInv, Apart
  <1>7. AnswerInv'
    BY <1>5, <1>6 DEF AnswerInv
  <1>8. Honest(client[c], client'[c].reply)
    BY <1>0, <1>1, GoodIsHonest
  <1> QED BY <1>1, <1>7, <1>8 DEF Answered

LEMMA GivesUp ==
    ASSUME TypeInv, AnswerInv, NEW c \in Clients, NEW from, NEW to, NEW reply,
           GiveUp(c, from, to, reply), reply \notin {"none", "ok"}, GoodReply(client[c], reply),
           nextId' = nextId, queued' = queued, delivered' = delivered,
           \A i \in Idx : body'[i] = body[i] \/ body'[i] = NoBody
    PROVE  AnswerInv' /\ Answered
  <1> DEFINE r == client[c]
             q == [r EXCEPT !.pc = "cancel", !.cancelAt = from, !.cancelTo = to, !.reply = reply]
  <1>1. CASE from > to
    BY <1>1, Answers DEF GiveUp
  <1>2. CASE ~(from > to)
    <2>1. /\ q.ids = r.ids /\ q.sent = r.sent /\ q.at = r.at
          /\ q.pc = "cancel" /\ q.reply = reply
      BY TypeFacts DEF ClientRecords
    <2>2. Update(c, q)
      BY <1>2 DEF GiveUp
    <2> HIDE DEF q
    <2>3. BatchOK(q)
      BY <2>1, SameBatch DEF AnswerInv
    <2>4. Verdict(q)
      BY <2>1 DEF Verdict, GoodReply, Waiting
    <2> QED BY <2>1, <2>2, <2>3, <2>4, MovesOn
  <1> QED BY <1>1, <1>2

\* The steps of a request that neither begin it nor publish.
LEMMA RequestAnswers ==
    ASSUME TypeInv, HandleInv, AnswerInv, NEW c \in Clients,
           ClientStep(c), ~Publish(c)
    PROVE  AnswerInv' /\ Answered
  <1> DEFINE r == client[c]
  <1>a. /\ r \in ClientRecords /\ ClientOK(r) /\ BatchOK(r) /\ Verdict(r)
        /\ body \in [Idx -> Bodies \cup {NoBody}]
    BY TypeFacts DEF AnswerInv
  <1>b. r.sent \in Nat /\ r.at \in Nat /\ Len(r.ids) \in Nat
    BY <1>a, SMT DEF ClientRecords
  <1>c. ASSUME r.pc \in Waiting, NEW reply, reply \notin {"none", "ok", "exhausted", "overload"}
        PROVE  LET told == IF r.reply = "partial" THEN "partial" ELSE reply
               IN told \notin {"none", "ok"} /\ (reply # "partial" => GoodReply(r, told))
    BY <1>a, <1>c DEF Verdict, GoodReply, Waiting
  <1>1. CASE Register(c)
    <2> DEFINE id == r.ids[Len(r.handles) + 1]
    <2>1. PICK i \in Idx :
            /\ body' = [body EXCEPT ![i] = NoBody]
            /\ Update(c, [r EXCEPT !.handles = Append(@, [idx |-> i, gen |-> NextGen(i)]),
                                   !.pc = IF Len(r.handles) + 1 = Len(r.ids)
                                            THEN "publish" ELSE "register"])
      BY <1>1 DEF Register
    <2> DEFINE q == [r EXCEPT !.handles = Append(@, [idx |-> i, gen |-> NextGen(i)]),
                              !.pc = IF Len(r.handles) + 1 = Len(r.ids)
                                       THEN "publish" ELSE "register"]
    <2>2. /\ q.ids = r.ids /\ q.sent = r.sent /\ q.at = r.at /\ q.reply = r.reply
          /\ q.pc \in {"publish", "register"}
      BY <1>a DEF ClientRecords
    <2>3. Update(c, q)
      BY <2>1
    <2> HIDE DEF q
    <2>4. BatchOK(q)
      BY <1>a, <2>2, SameBatch
    <2>5. Verdict(q)
      BY <1>1, <1>a, <2>2 DEF Register, Verdict, GoodReply, Waiting
    <2>6. \A j \in Idx : body'[j] = body[j] \/ body'[j] = NoBody
      BY <1>a, <2>1
    <2>7. nextId' = nextId /\ queued' = queued /\ delivered' = delivered
      BY <1>1 DEF Register
    <2>8. q.pc # "idle"
      BY <2>2
    <2> QED BY <2>2, <2>3, <2>4, <2>5, <2>6, <2>7, <2>8, MovesOn
  <1>2. CASE RegisterRefused(c)
    <2>1. r.sent = 0
      BY <1>2, <1>a DEF RegisterRefused, ClientOK
    <2>2. GoodReply(r, "exhausted")
      BY <2>1 DEF GoodReply
    <2>3. /\ GiveUp(c, 1, Len(r.ids), "exhausted")
          /\ nextId' = nextId /\ queued' = queued /\ delivered' = delivered /\ body' = body
      BY <1>2 DEF RegisterRefused
    <2> QED BY <2>2, <2>3, GivesUp
  <1>3. CASE PublishRefused(c)
    <2> DEFINE reply == IF r.sent = 0 THEN "overload" ELSE "partial"
    <2>1. r.sent < Len(r.ids)
      BY <1>3, <1>a DEF PublishRefused, ClientOK
    <2>2. r.sent = 0 \/ 1 <= r.sent
      BY <1>b, SMT
    <2>3. GoodReply(r, reply) /\ reply \notin {"none", "ok"}
      BY <2>1, <2>2 DEF GoodReply
    <2>4. /\ GiveUp(c, r.sent + 1, Len(r.ids), reply)
          /\ nextId' = nextId /\ queued' = queued /\ delivered' = delivered /\ body' = body
      BY <1>3 DEF PublishRefused
    <2> HIDE DEF reply
    <2> QED BY <2>3, <2>4, GivesUp
  <1>4. CASE Await(c)
    <2> DEFINE h == r.handles[r.at]
    <2>1. /\ r.pc \in Waiting /\ HasBody(h)
          /\ nextId' = nextId /\ queued' = queued /\ delivered' = delivered
          /\ body' = [body EXCEPT ![h.idx] = NoBody]
      BY <1>4 DEF Await, Take, Waiting
    <2>2. \A j \in Idx : body'[j] = body[j] \/ body'[j] = NoBody
      BY <1>a, <2>1
    <2>3. r.at \in 1..Len(r.handles) /\ r.at \in 1..Len(r.ids)
      BY <1>a, <1>b, <2>1, SMT DEF ClientOK, ClientRecords
    <2>4. h.idx \in Idx /\ HandleOK(h, r.ids[r.at])
      BY <2>3, TypeFacts DEF HandleInv
    <2>5. r.ids[r.at] \in delivered
      BY <2>1, <2>4 DEF HandleOK, HasBody, AnswerInv
    <2>6. \A k \in 1..Len(r.ids) : k < r.at + 1 => r.ids[k] \in delivered
      <3>1. \A k \in 1..Len(r.ids) : k < r.at + 1 => k < r.at \/ k = r.at
        BY <1>b, SMT
      <3> QED BY <1>a, <2>5, <3>1 DEF BatchOK
    <2>7. CASE Fail(c, "failed")
      <3> DEFINE told == IF r.reply = "partial" THEN "partial" ELSE "failed"
      <3>1. GiveUp(c, r.at + 1, r.sent, told)
        BY <2>7 DEF Fail
      <3>2. told \notin {"none", "ok"} /\ GoodReply(r, told)
        BY <1>c, <2>1
      <3> HIDE DEF told
      <3> QED BY <2>1, <2>2, <3>1, <3>2, GivesUp
    <2>8. CASE r.at = r.sent /\ Respond(c, IF r.reply = "partial" THEN "partial" ELSE "ok")
      <3> DEFINE told == IF r.reply = "partial" THEN "partial" ELSE "ok"
      <3>1. CASE r.reply = "partial"
        <4>1. GoodReply(r, "partial")
          BY <1>a, <2>1, <3>1 DEF Verdict, Waiting
        <4>2. Respond(c, "partial")
          BY <2>8, <3>1
        <4> QED BY <2>1, <2>2, <4>1, <4>2, Answers
      <3>2. CASE r.reply # "partial"
        <4>1. r.sent = Len(r.ids)
          BY <1>a, <2>1, <3>2 DEF Verdict
        <4>2. \A k \in 1..Len(r.ids) : k < r.at + 1
          BY <1>b, <2>8, <4>1, SMT
        <4>3. GoodReply(r, "ok")
          BY <2>6, <4>2 DEF GoodReply
        <4>4. Respond(c, "ok")
          BY <2>8, <3>2
        <4> QED BY <2>1, <2>2, <4>3, <4>4, Answers
      <3> QED BY <3>1, <3>2
    <2>9. CASE Update(c, [r EXCEPT !.pc = "wait", !.at = @ + 1])
      <3> DEFINE q == [r EXCEPT !.pc = "wait", !.at = @ + 1]
      <3>1. /\ q.ids = r.ids /\ q.sent = r.sent /\ q.at = r.at + 1 /\ q.reply = r.reply
            /\ q.pc = "wait"
        BY <1>a DEF ClientRecords
      <3>2. Update(c, q)
        BY <2>9
      <3> HIDE DEF q
      <3>3. BatchOK(q)
        BY <1>a, <2>6, <3>1 DEF BatchOK
      <3>4. Verdict(q)
        BY <1>a, <2>1, <3>1 DEF Verdict, GoodReply, Waiting
      <3> QED BY <2>1, <2>2, <3>1, <3>2, <3>3, <3>4, MovesOn
    <2> QED BY <1>4, <2>7, <2>8, <2>9 DEF Await, Take
  <1>5. ASSUME NEW pc \in Waiting, NEW expired, r.pc \in Waiting,
               Update(c, [r EXCEPT !.pc = pc, !.expired = expired]),
               nextId' = nextId, queued' = queued, delivered' = delivered, body' = body
        PROVE  AnswerInv' /\ Answered
    <2> DEFINE q == [r EXCEPT !.pc = pc, !.expired = expired]
    <2>1. /\ q.ids = r.ids /\ q.sent = r.sent /\ q.at = r.at /\ q.reply = r.reply /\ q.pc = pc
      BY <1>a DEF ClientRecords
    <2>2. Update(c, q)
      BY <1>5
    <2> HIDE DEF q
    <2>3. BatchOK(q)
      BY <1>a, <2>1, SameBatch
    <2>4. Verdict(q) /\ q.pc # "idle"
      BY <1>a, <1>5, <2>1 DEF Verdict, GoodReply, Waiting
    <2> QED BY <1>5, <2>1, <2>2, <2>3, <2>4, MovesOn
  <1>6. \A pc : [r EXCEPT !.pc = pc] = [r EXCEPT !.pc = pc, !.expired = r.expired]
    BY <1>a DEF ClientRecords
  <1>7. CASE WaitExpired(c)
    <2>1. /\ r.pc \in Waiting /\ "retry" \in Waiting
          /\ Update(c, [r EXCEPT !.pc = "retry", !.expired = TRUE])
          /\ nextId' = nextId /\ queued' = queued /\ delivered' = delivered /\ body' = body
      BY <1>7 DEF WaitExpired, Waiting
    <2> QED BY <1>5, <2>1
  <1>8. CASE WaitOvertaken(c) \/ RetryEmpty(c) \/ Withdraw(c)
    <2>1. /\ r.pc \in Waiting /\ nextId' = nextId /\ queued' = queued
          /\ delivered' = delivered /\ body' = body
          /\ \E pc \in Waiting : Update(c, [r EXCEPT !.pc = pc])
      BY <1>8 DEF WaitOvertaken, RetryEmpty, Withdraw, Waiting
    <2> QED BY <1>5, <1>6, <2>1
  <1>9. CASE TimedOut(c)
    <2> DEFINE told == IF r.reply = "partial" THEN "partial" ELSE "timeout"
    <2>1. /\ r.pc \in Waiting /\ GiveUp(c, r.at + 1, r.sent, told)
          /\ nextId' = nextId /\ queued' = queued /\ delivered' = delivered /\ body' = body
      BY <1>9 DEF TimedOut, Fail, Waiting
    <2>2. told \notin {"none", "ok"} /\ GoodReply(r, told)
      BY <1>c, <2>1
    <2> HIDE DEF told
    <2> QED BY <2>1, <2>2, GivesUp
  <1>10. CASE CancelNext(c)
    <2>1. /\ r.pc = "cancel"
          /\ nextId' = nextId /\ queued' = queued /\ delivered' = delivered /\ body' = body
      BY <1>10 DEF CancelNext
    <2>2. CASE Update(c, [r EXCEPT !.cancelAt = @ + 1])
      <3> DEFINE q == [r EXCEPT !.cancelAt = @ + 1]
      <3>1. /\ q.ids = r.ids /\ q.sent = r.sent /\ q.at = r.at /\ q.reply = r.reply
            /\ q.pc = r.pc
        BY <1>a DEF ClientRecords
      <3>2. Update(c, q)
        BY <2>2
      <3> HIDE DEF q
      <3>3. BatchOK(q)
        BY <1>a, <3>1, SameBatch
      <3>4. Verdict(q) /\ q.pc # "idle"
        BY <1>a, <2>1, <3>1 DEF Verdict, GoodReply
      <3> QED BY <2>1, <3>1, <3>2, <3>3, <3>4, MovesOn
    <2>3. CASE r.reply = "partial" /\ Update(c, [r EXCEPT !.pc = "wait", !.at = 1])
      <3> DEFINE q == [r EXCEPT !.pc = "wait", !.at = 1]
      <3>1. /\ q.ids = r.ids /\ q.sent = r.sent /\ q.at = 1 /\ q.reply = r.reply
            /\ q.pc = "wait"
        BY <1>a DEF ClientRecords
      <3>2. Update(c, q)
        BY <2>3
      <3> HIDE DEF q
      <3>3. \A k \in 1..Len(r.ids) : ~(k < 1)
        BY <1>b, SMT
      <3>4. BatchOK(q)
        BY <1>a, <3>1, <3>3 DEF BatchOK
      <3>5. Verdict(q) /\ q.pc # "idle"
        BY <1>a, <2>1, <2>3, <3>1 DEF Verdict, GoodReply, Waiting
      <3> QED BY <2>1, <3>1, <3>2, <3>4, <3>5, MovesOn
    <2>4. CASE Respond(c, r.reply)
      <3>1. GoodReply(r, r.reply)
        BY <1>a, <2>1 DEF Verdict
      <3> QED BY <2>1, <2>4, <3>1, Answers
    <2> QED BY <1>10, <2>2, <2>3, <2>4 DEF CancelNext
  <1> QED BY <1>1, <1>2, <1>3, <1>4, <1>7, <1>8, <1>9, <1>10 DEF ClientStep

\* A published command is the next of its batch and of no other.
LEMMA PublishAnswers ==
    ASSUME TypeInv, AnswerInv, NEW c \in Clients, Publish(c)
    PROVE  AnswerInv' /\ Answered
  <1> DEFINE r == client[c]
             n == r.sent + 1
             q == client'[c]
  <1>a. r \in ClientRecords /\ ClientOK(r) /\ BatchOK(r) /\ Verdict(r)
    BY TypeFacts DEF AnswerInv
  <1>b. r.sent \in Nat /\ r.at \in Nat /\ Len(r.ids) \in Nat
    BY <1>a, SMT DEF ClientRecords
  <1>c. n \in 1..Len(r.ids) /\ r.pc = "publish" /\ r.at = 0
    BY <1>a, <1>b, SMT DEF Publish, ClientOK
  <1>1. /\ queued' = queued \cup {r.ids[n]}
        /\ nextId' = nextId /\ body' = body /\ delivered' = delivered
    BY DEF Publish
  <1>2. \A d \in Clients : d # c => client'[d] = client[d]
    BY TypeFacts DEF Publish, Update
  <1>3. /\ q.ids = r.ids /\ q.sent = n /\ q.reply = r.reply
        /\ \/ q.pc = "publish" /\ q.at = 0
           \/ q.pc = "wait" /\ q.at = 1 /\ n = Len(r.ids)
    BY <1>a, <1>c, TypeFacts DEF Publish, Update, ClientRecords
  <1> HIDE DEF q
  <1>4. \A d \in Clients : client'[d].ids = client[d].ids
    BY <1>2, <1>3 DEF q
  <1>5. \A k \in 1..Len(r.ids) : /\ k <= n <=> k <= r.sent \/ k = n
                                 /\ ~(k < 1) /\ ~(k < 0)
    BY <1>b, <1>c, SMT
  <1>6. \A k \in 1..Len(r.ids) : r.ids[k] = r.ids[n] => k = n
    BY <1>a, <1>c DEF BatchOK
  <1>7. \A k \in 1..Len(r.ids) : r.ids[k] \in queued' <=> k <= n
    BY <1>1, <1>5, <1>6, <1>a DEF BatchOK
  <1>8. \A k \in 1..Len(r.ids) : /\ r.ids[k] < nextId' /\ ~(k < q.at)
    BY <1>1, <1>3, <1>5, <1>a DEF BatchOK
  <1>9. BatchOK(client[c])'
    BY <1>3, <1>7, <1>8, <1>a DEF BatchOK, q
  <1>10. Verdict(client[c])'
    BY <1>3, <1>c, <1>a DEF Verdict, GoodReply, Waiting, q
  <1>11. ASSUME NEW d \in Clients, d # c
         PROVE  BatchOK(client[d])' /\ Verdict(client[d])'
    <2>1. \A k \in 1..Len(client[d].ids) : client[d].ids[k] # r.ids[n]
      BY <1>11, <1>c DEF AnswerInv, Apart
    <2>2. \A k \in 1..Len(client[d].ids) :
            client[d].ids[k] \in queued' <=> client[d].ids[k] \in queued
      BY <1>1, <2>1
    <2>3. client'[d] = client[d]
      BY <1>2, <1>11
    <2>4. BatchOK(client[d])'
      BY <1>1, <2>2, <2>3, SMT DEF BatchOK, AnswerInv
    <2>5. Verdict(client[d])'
      BY <1>1, <2>3, SMT DEF Verdict, GoodReply, AnswerInv
    <2> QED BY <2>4, <2>5
  <1>12. \A d, e \in Clients : d # e => Apart(client[d], client[e])'
    BY <1>4, SMTT(20) DEF AnswerInv, Apart
  <1>13. \A id \in queued' : id < nextId'
    <2>1. r.ids[n] < nextId
      BY <1>a, <1>c DEF BatchOK
    <2> QED BY <1>1, <2>1, SMT DEF AnswerInv
  <1>14. AnswerInv'
    BY <1>1, <1>9, <1>10, <1>11, <1>12, <1>13 DEF AnswerInv
  <1> QED BY <1>2, <1>3, <1>14 DEF Answered, q

\* The ids a batch begins with are new.
LEMMA StartAnswers ==
    ASSUME TypeInv, AnswerInv, NEW c \in Clients, NEW n \in 1..MaxBatch, Start(c, n)
    PROVE  AnswerInv' /\ Answered
  <1> DEFINE ids == [k \in 1..n |-> nextId + k - 1]
             q == Request("register", ids, "none")
  <1>a. nextId \in Nat /\ n \in Nat
    BY BatchAssumption, BoundAssumption, SMT DEF TypeInv, TypeOK
  <1>b. Len(ids) = n
    BY <1>a, SMT
  <1>c. \A k \in 1..n : ids[k] < nextId + n /\ ~(ids[k] < nextId) /\ ~(k <= 0) /\ ~(k < 0)
    BY <1>a, SMT
  <1>d. \A k, l \in 1..n : ids[k] = ids[l] => k = l
    BY <1>a, SMT
  <1>1. /\ client[c].pc = "idle" /\ client'[c] = q
        /\ \A d \in Clients : d # c => client'[d] = client[d]
        /\ nextId' = nextId + n /\ queued' = queued /\ delivered' = delivered /\ body' = body
    BY TypeFacts DEF Start, Update
  <1>2. q.ids = ids /\ q.sent = 0 /\ q.at = 0 /\ q.pc = "register" /\ q.reply = "none"
    BY DEF Request
  <1> HIDE DEF ids, q
  <1>3. BatchOK(client[c])'
    <2>1. \A k \in 1..n : ids[k] \notin queued
      BY <1>c DEF AnswerInv
    <2> QED BY <1>b, <1>c, <1>d, <1>1, <1>2, <2>1, SMT DEF BatchOK
  <1>4. Verdict(client[c])'
    BY <1>1, <1>2 DEF Verdict, GoodReply, Waiting
  <1>5. ASSUME NEW d \in Clients, d # c
        PROVE  /\ BatchOK(client[d])' /\ Verdict(client[d])'
               /\ \A k \in 1..Len(client[d].ids) : client[d].ids[k] < nextId
    <2>1. client'[d] = client[d] /\ BatchOK(client[d]) /\ Verdict(client[d])
      BY <1>1, <1>5 DEF AnswerInv
    <2>2. \A k \in 1..Len(client[d].ids) : client[d].ids[k] \in Nat /\ client[d].ids[k] < nextId
      <3>1. \A k \in 1..Len(client[d].ids) : client[d].ids[k] \in Ids
        BY TypeFacts, SMT
      <3> QED BY <2>1, <3>1, SMT DEF Ids, BatchOK
    <2>3. \A k \in 1..Len(client[d].ids) : client[d].ids[k] < nextId + n
      BY <1>a, <2>2, SMT
    <2>4. BatchOK(client[d])'
      BY <1>1, <2>1, <2>3, SMT DEF BatchOK
    <2>5. Verdict(client[d])'
      BY <1>1, <2>1, SMT DEF Verdict, GoodReply
    <2> QED BY <2>2, <2>4, <2>5
  <1>6. ASSUME NEW d \in Clients, d # c
        PROVE  Apart(client[d], client[c])' /\ Apart(client[c], client[d])'
    <2>1. \A k \in 1..Len(client[d].ids), l \in 1..n : client[d].ids[k] # ids[l]
      BY <1>5, <1>6, <1>c
    <2>2. client'[d].ids = client[d].ids /\ client'[c].ids = ids
      BY <1>1, <1>2, <1>6
    <2> QED BY <1>b, <2>1, <2>2, SMT DEF Apart
  <1>7. ASSUME NEW d \in Clients, NEW e \in Clients, d # e, d # c, e # c
        PROVE  Apart(client[d], client[e])'
    <2>1. Apart(client[d], client[e]) /\ client'[d] = client[d] /\ client'[e] = client[e]
      BY <1>7, <1>1 DEF AnswerInv
    <2> QED BY <2>1, SMT DEF Apart
  <1>8. \A id \in queued' : id < nextId'
    <2>1. \A id \in queued : id \in Nat /\ id < nextId
      BY SMT DEF TypeInv, TypeOK, Ids, AnswerInv
    <2> QED BY <1>a, <1>1, <2>1, SMT
  <1>9. AnswerInv'
    BY <1>1, <1>3, <1>4, <1>5, <1>6, <1>7, <1>8 DEF AnswerInv
  <1> QED BY <1>1, <1>9 DEF Answered

\* A delivery adds to what was delivered; the other steps of the bridge and of the
\* bus change nothing the answers speak of.
LEMMA BridgeAnswers ==
    ASSUME TypeInv, AnswerInv, client' = client, nextId' = nextId, queued' = queued,
           \/ body' = body /\ delivered' = delivered
           \/ Deliver
    PROVE  AnswerInv' /\ Answered
  <1>1. delivered \subseteq delivered'
    BY DEF Deliver
  <1>2. \A i \in Idx : body'[i] # NoBody => body'[i].id \in delivered'
    <2>1. CASE body' = body /\ delivered' = delivered
      BY <2>1 DEF AnswerInv
    <2>2. CASE Deliver
      BY <2>2, TypeFacts DEF AnswerInv, Deliver
    <2> QED BY <2>1, <2>2
  <1>3. ASSUME NEW c \in Clients PROVE BatchOK(client[c])' /\ Verdict(client[c])'
    <2>1. BatchOK(client[c]) /\ Verdict(client[c])
      BY DEF AnswerInv
    <2>2. BatchOK(client[c])'
      BY <1>1, <2>1, SMT DEF BatchOK
    <2>3. Verdict(client[c])'
      BY <1>1, <2>1, SMT DEF Verdict, GoodReply
    <2> QED BY <2>2, <2>3
  <1>4. AnswerInv'
    <2>1. \A c, d \in Clients : c # d => Apart(client[c], client[d])'
      BY SMT DEF AnswerInv, Apart
    <2> QED BY <1>2, <1>3, <2>1 DEF AnswerInv
  <1> QED BY <1>4 DEF Answered

LEMMA AnswerInit == Init => AnswerInv
  <1> SUFFICES ASSUME Init PROVE AnswerInv
    OBVIOUS
  <1>1. \A c \in Clients : /\ client[c].ids = <<>> /\ client[c].pc = "idle"
    BY DEF Init, Idle, Request
  <1>2. \A c \in Clients : \A k : k \notin 1..Len(client[c].ids)
    BY <1>1, SMT
  <1>3. \A c \in Clients : BatchOK(client[c])
    BY <1>2 DEF BatchOK
  <1>4. \A c \in Clients : Verdict(client[c])
    BY <1>1 DEF Verdict, Waiting
  <1>5. \A c, d \in Clients : Apart(client[c], client[d])
    BY <1>2 DEF Apart
  <1> QED BY <1>3, <1>4, <1>5 DEF AnswerInv, Init

LEMMA AnswerNext == IInv /\ AnswerInv /\ [Next]_vars => AnswerInv' /\ Answered
  <1> SUFFICES ASSUME IInv, AnswerInv, [Next]_vars PROVE AnswerInv' /\ Answered
    OBVIOUS
  <1>a. TypeInv /\ HandleInv
    BY DEF IInv
  <1>1. CASE \E c \in Clients, n \in 1..MaxBatch : Start(c, n)
    BY <1>1, <1>a, StartAnswers
  <1>2. CASE \E c \in Clients : ClientStep(c)
    BY <1>2, <1>a, PublishAnswers, RequestAnswers
  <1>3. CASE \/ Match \/ Unmatched \/ Deliver \/ UNCHANGED vars
             \/ \E id \in Ids, ok \in BOOLEAN : Confirm(id, ok)
    <2>1. /\ client' = client /\ nextId' = nextId /\ queued' = queued
          /\ \/ body' = body /\ delivered' = delivered
             \/ Deliver
      BY <1>3 DEF Match, Unmatched, Deliver, Confirm, vars
    <2> QED BY <1>a, <2>1, BridgeAnswers
  <1>4. CASE Finished
    BY <1>3, <1>4 DEF Finished
  <1> QED BY <1>1, <1>2, <1>3, <1>4 DEF Next, BridgeStep

\* What the HTTP answer claims is true of the bus, for every number of handlers,
\* slots and commands per batch: an overload or exhausted answer published nothing,
\* a partial_apply part of its batch, and a success had every command confirmed.
THEOREM AnswersTellTheTruth == Spec => AnswersAreTrue
  <1>1. Answered => \A c \in Clients :
           (client[c].pc # "idle" /\ client'[c].pc = "idle") =>
              LET batch == {client[c].ids[k] : k \in DOMAIN client[c].ids}
                  reply == client'[c].reply
              IN /\ reply \in {"overload", "exhausted"} => batch \cap queued = {}
                 /\ reply = "partial" => batch \cap queued # {} /\ ~(batch \subseteq queued)
                 /\ reply = "ok" => batch \subseteq delivered
    BY DEF Answered, Honest
  <1> QED BY <1>1, InitInv, NextInv, AnswerInit, AnswerNext, PTL DEF Spec, AnswersAreTrue
=============================================================================
