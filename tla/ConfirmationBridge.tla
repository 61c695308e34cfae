------------------------- MODULE ConfirmationBridge -------------------------
(***************************************************************************)
(* The confirmation bridge of dali2rust-api (confirmation_bridge.rs) and   *)
(* the HTTP requests that wait on it (http/dispatcher.rs).                 *)
(*                                                                         *)
(* A request registers one slot per command of its batch, publishes the    *)
(* commands, and then awaits the confirmations in order under one          *)
(* deadline.  A request with a single command takes the same steps as a    *)
(* batch of one.  The bridge thread takes a slot under the slots lock and  *)
(* delivers the formatted body to the slot's waiter after releasing it, so *)
(* the two are separate steps here.  Every other step holds one lock from  *)
(* beginning to end.                                                       *)
(***************************************************************************)
EXTENDS Naturals, Sequences, FiniteSets

CONSTANTS
    Clients,     \* HTTP handler threads
    Capacity,    \* slots in the pool (DEFAULT_CONFIRMATION_SLOTS)
    GenMod,      \* values of a waiter's generation counter (2^32)
    MaxBatch,    \* largest batch a request publishes
    MaxId,       \* bound: correlation ids handed out
    InboxCap     \* the bridge's confirmation inbox

ASSUME CapacityAssumption == Capacity \in Nat \ {0}
ASSUME GenModAssumption == GenMod \in Nat \ {0, 1}
ASSUME BatchAssumption == MaxBatch \in Nat \ {0}
ASSUME BoundAssumption == MaxId \in Nat /\ InboxCap \in Nat

VARIABLES
    slots,       \* slots[i]: the registration a confirmation would match
    generation,  \* generation[i]: how often waiter i has begun, modulo GenMod
    body,        \* body[i]: the delivered, not yet taken body of waiter i
    nextId,      \* CorrelationIdAllocator
    queued,      \* ids whose command the bus has accepted
    inbox,       \* confirmations on their way to the bridge thread
    bridge,      \* the delivery the bridge thread holds between its two locks
    client,      \* client[c]: the request handler c is serving
    delivered    \* history: ids whose body reached their waiter

vars == <<slots, generation, body, nextId, queued, inbox, bridge, client, delivered>>

Idx == 1..Capacity
Ids == 1..MaxId
NoSlot == [id |-> 0, gen |-> 0]
\* A reply body: the correlation id it was built from and its verdict.
NoBody == [id |-> 0, ok |-> FALSE]
NoDelivery == [idx |-> 0, gen |-> 0, body |-> NoBody]

Replies == {"none", "ok", "failed", "exhausted", "overload", "partial", "timeout"}
Phases == {"idle", "register", "publish", "wait", "retry", "withdraw", "last", "cancel"}

\* A request: where it is, its ids and handles, how many commands it has
\* published, the confirmation it awaits, and the range it is cancelling.
Request(pc, ids, reply) ==
    [pc |-> pc, ids |-> ids, handles |-> <<>>, sent |-> 0, at |-> 0,
     cancelAt |-> 0, cancelTo |-> 0, expired |-> FALSE, reply |-> reply]

Idle == Request("idle", <<>>, "none")

Init ==
    /\ slots = [i \in Idx |-> NoSlot]
    /\ generation = [i \in Idx |-> 0]
    /\ body = [i \in Idx |-> NoBody]
    /\ nextId = 1
    /\ queued = {}
    /\ inbox = <<>>
    /\ bridge = NoDelivery
    /\ client = [c \in Clients |-> Idle]
    /\ delivered = {}

-----------------------------------------------------------------------------
\* The pool.

Free(i) == slots[i] = NoSlot
FirstFree(i) == Free(i) /\ \A j \in 1..(i - 1) : ~Free(j)

\* cancel: the first slot registered for the id is emptied, if there is one.
Cancel(s, id) == [i \in Idx |-> IF s[i].id = id THEN NoSlot ELSE s[i]]

\* ConfirmationWaiter::take: only the current generation's holder gets the body.
HasBody(h) == generation[h.idx] = h.gen /\ body[h.idx] # NoBody

\* ConfirmationWaiter::begin bumps the generation with wrapping_add.
NextGen(i) == (generation[i] + 1) % GenMod

\* A handle or a delivery that already carries the generation waiter i would
\* begin next.  A slot is reused 2^32 times before its counter repeats, and no
\* request or delivery lives that long: see Register.
Carried(i, gen) ==
    \/ bridge.idx = i /\ bridge.gen = gen
    \/ \E c \in Clients : \E k \in DOMAIN client[c].handles :
           client[c].handles[k] = [idx |-> i, gen |-> gen]

-----------------------------------------------------------------------------
\* One HTTP request: publish_batch_and_wait_for_success and its helpers.

Update(c, r) == client' = [client EXCEPT ![c] = r]

\* Answers the caller; the handles are dropped with the request.
Respond(c, reply) ==
    Update(c, Request("idle", <<>>, reply))

\* cancel_batch over ids[from..to], after which the caller gets the reply.
GiveUp(c, from, to, reply) ==
    IF from > to
        THEN Respond(c, reply)
        ELSE Update(c, [client[c] EXCEPT !.pc = "cancel", !.cancelAt = from,
                                         !.cancelTo = to, !.reply = reply])

Start(c, n) ==
    /\ client[c].pc = "idle"
    /\ nextId + n <= MaxId + 1
    /\ nextId' = nextId + n
    /\ Update(c, Request("register", [k \in 1..n |-> nextId + k - 1], "none"))
    /\ UNCHANGED <<slots, generation, body, queued, inbox, bridge, delivered>>

\* try_register succeeds: the lowest free slot, its waiter's next generation.
Register(c) ==
    /\ client[c].pc = "register"
    /\ LET r == client[c]
           k == Len(r.handles) + 1
           id == r.ids[k]
       IN /\ \A j \in Idx : slots[j].id # id
          /\ \E i \in Idx :
               LET gen == NextGen(i)
               IN /\ FirstFree(i)
                  /\ ~Carried(i, gen)
                  /\ generation' = [generation EXCEPT ![i] = gen]
                  /\ body' = [body EXCEPT ![i] = NoBody]
                  /\ slots' = [slots EXCEPT ![i] = [id |-> id, gen |-> gen]]
                  /\ Update(c, [r EXCEPT !.handles = Append(@, [idx |-> i, gen |-> gen]),
                                         !.pc = IF k = Len(r.ids) THEN "publish" ELSE "register"])
    /\ UNCHANGED <<nextId, queued, inbox, bridge, delivered>>

\* try_register fails: every slot is taken (or the id is already registered).
RegisterRefused(c) ==
    /\ client[c].pc = "register"
    /\ LET r == client[c]
           id == r.ids[Len(r.handles) + 1]
       IN /\ (\E j \in Idx : slots[j].id = id) \/ (\A i \in Idx : ~Free(i))
          /\ GiveUp(c, 1, Len(r.ids), "exhausted")
    /\ UNCHANGED <<slots, generation, body, nextId, queued, inbox, bridge, delivered>>

\* publish_batch_frames: the next command is accepted by the commands ingress.
Publish(c) ==
    /\ client[c].pc = "publish"
    /\ LET r == client[c]
           n == r.sent + 1
       IN /\ queued' = queued \cup {r.ids[n]}
          /\ Update(c, IF n = Len(r.ids)
                         THEN [r EXCEPT !.sent = n, !.pc = "wait", !.at = 1]
                         ELSE [r EXCEPT !.sent = n])
    /\ UNCHANGED <<slots, generation, body, nextId, inbox, bridge, delivered>>

\* The ingress stayed full: refuse_partial_batch cancels what was not published.
PublishRefused(c) ==
    /\ client[c].pc = "publish"
    /\ GiveUp(c, client[c].sent + 1, Len(client[c].ids),
              IF client[c].sent = 0 THEN "overload" ELSE "partial")
    /\ UNCHANGED <<slots, generation, body, nextId, queued, inbox, bridge, delivered>>

\* collect_batch_confirmations after the confirmation at index `at` failed.  A
\* partly published batch answers partial_apply whatever it collected.
Fail(c, reply) ==
    LET r == client[c]
    IN GiveUp(c, r.at + 1, r.sent, IF r.reply = "partial" THEN "partial" ELSE reply)

\* Mutant: a half-published batch whose published half succeeds is a success.
TakeForgetsPartial(c) ==
    LET r == client[c]
        h == r.handles[r.at]
    IN /\ HasBody(h)
       /\ body' = [body EXCEPT ![h.idx] = NoBody]
       /\ \/ /\ ~body[h.idx].ok
             /\ Fail(c, "failed")
          \/ /\ body[h.idx].ok
             /\ IF r.at = r.sent
                  THEN Respond(c, "ok")
                  ELSE Update(c, [r EXCEPT !.pc = "wait", !.at = @ + 1])

\* The awaited body is taken: go on to the next confirmation, or answer.
Take(c) ==
    LET r == client[c]
        h == r.handles[r.at]
    IN /\ HasBody(h)
       /\ body' = [body EXCEPT ![h.idx] = NoBody]
       /\ \/ /\ ~body[h.idx].ok
             /\ Fail(c, "failed")
          \/ /\ body[h.idx].ok
             /\ IF r.at = r.sent
                  THEN Respond(c, IF r.reply = "partial" THEN "partial" ELSE "ok")
                  ELSE Update(c, [r EXCEPT !.pc = "wait", !.at = @ + 1])

\* recv_confirmation_bytes_until: wait, try, cancel, try once more.
Await(c) ==
    /\ client[c].pc \in {"wait", "retry", "last"}
    /\ Take(c)
    /\ UNCHANGED <<slots, generation, nextId, queued, inbox, bridge, delivered>>

\* Mutant: the wait has no deadline (recv for recv_timeout).
WaitForever(c) == FALSE

\* recv_timeout returns without a body: the deadline passed ...
WaitExpired(c) ==
    /\ client[c].pc = "wait"
    /\ ~HasBody(client[c].handles[client[c].at])
    /\ Update(c, [client[c] EXCEPT !.pc = "retry", !.expired = TRUE])
    /\ UNCHANGED <<slots, generation, body, nextId, queued, inbox, bridge, delivered>>

\* ... or the waiter woke before the deadline and found a later generation.
WaitOvertaken(c) ==
    /\ client[c].pc = "wait"
    /\ LET h == client[c].handles[client[c].at] IN generation[h.idx] # h.gen
    /\ Update(c, [client[c] EXCEPT !.pc = "retry"])
    /\ UNCHANGED <<slots, generation, body, nextId, queued, inbox, bridge, delivered>>

RetryEmpty(c) ==
    /\ client[c].pc = "retry"
    /\ ~HasBody(client[c].handles[client[c].at])
    /\ Update(c, [client[c] EXCEPT !.pc = "withdraw"])
    /\ UNCHANGED <<slots, generation, body, nextId, queued, inbox, bridge, delivered>>

Withdraw(c) ==
    /\ client[c].pc = "withdraw"
    /\ slots' = Cancel(slots, client[c].ids[client[c].at])
    /\ Update(c, [client[c] EXCEPT !.pc = "last"])
    /\ UNCHANGED <<generation, body, nextId, queued, inbox, bridge, delivered>>

TimedOut(c) ==
    /\ client[c].pc = "last"
    /\ ~HasBody(client[c].handles[client[c].at])
    /\ Fail(c, "timeout")
    /\ UNCHANGED <<slots, generation, body, nextId, queued, inbox, bridge, delivered>>

\* One iteration of cancel_batch.  A refused partial batch then collects the
\* confirmations of the commands it did publish.
CancelNext(c) ==
    /\ client[c].pc = "cancel"
    /\ LET r == client[c]
       IN /\ slots' = Cancel(slots, r.ids[r.cancelAt])
          /\ IF r.cancelAt < r.cancelTo
               THEN Update(c, [r EXCEPT !.cancelAt = @ + 1])
               ELSE IF r.reply = "partial" /\ r.at = 0
                      THEN Update(c, [r EXCEPT !.pc = "wait", !.at = 1])
                      ELSE Respond(c, r.reply)
    /\ UNCHANGED <<generation, body, nextId, queued, inbox, bridge, delivered>>

-----------------------------------------------------------------------------
\* The bus and the bridge thread.

\* A worker, or the bus itself, confirms an accepted command: possibly late,
\* possibly twice, possibly never.
Confirm(id, ok) ==
    /\ id \in queued
    /\ Len(inbox) < InboxCap
    /\ inbox' = Append(inbox, [id |-> id, ok |-> ok])
    /\ UNCHANGED <<slots, generation, body, nextId, queued, bridge, client, delivered>>

\* dispatch_confirmation, first lock: take the matching slot out of the pool.
\* The body is built between the locks; a formatter that fails yields a body
\* that reads as a failure.
Match ==
    /\ bridge = NoDelivery
    /\ inbox # <<>>
    /\ inbox' = Tail(inbox)
    /\ \E i \in Idx :
         /\ slots[i].id = Head(inbox).id
         /\ slots' = [slots EXCEPT ![i] = NoSlot]
         /\ \E formatted \in BOOLEAN :
              bridge' = [idx |-> i, gen |-> slots[i].gen,
                         body |-> [Head(inbox) EXCEPT !.ok = @ /\ formatted]]
    /\ UNCHANGED <<generation, body, nextId, queued, client, delivered>>

\* No slot waits for the id: the confirmation is counted as unmatched.
Unmatched ==
    /\ bridge = NoDelivery
    /\ inbox # <<>>
    /\ \A i \in Idx : slots[i].id # Head(inbox).id
    /\ inbox' = Tail(inbox)
    /\ UNCHANGED <<slots, generation, body, nextId, queued, bridge, client, delivered>>

\* Mutant: deliver does not compare generations.
DeliverUnchecked ==
    /\ bridge # NoDelivery
    /\ bridge' = NoDelivery
    /\ body' = [body EXCEPT ![bridge.idx] = bridge.body]
    /\ delivered' = delivered \cup {bridge.body.id}
    /\ UNCHANGED <<slots, generation, nextId, queued, inbox, client>>

\* ConfirmationWaiter::deliver, second lock: dropped when the generation moved on.
Deliver ==
    /\ bridge # NoDelivery
    /\ bridge' = NoDelivery
    /\ IF generation[bridge.idx] = bridge.gen
         THEN /\ body' = [body EXCEPT ![bridge.idx] = bridge.body]
              /\ delivered' = delivered \cup {bridge.body.id}
         ELSE UNCHANGED <<body, delivered>>
    /\ UNCHANGED <<slots, generation, nextId, queued, inbox, client>>

-----------------------------------------------------------------------------
ClientStep(c) ==
    \/ Register(c)
    \/ RegisterRefused(c)
    \/ Publish(c)
    \/ PublishRefused(c)
    \/ Await(c)
    \/ WaitExpired(c)
    \/ WaitOvertaken(c)
    \/ RetryEmpty(c)
    \/ Withdraw(c)
    \/ TimedOut(c)
    \/ CancelNext(c)

BridgeStep == Match \/ Unmatched \/ Deliver

\* The bound on correlation ids is reached and every request has been answered.
Finished ==
    /\ nextId = MaxId + 1
    /\ \A c \in Clients : client[c].pc = "idle"
    /\ UNCHANGED vars

Next ==
    \/ \E c \in Clients, n \in 1..MaxBatch : Start(c, n)
    \/ \E c \in Clients : ClientStep(c)
    \/ \E id \in Ids, ok \in BOOLEAN : Confirm(id, ok)
    \/ BridgeStep
    \/ Finished

Spec == Init /\ [][Next]_vars

\* A handler thread keeps running: its waits are timed.  Nothing is assumed of
\* the bridge thread or of the workers that confirm.
Fairness == \A c \in Clients : WF_vars(ClientStep(c))

FairSpec == Spec /\ Fairness

-----------------------------------------------------------------------------
\* Properties.

Handles == [idx : Idx, gen : 0..(GenMod - 1)]
Bodies == [id : Ids, ok : BOOLEAN]

\* Every variable has its shape; in particular a request never holds more
\* handles than ids, nor publishes more than it registered.
TypeOK ==
    /\ slots \in [Idx -> [id : Ids, gen : 0..(GenMod - 1)] \cup {NoSlot}]
    /\ generation \in [Idx -> 0..(GenMod - 1)]
    /\ body \in [Idx -> Bodies \cup {NoBody}]
    /\ nextId \in 1..(MaxId + 1)
    /\ queued \subseteq Ids
    /\ inbox \in Seq(Bodies)
    /\ bridge \in [idx : Idx, gen : 0..(GenMod - 1), body : Bodies] \cup {NoDelivery}
    /\ client \in [Clients -> [pc : Phases, ids : Seq(Ids), handles : Seq(Handles),
                               sent : Nat, at : Nat, cancelAt : Nat, cancelTo : Nat,
                               expired : BOOLEAN, reply : Replies]]
    /\ delivered \subseteq Ids

\* A request is only ever handed the confirmation of the command it waits for:
\* whatever slot reuse, cancellation or late delivery came before, the body a
\* handle can take (ConfirmationWaiter::take) was built from that handle's id.
RightBody ==
    \A c \in Clients : \A k \in DOMAIN client[c].handles :
        HasBody(client[c].handles[k])
            => body[client[c].handles[k].idx].id = client[c].ids[k]

\* The pool never leaks: an occupied slot belongs to a request that is still
\* being served, under the handle that request holds.  Every early return of
\* publish_batch_and_wait_for_success has to cancel what it registered.
NoStrandedSlot ==
    \A i \in Idx : ~Free(i) =>
        \E c \in Clients : \E k \in DOMAIN client[c].handles :
            /\ client[c].ids[k] = slots[i].id
            /\ client[c].handles[k] = [idx |-> i, gen |-> slots[i].gen]

\* What the HTTP answer claims is true of the bus.  commands_ingress_overload
\* and confirmation_slots_exhausted mean nothing was published, partial_apply
\* that some commands were and some were not, a success that every command of
\* the batch was published and confirmed.
AnswersAreTrue ==
    [][\A c \in Clients :
         (client[c].pc # "idle" /\ client'[c].pc = "idle") =>
            LET batch == {client[c].ids[k] : k \in DOMAIN client[c].ids}
                reply == client'[c].reply
            IN /\ reply \in {"overload", "exhausted"} => batch \cap queued = {}
               /\ reply = "partial" => batch \cap queued # {} /\ ~(batch \subseteq queued)
               /\ reply = "ok" => batch \subseteq delivered
      ]_vars

\* Every request is answered, even when no worker ever confirms: the timed wait
\* and the cancellation loops of recv_confirmation_bytes_until terminate.
EveryRequestAnswered ==
    \A c \in Clients : client[c].pc # "idle" ~> client[c].pc = "idle"

\* The 504 the API documents as "the confirmation did not arrive within
\* confirmation_timeout_ms": a request whose confirmation was delivered is not
\* answered with confirmation_timeout before its deadline.
TimeoutMeansNoConfirmation ==
    [][\A c \in Clients :
         TimedOut(c) => client[c].expired \/ client[c].ids[client[c].at] \notin delivered
      ]_vars

\* A waiter slot serves one request at a time: what fills it is that request's
\* confirmation, and it is free again whenever no request holds its handle.
SlotsOwned == RightBody /\ NoStrandedSlot
=============================================================================
