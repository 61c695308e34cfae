----------------------------- MODULE MessageBus -----------------------------
(***************************************************************************)
(* The in-memory bus (dali2rust-bus): three bounded ingress queues, the    *)
(* routing task that drains them into the subscribers' bounded inboxes,    *)
(* and the threads that publish once or, with publish_required, retry on   *)
(* a schedule.  A worker has one inbox for commands and events (a funnel); *)
(* confirmations go to every listener.                                     *)
(*                                                                         *)
(* Publishing never ends, so frames carry no serial numbers: one command,  *)
(* any of them, is watched from the moment the ingress accepts it.         *)
(* Waiting times, and with them the backlog flag that shortens one, are    *)
(* left out, and so are the counters nothing decides on.                   *)
(***************************************************************************)
EXTENDS Naturals, Sequences, FiniteSets

CONSTANTS
    Producer,    \* threads that only publish
    Worker,      \* take commands and events, confirm commands
    Listener,    \* confirmation subscribers
    Handles,     \* Handles[channel][kind]: the workers that declared the kind
    Room,        \* Room[channel]: ingress capacity
    InboxRoom,   \* capacity of every inbox
    Batch,       \* COMMAND_DRAIN_BATCH
    Schedule,    \* REQUIRED_PUBLISH_BACKOFF_MS
    SleepBudget  \* budget_ms of a required publish

Routed == {"commands", "events"}
Channel == Routed \cup {"confirmations"}
Thread == Producer \cup Worker
Subscriber == Worker \cup Listener

ASSUME BusAssumption ==
    /\ DOMAIN Handles = Routed
    /\ \A ch \in Routed : \A k \in DOMAIN Handles[ch] : Handles[ch][k] \subseteq Worker
    /\ Room \in [Channel -> Nat \ {0}] /\ InboxRoom \in Nat \ {0} /\ Batch \in Nat \ {0}
    /\ Schedule \in Seq(Nat) \ {<<>>} /\ SleepBudget \in Nat
    /\ Worker \cap Listener = {}    \* each subscription has an inbox of its own

VARIABLES
    ingress,   \* ingress[channel]
    inbox,     \* inbox[subscriber]
    task,      \* the routing task: [pc, drained]
    call,      \* call[t]: the publish call thread t is in
    watched    \* ghost, the watched command: {}, then {"queued"} and what became
               \* of it: "taken" by a worker, "rejected"

vars == <<ingress, inbox, task, call, watched>>

Frame(ch, kind, seen) == [channel |-> ch, kind |-> kind, watched |-> seen]

(* An executed and a rejected command are confirmed alike here.            *)
Confirmation == Frame("confirmations", "confirmed", FALSE)

NoCall == [pc |-> "idle", frame |-> Frame("commands", "none", FALSE),
           schedule |-> <<0>>, attempt |-> 1, slept |-> 0]

----------------------------------------------------------------------------
(* Publishers.                                                             *)

PublishCall(frame, required) ==
    [pc |-> "publish", frame |-> frame, schedule |-> IF required THEN Schedule ELSE <<0>>,
     attempt |-> 1, slept |-> 0]

Begin(t) ==
    /\ call[t].pc = "idle"
    /\ \E ch \in Routed : \E kind \in DOMAIN Handles[ch], required \in BOOLEAN :
          call' = [call EXCEPT ![t] = PublishCall(Frame(ch, kind, FALSE), required)]
    /\ UNCHANGED <<ingress, inbox, task, watched>>

Affords(slept, delay) == delay <= SleepBudget - slept

(* queue_frame succeeds; the frame may become the watched one.             *)
Accept(frame) ==
    \E watch \in BOOLEAN :
        /\ watch => watched = {} /\ frame.channel = "commands"
        /\ watched' = IF watch THEN {"queued"} ELSE watched
        /\ ingress' = [ingress EXCEPT ![frame.channel] =
                          Append(@, [frame EXCEPT !.watched = @ \/ watch])]

Queues(t) ==
    LET ch == call[t].frame.channel
    IN Len(ingress[ch]) < Room[ch] /\ task.pc # "stopped"

(* DroppedIngressFull with attempts left goes on; anything else returns.   *)
Retry(c) ==
    IF c.attempt < Len(c.schedule) THEN [c EXCEPT !.attempt = @ + 1] ELSE NoCall

(* One attempt of publish_required: sleep if the budget affords it, then   *)
(* try_publish.  publish_or_drop is the schedule of one attempt.           *)
Attempt(t) ==
    LET delay == call[t].schedule[call[t].attempt]
        awake == [call[t] EXCEPT !.slept = @ + delay]
    IN /\ call[t].pc = "publish"
       /\ \/ /\ delay > 0 /\ ~Affords(call[t].slept, delay)
             /\ call' = [call EXCEPT ![t] = NoCall]
             /\ UNCHANGED <<ingress, watched>>
          \/ /\ call[t].attempt = 1    \* wrong channel or too large
             /\ call' = [call EXCEPT ![t] = NoCall]
             /\ UNCHANGED <<ingress, watched>>
          \/ /\ delay > 0 => Affords(call[t].slept, delay)
             /\ IF Queues(t)
                THEN Accept(call[t].frame) /\ call' = [call EXCEPT ![t] = NoCall]
                ELSE call' = [call EXCEPT ![t] = Retry(awake)] /\ UNCHANGED <<ingress, watched>>
       /\ UNCHANGED <<inbox, task>>

----------------------------------------------------------------------------
(* Subscribers.                                                            *)

(* A worker takes a frame; a command it executes and confirms.             *)
Take(w) ==
    /\ call[w].pc = "idle" /\ inbox[w] # <<>>
    /\ inbox' = [inbox EXCEPT ![w] = Tail(@)]
    /\ LET frame == Head(inbox[w])
       IN IF frame.channel = "commands"
          THEN /\ call' = [call EXCEPT ![w] =
                     PublishCall(Confirmation, TRUE)]
               /\ watched' = watched \cup IF frame.watched THEN {"taken"} ELSE {}
          ELSE UNCHANGED <<call, watched>>
    /\ UNCHANGED <<ingress, task>>

Listen(q) ==
    /\ inbox[q] # <<>>
    /\ inbox' = [inbox EXCEPT ![q] = Tail(@)]
    /\ UNCHANGED <<ingress, task, call, watched>>

----------------------------------------------------------------------------
(* The routing task.                                                       *)

(* fan_out_frame, deliver_to_targets: try_send to each, a full inbox loses.*)
Sent(boxes, frame, targets) ==
    [s \in Subscriber |->
        IF s \in targets /\ Len(boxes[s]) < InboxRoom THEN Append(boxes[s], frame) ELSE boxes[s]]

\* mutant: one target that refuses is enough for a rejection
RejectedBySome(targets) == targets = {} \/ \E s \in targets : Len(inbox[s]) = InboxRoom

(* No handler declared the kind, or none of them had room.                 *)
Rejected(targets) == \A s \in targets : Len(inbox[s]) = InboxRoom

(* The synthetic rejection goes straight to the listeners, not through the *)
(* confirmations ingress.                                                  *)
DispatchCommand(frame) ==
    LET targets == Handles["commands"][frame.kind]
        boxes == Sent(inbox, frame, targets)
    IN inbox' = IF Rejected(targets) THEN Sent(boxes, Confirmation, Listener) ELSE boxes

Route(frame) ==
    CASE frame.channel = "commands" -> DispatchCommand(frame)
      [] frame.channel = "confirmations" -> inbox' = Sent(inbox, frame, Listener)
      [] frame.channel = "events" -> inbox' = Sent(inbox, frame, Handles["events"][frame.kind])

Watch(frame) ==
    watched' = watched \cup IF frame.watched /\ Rejected(Handles["commands"][frame.kind])
                            THEN {"rejected"} ELSE {}

\* mutant: a channel is drained until it is empty
DrainsDry(drained) == TRUE

Drains(drained) == drained < Batch

After == [commands |-> "confirmations", confirmations |-> "events", events |-> "top"]

(* One frame of the channel that is being drained; when it was the last of *)
(* the budget, or there is none, on to the next channel.                   *)
Drain(ch) ==
    LET more == ingress[ch] # <<>> /\ Drains(task.drained + 1)
    IN /\ task.pc = ch
       /\ IF ingress[ch] = <<>>
          THEN UNCHANGED <<ingress, inbox, watched>>
          ELSE /\ Route(Head(ingress[ch])) /\ Watch(Head(ingress[ch]))
               /\ ingress' = [ingress EXCEPT ![ch] = Tail(@)]
       /\ task' = IF more THEN [task EXCEPT !.drained = (@ + 1) % Batch]
                  ELSE [pc |-> After[ch], drained |-> 0]
       /\ UNCHANGED call

(* The task ends when it finds that BusHost was dropped.                   *)
Turn ==
    /\ task.pc = "top"
    /\ \E pc \in {"commands", "stopped"} : task' = [task EXCEPT !.pc = pc]
    /\ UNCHANGED <<ingress, inbox, call, watched>>

BusTask == Turn \/ \E ch \in Channel : Drain(ch)

----------------------------------------------------------------------------
Init ==
    /\ ingress = [ch \in Channel |-> <<>>]
    /\ inbox = [s \in Subscriber |-> <<>>]
    /\ task = [pc |-> "top", drained |-> 0]
    /\ call = [t \in Thread |-> NoCall]
    /\ watched = {}

Next ==
    \/ \E t \in Producer : Begin(t)
    \/ \E t \in Thread : Attempt(t)
    \/ \E w \in Worker : Take(w)
    \/ \E q \in Listener : Listen(q)
    \/ BusTask

Spec == Init /\ [][Next]_vars

(* Only the routing task and the publish calls keep running: a subscriber  *)
(* may be stuck, a producer may publish for ever.                          *)
FairSpec == Spec /\ WF_vars(BusTask) /\ \A t \in Thread : WF_vars(Attempt(t))

----------------------------------------------------------------------------
(* Types.  No required publish sleeps longer than its budget in total.     *)
TypeOK ==
    /\ \A ch \in Channel : Len(ingress[ch]) <= Room[ch]
    /\ \A s \in Subscriber : Len(inbox[s]) <= InboxRoom
    /\ task.pc \in Channel \cup {"top", "stopped"} /\ task.drained \in 0 .. Batch - 1
    /\ \A t \in Thread : /\ call[t].pc \in {"idle", "publish"}
                         /\ call[t].slept \in 0 .. SleepBudget
    /\ watched \subseteq {"queued", "taken", "rejected"}

(* A command is executed or rejected, never both: whoever hears            *)
(* DeliveryRejected may repeat the command.                                *)
OneVerdict == ~({"taken", "rejected"} \subseteq watched)

(* A command the ingress accepted is executed, rejected or still in a      *)
(* queue; none disappears.                                                 *)
NoCommandVanishes ==
    watched = {"queued"} =>
        \/ \E k \in DOMAIN ingress["commands"] : ingress["commands"][k].watched
        \/ \E w \in Worker : \E k \in DOMAIN inbox[w] : inbox[w][k].watched

(* The task comes back to every channel, however much is published on the  *)
(* others and however many inboxes stay full.  Each visit takes at least   *)
(* one frame, so none stays in an ingress for ever.                        *)
NoStarvation == \A ch \in Channel : []<>(task.pc \in {ch, "stopped"})

(* Every publish call returns, whether or not anything drains the bus.     *)
PublishReturns == \A t \in Thread : call[t].pc = "publish" ~> call[t].pc = "idle"

(* A command the ingress accepted has one fate: it waits in a queue, is    *)
(* executed or is rejected.                                                *)
CommandAccounted == OneVerdict /\ NoCommandVanishes

(* The bus serves every channel again and again, and every publisher.      *)
BusServes == NoStarvation /\ PublishReturns
=============================================================================
