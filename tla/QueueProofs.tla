---------------------------- MODULE QueueProofs ----------------------------
(***************************************************************************)
(* Proofs about the two queues that many threads publish to: the message   *)
(* bus, and the console's.                                                 *)
(***************************************************************************)
EXTENDS MessageBus, ConsoleQueue, TLAPS

\* A leaf that names no prover is for Zenon; one that counts, or takes a record or
\* a sequence apart, cites SMT.
USE Zenon

----------------------------------------------------------------------------
(***************************************************************************)
(* MessageBus, for every number of threads, workers, listeners and kinds,  *)
(* every capacity, batch, schedule and budget.                             *)
(***************************************************************************)
\* The frames that travel: a routed one has a declared kind, and only a command
\* is watched.
Kinds == {"none", "confirmed"} \cup DOMAIN Handles["commands"] \cup DOMAIN Handles["events"]
AnyFrame == [channel : Channel, kind : Kinds, watched : BOOLEAN]
Frames ==
    {f \in AnyFrame : /\ f.channel \in Routed => f.kind \in DOMAIN Handles[f.channel]
                      /\ f.watched => f.channel = "commands"}
Calls ==
    [pc : {"idle", "publish"}, frame : AnyFrame, schedule : Seq(Nat), attempt : Nat, slept : Nat]

\* The watched frame is in the queue s, and at one place of it.
Seen(s) == \E k \in DOMAIN s : s[k].watched
Once(s) == \A i, j \in DOMAIN s : s[i].watched /\ s[j].watched => i = j

Shape ==
    /\ ingress \in [Channel -> Seq(Frames)]
    /\ inbox \in [Subscriber -> Seq(Frames)]
    /\ task \in [pc : Channel \cup {"top", "stopped"}, drained : Nat]
    /\ call \in [Thread -> Calls]

\* A call that goes on carries an unwatched frame and has an attempt left.
CallInv ==
    \A t \in Thread :
        call[t].pc = "publish" =>
            /\ call[t].frame \in Frames /\ ~call[t].frame.watched
            /\ call[t].attempt \in 1 .. Len(call[t].schedule)

\* The watched command is in the commands ingress, once, before anything became
\* of it; then in inboxes of workers unless it was rejected.
WatchInv ==
    /\ \A ch \in Channel \ {"commands"} : ~Seen(ingress[ch])
    /\ \A q \in Listener : ~Seen(inbox[q])
    /\ Once(ingress["commands"])
    /\ Seen(ingress["commands"]) => watched = {"queued"} /\ \A w \in Worker : ~Seen(inbox[w])
    /\ \A w \in Worker : Seen(inbox[w]) => "queued" \in watched /\ "rejected" \notin watched
    /\ watched # {} => "queued" \in watched
    /\ ~("taken" \in watched /\ "rejected" \in watched)
    /\ watched = {"queued"} => Seen(ingress["commands"]) \/ \E w \in Worker : Seen(inbox[w])

IInv == Shape /\ TypeOK /\ CallInv /\ WatchInv

-----------------------------------------------------------------------------
\* What the queue operations do to the watched frame.

LEMMA AppendSeen ==
    ASSUME NEW s \in Seq(Frames), NEW f \in Frames
    PROVE  /\ Append(s, f) \in Seq(Frames) /\ Len(Append(s, f)) = Len(s) + 1
           /\ Seen(Append(s, f)) <=> Seen(s) \/ f.watched
           /\ Once(s) /\ (~Seen(s) \/ ~f.watched) => Once(Append(s, f))
<1> DEFINE t == Append(s, f)
<1>1. /\ t \in Seq(Frames) /\ Len(t) = Len(s) + 1 /\ t[Len(s) + 1] = f
      /\ \A i \in 1 .. Len(s) : t[i] = s[i]
      /\ DOMAIN s = 1 .. Len(s) /\ DOMAIN t = 1 .. Len(s) + 1
  BY SMT
<1>2. Len(s) \in Nat
  BY SMT
<1> HIDE DEF t
<1>3. \A k \in DOMAIN t : (k \in DOMAIN s /\ t[k] = s[k]) \/ (k = Len(s) + 1 /\ t[k] = f)
  BY <1>1, <1>2, SMT
<1>4. \A k \in DOMAIN s : k \in DOMAIN t /\ t[k] = s[k]
  BY <1>1, <1>2, SMT
<1>5. Len(s) + 1 \in DOMAIN t
  BY <1>1, <1>2, SMT
<1>6. Seen(t) <=> Seen(s) \/ f.watched
  BY <1>1, <1>3, <1>4, <1>5 DEF Seen
<1>7. Once(s) /\ (~Seen(s) \/ ~f.watched) => Once(t)
  BY <1>1, <1>3, <1>4, <1>5 DEF Seen, Once
<1> QED
  BY <1>1, <1>6, <1>7 DEF t

LEMMA TailSeen ==
    ASSUME NEW s \in Seq(Frames), s # <<>>
    PROVE  /\ Tail(s) \in Seq(Frames) /\ Len(Tail(s)) = Len(s) - 1 /\ Head(s) \in Frames
           /\ Seen(s) <=> Head(s).watched \/ Seen(Tail(s))
           /\ Once(s) => Once(Tail(s))
           /\ Once(s) /\ Head(s).watched => ~Seen(Tail(s))
<1> DEFINE t == Tail(s)
<1>1. /\ t \in Seq(Frames) /\ Len(t) = Len(s) - 1 /\ Head(s) \in Frames /\ Head(s) = s[1]
      /\ \A i \in 1 .. Len(t) : t[i] = s[i + 1]
      /\ DOMAIN s = 1 .. Len(s) /\ DOMAIN t = 1 .. Len(t) /\ Len(s) \in Nat \ {0}
  BY SMT
<1> HIDE DEF t
<1>2. 1 \in DOMAIN s /\ \A k \in DOMAIN t : k + 1 \in DOMAIN s /\ k + 1 # 1 /\ t[k] = s[k + 1]
  BY <1>1, SMT
<1>3. \A k \in DOMAIN s : k = 1 \/ (k - 1 \in DOMAIN t /\ t[k - 1] = s[k])
  BY <1>1, SMT
<1>4. Seen(s) <=> Head(s).watched \/ Seen(t)
  BY <1>1, <1>2, <1>3 DEF Seen
<1>5. Once(s) => Once(t)
  <2> SUFFICES ASSUME Once(s), NEW i \in DOMAIN t, NEW j \in DOMAIN t, t[i].watched, t[j].watched
               PROVE  i = j
    BY DEF Once
  <2>1. i + 1 = j + 1
    BY <1>2 DEF Once
  <2>2. i \in Nat /\ j \in Nat
    BY <1>1, SMT
  <2> QED
    BY <2>1, <2>2, SMT
<1>6. Once(s) /\ Head(s).watched => ~Seen(t)
  BY <1>1, <1>2 DEF Seen, Once
<1> QED
  BY <1>1, <1>4, <1>5, <1>6 DEF t

\* try_send to the targets: a full inbox stays as it is.
LEMMA SentSeen ==
    ASSUME NEW boxes \in [Subscriber -> Seq(Frames)], NEW f \in Frames, NEW targets,
           \A s \in Subscriber : Len(boxes[s]) <= InboxRoom
    PROVE  /\ Sent(boxes, f, targets) \in [Subscriber -> Seq(Frames)]
           /\ \A s \in Subscriber :
                 /\ Len(Sent(boxes, f, targets)[s]) <= InboxRoom
                 /\ Seen(Sent(boxes, f, targets)[s]) <=>
                       Seen(boxes[s]) \/ (f.watched /\ s \in targets /\ Len(boxes[s]) < InboxRoom)
<1>1. InboxRoom \in Nat
  BY BusAssumption
<1>2. ASSUME NEW s \in Subscriber
      PROVE  /\ Sent(boxes, f, targets)[s] \in Seq(Frames)
             /\ Len(Sent(boxes, f, targets)[s]) <= InboxRoom
             /\ Seen(Sent(boxes, f, targets)[s]) <=>
                   Seen(boxes[s]) \/ (f.watched /\ s \in targets /\ Len(boxes[s]) < InboxRoom)
  <2>1. boxes[s] \in Seq(Frames) /\ Len(boxes[s]) \in Nat /\ Len(boxes[s]) <= InboxRoom
    BY SMT
  <2>2. CASE s \in targets /\ Len(boxes[s]) < InboxRoom
    <3>1. Sent(boxes, f, targets)[s] = Append(boxes[s], f)
      BY <2>2 DEF Sent
    <3>2. Len(boxes[s]) + 1 <= InboxRoom
      BY <1>1, <2>1, <2>2, SMT
    <3> QED
      BY <2>1, <2>2, <3>1, <3>2, AppendSeen, SMT
  <2>3. CASE ~(s \in targets /\ Len(boxes[s]) < InboxRoom)
    <3>1. Sent(boxes, f, targets)[s] = boxes[s]
      BY <2>3 DEF Sent
    <3> QED
      BY <2>1, <2>3, <3>1
  <2> QED
    BY <2>2, <2>3
<1>3. Sent(boxes, f, targets) = [s \in Subscriber |-> Sent(boxes, f, targets)[s]]
  BY DEF Sent
<1> QED
  BY <1>2, <1>3

-----------------------------------------------------------------------------
\* The bus starts empty.
LEMMA InitHolds == Init => IInv
<1> SUFFICES ASSUME Init PROVE IInv
  OBVIOUS
<1> USE BusAssumption DEF Channel, Routed
<1>1. Shape
  BY SMT DEF Init, Shape, Calls, NoCall, Frame, AnyFrame, Kinds
<1>2. TypeOK
  BY SMT DEF Init, TypeOK, NoCall
<1>3. CallInv
  BY DEF Init, CallInv, NoCall
<1>4. WatchInv
  BY SMT DEF Init, WatchInv, Seen, Once, Subscriber
<1> QED
  BY <1>1, <1>2, <1>3, <1>4 DEF IInv

\* A publish call starts with an unwatched frame and its first attempt.
LEMMA PublishCallShape ==
    ASSUME NEW f \in Frames, ~f.watched, NEW required \in BOOLEAN
    PROVE  /\ PublishCall(f, required) \in Calls
           /\ PublishCall(f, required).pc = "publish" /\ PublishCall(f, required).frame = f
           /\ PublishCall(f, required).slept = 0
           /\ PublishCall(f, required).attempt \in 1 .. Len(PublishCall(f, required).schedule)
<1>1. Schedule \in Seq(Nat) /\ Len(Schedule) \in Nat /\ Len(Schedule) >= 1
  BY BusAssumption, SMT
<1>2. <<0>> \in Seq(Nat) /\ Len(<<0>>) = 1
  BY SMT
<1>3. PublishCall(f, required) =
        [pc |-> "publish", frame |-> f, schedule |-> IF required THEN Schedule ELSE <<0>>,
         attempt |-> 1, slept |-> 0]
  BY DEF PublishCall
<1> QED
  BY <1>1, <1>2, <1>3, SMT DEF Calls, Frames

LEMMA NoCallShape == NoCall \in Calls /\ NoCall.pc = "idle" /\ NoCall.slept = 0
  BY BusAssumption, SMT DEF NoCall, Calls, Frame, AnyFrame, Kinds, Channel, Routed

LEMMA ConfirmationShape == Confirmation \in Frames /\ ~Confirmation.watched
  BY DEF Confirmation, Frame, Frames, AnyFrame, Kinds, Channel, Routed

\* A step that leaves the queues and the watched command alone.
LEMMA WatchStays ==
    ASSUME WatchInv, UNCHANGED <<ingress, inbox, watched>> PROVE WatchInv'
  BY DEF WatchInv

LEMMA BeginStep == ASSUME IInv, NEW t \in Producer, Begin(t) PROVE IInv'
<1>0. PICK ch \in Routed : \E kind \in DOMAIN Handles[ch], required \in BOOLEAN :
         call' = [call EXCEPT ![t] = PublishCall(Frame(ch, kind, FALSE), required)]
  BY DEF Begin
<1>1. PICK kind \in DOMAIN Handles[ch], required \in BOOLEAN :
         call' = [call EXCEPT ![t] = PublishCall(Frame(ch, kind, FALSE), required)]
  BY <1>0
<1> DEFINE f == Frame(ch, kind, FALSE)
<1>2. f \in Frames /\ ~f.watched
  BY DEF Frame, Frames, AnyFrame, Kinds, Channel, Routed
<1> HIDE DEF f
<1>3. t \in Thread /\ call'[t] = PublishCall(f, required)
      /\ \A u \in Thread : u # t => call'[u] = call[u]
  BY <1>1 DEF Thread, IInv, Shape, f
<1>4. UNCHANGED <<ingress, inbox, task, watched>>
  BY DEF Begin
<1>5. Shape'
  BY <1>1, <1>2, <1>4, PublishCallShape DEF IInv, Shape, f
<1>5a. call'[t].pc = "publish" /\ call'[t].slept = 0
  BY <1>2, <1>3, PublishCallShape, SMT
<1>5b. \A u \in Thread : /\ call'[u].pc \in {"idle", "publish"}
                        /\ call'[u].slept \in 0 .. SleepBudget
  <2>1. ASSUME NEW u \in Thread, u # t
        PROVE  call'[u].pc \in {"idle", "publish"} /\ call'[u].slept \in 0 .. SleepBudget
    BY <1>3, <2>1 DEF IInv, TypeOK
  <2>2. 0 \in 0 .. SleepBudget
    BY BusAssumption, SMT
  <2> QED BY <1>5a, <2>1, <2>2
<1>6. TypeOK'
  BY <1>4, <1>5b DEF IInv, TypeOK
<1>7. CallInv'
  BY <1>2, <1>3, PublishCallShape, SMT DEF IInv, CallInv
<1>8. WatchInv'
  BY <1>4, WatchStays DEF IInv
<1> QED
  BY <1>5, <1>6, <1>7, <1>8 DEF IInv

\* A call returns, or goes on to its next attempt within its budget.
LEMMA RetryShape ==
    ASSUME NEW c \in Calls, c.attempt \in 1 .. Len(c.schedule), c.slept \in 0 .. SleepBudget,
           c.pc = "publish", c.frame \in Frames, ~c.frame.watched,
           NEW delay \in Nat, delay > 0 => Affords(c.slept, delay)
    PROVE  LET r == Retry([c EXCEPT !.slept = @ + delay])
           IN  /\ r \in Calls /\ r.slept \in 0 .. SleepBudget
               /\ r.pc = "publish" => /\ r.frame \in Frames /\ ~r.frame.watched
                                      /\ r.attempt \in 1 .. Len(r.schedule)
<1> DEFINE a == [c EXCEPT !.slept = @ + delay]
<1>0. /\ a.slept = c.slept + delay /\ a.pc = "publish" /\ a.frame = c.frame
      /\ a.attempt = c.attempt /\ a.schedule = c.schedule
  BY DEF Calls
<1>1. a \in Calls /\ a.slept = c.slept + delay /\ a.pc = "publish" /\ a.frame = c.frame
      /\ a.attempt = c.attempt /\ a.schedule = c.schedule
  <2>1. c.slept + delay \in Nat
    BY SMT DEF Calls
  <2> QED
    BY <1>0, <2>1 DEF Calls
<1>2. a.slept \in 0 .. SleepBudget
  BY <1>1, BusAssumption, SMT DEF Affords
<1> HIDE DEF a
<1>3. CASE a.attempt < Len(a.schedule)
  <2>1. Retry(a) = [a EXCEPT !.attempt = @ + 1]
    BY <1>3 DEF Retry
  <2>2. Len(a.schedule) \in Nat /\ a.attempt \in Nat
    BY <1>1, SMT DEF Calls
  <2>3. /\ Retry(a) \in Calls /\ Retry(a).slept = a.slept /\ Retry(a).frame = a.frame
        /\ Retry(a).schedule = a.schedule /\ Retry(a).attempt = a.attempt + 1
    BY <1>1, <2>1, SMTT(20) DEF Calls
  <2> QED
    BY <1>1, <1>2, <1>3, <2>2, <2>3, SMT DEF a
<1>4. CASE ~(a.attempt < Len(a.schedule))
  BY <1>4, NoCallShape, BusAssumption, SMT DEF Retry, a
<1> QED
  BY <1>3, <1>4

\* An accepted frame is queued; it may become the watched one.
LEMMA AcceptStep ==
    ASSUME IInv, NEW f \in Frames, ~f.watched, Accept(f),
           Len(ingress[f.channel]) < Room[f.channel], inbox' = inbox
    PROVE  /\ ingress' \in [Channel -> Seq(Frames)]
           /\ \A ch \in Channel : Len(ingress'[ch]) <= Room[ch]
           /\ watched' \subseteq {"queued", "taken", "rejected"}
           /\ WatchInv'
<1>1. PICK watch \in BOOLEAN :
        /\ watch => watched = {} /\ f.channel = "commands"
        /\ watched' = IF watch THEN {"queued"} ELSE watched
        /\ ingress' = [ingress EXCEPT ![f.channel] = Append(@, [f EXCEPT !.watched = @ \/ watch])]
  BY DEF Accept
<1> DEFINE g == [f EXCEPT !.watched = @ \/ watch]
<1>2. g \in Frames /\ (g.watched <=> watch) /\ f.channel \in Channel
  BY <1>1 DEF Frames, AnyFrame
<1>3. /\ ingress'[f.channel] = Append(ingress[f.channel], g)
      /\ \A ch \in Channel : ch # f.channel => ingress'[ch] = ingress[ch]
      /\ ingress[f.channel] \in Seq(Frames)
  BY <1>1, <1>2 DEF IInv, Shape
<1> HIDE DEF g
<1>4. /\ ingress'[f.channel] \in Seq(Frames) /\ Len(ingress'[f.channel]) = Len(ingress[f.channel]) + 1
      /\ Seen(ingress'[f.channel]) <=> Seen(ingress[f.channel]) \/ watch
      /\ Once(ingress[f.channel]) /\ (~Seen(ingress[f.channel]) \/ ~watch) => Once(ingress'[f.channel])
  BY <1>2, <1>3, AppendSeen, SMT
<1>5. ingress' \in [Channel -> Seq(Frames)]
  BY <1>1, <1>2, <1>3, <1>4 DEF IInv, Shape
<1>6. \A ch \in Channel : Len(ingress'[ch]) <= Room[ch]
  <2>1. Len(ingress[f.channel]) \in Nat /\ Room[f.channel] \in Nat
    BY <1>2, <1>3, BusAssumption, SMT
  <2>2. Len(ingress'[f.channel]) <= Room[f.channel]
    BY <1>4, <2>1, SMT
  <2> QED
    BY <1>3, <2>2 DEF IInv, TypeOK
<1>7. watched' \subseteq {"queued", "taken", "rejected"}
  BY <1>1 DEF IInv, TypeOK
<1>8. WatchInv'
  <2>1. CASE watch
    <3>1. watched = {} /\ f.channel = "commands" /\ watched' = {"queued"}
      BY <1>1, <2>1
    <3>2. ~Seen(ingress["commands"]) /\ \A w \in Worker : ~Seen(inbox[w])
      BY <3>1 DEF IInv, WatchInv
    <3> QED
      BY <1>3, <1>4, <2>1, <3>1, <3>2 DEF IInv, WatchInv
  <2>2. CASE ~watch
    <3>1. watched' = watched
      BY <1>1, <2>2
    <3>2. \A ch \in Channel : Seen(ingress'[ch]) <=> Seen(ingress[ch])
      BY <1>3, <1>4, <2>2
    <3>3. Once(ingress'["commands"])
      BY <1>3, <1>4, <2>2 DEF IInv, WatchInv, Channel, Routed
    <3>4. "commands" \in Channel
      BY DEF Channel, Routed
    <3> QED
      BY <3>1, <3>2, <3>3, <3>4 DEF IInv, WatchInv
  <2> QED
    BY <2>1, <2>2
<1> QED
  BY <1>5, <1>6, <1>7, <1>8

\* One attempt of publish_required keeps the invariant.
LEMMA AttemptStep == ASSUME IInv, NEW t \in Thread, Attempt(t) PROVE IInv'
<1> DEFINE c == call[t]
           delay == c.schedule[c.attempt]
<1>1. /\ c \in Calls /\ c.pc = "publish" /\ c.frame \in Frames /\ ~c.frame.watched
      /\ c.attempt \in 1 .. Len(c.schedule) /\ c.slept \in 0 .. SleepBudget
  BY DEF Attempt, IInv, Shape, CallInv, TypeOK
<1>2. delay \in Nat
  BY <1>1, SMT DEF Calls
<1>3. inbox' = inbox /\ task' = task
  BY DEF Attempt
<1>4. ASSUME NEW d \in Calls, call' = [call EXCEPT ![t] = d], d.slept \in 0 .. SleepBudget,
             d.pc = "publish" => /\ d.frame \in Frames /\ ~d.frame.watched
                                 /\ d.attempt \in 1 .. Len(d.schedule)
      PROVE  /\ call' \in [Thread -> Calls] /\ CallInv'
             /\ \A u \in Thread : call'[u].pc \in {"idle", "publish"} /\ call'[u].slept \in 0 .. SleepBudget
  <2>1. \A u \in Thread : call'[u] = IF u = t THEN d ELSE call[u]
    BY <1>4 DEF IInv, Shape
  <2>2. call' \in [Thread -> Calls]
    BY <1>4 DEF IInv, Shape
  <2>3. d.pc \in {"idle", "publish"}
    BY DEF Calls
  <2> QED
    BY <1>4, <2>1, <2>2, <2>3 DEF IInv, CallInv, TypeOK
<1>n. NoCall \in Calls /\ NoCall.slept \in 0 .. SleepBudget /\ NoCall.pc # "publish"
  BY NoCallShape, BusAssumption, SMT
<1>5. CASE call' = [call EXCEPT ![t] = NoCall] /\ UNCHANGED <<ingress, watched>>
  <2>1. /\ call' \in [Thread -> Calls] /\ CallInv'
        /\ \A u \in Thread : call'[u].pc \in {"idle", "publish"} /\ call'[u].slept \in 0 .. SleepBudget
    BY <1>4, <1>5, <1>n
  <2>2. WatchInv'
    BY <1>3, <1>5, WatchStays DEF IInv
  <2> QED
    BY <1>3, <1>5, <2>1, <2>2 DEF IInv, Shape, TypeOK
<1>6. CASE /\ delay > 0 => Affords(c.slept, delay)
           /\ Queues(t) /\ Accept(c.frame) /\ call' = [call EXCEPT ![t] = NoCall]
  <2>1. /\ call' \in [Thread -> Calls] /\ CallInv'
        /\ \A u \in Thread : call'[u].pc \in {"idle", "publish"} /\ call'[u].slept \in 0 .. SleepBudget
    BY <1>4, <1>6, <1>n
  <2>2. Len(ingress[c.frame.channel]) < Room[c.frame.channel]
    BY <1>6 DEF Queues
  <2>3. /\ ingress' \in [Channel -> Seq(Frames)] /\ WatchInv'
        /\ \A ch \in Channel : Len(ingress'[ch]) <= Room[ch]
        /\ watched' \subseteq {"queued", "taken", "rejected"}
    BY <1>1, <1>3, <1>6, <2>2, AcceptStep
  <2> QED
    BY <1>3, <2>1, <2>3 DEF IInv, Shape, TypeOK
<1>7. CASE /\ delay > 0 => Affords(c.slept, delay)
           /\ call' = [call EXCEPT ![t] = Retry([c EXCEPT !.slept = @ + delay])]
           /\ UNCHANGED <<ingress, watched>>
  <2>1. /\ call' \in [Thread -> Calls] /\ CallInv'
        /\ \A u \in Thread : call'[u].pc \in {"idle", "publish"} /\ call'[u].slept \in 0 .. SleepBudget
    BY <1>1, <1>2, <1>4, <1>7, RetryShape
  <2>2. WatchInv'
    BY <1>3, <1>7, WatchStays DEF IInv
  <2> QED
    BY <1>3, <1>7, <2>1, <2>2 DEF IInv, Shape, TypeOK
<1> QED
  BY <1>5, <1>6, <1>7 DEF Attempt

\* A worker takes a frame from its inbox: the watched one counts as taken.
LEMMA TakeStep == ASSUME IInv, NEW w \in Worker, Take(w) PROVE IInv'
<1> DEFINE f == Head(inbox[w])
<1>1. /\ w \in Thread /\ w \in Subscriber /\ inbox[w] \in Seq(Frames) /\ inbox[w] # <<>>
      /\ inbox' = [inbox EXCEPT ![w] = Tail(@)] /\ UNCHANGED <<ingress, task>>
  BY DEF Take, IInv, Shape, Thread, Subscriber
<1>2. /\ Tail(inbox[w]) \in Seq(Frames) /\ Len(Tail(inbox[w])) = Len(inbox[w]) - 1 /\ f \in Frames
      /\ Seen(inbox[w]) <=> f.watched \/ Seen(Tail(inbox[w]))
  BY <1>1, TailSeen
<1>3. \A s \in Subscriber : inbox'[s] = IF s = w THEN Tail(inbox[w]) ELSE inbox[s]
  BY <1>1 DEF IInv, Shape
<1>4. inbox' \in [Subscriber -> Seq(Frames)]
  BY <1>1, <1>2 DEF IInv, Shape
<1>5. \A s \in Subscriber : Len(inbox'[s]) <= InboxRoom
  <2>1. Len(inbox[w]) \in Nat /\ Len(inbox[w]) <= InboxRoom /\ InboxRoom \in Nat
    BY <1>1, BusAssumption, SMT DEF IInv, TypeOK
  <2>2. Len(Tail(inbox[w])) <= InboxRoom
    BY <1>2, <2>1, SMT
  <2> QED
    BY <1>3, <2>2 DEF IInv, TypeOK
<1>6. watched' = IF f.watched THEN watched \cup {"taken"} ELSE watched
  BY <1>2 DEF Take, Frames
<1>7. WatchInv'
  <2>1. \A q \in Listener : q \in Subscriber /\ q # w
    BY BusAssumption DEF Subscriber
  <2>2. \A v \in Worker : v \in Subscriber /\ (Seen(inbox'[v]) => Seen(inbox[v]))
    BY <1>2, <1>3 DEF Subscriber
  <2>3. CASE f.watched
    <3>1. Seen(inbox[w]) /\ watched' = watched \cup {"taken"}
      BY <1>2, <1>6, <2>3
    <3>2. ~Seen(ingress["commands"]) /\ "queued" \in watched /\ "rejected" \notin watched
      BY <3>1 DEF IInv, WatchInv
    <3> QED
      BY <1>1, <1>3, <2>1, <2>2, <3>1, <3>2, SMT DEF IInv, WatchInv
  <2>4. CASE ~f.watched
    <3>1. watched' = watched /\ \A v \in Worker : Seen(inbox'[v]) <=> Seen(inbox[v])
      BY <1>2, <1>3, <1>6, <2>2, <2>4
    <3> QED
      BY <1>1, <1>3, <2>1, <3>1 DEF IInv, WatchInv
  <2> QED
    BY <2>3, <2>4
<1>8. /\ call' \in [Thread -> Calls] /\ CallInv'
      /\ \A u \in Thread : call'[u].pc \in {"idle", "publish"} /\ call'[u].slept \in 0 .. SleepBudget
  <2>1. CASE f.channel = "commands"
    <3> DEFINE d == PublishCall(Confirmation, TRUE)
    <3>1. /\ d \in Calls /\ d.pc = "publish" /\ d.frame \in Frames /\ ~d.frame.watched /\ d.slept = 0
          /\ d.attempt \in 1 .. Len(d.schedule)
      BY ConfirmationShape, PublishCallShape
    <3>2. call' = [call EXCEPT ![w] = d]
      BY <2>1 DEF Take
    <3> HIDE DEF d
    <3>3. \A u \in Thread : call'[u] = IF u = w THEN d ELSE call[u]
      BY <3>2 DEF IInv, Shape
    <3> QED
      BY <1>1, <3>1, <3>2, <3>3, BusAssumption, SMTT(20) DEF IInv, Shape, CallInv, TypeOK
  <2>2. CASE f.channel # "commands"
    BY <2>2 DEF Take, IInv, Shape, CallInv, TypeOK
  <2> QED
    BY <2>1, <2>2
<1>9. watched' \subseteq {"queued", "taken", "rejected"}
  BY <1>6 DEF IInv, TypeOK
<1> QED
  BY <1>1, <1>4, <1>5, <1>7, <1>8, <1>9 DEF IInv, Shape, TypeOK

LEMMA ListenStep == ASSUME IInv, NEW q \in Listener, Listen(q) PROVE IInv'
<1>1. /\ q \in Subscriber /\ inbox[q] \in Seq(Frames) /\ inbox[q] # <<>>
      /\ inbox' = [inbox EXCEPT ![q] = Tail(@)] /\ UNCHANGED <<ingress, task, call, watched>>
  BY DEF Listen, IInv, Shape, Subscriber
<1>2. /\ Tail(inbox[q]) \in Seq(Frames) /\ Len(Tail(inbox[q])) = Len(inbox[q]) - 1
      /\ Seen(Tail(inbox[q])) => Seen(inbox[q])
  BY <1>1, TailSeen
<1>3. \A s \in Subscriber : inbox'[s] = IF s = q THEN Tail(inbox[q]) ELSE inbox[s]
  BY <1>1 DEF IInv, Shape
<1>4. Shape'
  BY <1>1, <1>2 DEF IInv, Shape
<1>5. TypeOK'
  <2>1. Len(inbox[q]) \in Nat /\ Len(inbox[q]) <= InboxRoom /\ InboxRoom \in Nat
    BY <1>1, BusAssumption, SMT DEF IInv, TypeOK
  <2>2. Len(Tail(inbox[q])) <= InboxRoom
    BY <1>2, <2>1, SMT
  <2> QED
    BY <1>1, <1>3, <2>2 DEF IInv, TypeOK
<1>6. CallInv'
  BY <1>1 DEF IInv, CallInv
<1>7. WatchInv'
  <2>1. \A w \in Worker : w \in Subscriber /\ inbox'[w] = inbox[w]
    BY <1>3, BusAssumption DEF Subscriber
  <2>2. \A r \in Listener : r \in Subscriber /\ ~Seen(inbox'[r])
    BY <1>2, <1>3 DEF IInv, WatchInv, Subscriber
  <2> QED
    BY <1>1, <2>1, <2>2 DEF IInv, WatchInv
<1> QED
  BY <1>4, <1>5, <1>6, <1>7 DEF IInv

\* The budget of a channel: after its last frame the task goes on.
LEMMA TaskStep ==
    ASSUME IInv, NEW ch \in Channel, Drain(ch)
    PROVE  /\ task' \in [pc : Channel \cup {"top", "stopped"}, drained : Nat]
           /\ task'.drained \in 0 .. Batch - 1
<1>1. Batch \in Nat \ {0} /\ task.drained \in 0 .. Batch - 1
  BY BusAssumption DEF IInv, TypeOK
<1>2. CASE task' = [task EXCEPT !.drained = (@ + 1) % Batch]
  <2> DEFINE d == (task.drained + 1) % Batch
  <2>1. d \in 0 .. Batch - 1 /\ d \in Nat /\ task' = [task EXCEPT !.drained = d]
    BY <1>1, <1>2, SMT
  <2> HIDE DEF d
  <2> QED
    BY <2>1 DEF IInv, Shape
<1>3. CASE task' = [pc |-> After[ch], drained |-> 0]
  <2>1. After[ch] \in Channel \cup {"top", "stopped"}
    BY SMT DEF After, Channel, Routed
  <2> QED
    BY <1>1, <1>3, <2>1, SMT
<1> QED
  BY <1>2, <1>3 DEF Drain

\* Where a routed frame goes: an unwatched one makes nobody see the watched
\* command; the watched one reaches a worker with room or is rejected.
LEMMA RouteSeen ==
    ASSUME IInv, NEW f \in Frames, Route(f)
    PROVE  /\ inbox' \in [Subscriber -> Seq(Frames)]
           /\ \A s \in Subscriber : Len(inbox'[s]) <= InboxRoom
           /\ \A s \in Subscriber : Seen(inbox[s]) => Seen(inbox'[s])
           /\ ~f.watched => \A s \in Subscriber : Seen(inbox'[s]) => Seen(inbox[s])
           /\ f.watched /\ Rejected(Handles["commands"][f.kind]) =>
                 \A s \in Subscriber : Seen(inbox'[s]) => Seen(inbox[s])
           /\ f.watched => \A s \in Listener : Seen(inbox'[s]) => Seen(inbox[s])
           /\ f.watched /\ ~Rejected(Handles["commands"][f.kind]) =>
                 \E w \in Worker : Seen(inbox'[w])
<1>0. /\ inbox \in [Subscriber -> Seq(Frames)] /\ \A s \in Subscriber : Len(inbox[s]) <= InboxRoom
      /\ InboxRoom \in Nat /\ \A s \in Subscriber : Len(inbox[s]) \in Nat
      /\ Listener \subseteq Subscriber /\ Worker \subseteq Subscriber /\ Worker \cap Listener = {}
  BY BusAssumption, SMT DEF IInv, Shape, TypeOK, Subscriber
<1>1. f.channel \in Channel /\ (f.watched => f.channel = "commands")
  BY DEF Frames, AnyFrame
<1>2. CASE f.channel = "commands"
  <2> DEFINE targets == Handles["commands"][f.kind]
             boxes == Sent(inbox, f, targets)
  <2>1. targets \subseteq Worker
    BY <1>2, BusAssumption DEF Frames, Routed
  <2>2. inbox' = IF Rejected(targets) THEN Sent(boxes, Confirmation, Listener) ELSE boxes
    BY <1>2 DEF Route, DispatchCommand
  <2> HIDE DEF targets
  <2>3. /\ boxes \in [Subscriber -> Seq(Frames)]
        /\ \A s \in Subscriber :
              /\ Len(boxes[s]) <= InboxRoom
              /\ Seen(boxes[s]) <=> Seen(inbox[s]) \/ (f.watched /\ s \in targets /\ Len(inbox[s]) < InboxRoom)
    BY <1>0, SentSeen
  <2> HIDE DEF boxes
  <2>4. CASE Rejected(targets)
    <3>1. /\ inbox' \in [Subscriber -> Seq(Frames)]
          /\ \A s \in Subscriber : Len(inbox'[s]) <= InboxRoom /\ (Seen(inbox'[s]) <=> Seen(boxes[s]))
      BY <2>2, <2>3, <2>4, ConfirmationShape, SentSeen
    <3>2. \A s \in targets : ~(Len(inbox[s]) < InboxRoom)
      BY <1>0, <2>1, <2>4, SMT DEF Rejected
    <3> QED
      BY <1>0, <2>3, <2>4, <3>1, <3>2 DEF targets
  <2>5. CASE ~Rejected(targets)
    <3>1. inbox' = boxes
      BY <2>2, <2>5
    <3>2. PICK s \in targets : Len(inbox[s]) < InboxRoom
      BY <1>0, <2>1, <2>5, SMT DEF Rejected
    <3> QED
      BY <1>0, <2>1, <2>3, <2>5, <3>1, <3>2 DEF targets
  <2> QED
    BY <2>4, <2>5
<1>3. CASE f.channel = "confirmations"
  <2>1. inbox' = Sent(inbox, f, Listener)
    BY <1>3 DEF Route
  <2> QED
    BY <1>0, <1>1, <1>3, <2>1, SentSeen
<1>4. CASE f.channel = "events"
  <2>1. inbox' = Sent(inbox, f, Handles["events"][f.kind])
    BY <1>4 DEF Route
  <2> QED
    BY <1>0, <1>1, <1>4, <2>1, SentSeen
<1> QED
  BY <1>1, <1>2, <1>3, <1>4 DEF Channel, Routed

\* The routing task takes one frame of a channel, or finds none.
LEMMA DrainStep == ASSUME IInv, NEW ch \in Channel, Drain(ch) PROVE IInv'
<1>0. /\ ingress[ch] \in Seq(Frames) /\ call' = call /\ "commands" \in Channel
      /\ Worker \subseteq Subscriber /\ Listener \subseteq Subscriber
  BY DEF Drain, IInv, Shape, Subscriber, Channel, Routed
<1>1. CallInv'
  BY <1>0 DEF IInv, CallInv
<1>2. CASE ingress[ch] = <<>>
  <2>1. UNCHANGED <<ingress, inbox, watched>>
    BY <1>2 DEF Drain
  <2>2. WatchInv'
    BY <2>1, WatchStays DEF IInv
  <2> QED
    BY <1>0, <1>1, <2>1, <2>2, TaskStep DEF IInv, Shape, TypeOK
<1>3. CASE ingress[ch] # <<>>
  <2> DEFINE f == Head(ingress[ch])
             targets == Handles["commands"][f.kind]
  <2>1. Route(f) /\ Watch(f) /\ ingress' = [ingress EXCEPT ![ch] = Tail(@)]
    BY <1>3 DEF Drain
  <2>2. /\ Tail(ingress[ch]) \in Seq(Frames) /\ Len(Tail(ingress[ch])) = Len(ingress[ch]) - 1
        /\ f \in Frames
        /\ Seen(ingress[ch]) <=> f.watched \/ Seen(Tail(ingress[ch]))
        /\ Once(ingress[ch]) => Once(Tail(ingress[ch]))
        /\ Once(ingress[ch]) /\ f.watched => ~Seen(Tail(ingress[ch]))
    BY <1>0, <1>3, TailSeen
  <2>3. \A c \in Channel : ingress'[c] = IF c = ch THEN Tail(ingress[ch]) ELSE ingress[c]
    BY <2>1 DEF IInv, Shape
  <2>4. watched' = IF f.watched /\ Rejected(targets) THEN watched \cup {"rejected"} ELSE watched
    BY <2>1 DEF Watch
  <2>5. /\ inbox' \in [Subscriber -> Seq(Frames)] /\ \A s \in Subscriber : Len(inbox'[s]) <= InboxRoom
        /\ \A s \in Subscriber : Seen(inbox[s]) => Seen(inbox'[s])
        /\ ~f.watched => \A s \in Subscriber : Seen(inbox'[s]) => Seen(inbox[s])
        /\ f.watched /\ Rejected(targets) => \A s \in Subscriber : Seen(inbox'[s]) => Seen(inbox[s])
        /\ f.watched => \A s \in Listener : Seen(inbox'[s]) => Seen(inbox[s])
        /\ f.watched /\ ~Rejected(targets) => \E w \in Worker : Seen(inbox'[w])
    BY <2>1, <2>2, RouteSeen
  <2>6. Shape'
    BY <1>0, <2>1, <2>2, <2>5, TaskStep DEF IInv, Shape
  <2>7. TypeOK'
    <3>1. Len(ingress[ch]) \in Nat /\ Len(ingress[ch]) <= Room[ch] /\ Room[ch] \in Nat
      BY <1>0, BusAssumption, SMT DEF IInv, TypeOK
    <3>2. Len(Tail(ingress[ch])) <= Room[ch]
      BY <2>2, <3>1, SMT
    <3>3. \A c \in Channel : Len(ingress'[c]) <= Room[c]
      BY <2>3, <3>2 DEF IInv, TypeOK
    <3> QED
      BY <1>0, <2>4, <2>5, <2>6, <3>3, TaskStep DEF IInv, Shape, TypeOK
  <2> HIDE DEF f, targets
  <2>8. WatchInv'
    <3>1. CASE f.watched
      <4>1. ch = "commands" /\ Seen(ingress["commands"])
        BY <2>2, <3>1 DEF IInv, WatchInv
      <4>2. /\ watched = {"queued"} /\ \A w \in Worker : ~Seen(inbox[w])
            /\ Once(ingress["commands"]) /\ \A q \in Listener : ~Seen(inbox[q])
            /\ \A c \in Channel \ {"commands"} : ~Seen(ingress[c])
        BY <4>1 DEF IInv, WatchInv
      <4>3. /\ ~Seen(ingress'["commands"]) /\ Once(ingress'["commands"])
            /\ \A c \in Channel \ {"commands"} : ~Seen(ingress'[c])
            /\ \A q \in Listener : ~Seen(inbox'[q])
        BY <1>0, <2>2, <2>3, <2>5, <3>1, <4>1, <4>2
      <4>4. CASE Rejected(targets)
        <5>1. watched' = {"queued", "rejected"} /\ \A w \in Worker : ~Seen(inbox'[w])
          BY <1>0, <2>4, <2>5, <3>1, <4>2, <4>4
        <5> QED
          BY <4>3, <5>1, SMT DEF WatchInv
      <4>5. CASE ~Rejected(targets)
        <5>1. watched' = {"queued"} /\ \E w \in Worker : Seen(inbox'[w])
          BY <2>4, <2>5, <3>1, <4>2, <4>5
        <5> QED
          BY <4>3, <5>1 DEF WatchInv
      <4> QED
        BY <4>4, <4>5
    <3>2. CASE ~f.watched
      <4>1. /\ watched' = watched /\ \A s \in Subscriber : Seen(inbox'[s]) <=> Seen(inbox[s])
            /\ \A c \in Channel : Seen(ingress'[c]) <=> Seen(ingress[c])
        BY <2>2, <2>3, <2>4, <2>5, <3>2
      <4>2. Once(ingress'["commands"])
        BY <1>0, <2>2, <2>3 DEF IInv, WatchInv
      <4> QED
        BY <1>0, <4>1, <4>2 DEF IInv, WatchInv
    <3> QED
      BY <3>1, <3>2
  <2> QED
    BY <1>1, <2>6, <2>7, <2>8 DEF IInv
<1> QED
  BY <1>2, <1>3

LEMMA TurnStep == ASSUME IInv, Turn PROVE IInv'
<1>1. UNCHANGED <<ingress, inbox, call, watched>>
  BY DEF Turn
<1>2. PICK pc \in {"commands", "stopped"} : task' = [task EXCEPT !.pc = pc]
  BY DEF Turn
<1>3. task' \in [pc : Channel \cup {"top", "stopped"}, drained : Nat] /\ task'.drained = task.drained
  BY <1>2 DEF IInv, Shape, Channel, Routed
<1>4. WatchInv'
  BY <1>1, WatchStays DEF IInv
<1> QED
  BY <1>1, <1>3, <1>4 DEF IInv, Shape, TypeOK, CallInv

LEMMA StepHolds == IInv /\ [Next]_vars => IInv'
<1> SUFFICES ASSUME IInv, [Next]_vars PROVE IInv'
  OBVIOUS
<1>1. CASE UNCHANGED vars
  BY <1>1 DEF vars, IInv, Shape, TypeOK, CallInv, WatchInv
<1>2. CASE Next
  BY <1>2, BeginStep, AttemptStep, TakeStep, ListenStep, DrainStep, TurnStep DEF Next, BusTask
<1> QED
  BY <1>1, <1>2

LEMMA Invariance == Spec => []IInv
  BY InitHolds, StepHolds, PTL DEF Spec

\* Types: no ingress or inbox exceeds its capacity, and no required publish
\* sleeps longer than its budget.
THEOREM TypeCorrect == Spec => []TypeOK
<1>1. IInv => TypeOK
  BY DEF IInv
<1> QED
  BY <1>1, Invariance, PTL

\* No command is both executed by a worker and answered DeliveryRejected.
THEOREM CommandHasOneVerdict == Spec => []OneVerdict
<1>1. IInv => OneVerdict
  BY DEF IInv, WatchInv, OneVerdict
<1> QED
  BY <1>1, Invariance, PTL

\* A command the ingress accepted is queued, in an inbox, executed or rejected:
\* deliver_to_targets and dispatch_command lose none.
THEOREM CommandsDoNotVanish == Spec => []NoCommandVanishes
<1>1. IInv => NoCommandVanishes
  BY DEF IInv, WatchInv, NoCommandVanishes, Seen
<1> QED
  BY <1>1, Invariance, PTL

\* Both together: a command the ingress accepted waits, is executed or is
\* rejected, and only one of these in the end (drain_commands,
\* inject_delivery_rejected).
THEOREM CommandHasOneFate == Spec => []CommandAccounted
<1>1. OneVerdict /\ NoCommandVanishes => CommandAccounted
  BY DEF CommandAccounted
<1> QED
  BY <1>1, CommandHasOneVerdict, CommandsDoNotVanish, PTL

----------------------------------------------------------------------------
(***************************************************************************)
(* ConsoleSafe, for every number of loggers and of slots.  A ticket is     *)
(* named by the place of its line in `queued`: Ticket(f, i) is the ticket  *)
(* of the line behind i others when the counter began at f.  The theorem   *)
(* is about a stretch of fewer than TicketSpace lines (2^32 in the code):  *)
(* beyond that a logger that slept between its load of the tail and its    *)
(* exchange could find the counter come round to the value it loaded.      *)
(***************************************************************************)
NoLap == Len(queued) < TicketSpace

Slots == 0 .. (ConsoleSlots - 1)
Line == (Loggers \X Nat) \cup {None}
Halves == [1 .. 2 -> Line]
LoggerRecords ==
    [pc : {"rest", "head", "tail", "swap", "mark", "fill1", "fill2", "publish"}, urgent : BOOLEAN,
     head : Nat, tail : Nat, tries : Nat, line : Line]
WriterRecords == [pc : {"look", "copy1", "copy2", "free", "advance"}, head : Nat, got : Halves]

TypeInv ==
    /\ state \in [Slots -> {"empty", "writing", "ready"}]
    /\ bytes \in [Slots -> Halves]
    /\ loggers \in [Loggers -> LoggerRecords]
    /\ writer \in WriterRecords
    /\ toLog \in [Loggers -> Seq(BOOLEAN)]
    /\ queued \in Seq(Line) /\ printed \in Seq(Halves)
    /\ aliased \in BOOLEAN

Ticket(f, i) == IF f + i < TicketSpace THEN f + i ELSE f + i - TicketSpace
Slot(f, i) == SlotOf(Ticket(f, i))
Waiting == Len(printed) .. (Len(queued) - 1)

\* The two tickets count the lines taken and the lines printed.
CountInv(f) ==
    /\ Len(printed) <= Len(queued) /\ Len(queued) - Len(printed) <= ConsoleSlots
    /\ head = Ticket(f, Len(printed)) /\ tail = Ticket(f, Len(queued))

\* What a logger loaded was true of some earlier moment, the head's before the tail's.
LoadedInv(f) ==
    \A l \in Loggers :
       /\ loggers[l].pc \in {"tail", "swap"} =>
             \E p \in 0 .. Len(printed) : loggers[l].head = Ticket(f, p)
       /\ loggers[l].pc = "swap" =>
             \E p \in 0 .. Len(printed) : \E q \in p .. Len(queued) :
                 loggers[l].tail = Ticket(f, q) /\ q - p < ConsoleSlots

FillsAt(f, l, i) ==
    /\ loggers[l].tail = Ticket(f, i) /\ loggers[l].line = queued[i + 1]
    /\ state[Slot(f, i)] = IF loggers[l].pc = "mark" THEN "empty" ELSE "writing"
    /\ loggers[l].pc \in {"fill2", "publish"} => bytes[Slot(f, i)][1] = queued[i + 1]
    /\ loggers[l].pc = "publish" => bytes[Slot(f, i)][2] = queued[i + 1]

\* While no two tickets in flight share a slot, each slot is where its ticket says.
FillInv(f) ==
    /\ \A l \in Filling : \E i \in Waiting : FillsAt(f, l, i)
    /\ \A l, k \in Filling : l # k => loggers[l].tail # loggers[k].tail
ReadyInv(f) ==
    \A i \in Waiting : state[Slot(f, i)] = "ready" =>
        bytes[Slot(f, i)][1] = queued[i + 1] /\ bytes[Slot(f, i)][2] = queued[i + 1]
UsedInv(f) == \A s \in Slots : state[s] # "empty" => \E i \in Waiting : s = Slot(f, i)
ApartInv(f) == \A i, j \in Waiting : i # j => Slot(f, i) # Slot(f, j)
WriterInv ==
    writer.pc # "look" =>
        /\ writer.head = head /\ Len(printed) < Len(queued)
        /\ state[SlotOf(head)] = IF writer.pc = "advance" THEN "empty" ELSE "ready"
        /\ writer.pc # "copy1" => writer.got[1] = queued[Len(printed) + 1]
        /\ writer.pc \in {"free", "advance"} => writer.got[2] = queued[Len(printed) + 1]
        /\ writer.pc = "advance" => \A l \in Filling : loggers[l].tail # head
PrintedInv == \A i \in 1 .. Len(printed) : printed[i] = <<queued[i], queued[i]>>
SlotInv(f) == FillInv(f) /\ ReadyInv(f) /\ UsedInv(f) /\ ApartInv(f) /\ WriterInv /\ PrintedInv

Inv(f) ==
    /\ TypeInv /\ CountInv(f) /\ LoadedInv(f)
    /\ aliased => tail < head
    /\ ~aliased => SlotInv(f)
ConsoleIInv == \E f \in 0 .. (TicketSpace - 1) : Inv(f)

-----------------------------------------------------------------------------
\* Tickets of one stretch, and slots.

LEMMA Sizes == /\ ConsoleSlots \in Nat \ {0} /\ TicketSpace \in Nat \ {0} /\ ConsoleSlots < TicketSpace
               /\ ReservedSlots \in Nat /\ ReserveAttempts \in Nat
  BY ConsoleAssumption, SMT

LEMMA ModTwice ==
    ASSUME NEW n \in Nat \ {0}, NEW x \in Nat, x < 2 * n
    PROVE  x % n = IF x < n THEN x ELSE x - n
<1>1. CASE x < n
  BY <1>1, SMT
<1>2. CASE x >= n
  <2>1. x - n \in 0 .. n - 1
    BY <1>2, SMT
  <2> QED BY <2>1, <1>2, SMT
<1> QED BY <1>1, <1>2, SMT

\* A smaller distance than the modulus is seen.
LEMMA ModApart ==
    ASSUME NEW n \in Nat \ {0}, NEW a \in Nat, NEW b \in Nat, a < b, b - a < n
    PROVE  a % n # b % n
<1> SUFFICES ASSUME a % n = b % n PROVE FALSE
  OBVIOUS
<1> DEFINE p == a \div n  q == b \div n  r == a % n
<1>1. p \in Int /\ q \in Int /\ r \in 0 .. n - 1 /\ a = n * p + r /\ b = n * q + r
  BY SMT
<1> HIDE DEF p, q, r
<1>2. b - a = n * (q - p)
  BY <1>1, SMT
<1>3. CASE q <= p
  <2>1. n * (q - p) <= 0
    BY <1>1, <1>3, SMT
  <2> QED BY <2>1, <1>2, SMT
<1>4. CASE q > p
  <2>1. n * (q - p) >= n
    BY <1>1, <1>4, SMT
  <2> QED BY <2>1, <1>2, SMT
<1> QED BY <1>1, <1>3, <1>4, SMT

LEMMA TicketFacts ==
    ASSUME NEW f \in 0 .. (TicketSpace - 1)
    PROVE  /\ \A i \in 0 .. (TicketSpace - 1) :
                 Ticket(f, i) \in 0 .. (TicketSpace - 1) /\ Ticket(f, i) \in Nat /\ Slot(f, i) \in Slots
           /\ \A i, j \in 0 .. (TicketSpace - 1) : Ticket(f, i) = Ticket(f, j) => i = j
<1> USE Sizes
<1>1. \A i \in 0 .. (TicketSpace - 1) : Ticket(f, i) \in 0 .. (TicketSpace - 1)
  BY SMT DEF Ticket
<1>2. \A n \in Nat : n % ConsoleSlots \in Slots
  BY SMT DEF Slots
<1>3. \A i \in 0 .. (TicketSpace - 1) : Slot(f, i) \in Slots
  BY <1>1, <1>2, SMT DEF Slot, SlotOf
<1>4. \A i, j \in 0 .. (TicketSpace - 1) : Ticket(f, i) = Ticket(f, j) => i = j
  BY SMT DEF Ticket
<1> QED BY <1>1, <1>3, <1>4, SMT

LEMMA TicketApart ==
    ASSUME NEW f \in 0 .. (TicketSpace - 1), NEW i \in Nat, NEW j \in Nat, i < TicketSpace, j < TicketSpace,
           Ticket(f, i) = Ticket(f, j)
    PROVE  i = j
<1>1. i \in 0 .. (TicketSpace - 1) /\ j \in 0 .. (TicketSpace - 1)
  BY Sizes, SMT
<1> QED BY <1>1, TicketFacts

LEMMA IncTicket ==
    ASSUME NEW f \in 0 .. (TicketSpace - 1), NEW i \in Nat, i + 1 < TicketSpace
    PROVE  Inc(Ticket(f, i)) = Ticket(f, i + 1)
<1> USE Sizes
<1> DEFINE x == Ticket(f, i) + 1
<1>1. x \in Nat /\ x < 2 * TicketSpace
  BY SMT DEF Ticket
<1>2. x % TicketSpace = IF x < TicketSpace THEN x ELSE x - TicketSpace
  <2> HIDE DEF x
  <2> QED BY <1>1, ModTwice
<1> QED BY <1>2, SMT DEF Inc, Ticket

LEMMA MinusTicket ==
    ASSUME NEW f \in 0 .. (TicketSpace - 1), NEW p \in Nat, NEW q \in Nat, p <= q, q < TicketSpace
    PROVE  Minus(Ticket(f, q), Ticket(f, p)) = q - p
<1> USE Sizes
<1> DEFINE x == Ticket(f, q) + TicketSpace - Ticket(f, p)
<1>1. x \in Nat /\ x < 2 * TicketSpace
  BY SMT DEF Ticket
<1>2. x % TicketSpace = IF x < TicketSpace THEN x ELSE x - TicketSpace
  <2> HIDE DEF x
  <2> QED BY <1>1, ModTwice
<1> QED BY <1>2, SMT DEF Minus, Ticket

\* The tickets in flight are those of the lines not yet printed.
LEMMA FlightIs ==
    ASSUME NEW f \in 0 .. (TicketSpace - 1), TypeInv, CountInv(f), NoLap
    PROVE  InFlight = {Ticket(f, i) : i \in Waiting}
<1> USE Sizes
<1> DEFINE P == Len(printed)  Q == Len(queued)
<1>1. P \in Nat /\ Q \in Nat /\ P <= Q /\ Q < TicketSpace /\ head = Ticket(f, P) /\ tail = Ticket(f, Q)
  BY SMT DEF TypeInv, CountInv, NoLap
<1> HIDE DEF P, Q
<1>2. Minus(tail, head) = Q - P
  BY <1>1, MinusTicket
<1>3. ASSUME NEW k \in 0 .. (Q - P - 1) PROVE (head + k) % TicketSpace = Ticket(f, P + k)
  <2> DEFINE x == head + k
  <2>1. x \in Nat /\ x < 2 * TicketSpace
    BY <1>1, SMT DEF Ticket
  <2>2. x % TicketSpace = IF x < TicketSpace THEN x ELSE x - TicketSpace
    <3> HIDE DEF x
    <3> QED BY <2>1, ModTwice
  <2> QED BY <1>1, <2>2, SMT DEF Ticket
<1>4. \A k \in 0 .. (Q - P - 1) : P + k \in P .. Q - 1
  BY <1>1, SMT
<1>5. \A i \in P .. Q - 1 : i - P \in 0 .. (Q - P - 1) /\ P + (i - P) = i
  BY <1>1, SMT
<1>6. InFlight = {(head + k) % TicketSpace : k \in 0 .. (Q - P - 1)}
  BY <1>2 DEF InFlight
<1>7. InFlight \subseteq {Ticket(f, i) : i \in P .. Q - 1}
  BY <1>3, <1>4, <1>6
<1>8. {Ticket(f, i) : i \in P .. Q - 1} \subseteq InFlight
  <2> SUFFICES ASSUME NEW i \in P .. Q - 1 PROVE Ticket(f, i) \in InFlight
    OBVIOUS
  <2>1. PICK k \in 0 .. (Q - P - 1) : P + k = i
    BY <1>5
  <2> QED BY <2>1, <1>3, <1>6
<1> QED BY <1>7, <1>8 DEF Waiting, P, Q

-----------------------------------------------------------------------------
\* A logger that holds no ticket, before the step and after it, disturbs no slot.

LoadedBy(f, r, p, q) ==
    /\ r.pc \in {"tail", "swap"} => \E h \in 0 .. p : r.head = Ticket(f, h)
    /\ r.pc = "swap" => \E h \in 0 .. p : \E t \in h .. q : r.tail = Ticket(f, t) /\ t - h < ConsoleSlots

Holding == {"mark", "fill1", "fill2", "publish"}

LEMMA LoadedIs == ASSUME NEW f
                  PROVE  LoadedInv(f) <=> \A l \in Loggers : LoadedBy(f, loggers[l], Len(printed), Len(queued))
  BY DEF LoadedInv, LoadedBy

LEMMA OutsideTheQueue ==
    ASSUME NEW f \in 0 .. (TicketSpace - 1), Inv(f), ~aliased,
           NEW l \in Loggers, NEW r \in LoggerRecords, l \notin Filling, r.pc \notin Holding,
           LoadedBy(f, r, Len(printed), Len(queued)),
           loggers' = [loggers EXCEPT ![l] = r], toLog' \in [Loggers -> Seq(BOOLEAN)],
           UNCHANGED <<head, tail, state, bytes, writer, queued, printed, aliased>>
    PROVE  Inv(f)'
<1>1. TypeInv'
  BY DEF Inv, TypeInv
<1>2. Filling' = Filling /\ \A k \in Filling : loggers'[k] = loggers[k]
  BY DEF Inv, TypeInv, Filling, Holding
<1>3. CountInv(f)' /\ Waiting' = Waiting
  BY DEF Inv, CountInv, Waiting
<1>4. LoadedInv(f)'
  <2>1. \A k \in Loggers : LoadedBy(f, loggers'[k], Len(printed), Len(queued))
    BY LoadedIs DEF Inv, TypeInv
  <2> QED BY <2>1 DEF LoadedBy, LoadedInv
<1>5. FillInv(f)'
  BY <1>2, <1>3, SMT DEF Inv, SlotInv, FillInv, FillsAt
<1>6. ReadyInv(f)' /\ UsedInv(f)' /\ ApartInv(f)' /\ PrintedInv'
  BY <1>3 DEF Inv, SlotInv, ReadyInv, UsedInv, ApartInv, PrintedInv
<1>7. WriterInv'
  BY <1>2 DEF Inv, SlotInv, WriterInv
<1> QED
  BY <1>1, <1>3, <1>4, <1>5, <1>6, <1>7 DEF Inv, SlotInv

LEMMA RestingOK == Resting \in LoggerRecords /\ Resting.pc = "rest"
  BY DEF Resting, LoggerRecords, Line

LEMMA WriteStep ==
    ASSUME NEW f \in 0 .. (TicketSpace - 1), Inv(f), ~aliased, NEW l \in Loggers, try_write(l)
    PROVE  Inv(f)'
<1>0. toLog \in [Loggers -> Seq(BOOLEAN)] /\ toLog[l] # <<>> /\ toLog[l] \in Seq(BOOLEAN)
  BY DEF Inv, TypeInv, try_write
<1>1. Tail(toLog[l]) \in Seq(BOOLEAN) /\ Head(toLog[l]) \in BOOLEAN /\ Len(toLog[l]) \in Nat
  BY <1>0, SMT
<1>2. toLog' \in [Loggers -> Seq(BOOLEAN)]
  BY <1>0, <1>1 DEF try_write
<1>3. l \notin Filling /\ loggers[l] \in LoggerRecords /\ loggers[l].pc = "rest"
  BY DEF Inv, TypeInv, try_write, At, Filling
<1>4. CASE installed
  <2> DEFINE r == [Resting EXCEPT !.pc = "head", !.urgent = Head(toLog[l]), !.line = <<l, Len(toLog[l])>>]
  <2>1. r \in LoggerRecords /\ r.pc = "head"
    BY <1>1 DEF Resting, LoggerRecords, Line
  <2>2. loggers' = [loggers EXCEPT ![l] = r]
    BY <1>4 DEF try_write
  <2> HIDE DEF r
  <2>3. LoadedBy(f, r, Len(printed), Len(queued)) /\ r.pc \notin Holding
    BY <2>1 DEF LoadedBy, Holding
  <2> QED
    BY <1>2, <1>3, <2>1, <2>2, <2>3, OutsideTheQueue DEF try_write
<1>5. CASE ~installed
  <2>1. loggers' = [loggers EXCEPT ![l] = loggers[l]]
    BY <1>5 DEF try_write, Inv, TypeInv
  <2>2. LoadedBy(f, loggers[l], Len(printed), Len(queued)) /\ loggers[l].pc \notin Holding
    BY <1>3 DEF LoadedBy, Holding
  <2> QED
    BY <1>2, <1>3, <2>1, <2>2, OutsideTheQueue DEF try_write
<1> QED BY <1>4, <1>5

LEMMA HeadStep ==
    ASSUME NEW f \in 0 .. (TicketSpace - 1), Inv(f), ~aliased, NEW l \in Loggers, reserve_head(l), NoLap
    PROVE  Inv(f)'
<1> DEFINE r == [loggers[l] EXCEPT !.pc = "tail", !.head = head]
<1>0. Len(printed) \in Nat /\ Len(printed) <= Len(queued) /\ Len(queued) \in Nat /\ head = Ticket(f, Len(printed))
  BY SMT DEF Inv, TypeInv, CountInv
<1>1. head \in Nat
  <2>1. Len(printed) \in 0 .. (TicketSpace - 1)
    BY <1>0, Sizes, SMT DEF NoLap
  <2> QED BY <1>0, <2>1, TicketFacts
<1>2. l \notin Filling /\ loggers[l] \in LoggerRecords /\ loggers[l].pc = "head"
  BY DEF Inv, TypeInv, reserve_head, At, Filling
<1>3. r \in LoggerRecords /\ r.pc = "tail" /\ r.head = head
  BY <1>1, <1>2 DEF LoggerRecords
<1>4. loggers' = [loggers EXCEPT ![l] = r]
  BY <1>2 DEF reserve_head, Inv, TypeInv, LoggerRecords
<1> HIDE DEF r
<1>5. LoadedBy(f, r, Len(printed), Len(queued)) /\ r.pc \notin Holding
  BY <1>0, <1>3, SMT DEF LoadedBy, Holding
<1>6. toLog' \in [Loggers -> Seq(BOOLEAN)]
  BY DEF Inv, TypeInv, reserve_head
<1> QED
  BY <1>2, <1>3, <1>4, <1>5, <1>6, OutsideTheQueue DEF reserve_head

LEMMA TailStep ==
    ASSUME NEW f \in 0 .. (TicketSpace - 1), Inv(f), ~aliased, NEW l \in Loggers, reserve_tail(l), NoLap
    PROVE  Inv(f)'
<1> USE Sizes
<1> DEFINE P == Len(printed)  Q == Len(queued)
<1>0. P \in Nat /\ P <= Q /\ Q \in Nat /\ Q < TicketSpace /\ tail = Ticket(f, Q)
  BY SMT DEF Inv, TypeInv, CountInv, NoLap
<1> HIDE DEF P, Q
<1>1. tail \in Nat
  BY <1>0, TicketFacts, SMT
<1>2. l \notin Filling /\ loggers[l] \in LoggerRecords /\ loggers[l].pc = "tail"
  BY DEF Inv, TypeInv, reserve_tail, At, Filling
<1>3. toLog' \in [Loggers -> Seq(BOOLEAN)]
  BY DEF Inv, TypeInv, reserve_tail
<1>4. PICK p \in 0 .. P : loggers[l].head = Ticket(f, p)
  BY <1>2 DEF Inv, LoadedInv, P
<1>5. CASE Minus(tail, loggers[l].head) >= depth_limit(loggers[l].urgent)
  <2>1. LoadedBy(f, Resting, Len(printed), Len(queued)) /\ Resting.pc \notin Holding
    BY RestingOK DEF LoadedBy, Holding
  <2> QED
    BY <1>2, <1>3, <1>5, <2>1, RestingOK, OutsideTheQueue DEF reserve_tail
<1>6. CASE ~(Minus(tail, loggers[l].head) >= depth_limit(loggers[l].urgent))
  <2> DEFINE r == [loggers[l] EXCEPT !.pc = "swap", !.tail = tail]
  <2>1. r \in LoggerRecords /\ r.pc = "swap" /\ r.tail = tail /\ r.head = loggers[l].head
    BY <1>1, <1>2 DEF LoggerRecords
  <2>2. loggers' = [loggers EXCEPT ![l] = r]
    BY <1>2, <1>6 DEF reserve_tail, Inv, TypeInv, LoggerRecords
  <2> HIDE DEF r
  <2>3. Minus(tail, loggers[l].head) = Q - p
    BY <1>0, <1>4, MinusTicket, SMT
  <2>4. depth_limit(loggers[l].urgent) \in Nat /\ depth_limit(loggers[l].urgent) <= ConsoleSlots
    BY ConsoleAssumption, SMT DEF depth_limit
  <2>5. Q - p < ConsoleSlots /\ Q \in p .. Q
    BY <1>0, <1>6, <2>3, <2>4, SMT
  <2>6. LoadedBy(f, r, P, Q) /\ r.pc \notin Holding
    BY <1>0, <1>4, <2>1, <2>5 DEF LoadedBy, Holding
  <2> QED
    BY <1>2, <1>3, <1>6, <2>1, <2>2, <2>6, OutsideTheQueue DEF reserve_tail, P, Q
<1> QED BY <1>5, <1>6

-----------------------------------------------------------------------------
\* The exchange that takes a ticket.

\* Two tickets of one slot mean that the counter wrapped between them.
LEMMA AliasNeedsWrap ==
    ASSUME NEW f \in 0 .. (TicketSpace - 1), NEW p \in Nat, NEW q \in Nat, p <= q,
           q + 1 - p <= ConsoleSlots, q + 1 < TicketSpace, Aliased({Ticket(f, i) : i \in p .. q})
    PROVE  Ticket(f, q + 1) < Ticket(f, p)
<1> USE Sizes
<1>1. PICK i \in p .. q, j \in p .. q : Ticket(f, i) # Ticket(f, j) /\ Slot(f, i) = Slot(f, j)
  BY DEF Aliased, Slot
<1> SUFFICES ASSUME ~(Ticket(f, q + 1) < Ticket(f, p)) PROVE FALSE
  OBVIOUS
<1>2. f + q + 1 < TicketSpace \/ f + p >= TicketSpace
  BY SMT DEF Ticket
<1>3. \A a, b \in p .. q : a < b =>
         /\ Ticket(f, a) \in Nat /\ Ticket(f, b) \in Nat /\ Ticket(f, a) < Ticket(f, b)
         /\ Ticket(f, b) - Ticket(f, a) < ConsoleSlots
  BY <1>2, SMT DEF Ticket
<1>4. \A a, b \in p .. q : a < b => Slot(f, a) # Slot(f, b)
  BY <1>3, ModApart DEF Slot, SlotOf
<1> QED BY <1>1, <1>4, SMT

LEMMA SwapTakes ==
    ASSUME NEW f \in 0 .. (TicketSpace - 1), Inv(f), ~aliased, NEW l \in Loggers,
           reserve_swap(l), tail = loggers[l].tail, NoLap, NoLap'
    PROVE  Inv(f)'
<1> USE Sizes
<1> DEFINE P == Len(printed)  Q == Len(queued)
<1>0. /\ P \in Nat /\ P <= Q /\ Q \in Nat /\ Q < TicketSpace /\ head = Ticket(f, P) /\ tail = Ticket(f, Q)
      /\ queued \in Seq(Line)
  BY SMT DEF Inv, TypeInv, CountInv, NoLap
<1>1. /\ tail' = Inc(tail) /\ queued' = Append(queued, loggers[l].line)
      /\ loggers' = [loggers EXCEPT ![l].pc = "mark"]
      /\ aliased' <=> Aliased(InFlight \cup {tail})
      /\ UNCHANGED <<head, state, bytes, writer, toLog, printed>>
  BY DEF reserve_swap
<1>2. loggers[l] \in LoggerRecords /\ loggers[l].pc = "swap"
  BY DEF Inv, TypeInv, reserve_swap, At
<1>3. /\ loggers' \in [Loggers -> LoggerRecords] /\ loggers'[l].pc = "mark"
      /\ loggers'[l].tail = tail /\ loggers'[l].line = loggers[l].line
      /\ \A k \in Loggers \ {l} : loggers'[k] = loggers[k]
  BY <1>1, <1>2 DEF Inv, TypeInv, LoggerRecords
<1>4. /\ queued' \in Seq(Line) /\ Len(queued') = Q + 1 /\ queued'[Q + 1] = loggers[l].line
      /\ \A i \in 1 .. Q : queued'[i] = queued[i]
  BY <1>0, <1>1, <1>2, SMT DEF LoggerRecords
<1>5. TypeInv'
  <2>1. aliased' \in BOOLEAN
    BY DEF reserve_swap, Inv, TypeInv
  <2> QED BY <1>1, <1>3, <1>4, <2>1 DEF Inv, TypeInv
<1>6. Q + 1 < TicketSpace
  BY <1>4 DEF NoLap
<1>7. Waiting = P .. (Q - 1) /\ Waiting' = P .. Q
  BY <1>0, <1>1, <1>4, SMT DEF Waiting
<1> HIDE DEF P, Q
<1>8. Q + 1 - P <= ConsoleSlots
  <2>1. PICK p \in 0 .. P : \E q \in p .. Q : loggers[l].tail = Ticket(f, q) /\ q - p < ConsoleSlots
    BY <1>2 DEF Inv, LoadedInv, P, Q
  <2>2. PICK q \in p .. Q : loggers[l].tail = Ticket(f, q) /\ q - p < ConsoleSlots
    BY <2>1
  <2>3. q = Q
    <3>1. q \in Nat /\ q < TicketSpace
      BY <1>0, SMT
    <3>2. Ticket(f, q) = Ticket(f, Q)
      BY <1>0, <2>2
    <3> QED BY <1>0, <3>1, <3>2, TicketApart
  <2> QED BY <1>0, <2>2, <2>3, SMT
<1>9. CountInv(f)'
  <2>1. tail' = Ticket(f, Q + 1)
    BY <1>0, <1>1, <1>6, IncTicket
  <2> QED BY <1>0, <1>1, <1>4, <1>8, <2>1, SMT DEF CountInv, P
<1>10. LoadedInv(f)'
  <2> SUFFICES ASSUME NEW k \in Loggers PROVE LoadedBy(f, loggers'[k], P, Q + 1)
    BY <1>1, <1>4 DEF LoadedInv, LoadedBy, P
  <2>1. CASE k = l
    BY <1>3, <2>1 DEF LoadedBy
  <2>2. CASE k # l
    <3>1. LoadedBy(f, loggers[k], P, Q)
      BY LoadedIs DEF Inv, P, Q
    <3>2. \A h \in 0 .. P : \A t \in h .. Q : t \in h .. (Q + 1)
      BY <1>0, SMT
    <3> QED BY <1>3, <2>2, <3>1, <3>2 DEF LoadedBy
  <2> QED BY <2>1, <2>2
<1>11. InFlight \cup {tail} = {Ticket(f, i) : i \in P .. Q}
  <2>1. InFlight = {Ticket(f, i) : i \in P .. (Q - 1)}
    BY <1>7, FlightIs DEF Inv
  <2>2. P .. Q = P .. (Q - 1) \cup {Q}
    BY <1>0, SMT
  <2> QED BY <1>0, <2>1, <2>2
<1>12. aliased' => tail' < head'
  <2>1. tail' = Ticket(f, Q + 1)
    BY <1>0, <1>1, <1>6, IncTicket
  <2> QED BY <1>0, <1>1, <1>6, <1>8, <1>11, <2>1, AliasNeedsWrap
<1>13. ASSUME ~aliased' PROVE SlotInv(f)'
  <2>1. \A i, j \in P .. Q : i # j => Slot(f, i) # Slot(f, j)
    <3> SUFFICES ASSUME NEW i \in P .. Q, NEW j \in P .. Q, i # j PROVE Slot(f, i) # Slot(f, j)
      OBVIOUS
    <3>1. Ticket(f, i) # Ticket(f, j)
      BY <1>0, TicketApart, SMT
    <3>2. ~Aliased({Ticket(f, k) : k \in P .. Q})
      BY <1>1, <1>11, <1>13
    <3> QED BY <3>1, <3>2 DEF Aliased, Slot
  <2>2. state[Slot(f, Q)] = "empty"
    <3>1. Slot(f, Q) \in Slots
      BY <1>0, TicketFacts, SMT
    <3>2. \A i \in P .. (Q - 1) : i \in P .. Q /\ i # Q /\ Q \in P .. Q
      BY <1>0, SMT
    <3>3. \A i \in Waiting : Slot(f, Q) # Slot(f, i)
      BY <1>7, <2>1, <3>2
    <3> QED BY <3>1, <3>3 DEF Inv, SlotInv, UsedInv
  <2>3. Filling' = Filling \cup {l} /\ l \notin Filling
    BY <1>2, <1>3 DEF Filling
  <2>4. \A i \in Waiting : i \in Waiting' /\ i + 1 \in 1 .. Q
    BY <1>0, <1>7, SMT
  <2>5. FillInv(f)'
    <3>1. ASSUME NEW k \in Filling PROVE \E i \in Waiting : loggers[k].tail = Ticket(f, i) /\ FillsAt(f, k, i)'
      <4>1. PICK i \in Waiting : FillsAt(f, k, i)
        BY DEF Inv, SlotInv, FillInv
      <4>2. loggers'[k] = loggers[k] /\ queued'[i + 1] = queued[i + 1]
        BY <1>3, <1>4, <2>3, <2>4 DEF Filling
      <4>3. FillsAt(f, k, i)'
        BY <1>1, <4>1, <4>2 DEF FillsAt
      <4> QED BY <4>1, <4>3 DEF FillsAt
    <3>2. \A n \in Nat : n = Q => FillsAt(f, l, n)'
      BY <1>0, <1>1, <1>3, <1>4, <2>2 DEF FillsAt
    <3>3. Q \in Waiting'
      BY <1>0, <1>7, SMT
    <3>4. \A k \in Filling' : \E i \in Waiting' : FillsAt(f, k, i)'
      BY <1>0, <2>3, <2>4, <3>1, <3>2, <3>3
    <3>5. ASSUME NEW k \in Filling PROVE loggers[k].tail # tail
      <4>1. PICK i \in P .. (Q - 1) : loggers[k].tail = Ticket(f, i)
        BY <1>7, <3>1
      <4> QED BY <1>0, <4>1, TicketApart, SMT
    <3>6. \A k \in Filling : k \in Loggers \ {l} /\ loggers'[k].tail = loggers[k].tail
      BY <1>3, <2>3 DEF Filling
    <3>7. \A k, m \in Filling' : k # m => loggers'[k].tail # loggers'[m].tail
      BY <1>3, <2>3, <3>5, <3>6, SMT DEF Inv, SlotInv, FillInv
    <3> QED BY <3>4, <3>7 DEF FillInv
  <2>6. ReadyInv(f)'
    <3> SUFFICES ASSUME NEW i \in P .. Q, state[Slot(f, i)] = "ready"
                 PROVE  bytes[Slot(f, i)][1] = queued'[i + 1] /\ bytes[Slot(f, i)][2] = queued'[i + 1]
      BY <1>1, <1>7 DEF ReadyInv
    <3>1. i # Q
      BY <2>2
    <3>2. i \in Waiting
      BY <1>0, <1>7, <3>1, SMT
    <3> QED BY <1>4, <2>4, <3>2 DEF Inv, SlotInv, ReadyInv
  <2>7. UsedInv(f)'
    BY <1>1, <2>4 DEF Inv, SlotInv, UsedInv
  <2>8. ApartInv(f)'
    BY <1>7, <2>1 DEF ApartInv
  <2>9. WriterInv'
    <3> SUFFICES ASSUME writer.pc # "look" PROVE WriterInv'
      BY <1>1 DEF WriterInv
    <3>1. P < Q
      BY DEF Inv, SlotInv, WriterInv, P, Q
    <3>2. queued'[P + 1] = queued[P + 1] /\ P < Len(queued')
      BY <1>0, <1>4, <3>1, SMT
    <3>3. tail # head
      BY <1>0, <3>1, TicketApart, SMT
    <3>4. \A k \in Filling : loggers'[k].tail = loggers[k].tail
      BY <1>3, <2>3 DEF Filling
    <3>5. writer.pc = "advance" => \A k \in Filling' : loggers'[k].tail # head
      BY <1>3, <2>3, <3>3, <3>4 DEF Inv, SlotInv, WriterInv
    <3> QED
      BY <1>1, <3>2, <3>5 DEF Inv, SlotInv, WriterInv, P
  <2>10. PrintedInv'
    <3>1. \A i \in 1 .. P : i \in 1 .. Q
      BY <1>0, SMT
    <3> QED BY <1>1, <1>4, <3>1 DEF Inv, SlotInv, PrintedInv, P
  <2> QED
    BY <2>5, <2>6, <2>7, <2>8, <2>9, <2>10 DEF SlotInv
<1> QED
  BY <1>5, <1>9, <1>10, <1>12, <1>13 DEF Inv

LEMMA SwapStep ==
    ASSUME NEW f \in 0 .. (TicketSpace - 1), Inv(f), ~aliased, NEW l \in Loggers, reserve_swap(l), NoLap, NoLap'
    PROVE  Inv(f)'
<1> USE Sizes
<1>1. CASE tail = loggers[l].tail
  BY <1>1, SwapTakes
<1>2. CASE tail # loggers[l].tail
  <2>1. l \notin Filling /\ loggers[l] \in LoggerRecords /\ loggers[l].pc = "swap"
    BY DEF Inv, TypeInv, reserve_swap, At, Filling
  <2>2. toLog' \in [Loggers -> Seq(BOOLEAN)]
    BY DEF Inv, TypeInv, reserve_swap
  <2>3. UNCHANGED <<head, tail, state, bytes, writer, queued, printed, aliased>>
    BY <1>2 DEF reserve_swap
  <2>4. CASE loggers[l].tries + 1 < ReserveAttempts
    <3> DEFINE r == [loggers[l] EXCEPT !.pc = "head", !.tries = @ + 1]
    <3>0. loggers[l].tries + 1 \in Nat
      BY <2>1, SMT DEF LoggerRecords
    <3>1. r \in LoggerRecords /\ r.pc = "head"
      BY <2>1, <3>0 DEF LoggerRecords
    <3>2. loggers' = [loggers EXCEPT ![l] = r]
      BY <1>2, <2>1, <2>4 DEF reserve_swap, Inv, TypeInv, LoggerRecords
    <3> HIDE DEF r
    <3>3. LoadedBy(f, r, Len(printed), Len(queued)) /\ r.pc \notin Holding
      BY <3>1 DEF LoadedBy, Holding
    <3> QED BY <2>1, <2>2, <2>3, <3>1, <3>2, <3>3, OutsideTheQueue
  <2>5. CASE ~(loggers[l].tries + 1 < ReserveAttempts)
    <3>1. loggers' = [loggers EXCEPT ![l] = Resting]
      BY <1>2, <2>5 DEF reserve_swap
    <3>2. LoadedBy(f, Resting, Len(printed), Len(queued)) /\ Resting.pc \notin Holding
      BY RestingOK DEF LoadedBy, Holding
    <3> QED BY <2>1, <2>2, <2>3, <3>1, <3>2, RestingOK, OutsideTheQueue
  <2> QED BY <2>4, <2>5
<1> QED BY <1>1, <1>2

-----------------------------------------------------------------------------
\* A logger at work on the slot of its ticket: every other slot stays as it is.

\* Where a logger holds its ticket, and what the slots around it are.
LEMMA HeldSlot ==
    ASSUME NEW f \in 0 .. (TicketSpace - 1), Inv(f), ~aliased, NEW l \in Filling, NoLap
    PROVE  \E i \in Waiting :
              /\ i \in Nat /\ i < TicketSpace /\ FillsAt(f, l, i) /\ PushSlot(l) = Slot(f, i) /\ Slot(f, i) \in Slots
              /\ \A j \in Waiting : j # i => Slot(f, j) # Slot(f, i)
              /\ \A k \in Filling \ {l} : \E j \in Waiting : j # i /\ FillsAt(f, k, j)
              /\ writer.pc # "look" => SlotOf(head) # Slot(f, i)
<1> USE Sizes
<1> DEFINE P == Len(printed)  Q == Len(queued)
<1>0. P \in Nat /\ P <= Q /\ Q \in Nat /\ Q < TicketSpace /\ head = Ticket(f, P) /\ Waiting = P .. (Q - 1)
  BY SMT DEF Inv, TypeInv, CountInv, NoLap, Waiting
<1>1. PICK i \in Waiting : FillsAt(f, l, i)
  BY DEF Inv, SlotInv, FillInv
<1>2. PushSlot(l) = Slot(f, i)
  BY <1>1 DEF PushSlot, FillsAt, Slot
<1>3. \A j \in Waiting : j # i => Slot(f, j) # Slot(f, i)
  BY DEF Inv, SlotInv, ApartInv
<1>4. ASSUME NEW k \in Filling \ {l} PROVE \E j \in Waiting : j # i /\ FillsAt(f, k, j)
  <2>1. PICK j \in Waiting : FillsAt(f, k, j)
    BY DEF Inv, SlotInv, FillInv
  <2>2. loggers[k].tail # loggers[l].tail
    BY DEF Inv, SlotInv, FillInv
  <2>3. j # i
    BY <1>1, <2>1, <2>2 DEF FillsAt
  <2> QED BY <2>1, <2>3
<1>5. ASSUME writer.pc # "look" PROVE SlotOf(head) # Slot(f, i)
  <2> HIDE DEF P, Q
  <2>1. P < Q
    BY <1>5 DEF Inv, SlotInv, WriterInv, P, Q
  <2>2. P \in Waiting
    BY <1>0, <2>1, SMT
  <2>3. CASE i = P
    <3>1. state[SlotOf(head)] # "ready" /\ loggers[l].tail = head
      BY <1>0, <1>1, <2>3 DEF FillsAt, Slot
    <3> QED BY <1>5, <3>1 DEF Inv, SlotInv, WriterInv
  <2>4. CASE i # P
    BY <1>0, <1>3, <2>2, <2>4 DEF Slot
  <2> QED BY <2>3, <2>4
<1> HIDE DEF P, Q
<1>6. i \in Nat /\ i < TicketSpace
  BY <1>0, SMT
<1>7. Slot(f, i) \in Slots
  <2>1. i \in 0 .. (TicketSpace - 1)
    BY <1>6, SMT
  <2> QED BY <2>1, TicketFacts
<1> QED BY <1>1, <1>2, <1>3, <1>4, <1>5, <1>6, <1>7

\* A step of the logger that holds the ticket of line i, within its slot.
LEMMA InTheSlot ==
    ASSUME NEW f \in 0 .. (TicketSpace - 1), Inv(f), ~aliased, NEW l \in Filling, NEW i \in Waiting,
           Slot(f, i) \in Slots, loggers[l].tail = Ticket(f, i),
           \A j \in Waiting : j # i => Slot(f, j) # Slot(f, i),
           \A k \in Filling \ {l} : \E j \in Waiting : j # i /\ FillsAt(f, k, j),
           writer.pc # "look" => SlotOf(head) # Slot(f, i),
           NEW r \in LoggerRecords, NEW st \in {"writing", "ready"}, NEW b \in Halves,
           r.pc \notin {"tail", "swap"},
           loggers' = [loggers EXCEPT ![l] = r],
           state' = [state EXCEPT ![Slot(f, i)] = st], bytes' = [bytes EXCEPT ![Slot(f, i)] = b],
           r.pc \in Holding => r.tail = loggers[l].tail /\ FillsAt(f, l, i)',
           st = "ready" => b[1] = queued[i + 1] /\ b[2] = queued[i + 1],
           UNCHANGED <<head, tail, writer, toLog, queued, printed, aliased>>
    PROVE  Inv(f)'
<1>1. TypeInv'
  BY DEF Inv, TypeInv, Slots
<1>2. Filling' \subseteq Filling /\ \A k \in Filling \ {l} : loggers'[k] = loggers[k]
  BY DEF Inv, TypeInv, Filling
<1>3. CountInv(f)' /\ Waiting' = Waiting
  BY DEF Inv, CountInv, Waiting
<1>4. LoadedInv(f)'
  <2>1. \A k \in Loggers : k # l => loggers'[k] = loggers[k]
    BY DEF Inv, TypeInv
  <2>2. loggers'[l] = r
    BY DEF Inv, TypeInv, Filling
  <2> QED BY <2>1, <2>2 DEF Inv, LoadedInv
<1>5. \A j \in Waiting : j # i => state'[Slot(f, j)] = state[Slot(f, j)] /\ bytes'[Slot(f, j)] = bytes[Slot(f, j)]
  BY SMT DEF Inv, TypeInv
<1>6. state'[Slot(f, i)] = st /\ bytes'[Slot(f, i)] = b
  BY DEF Inv, TypeInv
<1>7. FillInv(f)'
  <2>1. ASSUME NEW k \in Filling', k # l PROVE \E j \in Waiting : FillsAt(f, k, j)'
    <3>1. PICK j \in Waiting : j # i /\ FillsAt(f, k, j)
      BY <1>2, <2>1
    <3>2. loggers'[k] = loggers[k]
      BY <1>2, <2>1
    <3>3. FillsAt(f, k, j)'
      BY <1>5, <3>1, <3>2 DEF FillsAt
    <3> QED BY <3>3
  <2>2. ASSUME l \in Filling' PROVE FillsAt(f, l, i)' /\ loggers'[l].tail = loggers[l].tail
    BY <2>2 DEF Filling, Holding, Inv, TypeInv
  <2>3. \A k \in Filling' : \E j \in Waiting' : FillsAt(f, k, j)'
    BY <1>3, <2>1, <2>2
  <2>4. \A k \in Filling' : k \in Filling /\ loggers'[k].tail = loggers[k].tail
    BY <1>2, <2>2
  <2>5. \A k, m \in Filling' : k # m => loggers'[k].tail # loggers'[m].tail
    BY <2>4 DEF Inv, SlotInv, FillInv
  <2> QED BY <2>3, <2>5 DEF FillInv
<1>8. ReadyInv(f)'
  <2> SUFFICES ASSUME NEW j \in Waiting, state'[Slot(f, j)] = "ready"
               PROVE  bytes'[Slot(f, j)][1] = queued[j + 1] /\ bytes'[Slot(f, j)][2] = queued[j + 1]
    BY <1>3 DEF ReadyInv
  <2>1. CASE j = i
    BY <1>6, <2>1
  <2>2. CASE j # i
    BY <1>5, <2>2 DEF Inv, SlotInv, ReadyInv
  <2> QED BY <2>1, <2>2
<1>9. UsedInv(f)'
  BY <1>3 DEF Inv, TypeInv, SlotInv, UsedInv
<1>10. ApartInv(f)' /\ PrintedInv'
  BY <1>3 DEF Inv, SlotInv, ApartInv, PrintedInv
<1>11. WriterInv'
  <2> SUFFICES ASSUME writer.pc # "look" PROVE WriterInv'
    BY DEF WriterInv
  <2>1. state'[SlotOf(head)] = state[SlotOf(head)]
    BY SMT DEF Inv, TypeInv
  <2>2. \A k \in Filling' : k \in Filling /\ loggers'[k].tail = loggers[k].tail
    <3>1. l \in Filling' => loggers'[l].tail = loggers[l].tail
      BY DEF Filling, Holding, Inv, TypeInv
    <3> QED BY <1>2, <3>1
  <2> QED BY <2>1, <2>2 DEF Inv, SlotInv, WriterInv
<1> QED
  BY <1>1, <1>3, <1>4, <1>7, <1>8, <1>9, <1>10, <1>11 DEF Inv, SlotInv

LEMMA MarkStep ==
    ASSUME NEW f \in 0 .. (TicketSpace - 1), Inv(f), ~aliased, NEW l \in Loggers, try_push_mark(l), NoLap
    PROVE  Inv(f)'
<1> DEFINE r == [loggers[l] EXCEPT !.pc = "fill1"]
<1>1. l \in Filling /\ loggers[l] \in LoggerRecords /\ loggers[l].pc = "mark"
  BY DEF Inv, TypeInv, try_push_mark, At, Filling
<1>2. PICK i \in Waiting :
         /\ FillsAt(f, l, i) /\ PushSlot(l) = Slot(f, i) /\ Slot(f, i) \in Slots
         /\ \A j \in Waiting : j # i => Slot(f, j) # Slot(f, i)
         /\ \A k \in Filling \ {l} : \E j \in Waiting : j # i /\ FillsAt(f, k, j)
         /\ writer.pc # "look" => SlotOf(head) # Slot(f, i)
  BY <1>1, HeldSlot
<1>3. r \in LoggerRecords /\ r.pc = "fill1" /\ r.tail = loggers[l].tail /\ r.line = loggers[l].line
  BY <1>1 DEF LoggerRecords
<1>4. /\ loggers' = [loggers EXCEPT ![l] = r] /\ state' = [state EXCEPT ![Slot(f, i)] = "writing"]
      /\ UNCHANGED <<head, tail, bytes, writer, toLog, queued, printed, aliased>>
  BY <1>1, <1>2 DEF try_push_mark, Inv, TypeInv, LoggerRecords
<1> DEFINE b == bytes[Slot(f, i)]
<1>5. b \in Halves /\ bytes' = [bytes EXCEPT ![Slot(f, i)] = b]
  BY <1>2, <1>4 DEF Inv, TypeInv
<1> HIDE DEF r, b
<1>6. loggers'[l] = r /\ state'[Slot(f, i)] = "writing"
  BY <1>2, <1>4 DEF Inv, TypeInv
<1>7. FillsAt(f, l, i)'
  BY <1>2, <1>3, <1>4, <1>6 DEF FillsAt
<1>8. r.pc \notin {"tail", "swap"} /\ loggers[l].tail = Ticket(f, i)
  BY <1>2, <1>3 DEF FillsAt
<1> QED
  BY <1>1, <1>2, <1>3, <1>4, <1>5, <1>7, <1>8, InTheSlot

LEMMA FillStep ==
    ASSUME NEW f \in 0 .. (TicketSpace - 1), Inv(f), ~aliased, NEW l \in Loggers, try_push_fill(l), NoLap
    PROVE  Inv(f)'
<1> DEFINE half == IF At(l, "fill1") THEN 1 ELSE 2
           r == [loggers[l] EXCEPT !.pc = IF @ = "fill1" THEN "fill2" ELSE "publish"]
<1>1. l \in Filling /\ loggers[l] \in LoggerRecords /\ loggers[l].pc \in {"fill1", "fill2"}
  BY DEF Inv, TypeInv, try_push_fill, At, Filling
<1>2. PICK i \in Waiting :
         /\ FillsAt(f, l, i) /\ PushSlot(l) = Slot(f, i) /\ Slot(f, i) \in Slots
         /\ \A j \in Waiting : j # i => Slot(f, j) # Slot(f, i)
         /\ \A k \in Filling \ {l} : \E j \in Waiting : j # i /\ FillsAt(f, k, j)
         /\ writer.pc # "look" => SlotOf(head) # Slot(f, i)
  BY <1>1, HeldSlot
<1>3. /\ r \in LoggerRecords /\ r.tail = loggers[l].tail /\ r.line = loggers[l].line
      /\ r.pc = IF loggers[l].pc = "fill1" THEN "fill2" ELSE "publish"
  BY <1>1 DEF LoggerRecords
<1> DEFINE b == [bytes[Slot(f, i)] EXCEPT ![half] = loggers[l].line]
<1>4. loggers' = [loggers EXCEPT ![l] = r] /\ UNCHANGED <<head, tail, state, writer, toLog, queued, printed, aliased>>
  BY <1>1 DEF try_push_fill, Inv, TypeInv, LoggerRecords
<1>5. bytes' = [bytes EXCEPT ![Slot(f, i)] = b]
  BY <1>2 DEF try_push_fill, Inv, TypeInv
<1>6. /\ b \in Halves /\ half \in 1 .. 2 /\ b[half] = loggers[l].line
      /\ half = 2 => b[1] = bytes[Slot(f, i)][1]
  BY <1>1, <1>2, SMT DEF Inv, TypeInv, LoggerRecords, Halves
<1>7. state[Slot(f, i)] = "writing" /\ state' = [state EXCEPT ![Slot(f, i)] = "writing"]
  BY <1>1, <1>2, <1>4 DEF FillsAt, Inv, TypeInv
<1>8. half = IF loggers[l].pc = "fill1" THEN 1 ELSE 2
  BY DEF At
<1> HIDE DEF r, b, half
<1>9. loggers'[l] = r /\ bytes'[Slot(f, i)] = b
  BY <1>2, <1>4, <1>5 DEF Inv, TypeInv
<1>10. b[1] = queued[i + 1] /\ (half = 2 => b[2] = queued[i + 1])
  BY <1>1, <1>2, <1>6, <1>8 DEF FillsAt
<1>11. FillsAt(f, l, i)'
  BY <1>1, <1>2, <1>3, <1>4, <1>7, <1>8, <1>9, <1>10 DEF FillsAt
<1>12. r.pc \notin {"tail", "swap"} /\ loggers[l].tail = Ticket(f, i)
  BY <1>2, <1>3 DEF FillsAt
<1> QED
  BY <1>1, <1>2, <1>3, <1>4, <1>5, <1>6, <1>7, <1>11, <1>12, InTheSlot

LEMMA PublishStep ==
    ASSUME NEW f \in 0 .. (TicketSpace - 1), Inv(f), ~aliased, NEW l \in Loggers, try_push_publish(l), NoLap
    PROVE  Inv(f)'
<1>1. l \in Filling /\ loggers[l] \in LoggerRecords /\ loggers[l].pc = "publish"
  BY DEF Inv, TypeInv, try_push_publish, At, Filling
<1>2. PICK i \in Waiting :
         /\ FillsAt(f, l, i) /\ PushSlot(l) = Slot(f, i) /\ Slot(f, i) \in Slots
         /\ \A j \in Waiting : j # i => Slot(f, j) # Slot(f, i)
         /\ \A k \in Filling \ {l} : \E j \in Waiting : j # i /\ FillsAt(f, k, j)
         /\ writer.pc # "look" => SlotOf(head) # Slot(f, i)
  BY <1>1, HeldSlot
<1> DEFINE b == bytes[Slot(f, i)]
<1>3. /\ loggers' = [loggers EXCEPT ![l] = Resting] /\ state' = [state EXCEPT ![Slot(f, i)] = "ready"]
      /\ UNCHANGED <<head, tail, bytes, writer, toLog, queued, printed, aliased>>
  BY <1>1, <1>2 DEF try_push_publish
<1>4. b \in Halves /\ bytes' = [bytes EXCEPT ![Slot(f, i)] = b]
  BY <1>2, <1>3 DEF Inv, TypeInv
<1>5. b[1] = queued[i + 1] /\ b[2] = queued[i + 1] /\ loggers[l].tail = Ticket(f, i)
  BY <1>1, <1>2 DEF FillsAt
<1>6. Resting.pc \notin {"tail", "swap"} /\ Resting.pc \notin Holding
  BY RestingOK DEF Holding
<1> HIDE DEF b
<1> QED
  BY <1>1, <1>2, <1>3, <1>4, <1>5, <1>6, RestingOK, InTheSlot

-----------------------------------------------------------------------------
\* The writer.

\* A step that moves neither ticket nor slot, and leaves the loggers alone.
LEMMA WriterMoves ==
    ASSUME NEW f \in 0 .. (TicketSpace - 1), Inv(f), ~aliased, writer' \in WriterRecords, WriterInv',
           UNCHANGED <<head, tail, state, bytes, loggers, toLog, queued, printed, aliased>>
    PROVE  Inv(f)'
<1>1. TypeInv' /\ Filling' = Filling /\ Waiting' = Waiting /\ CountInv(f)' /\ LoadedInv(f)'
  BY DEF Inv, TypeInv, Filling, Waiting, CountInv, LoadedInv
<1>2. FillInv(f)'
  BY <1>1 DEF Inv, SlotInv, FillInv, FillsAt
<1>3. ReadyInv(f)' /\ UsedInv(f)' /\ ApartInv(f)' /\ PrintedInv'
  BY <1>1 DEF Inv, SlotInv, ReadyInv, UsedInv, ApartInv, PrintedInv
<1> QED
  BY <1>1, <1>2, <1>3 DEF Inv, SlotInv

LEMMA HeadIsWaiting ==
    ASSUME NEW f \in 0 .. (TicketSpace - 1), Inv(f), Len(printed) < Len(queued), NoLap
    PROVE  /\ Len(printed) \in Waiting /\ SlotOf(head) = Slot(f, Len(printed)) /\ SlotOf(head) \in Slots
           /\ Len(printed) \in Nat /\ Len(printed) < TicketSpace
<1> DEFINE P == Len(printed)  Q == Len(queued)
<1>0. P \in Nat /\ P < Q /\ Q \in Nat /\ Q < TicketSpace /\ head = Ticket(f, P) /\ Waiting = P .. (Q - 1)
  BY SMT DEF Inv, TypeInv, CountInv, NoLap, Waiting
<1> HIDE DEF P, Q
<1>1. P \in Waiting /\ P \in 0 .. (TicketSpace - 1) /\ P < TicketSpace
  BY <1>0, Sizes, SMT
<1>2. SlotOf(head) = Slot(f, P)
  BY <1>0 DEF Slot
<1>3. Slot(f, P) \in Slots
  BY <1>1, TicketFacts
<1> QED BY <1>0, <1>1, <1>2, <1>3 DEF P

LEMMA LookStep ==
    ASSUME NEW f \in 0 .. (TicketSpace - 1), Inv(f), ~aliased, try_pop_look, NoLap
    PROVE  Inv(f)'
<1>0. Len(printed) \in Nat /\ Len(queued) \in Nat /\ Len(printed) <= Len(queued)
  BY SMT DEF Inv, TypeInv, CountInv
<1>1. Len(printed) < Len(queued)
  <2>1. Len(printed) # Len(queued)
    BY DEF Inv, CountInv, try_pop_look
  <2> QED BY <1>0, <2>1, SMT
<1>2. head \in Nat
  <2>1. Len(printed) \in 0 .. (TicketSpace - 1) /\ head = Ticket(f, Len(printed))
    BY <1>0, <1>1, HeadIsWaiting, Sizes, SMT DEF Inv, CountInv
  <2> QED BY <2>1, TicketFacts
<1>3. writer' \in WriterRecords
  BY <1>2, SMT DEF try_pop_look, WriterRecords, Halves, Line
<1>4. WriterInv'
  BY <1>1 DEF try_pop_look, Published, WriterInv
<1> QED
  BY <1>3, <1>4, WriterMoves DEF try_pop_look

LEMMA CopyStep ==
    ASSUME NEW f \in 0 .. (TicketSpace - 1), Inv(f), ~aliased, try_pop_copy, NoLap
    PROVE  Inv(f)'
<1> DEFINE half == IF writer.pc = "copy1" THEN 1 ELSE 2
           line == queued[Len(printed) + 1]
<1>1. /\ writer \in WriterRecords /\ writer.pc \in {"copy1", "copy2"} /\ writer.head = head
      /\ Len(printed) < Len(queued) /\ state[SlotOf(head)] = "ready"
      /\ writer.pc = "copy2" => writer.got[1] = line
  BY DEF Inv, TypeInv, SlotInv, WriterInv, try_pop_copy
<1>2. SlotOf(head) \in Slots /\ bytes[SlotOf(head)] \in Halves
  BY <1>1, HeadIsWaiting DEF Inv, TypeInv
<1>3. bytes[SlotOf(head)][1] = line /\ bytes[SlotOf(head)][2] = line
  BY <1>1, HeadIsWaiting DEF Inv, SlotInv, ReadyInv
<1>4. line \in Line /\ half \in 1 .. 2 /\ bytes[SlotOf(head)][half] = line
  BY <1>2, <1>3, SMT DEF Halves
<1> HIDE DEF line
<1>5. /\ writer'.pc = (IF writer.pc = "copy1" THEN "copy2" ELSE "free") /\ writer'.head = head
      /\ writer'.got = [writer.got EXCEPT ![half] = line] /\ writer' \in WriterRecords
  <2>1. writer' = [writer EXCEPT !.got[half] = line, !.pc = IF @ = "copy1" THEN "copy2" ELSE "free"]
    BY <1>1, <1>4 DEF try_pop_copy
  <2>2. writer.got \in Halves
    BY <1>1 DEF WriterRecords
  <2>3. [writer.got EXCEPT ![half] = line] \in Halves
    BY <1>4, <2>2 DEF Halves
  <2> QED BY <1>1, <2>1, <2>3 DEF WriterRecords
<1>6. writer'.got[1] = line /\ (writer'.pc = "free" => writer'.got[2] = line)
  BY <1>1, <1>5, SMT DEF WriterRecords, Halves
<1>7. WriterInv'
  BY <1>1, <1>5, <1>6, SMT DEF try_pop_copy, WriterInv, line
<1> QED
  BY <1>5, <1>7, WriterMoves DEF try_pop_copy

LEMMA InstallStep ==
    ASSUME NEW f \in 0 .. (TicketSpace - 1), Inv(f), ~aliased, install PROVE Inv(f)'
<1>1. writer' \in WriterRecords /\ WriterInv'
  BY DEF install, Inv, TypeInv, SlotInv, WriterInv, Filling
<1> QED
  BY <1>1, WriterMoves DEF install

LEMMA FreeStep ==
    ASSUME NEW f \in 0 .. (TicketSpace - 1), Inv(f), ~aliased, try_pop_free, NoLap
    PROVE  Inv(f)'
<1> DEFINE h == SlotOf(head)
<1>1. /\ writer \in WriterRecords /\ writer.pc = "free" /\ writer.head = head
      /\ Len(printed) < Len(queued) /\ state[h] = "ready"
      /\ writer.got[1] = queued[Len(printed) + 1] /\ writer.got[2] = queued[Len(printed) + 1]
  BY DEF Inv, TypeInv, SlotInv, WriterInv, try_pop_free
<1>2. h \in Slots
  BY <1>1, HeadIsWaiting
<1>3. /\ state' = [state EXCEPT ![h] = "empty"] /\ writer' = [writer EXCEPT !.pc = "advance"]
      /\ UNCHANGED <<head, tail, bytes, loggers, toLog, queued, printed, aliased>>
  BY <1>1 DEF try_pop_free
<1>4. /\ writer'.pc = "advance" /\ writer'.head = head /\ writer'.got = writer.got /\ writer' \in WriterRecords
      /\ SlotOf(head') = h
  BY <1>1, <1>3 DEF WriterRecords
<1> HIDE DEF h
<1>5. TypeInv' /\ Filling' = Filling /\ Waiting' = Waiting /\ CountInv(f)' /\ LoadedInv(f)'
  BY <1>2, <1>3, <1>4 DEF Inv, TypeInv, Filling, Waiting, CountInv, LoadedInv
<1>6. \A s \in Slots : s # h => state'[s] = state[s]
  BY <1>3 DEF Inv, TypeInv
<1>7. state'[h] = "empty"
  BY <1>2, <1>3 DEF Inv, TypeInv
<1>8. ASSUME NEW l \in Filling PROVE loggers[l].tail # head /\ \E i \in Waiting : FillsAt(f, l, i)'
  <2>1. PICK i \in Waiting :
           FillsAt(f, l, i) /\ PushSlot(l) = Slot(f, i) /\ Slot(f, i) \in Slots
    BY HeldSlot
  <2>2. state[Slot(f, i)] # "ready"
    BY <2>1 DEF FillsAt
  <2>3. Slot(f, i) # h
    BY <1>1, <2>2
  <2>4. loggers[l].tail # head
    BY <2>1, <2>3 DEF PushSlot, h
  <2>5. FillsAt(f, l, i)'
    BY <1>3, <1>6, <2>1, <2>3 DEF FillsAt
  <2> QED BY <2>4, <2>5
<1>9. FillInv(f)'
  BY <1>3, <1>5, <1>8 DEF Inv, SlotInv, FillInv
<1>10. ASSUME NEW i \in Waiting PROVE Slot(f, i) \in Slots
  <2>1. i \in 0 .. (TicketSpace - 1)
    BY Sizes, SMT DEF Inv, TypeInv, CountInv, Waiting, NoLap
  <2> QED BY <2>1, TicketFacts
<1>11. ReadyInv(f)'
  BY <1>3, <1>5, <1>6, <1>7, <1>10 DEF Inv, SlotInv, ReadyInv
<1>12. UsedInv(f)'
  BY <1>5, <1>6, <1>7 DEF Inv, SlotInv, UsedInv
<1>13. ApartInv(f)' /\ PrintedInv'
  BY <1>3, <1>5 DEF Inv, SlotInv, ApartInv, PrintedInv
<1>14. WriterInv'
  BY <1>1, <1>3, <1>4, <1>5, <1>7, <1>8 DEF WriterInv
<1> QED
  BY <1>3, <1>5, <1>9, <1>11, <1>12, <1>13, <1>14 DEF Inv, SlotInv

LEMMA BothHalves == ASSUME NEW g \in Halves PROVE g = <<g[1], g[2]>>
  BY SMT DEF Halves

LEMMA AdvanceStep ==
    ASSUME NEW f \in 0 .. (TicketSpace - 1), Inv(f), ~aliased, try_pop_advance, NoLap
    PROVE  Inv(f)'
<1> USE Sizes
<1> DEFINE P == Len(printed)  Q == Len(queued)
<1>1. /\ writer \in WriterRecords /\ writer.head = head /\ P < Q /\ state[SlotOf(head)] = "empty"
      /\ writer.got[1] = queued[P + 1] /\ writer.got[2] = queued[P + 1]
      /\ \A l \in Filling : loggers[l].tail # head
  BY DEF Inv, TypeInv, SlotInv, WriterInv, try_pop_advance
<1>2. /\ P \in Nat /\ Q \in Nat /\ Q < TicketSpace /\ Q - P <= ConsoleSlots
      /\ head = Ticket(f, P) /\ tail = Ticket(f, Q) /\ printed \in Seq(Halves)
  BY SMT DEF Inv, TypeInv, CountInv, NoLap
<1>3. /\ head' = Inc(head) /\ printed' = Append(printed, writer.got) /\ writer' = [writer EXCEPT !.pc = "look"]
      /\ UNCHANGED <<tail, state, bytes, loggers, toLog, queued, aliased>>
  BY <1>1 DEF try_pop_advance
<1>4. writer'.pc = "look" /\ writer' \in WriterRecords /\ writer.got \in Halves
  BY <1>1, <1>3 DEF WriterRecords
<1>5. /\ printed' \in Seq(Halves) /\ Len(printed') = P + 1 /\ printed'[P + 1] = writer.got
      /\ \A i \in 1 .. P : printed'[i] = printed[i]
  BY <1>2, <1>3, <1>4, SMT
<1>6. TypeInv' /\ Filling' = Filling
  BY <1>3, <1>4, <1>5 DEF Inv, TypeInv, Filling
<1>7. Waiting = P .. (Q - 1) /\ Waiting' = (P + 1) .. (Q - 1)
  BY <1>3, <1>5 DEF Waiting
<1> HIDE DEF P, Q
<1>8. Waiting' \subseteq Waiting /\ \A i \in Waiting : i # P => i \in Waiting'
  BY <1>2, <1>7, SMT
<1>9. CountInv(f)'
  <2>1. head' = Ticket(f, P + 1)
    BY <1>1, <1>2, <1>3, IncTicket, SMT
  <2> QED BY <1>1, <1>2, <1>3, <1>5, <2>1, SMT DEF CountInv, Q
<1>10. LoadedInv(f)'
  <2>1. \A k \in Loggers : LoadedBy(f, loggers[k], P, Q)
    BY LoadedIs DEF Inv, P, Q
  <2>2. 0 .. P \subseteq 0 .. (P + 1)
    BY <1>2, SMT
  <2>3. \A k \in Loggers : LoadedBy(f, loggers[k], P + 1, Q)
    BY <2>1, <2>2 DEF LoadedBy
  <2> QED BY <1>3, <1>5, <2>3 DEF LoadedBy, LoadedInv, Q
<1>11. FillInv(f)'
  <2>1. ASSUME NEW l \in Filling PROVE \E i \in Waiting' : FillsAt(f, l, i)'
    <3>1. PICK i \in Waiting : FillsAt(f, l, i)
      BY DEF Inv, SlotInv, FillInv
    <3>2. i # P
      BY <1>1, <1>2, <3>1 DEF FillsAt
    <3>3. FillsAt(f, l, i)'
      BY <1>3, <3>1 DEF FillsAt
    <3> QED BY <1>8, <3>2, <3>3
  <2> QED BY <1>3, <1>6, <2>1 DEF Inv, SlotInv, FillInv
<1>12. ReadyInv(f)' /\ ApartInv(f)'
  BY <1>3, <1>8 DEF Inv, SlotInv, ReadyInv, ApartInv
<1>13. UsedInv(f)'
  <2> SUFFICES ASSUME NEW s \in Slots, state[s] # "empty" PROVE \E i \in Waiting' : s = Slot(f, i)
    BY <1>3 DEF UsedInv
  <2>1. PICK i \in Waiting : s = Slot(f, i)
    BY DEF Inv, SlotInv, UsedInv
  <2>2. i # P
    BY <1>1, <1>2, <2>1 DEF Slot
  <2> QED BY <1>8, <2>1, <2>2
<1>14. PrintedInv'
  <2>1. printed'[P + 1] = <<queued[P + 1], queued[P + 1]>>
    BY <1>1, <1>4, <1>5, BothHalves
  <2>2. \A i \in 1 .. P : printed'[i] = <<queued[i], queued[i]>>
    BY <1>5 DEF Inv, SlotInv, PrintedInv, P
  <2>3. 1 .. (P + 1) = 1 .. P \cup {P + 1}
    BY <1>2, SMT
  <2> QED BY <1>3, <1>5, <2>1, <2>2, <2>3 DEF PrintedInv
<1>15. WriterInv'
  BY <1>4 DEF WriterInv
<1> QED
  BY <1>3, <1>6, <1>9, <1>10, <1>11, <1>12, <1>13, <1>14, <1>15 DEF Inv, SlotInv

-----------------------------------------------------------------------------

LEMMA ConsoleInitHolds == ConsoleInit => ConsoleIInv
<1> SUFFICES ASSUME ConsoleInit PROVE ConsoleIInv
  OBVIOUS
<1>1. PICK s \in ConsoleScenarios : head = s.first /\ tail = s.first /\ toLog = s.lines
  BY DEF ConsoleInit
<1>2. s.first \in 0 .. (TicketSpace - 1) /\ s.lines \in [Loggers -> Seq(BOOLEAN)]
  BY ConsoleAssumption
<1>3. TypeInv
  <2>1. <<None, None>> \in Halves
    BY SMT DEF Halves, Line
  <2>2. writer \in WriterRecords
    BY <1>1, <1>2, <2>1, Sizes, SMT DEF ConsoleInit, WriterRecords
  <2>3. queued \in Seq(Line) /\ printed \in Seq(Halves)
    BY SMT DEF ConsoleInit
  <2> QED BY <1>1, <1>2, <2>1, <2>2, <2>3, RestingOK DEF ConsoleInit, TypeInv, Slots
<1>4. Len(queued) = 0 /\ Len(printed) = 0 /\ Waiting = {} /\ Filling = {}
  BY RestingOK, SMT DEF ConsoleInit, Waiting, Filling
<1>5. Ticket(s.first, 0) = s.first
  BY <1>2, Sizes, SMT DEF Ticket
<1>6. CountInv(s.first)
  BY <1>1, <1>4, <1>5, Sizes, SMT DEF CountInv
<1>7. LoadedInv(s.first)
  BY RestingOK DEF ConsoleInit, LoadedInv
<1>8. SlotInv(s.first)
  <2>1. \A k \in Slots : state[k] = "empty"
    BY DEF ConsoleInit, Slots
  <2>2. writer.pc = "look"
    BY DEF ConsoleInit
  <2>3. 1 .. Len(printed) = {}
    BY <1>4, SMT
  <2> QED
    BY <1>4, <2>1, <2>2, <2>3 DEF SlotInv, FillInv, ReadyInv, UsedInv, ApartInv, WriterInv, PrintedInv
<1>9. Inv(s.first)
  BY <1>3, <1>6, <1>7, <1>8 DEF Inv, ConsoleInit
<1> QED
  BY <1>2, <1>9 DEF ConsoleIInv

LEMMA StutterHolds ==
    ASSUME NEW f \in 0 .. (TicketSpace - 1), Inv(f), UNCHANGED consoleVars PROVE Inv(f)'
<1>1. UNCHANGED <<head, tail, state, bytes, loggers, writer, toLog, queued, printed, aliased>>
  BY DEF consoleVars
<1>2. TypeInv' /\ Filling' = Filling /\ Waiting' = Waiting /\ CountInv(f)' /\ LoadedInv(f)'
  BY <1>1 DEF Inv, TypeInv, Filling, Waiting, CountInv, LoadedInv
<1>3. SlotInv(f) => FillInv(f)' /\ WriterInv'
  BY <1>1, <1>2 DEF SlotInv, FillInv, FillsAt, WriterInv
<1>4. SlotInv(f) => ReadyInv(f)' /\ UsedInv(f)' /\ ApartInv(f)' /\ PrintedInv'
  BY <1>1, <1>2 DEF SlotInv, ReadyInv, UsedInv, ApartInv, PrintedInv
<1> QED
  BY <1>1, <1>2, <1>3, <1>4 DEF Inv, SlotInv

LEMMA ConsoleStepHolds == ConsoleIInv /\ NoLap /\ NoLap' /\ [ConsoleNext]_consoleVars => ConsoleIInv'
<1> SUFFICES ASSUME ConsoleIInv, NoLap, NoLap', [ConsoleNext]_consoleVars PROVE ConsoleIInv'
  OBVIOUS
<1>1. PICK f \in 0 .. (TicketSpace - 1) : Inv(f)
  BY DEF ConsoleIInv
<1>2. CASE UNCHANGED consoleVars
  BY <1>1, <1>2, StutterHolds DEF ConsoleIInv
<1>3. CASE ConsoleNext
  <2>1. ~aliased
    BY <1>3 DEF ConsoleNext
  <2>2. CASE install
    BY <1>1, <2>1, <2>2, InstallStep DEF ConsoleIInv
  <2>3. CASE Pops
    BY <1>1, <2>1, <2>3, LookStep, CopyStep, FreeStep, AdvanceStep DEF Pops, ConsoleIInv
  <2>4. ASSUME NEW l \in Loggers, try_write(l) PROVE ConsoleIInv'
    BY <1>1, <2>1, <2>4, WriteStep DEF ConsoleIInv
  <2>5. ASSUME NEW l \in Loggers, Pushes(l) PROVE ConsoleIInv'
    BY <1>1, <2>1, <2>5, HeadStep, TailStep, SwapStep, MarkStep, FillStep, PublishStep DEF Pushes, ConsoleIInv
  <2> QED
    BY <1>3, <2>2, <2>3, <2>4, <2>5 DEF ConsoleNext
<1> QED
  BY <1>2, <1>3

LEMMA InvIsSafe == ConsoleIInv /\ NoLap => ConsoleSafe
<1> SUFFICES ASSUME ConsoleIInv, NoLap PROVE ConsoleSafe
  OBVIOUS
<1>1. PICK f \in 0 .. (TicketSpace - 1) : Inv(f)
  BY DEF ConsoleIInv
<1> DEFINE P == Len(printed)  Q == Len(queued)
<1>2. /\ P \in Nat /\ Q \in Nat /\ P <= Q /\ Q < TicketSpace /\ Q - P <= ConsoleSlots
      /\ head = Ticket(f, P) /\ tail = Ticket(f, Q) /\ DOMAIN printed = 1 .. P
  BY <1>1, SMT DEF Inv, TypeInv, CountInv, NoLap
<1> HIDE DEF P, Q
<1>3. P \in 0 .. (TicketSpace - 1) /\ Q \in 0 .. (TicketSpace - 1)
  BY <1>2, Sizes, SMT
<1>4. ConsoleTypeOK
  <2>1. head \in 0 .. (TicketSpace - 1) /\ tail \in 0 .. (TicketSpace - 1)
    BY <1>2, <1>3, TicketFacts
  <2>2. Minus(tail, head) <= ConsoleSlots
    BY <1>2, MinusTicket
  <2> QED BY <1>1, <2>1, <2>2 DEF ConsoleTypeOK, Inv, TypeInv
<1>5. OneOwner
  <2> SUFFICES ASSUME ~aliased
               PROVE  /\ \A l, k \in Filling : l # k => PushSlot(l) # PushSlot(k)
                      /\ writer.pc # "look" => \A l \in Filling : PushSlot(l) # SlotOf(writer.head)
    BY <1>1 DEF OneOwner, Inv
  <2>1. ASSUME NEW l \in Filling, NEW k \in Filling, l # k PROVE PushSlot(l) # PushSlot(k)
    <3>1. PICK i \in Waiting :
             /\ PushSlot(l) = Slot(f, i) /\ \A j \in Waiting : j # i => Slot(f, j) # Slot(f, i)
             /\ \A m \in Filling \ {l} : \E j \in Waiting : j # i /\ FillsAt(f, m, j)
      BY <1>1, HeldSlot
    <3>2. PICK j \in Waiting : j # i /\ FillsAt(f, k, j)
      BY <2>1, <3>1
    <3>3. PushSlot(k) = Slot(f, j)
      BY <3>2 DEF PushSlot, FillsAt, Slot
    <3> QED BY <3>1, <3>2, <3>3
  <2>2. ASSUME writer.pc # "look", NEW l \in Filling PROVE PushSlot(l) # SlotOf(writer.head)
    <3>1. writer.head = head
      BY <1>1, <2>2 DEF Inv, SlotInv, WriterInv
    <3>2. PICK i \in Waiting : PushSlot(l) = Slot(f, i) /\ SlotOf(head) # Slot(f, i)
      BY <1>1, <2>2, HeldSlot
    <3> QED BY <3>1, <3>2
  <2> QED BY <2>1, <2>2
<1>6. LinesWhole
  <2>1. \A i \in 1 .. P : i <= Q
    BY <1>2, SMT
  <2> QED BY <1>1, <1>2, <2>1 DEF LinesWhole, Inv, SlotInv, PrintedInv, P, Q
<1> QED
  BY <1>4, <1>5, <1>6 DEF ConsoleSafe

\* Over a stretch of fewer than TicketSpace lines, for any number of tasks that
\* log: a slot is touched by the producer that reserved it or by the writer and
\* never by two, tickets in flight share a slot only across the wrap of the
\* counter, and the UART gets the lines whole and in ticket order (try_push,
\* try_pop).
THEOREM ConsoleIsSafe == ConsoleSpec /\ []NoLap => []ConsoleSafe
<1>1. ConsoleInit /\ [][ConsoleNext]_consoleVars /\ []NoLap => []ConsoleIInv
  BY ConsoleInitHolds, ConsoleStepHolds, PTL
<1> QED
  BY <1>1, InvIsSafe, PTL DEF ConsoleSpec
=============================================================================
