---------------------------- MODULE WsHubProofs -----------------------------
(***************************************************************************)
(* HubBooksAgree and NoticeComesFirst for any number of connections, any   *)
(* channels and log levels, and any depth of the queues.                   *)
(***************************************************************************)
EXTENDS WsHub, TLAPS

\* A leaf that names no prover is for Zenon; one that counts, or takes a record or
\* a sequence apart, cites SMT.
USE Zenon

Item == {"direct", "frame", "notice"} \X Notable

\* What a client's record may be on its way through a delivery.
Rec == [queue : Seq(Item), bytes : 0 .. QueueBytes, batch : Seq(Item),
        owed : [Notable -> Nat], closed : BOOLEAN, told : [Notable -> Nat],
        ok : BOOLEAN, gone : BOOLEAN]

\* n is what cl became: the bytes follow the queue, which stays within its
\* depth, and a closed client stays closed.
Kept(cl, n) ==
    /\ n \in Rec /\ Len(n.queue) <= QueueDepth
    /\ n.batch = cl.batch /\ n.gone = cl.gone
    /\ n.bytes - Len(n.queue) = cl.bytes - Len(cl.queue)
    /\ cl.closed => n.closed

\* Nothing is owed on the channel of a frame that comes last in a queue, nor
\* for the inbox.
Announced(cl, n) ==
    Len(n.queue) > Len(cl.queue) =>
        LET item == n.queue[Len(n.queue)] IN
        item[1] = "frame" => n.owed[item[2]] = 0 /\ n.owed["*"] = 0

GatesOf(clients, subs, level) ==
    LET mask == UNION {subs[c] : c \in clients} IN
    [mask |-> mask, tap |-> "sniffer" \in mask,
     level |-> Max({ArmedLevel} \cup {level[c] : c \in {d \in clients : level[d] # None}})]

SessionInv ==
    /\ wsPeer \in [Conns -> {"away", "up", "closed", "silent"}]
    /\ wsSender \in [Conns -> {"none", "recv", "sending", "shutting", "ended"}]
    /\ wsReader \in [Conns -> {"none", "reading", "replying", "leaving", "ended"}]
    /\ wsOpen # None => /\ wsOpen \in [conn : Conns, pc : {"sender", "hello", "reader"}]
                        /\ wsPeer[wsOpen.conn] # "away"
                        /\ wsOpen.pc = "sender" => wsSender[wsOpen.conn] = "none"
    /\ \A c \in Conns : wsPeer[c] = "away" => wsSender[c] = "none"

ClientInv ==
    /\ wsClients \subseteq Conns /\ wsCount = Cardinality(wsClients)
    /\ wsSubs \in [Conns -> SUBSET Channels]
    /\ wsLevel \in [Conns -> LogLevels \cup {None}]
    /\ \A c \in Conns : "logs" \in wsSubs[c] <=> wsLevel[c] # None
    /\ \A c \in Conns : wsPeer[c] = "away" => c \notin wsClients /\ wsSubs[c] = {}
    /\ wsGates = GatesOf(wsClients, wsSubs, wsLevel)

QueueInv ==
    /\ wsQueue \in [Conns -> Seq(Item)] /\ wsBatch \in [Conns -> Seq(Item)]
    /\ wsBytes \in [Conns -> 0 .. QueueBytes] /\ wsClosed \in [Conns -> BOOLEAN]
    /\ \A c \in Conns :
          /\ Len(wsQueue[c]) <= QueueDepth
          /\ wsSender[c] # "sending" => wsBatch[c] = <<>>
          /\ wsSender[c] # "ended" => wsBytes[c] = Len(wsQueue[c]) + Len(wsBatch[c])

BookInv ==
    /\ wsOwed \in [Conns -> [Notable -> Nat]]
    /\ wsMeant \in [Conns -> [Notable -> Nat]] /\ wsTold \in [Conns -> [Notable -> Nat]]
    /\ \A c \in Conns : wsPeer[c] = "away" \/ Following(c) =>
          \A ch \in Notable : wsMeant[c][ch] = wsTold[c][ch] + wsOwed[c][ch]

CohortInv ==
    wsCohorts # None =>
        wsCohorts \in [levels : SUBSET (LogLevels \cup {None}), lines : SUBSET LogLevels, missed : Nat]

IInv == SessionInv /\ ClientInv /\ QueueInv /\ BookInv /\ CohortInv

-----------------------------------------------------------------------------
\* What the operations on a client's record do.

LEMMA Fields ==
    ASSUME NEW cl \in Rec
    PROVE  /\ cl.queue \in Seq(Item) /\ Len(cl.queue) \in Nat /\ cl.batch \in Seq(Item)
           /\ cl.bytes \in Nat /\ cl.bytes <= QueueBytes
           /\ cl.closed \in BOOLEAN /\ cl.ok \in BOOLEAN /\ cl.gone \in BOOLEAN
           /\ cl.owed \in [Notable -> Nat] /\ cl.told \in [Notable -> Nat]
<1>1. cl.bytes \in 0 .. QueueBytes /\ cl.queue \in Seq(Item)
  BY DEF Rec
<1>2. cl.bytes \in Nat /\ cl.bytes <= QueueBytes /\ Len(cl.queue) \in Nat
  BY <1>1, WsAssumption, SMT
<1> QED BY <1>2 DEF Rec

LEMMA EnqueueFacts ==
    ASSUME NEW cl \in Rec, Len(cl.queue) <= QueueDepth, NEW item \in Item
    PROVE  LET n == enqueue(cl, item) IN
           /\ Kept(cl, n)
           /\ n.owed = cl.owed /\ n.told = cl.told /\ n.closed = cl.closed
           /\ n.ok => ~cl.gone /\ n.queue = Append(cl.queue, item)
           /\ ~n.ok => n.queue = cl.queue /\ n.bytes = cl.bytes
<1> DEFINE n == enqueue(cl, item)
<1>1. /\ cl.queue \in Seq(Item) /\ cl.bytes \in Nat /\ cl.gone \in BOOLEAN
      /\ Len(cl.queue) \in Nat /\ cl.ok \in BOOLEAN
  BY Fields
<1>2. CASE ~cl.gone /\ ~Full(cl)
  <2>1. n = [cl EXCEPT !.queue = Append(@, item), !.bytes = @ + 1, !.ok = TRUE]
    BY <1>2 DEF enqueue
  <2>2. /\ Append(cl.queue, item) \in Seq(Item) /\ Len(Append(cl.queue, item)) = Len(cl.queue) + 1
        /\ cl.bytes + 1 \in 0 .. QueueBytes /\ Len(cl.queue) + 1 <= QueueDepth
    BY <1>1, <1>2, WsAssumption, SMT DEF Full
  <2>3. /\ n.queue = Append(cl.queue, item) /\ n.bytes = cl.bytes + 1 /\ n.ok = TRUE
        /\ n.owed = cl.owed /\ n.told = cl.told /\ n.closed = cl.closed
        /\ n.batch = cl.batch /\ n.gone = cl.gone
    BY <2>1 DEF Rec
  <2>4. n \in Rec
    BY <1>1, <2>1, <2>2 DEF Rec
  <2> HIDE DEF n
  <2>5. Len(n.queue) = Len(cl.queue) + 1 /\ (cl.closed => n.closed)
    BY <2>2, <2>3
  <2>6. n.bytes - Len(n.queue) = cl.bytes - Len(cl.queue)
    BY <1>1, <2>3, <2>5, SMT
  <2>7. Kept(cl, n)
    BY <2>2, <2>3, <2>4, <2>5, <2>6 DEF Kept
  <2> QED BY <1>2, <2>3, <2>7 DEF n
<1>3. CASE ~(~cl.gone /\ ~Full(cl))
  <2>1. n = [cl EXCEPT !.ok = FALSE]
    BY <1>3 DEF enqueue
  <2> QED BY <1>1, <2>1 DEF Rec, Kept
<1> QED BY <1>2, <1>3

LEMMA PushFacts ==
    ASSUME NEW cl \in Rec, Len(cl.queue) <= QueueDepth, NEW ch \in Notable
    PROVE  LET n == push_notice(cl, ch) IN
           /\ Kept(cl, n)
           /\ n.owed = cl.owed /\ n.told = cl.told
           /\ n.queue = cl.queue \/ n.queue = Append(cl.queue, Notice(ch))
<1> DEFINE n == push_notice(cl, ch)
<1>1. Notice(ch) \in Item
  BY DEF Notice, Item
<1>2. CASE cl.gone /\ ~(cl.bytes + 1 > QueueBytes)
  <2>1. n = [cl EXCEPT !.closed = TRUE, !.ok = TRUE]
    BY <1>2 DEF push_notice
  <2> QED BY <2>1 DEF Rec, Kept
<1>3. CASE ~(cl.gone /\ ~(cl.bytes + 1 > QueueBytes))
  <2>1. n = enqueue(cl, Notice(ch))
    BY <1>3 DEF push_notice
  <2>2. n \in Rec
    BY <1>1, <2>1, EnqueueFacts DEF Kept
  <2> QED BY <1>1, <2>1, <2>2, EnqueueFacts DEF Rec
<1> QED BY <1>2, <1>3

LEMMA NotifyFacts ==
    ASSUME NEW cl \in Rec, Len(cl.queue) <= QueueDepth, NEW ch \in Notable
    PROVE  LET n == notify_loss(cl, ch) IN
           /\ Kept(cl, n)
           /\ \A k \in Notable : n.owed[k] + n.told[k] = cl.owed[k] + cl.told[k]
           /\ \A k \in Notable : cl.owed[k] = 0 => n.owed[k] = 0
           /\ n.ok => n.owed[ch] = 0
           /\ n.queue = cl.queue \/ n.queue = Append(cl.queue, Notice(ch))
<1> DEFINE p == push_notice(cl, ch)
           n == notify_loss(cl, ch)
<1>1. /\ Kept(cl, p) /\ p \in Rec /\ p.owed = cl.owed /\ p.told = cl.told
      /\ p.queue = cl.queue \/ p.queue = Append(cl.queue, Notice(ch))
  BY PushFacts DEF Kept
<1>2. /\ cl.owed \in [Notable -> Nat] /\ cl.told \in [Notable -> Nat]
      /\ cl.owed[ch] \in Nat /\ cl.told[ch] \in Nat
  BY DEF Rec
<1>3. CASE cl.owed[ch] = 0
  <2>1. n = [cl EXCEPT !.ok = TRUE]
    BY <1>3 DEF notify_loss
  <2> QED BY <1>2, <1>3, <2>1 DEF Rec, Kept
<1>4. CASE cl.owed[ch] # 0 /\ ~p.ok
  <2>1. n = p
    BY <1>4 DEF notify_loss
  <2> HIDE DEF p, n
  <2>2. /\ Kept(cl, n)
        /\ \A k \in Notable : n.owed[k] + n.told[k] = cl.owed[k] + cl.told[k]
        /\ \A k \in Notable : cl.owed[k] = 0 => n.owed[k] = 0
        /\ n.ok => n.owed[ch] = 0
        /\ n.queue = cl.queue \/ n.queue = Append(cl.queue, Notice(ch))
    BY <1>1, <1>2, <1>4, <2>1
  <2> QED BY <2>2 DEF n
<1>5. CASE cl.owed[ch] # 0 /\ p.ok
  <2>1. n = [p EXCEPT !.owed[ch] = 0, !.told[ch] = @ + cl.owed[ch]]
    BY <1>5 DEF notify_loss
  <2> HIDE DEF p, n
  <2>2. /\ n.owed = [cl.owed EXCEPT ![ch] = 0]
        /\ n.told = [cl.told EXCEPT ![ch] = @ + cl.owed[ch]]
        /\ n.queue = p.queue /\ n.bytes = p.bytes /\ n.batch = p.batch /\ n.gone = p.gone
        /\ n.closed = p.closed /\ n.ok = p.ok
    BY <1>1, <2>1 DEF Rec
  <2>3. n.owed \in [Notable -> Nat] /\ n.told \in [Notable -> Nat]
    BY <1>2, <2>2, SMT
  <2>4. n \in Rec
    BY <1>1, <2>1, <2>2, <2>3 DEF Rec
  <2>5. /\ \A k \in Notable : n.owed[k] + n.told[k] = cl.owed[k] + cl.told[k]
        /\ \A k \in Notable : cl.owed[k] = 0 => n.owed[k] = 0
        /\ n.owed[ch] = 0
    BY <1>2, <2>2, SMT
  <2>6. Kept(cl, n)
    BY <1>1, <2>2, <2>4 DEF Kept
  <2>7. n.queue = cl.queue \/ n.queue = Append(cl.queue, Notice(ch))
    BY <1>1, <2>2
  <2> QED BY <2>5, <2>6, <2>7 DEF n
<1> QED BY <1>3, <1>4, <1>5

LEMMA DropFacts ==
    ASSUME NEW cl \in Rec, NEW ch \in Notable, NEW weight \in Nat
    PROVE  LET n == count_drop(cl, ch, weight) IN
           /\ n \in Rec
           /\ n.queue = cl.queue /\ n.bytes = cl.bytes /\ n.batch = cl.batch
           /\ n.gone = cl.gone /\ n.closed = cl.closed /\ n.told = cl.told
           /\ n.owed = [cl.owed EXCEPT ![ch] = @ + weight]
<1>1. cl.owed \in [Notable -> Nat] /\ cl.owed[ch] + weight \in Nat
  BY SMT DEF Rec
<1>2. [cl.owed EXCEPT ![ch] = @ + weight] \in [Notable -> Nat]
  BY <1>1
<1>3. count_drop(cl, ch, weight) = [cl EXCEPT !.owed = [cl.owed EXCEPT ![ch] = @ + weight]]
  BY DEF count_drop, Rec
<1> QED BY <1>2, <1>3 DEF Rec

\* A delivery to a client whose queue is served accounts for every unit, and a
\* frame is queued only behind the notices that are due.
LEMMA DeliverFacts ==
    ASSUME NEW cl \in Rec, Len(cl.queue) <= QueueDepth, NEW ch \in Channels, NEW weight \in Nat
    PROVE  LET n == deliver(cl, ch, weight) IN
           /\ Kept(cl, n)
           /\ Announced(cl, n)
           /\ ~cl.gone => \A k \in Notable :
                 n.owed[k] + n.told[k] = cl.owed[k] + cl.told[k] + (IF k = ch THEN weight ELSE 0)
<1> DEFINE inbox == notify_loss(cl, "*")
           told == IF inbox.ok THEN notify_loss(inbox, ch) ELSE inbox
           sent == IF told.ok THEN enqueue(told, Frame(ch)) ELSE told
           n == deliver(cl, ch, weight)
           Sum(a, b, w) == \A k \in Notable :
               b.owed[k] + b.told[k] = a.owed[k] + a.told[k] + (IF k = ch THEN w ELSE 0)
<1>1. ch \in Notable /\ "*" \in Notable /\ Frame(ch) \in Item
  BY DEF Notable, Frame, Item
<1>2. /\ Kept(cl, inbox) /\ inbox \in Rec /\ Len(inbox.queue) <= QueueDepth
      /\ \A k \in Notable : inbox.owed[k] + inbox.told[k] = cl.owed[k] + cl.told[k]
      /\ inbox.ok => inbox.owed["*"] = 0
      /\ inbox.queue = cl.queue \/ inbox.queue = Append(cl.queue, Notice("*"))
  BY <1>1, NotifyFacts DEF Kept
<1>3. ASSUME inbox.ok
      PROVE  /\ Kept(inbox, told)
             /\ \A k \in Notable : told.owed[k] + told.told[k] = inbox.owed[k] + inbox.told[k]
             /\ told.ok => told.owed["*"] = 0 /\ told.owed[ch] = 0
             /\ told.queue = inbox.queue \/ told.queue = Append(inbox.queue, Notice(ch))
  <2>1. told = notify_loss(inbox, ch)
    BY <1>3
  <2> QED BY <1>1, <1>2, <1>3, <2>1, NotifyFacts, SMT
<1> HIDE DEF inbox, told
<1>4. /\ Kept(cl, told) /\ told \in Rec /\ Len(told.queue) <= QueueDepth
      /\ \A k \in Notable : told.owed[k] + told.told[k] = cl.owed[k] + cl.told[k]
      /\ told.ok => told.owed["*"] = 0 /\ told.owed[ch] = 0
      /\ \/ told.queue = cl.queue
         \/ Len(told.queue) > Len(cl.queue) /\ told.queue[Len(told.queue)][1] = "notice"
  <2>1. \A s \in Seq(Item), k \in Notable :
           /\ Len(Append(s, Notice(k))) = Len(s) + 1
           /\ Append(s, Notice(k))[Len(s) + 1][1] = "notice"
    BY SMT DEF Notice
  <2>2. cl.queue \in Seq(Item) /\ inbox.queue \in Seq(Item) /\ Len(cl.queue) \in Nat
        /\ Len(inbox.queue) \in Nat
    BY <1>2, SMT DEF Rec
  <2>3. \/ inbox.queue = cl.queue
        \/ Len(inbox.queue) > Len(cl.queue) /\ inbox.queue[Len(inbox.queue)][1] = "notice"
    BY <1>1, <1>2, <2>1, <2>2, SMT
  <2>4. CASE ~inbox.ok
    <3>1. told = inbox
      BY <2>4 DEF told
    <3> QED BY <1>2, <2>3, <2>4, <3>1
  <2>5. CASE inbox.ok
    <3>1. Kept(cl, told)
      <4>1. cl.bytes \in Int /\ inbox.bytes \in Int /\ told.bytes \in Int /\ told \in Rec
            /\ Len(told.queue) \in Nat
        <5>1. told \in Rec
          BY <1>3, <2>5 DEF Kept
        <5> QED BY <1>2, <5>1, Fields, SMT
      <4>2. /\ inbox.bytes - Len(inbox.queue) = cl.bytes - Len(cl.queue)
            /\ told.bytes - Len(told.queue) = inbox.bytes - Len(inbox.queue)
            /\ cl.closed => inbox.closed
            /\ inbox.closed => told.closed
        BY <1>2, <1>3, <2>5 DEF Kept
      <4>3. told.bytes - Len(told.queue) = cl.bytes - Len(cl.queue)
        BY <2>2, <4>1, <4>2
      <4>4. /\ Len(told.queue) <= QueueDepth /\ told.batch = cl.batch /\ told.gone = cl.gone
        BY <1>2, <1>3, <2>5 DEF Kept
      <4> QED BY <4>1, <4>2, <4>3, <4>4 DEF Kept
    <3>2. \/ told.queue = inbox.queue
          \/ Len(told.queue) > Len(inbox.queue) /\ told.queue[Len(told.queue)][1] = "notice"
      BY <1>1, <1>3, <2>1, <2>2, <2>5, SMT
    <3>3. \/ told.queue = cl.queue
          \/ Len(told.queue) > Len(cl.queue) /\ told.queue[Len(told.queue)][1] = "notice"
      <4>1. Len(told.queue) \in Nat
        BY <3>1, SMT DEF Kept, Rec
      <4> QED BY <2>2, <2>3, <3>2, <4>1, SMT
    <3>4. told \in Rec /\ Len(told.queue) <= QueueDepth
      BY <3>1 DEF Kept
    <3> QED BY <1>2, <1>3, <2>5, <3>1, <3>3, <3>4
  <2> QED BY <2>4, <2>5
<1>5. n = IF sent.ok THEN [sent EXCEPT !.told[ch] = @ + weight]
          ELSE IF told.ok /\ told.gone /\ ~(told.bytes + 1 > QueueBytes)
               THEN [told EXCEPT !.closed = TRUE]
          ELSE count_drop(sent, ch, weight)
  BY DEF deliver, told, inbox
<1>6. cl.queue \in Seq(Item) /\ Len(cl.queue) \in Nat /\ told.queue \in Seq(Item)
      /\ Len(told.queue) \in Nat /\ cl.gone \in BOOLEAN /\ told.gone = cl.gone
      /\ \A k \in Notable : /\ cl.owed[k] \in Nat /\ cl.told[k] \in Nat
                            /\ told.owed[k] \in Nat /\ told.told[k] \in Nat
  BY <1>4, Fields DEF Kept
<1>7. CASE told.ok /\ sent.ok
  <2>1. sent = enqueue(told, Frame(ch))
    BY <1>7
  <2>2. /\ Kept(told, sent) /\ sent.owed = told.owed /\ sent.told = told.told
        /\ sent.queue = Append(told.queue, Frame(ch))
    BY <1>1, <1>4, <1>7, <2>1, EnqueueFacts
  <2> HIDE DEF sent, n
  <2>3. n = [sent EXCEPT !.told[ch] = @ + weight]
    BY <1>5, <1>7
  <2>4. /\ n.queue = sent.queue /\ n.bytes = sent.bytes /\ n.batch = sent.batch
        /\ n.owed = told.owed /\ n.gone = sent.gone /\ n.closed = sent.closed
        /\ n.told = [told.told EXCEPT ![ch] = @ + weight]
    BY <2>2, <2>3 DEF Kept, Rec
  <2>5. n \in Rec
    <3>1. told.told \in [Notable -> Nat] /\ told.told[ch] + weight \in Nat
      BY <1>1, <1>4, Fields, SMT
    <3>2. n.told \in [Notable -> Nat]
      BY <2>4, <3>1
    <3> QED BY <2>2, <2>3, <2>4, <3>2 DEF Kept, Rec
  <2>6. Kept(cl, n)
    <3>1. cl.bytes \in Int /\ told.bytes \in Int /\ sent.bytes \in Int /\ Len(sent.queue) \in Nat
      <4>1. sent \in Rec
        BY <2>2 DEF Kept
      <4> QED BY <1>4, <4>1, Fields, SMT
    <3>2. n.bytes - Len(n.queue) = cl.bytes - Len(cl.queue)
      <4>1. /\ told.bytes - Len(told.queue) = cl.bytes - Len(cl.queue)
            /\ sent.bytes - Len(sent.queue) = told.bytes - Len(told.queue)
        BY <1>4, <2>2 DEF Kept
      <4>2. sent.bytes - Len(sent.queue) = cl.bytes - Len(cl.queue)
        BY <1>6, <3>1, <4>1
      <4> QED BY <2>4, <4>2
    <3>3. /\ Len(n.queue) <= QueueDepth /\ n.batch = cl.batch /\ n.gone = cl.gone
          /\ cl.closed => n.closed
      BY <1>4, <2>2, <2>4 DEF Kept
    <3> QED BY <2>5, <3>2, <3>3 DEF Kept
  <2>7. Announced(cl, n)
    <3>1. n.queue[Len(n.queue)] = Frame(ch)
      BY <1>1, <1>6, <2>2, <2>4, SMT
    <3> QED BY <1>1, <1>4, <1>7, <2>4, <3>1, SMT DEF Announced, Frame
  <2>8. Sum(cl, n, weight)
    <3>1. told.told \in [Notable -> Nat]
      BY <1>4, Fields
    <3>2. /\ n.told[ch] = told.told[ch] + weight
          /\ \A k \in Notable : k # ch => n.told[k] = told.told[k]
      BY <1>1, <2>4, <3>1
    <3> QED BY <1>1, <1>4, <1>6, <2>4, <3>2, SMT
  <2> QED BY <2>6, <2>7, <2>8 DEF n
<1>8. CASE ~sent.ok
  <2>1. /\ Kept(told, sent) /\ sent.owed = told.owed /\ sent.told = told.told
        /\ sent.queue = told.queue /\ sent \in Rec
    <3>1. CASE told.ok
      <4>1. sent = enqueue(told, Frame(ch))
        BY <3>1
      <4> QED BY <1>1, <1>4, <1>8, <4>1, EnqueueFacts DEF Kept
    <3>2. CASE ~told.ok
      <4>1. sent = told
        BY <3>2
      <4> QED BY <1>4, <4>1 DEF Kept
    <3> QED BY <3>1, <3>2
  <2> HIDE DEF sent, n
  <2>2. ASSUME NEW m \in Rec, m.queue = told.queue, m.bytes = sent.bytes \/ m.bytes = told.bytes,
               m.batch = told.batch, m.gone = told.gone, told.closed => m.closed
        PROVE  Kept(cl, m) /\ Announced(cl, m)
    <3>1. m.bytes - Len(m.queue) = cl.bytes - Len(cl.queue)
      <4>1. /\ told.bytes - Len(told.queue) = cl.bytes - Len(cl.queue)
            /\ sent.bytes - Len(told.queue) = told.bytes - Len(told.queue)
        BY <1>4, <2>1 DEF Kept
      <4> QED BY <2>2, <4>1
    <3>2. Kept(cl, m)
      <4>1. cl.closed => m.closed
        BY <1>4, <2>2 DEF Kept
      <4>2. m.batch = cl.batch /\ m.gone = cl.gone
        BY <1>4, <2>2 DEF Kept
      <4> QED BY <1>4, <2>2, <3>1, <4>1, <4>2 DEF Kept
    <3>3. Announced(cl, m)
      BY <1>4, <1>6, <2>2, SMT DEF Announced
    <3> QED BY <3>2, <3>3
  <2>3. CASE told.ok /\ told.gone /\ ~(told.bytes + 1 > QueueBytes)
    <3>1. n = [told EXCEPT !.closed = TRUE]
      BY <1>5, <1>8, <2>3
    <3>2. n \in Rec /\ n.queue = told.queue /\ n.bytes = told.bytes /\ n.batch = told.batch
          /\ n.gone = told.gone /\ n.closed = TRUE
      BY <1>4, <3>1 DEF Rec
    <3>3. Kept(cl, n) /\ Announced(cl, n)
      BY <2>2, <3>2
    <3> QED BY <1>6, <2>3, <3>3 DEF n
  <2>4. CASE ~(told.ok /\ told.gone /\ ~(told.bytes + 1 > QueueBytes))
    <3>1. n = count_drop(sent, ch, weight)
      BY <1>5, <1>8, <2>4
    <3>2. /\ n \in Rec /\ n.queue = told.queue /\ n.bytes = sent.bytes /\ n.batch = told.batch
          /\ n.gone = told.gone /\ n.told = told.told
          /\ n.owed = [told.owed EXCEPT ![ch] = @ + weight]
      BY <1>1, <2>1, <3>1, DropFacts, SMT DEF Kept
    <3>3. told.closed => n.closed
      BY <1>1, <2>1, <3>1, DropFacts DEF Kept
    <3>4. Kept(cl, n) /\ Announced(cl, n)
      BY <2>2, <3>2, <3>3
    <3>5. Sum(cl, n, weight)
      <4>1. told.owed \in [Notable -> Nat]
        BY <1>4, Fields
      <4>2. /\ n.owed[ch] = told.owed[ch] + weight
            /\ \A k \in Notable : k # ch => n.owed[k] = told.owed[k]
        BY <1>1, <3>2, <4>1
      <4> QED BY <1>1, <1>4, <1>6, <3>2, <4>2, SMT
    <3> QED BY <3>4, <3>5 DEF n
  <2> QED BY <2>3, <2>4
<1> QED BY <1>7, <1>8

\* An overflow of the inbox: the loss is counted, then told if there is room.
LEMMA OverflowFacts ==
    ASSUME NEW cl \in Rec, Len(cl.queue) <= QueueDepth
    PROVE  LET n == notify_loss(count_drop(cl, "*", 1), "*") IN
           /\ Kept(cl, n)
           /\ Announced(cl, n)
           /\ \A k \in Notable :
                 n.owed[k] + n.told[k] = cl.owed[k] + cl.told[k] + (IF k = "*" THEN 1 ELSE 0)
<1> DEFINE d == count_drop(cl, "*", 1)
           n == notify_loss(d, "*")
<1>1. "*" \in Notable
  BY DEF Notable
<1>2. /\ d \in Rec /\ d.queue = cl.queue /\ d.bytes = cl.bytes /\ d.batch = cl.batch
      /\ d.gone = cl.gone /\ d.closed = cl.closed /\ d.told = cl.told
      /\ d.owed = [cl.owed EXCEPT !["*"] = @ + 1]
  BY <1>1, DropFacts, SMT
<1> HIDE DEF d
<1>3. /\ Kept(d, n)
      /\ \A k \in Notable : n.owed[k] + n.told[k] = d.owed[k] + d.told[k]
      /\ n.queue = cl.queue \/ n.queue = Append(cl.queue, Notice("*"))
  BY <1>1, <1>2, NotifyFacts
<1> HIDE DEF n
<1>4. Kept(cl, n)
  BY <1>2, <1>3 DEF Kept
<1>5. Announced(cl, n)
  <2>1. cl.queue \in Seq(Item)
    BY Fields
  <2>2. n.queue = cl.queue \/ n.queue[Len(n.queue)][1] = "notice"
    BY <1>3, <2>1, SMT DEF Notice
  <2> QED BY <2>1, <2>2, SMT DEF Announced
<1>6. \A k \in Notable :
         n.owed[k] + n.told[k] = cl.owed[k] + cl.told[k] + (IF k = "*" THEN 1 ELSE 0)
  <2>1. cl.owed \in [Notable -> Nat] /\ cl.told \in [Notable -> Nat]
    BY Fields
  <2>2. /\ d.owed["*"] = cl.owed["*"] + 1
        /\ \A k \in Notable : k # "*" => d.owed[k] = cl.owed[k]
    BY <1>1, <1>2, <2>1
  <2> QED BY <1>1, <1>2, <1>3, <2>1, <2>2, SMTT(20)
<1> QED BY <1>4, <1>5, <1>6 DEF n, d

-----------------------------------------------------------------------------
\* The gates.

LEMMA RefreshIsGates ==
    ASSUME NEW clients, NEW subs, NEW level
    PROVE  refresh_gates(clients, subs, level) <=> wsGates' = GatesOf(clients, subs, level)
BY DEF refresh_gates, GatesOf

\* A client without subscriptions opens no gate.
LEMMA QuietClient ==
    ASSUME NEW clients, NEW subs, NEW level, NEW c, subs[c] = {}, level[c] = None
    PROVE  GatesOf(clients \cup {c}, subs, level) = GatesOf(clients, subs, level)
<1>1. UNION {subs[d] : d \in clients \cup {c}} = UNION {subs[d] : d \in clients}
  OBVIOUS
<1>2. {level[d] : d \in {e \in clients \cup {c} : level[e] # None}}
      = {level[d] : d \in {e \in clients : level[e] # None}}
  OBVIOUS
<1> QED BY <1>1, <1>2 DEF GatesOf

-----------------------------------------------------------------------------
\* What a delivery to some of the clients does to the queues and the books.

LEMMA ClientIsRec ==
    ASSUME SessionInv, QueueInv, BookInv, NEW c \in Conns
    PROVE  /\ ClientOf(c) \in Rec /\ Len(ClientOf(c).queue) <= QueueDepth
           /\ ClientOf(c).queue = wsQueue[c] /\ ClientOf(c).bytes = wsBytes[c]
           /\ ClientOf(c).batch = wsBatch[c] /\ ClientOf(c).owed = wsOwed[c]
           /\ ClientOf(c).closed = wsClosed[c] /\ ClientOf(c).told = wsTold[c]
           /\ ClientOf(c).gone <=> wsSender[c] = "ended"
<1>1. (wsSender[c] = "ended") \in BOOLEAN
  OBVIOUS
<1> QED BY <1>1 DEF ClientOf, Rec, QueueInv, BookInv

LEMMA QueuesUpdated ==
    ASSUME SessionInv, QueueInv, BookInv, NEW cs \in SUBSET Conns, NEW new, Update(cs, new),
           \A c \in cs : Kept(ClientOf(c), new[c]),
           wsBatch' = wsBatch, wsSender' = wsSender
    PROVE  QueueInv'
<1>1. ASSUME NEW c \in Conns
      PROVE  /\ wsQueue'[c] \in Seq(Item) /\ wsBytes'[c] \in 0 .. QueueBytes
             /\ wsClosed'[c] \in BOOLEAN
             /\ Len(wsQueue'[c]) <= QueueDepth
             /\ wsSender[c] # "ended" => wsBytes'[c] = Len(wsQueue'[c]) + Len(wsBatch[c])
  <2>1. CASE c \notin cs
    BY <2>1 DEF Update, QueueInv
  <2>2. CASE c \in cs
    <3>1. wsQueue'[c] = new[c].queue /\ wsBytes'[c] = new[c].bytes /\ wsClosed'[c] = new[c].closed
      BY <2>2 DEF Update
    <3>2. /\ new[c] \in Rec /\ Len(new[c].queue) <= QueueDepth
          /\ new[c].bytes - Len(new[c].queue) = wsBytes[c] - Len(wsQueue[c])
      BY <2>2, ClientIsRec DEF Kept
    <3>3. /\ new[c].bytes \in Nat /\ Len(new[c].queue) \in Nat /\ wsBytes[c] \in Nat
          /\ Len(wsQueue[c]) \in Nat /\ Len(wsBatch[c]) \in Nat
      <4>1. wsBytes[c] \in 0 .. QueueBytes
        BY DEF QueueInv
      <4> QED BY <3>2, <4>1, Fields, WsAssumption, SMT DEF QueueInv
    <3>4. ASSUME wsSender[c] # "ended"
          PROVE  new[c].bytes = Len(new[c].queue) + Len(wsBatch[c])
      <4>1. wsBytes[c] = Len(wsQueue[c]) + Len(wsBatch[c])
        BY <3>4 DEF QueueInv
      <4>2. wsBytes[c] - Len(wsQueue[c]) = Len(wsBatch[c])
        BY <3>3, <4>1, SMT
      <4>3. new[c].bytes - Len(new[c].queue) = Len(wsBatch[c])
        BY <3>2, <4>2
      <4> DEFINE b == new[c].bytes
                 q == Len(new[c].queue)
                 t == Len(wsBatch[c])
      <4>4. b \in Nat /\ q \in Nat /\ t \in Nat /\ b - q = t
        BY <3>3, <4>3
      <4> HIDE DEF b, q, t
      <4>5. b = q + t
        BY <4>4, SMT
      <4> QED BY <4>5 DEF b, q, t
    <3> QED BY <3>1, <3>2, <3>4 DEF Rec
  <2> QED BY <2>1, <2>2
<1>2. /\ wsQueue' \in [Conns -> Seq(Item)] /\ wsBytes' \in [Conns -> 0 .. QueueBytes]
      /\ wsClosed' \in [Conns -> BOOLEAN]
  BY <1>1 DEF Update
<1> QED BY <1>1, <1>2 DEF QueueInv

\* Each of the clients is meant weight units more on channel ch, and its books
\* are right if its queue is still served.
LEMMA BooksUpdated ==
    ASSUME SessionInv, QueueInv, BookInv, NEW cs \in SUBSET Conns, NEW new, Update(cs, new),
           NEW ch \in Notable, NEW weight \in Nat,
           \A c \in cs : Kept(ClientOf(c), new[c]),
           \A c \in cs : wsSender[c] # "ended" => \A k \in Notable :
              new[c].owed[k] + new[c].told[k]
                  = wsOwed[c][k] + wsTold[c][k] + (IF k = ch THEN weight ELSE 0),
           wsMeant' \in [Conns -> [Notable -> Nat]],
           \A c \in Conns, k \in Notable :
              wsMeant'[c][k] = wsMeant[c][k] + (IF c \in cs /\ k = ch THEN weight ELSE 0),
           wsPeer' = wsPeer, wsSender' = wsSender, wsClients' = wsClients
    PROVE  BookInv'
<1>1. ASSUME NEW c \in Conns
      PROVE  /\ wsOwed'[c] \in [Notable -> Nat] /\ wsTold'[c] \in [Notable -> Nat]
             /\ wsClosed[c] => wsClosed'[c]
             /\ wsSender[c] # "ended" => \A k \in Notable :
                  wsOwed'[c][k] + wsTold'[c][k]
                      = wsOwed[c][k] + wsTold[c][k] + (IF c \in cs /\ k = ch THEN weight ELSE 0)
  <2>1. CASE c \notin cs
    <3>1. wsOwed'[c] = wsOwed[c] /\ wsTold'[c] = wsTold[c] /\ wsClosed'[c] = wsClosed[c]
      BY <2>1 DEF Update
    <3>2. \A k \in Notable : wsOwed[c][k] \in Nat /\ wsTold[c][k] \in Nat
      BY DEF BookInv
    <3> QED BY <2>1, <3>1, <3>2, SMT DEF BookInv
  <2>2. CASE c \in cs
    <3>1. wsOwed'[c] = new[c].owed /\ wsTold'[c] = new[c].told /\ wsClosed'[c] = new[c].closed
      BY <2>2 DEF Update
    <3>2. new[c] \in Rec /\ (wsClosed[c] => new[c].closed)
      BY <2>2, ClientIsRec DEF Kept
    <3> QED BY <2>2, <3>1, <3>2, Fields, SMT
  <2> QED BY <2>1, <2>2
<1>2. wsOwed' \in [Conns -> [Notable -> Nat]] /\ wsTold' \in [Conns -> [Notable -> Nat]]
  BY <1>1 DEF Update
<1>3. ASSUME NEW c \in Conns, wsPeer'[c] = "away" \/ Following(c)', NEW k \in Notable
      PROVE  wsMeant'[c][k] = wsTold'[c][k] + wsOwed'[c][k]
  <2>1. wsSender[c] # "ended" /\ (wsPeer[c] = "away" \/ Following(c))
    BY <1>1, <1>3 DEF Following, SessionInv
  <2>2. wsMeant[c][k] = wsTold[c][k] + wsOwed[c][k]
    BY <2>1 DEF BookInv
  <2>3. /\ wsOwed[c][k] \in Nat /\ wsTold[c][k] \in Nat /\ wsOwed'[c][k] \in Nat
        /\ wsTold'[c][k] \in Nat
    BY <1>2 DEF BookInv
  <2> QED BY <1>1, <2>1, <2>2, <2>3, SMT
<1> QED BY <1>2, <1>3 DEF BookInv

LEMMA FramesAnnounced ==
    ASSUME SessionInv, QueueInv, BookInv, NEW cs \in SUBSET Conns, NEW new, Update(cs, new),
           \A c \in cs : Announced(ClientOf(c), new[c])
    PROVE  FrameAfterNotice
<1> SUFFICES ASSUME NEW c \in Conns, Len(wsQueue'[c]) > Len(wsQueue[c]),
                    wsQueue'[c][Len(wsQueue'[c])][1] = "frame"
             PROVE  /\ wsOwed'[c][wsQueue'[c][Len(wsQueue'[c])][2]] = 0
                    /\ wsOwed'[c]["*"] = 0
  BY DEF FrameAfterNotice
<1>1. c \in cs
  BY SMT DEF Update, QueueInv
<1>2. wsQueue'[c] = new[c].queue /\ wsOwed'[c] = new[c].owed
  BY <1>1 DEF Update
<1> QED BY <1>1, <1>2, ClientIsRec, SMT DEF Announced

-----------------------------------------------------------------------------
\* The actions, one by one.  Each lemma gives the part of the invariant that
\* the action can disturb; what it leaves alone carries over.

LEMMA ClientsAlone ==
    ASSUME ClientInv, UNCHANGED clientVars, wsPeer' = wsPeer
    PROVE  ClientInv'
BY DEF ClientInv, clientVars

LEMMA QueuesAlone ==
    ASSUME QueueInv, UNCHANGED queueVars, wsSender' = wsSender
    PROVE  QueueInv'
BY DEF QueueInv, queueVars

LEMMA BooksAlone ==
    ASSUME BookInv, wsOwed' = wsOwed, wsMeant' = wsMeant, wsTold' = wsTold,
           \A c \in Conns : wsPeer'[c] = "away" \/ Following(c)' => wsPeer[c] = "away" \/ Following(c)
    PROVE  BookInv'
BY DEF BookInv

\* A hello or a reply is owed to nobody: the books stay as they are.
LEMMA DirectSent ==
    ASSUME IInv, NEW c \in Conns, send_direct(c), UNCHANGED <<wsPeer, wsSender, wsClients>>
    PROVE  QueueInv' /\ BookInv' /\ FrameAfterNotice
<1>1. CASE c \notin wsClients
  <2>1. UNCHANGED queueVars
    BY <1>1 DEF send_direct
  <2>2. BookInv'
    BY <2>1, BooksAlone DEF IInv, Following, queueVars
  <2>3. FrameAfterNotice
    BY <2>1, SMT DEF FrameAfterNotice, queueVars, IInv, QueueInv
  <2> QED BY <2>1, <2>2, <2>3, QueuesAlone DEF IInv
<1>2. CASE c \in wsClients
  <2> DEFINE new == [d \in {c} |-> enqueue(ClientOf(d), Direct)]
  <2>1. Update({c}, new) /\ wsBatch' = wsBatch /\ wsMeant' = wsMeant
    BY <1>2 DEF send_direct
  <2>2. Direct \in Item /\ "*" \in Notable
    BY DEF Direct, Item, Notable
  <2>3. /\ ClientOf(c) \in Rec /\ Len(ClientOf(c).queue) <= QueueDepth
        /\ ClientOf(c).owed = wsOwed[c] /\ ClientOf(c).told = wsTold[c]
    BY ClientIsRec DEF IInv
  <2>4. /\ Kept(ClientOf(c), new[c])
        /\ new[c].owed = wsOwed[c] /\ new[c].told = wsTold[c]
        /\ new[c].queue = ClientOf(c).queue \/ new[c].queue = Append(ClientOf(c).queue, Direct)
    BY <2>2, <2>3, EnqueueFacts
  <2> HIDE DEF new
  <2>5. Announced(ClientOf(c), new[c])
    <3>1. ClientOf(c).queue \in Seq(Item)
      BY <2>3, Fields
    <3>2. new[c].queue = ClientOf(c).queue \/ new[c].queue[Len(new[c].queue)][1] = "direct"
      BY <2>2, <2>4, <3>1, SMT DEF Direct
    <3> QED BY <3>1, <3>2, SMT DEF Announced
  <2>6. QueueInv'
    BY <2>1, <2>4, QueuesUpdated, SMT DEF IInv
  <2>7. BookInv'
    <3>1. \A k \in Notable : /\ wsOwed[c][k] \in Nat /\ wsTold[c][k] \in Nat
      BY DEF IInv, BookInv
    <3>2. \A d \in Conns, k \in Notable : wsMeant[d][k] \in Nat
      BY DEF IInv, BookInv
    <3>3. wsMeant' \in [Conns -> [Notable -> Nat]]
      BY <2>1 DEF IInv, BookInv
    <3>4. \A d \in {c} : wsSender[d] # "ended" => \A k \in Notable :
             new[d].owed[k] + new[d].told[k]
                 = wsOwed[d][k] + wsTold[d][k] + (IF k = "*" THEN 0 ELSE 0)
      BY <2>4, <3>1, SMT
    <3>5. \A d \in Conns, k \in Notable :
             wsMeant'[d][k] = wsMeant[d][k] + (IF d \in {c} /\ k = "*" THEN 0 ELSE 0)
      BY <2>1, <3>2, SMT
    <3>6. \A d \in {c} : Kept(ClientOf(d), new[d])
      BY <2>4
    <3>7. 0 \in Nat /\ {c} \in SUBSET Conns
      OBVIOUS
    <3> QED BY <2>1, <2>2, <3>3, <3>4, <3>5, <3>6, <3>7, BooksUpdated, SMT DEF IInv
  <2>8. FrameAfterNotice
    <3>1. \A d \in {c} : Announced(ClientOf(d), new[d])
      BY <2>5
    <3> QED BY <2>1, <3>1, FramesAnnounced, SMT DEF IInv
  <2> QED BY <2>6, <2>7, <2>8
<1> QED BY <1>1, <1>2

LEMMA HelloStep ==
    ASSUME IInv, Hello
    PROVE  IInv' /\ FrameAfterNotice
<1> DEFINE c == wsOpen.conn
<1>1. wsOpen # None /\ c \in Conns /\ wsPeer[c] # "away"
  BY DEF Hello, IInv, SessionInv
<1>2. /\ send_direct(c) /\ wsOpen' = [wsOpen EXCEPT !.pc = "reader"]
      /\ UNCHANGED <<wsPeer, clientVars, threadVars, boundVars>>
  BY DEF Hello
<1>3. SessionInv'
  <2>1. wsOpen' \in [conn : Conns, pc : {"sender", "hello", "reader"}]
        /\ wsOpen'.conn = c /\ wsOpen'.pc = "reader"
    BY <1>1, <1>2 DEF IInv, SessionInv
  <2> HIDE DEF c
  <2> QED BY <1>1, <1>2, <2>1 DEF IInv, SessionInv, threadVars
<1> HIDE DEF c
<1>4. ClientInv' /\ CohortInv'
  BY <1>2, ClientsAlone DEF IInv, CohortInv, boundVars
<1>5. QueueInv' /\ BookInv' /\ FrameAfterNotice
  BY <1>1, <1>2, DirectSent DEF clientVars, threadVars
<1> QED BY <1>3, <1>4, <1>5 DEF IInv

LEMMA SendReplyStep ==
    ASSUME IInv, NEW c \in Conns, SendReply(c)
    PROVE  IInv' /\ FrameAfterNotice
<1>1. /\ send_direct(c) /\ wsReader' = [wsReader EXCEPT ![c] = "reading"]
      /\ UNCHANGED <<sessionVars, clientVars, wsSender, boundVars>>
  BY DEF SendReply
<1>2. SessionInv'
  BY <1>1 DEF IInv, SessionInv, sessionVars
<1>3. ClientInv' /\ CohortInv'
  BY <1>1, ClientsAlone DEF IInv, CohortInv, boundVars, sessionVars
<1>4. QueueInv' /\ BookInv' /\ FrameAfterNotice
  BY <1>1, DirectSent DEF clientVars, sessionVars
<1> QED BY <1>2, <1>3, <1>4 DEF IInv

LEMMA SubscribeStep ==
    ASSUME IInv, NEW c \in Conns, NEW ch \in Channels, NEW level \in LogLevels,
           Subscribe(c, ch, level)
    PROVE  IInv'
<1>1. /\ wsPeer[c] = "up" /\ wsReader' = [wsReader EXCEPT ![c] = "replying"]
      /\ wsSubs' = [wsSubs EXCEPT ![c] = @ \cup {ch}]
      /\ wsLevel' = [wsLevel EXCEPT ![c] = IF ch = "logs" THEN level ELSE @]
      /\ refresh_gates(wsClients, wsSubs', wsLevel')
      /\ UNCHANGED <<sessionVars, wsClients, wsCount, queueVars, wsSender, wsCohorts>>
  BY DEF Subscribe, Reply
<1>2. SessionInv'
  BY <1>1 DEF IInv, SessionInv, sessionVars
<1>3. ClientInv'
  <2>1. wsGates' = GatesOf(wsClients', wsSubs', wsLevel')
    BY <1>1, RefreshIsGates
  <2>2. wsSubs' \in [Conns -> SUBSET Channels] /\ wsLevel' \in [Conns -> LogLevels \cup {None}]
    BY <1>1 DEF IInv, ClientInv
  <2>3. \A d \in Conns : "logs" \in wsSubs'[d] <=> wsLevel'[d] # None
    BY <1>1, WsAssumption DEF IInv, ClientInv
  <2>4. \A d \in Conns : wsPeer'[d] = "away" => d \notin wsClients' /\ wsSubs'[d] = {}
    BY <1>1 DEF IInv, ClientInv, sessionVars
  <2> QED BY <1>1, <2>1, <2>2, <2>3, <2>4 DEF IInv, ClientInv
<1>4. QueueInv' /\ CohortInv'
  BY <1>1, QueuesAlone DEF IInv, CohortInv
<1>5. BookInv'
  BY <1>1, BooksAlone DEF IInv, Following, queueVars, sessionVars
<1> QED BY <1>2, <1>3, <1>4, <1>5 DEF IInv

LEMMA UnsubscribeStep ==
    ASSUME IInv, NEW c \in Conns, NEW ch \in Channels, Unsubscribe(c, ch)
    PROVE  IInv'
<1>1. /\ wsPeer[c] = "up" /\ wsReader' = [wsReader EXCEPT ![c] = "replying"]
      /\ wsSubs' = [wsSubs EXCEPT ![c] = @ \ {ch}]
      /\ wsLevel' = [wsLevel EXCEPT ![c] = IF ch = "logs" THEN None ELSE @]
      /\ refresh_gates(wsClients, wsSubs', wsLevel')
      /\ UNCHANGED <<sessionVars, wsClients, wsCount, wsQueue, wsBatch, wsBytes, wsClosed,
                     wsSender, wsCohorts>>
  BY DEF Unsubscribe, Reply
<1>2. SessionInv'
  BY <1>1 DEF IInv, SessionInv, sessionVars
<1>3. ClientInv'
  <2>1. wsGates' = GatesOf(wsClients', wsSubs', wsLevel')
    BY <1>1, RefreshIsGates
  <2>2. wsSubs' \in [Conns -> SUBSET Channels] /\ wsLevel' \in [Conns -> LogLevels \cup {None}]
    BY <1>1 DEF IInv, ClientInv
  <2>3. \A d \in Conns : "logs" \in wsSubs'[d] <=> wsLevel'[d] # None
    BY <1>1, WsAssumption DEF IInv, ClientInv
  <2>4. \A d \in Conns : wsPeer'[d] = "away" => d \notin wsClients' /\ wsSubs'[d] = {}
    BY <1>1 DEF IInv, ClientInv, sessionVars
  <2> QED BY <1>1, <2>1, <2>2, <2>3, <2>4 DEF IInv, ClientInv
<1>4. QueueInv' /\ CohortInv'
  BY <1>1 DEF IInv, QueueInv, CohortInv
<1>5. BookInv'
  <2>1. /\ wsOwed' = [wsOwed EXCEPT ![c][ch] = 0] /\ wsMeant' = [wsMeant EXCEPT ![c][ch] = 0]
        /\ wsTold' = [wsTold EXCEPT ![c][ch] = 0]
    BY DEF Unsubscribe
  <2>2. ch \in Notable
    BY DEF Notable
  <2>3. /\ wsOwed' \in [Conns -> [Notable -> Nat]] /\ wsMeant' \in [Conns -> [Notable -> Nat]]
        /\ wsTold' \in [Conns -> [Notable -> Nat]]
    BY <2>1, <2>2 DEF IInv, BookInv
  <2>4. \A d \in Conns : wsPeer'[d] = "away" \/ Following(d)' => wsPeer[d] = "away" \/ Following(d)
    BY <1>1 DEF Following, sessionVars
  <2>5. \A d \in Conns, k \in Notable :
           \/ /\ wsOwed'[d][k] = wsOwed[d][k] /\ wsMeant'[d][k] = wsMeant[d][k]
              /\ wsTold'[d][k] = wsTold[d][k]
           \/ wsOwed'[d][k] = 0 /\ wsMeant'[d][k] = 0 /\ wsTold'[d][k] = 0
    BY <2>1, <2>2 DEF IInv, BookInv
  <2>6. ASSUME NEW d \in Conns, wsPeer'[d] = "away" \/ Following(d)', NEW k \in Notable
        PROVE  wsMeant'[d][k] = wsTold'[d][k] + wsOwed'[d][k]
    <3>1. wsMeant[d][k] = wsTold[d][k] + wsOwed[d][k]
      BY <2>4, <2>6 DEF IInv, BookInv
    <3> QED BY <2>5, <3>1, SMT
  <2> QED BY <2>3, <2>6 DEF BookInv
<1> QED BY <1>2, <1>3, <1>4, <1>5 DEF IInv

LEMMA StopReadingStep ==
    ASSUME IInv, NEW c \in Conns, StopReading(c)
    PROVE  IInv'
<1>1. /\ wsReader' = [wsReader EXCEPT ![c] = "leaving"]
      /\ UNCHANGED <<wsOpen, wsPeer, clientVars, queueVars, wsSender, wsCohorts>>
  BY DEF StopReading
<1>2. SessionInv' /\ CohortInv'
  BY <1>1 DEF IInv, SessionInv, CohortInv
<1>3. ClientInv' /\ QueueInv'
  BY <1>1, ClientsAlone, QueuesAlone DEF IInv
<1>4. BookInv'
  BY <1>1, BooksAlone DEF IInv, Following, queueVars, clientVars
<1> QED BY <1>2, <1>3, <1>4 DEF IInv

LEMMA PeerLeavesStep ==
    ASSUME IInv, NEW c \in Conns, NEW how \in {"closed", "silent"}, PeerLeaves(c, how)
    PROVE  IInv'
<1>1. /\ wsPeer[c] = "up" /\ wsPeer' = [wsPeer EXCEPT ![c] = how]
      /\ UNCHANGED <<wsOpen, clientVars, queueVars, threadVars, wsCohorts>>
  BY DEF PeerLeaves
<1>2. \A d \in Conns : wsPeer'[d] = "away" <=> wsPeer[d] = "away"
  BY <1>1 DEF IInv, SessionInv
<1>3. SessionInv' /\ CohortInv'
  BY <1>1, <1>2 DEF IInv, SessionInv, CohortInv, threadVars
<1>4. ClientInv'
  BY <1>1, <1>2 DEF IInv, ClientInv, clientVars
<1>5. QueueInv'
  BY <1>1, QueuesAlone DEF IInv, threadVars
<1>6. BookInv'
  BY <1>1, <1>2, BooksAlone DEF IInv, Following, queueVars, clientVars, threadVars
<1> QED BY <1>3, <1>4, <1>5, <1>6 DEF IInv

LEMMA TakeBatchStep ==
    ASSUME IInv, NEW c \in Conns, TakeBatch(c)
    PROVE  IInv'
<1>1. /\ wsSender[c] = "recv" /\ wsBatch' = [wsBatch EXCEPT ![c] = wsQueue[c]]
      /\ wsQueue' = [wsQueue EXCEPT ![c] = <<>>] /\ wsSender' = [wsSender EXCEPT ![c] = "sending"]
      /\ UNCHANGED <<sessionVars, clientVars, wsOwed, wsBytes, wsClosed, wsMeant, wsTold,
                     wsReader, boundVars>>
  BY DEF TakeBatch
<1>2. SessionInv' /\ CohortInv'
  BY <1>1 DEF IInv, SessionInv, CohortInv, sessionVars, boundVars
<1>3. ClientInv'
  BY <1>1, ClientsAlone DEF IInv, sessionVars
<1>4. QueueInv'
  <2>1. /\ wsQueue[c] \in Seq(Item) /\ wsBatch[c] = <<>> /\ Len(wsQueue[c]) \in Nat
        /\ wsBytes[c] = Len(wsQueue[c]) + Len(wsBatch[c])
    BY <1>1, SMT DEF IInv, QueueInv
  <2>2. wsBytes[c] = Len(<<>>) + Len(wsQueue[c]) /\ Len(<<>>) <= QueueDepth
    BY <2>1, WsAssumption, SMT
  <2>3. <<>> \in Seq(Item)
    BY SMT
  <2>4. wsQueue' \in [Conns -> Seq(Item)] /\ wsBatch' \in [Conns -> Seq(Item)]
    BY <1>1, <2>1, <2>3 DEF IInv, QueueInv
  <2>5. /\ wsQueue'[c] = <<>> /\ wsBatch'[c] = wsQueue[c] /\ wsSender'[c] = "sending"
        /\ \A d \in Conns : d # c => /\ wsQueue'[d] = wsQueue[d] /\ wsBatch'[d] = wsBatch[d]
                                     /\ wsSender'[d] = wsSender[d]
    BY <1>1 DEF IInv, QueueInv, SessionInv
  <2>6. wsBytes' = wsBytes /\ wsClosed' = wsClosed
    BY <1>1
  <2> QED BY <2>2, <2>4, <2>5, <2>6 DEF IInv, QueueInv
<1>5. BookInv'
  BY <1>1, BooksAlone DEF IInv, SessionInv, Following, sessionVars, clientVars
<1> QED BY <1>2, <1>3, <1>4, <1>5 DEF IInv

LEMMA SendBatchStep ==
    ASSUME IInv, NEW c \in Conns, NEW sent \in BOOLEAN, SendBatch(c, sent)
    PROVE  IInv'
<1>1. /\ wsSender[c] = "sending" /\ wsBatch' = [wsBatch EXCEPT ![c] = <<>>]
      /\ wsBytes' = [wsBytes EXCEPT ![c] = @ - Len(wsBatch[c])]
      /\ wsSender' = [wsSender EXCEPT ![c] = IF sent THEN "recv" ELSE "shutting"]
      /\ UNCHANGED <<wsOpen, wsPeer, clientVars, wsOwed, wsQueue, wsClosed, wsMeant, wsTold,
                     wsReader, boundVars>>
  BY DEF SendBatch
<1>2. SessionInv' /\ CohortInv'
  BY <1>1 DEF IInv, SessionInv, CohortInv, boundVars
<1>3. ClientInv'
  BY <1>1, ClientsAlone DEF IInv
<1>4. QueueInv'
  <2> DEFINE b == wsBytes[c]
             q == Len(wsQueue[c])
             t == Len(wsBatch[c])
  <2>1. /\ b \in 0 .. QueueBytes /\ q \in Nat /\ t \in Nat /\ b = q + t
    BY <1>1, SMT DEF IInv, QueueInv
  <2> HIDE DEF b, q, t
  <2>2. b - t = q /\ b - t \in 0 .. QueueBytes
    BY <2>1, WsAssumption, SMT
  <2>3. wsBytes'[c] = wsBytes[c] - Len(wsBatch[c])
    BY <1>1 DEF IInv, QueueInv
  <2>4. wsBytes'[c] = Len(wsQueue[c]) /\ wsBytes'[c] \in 0 .. QueueBytes
    BY <2>2, <2>3 DEF b, q, t
  <2>5. /\ \A d \in Conns : d # c => /\ wsBytes'[d] = wsBytes[d] /\ wsBatch'[d] = wsBatch[d]
                                     /\ wsSender'[d] = wsSender[d]
        /\ wsBatch'[c] = <<>> /\ wsSender'[c] # "sending"
    BY <1>1 DEF IInv, QueueInv, SessionInv
  <2>6. wsBytes' \in [Conns -> 0 .. QueueBytes]
    <3>1. \A d \in Conns : wsBytes'[d] \in 0 .. QueueBytes
      BY <2>4, <2>5 DEF IInv, QueueInv
    <3>2. wsBytes' = [d \in Conns |-> wsBytes'[d]]
      BY <1>1 DEF IInv, QueueInv
    <3> QED BY <3>1, <3>2
  <2>7. wsBatch' \in [Conns -> Seq(Item)]
    <3>1. <<>> \in Seq(Item)
      BY SMT
    <3> QED BY <1>1, <3>1 DEF IInv, QueueInv
  <2>8. wsBytes'[c] = Len(wsQueue[c]) + Len(wsBatch'[c])
    <3>1. Len(wsQueue[c]) \in Nat /\ Len(<<>>) = 0
      BY SMT DEF IInv, QueueInv
    <3> QED BY <2>4, <2>5, <3>1, SMT
  <2> QED BY <1>1, <2>5, <2>6, <2>7, <2>8 DEF IInv, QueueInv
<1>5. BookInv'
  BY <1>1, BooksAlone DEF IInv, SessionInv, Following, clientVars
<1> QED BY <1>2, <1>3, <1>4, <1>5 DEF IInv

LEMMA ShutStep ==
    ASSUME IInv, NEW c \in Conns, Shut(c)
    PROVE  IInv'
<1>1. /\ wsSender[c] \in {"shutting", "recv"} /\ wsQueue' = [wsQueue EXCEPT ![c] = <<>>]
      /\ wsBytes' = [wsBytes EXCEPT ![c] = 0] /\ wsClosed' = [wsClosed EXCEPT ![c] = TRUE]
      /\ wsSender' = [wsSender EXCEPT ![c] = "ended"]
      /\ UNCHANGED <<wsOpen, wsPeer, clientVars, wsOwed, wsBatch, wsMeant, wsTold, wsReader,
                     boundVars>>
  BY DEF Shut
<1>2. SessionInv' /\ CohortInv'
  BY <1>1 DEF IInv, SessionInv, CohortInv, boundVars
<1>3. ClientInv'
  BY <1>1, ClientsAlone DEF IInv
<1>4. QueueInv'
  <2>1. <<>> \in Seq(Item) /\ Len(<<>>) <= QueueDepth /\ 0 \in 0 .. QueueBytes
    BY WsAssumption, SMT
  <2> QED BY <1>1, <2>1 DEF IInv, SessionInv, QueueInv
<1>5. BookInv'
  BY <1>1, BooksAlone DEF IInv, SessionInv, QueueInv, Following, clientVars
<1> QED BY <1>2, <1>3, <1>4, <1>5 DEF IInv

\* A frame of weight units to some of the clients.
LEMMA Delivered ==
    ASSUME IInv, NEW cs \in SUBSET Conns, NEW ch \in Channels, NEW weight \in Nat,
           DeliverAll(cs, ch, weight), UNCHANGED <<wsPeer, wsSender, wsClients>>
    PROVE  QueueInv' /\ BookInv' /\ FrameAfterNotice
<1> DEFINE new == [c \in cs |-> deliver(ClientOf(c), ch, weight)]
<1>1. /\ Update(cs, new) /\ wsBatch' = wsBatch
      /\ wsMeant' = [c \in Conns |-> IF c \in cs THEN [wsMeant[c] EXCEPT ![ch] = @ + weight]
                                     ELSE wsMeant[c]]
  BY DEF DeliverAll
<1>2. ch \in Notable
  BY DEF Notable
<1>3. ASSUME NEW c \in cs
      PROVE  /\ Kept(ClientOf(c), new[c]) /\ Announced(ClientOf(c), new[c])
             /\ wsSender[c] # "ended" => \A k \in Notable :
                   new[c].owed[k] + new[c].told[k]
                       = wsOwed[c][k] + wsTold[c][k] + (IF k = ch THEN weight ELSE 0)
  <2>1. /\ ClientOf(c) \in Rec /\ Len(ClientOf(c).queue) <= QueueDepth
        /\ ClientOf(c).owed = wsOwed[c] /\ ClientOf(c).told = wsTold[c]
        /\ wsSender[c] # "ended" => ~ClientOf(c).gone
    BY ClientIsRec DEF IInv
  <2>2. new[c] = deliver(ClientOf(c), ch, weight)
    OBVIOUS
  <2> HIDE DEF new
  <2> QED BY <2>1, <2>2, DeliverFacts, SMT
<1> HIDE DEF new
<1>4. QueueInv'
  BY <1>1, <1>3, QueuesUpdated DEF IInv
<1>5. FrameAfterNotice
  BY <1>1, <1>3, FramesAnnounced DEF IInv
<1>6. BookInv'
  <2>1. wsMeant \in [Conns -> [Notable -> Nat]]
    BY DEF IInv, BookInv
  <2>2. ASSUME NEW c \in Conns
        PROVE  /\ wsMeant'[c] \in [Notable -> Nat]
               /\ \A k \in Notable : wsMeant'[c][k]
                     = wsMeant[c][k] + (IF c \in cs /\ k = ch THEN weight ELSE 0)
    <3>1. wsMeant[c] \in [Notable -> Nat] /\ \A k \in Notable : wsMeant[c][k] \in Nat
      BY <2>1
    <3>2. wsMeant'[c] = IF c \in cs THEN [wsMeant[c] EXCEPT ![ch] = @ + weight] ELSE wsMeant[c]
      BY <1>1
    <3>3. wsMeant[c][ch] + weight \in Nat
      BY <1>2, <3>1, SMT
    <3> QED BY <1>2, <3>1, <3>2, <3>3, SMT
  <2>3. wsMeant' \in [Conns -> [Notable -> Nat]]
    BY <1>1, <2>2
  <2>4. \A c \in Conns, k \in Notable :
           wsMeant'[c][k] = wsMeant[c][k] + (IF c \in cs /\ k = ch THEN weight ELSE 0)
    BY <2>2
  <2> QED BY <1>1, <1>2, <1>3, <2>3, <2>4, BooksUpdated, SMT DEF IInv
<1> QED BY <1>4, <1>5, <1>6

LEMMA BroadcastStep ==
    ASSUME IInv, NEW ch \in Channels, NEW weight \in 1..2, Broadcast(ch, weight)
    PROVE  IInv' /\ FrameAfterNotice
<1> DEFINE cs == {c \in wsClients : ch \in wsSubs[c]}
<1>1. /\ DeliverAll(cs, ch, weight)
      /\ UNCHANGED <<sessionVars, clientVars, threadVars, wsCohorts>>
  BY DEF Broadcast
<1>2. cs \in SUBSET Conns /\ weight \in Nat
  BY SMT DEF IInv, ClientInv
<1> HIDE DEF cs
<1>3. SessionInv' /\ CohortInv'
  BY <1>1 DEF IInv, SessionInv, CohortInv, sessionVars, threadVars
<1>4. ClientInv'
  BY <1>1, ClientsAlone DEF IInv, sessionVars
<1>5. QueueInv' /\ BookInv' /\ FrameAfterNotice
  BY <1>1, <1>2, Delivered DEF sessionVars, threadVars, clientVars
<1> QED BY <1>3, <1>4, <1>5 DEF IInv

LEMMA FlushLogsStep ==
    ASSUME IInv, NEW lines \in SUBSET LogLevels, NEW missed \in 0..1, FlushLogs(lines, missed)
    PROVE  IInv'
<1>1. UNCHANGED <<sessionVars, clientVars, queueVars, threadVars>>
  BY DEF FlushLogs
<1>2. CohortInv'
  <2> DEFINE levels == {wsLevel[c] : c \in {d \in wsClients : "logs" \in wsSubs[d]}}
  <2>1. levels \subseteq LogLevels \cup {None}
    BY DEF IInv, ClientInv
  <2>2. wsCohorts' = [levels |-> levels, lines |-> lines, missed |-> missed]
    BY DEF FlushLogs
  <2> HIDE DEF levels
  <2> QED BY <2>1, <2>2, SMT DEF CohortInv
<1>3. SessionInv'
  BY <1>1 DEF IInv, SessionInv, sessionVars, threadVars
<1>4. ClientInv' /\ QueueInv'
  BY <1>1, ClientsAlone, QueuesAlone DEF IInv, sessionVars, threadVars
<1>5. BookInv'
  BY <1>1, BooksAlone DEF IInv, Following, queueVars, sessionVars, clientVars, threadVars
<1> QED BY <1>2, <1>3, <1>4, <1>5 DEF IInv

LEMMA OverflowStep ==
    ASSUME IInv, NoteInboxOverflow
    PROVE  IInv' /\ FrameAfterNotice
<1> DEFINE new == [c \in wsClients |-> notify_loss(count_drop(ClientOf(c), "*", 1), "*")]
<1>1. /\ Update(wsClients, new)
      /\ wsMeant' = [c \in Conns |-> IF c \in wsClients THEN [wsMeant[c] EXCEPT !["*"] = @ + 1]
                                     ELSE wsMeant[c]]
      /\ UNCHANGED <<sessionVars, clientVars, wsBatch, threadVars, wsCohorts>>
  BY DEF NoteInboxOverflow
<1>2. "*" \in Notable /\ wsClients \in SUBSET Conns /\ 1 \in Nat
  BY DEF Notable, IInv, ClientInv
<1>3. ASSUME NEW c \in wsClients
      PROVE  /\ Kept(ClientOf(c), new[c]) /\ Announced(ClientOf(c), new[c])
             /\ \A k \in Notable : new[c].owed[k] + new[c].told[k]
                   = wsOwed[c][k] + wsTold[c][k] + (IF k = "*" THEN 1 ELSE 0)
  <2>1. /\ ClientOf(c) \in Rec /\ Len(ClientOf(c).queue) <= QueueDepth
        /\ ClientOf(c).owed = wsOwed[c] /\ ClientOf(c).told = wsTold[c]
    BY <1>2, ClientIsRec DEF IInv
  <2>2. new[c] = notify_loss(count_drop(ClientOf(c), "*", 1), "*")
    OBVIOUS
  <2> HIDE DEF new
  <2> QED BY <2>1, <2>2, OverflowFacts
<1> HIDE DEF new
<1>4. SessionInv' /\ ClientInv' /\ CohortInv'
  BY <1>1, ClientsAlone DEF IInv, SessionInv, CohortInv, sessionVars, threadVars
<1>5. QueueInv'
  BY <1>1, <1>2, <1>3, QueuesUpdated DEF IInv, threadVars
<1>6. FrameAfterNotice
  BY <1>1, <1>2, <1>3, FramesAnnounced DEF IInv
<1>7. BookInv'
  <2>1. wsMeant \in [Conns -> [Notable -> Nat]]
    BY DEF IInv, BookInv
  <2>2. ASSUME NEW c \in Conns
        PROVE  /\ wsMeant'[c] \in [Notable -> Nat]
               /\ \A k \in Notable : wsMeant'[c][k]
                     = wsMeant[c][k] + (IF c \in wsClients /\ k = "*" THEN 1 ELSE 0)
    <3>1. wsMeant[c] \in [Notable -> Nat] /\ \A k \in Notable : wsMeant[c][k] \in Nat
      BY <2>1
    <3>2. wsMeant'[c] = IF c \in wsClients THEN [wsMeant[c] EXCEPT !["*"] = @ + 1] ELSE wsMeant[c]
      BY <1>1
    <3>3. wsMeant[c]["*"] + 1 \in Nat
      BY <1>2, <3>1, SMT
    <3> QED BY <1>2, <3>1, <3>2, <3>3, SMT
  <2>3. wsMeant' \in [Conns -> [Notable -> Nat]]
    BY <1>1, <2>2
  <2>4. \A c \in Conns, k \in Notable :
           wsMeant'[c][k] = wsMeant[c][k] + (IF c \in wsClients /\ k = "*" THEN 1 ELSE 0)
    BY <2>2
  <2>5. UNCHANGED <<wsPeer, wsSender, wsClients>>
    BY <1>1 DEF sessionVars, threadVars, clientVars
  <2> QED BY <1>1, <1>2, <1>3, <2>3, <2>4, <2>5, BooksUpdated, SMT DEF IInv
<1> QED BY <1>4, <1>5, <1>6, <1>7 DEF IInv

LEMMA NoGrowth ==
    ASSUME QueueInv, \A c \in Conns : wsQueue'[c] = wsQueue[c] \/ wsQueue'[c] = <<>>
    PROVE  FrameAfterNotice
<1>1. \A c \in Conns : Len(wsQueue[c]) \in Nat /\ Len(<<>>) = 0
  BY SMT DEF QueueInv
<1> QED BY <1>1, SMT DEF FrameAfterNotice

-----------------------------------------------------------------------------
\* The initial state, and the actions that add or remove a client: their
\* lemmas count the clients.

INSTANCE FiniteSetTheorems

\* A finite set of numbers has a largest element: of the sets of elements no
\* smaller than a given one, take one that strictly contains no other.
LEMMA MaxIsMember ==
    ASSUME NEW S, IsFiniteSet(S), S \subseteq Nat, S # {}
    PROVE  Max(S) \in S
<1> DEFINE Above(x) == {y \in S : y >= x}
           T == {Above(x) : x \in S}
<1>1. T \subseteq SUBSET S /\ T # {}
  OBVIOUS
<1>2. IsWellFoundedOn(StrictSubsetOrdering(S), SUBSET S)
  BY FS_StrictSubsetOrderingWellFounded, FS_FiniteSubsetsOfFinite
<1> HIDE DEF T
<1>3. PICK m \in T : \A u \in T : ~(<<u, m>> \in StrictSubsetOrdering(S))
  BY <1>1, <1>2, WFMin
<1>4. PICK x \in S : m = Above(x)
  BY <1>3 DEF T
<1>5. ASSUME NEW y \in S PROVE x >= y
  <2>1. SUFFICES ASSUME y > x PROVE FALSE
    BY <1>4, SMT
  <2>2. Above(y) \subseteq m /\ x \in m /\ x \notin Above(y)
    <3>1. x \in Nat /\ y \in Nat /\ \A z \in S : z \in Nat
      OBVIOUS
    <3>2. x \in m /\ x \notin Above(y)
      BY <1>4, <2>1, <3>1, SMT
    <3>3. ASSUME NEW z \in Above(y) PROVE z \in m
      BY <1>4, <2>1, <3>1, <3>3, SMT
    <3> QED BY <3>2, <3>3
  <2>3. Above(y) \in T /\ Above(y) \subseteq S /\ m \subseteq S
    BY <1>4 DEF T
  <2> QED BY <1>3, <2>2, <2>3 DEF StrictSubsetOrdering
<1> QED BY <1>4, <1>5 DEF Max

LEMMA ClientsRemoved ==
    ASSUME ClientInv, NEW cs \in SUBSET Conns, RemoveClients(cs),
           wsSubs' = wsSubs, wsLevel' = wsLevel, wsPeer' = wsPeer
    PROVE  ClientInv'
<1>1. IsFiniteSet(wsClients)
  BY FS_Subset, WsAssumption DEF ClientInv
<1>2. wsCount' = Cardinality(wsClients')
  <2>1. /\ Cardinality(wsClients \ cs) = Cardinality(wsClients) - Cardinality(wsClients \cap cs)
        /\ wsClients \cap cs = cs \cap wsClients
    BY <1>1, FS_Difference
  <2> QED BY <2>1 DEF ClientInv, RemoveClients
<1>3. wsGates' = GatesOf(wsClients', wsSubs, wsLevel)
  <2>1. CASE cs \cap wsClients # {}
    BY <2>1, RefreshIsGates DEF RemoveClients
  <2>2. CASE cs \cap wsClients = {}
    <3>1. wsClients' = wsClients
      BY <2>2 DEF RemoveClients
    <3> QED BY <2>2, <3>1 DEF RemoveClients, ClientInv
  <2> QED BY <2>1, <2>2
<1>4. wsClients' \subseteq wsClients
  BY DEF RemoveClients
<1> QED BY <1>2, <1>3, <1>4 DEF ClientInv

LEMMA InitHolds == WsInit => IInv
<1> SUFFICES ASSUME WsInit PROVE IInv
  OBVIOUS
<1>1. SessionInv
  BY DEF WsInit, SessionInv
<1>2. ClientInv
  <2>1. Cardinality({}) = 0
    BY FS_EmptySet
  <2>2. wsGates = GatesOf(wsClients, wsSubs, wsLevel)
    <3>1. wsClients = {}
      BY DEF WsInit
    <3>2. /\ UNION {wsSubs[c] : c \in wsClients} = {}
          /\ {ArmedLevel} \cup {wsLevel[c] : c \in {d \in wsClients : wsLevel[d] # None}}
             = {ArmedLevel}
      BY <3>1
    <3>3. IsFiniteSet({ArmedLevel}) /\ {ArmedLevel} \subseteq Nat /\ {ArmedLevel} # {}
      BY WsAssumption, FS_Singleton
    <3>4. Max({ArmedLevel}) \in {ArmedLevel}
      BY <3>3, MaxIsMember
    <3>5. GatesOf(wsClients, wsSubs, wsLevel) = [mask |-> {}, tap |-> FALSE, level |-> ArmedLevel]
      <4>1. ("sniffer" \in {}) = FALSE
        BY SMT
      <4> QED BY <3>2, <3>4, <4>1 DEF GatesOf
    <3> QED BY <3>5 DEF WsInit
  <2> QED BY <2>1, <2>2 DEF WsInit, ClientInv
<1>3. QueueInv
  BY WsAssumption, SMT DEF WsInit, QueueInv
<1>4. BookInv
  <2>1. [ch \in Notable |-> 0] \in [Notable -> Nat]
    OBVIOUS
  <2> QED BY <2>1, SMT DEF WsInit, BookInv
<1>5. CohortInv
  BY DEF WsInit, CohortInv
<1> QED BY <1>1, <1>2, <1>3, <1>4, <1>5 DEF IInv

LEMMA RegisterStep ==
    ASSUME IInv, NEW c \in Conns, Register(c)
    PROVE  IInv'
<1>1. /\ wsPeer' = [wsPeer EXCEPT ![c] = "up"] /\ wsPeer[c] = "away" /\ wsOpen = None
      /\ UNCHANGED <<wsSubs, wsLevel, wsGates, queueVars, threadVars, boundVars>>
  BY DEF Register
<1>2. SessionInv'
  BY <1>1, SMT DEF IInv, SessionInv, Register, threadVars
<1>3. ClientInv'
  <2>1. CASE wsClients' = wsClients /\ wsCount' = wsCount
    BY <1>1, <2>1 DEF IInv, SessionInv, ClientInv
  <2>2. CASE wsClients' = wsClients \cup {c} /\ wsCount' = wsCount + 1
    <3>1. IsFiniteSet(wsClients) /\ c \notin wsClients /\ wsSubs[c] = {} /\ wsLevel[c] = None
      BY <1>1, FS_Subset, WsAssumption DEF IInv, ClientInv
    <3>2. wsCount' = Cardinality(wsClients')
      BY <2>2, <3>1, FS_AddElement DEF IInv, ClientInv
    <3>3. wsGates' = GatesOf(wsClients', wsSubs, wsLevel)
      BY <1>1, <2>2, <3>1, QuietClient, SMT DEF IInv, ClientInv
    <3> QED BY <1>1, <2>2, <3>2, <3>3 DEF IInv, SessionInv, ClientInv
  <2> QED BY <2>1, <2>2 DEF Register
<1>4. QueueInv'
  BY <1>1, QueuesAlone DEF IInv, threadVars
<1>5. BookInv'
  <2>1. wsClients' \subseteq wsClients \cup {c}
    BY DEF Register
  <2> QED BY <1>1, <2>1, BooksAlone DEF IInv, SessionInv, Following, queueVars, threadVars
<1>6. CohortInv'
  BY <1>1 DEF IInv, CohortInv, boundVars
<1> QED BY <1>2, <1>3, <1>4, <1>5, <1>6 DEF IInv

LEMMA StartSenderStep ==
    ASSUME IInv, StartSender
    PROVE  IInv'
<1> DEFINE c == wsOpen.conn
<1>1. /\ wsOpen # None /\ wsOpen.pc = "sender" /\ c \in Conns /\ wsPeer[c] # "away"
      /\ wsSender[c] = "none"
  BY DEF StartSender, IInv, SessionInv
<1>2. UNCHANGED <<wsPeer, queueVars, wsReader, boundVars>>
  BY DEF StartSender
<1>3. \/ /\ wsSender' = [wsSender EXCEPT ![c] = "recv"]
         /\ wsOpen' = [wsOpen EXCEPT !.pc = "hello"]
         /\ UNCHANGED clientVars
      \/ /\ wsSender' = [wsSender EXCEPT ![c] = "ended"] /\ wsOpen' = None
         /\ RemoveClients({c}) /\ UNCHANGED <<wsSubs, wsLevel>>
  BY DEF StartSender
<1>4. SessionInv'
  <2>1. CASE wsOpen' = None
    BY <1>1, <1>2, <1>3, <2>1 DEF IInv, SessionInv
  <2>2. CASE wsOpen' = [wsOpen EXCEPT !.pc = "hello"] /\ wsSender' = [wsSender EXCEPT ![c] = "recv"]
    <3>1. wsOpen' \in [conn : Conns, pc : {"sender", "hello", "reader"}]
          /\ wsOpen'.conn = c /\ wsOpen'.pc = "hello"
      BY <1>1, <2>2 DEF IInv, SessionInv
    <3> HIDE DEF c
    <3> QED BY <1>1, <1>2, <2>2, <3>1 DEF IInv, SessionInv
  <2> QED BY <1>3, <2>1, <2>2
<1> HIDE DEF c
<1>5. ClientInv'
  BY <1>1, <1>2, <1>3, ClientsAlone, ClientsRemoved DEF IInv
<1>6. QueueInv'
  BY <1>1, <1>2, <1>3 DEF IInv, SessionInv, QueueInv, queueVars
<1>7. BookInv'
  <2>1. wsClients' \subseteq wsClients
    BY <1>3 DEF clientVars, RemoveClients
  <2> QED BY <1>1, <1>2, <1>3, <2>1, BooksAlone DEF IInv, SessionInv, Following, queueVars
<1>8. CohortInv'
  BY <1>2 DEF IInv, CohortInv, boundVars
<1> QED BY <1>4, <1>5, <1>6, <1>7, <1>8 DEF IInv

LEMMA StartReaderStep ==
    ASSUME IInv, StartReader
    PROVE  IInv'
<1> DEFINE c == wsOpen.conn
<1>1. wsOpen # None /\ c \in Conns
  BY DEF StartReader, IInv, SessionInv
<1>2. wsOpen' = None /\ UNCHANGED <<wsPeer, queueVars, wsSender, boundVars>>
  BY DEF StartReader
<1>3. \/ wsReader' = [wsReader EXCEPT ![c] = "reading"] /\ UNCHANGED clientVars
      \/ RemoveClients({c}) /\ UNCHANGED <<wsSubs, wsLevel, wsReader>>
  BY DEF StartReader
<1> HIDE DEF c
<1>4. SessionInv'
  BY <1>1, <1>2, <1>3 DEF IInv, SessionInv
<1>5. ClientInv'
  BY <1>1, <1>2, <1>3, ClientsAlone, ClientsRemoved DEF IInv
<1>6. QueueInv' /\ CohortInv'
  BY <1>2, QueuesAlone DEF IInv, CohortInv, boundVars
<1>7. BookInv'
  <2>1. wsClients' \subseteq wsClients
    BY <1>3 DEF clientVars, RemoveClients
  <2> QED BY <1>2, <2>1, BooksAlone DEF IInv, Following, queueVars
<1> QED BY <1>4, <1>5, <1>6, <1>7 DEF IInv

LEMMA ForgetStep ==
    ASSUME IInv, NEW c \in Conns, Forget(c)
    PROVE  IInv'
<1>1. /\ RemoveClients({c}) /\ wsReader' = [wsReader EXCEPT ![c] = "ended"]
      /\ UNCHANGED <<sessionVars, wsSubs, wsLevel, queueVars, wsSender, boundVars>>
  BY DEF Forget
<1>2. SessionInv' /\ CohortInv'
  BY <1>1 DEF IInv, SessionInv, CohortInv, sessionVars, boundVars
<1>3. ClientInv' /\ QueueInv'
  BY <1>1, ClientsRemoved, QueuesAlone DEF IInv, sessionVars
<1>4. BookInv'
  <2>1. wsClients' \subseteq wsClients
    BY <1>1 DEF RemoveClients
  <2> QED BY <1>1, <2>1, BooksAlone DEF IInv, Following, queueVars, sessionVars
<1> QED BY <1>2, <1>3, <1>4 DEF IInv

LEMMA ReapStep ==
    ASSUME IInv, ReapClosed
    PROVE  IInv'
<1> DEFINE cs == {c \in wsClients : wsClosed[c]}
<1>1. /\ RemoveClients(cs)
      /\ UNCHANGED <<sessionVars, wsSubs, wsLevel, queueVars, threadVars, boundVars>>
  BY DEF ReapClosed
<1>2. cs \in SUBSET Conns
  BY DEF IInv, ClientInv
<1> HIDE DEF cs
<1>3. SessionInv' /\ CohortInv'
  BY <1>1 DEF IInv, SessionInv, CohortInv, sessionVars, threadVars, boundVars
<1>4. ClientInv' /\ QueueInv'
  BY <1>1, <1>2, ClientsRemoved, QueuesAlone DEF IInv, sessionVars, threadVars
<1>5. BookInv'
  <2>1. wsClients' \subseteq wsClients
    BY <1>1 DEF RemoveClients
  <2> QED BY <1>1, <2>1, BooksAlone DEF IInv, Following, queueVars, sessionVars, threadVars
<1> QED BY <1>3, <1>4, <1>5 DEF IInv

LEMMA SendCohortStep ==
    ASSUME IInv, SendCohort
    PROVE  IInv' /\ FrameAfterNotice
<1> DEFINE level == Min(wsCohorts.levels)
           heard == {l \in wsCohorts.lines : l <= level}
           weight == Cardinality(heard) + wsCohorts.missed
           cs == {c \in wsClients : "logs" \in wsSubs[c] /\ wsLevel[c] = level}
<1>1. /\ wsCohorts # None
      /\ UNCHANGED queueVars \/ DeliverAll(cs, "logs", weight)
      /\ wsCohorts' = None \/ wsCohorts' = [wsCohorts EXCEPT !.levels = @ \ {level}]
      /\ UNCHANGED <<sessionVars, clientVars, threadVars>>
  BY DEF SendCohort
<1>2. wsCohorts.lines \subseteq LogLevels /\ wsCohorts.missed \in Nat
  BY <1>1 DEF IInv, CohortInv
<1>3. weight \in Nat
  <2> HIDE DEF level
  <2>1. heard \subseteq LogLevels
    BY <1>2
  <2>2. Cardinality(heard) \in Nat
    <3> HIDE DEF heard
    <3>1. IsFiniteSet(heard)
      BY <2>1, FS_Subset, WsAssumption
    <3> QED BY <3>1, FS_CardinalityType
  <2> HIDE DEF heard
  <2> QED BY <1>2, <2>2, SMT
<1>4. cs \in SUBSET Conns /\ "logs" \in Channels
  BY WsAssumption DEF IInv, ClientInv
<1> HIDE DEF cs, weight, level
<1>5. SessionInv' /\ ClientInv'
  BY <1>1, ClientsAlone DEF IInv, SessionInv, sessionVars, threadVars
<1>6. CohortInv'
  BY <1>1 DEF IInv, CohortInv
<1>7. QueueInv' /\ BookInv' /\ FrameAfterNotice
  <2>1. CASE UNCHANGED queueVars
    <3>1. BookInv'
      BY <1>1, <2>1, BooksAlone DEF IInv, Following, queueVars, sessionVars, clientVars, threadVars
    <3>2. FrameAfterNotice
      BY <2>1, SMT DEF FrameAfterNotice, queueVars, IInv, QueueInv
    <3> QED BY <1>1, <2>1, <3>1, <3>2, QueuesAlone DEF IInv, threadVars
  <2>2. CASE DeliverAll(cs, "logs", weight)
    BY <1>1, <1>3, <1>4, <2>2, Delivered DEF sessionVars, threadVars, clientVars
  <2> QED BY <1>1, <2>1, <2>2
<1> QED BY <1>5, <1>6, <1>7 DEF IInv

-----------------------------------------------------------------------------
LEMMA StepKeeps ==
    ASSUME IInv, WsNext
    PROVE  IInv' /\ FrameAfterNotice
<1>1. ASSUME NEW c \in Conns, Register(c) PROVE IInv' /\ FrameAfterNotice
  BY <1>1, RegisterStep, NoGrowth DEF IInv, Register, queueVars
<1>2. ASSUME NEW c \in Conns, ThreadStep(c) PROVE IInv' /\ FrameAfterNotice
  <2>1. CASE SendReply(c)
    BY <2>1, SendReplyStep
  <2>2. CASE StopReading(c)
    BY <2>2, StopReadingStep, NoGrowth DEF IInv, StopReading, queueVars
  <2>3. CASE Forget(c)
    BY <2>3, ForgetStep, NoGrowth DEF IInv, Forget, queueVars
  <2>4. CASE TakeBatch(c)
    BY <2>4, TakeBatchStep, NoGrowth DEF IInv, TakeBatch, QueueInv
  <2>5. CASE Shut(c)
    BY <2>5, ShutStep, NoGrowth DEF IInv, Shut, QueueInv
  <2>6. ASSUME NEW sent \in BOOLEAN, SendBatch(c, sent) PROVE IInv' /\ FrameAfterNotice
    BY <2>6, SendBatchStep, NoGrowth DEF IInv, SendBatch
  <2> QED BY <1>2, <2>1, <2>2, <2>3, <2>4, <2>5, <2>6 DEF ThreadStep
<1>3. CASE StartSender
  BY <1>3, StartSenderStep, NoGrowth DEF IInv, StartSender, queueVars
<1>4. CASE Hello
  BY <1>4, HelloStep
<1>5. CASE StartReader
  BY <1>5, StartReaderStep, NoGrowth DEF IInv, StartReader, queueVars
<1>6. ASSUME NEW c \in Conns, NEW ch \in Channels, Unsubscribe(c, ch)
      PROVE  IInv' /\ FrameAfterNotice
  BY <1>6, UnsubscribeStep, NoGrowth DEF IInv, Unsubscribe
<1>7. ASSUME NEW c \in Conns, NEW ch \in Channels, NEW level \in LogLevels, Subscribe(c, ch, level)
      PROVE  IInv' /\ FrameAfterNotice
  BY <1>7, SubscribeStep, NoGrowth DEF IInv, Subscribe, queueVars
<1>8. ASSUME NEW ch \in Channels, NEW weight \in 1..2, Broadcast(ch, weight)
      PROVE  IInv' /\ FrameAfterNotice
  BY <1>8, BroadcastStep
<1>9. ASSUME NEW lines \in SUBSET LogLevels, NEW missed \in 0..1, FlushLogs(lines, missed)
      PROVE  IInv' /\ FrameAfterNotice
  BY <1>9, FlushLogsStep, NoGrowth DEF IInv, FlushLogs, queueVars
<1>10. CASE SendCohort
  BY <1>10, SendCohortStep
<1>11. CASE NoteInboxOverflow
  BY <1>11, OverflowStep
<1>12. CASE ReapClosed
  BY <1>12, ReapStep, NoGrowth DEF IInv, ReapClosed, queueVars
<1>13. ASSUME NEW c \in Conns, NEW how \in {"closed", "silent"}, PeerLeaves(c, how)
       PROVE  IInv' /\ FrameAfterNotice
  BY <1>13, PeerLeavesStep, NoGrowth DEF IInv, PeerLeaves, queueVars
<1> QED BY <1>1, <1>2, <1>3, <1>4, <1>5, <1>6, <1>7, <1>8, <1>9, <1>10, <1>11, <1>12, <1>13
        DEF WsNext

LEMMA BooksFollow == IInv => HubBooksAgree
<1> SUFFICES ASSUME IInv PROVE HubBooksAgree
  OBVIOUS
<1> DEFINE levels == {wsLevel[c] : c \in {d \in wsClients : "logs" \in wsSubs[d]}}
           heard == {wsLevel[c] : c \in {d \in wsClients : wsLevel[d] # None}}
<1>1. levels = heard /\ heard \subseteq LogLevels
  BY DEF IInv, ClientInv
<1>2. /\ wsGates.mask = UNION {wsSubs[c] : c \in wsClients}
      /\ wsGates.tap = ("sniffer" \in wsGates.mask)
      /\ wsGates.level = Max({ArmedLevel} \cup heard)
  BY DEF IInv, ClientInv, GatesOf
<1> HIDE DEF levels, heard
<1>3. wsGates.level \in LogLevels \cup {ArmedLevel}
  <2> DEFINE S == {ArmedLevel} \cup heard
  <2>1. S \subseteq Nat /\ S # {} /\ S \subseteq LogLevels \cup {ArmedLevel}
    BY <1>1, WsAssumption
  <2>2. IsFiniteSet(S)
    <3>1. IsFiniteSet(LogLevels \cup {ArmedLevel})
      BY FS_AddElement, WsAssumption
    <3> QED BY <2>1, <3>1, FS_Subset
  <2> HIDE DEF S
  <2>3. Max(S) \in S
    BY <2>1, <2>2, MaxIsMember
  <2> QED BY <1>2, <2>1, <2>3 DEF S
<1>4. wsClients \subseteq Conns /\ wsCount = Cardinality(wsClients)
  BY DEF IInv, ClientInv
<1>5. wsCount \in 0 .. Cardinality(Conns)
  <2>1. /\ IsFiniteSet(wsClients) /\ Cardinality(wsClients) <= Cardinality(Conns)
    BY <1>4, FS_Subset, WsAssumption
  <2>2. Cardinality(wsClients) \in Nat /\ Cardinality(Conns) \in Nat
    BY <2>1, FS_CardinalityType, WsAssumption
  <2> QED BY <1>4, <2>1, <2>2, SMT
<1>6. WsTypeOK
  <2>1. wsGates.mask \subseteq Channels
    BY <1>2, <1>4, SMT DEF IInv, ClientInv
  <2> QED BY <1>3, <1>4, <1>5, <2>1 DEF IInv, SessionInv, QueueInv, WsTypeOK
<1>7. EveryLossTold
  <2>1. \A c \in Conns : wsSubs[c] \cup {"*"} \subseteq Notable
    BY DEF IInv, ClientInv, Notable
  <2> QED BY <2>1 DEF IInv, BookInv, EveryLossTold
<1>8. GatesFollowClients
  <2>1. wsGates.tap = \E c \in wsClients : "sniffer" \in wsSubs[c]
    <3>1. "sniffer" \in wsGates.mask <=> \E c \in wsClients : "sniffer" \in wsSubs[c]
      BY <1>2
    <3>2. wsGates.tap = TRUE \/ wsGates.tap = FALSE
      BY <1>2, SMT
    <3>3. wsGates.tap <=> "sniffer" \in wsGates.mask
      BY <1>2
    <3> QED BY <3>1, <3>2, <3>3
  <2> QED BY <1>1, <1>2, <2>1 DEF GatesFollowClients, levels, heard
<1>9. BytesReturned
  BY DEF IInv, QueueInv, BytesReturned
<1> QED BY <1>4, <1>6, <1>7, <1>8, <1>9 DEF HubBooksAgree, ClientCountExact

LEMMA Stutter == ASSUME IInv, UNCHANGED wsVars PROVE IInv'
<1>1. UNCHANGED <<sessionVars, clientVars, queueVars, threadVars, boundVars>>
  BY DEF wsVars
<1>2. SessionInv' /\ CohortInv'
  BY <1>1 DEF IInv, SessionInv, CohortInv, sessionVars, threadVars, boundVars
<1>3. ClientInv' /\ QueueInv'
  BY <1>1, ClientsAlone, QueuesAlone DEF IInv, sessionVars, threadVars
<1>4. BookInv'
  BY <1>1, BooksAlone DEF IInv, Following, queueVars, clientVars, sessionVars, threadVars
<1> QED BY <1>2, <1>3, <1>4 DEF IInv

LEMMA Inductive == WsSpec => []IInv
<1>1. IInv /\ [WsNext]_wsVars => IInv'
  BY StepKeeps, Stutter
<1> QED BY <1>1, InitHolds, PTL DEF WsSpec

\* WsHub's books agree in every reachable state: whoever of the reader, the
\* HTTP task and the reaper removes a client first, the counter and the gates
\* are those of the clients that are left, a running sender's byte count is
\* that of its frames, and every unit meant for a client that is still served
\* is queued, announced or owed.
THEOREM BooksAgree == WsSpec => []HubBooksAgree
BY Inductive, BooksFollow, PTL

\* deliver and note_inbox_overflow never queue a frame behind a loss that was
\* not announced: the notice of a gap comes before the frame after it.
THEOREM NoticesComeFirst == WsSpec => NoticeComesFirst
<1>1. IInv /\ [WsNext]_wsVars => [FrameAfterNotice]_wsVars
  BY StepKeeps
<1> QED BY <1>1, Inductive, PTL DEF WsSpec, NoticeComesFirst
=============================================================================
