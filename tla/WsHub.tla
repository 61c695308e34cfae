-------------------------------- MODULE WsHub --------------------------------
(***************************************************************************)
(* The WebSocket hub (ws-runtime hub.rs, reader.rs, connection.rs and the  *)
(* session handler of adapters http/esp_ws.rs): sessions are opened by the *)
(* HTTP task, each client has a sender thread that pumps a bounded queue   *)
(* and a reader thread that serves its requests, and one worker broadcasts *)
(* to all of them under the clients lock.  A frame a full queue refuses is *)
(* owed as a loss and announced before the next frame of its channel.      *)
(*                                                                         *)
(* A frame is its channel, the payload is left out and every frame weighs  *)
(* one byte unit.  "*" is the loss that concerns every channel (the        *)
(* worker's inbox overflowed).  wsMeant and wsTold are history variables.  *)
(***************************************************************************)
EXTENDS Absent, Naturals, Sequences, FiniteSets, FiniteSetsExt

CONSTANTS Conns,          \* the connections that are ever opened
          Channels,       \* "logs", "sniffer" and any other channel
          LogLevels,      \* a set of naturals, the more verbose the larger
          ArmedLevel,     \* LogRing's level when nobody follows the logs
          HubConfigs,     \* the WsHubConfigs with the slots of both thread pools,
                          \* and the bounds: the connections opened and how many
                          \* requests, broadcasts, inbox overflows and leaving
                          \* peers there are
          QueueDepth, QueueBytes

ASSUME WsAssumption ==
    /\ {"logs", "sniffer"} \subseteq Channels /\ "*" \notin Channels
    /\ QueueDepth \in Nat \ {0} /\ QueueBytes \in Nat \ {0}
    /\ LogLevels \subseteq Nat \ {0} /\ None \notin LogLevels /\ ArmedLevel \in Nat
    /\ IsFiniteSet(LogLevels) /\ IsFiniteSet(Conns)

VARIABLES wsConfig,   \* the hub's configuration
          wsOpen,     \* the HTTP task: [conn, pc] of the session it opens
          wsPeer,     \* the far end: "away", "up", "closed" or "silent"
          wsBroken,   \* WsConnection.broken
          wsWoken,    \* the read half was shut down (wake_reader)
          wsClients,  \* the registered clients
          wsCount,    \* WsCounters.clients
          wsSubs, wsLevel, wsOwed,     \* Client.subscriptions, log_level, dropped
          wsQueue, wsBatch, wsBytes,   \* the channel, the batch taken, queued_bytes
          wsClosed,   \* Client.closed
          wsSender, wsReader,          \* the two threads of a session
          wsGates,    \* the subscription mask, the sniffer tap, the log ring's level
          wsCohorts,  \* the log levels flush_logs still has to serve, and the batch
          wsMeant, wsTold,
          wsLeft      \* what is left of the bounds

sessionVars == <<wsConfig, wsOpen, wsPeer, wsBroken, wsWoken>>
clientVars == <<wsClients, wsCount, wsSubs, wsLevel, wsGates>>
queueVars == <<wsOwed, wsQueue, wsBatch, wsBytes, wsClosed, wsMeant, wsTold>>
threadVars == <<wsSender, wsReader>>
boundVars == <<wsCohorts, wsLeft>>
wsVars == <<sessionVars, clientVars, queueVars, threadVars, boundVars>>

Spend(bound) == wsLeft[bound] > 0 /\ wsLeft' = [wsLeft EXCEPT ![bound] = @ - 1]

Notable == Channels \cup {"*"}
Direct == <<"direct", "*">>
Frame(ch) == <<"frame", ch>>
Notice(ch) == <<"notice", ch>>

WsInit ==
    /\ wsConfig \in HubConfigs
    /\ wsOpen = None
    /\ wsPeer = [c \in Conns |-> "away"]
    /\ wsBroken = [c \in Conns |-> FALSE] /\ wsWoken = [c \in Conns |-> FALSE]
    /\ wsClients = {} /\ wsCount = 0
    /\ wsSubs = [c \in Conns |-> {}] /\ wsLevel = [c \in Conns |-> None]
    /\ wsOwed = [c \in Conns |-> [ch \in Notable |-> 0]]
    /\ wsQueue = [c \in Conns |-> <<>>] /\ wsBatch = [c \in Conns |-> <<>>]
    /\ wsBytes = [c \in Conns |-> 0] /\ wsClosed = [c \in Conns |-> FALSE]
    /\ wsSender = [c \in Conns |-> "none"] /\ wsReader = [c \in Conns |-> "none"]
    /\ wsGates = [mask |-> {}, tap |-> FALSE, level |-> ArmedLevel]
    /\ wsCohorts = None
    /\ wsMeant = [c \in Conns |-> [ch \in Notable |-> 0]] /\ wsTold = wsMeant
    /\ wsLeft = wsConfig.bounds

-----------------------------------------------------------------------------
(* Client::enqueue.  A client's queue, bytes, debts and history travel     *)
(* through a delivery as one record.                                       *)

ClientOf(c) ==
    [queue |-> wsQueue[c], bytes |-> wsBytes[c], batch |-> wsBatch[c],
     owed |-> wsOwed[c], closed |-> wsClosed[c], told |-> wsTold[c], ok |-> TRUE,
     gone |-> wsSender[c] = "ended"]

Full(cl) == cl.bytes + 1 > QueueBytes \/ Len(cl.queue) >= QueueDepth

enqueue(cl, item) ==
    IF ~cl.gone /\ ~Full(cl)
    THEN [cl EXCEPT !.queue = Append(@, item), !.bytes = @ + 1, !.ok = TRUE]
    ELSE [cl EXCEPT !.ok = FALSE]

\* A Disconnected queue marks the client closed and counts as told.
push_notice(cl, ch) ==
    IF cl.gone /\ ~(cl.bytes + 1 > QueueBytes)
    THEN [cl EXCEPT !.closed = TRUE, !.ok = TRUE]
    ELSE enqueue(cl, Notice(ch))

\* notify_inbox_loss (ch = "*") and notify_channel_loss.
notify_loss_KeepsDebt(cl, ch) ==
    LET n == push_notice(cl, ch) IN
    IF cl.owed[ch] = 0 THEN [cl EXCEPT !.ok = TRUE]
    ELSE [n EXCEPT !.told[ch] = IF n.ok THEN @ + cl.owed[ch] ELSE @]
notify_loss(cl, ch) ==
    LET n == push_notice(cl, ch) IN
    IF cl.owed[ch] = 0 THEN [cl EXCEPT !.ok = TRUE]
    ELSE IF ~n.ok THEN n
    ELSE [n EXCEPT !.owed[ch] = 0, !.told[ch] = @ + cl.owed[ch]]

count_drop(cl, ch, weight) == [cl EXCEPT !.owed[ch] = @ + weight]

\* deliver without the notices that must come first.
deliver_NoNotice(cl, ch, weight) ==
    LET sent == enqueue(cl, Frame(ch)) IN
    IF sent.ok THEN [sent EXCEPT !.told[ch] = @ + weight] ELSE count_drop(cl, ch, weight)
deliver(cl, ch, weight) ==
    LET inbox == notify_loss(cl, "*")
        told == IF inbox.ok THEN notify_loss(inbox, ch) ELSE inbox
        sent == IF told.ok THEN enqueue(told, Frame(ch)) ELSE told
    IN IF sent.ok THEN [sent EXCEPT !.told[ch] = @ + weight]
       ELSE IF told.ok /\ told.gone /\ ~(told.bytes + 1 > QueueBytes)
            THEN [told EXCEPT !.closed = TRUE]
       ELSE count_drop(sent, ch, weight)

\* Writes the records new[c] of the clients cs back to the variables.
Update(cs, new) ==
    /\ wsQueue' = [c \in Conns |-> IF c \in cs THEN new[c].queue ELSE wsQueue[c]]
    /\ wsBytes' = [c \in Conns |-> IF c \in cs THEN new[c].bytes ELSE wsBytes[c]]
    /\ wsOwed' = [c \in Conns |-> IF c \in cs THEN new[c].owed ELSE wsOwed[c]]
    /\ wsClosed' = [c \in Conns |-> IF c \in cs THEN new[c].closed ELSE wsClosed[c]]
    /\ wsTold' = [c \in Conns |-> IF c \in cs THEN new[c].told ELSE wsTold[c]]

\* send_direct: a hello or a reply that finds the queue full is lost.
send_direct(c) ==
    IF c \in wsClients
    THEN Update({c}, [d \in {c} |-> enqueue(ClientOf(d), Direct)]) /\ UNCHANGED <<wsBatch, wsMeant>>
    ELSE UNCHANGED queueVars

-----------------------------------------------------------------------------
(* The clients and the gates derived from them.                            *)

refresh_gates(clients, subs, level) ==
    LET mask == UNION {subs[c] : c \in clients} IN
    wsGates' = [mask |-> mask, tap |-> "sniffer" \in mask,
                level |-> Max({ArmedLevel} \cup
                              {level[c] : c \in {d \in clients : level[d] # None}})]

\* Removes clients, as unregister and reap_closed both do.
RemoveClients(cs) ==
    /\ wsClients' = wsClients \ cs
    /\ wsCount' = wsCount - Cardinality(cs \cap wsClients)
    /\ IF cs \cap wsClients # {} THEN refresh_gates(wsClients \ cs, wsSubs, wsLevel)
       ELSE UNCHANGED wsGates

-----------------------------------------------------------------------------
(* The HTTP task opens a session: register, start the sender, say hello,   *)
(* start the reader.  One session is opened at a time.                     *)

Running(thread, limit) == Cardinality({c \in Conns : thread[c] \notin {"none", "ended"}}) < limit

\* hub.register under the lock; a full hub refuses (tell_and_drop).
Register(c) ==
    /\ wsOpen = None /\ wsPeer[c] = "away" /\ c \in wsConfig.conns
    /\ wsPeer' = [wsPeer EXCEPT ![c] = "up"]
    /\ IF Cardinality(wsClients) >= wsConfig.clients
       THEN /\ wsBroken' = [wsBroken EXCEPT ![c] = TRUE]
            /\ UNCHANGED <<wsOpen, wsClients, wsCount>>
       ELSE /\ wsOpen' = [conn |-> c, pc |-> "sender"]
            /\ wsClients' = wsClients \cup {c} /\ wsCount' = wsCount + 1
            /\ UNCHANGED wsBroken
    /\ UNCHANGED <<wsConfig, wsWoken, wsSubs, wsLevel, wsGates, queueVars, threadVars, boundVars>>

\* start_sender; without a slot the client is unregistered and refused.
\* The job that was not started drops its receiver: the queue is gone.
StartSender ==
    /\ wsOpen # None /\ wsOpen.pc = "sender"
    /\ LET c == wsOpen.conn IN
       IF Running(wsSender, wsConfig.senders)
       THEN /\ wsSender' = [wsSender EXCEPT ![c] = "recv"]
            /\ wsOpen' = [wsOpen EXCEPT !.pc = "hello"]
            /\ UNCHANGED <<clientVars, wsBroken>>
       ELSE /\ wsSender' = [wsSender EXCEPT ![c] = "ended"]
            /\ wsBroken' = [wsBroken EXCEPT ![c] = TRUE]
            /\ RemoveClients({c}) /\ wsOpen' = None
            /\ UNCHANGED <<wsSubs, wsLevel>>
    /\ UNCHANGED <<wsConfig, wsPeer, wsWoken, queueVars, wsReader, boundVars>>

Hello ==
    /\ wsOpen # None /\ wsOpen.pc = "hello"
    /\ send_direct(wsOpen.conn)
    /\ wsOpen' = [wsOpen EXCEPT !.pc = "reader"]
    /\ UNCHANGED <<wsConfig, wsPeer, wsBroken, wsWoken, clientVars, threadVars, boundVars>>

\* start_reader; without a slot the connection is broken and the client
\* unregistered, which ends its sender too.
StartReader ==
    /\ wsOpen # None /\ wsOpen.pc = "reader"
    /\ LET c == wsOpen.conn IN
       IF Running(wsReader, wsConfig.readers)
       THEN /\ wsReader' = [wsReader EXCEPT ![c] = "reading"]
            /\ UNCHANGED <<clientVars, wsBroken>>
       ELSE /\ wsBroken' = [wsBroken EXCEPT ![c] = TRUE]
            /\ RemoveClients({c}) /\ UNCHANGED <<wsSubs, wsLevel, wsReader>>
    /\ wsOpen' = None
    /\ UNCHANGED <<wsConfig, wsPeer, wsWoken, queueVars, wsSender, boundVars>>

-----------------------------------------------------------------------------
(* A client's reader: read_until_done, then forget.                        *)

Serving(c) == wsReader[c] = "reading" /\ c \in wsClients

\* A request in a text frame; the reply is sent under a lock of its own.
Reply(c) == wsReader' = [wsReader EXCEPT ![c] = "replying"]

Subscribe(c, ch, level) ==
    /\ Serving(c) /\ wsPeer[c] = "up"
    /\ wsSubs' = [wsSubs EXCEPT ![c] = @ \cup {ch}]
    /\ wsLevel' = [wsLevel EXCEPT ![c] = IF ch = "logs" THEN level ELSE @]
    /\ refresh_gates(wsClients, wsSubs', wsLevel')
    /\ Reply(c) /\ Spend("requests")
    /\ UNCHANGED <<sessionVars, wsClients, wsCount, queueVars, wsSender, wsCohorts>>

\* Unsubscribing forgives what was owed on the channel.
Unsubscribe(c, ch) ==
    /\ Serving(c) /\ wsPeer[c] = "up" /\ ch \in wsSubs[c]
    /\ wsSubs' = [wsSubs EXCEPT ![c] = @ \ {ch}]
    /\ wsLevel' = [wsLevel EXCEPT ![c] = IF ch = "logs" THEN None ELSE @]
    /\ refresh_gates(wsClients, wsSubs', wsLevel')
    /\ wsOwed' = [wsOwed EXCEPT ![c][ch] = 0]
    /\ wsMeant' = [wsMeant EXCEPT ![c][ch] = 0] /\ wsTold' = [wsTold EXCEPT ![c][ch] = 0]
    /\ Reply(c) /\ Spend("requests")
    /\ UNCHANGED <<sessionVars, wsClients, wsCount, wsQueue, wsBatch, wsBytes, wsClosed,
                   wsSender, wsCohorts>>

SendReply(c) ==
    /\ wsReader[c] = "replying"
    /\ send_direct(c)
    /\ wsReader' = [wsReader EXCEPT ![c] = "reading"]
    /\ UNCHANGED <<sessionVars, clientVars, wsSender, boundVars>>

MustStop(c) == c \notin wsClients \/ wsPeer[c] = "closed" \/ wsWoken[c]

\* NotServed, a closed socket, a failed pong, a close frame or a protocol
\* error; a reader waiting for a silent peer times out and looks again.
StopReading(c) ==
    /\ wsReader[c] = "reading"
    /\ \/ MustStop(c) /\ UNCHANGED wsLeft
       \/ ~MustStop(c) /\ wsPeer[c] = "up" /\ Spend("leaves")
    /\ wsReader' = [wsReader EXCEPT ![c] = "leaving"]
    /\ wsBroken' = [wsBroken EXCEPT ![c] = @ \/ (c \in wsClients /\ wsPeer[c] = "closed")]
    /\ UNCHANGED <<wsConfig, wsOpen, wsPeer, wsWoken, clientVars, queueVars, wsSender, wsCohorts>>

Forget(c) ==
    /\ wsReader[c] = "leaving"
    /\ RemoveClients({c})
    /\ wsReader' = [wsReader EXCEPT ![c] = "ended"]
    /\ UNCHANGED <<sessionVars, wsSubs, wsLevel, queueVars, wsSender, boundVars>>

-----------------------------------------------------------------------------
(* A client's sender: SenderEnds::pump, then shut.                         *)

\* fill_batch takes the whole queue; its bytes stay counted until sent.
TakeBatch(c) ==
    /\ wsSender[c] = "recv" /\ wsQueue[c] # <<>>
    /\ wsBatch' = [wsBatch EXCEPT ![c] = wsQueue[c]]
    /\ wsQueue' = [wsQueue EXCEPT ![c] = <<>>]
    /\ wsSender' = [wsSender EXCEPT ![c] = "sending"]
    /\ UNCHANGED <<sessionVars, clientVars, wsOwed, wsBytes, wsClosed, wsMeant, wsTold,
                   wsReader, boundVars>>

\* send_batch and release_bytes; the write to a peer that left fails.
SendBatch(c, sent) ==
    /\ wsSender[c] = "sending"
    /\ sent => ~wsBroken[c] /\ wsPeer[c] # "closed"
    /\ ~sent => wsBroken[c] \/ wsPeer[c] # "up"
    /\ wsBatch' = [wsBatch EXCEPT ![c] = <<>>]
    /\ wsBytes' = [wsBytes EXCEPT ![c] = @ - Len(wsBatch[c])]
    /\ wsSender' = [wsSender EXCEPT ![c] = IF sent THEN "recv" ELSE "shutting"]
    /\ wsBroken' = [wsBroken EXCEPT ![c] = @ \/ ~sent]
    /\ UNCHANGED <<wsConfig, wsOpen, wsPeer, wsWoken, clientVars, wsOwed, wsQueue, wsClosed,
                   wsMeant, wsTold, wsReader, boundVars>>

\* shut, after a failed send or once the client's end of the queue is gone.
Shut_NoWake(c) ==
    /\ \/ wsSender[c] = "shutting"
       \/ wsSender[c] = "recv" /\ wsQueue[c] = <<>> /\ c \notin wsClients
    /\ wsQueue' = [wsQueue EXCEPT ![c] = <<>>]
    /\ wsBytes' = [wsBytes EXCEPT ![c] = 0]
    /\ wsSender' = [wsSender EXCEPT ![c] = "ended"]
    /\ UNCHANGED <<sessionVars, clientVars, wsOwed, wsBatch, wsClosed, wsMeant, wsTold,
                   wsReader, boundVars>>
Shut(c) ==
    /\ \/ wsSender[c] = "shutting"
       \/ wsSender[c] = "recv" /\ wsQueue[c] = <<>> /\ c \notin wsClients
    /\ wsQueue' = [wsQueue EXCEPT ![c] = <<>>]
    /\ wsBytes' = [wsBytes EXCEPT ![c] = 0]
    /\ wsClosed' = [wsClosed EXCEPT ![c] = TRUE]
    /\ wsWoken' = [wsWoken EXCEPT ![c] = TRUE]
    /\ wsSender' = [wsSender EXCEPT ![c] = "ended"]
    /\ UNCHANGED <<wsConfig, wsOpen, wsPeer, wsBroken, clientVars, wsOwed, wsBatch, wsMeant,
                   wsTold, wsReader, boundVars>>

-----------------------------------------------------------------------------
(* The worker: broadcasts, the log flush by cohort, overflow and reaping.  *)

has_clients == wsCount > 0

DeliverAll(cs, ch, weight) ==
    /\ Update(cs, [c \in cs |-> deliver(ClientOf(c), ch, weight)])
    /\ wsMeant' = [c \in Conns |-> IF c \in cs THEN [wsMeant[c] EXCEPT ![ch] = @ + weight]
                                   ELSE wsMeant[c]]
    /\ UNCHANGED wsBatch

\* broadcast_counting, gated by the mask read without the lock.
Broadcast(ch, weight) ==
    /\ wsCohorts = None /\ has_clients
    /\ ch # "logs" /\ ch \in wsGates.mask
    /\ weight = 1 \/ ch = "sniffer"
    /\ DeliverAll({c \in wsClients : ch \in wsSubs[c]}, ch, weight)
    /\ Spend("frames")
    /\ UNCHANGED <<sessionVars, clientVars, threadVars, wsCohorts>>

\* flush_logs: the lines at each level and those missed, then the cohorts.
FlushLogs(lines, missed) ==
    /\ wsCohorts = None /\ has_clients
    /\ lines # {} \/ missed > 0
    /\ wsCohorts' = [levels |-> {wsLevel[c] : c \in {d \in wsClients : "logs" \in wsSubs[d]}},
                     lines |-> lines, missed |-> missed]
    /\ wsCohorts'.levels # {}
    /\ Spend("frames")
    /\ UNCHANGED <<sessionVars, clientVars, queueVars, threadVars>>

\* send_cohort and broadcast_to_log_level for the next level.
SendCohort ==
    /\ wsCohorts # None
    /\ LET level == Min(wsCohorts.levels)
           weight == Cardinality({l \in wsCohorts.lines : l <= level}) + wsCohorts.missed
           cs == {c \in wsClients : "logs" \in wsSubs[c] /\ wsLevel[c] = level}
       IN /\ IF weight = 0 THEN UNCHANGED queueVars ELSE DeliverAll(cs, "logs", weight)
          /\ wsCohorts' = IF wsCohorts.levels = {level} THEN None
                          ELSE [wsCohorts EXCEPT !.levels = @ \ {level}]
    /\ UNCHANGED <<sessionVars, clientVars, threadVars, wsLeft>>

\* report_inbox_overflow and note_inbox_overflow.
NoteInboxOverflow ==
    /\ wsCohorts = None /\ has_clients
    /\ Update(wsClients, [c \in wsClients |-> notify_loss(count_drop(ClientOf(c), "*", 1), "*")])
    /\ wsMeant' = [c \in Conns |-> IF c \in wsClients THEN [wsMeant[c] EXCEPT !["*"] = @ + 1]
                                   ELSE wsMeant[c]]
    /\ Spend("losses")
    /\ UNCHANGED <<sessionVars, clientVars, wsBatch, threadVars, wsCohorts>>

ReapClosed ==
    /\ wsCohorts = None /\ has_clients
    /\ \E c \in wsClients : wsClosed[c]
    /\ RemoveClients({c \in wsClients : wsClosed[c]})
    /\ UNCHANGED <<sessionVars, wsSubs, wsLevel, queueVars, threadVars, boundVars>>

\* The far end goes, with or without telling.
PeerLeaves(c, how) ==
    /\ wsPeer[c] = "up" /\ wsPeer' = [wsPeer EXCEPT ![c] = how]
    /\ Spend("leaves")
    /\ UNCHANGED <<wsConfig, wsOpen, wsBroken, wsWoken, clientVars, queueVars, threadVars,
                   wsCohorts>>

ThreadStep(c) ==
    \/ SendReply(c) \/ StopReading(c) \/ Forget(c)
    \/ TakeBatch(c) \/ Shut(c) \/ \E sent \in BOOLEAN : SendBatch(c, sent)

WsNext ==
    \/ \E c \in Conns : Register(c) \/ ThreadStep(c)
    \/ StartSender \/ Hello \/ StartReader
    \/ \E c \in Conns, ch \in Channels :
          Unsubscribe(c, ch) \/ \E level \in LogLevels : Subscribe(c, ch, level)
    \/ \E ch \in Channels, weight \in 1..2 : Broadcast(ch, weight)
    \/ \E lines \in SUBSET LogLevels, missed \in 0..1 : FlushLogs(lines, missed)
    \/ SendCohort \/ NoteInboxOverflow \/ ReapClosed
    \/ \E c \in Conns, how \in {"closed", "silent"} : PeerLeaves(c, how)

SenderRuns(c) == TakeBatch(c) \/ Shut(c) \/ \E sent \in BOOLEAN : SendBatch(c, sent)
ReaderRuns(c) == (MustStop(c) /\ StopReading(c)) \/ SendReply(c) \/ Forget(c)
SessionOpens == StartSender \/ Hello \/ StartReader

\* Both threads of a session run: their reads and writes time out, and the
\* HTTP task finishes what it started.  The peer, the requests and the worker
\* owe nothing.
WsFairness ==
    /\ \A c \in Conns : WF_wsVars(SenderRuns(c)) /\ WF_wsVars(ReaderRuns(c))
    /\ WF_wsVars(SessionOpens)

WsSpec == WsInit /\ [][WsNext]_wsVars /\ WsFairness

-----------------------------------------------------------------------------
\* The states the variables range over: the gates are sets of channels and a
\* level, an item waits with its channel and no queue is deeper than its depth.
WsTypeOK ==
    /\ wsClients \subseteq Conns /\ wsCount \in 0..Cardinality(Conns)
    /\ wsGates.mask \subseteq Channels /\ wsGates.level \in LogLevels \cup {ArmedLevel}
    /\ \A c \in Conns : /\ Len(wsQueue[c]) <= QueueDepth
                        /\ wsBytes[c] \in 0..QueueBytes
                        /\ wsSender[c] \in {"none", "recv", "sending", "shutting", "ended"}
                        /\ wsReader[c] \in {"none", "reading", "replying", "leaving", "ended"}

Following(c) == c \in wsClients /\ ~wsClosed[c] /\ wsSender[c] # "ended"

\* Every unit meant for a client that is still served has been queued, was
\* announced in a drop notice or is owed as a loss, on each channel and for
\* the inbox: deliver, note_inbox_overflow and the notices lose no count.
EveryLossTold ==
    \A c \in Conns : Following(c) =>
        \A ch \in wsSubs[c] \cup {"*"} : wsMeant[c][ch] = wsTold[c][ch] + wsOwed[c][ch]

\* The gates other threads read without the lock (the subscription mask, the
\* sniffer tap, the log ring's level) are those of the clients registered now:
\* no departure leaves the tap or the verbose log running.
GatesFollowClients ==
    LET levels == {wsLevel[c] : c \in {d \in wsClients : "logs" \in wsSubs[d]}} IN
    /\ wsGates.mask = UNION {wsSubs[c] : c \in wsClients}
    /\ wsGates.tap = \E c \in wsClients : "sniffer" \in wsSubs[c]
    /\ wsGates.level = Max({ArmedLevel} \cup levels)

\* The counter the worker parks on is the number of clients, whichever of the
\* reader, the HTTP task and the reaper removed one first.
ClientCountExact == wsCount = Cardinality(wsClients)

\* While a client's sender runs, its byte count is that of the frames queued and
\* in flight: a refused frame gives its bytes back, so a slow client recovers.
BytesReturned ==
    \A c \in Conns : wsSender[c] \in {"recv", "sending"} =>
        wsBytes[c] = Len(wsQueue[c]) + Len(wsBatch[c])

\* A frame that a step puts last in a queue finds nothing owed.
FrameAfterNotice ==
    \A c \in Conns : Len(wsQueue'[c]) > Len(wsQueue[c]) =>
        LET item == wsQueue'[c][Len(wsQueue'[c])] IN
        item[1] = "frame" => wsOwed'[c][item[2]] = 0 /\ wsOwed'[c]["*"] = 0

\* A frame enters a client's queue only once nothing is owed on its channel
\* nor for the inbox: the client never sees the frame after a gap before the
\* notice of the gap.
NoticeComesFirst == [][FrameAfterNotice]_wsVars

\* A session that has to end and did not: the client is registered or a thread
\* of it holds its slot.
Ending(c) ==
    /\ wsPeer[c] = "closed" \/ wsSender[c] \in {"shutting", "ended"} \/ wsReader[c] = "leaving"
    /\ c \in wsClients \/ wsSender[c] \notin {"none", "ended"} \/ wsReader[c] \notin {"none", "ended"}

\* A session whose peer closed, whose reader leaves or whose sender gave up
\* ends for good: the client is forgotten and both threads return
\* their slots.
SessionsEnd == (\E c \in Conns : Ending(c)) ~> (\A c \in Conns : ~Ending(c))

\* The hub's books agree whoever removes a client first: losses with what was
\* told, the gates and the counter with the clients, the bytes with the frames.
HubBooksAgree ==
    WsTypeOK /\ EveryLossTold /\ GatesFollowClients /\ ClientCountExact /\ BytesReturned
=============================================================================
