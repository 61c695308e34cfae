---------------------------- MODULE PhyExchange ----------------------------
(***************************************************************************)
(* Transmit exchanges: the task that runs them (adapters/src/dali/         *)
(* transport/esp_idf.rs) against the timer interrupt that owns the line    *)
(* (dali-phy/src/isr.rs).  The task hands over one frame through the       *)
(* command cell, or a run of frames through the batch queue; the           *)
(* interrupt holds the next frame in `pending`, puts it on the line, opens *)
(* the backward window and reports through the session ring.  The two     *)
(* share single words only, so a step here is what one of them does        *)
(* between two points where the other may look.                            *)
(*                                                                         *)
(* Time is abstracted: every deadline of the task may expire as soon as    *)
(* the look before it found nothing, every settling gate may hold a frame  *)
(* for any number of ticks.  start_tx never refuses a frame here: its      *)
(* caller has checked the line and both submissions check the length.      *)
(* The answers of the bus unit are AnswerPath's.                           *)
(***************************************************************************)
EXTENDS Naturals, Sequences, FiniteSets, SequencesExt

CONSTANTS
    MaxExchanges,   \* bound: how many exchanges the task opens
    RunLength,      \* bound: frames in a run handed over whole
    EventRoom       \* entries the session ring holds

VARIABLES
    isr,            \* how far the interrupt is in its tick
    cell, queue,    \* the command cell and the batch queue
    pending,        \* the frame the interrupt holds or sends
    onLine,         \* the frame of ours the PHY is sending, or about to
    cancelling,     \* control.active: the frame on the line is abandoned
    activeEpoch, activeExpects,
    session,        \* session_exchange: who waits for a backward frame
    rxStarted,      \* session_rx_started: a reception began in the window
    requested, acknowledged,   \* the two words of a cancel
    batchAborted,
    events,         \* the session ring
    line,           \* what others put on the line: idle, back or forward
    exchange,       \* exchange_epoch
    unacknowledged, \* cancel_unacknowledged
    task,           \* how far the task is in its exchange
    asked,          \* ghost: the last whole forward frame on the line
    sent            \* ghost: frames of the open exchange that went out whole

isrVars == <<isr, cell, queue, pending, onLine, cancelling, activeEpoch, activeExpects>>
sharedVars == <<session, rxStarted, requested, acknowledged, batchAborted, events>>
taskVars == <<exchange, unacknowledged, task>>
ghosts == <<asked, sent>>
vars == <<isrVars, sharedVars, line, taskVars, ghosts>>

NoFrame == <<>>
txBusy == onLine # NoFrame
Foreign == <<0, 0>>
Exchanges == 1 .. MaxExchanges
Places == Exchanges \X (1 .. RunLength)
Request == [frame : Places, expects : BOOLEAN, batched : BOOLEAN, restart : BOOLEAN]
Verdicts == {"none", "sent", "busy", "collision", "answer", "foreign", "violation", "silence"}
Results == {"none", "completed", "aborted", "error"}

Kinds == {"complete", "collision", "voided", "answer", "foreign"}

(* An entry of the ring.  `about` is a ghost: the frame the event tells    *)
(* of, for a capture the frame it followed on the line.                    *)
Event == [id : Exchanges, kind : Kinds, about : Places \cup {NoFrame, Foreign}]

Pushed(ring, id, kind, about) ==
    IF Len(ring) < EventRoom
    THEN Append(ring, [id |-> id, kind |-> kind, about |-> about])
    ELSE ring

----------------------------------------------------------------------------
(* The interrupt.  One tick is three steps: the cancel word, arming, and   *)
(* the line with everything the line's outcome makes it report.            *)

DiscardQueued ==
    /\ pending' = NoFrame
    /\ queue' = <<>>

\* mutant: the command cell survives the cancel
DiscardButCell(active) ==
    /\ UNCHANGED cell
    /\ IF active THEN queue' = <<>> /\ UNCHANGED pending ELSE DiscardQueued

(* A frame of the exchange already on the line goes on as abandoned; what  *)
(* is queued or held goes, and with either the cell.                       *)
DiscardCancelled(active) ==
    /\ cell' = NoFrame
    /\ IF active THEN queue' = <<>> /\ UNCHANGED pending ELSE DiscardQueued

CloseCancelledWindow ==
    /\ session' = IF session = requested THEN 0 ELSE session
    /\ rxStarted' = (rxStarted /\ session # requested)

TickCancel ==
    /\ isr = "cancel"
    /\ isr' = "arm"
    /\ IF requested = 0
       THEN UNCHANGED <<cell, queue, pending, cancelling, activeExpects, sharedVars>>
       ELSE /\ cancelling' = (txBusy /\ activeEpoch = requested)
            /\ DiscardCancelled(txBusy /\ activeEpoch = requested)
            /\ activeExpects' = (activeExpects /\ activeEpoch # requested)
            /\ CloseCancelledWindow
            /\ requested' = 0
            /\ acknowledged' = requested
            /\ UNCHANGED <<batchAborted, events>>
    /\ UNCHANGED <<onLine, activeEpoch, line, taskVars, ghosts>>

NextRequest ==
    CASE pending # NoFrame -> pending
      [] pending = NoFrame /\ queue # <<>> -> Head(queue)
      [] OTHER -> cell

TakesFromQueue == pending = NoFrame /\ queue # <<>>

MayArm == ~txBusy /\ session = 0 /\ line = "idle" /\ NextRequest # NoFrame

TickArm ==
    /\ isr = "arm"
    /\ isr' = "line"
    /\ IF ~MayArm
       THEN UNCHANGED <<cell, queue, pending, onLine, activeEpoch, activeExpects>>
       ELSE /\ pending' = NextRequest
            /\ queue' = IF TakesFromQueue THEN Tail(queue) ELSE queue
            /\ cell' = IF pending = NoFrame /\ queue = <<>> THEN NoFrame ELSE cell
            /\ \/ UNCHANGED <<onLine, activeEpoch, activeExpects>>   \* gate not open yet
               \/ /\ onLine' = NextRequest.frame
                  /\ activeEpoch' = NextRequest.frame[1]
                  /\ activeExpects' = NextRequest.expects
    /\ UNCHANGED <<cancelling, sharedVars, line, taskVars, ghosts>>

(* abort_batch_tail: what is held or queued is void; a held frame is       *)
(* reported, a tail only flagged.                                          *)
Voided(held) ==
    IF held = NoFrame THEN events ELSE Pushed(events, held.frame[1], "voided", held.frame)

TailAborted(held) == batchAborted \/ queue # <<>> \/ (held # NoFrame /\ held.batched)

(* An abandoned frame ends, however it ends: nothing is reported.          *)
CancelledFrameEnds ==
    /\ txBusy /\ cancelling
    /\ cancelling' = FALSE
    /\ onLine' = NoFrame
    /\ pending' = NoFrame
    /\ activeExpects' = FALSE
    /\ session' = 0
    /\ rxStarted' = FALSE
    /\ \/ sent' = sent /\ asked' = NoFrame /\ line' \in {"idle", "back", "forward"}
       \/ /\ sent' = IF onLine[1] = exchange THEN sent \cup {onLine[2]} ELSE sent
          /\ asked' = onLine
          /\ UNCHANGED line
    /\ UNCHANGED <<cell, queue, activeEpoch, requested, acknowledged, batchAborted, events>>

FrameSent ==
    /\ txBusy /\ ~cancelling
    /\ onLine' = NoFrame
    /\ pending' = NoFrame
    /\ activeExpects' = FALSE
    /\ session' = IF activeExpects THEN activeEpoch ELSE session
    /\ events' = Pushed(events, activeEpoch, "complete", onLine)
    /\ sent' = IF onLine[1] = exchange THEN sent \cup {onLine[2]} ELSE sent
    /\ asked' = onLine
    /\ UNCHANGED <<cell, queue, cancelling, activeEpoch, line,
                   rxStarted, requested, acknowledged, batchAborted>>

(* The break left the line idle and the frame carries a restart gate: it   *)
(* stays pending and goes out once more.                                   *)
RestartAfterBreak ==
    /\ txBusy /\ ~cancelling
    /\ pending # NoFrame /\ pending.restart
    /\ onLine' = NoFrame
    /\ pending' = [pending EXCEPT !.restart = FALSE]
    /\ asked' = NoFrame
    /\ UNCHANGED <<cell, queue, cancelling, activeEpoch, activeExpects, sharedVars, line, sent>>

Collision ==
    /\ txBusy /\ ~cancelling
    /\ onLine' = NoFrame
    /\ DiscardQueued
    /\ activeExpects' = FALSE
    /\ session' = 0
    /\ batchAborted' = TailAborted(NoFrame)
    /\ events' = Pushed(events, activeEpoch, "collision", onLine)
    /\ asked' = NoFrame
    /\ line' \in {"idle", "forward"}
    /\ UNCHANGED <<cell, cancelling, activeEpoch, rxStarted, requested, acknowledged, sent>>

(* Another's frame began before our first edge: ours stays pending.        *)
Yield ==
    /\ txBusy /\ ~cancelling
    /\ onLine' = NoFrame
    /\ activeExpects' = FALSE
    /\ line' \in {"back", "forward"}
    /\ UNCHANGED <<cell, queue, pending, cancelling, activeEpoch, sharedVars, ghosts>>

(* A reception begins.  Who answers, answers the last whole forward frame. *)
ReceptionBegins ==
    /\ ~txBusy /\ line = "idle"
    /\ \/ line' = "forward"
       \/ line' = "back" /\ asked # NoFrame
    /\ rxStarted' = (rxStarted \/ session # 0)
    /\ UNCHANGED <<cell, queue, pending, onLine, cancelling, activeEpoch, activeExpects,
                   session, requested, acknowledged, batchAborted, events, ghosts>>

RouteBackwardCapture ==
    /\ line = "back"
    /\ line' = "idle"
    /\ session' = 0
    /\ rxStarted' = FALSE
    /\ events' = IF session = 0 THEN events ELSE Pushed(events, session, "answer", asked)
    /\ asked' = NoFrame
    /\ UNCHANGED <<cell, queue, pending, onLine, cancelling, activeEpoch, activeExpects,
                   requested, acknowledged, batchAborted, sent>>

RouteForwardCapture ==
    /\ line = "forward"
    /\ line' = "idle"
    /\ DiscardQueued
    /\ session' = 0
    /\ rxStarted' = FALSE
    /\ batchAborted' = TailAborted(pending)
    /\ events' = IF session = 0 THEN Voided(pending)
                 ELSE Pushed(Voided(pending), session, "foreign", Foreign)
    /\ asked' = Foreign
    /\ UNCHANGED <<cell, onLine, cancelling, activeEpoch, activeExpects,
                   requested, acknowledged, sent>>

LineGoesOn ==
    /\ rxStarted' = (rxStarted \/ (session # 0 /\ line # "idle"))
    /\ UNCHANGED <<cell, queue, pending, onLine, cancelling, activeEpoch, activeExpects, line,
                   session, requested, acknowledged, batchAborted, events, ghosts>>

TickLine ==
    /\ isr = "line"
    /\ isr' = "cancel"
    /\ \/ CancelledFrameEnds \/ FrameSent \/ RestartAfterBreak \/ Collision \/ Yield
       \/ ReceptionBegins \/ RouteBackwardCapture \/ RouteForwardCapture
       \/ LineGoesOn
    /\ UNCHANGED taskVars

----------------------------------------------------------------------------
(* The task.  `expects` says of every frame of the exchange whether it is  *)
(* a query; `batch` whether the frames go through the queue; `at` is the   *)
(* frame it waits for.  Ghosts: `took` is the frame the last outcome was   *)
(* about, `late` that a wait of this exchange ran out.                     *)

Task == [pc : {"idle", "submit", "tx", "cancel", "ack", "back", "close", "judge"},
         expects : UNION {[1 .. n -> BOOLEAN] : n \in 0 .. RunLength}, batch : BOOLEAN, at : 1 .. RunLength,
         verdict : Verdicts, result : Results, ending : Results,
         took : Places \cup {NoFrame, Foreign}, late : BOOLEAN]

Resting == [pc |-> "idle", expects |-> <<>>, batch |-> FALSE, at |-> 1,
            verdict |-> "none", result |-> "none", ending |-> "none",
            took |-> NoFrame, late |-> FALSE]

(* prepare_session_exchange, and take_batch_aborted for a run.             *)
Open(batch, expects) ==
    /\ task.pc = "idle"
    /\ exchange < MaxExchanges
    /\ unacknowledged # 0 => acknowledged = unacknowledged
    /\ unacknowledged' = 0
    /\ exchange' = exchange + 1
    /\ events' = <<>>
    /\ batchAborted' = (batchAborted /\ ~batch)
    /\ task' = [Resting EXCEPT !.pc = "submit", !.batch = batch, !.expects = expects]
    /\ sent' = {}
    /\ UNCHANGED <<isrVars, session, rxStarted, requested, acknowledged, line, asked>>

RequestAt(n, restart) ==
    [frame |-> <<exchange, n>>, expects |-> task.expects[n],
     batched |-> task.batch, restart |-> restart]

CellOpen == requested = 0 /\ cell = NoFrame

SubmitTx(restart) ==
    /\ task.pc = "submit" /\ ~task.batch
    /\ CellOpen
    /\ cell' = RequestAt(1, restart)
    /\ task' = [task EXCEPT !.pc = "tx"]
    /\ UNCHANGED <<isr, queue, pending, onLine, cancelling, activeEpoch, activeExpects,
                   sharedVars, line, exchange, unacknowledged, ghosts>>

SubmitTimesOut ==
    /\ task.pc = "submit" /\ ~task.batch
    /\ ~CellOpen
    /\ task' = [task EXCEPT !.pc = "idle", !.result = "error"]
    /\ UNCHANGED <<isrVars, sharedVars, line, exchange, unacknowledged, ghosts>>

\* mutant: the cancel word does not gate the queue
QueueAlwaysOpen == TRUE

QueueOpen == requested = 0

(* One frame of the run; `at` counts the frames queued until all are.      *)
QueueTx(restart) ==
    /\ task.pc = "submit" /\ task.batch
    /\ QueueOpen
    /\ queue' = Append(queue, RequestAt(task.at, restart))
    /\ task' = IF task.at < Len(task.expects)
               THEN [task EXCEPT !.at = @ + 1]
               ELSE [task EXCEPT !.pc = "tx", !.at = 1]
    /\ UNCHANGED <<isr, cell, pending, onLine, cancelling, activeEpoch, activeExpects,
                   sharedVars, line, exchange, unacknowledged, ghosts>>

QueueRefused ==
    /\ task.pc = "submit" /\ task.batch
    /\ ~QueueOpen
    /\ task' = [task EXCEPT !.pc = "cancel", !.ending = "error"]
    /\ UNCHANGED <<isrVars, sharedVars, line, exchange, unacknowledged, ghosts>>

(* The exchange is over with this verdict, or the run goes to judgement.   *)
Judged(verdict) ==
    IF task.batch
    THEN [task EXCEPT !.pc = "judge", !.verdict = verdict]
    ELSE [task EXCEPT !.pc = "idle", !.verdict = verdict, !.result = "completed"]

\* mutant: an event is taken whatever exchange it is of
OursOrNot(event) == TRUE

Ours(event) == event.id = exchange

TxOutcome(event) ==
    CASE event.kind = "complete" /\ task.expects[task.at] ->
            [task EXCEPT !.pc = "back", !.took = event.about]
      [] event.kind = "complete" /\ ~task.expects[task.at] ->
            [Judged("silence") EXCEPT !.took = event.about]
      [] event.kind = "collision" -> [Judged("collision") EXCEPT !.took = event.about]
      [] event.kind = "voided" -> [Judged("busy") EXCEPT !.took = event.about]
      [] OTHER -> task

TakeTxEvent ==
    /\ task.pc = "tx"
    /\ events # <<>>
    /\ events' = Tail(events)
    /\ task' = IF Ours(Head(events)) THEN TxOutcome(Head(events)) ELSE task
    /\ UNCHANGED <<isrVars, session, rxStarted, requested, acknowledged, batchAborted,
                   line, exchange, unacknowledged, ghosts>>

TxTimesOut ==
    /\ task.pc = "tx"
    /\ events = <<>>
    /\ task' = [task EXCEPT !.pc = "cancel", !.verdict = "busy", !.took = NoFrame, !.late = TRUE]
    /\ UNCHANGED <<isrVars, sharedVars, line, exchange, unacknowledged, ghosts>>

CancelCurrentExchange ==
    /\ task.pc = "cancel"
    /\ unacknowledged' = exchange
    /\ requested' = exchange
    /\ task' = [task EXCEPT !.pc = "ack"]
    /\ UNCHANGED <<isrVars, session, rxStarted, acknowledged, batchAborted, events, line,
                   exchange, ghosts>>

(* Where a cancel was called from: a wait that ran out, or the end.        *)
AfterCancel ==
    IF task.ending = "none" THEN Judged(task.verdict)
    ELSE [task EXCEPT !.pc = "idle", !.result = task.ending, !.ending = "none"]

CancelAcknowledged ==
    /\ task.pc = "ack"
    /\ acknowledged = exchange
    /\ unacknowledged' = 0
    /\ task' = AfterCancel
    /\ UNCHANGED <<isrVars, sharedVars, line, exchange, ghosts>>

CancelAckTimesOut ==
    /\ task.pc = "ack"
    /\ acknowledged # exchange
    /\ task' = AfterCancel
    /\ UNCHANGED <<isrVars, sharedVars, line, exchange, unacknowledged, ghosts>>

BackwardOutcome(event) ==
    CASE event.kind = "answer" -> [Judged("answer") EXCEPT !.took = event.about]
      [] event.kind = "foreign" -> Judged("foreign")
      [] OTHER -> task

TakeBackwardEvent ==
    /\ task.pc = "back"
    /\ events # <<>>
    /\ events' = Tail(events)
    /\ task' = IF Ours(Head(events)) THEN BackwardOutcome(Head(events)) ELSE task
    /\ UNCHANGED <<isrVars, session, rxStarted, requested, acknowledged, batchAborted,
                   line, exchange, unacknowledged, ghosts>>

(* The last look found nothing.                                            *)
GiveUp ==
    /\ task.pc = "back"
    /\ events = <<>>
    /\ task' = [task EXCEPT !.pc = "close"]
    /\ UNCHANGED <<isrVars, sharedVars, line, exchange, unacknowledged, ghosts>>

(* A reception that began is judged by when it began (Table 20), and one   *)
(* held past power-down ends the exchange as busy.                         *)
CloseBackwardWindow ==
    /\ task.pc = "close"
    /\ IF session = exchange
       THEN /\ session' = 0
            /\ rxStarted' = FALSE
            /\ \E v \in IF rxStarted THEN {"violation", "silence", "busy"} ELSE {"silence"} :
                  task' = Judged(v)
       ELSE /\ task' = Judged("silence")
            /\ UNCHANGED <<session, rxStarted>>
    /\ UNCHANGED <<isrVars, requested, acknowledged, batchAborted, events, line,
                   exchange, unacknowledged, ghosts>>

MoreInRun == task.at < Len(task.expects)

(* collect_run_outcomes, after the outcome of one frame.                   *)
JudgeRun ==
    /\ task.pc = "judge"
    /\ batchAborted' = FALSE
    /\ task' = CASE batchAborted \/ task.verdict = "collision" ->
                        [task EXCEPT !.pc = "cancel", !.ending = "aborted", !.took = NoFrame]
                 [] ~batchAborted /\ task.verdict # "collision" /\ MoreInRun ->
                        [task EXCEPT !.pc = "tx", !.at = @ + 1, !.took = NoFrame]
                 [] OTHER -> [task EXCEPT !.pc = "idle", !.result = "completed"]
    /\ UNCHANGED <<isrVars, session, rxStarted, requested, acknowledged, events, line,
                   exchange, unacknowledged, ghosts>>

Exchange ==
    \/ \E q \in BOOLEAN : Open(FALSE, <<q>>)
    \/ \E qs \in [1 .. RunLength -> BOOLEAN] : Open(TRUE, qs)
    \/ \E r \in BOOLEAN : SubmitTx(r)
    \/ \E r \in BOOLEAN : QueueTx(r)
    \/ SubmitTimesOut \/ QueueRefused
    \/ TakeTxEvent \/ TxTimesOut
    \/ CancelCurrentExchange \/ CancelAcknowledged \/ CancelAckTimesOut
    \/ TakeBackwardEvent \/ GiveUp \/ CloseBackwardWindow
    \/ JudgeRun

Tick == TickCancel \/ TickArm \/ TickLine

Init ==
    /\ isr = "cancel" /\ cell = NoFrame /\ queue = <<>> /\ pending = NoFrame
    /\ onLine = NoFrame /\ cancelling = FALSE /\ activeEpoch = 0 /\ activeExpects = FALSE
    /\ session = 0 /\ rxStarted = FALSE /\ requested = 0 /\ acknowledged = 0
    /\ batchAborted = FALSE /\ events = <<>> /\ line = "idle"
    /\ exchange = 0 /\ unacknowledged = 0 /\ task = Resting
    /\ asked = NoFrame /\ sent = {}

Next == Tick \/ Exchange

Spec == Init /\ [][Next]_vars

----------------------------------------------------------------------------
(* Types.  The queue never holds more than one run: what queue_tx_for      *)
(* refuses for want of room never happens.                                 *)
TypeOK ==
    /\ isr \in {"cancel", "arm", "line"}
    /\ cell \in Request \cup {NoFrame}
    /\ queue \in Seq(Request) /\ Len(queue) <= RunLength
    /\ pending \in Request \cup {NoFrame}
    /\ onLine \in Places \cup {NoFrame}
    /\ {cancelling, activeExpects, rxStarted, batchAborted} \subseteq BOOLEAN
    /\ {activeEpoch, session, requested, acknowledged, exchange, unacknowledged}
          \subseteq 0 .. MaxExchanges
    /\ events \in Seq(Event) /\ Len(events) <= EventRoom
    /\ line \in {"idle", "back", "forward"}
    /\ task \in Task
    /\ asked \in Places \cup {NoFrame, Foreign}
    /\ sent \subseteq 1 .. RunLength

(* What the task takes as the outcome of a frame, sent, collided, voided   *)
(* or answered, is about that frame: late events of abandoned exchanges    *)
(* and answers to other frames are never read as it.  A run whose tail was *)
(* voided is reported aborted whatever is read, and after a wait of a run  *)
(* ran out its later outcomes are no longer covered (see AllOrNothing).    *)
OutcomeIsItsFrames ==
    task.took # NoFrame /\ ~task.late /\ ~batchAborted => task.took = <<exchange, task.at>>

(* Once the task has seen its cancel acknowledged, no frame of that        *)
(* exchange is left anywhere to go out later: not in the cell, not queued, *)
(* not held, except the one already on the line.                           *)
CancelledIsGone ==
    acknowledged # 0 /\ requested = 0 =>
        \A r \in {cell} \cup Range(queue) \cup {pending} :
            r # NoFrame /\ r.frame # onLine => r.frame[1] # acknowledged

(* A cancel discards what its own exchange handed over and nothing newer:  *)
(* no frame of a later exchange than the requested one is erased by it.    *)
CancelErasesOnlyItsOwn ==
    [][requested # 0 /\ requested' = 0 =>
          \A r \in {cell} \cup Range(queue) \cup {pending} :
              r # NoFrame /\ r \notin {cell', pending'} => r.frame[1] <= requested]_vars

(* A backward window left open would keep the interrupt from arming        *)
(* anything: between exchanges, with no cancel on its way and the line     *)
(* free of our frames, none is open.                                       *)
NoWindowLeftOpen ==
    /\ task.pc = "idle" \/ (task.pc = "submit" /\ ~task.batch)
    /\ requested = 0 /\ ~txBusy
    => session = 0

(* A task that waits for its frame waits for something: the frame is still *)
(* in the cell, queued, held or on the line, its outcome is in the ring,   *)
(* or the run was voided and flagged so.                                   *)
WaitIsForSomething ==
    task.pc = "tx" /\ ~task.late =>
        \/ \E r \in {cell, pending} \cup Range(queue) :
              r # NoFrame /\ r.frame = <<exchange, task.at>>
        \/ \E e \in Range(events) : Ours(e) /\ e.about = <<exchange, task.at>>
        \/ batchAborted

(* "All or nothing": a run reported complete, and not busy, was sent whole.*)
AllOrNothing ==
    task.batch /\ task.result = "completed" /\ task.verdict # "busy"
        => sent = 1 .. Len(task.expects)

(* The task is told of its own frame, and will be: what it takes as the    *)
(* outcome is about the frame it waits for, and it never waits for nothing.*)
TaskIsTold == TypeOK /\ OutcomeIsItsFrames /\ WaitIsForSomething

(* A cancel leaves nothing behind, neither a frame nor an open window.     *)
CancelIsClean == CancelledIsGone /\ NoWindowLeftOpen
=============================================================================
