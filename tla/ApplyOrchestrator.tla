------------------------- MODULE ApplyOrchestrator -------------------------
(***************************************************************************)
(* Long operations from the request to their end: the HTTP handlers that   *)
(* open one, the apply orchestrator that paces an apply one cell at a time *)
(* (dali2rust-operations-runtime/src/runtime/{apply_orchestrator_worker,   *)
(* apply_pacing}.rs), the DALI worker that executes cells and reads, and   *)
(* the tracker (OperationTracker).                                         *)
(*                                                                         *)
(* Plan[c] is the diff an apply of c finds: TRUE for a cell whose lamp is  *)
(* bound. A message the bus refuses at ingress, cannot deliver or drops at *)
(* a full inbox is a fault; waits may end before the outcome comes.        *)
(***************************************************************************)
EXTENDS OperationTracker

CONSTANTS
    Plan,          \* [Op -> Seq(BOOLEAN)]
    SkipBatch,     \* SKIP_BATCH
    MaxBusFaults   \* bound: messages refused, undelivered or dropped, registry resets

VARIABLES
    requested,   \* the operations asked for over HTTP
    execs,       \* command inbox of the orchestrator
    heard,       \* event inbox of the orchestrator
    run,         \* the apply it paces, or None
    cellQueue,   \* cell commands at the DALI worker
    job,         \* where the DALI worker is with a read or an identify
    strays,      \* ghost: cell commands published after the operation had ended
    faultsLeft,  \* how much of the bound is left
    disturbed    \* ghost: whether there was a fault

pacingVars == <<requested, execs, heard, run, cellQueue, job, strays, faultsLeft, disturbed>>
operationVars == <<trackerVars, pacingVars>>

NewRun(c) ==
    [op |-> c, at |-> 1, attempt |-> 0, phase |-> "next", hard |-> FALSE, checked |-> FALSE,
     left |-> {}]

OperationInit ==
    /\ TrackerInit
    /\ requested = {} /\ execs = <<>> /\ heard = <<>> /\ run = None /\ cellQueue = <<>>
    /\ job = [c \in Op |-> "none"] /\ strays = [c \in Op |-> 0]
    /\ faultsLeft = MaxBusFaults /\ disturbed = FALSE

Ended(c) == table.said[c] # <<>> /\ Last(table.said[c]) \in Terminal
\* operation_is_terminal reads the row, which may have expired.
RowTerminal(c) == table.http[c].status \in Terminal

Fault(n) ==
    /\ n <= faultsLeft /\ faultsLeft' = faultsLeft - n
    /\ disturbed' = (disturbed \/ n > 0)

\* The events es reach the tracker and, while it paces, the orchestrator;
\* a full inbox drops them: losses says whose.
publish_with_backoff(es, losses) ==
    /\ Fault(Cardinality(losses))
    /\ outcomes' = IF "tracker" \in losses THEN outcomes ELSE outcomes \o es
    /\ heard' = IF run = None \/ "orchestrator" \in losses THEN heard
                ELSE heard \o SelectSeq(es, LAMBDA e : e.kind = "cell")
Losses == SUBSET {"tracker", "orchestrator"}
SignalLosses == {{}, {"tracker"}}

----------------------------------------------------------------------------
(* publish_begin_then_semantic_command, with reject_if_apply_active.       *)
ApplyActive(c) ==
    \E d \in InFlight(table) : OpKind[d] = "apply" /\ OpResource[d] = OpResource[c]

\* What became of the two commands.
Fates == {"delivered", "begin_undelivered", "execute_undelivered", "execute_refused"}

Request(c, fate) ==
    /\ c \notin requested /\ ~(OpKind[c] = "apply" /\ ApplyActive(c))
    /\ requested' = requested \cup {c}
    /\ Fault(IF fate = "delivered" THEN 0 ELSE 1)
    /\ begins' = IF fate = "begin_undelivered" THEN begins ELSE Append(begins, Begin(c))
    /\ rejects' = IF fate \in {"begin_undelivered", "execute_undelivered"}
                  THEN Append(rejects, c) ELSE rejects
    \* publish_worker_failed_ingress
    /\ outcomes' = IF fate = "execute_refused" THEN Append(outcomes, Signal(c, "failed")) ELSE outcomes
    /\ LET arrives == fate \in {"delivered", "begin_undelivered"} IN
       /\ execs' = IF arrives /\ OpKind[c] = "apply" THEN Append(execs, c) ELSE execs
       /\ job' = IF arrives /\ OpKind[c] # "apply" THEN [job EXCEPT ![c] = "queued"] ELSE job
    /\ UNCHANGED <<table, trackerAt, overdue, heard, run, cellQueue, strays>>

ResetRegistry ==
    /\ Fault(1)
    /\ begins' = Append(begins, Reset)
    /\ UNCHANGED <<table, outcomes, rejects, trackerAt, overdue, requested, execs, heard, run,
                   cellQueue, job, strays>>

----------------------------------------------------------------------------
(* The orchestrator.                                                       *)
TakeExecute(found) ==
    /\ run = None /\ execs # <<>>
    /\ LET c == Head(execs) IN
       /\ execs' = Tail(execs) /\ heard' = <<>>
       /\ run' = IF found /\ ~RowTerminal(c) THEN NewRun(c) ELSE None
       /\ outcomes' = IF found THEN outcomes ELSE Append(outcomes, Signal(c, "failed"))
       /\ Fault(IF found THEN 0 ELSE 1)
    /\ UNCHANGED <<table, begins, rejects, trackerAt, overdue, requested, cellQueue, job, strays>>

Pacing(phase) == run # None /\ run.phase = phase
HasCell == run.at <= Len(Plan[run.op])
Bound == Plan[run.op][run.at]

UnboundAhead ==
    {n \in run.at .. Len(Plan[run.op]) : \A k \in run.at .. n : ~Plan[run.op][k]}
SkipCells == {n \in UnboundAhead : n < run.at + SkipBatch}

\* One cell is over; err is its hard error.
Paced(err, count) ==
    [run EXCEPT !.at = @ + count, !.attempt = 0, !.phase = "next", !.hard = @ \/ err,
                !.checked = FALSE, !.left = {}]
Waiting(phase, left) == [run EXCEPT !.phase = phase, !.checked = FALSE, !.left = left]

PublishCell(delivered) ==
    /\ Pacing("next") /\ HasCell /\ Bound
    /\ Fault(IF delivered THEN 0 ELSE 1)
    /\ run' = Waiting("cell", {run.at})
    /\ strays' = [strays EXCEPT ![run.op] = IF Ended(run.op) THEN @ + 1 ELSE @]
    /\ cellQueue' = IF delivered THEN Append(cellQueue, <<run.op, run.at>>) ELSE cellQueue
    /\ rejects' = IF delivered THEN rejects ELSE Append(rejects, run.op)
    /\ UNCHANGED <<table, begins, outcomes, trackerAt, overdue, requested, execs, heard, job>>

\* synthesize_failed_outcome: the cell is reported failed in the worker's place.
Synthesize(losses) ==
    /\ run' = Waiting("synthetic", {run.at})
    /\ publish_with_backoff(<<CellOutcome(run.op, run.at, "failed")>>, losses)
    /\ UNCHANGED <<table, begins, rejects, trackerAt, overdue, requested, execs, cellQueue, job, strays>>

\* The command found no room at ingress.
CellRefused ==
    /\ Pacing("next") /\ HasCell /\ Bound
    /\ \E losses \in {{"tracker", "orchestrator"}, {}} :
          /\ run' = Waiting("synthetic", {run.at})
          /\ Fault(1)
          /\ LET es == <<CellOutcome(run.op, run.at, "failed")>> IN
             /\ outcomes' = IF losses = {} THEN outcomes \o es ELSE outcomes
             /\ heard' = IF losses = {} THEN heard \o es ELSE heard
    /\ UNCHANGED <<table, begins, rejects, trackerAt, overdue, requested, execs, cellQueue, job, strays>>

\* pace_skip_batch: unbound cells are reported skipped, a batch at a time.
PublishSkips(losses) ==
    /\ Pacing("next") /\ HasCell /\ ~Bound
    /\ run' = Waiting("skips", SkipCells)
    /\ publish_with_backoff([k \in 1 .. Cardinality(SkipCells) |-> CellOutcome(run.op, run.at + k - 1, "skipped")],
               losses)
    /\ UNCHANGED <<table, begins, rejects, trackerAt, overdue, requested, execs, cellQueue, job, strays>>

\* The ingress refuses one of them: the batch is given up with a hard error.
SkipRefused ==
    /\ Pacing("next") /\ HasCell /\ ~Bound /\ Fault(1)
    /\ \E queued \in 0 .. Cardinality(SkipCells) - 1 :
          outcomes' = outcomes \o [k \in 1 .. queued |-> CellOutcome(run.op, run.at + k - 1, "skipped")]
    /\ run' = Paced(TRUE, Cardinality(SkipCells))
    /\ UNCHANGED <<table, begins, rejects, trackerAt, overdue, requested, execs, heard, cellQueue,
                   job, strays>>

\* pump_events_until: the deadline and the row are looked at before each wait.
Waits == {"cell", "synthetic", "skips"}
PumpChecks ==
    /\ run # None /\ run.phase \in Waits /\ ~run.checked
    /\ run' = IF RowTerminal(run.op) THEN None ELSE [run EXCEPT !.checked = TRUE]
    /\ UNCHANGED <<trackerVars, requested, execs, heard, cellQueue, job, strays, faultsLeft, disturbed>>

RunDeadline ==
    /\ run # None /\ run.phase \in Waits /\ ~run.checked
    /\ run' = None
    /\ UNCHANGED <<trackerVars, requested, execs, heard, cellQueue, job, strays, faultsLeft, disturbed>>

Matches(e) == e.op = run.op /\ e.cell \in run.left
HardError(e) == e.what = "failed"

AfterEvent(e) ==
    CASE ~Matches(e) -> [run EXCEPT !.checked = FALSE]
      [] run.phase = "skips" /\ run.left # {e.cell} ->
            [run EXCEPT !.checked = FALSE, !.left = @ \ {e.cell}]
      [] run.phase = "skips" -> Paced(FALSE, Cardinality(SkipCells))
      [] run.phase = "synthetic" -> Paced(TRUE, 1)
      [] OTHER -> Paced(HardError(e), 1)

HearOutcome ==
    /\ run # None /\ run.checked /\ heard # <<>>
    /\ run' = AfterEvent(Head(heard)) /\ heard' = Tail(heard)
    /\ UNCHANGED <<trackerVars, requested, execs, cellQueue, job, strays, faultsLeft, disturbed>>

TryAgain(attempt) ==
    [run EXCEPT !.phase = "next", !.attempt = attempt, !.checked = FALSE, !.left = {}]
\* Mutant: a cell is waited for however long it takes.
WaitOn ==
    CASE run.phase = "cell" -> [run EXCEPT !.checked = FALSE]
      [] run.phase = "synthetic" -> Paced(TRUE, 1)
      [] OTHER -> Paced(FALSE, Cardinality(SkipCells))
\* A wait ended without the outcome it was for.
GaveUp ==
    CASE run.phase = "cell" -> TryAgain(run.attempt + 1)
      [] run.phase = "synthetic" -> Paced(TRUE, 1)
      [] OTHER -> Paced(FALSE, Cardinality(SkipCells))

LastAttempt == run.attempt = 1
WaitTimesOut ==
    /\ run # None /\ run.checked
    /\ IF run.phase = "cell" /\ LastAttempt
       THEN \E losses \in Losses : Synthesize(losses)
       ELSE /\ run' = GaveUp
            /\ UNCHANGED <<trackerVars, requested, execs, heard, cellQueue, job, strays, faultsLeft, disturbed>>

PublishTerminal(losses) ==
    /\ Pacing("next") /\ ~HasCell
    /\ run' = None
    /\ publish_with_backoff(<<Signal(run.op, IF run.hard THEN "failed" ELSE "succeeded")>>, losses)
    /\ UNCHANGED <<table, begins, rejects, trackerAt, overdue, requested, execs, cellQueue, job, strays>>

----------------------------------------------------------------------------
(* The DALI worker.                                                        *)
ProgramCell(verdict, losses) ==
    /\ cellQueue # <<>>
    /\ cellQueue' = Tail(cellQueue)
    /\ publish_with_backoff(<<CellOutcome(Head(cellQueue)[1], Head(cellQueue)[2], verdict)>>, losses)
    /\ UNCHANGED <<table, begins, rejects, trackerAt, overdue, requested, execs, run, job, strays>>

JobSays(c, to, e, losses) ==
    /\ job' = [job EXCEPT ![c] = to]
    /\ publish_with_backoff(<<e>>, losses)
    /\ UNCHANGED <<table, begins, rejects, trackerAt, overdue, requested, execs, run, cellQueue, strays>>

\* A read or an identify is announced, told whatever came of it, and closed.
JobStarts(c, losses) == job[c] = "queued" /\ JobSays(c, "started", Signal(c, "started"), losses)
JobTells(c, losses) == job[c] = "started" /\ JobSays(c, "told", Result(c), losses)

\* The ingress refuses the result.
JobNotTold(c) ==
    /\ job[c] = "started" /\ Fault(1)
    /\ job' = [job EXCEPT ![c] = "untold"]
    /\ UNCHANGED <<trackerVars, requested, execs, heard, run, cellQueue, strays>>

\* close_commissioning_operation: a fact that was lost fails the operation it closes.
JobCloses(c, verdict, losses) ==
    /\ job[c] \in {"told", "untold"}
    /\ job[c] = "untold" /\ OpKind[c] = "identify" => verdict = "failed"
    /\ JobSays(c, "over", Signal(c, verdict), losses)

----------------------------------------------------------------------------
Orchestrate ==
    \/ \E found \in BOOLEAN : TakeExecute(found)
    \/ \E delivered \in BOOLEAN : PublishCell(delivered)
    \/ CellRefused
    \/ \E losses \in Losses : PublishSkips(losses)
    \/ SkipRefused \/ PumpChecks \/ RunDeadline \/ HearOutcome \/ WaitTimesOut
    \/ \E losses \in SignalLosses : PublishTerminal(losses)

Work ==
    \/ \E verdict \in {"ok", "failed"}, losses \in Losses : ProgramCell(verdict, losses)
    \/ \E c \in Op, losses \in SignalLosses :
          \/ JobStarts(c, losses) \/ JobTells(c, losses) \/ JobNotTold(c)
          \/ \E verdict \in {"succeeded", "failed"} : JobCloses(c, verdict, losses)

\* A finished row is kept for a minute. A run looks at its row four times a second,
\* and an execute waits only behind applies that began, and so end, before its own:
\* the row is there while the orchestrator may still ask for it.
RetentionOutlastsRun ==
    \A c \in ToSet(execs) \cup (IF run = None THEN {} ELSE {run.op}) :
        RowTerminal(c) => table'.http[c].status # "none"

OperationNext ==
    \/ TrackerLoop /\ RetentionOutlastsRun /\ UNCHANGED pacingVars
    \/ \E c \in Op : TtlElapses(c) /\ UNCHANGED pacingVars
    \/ \E c \in Op, fate \in Fates : Request(c, fate)
    \/ ResetRegistry
    \/ Orchestrate
    \/ Work

\* The tracker and the orchestrator are threads that never stop, and time passes;
\* nothing is asked of the DALI worker. Orchestrate is possible while it paces or
\* has an execute to take, and its steps are those that change either.
OrchestratorBusy == run # None \/ execs # <<>>
OrchestratorServes == run' # run \/ Len(execs') < Len(execs)

OperationFairness ==
    /\ TrackerFairness
    /\ ([]<>~OrchestratorBusy \/ []<><<OrchestratorServes>>_pacingVars)

OperationSpec == OperationInit /\ [][OperationNext]_operationVars /\ OperationFairness

----------------------------------------------------------------------------
\* The table holds operations, rows and messages of the right kind.
OperationTypeOK ==
    /\ \A c \in Op : table.active[c] # None =>
          /\ table.active[c].status \in {"accepted", "running"}
          /\ table.active[c].detail.result \in BOOLEAN
    /\ trackerAt \in {"commands", "events", "rejections"}
    /\ overdue \subseteq Op /\ requested \subseteq Op
    /\ run # None => run.phase \in Waits \cup {"next"} /\ run.attempt \in 0 .. 1

\* in_flight is accepted less ended, so it counts the operations in the table: no
\* way for an operation to end is counted twice or not at all.
CountersAgree ==
    table.totals["accepted"] = Cardinality(InFlight(table))
        + table.totals["succeeded"] + table.totals["failed"]
        + table.totals["timed_out"] + table.totals["cancelled"]

\* GET /operations answers the status last published; the row of an operation in
\* flight does not expire, the row of one that has ended does, and nothing that
\* arrives late changes it back.
RowTellsTheOperation ==
    \A c \in Op :
        /\ table.http[c].status # "none" =>
              /\ table.http[c].status = Last(table.said[c])
              /\ table.http[c].expires = Ended(c)
        /\ c \in InFlight(table) => table.http[c].status = table.active[c].status

\* One read of a resource is in flight at a time, and the coalescing slot of the
\* resource names it.
OnePerResource ==
    \A r \in DOMAIN table.coalesce :
        {c \in InFlight(table) : Coalesces(c) /\ OpResource[c] = r} =
        (IF table.coalesce[r] = None THEN {} ELSE {table.coalesce[r]})

\* An apply that succeeded has an outcome for every cell of its diff and no failed
\* one, and a read that succeeded carries its result, however its messages and its
\* begin were ordered, unless a message for it was lost on the way or waited too long.
SucceededTellsAll ==
    \A c \in Op :
        table.http[c].status = "succeeded" /\ ~disturbed /\ c \notin table.cut =>
            IF OpKind[c] = "apply"
            THEN /\ table.http[c].detail.seen = 1 .. Len(Plan[c])
                 /\ table.http[c].detail.rows["failed"] = 0
            ELSE table.http[c].detail.result

\* A cell retried after a timeout, reported by the orchestrator in the worker's
\* place and reported late by the worker is counted once.
CellCountedOnce ==
    \A c \in Op :
        LET rows == table.http[c].detail.rows IN
        rows["ok"] + rows["skipped"] + rows["failed"] = Cardinality(table.http[c].detail.seen)

\* A superseded, reset or timed-out apply stops: at most the one cell command
\* decided on before its end was seen still goes out.
OneStrayCell == \A c \in Op : strays[c] <= 1

\* A command of an operation that nobody received is not left parked beside the
\* running operation: the begin takes it and fails the operation.
RejectionTaken == \A c \in ToSet(table.rejected) : c \notin InFlight(table)

\* Every operation that begins comes to an end, whatever is lost on the bus.
OperationEnds == \A c \in Op : c \in InFlight(table) ~> c \notin InFlight(table)

\* The orchestrator never stays in one apply: it is free for the next.
RunEnds == run # None ~> run = None

\* The tables agree with each other, whichever way an operation ends: counters,
\* cells, coalescing slots, parked rejections and cells still sent.
TablesAgree ==
    /\ OperationTypeOK /\ CountersAgree /\ CellCountedOnce
    /\ OnePerResource /\ RejectionTaken /\ OneStrayCell

\* What GET /operations answers is true of the operation.
RowsTellTheTruth == RowTellsTheOperation /\ SucceededTellsAll

\* Nothing stays in flight: neither an operation nor the orchestrator's run.
EverythingEnds == OperationEnds /\ RunEnds
=============================================================================
