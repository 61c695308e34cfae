-------------------------- MODULE OperationTracker --------------------------
(***************************************************************************)
(* The operation tracker worker: the table of long operations behind       *)
(* GET /operations (dali2rust-operations-runtime/src/runtime/              *)
(* operation_tracker_worker.rs, operation_totals.rs).                      *)
(*                                                                         *)
(* An operation is its workflow correlation; its key carries that number,  *)
(* so a key names one operation. What begins it arrives as a command, what *)
(* becomes of it as events, a command the bus could not deliver as a       *)
(* rejected confirmation: three inboxes, drained in that order, so an      *)
(* outcome may be handled before the operation it belongs to has begun.    *)
(* Kinds: "apply" counts the outcomes of its cells, "read" takes the place *)
(* of a running read of its resource and carries a result, "identify"      *)
(* carries a result and runs beside others. The group, scene and policy    *)
(* families differ only in the cells they name.                            *)
(***************************************************************************)
EXTENDS Absent, Naturals, Sequences, FiniteSets, SequencesExt

CONSTANTS
    Op,              \* the correlations operations are begun under
    OpKind,          \* [Op -> {"apply", "read", "identify"}]
    OpResource,      \* [Op -> resource]: the operation key without its serial
    MaxPending,      \* MAX_PENDING_CORRELATIONS
    MaxPendingCells, MaxPendingSignals, \* MAX_PENDING_OUTCOMES, MAX_PENDING_SIGNALS
    MaxClosed, MaxRejections            \* CLOSED_CORRELATIONS_REMEMBERED, REJECTIONS_REMEMBERED

VARIABLES
    table,      \* OperationTrackerInner, with the counters and what was published
    begins,     \* its command inbox
    outcomes,   \* its event inbox
    rejects,    \* its confirmation inbox: correlations of undelivered commands
    trackerAt,  \* where its loop is
    overdue     \* the operations whose TTL has run out

trackerVars == <<table, begins, outcomes, rejects, trackerAt, overdue>>

Terminal == {"succeeded", "failed", "timed_out", "cancelled"}
Coalesces(c) == OpKind[c] = "read"
Bucket == {"ok", "skipped", "failed"}

Begin(c) == [kind |-> "begin", op |-> c]
Reset == [kind |-> "reset", op |-> None]
\* An outcome of cell n, the result of a read or an identify, a worker signal.
CellOutcome(c, n, bucket) == [kind |-> "cell", op |-> c, cell |-> n, what |-> bucket]
Result(c) == [kind |-> "result", op |-> c, cell |-> 0, what |-> "ok"]
Signal(c, s) == [kind |-> "signal", op |-> c, cell |-> 0, what |-> s]

NoDetail == [seen |-> {}, rows |-> [k \in Bucket |-> 0], result |-> FALSE]
NoRow == [status |-> "none", detail |-> NoDetail, expires |-> FALSE]

NewTable ==
    [active |-> [c \in Op |-> None],        \* [status, detail] of an operation in flight
     coalesce |-> [r \in {OpResource[c] : c \in Op} |-> None],
     cells |-> [c \in Op |-> <<>>],         \* outcomes that came before the begin
     results |-> {},                        \* results that came before the begin
     signals |-> [c \in Op |-> <<>>],       \* worker signals that came before the begin
     closed |-> <<>>, rejected |-> <<>>,
     http |-> [c \in Op |-> NoRow],         \* what GET /operations answers
     totals |-> [s \in Terminal \cup {"accepted"} |-> 0],
     said |-> [c \in Op |-> <<>>],          \* OperationStatusChangedEvents published
     cut |-> {}]                            \* operations a full or expired buffer lost a message of

TrackerInit ==
    /\ table = NewTable /\ begins = <<>> /\ outcomes = <<>> /\ rejects = <<>>
    /\ trackerAt = "commands" /\ overdue = {}

----------------------------------------------------------------------------
(* RecentCorrelations.                                                     *)
Newest(held, capacity) ==
    IF Len(held) > capacity THEN SubSeq(held, Len(held) - capacity + 1, Len(held)) ELSE held
Note(held, c, capacity) == Newest(Append(held, c), capacity)
NoteAll(held, cs, capacity) == Newest(held \o SetToSeq(cs), capacity)
Holds(held, c) == c \in ToSet(held)
Forget(held, c) == SelectSeq(held, LAMBDA x : x # c)

InFlight(t) == {c \in Op : t.active[c] # None}

Row(status, detail, expires) == [status |-> status, detail |-> detail, expires |-> expires]
\* upsert_http, for an operation in flight.
PutRow(t, c, status, detail) == [t EXCEPT !.http[c] = Row(status, detail, FALSE)]

Say(t, c, status) == [t EXCEPT !.said[c] = Append(@, status)]
Count(t, status) == [t EXCEPT !.totals[status] = @ + 1]

\* emit_transition, for the acceptance of c.
Accept(t, c) ==
    PutRow(Count(Say(t, c, "accepted"), "accepted"), c, "accepted", t.active[c].detail)

\* The operations cs end: published, counted, and their rows kept for a while.
Finish(t, cs, status) ==
    [t EXCEPT !.said = [c \in Op |-> IF c \in cs THEN Append(@[c], status) ELSE @[c]],
              !.totals[status] = @ + Cardinality(cs),
              !.http = [c \in Op |-> IF c \in cs THEN Row(status, t.active[c].detail, TRUE) ELSE @[c]]]

\* They leave the table and are remembered as closed.
Close(t, cs) ==
    [t EXCEPT !.active = [c \in Op |-> IF c \in cs THEN None ELSE @[c]],
              !.closed = NoteAll(@, cs, MaxClosed)]

\* Mutant: the slot of the resource is left behind.
ClearLeavingSlot(t, cs) ==
    [Close(t, cs) EXCEPT !.cells = [c \in Op |-> IF c \in cs THEN <<>> ELSE @[c]],
                         !.signals = [c \in Op |-> IF c \in cs THEN <<>> ELSE @[c]],
                         !.results = @ \ cs]
ClearActiveEntries(t, cs) ==
    [Close(t, cs) EXCEPT !.cells = [c \in Op |-> IF c \in cs THEN <<>> ELSE @[c]],
                         !.signals = [c \in Op |-> IF c \in cs THEN <<>> ELSE @[c]],
                         !.results = @ \ cs,
                         !.coalesce = [r \in DOMAIN @ |-> IF @[r] \in cs THEN None ELSE @[r]]]

EndOperations(t, cs, status) == ClearActiveEntries(Finish(t, cs, status), cs)

PromoteRunning(t, c) ==
    IF t.active[c].status # "accepted" THEN t
    ELSE LET r == [t EXCEPT !.active[c].status = "running"]
         IN PutRow(Say(r, c, "running"), c, "running", t.active[c].detail)

----------------------------------------------------------------------------
(* Events.                                                                 *)
CellsPending(t) == {c \in Op : t.cells[c] # <<>>}
SignalsPending(t) == {c \in Op : t.signals[c] # <<>>}
CapReached(pending, c) == Cardinality(pending) >= MaxPending /\ c \notin pending

\* queue_pending_list and insert_pending_single: what does not fit is dropped.
QueueCell(t, e) ==
    IF CapReached(CellsPending(t), e.op) \/ Len(t.cells[e.op]) >= MaxPendingCells
    THEN [t EXCEPT !.cut = @ \cup {e.op}] ELSE [t EXCEPT !.cells[e.op] = Append(@, e)]
QueueSignal(t, e) ==
    IF CapReached(SignalsPending(t), e.op) \/ Len(t.signals[e.op]) >= MaxPendingSignals
    THEN [t EXCEPT !.cut = @ \cup {e.op}] ELSE [t EXCEPT !.signals[e.op] = Append(@, e)]
QueueResult(t, c) ==
    IF CapReached(t.results, c) THEN [t EXCEPT !.cut = @ \cup {c}]
    ELSE [t EXCEPT !.results = @ \cup {c}]

\* already_counted, route_apply_outcome: the first outcome of a cell counts.
RecordOutcome(detail, e) ==
    IF e.cell \in detail.seen THEN detail
    ELSE [detail EXCEPT !.seen = @ \cup {e.cell}, !.rows[e.what] = @ + 1]

ApplyOutcome(t, e) ==
    LET c == e.op IN
    IF t.active[c] = None
    THEN IF Holds(t.closed, c) THEN t ELSE QueueCell(t, e)
    ELSE LET r == PromoteRunning(t, c)
             d == RecordOutcome(r.active[c].detail, e)
         IN PutRow([r EXCEPT !.active[c].detail = d], c, r.active[c].status, d)

\* A read shows its outcomes at once, an identify with its end.
AttachResult(t, c) ==
    LET r == [t EXCEPT !.active[c].detail.result = TRUE] IN
    IF OpKind[c] = "read"
    THEN PutRow(r, c, r.active[c].status, r.active[c].detail) ELSE r

ApplyResult(t, c) ==
    CASE t.active[c] # None -> AttachResult(t, c)
      [] Holds(t.closed, c) -> t
      [] OTHER -> QueueResult(t, c)

ApplySignal(t, e) ==
    CASE t.active[e.op] = None -> IF Holds(t.closed, e.op) THEN t ELSE QueueSignal(t, e)
      [] e.what = "started" -> PromoteRunning(t, e.op)
      [] OTHER -> EndOperations(t, {e.op}, e.what)

ApplyEvent(t, e) ==
    CASE e.kind = "cell" -> ApplyOutcome(t, e)
      [] e.kind = "result" -> ApplyResult(t, e.op)
      [] OTHER -> ApplySignal(t, e)

----------------------------------------------------------------------------
(* Commands and rejected deliveries.                                       *)
FailUndelivered(t, c) == EndOperations(t, {c}, "failed")

Superseded(t, c) ==
    LET old == t.coalesce[OpResource[c]] IN
    IF ~Coalesces(c) \/ old = None \/ old = c THEN t
    ELSE IF t.active[old] = None THEN t
    ELSE [Close(Finish(t, {old}, "cancelled"), {old}) EXCEPT !.coalesce[OpResource[c]] = None]

ReplayWhileActive(t, c, list) ==
    FoldLeft(LAMBDA r, e : IF r.active[c] = None THEN r ELSE ApplyEvent(r, e), t, list)

ReplayCells(t, c) == ReplayWhileActive([t EXCEPT !.cells[c] = <<>>], c, t.cells[c])
ReplayResult(t, c) ==
    IF c \in t.results THEN AttachResult([t EXCEPT !.results = @ \ {c}], c) ELSE t
ReplaySignals(t, c) == ReplayWhileActive([t EXCEPT !.signals[c] = <<>>], c, t.signals[c])
ParkedRejection(t, c) ==
    LET r == [t EXCEPT !.rejected = Forget(@, c)] IN
    IF Holds(t.rejected, c) /\ t.active[c] # None THEN FailUndelivered(r, c) ELSE r

\* Mutant: the signals that came early are replayed before the outcomes.
SignalsFirst(t, c) ==
    LET s == ReplaySignals(t, c) IN
    ParkedRejection(IF s.active[c] = None THEN s ELSE ReplayResult(ReplayCells(s, c), c), c)
FlushBeginBacklog(t, c) ==
    ParkedRejection(ReplaySignals(ReplayResult(ReplayCells(t, c), c), c), c)

OperationBegin(t, c) ==
    LET s == Superseded(t, c)
        r == [s EXCEPT !.active[c] = [status |-> "accepted", detail |-> NoDetail],
                       !.coalesce[OpResource[c]] = IF Coalesces(c) THEN c ELSE @]
    IN FlushBeginBacklog(Accept(r, c), c)

\* Every operation in flight is cancelled; what waits for a begin stays.
RegistryReset(t) ==
    [Close(Finish(t, InFlight(t), "cancelled"), InFlight(t))
        EXCEPT !.coalesce = [r \in DOMAIN @ |-> None]]

RejectedDelivery(t, c) ==
    CASE t.active[c] # None -> FailUndelivered(t, c)
      [] Holds(t.closed, c) -> t
      [] OTHER -> [t EXCEPT !.rejected = Note(@, c, MaxRejections)]

----------------------------------------------------------------------------
(* The loop of the worker: commands, then events, then the rejections and  *)
(* the clock. Each inbox is drained before the next is looked at.          *)
HandleCommand ==
    /\ trackerAt = "commands" /\ begins # <<>>
    /\ LET m == Head(begins) IN
       table' = IF m.kind = "reset" THEN RegistryReset(table) ELSE OperationBegin(table, m.op)
    /\ begins' = Tail(begins)
    /\ UNCHANGED <<outcomes, rejects, trackerAt, overdue>>

CommandsDrained ==
    /\ trackerAt = "commands" /\ begins = <<>>
    /\ trackerAt' = "events"
    /\ UNCHANGED <<table, begins, outcomes, rejects, overdue>>

HandleEvent ==
    /\ trackerAt = "events" /\ outcomes # <<>>
    /\ table' = ApplyEvent(table, Head(outcomes))
    /\ outcomes' = Tail(outcomes)
    /\ UNCHANGED <<begins, rejects, trackerAt, overdue>>

\* Old rows and buffered messages go; what is overdue and in flight has timed out.
ExpireRows(t) ==
    [t EXCEPT !.http = [c \in Op |-> IF @[c].expires THEN NoRow ELSE @[c]]]
EvictPending(t) ==
    [t EXCEPT !.cells = [c \in Op |-> <<>>], !.signals = [c \in Op |-> <<>>], !.results = {},
              !.cut = @ \cup CellsPending(t) \cup SignalsPending(t) \cup t.results]

Due(t) == InFlight(t) \cap overdue
TimeOut(t) == EndOperations(t, Due(t), "timed_out")

HandleRejection ==
    /\ rejects # <<>>
    /\ trackerAt = "rejections" \/ (trackerAt = "events" /\ outcomes = <<>>)
    /\ table' = RejectedDelivery(table, Head(rejects))
    /\ rejects' = Tail(rejects) /\ trackerAt' = "rejections"
    /\ UNCHANGED <<begins, outcomes, overdue>>

\* forget and evict: the retention of the finished rows, and the time early
\* messages are kept, have passed.
TickDeadlines(forget, evict) ==
    /\ rejects = <<>>
    /\ trackerAt = "rejections" \/ (trackerAt = "events" /\ outcomes = <<>>)
    /\ LET kept == IF forget THEN ExpireRows(table) ELSE table
       IN table' = TimeOut(IF evict THEN EvictPending(kept) ELSE kept)
    /\ trackerAt' = "commands"
    /\ UNCHANGED <<begins, outcomes, rejects, overdue>>

\* The TTL of an operation in flight runs out.
TtlElapses(c) ==
    /\ c \in InFlight(table) \ overdue
    /\ overdue' = overdue \cup {c}
    /\ UNCHANGED <<table, begins, outcomes, rejects, trackerAt>>

TrackerLoop ==
    \/ HandleCommand \/ CommandsDrained \/ HandleEvent \/ HandleRejection
    \/ \E forget, evict \in BOOLEAN : TickDeadlines(forget, evict)

\* One of these is always possible, so that the loop goes on for ever is weak
\* fairness; a step of it moves the worker on or takes a message from an inbox.
TrackerServes ==
    \/ trackerAt' # trackerAt \/ Len(begins') < Len(begins)
    \/ Len(outcomes') < Len(outcomes) \/ Len(rejects') < Len(rejects)

TrackerFairness ==
    /\ []<><<TrackerServes>>_trackerVars
    /\ WF_trackerVars(\E c \in Op : TtlElapses(c))
=============================================================================
