---------------------------- MODULE ConsoleQueue ----------------------------
(***************************************************************************)
(* The console log queue: tasks of both cores push lines without a lock,   *)
(* one task writes them to the UART.  Every atomic load, store and         *)
(* exchange is a step; a line is two halves, so that a reader that looks   *)
(* too early sees one of them.  Tickets wrap at TicketSpace, which the     *)
(* slot count does not divide.                                             *)
(***************************************************************************)
EXTENDS Absent, Integers, Sequences, FiniteSets

CONSTANTS
    Loggers,          \* the tasks that log
    ConsoleSlots, ReservedSlots, ReserveAttempts,
    TicketSpace,      \* 2^32 in the code
    ConsoleScenarios  \* [first, installed, lines]: the first ticket, the driver, what each logger logs

ASSUME ConsoleAssumption ==
    /\ {ConsoleSlots, ReservedSlots, ReserveAttempts, TicketSpace} \subseteq Nat
    /\ ReservedSlots < ConsoleSlots /\ ConsoleSlots < TicketSpace
    /\ ReserveAttempts > 0
    /\ \A s \in ConsoleScenarios :
          /\ s.first \in 0 .. (TicketSpace - 1) /\ s.installed \in BOOLEAN
          /\ s.lines \in [Loggers -> Seq(BOOLEAN)]

VARIABLES
    head, tail,  \* tickets
    state,       \* each slot: "empty", "writing" or "ready"
    bytes,       \* each slot: its two halves
    loggers,     \* the producers: [pc, urgent, head, tail, tries, line]
    writer,      \* the consumer: [pc, head, got]
    installed,   \* INSTALLED
    toLog,       \* the lines each logger still logs, TRUE for warnings and errors
    queued,      \* history: the lines that took a ticket, in ticket order
    printed,     \* history: what the UART got
    dropped,     \* counters.dropped
    aliased      \* two tickets in flight shared a slot
consoleVars == <<head, tail, state, bytes, loggers, writer, installed, toLog, queued, printed, dropped, aliased>>

SlotOf(ticket) == ticket % ConsoleSlots
Minus(a, b) == (a + TicketSpace - b) % TicketSpace
Inc(a) == (a + 1) % TicketSpace
InFlight == {(head + k) % TicketSpace : k \in 0 .. (Minus(tail, head) - 1)}
Aliased(tickets) == \E a, b \in tickets : a # b /\ SlotOf(a) = SlotOf(b)

depth_limit(urgent) == IF urgent THEN ConsoleSlots ELSE ConsoleSlots - ReservedSlots

At(l, pc) == loggers[l].pc = pc
Resting == [pc |-> "rest", urgent |-> FALSE, head |-> 0, tail |-> 0, tries |-> 0, line |-> None]

-----------------------------------------------------------------------------
(* A producer: try_write and try_push.                                     *)

try_write(l) ==
    /\ At(l, "rest") /\ toLog[l] # <<>>
    /\ toLog' = [toLog EXCEPT ![l] = Tail(@)]
    /\ IF installed
       THEN /\ loggers' = [loggers EXCEPT ![l] = [Resting EXCEPT !.pc = "head", !.urgent = Head(toLog[l]),
                                                                 !.line = <<l, Len(toLog[l])>>]]
            /\ UNCHANGED dropped
       ELSE dropped' = dropped + 1 /\ UNCHANGED loggers
    /\ UNCHANGED <<head, tail, state, bytes, writer, installed, queued, printed, aliased>>

reserve_head(l) ==
    /\ At(l, "head")
    /\ loggers' = [loggers EXCEPT ![l].pc = "tail", ![l].head = head]
    /\ UNCHANGED <<head, tail, state, bytes, writer, installed, toLog, queued, printed, dropped, aliased>>

reserve_tail(l) ==
    /\ At(l, "tail")
    /\ IF Minus(tail, loggers[l].head) >= depth_limit(loggers[l].urgent)
       THEN dropped' = dropped + 1 /\ loggers' = [loggers EXCEPT ![l] = Resting]
       ELSE loggers' = [loggers EXCEPT ![l].pc = "swap", ![l].tail = tail] /\ UNCHANGED dropped
    /\ UNCHANGED <<head, tail, state, bytes, writer, installed, toLog, queued, printed, aliased>>

\* Mutant: the ticket is taken with a plain store.
reserve_Store(l) ==
    /\ At(l, "swap")
    /\ tail' = Inc(loggers[l].tail)
    /\ queued' = Append(queued, loggers[l].line)
    /\ loggers' = [loggers EXCEPT ![l].pc = "mark"]
    /\ UNCHANGED <<head, state, bytes, writer, installed, toLog, printed, dropped, aliased>>
reserve_swap(l) ==
    /\ At(l, "swap")
    /\ IF tail = loggers[l].tail
       THEN /\ tail' = Inc(tail)
            /\ queued' = Append(queued, loggers[l].line)
            /\ loggers' = [loggers EXCEPT ![l].pc = "mark"]
            /\ aliased' = (aliased \/ Aliased(InFlight \cup {tail}))
            /\ UNCHANGED dropped
       ELSE /\ IF loggers[l].tries + 1 < ReserveAttempts
               THEN /\ loggers' = [loggers EXCEPT ![l].pc = "head", ![l].tries = @ + 1]
                    /\ UNCHANGED dropped
               ELSE loggers' = [loggers EXCEPT ![l] = Resting] /\ dropped' = dropped + 1
            /\ UNCHANGED <<tail, queued, aliased>>
    /\ UNCHANGED <<head, state, bytes, writer, installed, toLog, printed>>

PushSlot(l) == SlotOf(loggers[l].tail)
\* Mutant: a line that turns out not to be wanted is given up with its ticket.
try_push_mark_GivesUp(l) ==
    /\ At(l, "mark")
    /\ \E pc \in {"fill1", "rest"} :
          /\ state' = IF pc = "rest" THEN state ELSE [state EXCEPT ![PushSlot(l)] = "writing"]
          /\ loggers' = [loggers EXCEPT ![l].pc = pc]
    /\ UNCHANGED <<head, tail, bytes, writer, installed, toLog, queued, printed, dropped, aliased>>
try_push_mark(l) ==
    /\ At(l, "mark")
    /\ state' = [state EXCEPT ![PushSlot(l)] = "writing"]
    /\ loggers' = [loggers EXCEPT ![l].pc = "fill1"]
    /\ UNCHANGED <<head, tail, bytes, writer, installed, toLog, queued, printed, dropped, aliased>>
try_push_fill(l) ==
    /\ At(l, "fill1") \/ At(l, "fill2")
    /\ LET half == IF At(l, "fill1") THEN 1 ELSE 2
       IN  bytes' = [bytes EXCEPT ![PushSlot(l)][half] = loggers[l].line]
    /\ loggers' = [loggers EXCEPT ![l].pc = IF @ = "fill1" THEN "fill2" ELSE "publish"]
    /\ UNCHANGED <<head, tail, state, writer, installed, toLog, queued, printed, dropped, aliased>>
try_push_publish(l) ==
    /\ At(l, "publish")
    /\ state' = [state EXCEPT ![PushSlot(l)] = "ready"]
    /\ loggers' = [loggers EXCEPT ![l] = Resting]
    /\ UNCHANGED <<head, tail, bytes, writer, installed, toLog, queued, printed, dropped, aliased>>

-----------------------------------------------------------------------------
(* The consumer: drain_queue and try_pop.                                  *)

install ==
    /\ ~installed /\ installed' = TRUE
    /\ UNCHANGED <<head, tail, state, bytes, loggers, writer, toLog, queued, printed, dropped, aliased>>

Published(s) == state[s] = "ready"
\* Empty and Busy send the writer back, to look again at the next wake-up or in 10 ms.
try_pop_look ==
    /\ installed /\ writer.pc = "look" /\ head # tail
    /\ Published(SlotOf(head))
    /\ writer' = [pc |-> "copy1", head |-> head, got |-> <<None, None>>]
    /\ UNCHANGED <<head, tail, state, bytes, loggers, installed, toLog, queued, printed, dropped, aliased>>

try_pop_copy ==
    /\ writer.pc \in {"copy1", "copy2"}
    /\ LET half == IF writer.pc = "copy1" THEN 1 ELSE 2
       IN  writer' = [writer EXCEPT !.got[half] = bytes[SlotOf(writer.head)][half],
                                    !.pc = IF @ = "copy1" THEN "copy2" ELSE "free"]
    /\ UNCHANGED <<head, tail, state, bytes, loggers, installed, toLog, queued, printed, dropped, aliased>>

try_pop_free ==
    /\ writer.pc = "free"
    /\ state' = [state EXCEPT ![SlotOf(writer.head)] = "empty"]
    /\ writer' = [writer EXCEPT !.pc = "advance"]
    /\ UNCHANGED <<head, tail, bytes, loggers, installed, toLog, queued, printed, dropped, aliased>>

try_pop_advance ==
    /\ writer.pc = "advance"
    /\ head' = Inc(writer.head)
    /\ printed' = Append(printed, writer.got)
    /\ writer' = [writer EXCEPT !.pc = "look"]
    /\ UNCHANGED <<tail, state, bytes, loggers, installed, toLog, queued, dropped, aliased>>

ConsoleInit ==
    /\ \E s \in ConsoleScenarios :
          head = s.first /\ tail = s.first /\ installed = s.installed /\ toLog = s.lines
    /\ state = [s \in 0 .. (ConsoleSlots - 1) |-> "empty"]
    /\ bytes = [s \in 0 .. (ConsoleSlots - 1) |-> <<None, None>>]
    /\ loggers = [l \in Loggers |-> Resting]
    /\ writer = [pc |-> "look", head |-> head, got |-> <<None, None>>]
    /\ queued = <<>> /\ printed = <<>> /\ dropped = 0 /\ aliased = FALSE

Pushes(l) ==
    \/ reserve_head(l) \/ reserve_tail(l) \/ reserve_swap(l)
    \/ try_push_mark(l) \/ try_push_fill(l) \/ try_push_publish(l)
Pops == try_pop_look \/ try_pop_copy \/ try_pop_free \/ try_pop_advance
\* The model ends where two tickets first share a slot.
ConsoleNext ==
    /\ ~aliased
    /\ install \/ Pops \/ \E l \in Loggers : try_write(l) \/ Pushes(l)

\* The writer's task runs every 10 ms, woken or not; a push never blocks.
ConsoleFair ==
    /\ WF_consoleVars(~aliased /\ Pops)
    /\ \A l \in Loggers : WF_consoleVars(~aliased /\ Pushes(l))
ConsoleSpec == ConsoleInit /\ [][ConsoleNext]_consoleVars /\ ConsoleFair

-----------------------------------------------------------------------------
(* What the queue promises.                                                *)

Filling == {l \in Loggers : loggers[l].pc \in {"mark", "fill1", "fill2", "publish"}}
\* Tickets stay in their space, at most ConsoleSlots of them in flight.
ConsoleTypeOK ==
    /\ head \in 0 .. (TicketSpace - 1) /\ tail \in 0 .. (TicketSpace - 1)
    /\ Minus(tail, head) <= ConsoleSlots
    /\ \A s \in DOMAIN state : state[s] \in {"empty", "writing", "ready"}

\* The SAFETY comment of ConsoleQueue: a slot is addressed only by its reserving
\* producer or, once published, by the consumer.  Two tickets in flight share a
\* slot in one case alone: the ticket counter wraps between them.
OneOwner ==
    /\ aliased => tail < head
    /\ ~aliased => /\ \A l, k \in Filling : l # k => PushSlot(l) # PushSlot(k)
                   /\ writer.pc # "look" => \A l \in Filling : PushSlot(l) # SlotOf(writer.head)

\* The UART gets the lines that took a ticket, each of them whole, once, and in
\* ticket order, whatever the producers and the writer do in between.
LinesWhole ==
    ~aliased => \A i \in DOMAIN printed : i <= Len(queued) /\ printed[i] = <<queued[i], queued[i]>>

\* Every line that took a ticket is printed once the producers fall silent: one
\* slow to publish delays the lines behind it and loses none.
LinesPrinted == Len(queued) > Len(printed) ~> (Len(printed) = Len(queued) \/ aliased)

\* The console's slots are raced by nobody, and the lines come out whole.
ConsoleSafe == ConsoleTypeOK /\ OneOwner /\ LinesWhole
=============================================================================
