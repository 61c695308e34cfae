----------------------------- MODULE DaliWorker -----------------------------
(***************************************************************************)
(* The DALI worker: the one thread that owns the wire.  It drains its      *)
(* inbox into a batch, lets a later command displace an earlier one for    *)
(* the same target (folding what the survivor does not state), picks the   *)
(* next command by priority without reordering two that drive the lamps,   *)
(* runs it under the wire gates and, for background work, under a lease    *)
(* that an arrival of strictly higher priority revokes, and answers it and *)
(* everyone who rides with it.                                             *)
(*                                                                         *)
(* Source: dali2rust-dali-runtime/src/runtime/dali_worker.rs and its       *)
(* dali_worker/ directory, priority.rs, controller/transaction.rs and      *)
(* retry.rs; LightSetpoint of the contracts crate; WireLease of platform.  *)
(*                                                                         *)
(* A command is known by its correlation id, its place in publish order.   *)
(* The levels and colours a command states are its own id, so a lamp tells *)
(* whose value it holds.  The worker's own success confirmation and the    *)
(* applied fact the registry confirms are one verdict here, "ok".          *)
(***************************************************************************)
EXTENDS Naturals, FiniteSets, Sequences, SequencesExt

CONSTANTS Lamp,       \* control gear on the bus
          Target,     \* a short address, a group or the broadcast address
          Broadcast,  \* the target that has no coalescing key for setpoints
          Scenarios,  \* the commands producers publish, how many of them, and
                      \* the gates the registry may close meanwhile
          Units,      \* transactions a read or a scan takes
          Retries,    \* target_state_sequence_retries
          Reach       \* the gear that hears a target

ASSUME WorkerAssumption ==
    /\ Broadcast \in Target
    /\ Reach \in [Target -> SUBSET Lamp]
    /\ \A s \in Scenarios : s.arrivals \in Nat \ {0}
    /\ Units \in Nat \ {0} /\ Retries \in Nat

VARIABLES world,     \* the scenario
          published, \* the commands, in publish order
          arrived,   \* arrival counters of WireActivity, by yieldable priority
          inbox,     \* ids delivered to the worker and not drained
          batch,     \* drained entries: id, effective setpoint, riders
          run,       \* the entry being executed, or Idle
          gate,      \* what holds the wire: the registry's read port says
          lamp,      \* the gear
          verdicts,  \* the answers each command has had
          torn       \* some setpoint reached the gear in part or unreported

vars == <<world, published, arrived, inbox, batch, run, gate, lamp, verdicts, torn>>

Interactive == 0
Attended == 1
Unattended == 2
NoColour == 0
Off == "off"
On == "on"
Unstated == "unknown"
Idle == [id |-> 0]

Arrivals == Max({s.arrivals : s \in Scenarios})
Ids == 1..Arrivals

-----------------------------------------------------------------------------
(* The class table. *)

WirePriority(c) ==
    CASE c.kind = "set" -> IF c.origin \in {"hcl", "mqtt"} THEN Attended ELSE Interactive
      [] c.kind \in {"scene", "preset"} -> IF c.origin = "mqtt" THEN Attended ELSE Interactive
      [] c.kind = "read" -> IF c.origin = "poller" THEN Unattended ELSE Attended
      [] c.kind = "scan" -> Attended
      [] c.kind = "probe" -> Unattended

DrivesLamp(c) == c.kind \in {"set", "scene", "preset"}

\* Reads may stop between transactions; a scan is a session and never stops.
Leased(c) == c.kind = "read" /\ WirePriority(c) # Interactive

PassiveAllowed(c) == c.kind = "probe"

-----------------------------------------------------------------------------
(* Setpoints: power, a level and a colour, each possibly unstated. *)

\* LightSetpoint::merge_from: what next states replaces what sp states, and a
\* stated power replaces the level too, stated or not.
MergeFrom(sp, next) ==
    [power  |-> IF next.power # Unstated THEN next.power ELSE sp.power,
     level  |-> IF next.power # Unstated \/ next.level.stated THEN next.level ELSE sp.level,
     colour |-> IF next.colour # NoColour THEN next.colour ELSE sp.colour]

\* LightSetpoint::dapc_level, with the level it sends.
SendsLevel(sp) ==
    sp.power = Off \/ (sp.level.stated /\ ~(sp.power = On /\ sp.level.value = 0))

DapcLevel(sp) == IF sp.power = Off THEN 0 ELSE sp.level.value

\* What a setpoint does to one gear: the colour is staged and activated, the
\* level is sent, and a bare power-on recalls the last active level.
Applied(g, sp) ==
    LET level == IF SendsLevel(sp) THEN DapcLevel(sp)
                 ELSE IF sp.power = On THEN g.active ELSE g.level
    IN  [level  |-> level,
         active |-> IF level # 0 THEN level ELSE g.active,
         colour |-> IF sp.colour # NoColour THEN sp.colour ELSE g.colour]

Driven(gear, target, sp) ==
    [l \in Lamp |-> IF l \in Reach[target] THEN Applied(gear[l], sp) ELSE gear[l]]

\* The setpoint a published command states: its values are its own id.
Stated(id) ==
    LET c == published[id]
    IN  [power  |-> c.power,
         level  |-> [stated |-> c.level # "none", value |-> IF c.level = "some" THEN id ELSE 0],
         colour |-> IF c.colour THEN id ELSE NoColour]

-----------------------------------------------------------------------------
(* Coalescing. *)

\* Two commands with the same key are for the same target, and recalls also for
\* the same scene; a broadcast setpoint, and every kind but setpoints and scene
\* recalls, has none.
Keyed(e) ==
    LET c == published[e.id]
    IN  c.kind = "scene" \/ (c.kind = "set" /\ c.target # Broadcast)

Key(e) == LET c == published[e.id] IN <<c.kind, c.scene, c.target, c.hold>>

SameKey(d, e) == Keyed(d) /\ Keyed(e) /\ Key(d) = Key(e)

SameOrigin(d, e) == published[d.id].origin = published[e.id].origin

Displaced(b, i) == \E j \in i+1..Len(b) : SameKey(b[i], b[j])

BlocksNothing(b, i, s) == FALSE

\* Nothing is folded across another target's lamp-driving frame that stays.
Blocks(b, i, s) ==
    ~SameKey(b[i], b[s]) /\ DrivesLamp(published[b[i].id]) /\ ~Displaced(b, i)

\* The displaced setpoints survivor s may take fields from, latest first.
Foldable(b, s) ==
    SetToSortSeq({i \in 1..s-1 : /\ SameKey(b[i], b[s])
                                 /\ SameOrigin(b[i], b[s])
                                 /\ \A k \in i+1..s-1 : ~Blocks(b, k, s)},
                 LAMBDA i, j : i > j)

\* fold_one_key: the survivor's setpoint with what the displaced ones add, and
\* the indices of those that added something.
Folded(b, s) ==
    LET Step(acc, i) ==
            LET candidate == MergeFrom(b[i].sp, acc.sp)
            IN  IF candidate = acc.sp THEN acc
                ELSE [sp |-> candidate, carried |-> acc.carried \cup {i}]
        start == [sp |-> b[s].sp, carried |-> {}]
    IN  IF published[b[s].id].kind = "set" /\ Keyed(b[s])
        THEN FoldLeft(Step, start, Foldable(b, s))
        ELSE start

\* Everyone an entry would answer: its riders, then itself.
Answers(e) == Append(e.riders, e.id)

SettledAlone(b, s) ==
    LET f == Folded(b, s)
        moved == FlattenSeq([i \in 1..s |-> IF i \in f.carried THEN <<b[i].id>> ELSE <<>>])
    IN  [id |-> b[s].id, sp |-> f.sp, riders |-> b[s].riders \o moved]

\* settle_batch: a carried entry's callers ride with its survivor.
Settled(b, s) ==
    LET f == Folded(b, s)
        moved == FlattenSeq([i \in 1..s |-> IF i \in f.carried THEN Answers(b[i]) ELSE <<>>])
    IN  [id |-> b[s].id, sp |-> f.sp, riders |-> b[s].riders \o moved]

Kept(b) == SetToSortSeq({s \in 1..Len(b) : ~Displaced(b, s)}, LAMBDA i, j : i < j)

Survivors(b) == [n \in 1..Len(Kept(b)) |-> Settled(b, Kept(b)[n])]

\* The ones nobody carried are answered superseded at once.
Superseded(b) ==
    UNION {Range(Answers(b[i])) : i \in
        {k \in 1..Len(b) : Displaced(b, k) /\ \A s \in k+1..Len(b) :
            Displaced(b, s) \/ k \notin Folded(b, s).carried}}

\* highest_priority_index: the first of the most urgent, unless it drives the
\* lamps: then the first that does.
Winner(b) ==
    LET prio(i) == WirePriority(published[b[i].id])
        drivers == {i \in 1..Len(b) : DrivesLamp(published[b[i].id])}
        first == CHOOSE i \in 1..Len(b) :
                    \A j \in 1..Len(b) : prio(i) < prio(j) \/ (prio(i) = prio(j) /\ i <= j)
    IN  IF first \in drivers THEN CHOOSE i \in drivers : \A j \in drivers : i <= j ELSE first

-----------------------------------------------------------------------------
Answered(ids, verdict) ==
    [id \in Ids |-> IF id \in ids THEN Append(verdicts[id], verdict) ELSE verdicts[id]]

Callers == Range(Answers(run))

Command == published[run.id]

Init ==
    /\ world \in Scenarios
    /\ published = <<>> /\ arrived = [p \in {Interactive, Attended} |-> 0]
    /\ inbox = <<>> /\ batch = <<>> /\ run = Idle
    /\ gate = "open"
    /\ lamp = [l \in Lamp |-> [level |-> 0, active |-> Arrivals + 1, colour |-> Arrivals + 1]]
    /\ verdicts = [id \in Ids |-> <<>>]
    /\ torn = FALSE

\* A producer publishes: the arrival observer counts it before the bus carries
\* it to the worker's inbox.
Publish(c) ==
    /\ Len(published) < world.arrivals
    /\ published' = Append(published, c)
    /\ inbox' = Append(inbox, Len(published) + 1)
    /\ arrived' = [p \in DOMAIN arrived |-> IF p = WirePriority(c) THEN arrived[p] + 1 ELSE arrived[p]]
    /\ UNCHANGED <<world, batch, run, gate, lamp, verdicts, torn>>

\* The registry changes: the controller goes passive, another one asks for
\* quiet, the adapter is switched off, or the wire is free again.
Turn(g) ==
    /\ gate' = g /\ g # gate
    /\ UNCHANGED <<world, published, arrived, inbox, batch, run, lamp, verdicts, torn>>

\* take_next_command: drain, coalesce, pick.
Take ==
    LET drained == batch \o [n \in 1..Len(inbox) |->
                        [id |-> inbox[n], sp |-> Stated(inbox[n]), riders |-> <<>>]]
        b == Survivors(drained)
        w == Winner(b)
    IN  /\ run = Idle
        /\ drained # <<>>
        /\ inbox' = <<>>
        /\ batch' = RemoveAt(b, w)
        /\ run' = [id |-> b[w].id, sp |-> b[w].sp, riders |-> b[w].riders,
                   started |-> FALSE, tickets |-> [p \in DOMAIN arrived |-> 0], left |-> Units, retries |-> Retries]
        /\ verdicts' = Answered(Superseded(drained), "superseded")
        /\ UNCHANGED <<world, published, arrived, gate, lamp, torn>>

-----------------------------------------------------------------------------
(* Execution. *)

\* hold_cause: what the registry says right now.
Held == gate = "quiescent" \/ (gate = "passive" /\ ~PassiveAllowed(Command))

Running == run # Idle /\ run.started

End(verdict) ==
    /\ run' = Idle
    /\ verdicts' = Answered(Callers, verdict)
    /\ UNCHANGED <<world, published, arrived, inbox, batch, gate>>

\* The lease notes the arrival counters and the gates are asked before the
\* first frame; an adapter that is off refuses every kind.
Start ==
    /\ run # Idle /\ ~run.started
    /\ \/ /\ Held \/ gate = "disabled"
          /\ End("refused")
       \/ /\ ~Held /\ gate # "disabled"
          /\ run' = [run EXCEPT !.started = TRUE, !.tickets = arrived]
          /\ UNCHANGED <<world, published, arrived, inbox, batch, gate, verdicts>>
    /\ UNCHANGED <<lamp, torn>>

\* WireLease::should_yield: an arrival of strictly higher priority.
ShouldYield ==
    /\ Leased(Command)
    /\ \E p \in DOMAIN arrived : p < WirePriority(Command) /\ arrived[p] # run.tickets[p]

\* The gate closed after the command was let through and before its next
\* transaction: it stops there.
Hold ==
    /\ Running /\ Held
    /\ End(IF Command.kind = "probe" THEN "silent" ELSE "refused")
    /\ torn' = (torn \/ run.retries < Retries)
    /\ UNCHANGED lamp

\* The frames reach the gear, the applied fact is published and everyone the
\* entry answers is told so.
Applies ==
    /\ lamp' = Driven(lamp, Command.target, run.sp)
    /\ End("ok")
    /\ UNCHANGED torn

\* It breaks off with some of its fields sent, or its fact is lost after all of
\* them: the callers are told it failed.
Breaks ==
    /\ lamp' \in {lamp, Driven(lamp, Command.target, run.sp),
                  Driven(lamp, Command.target, [run.sp EXCEPT !.power = Unstated,
                                                  !.level = [stated |-> FALSE, value |-> 0]])}
    /\ torn' = TRUE
    /\ End("failed")

\* apply_with_sequence_retry: a contended setpoint starts over, and is held or
\* sent again as a whole.
Contends ==
    /\ run.retries > 0
    /\ run' = [run EXCEPT !.retries = @ - 1]
    /\ UNCHANGED <<world, published, arrived, inbox, batch, gate, lamp, verdicts, torn>>

SetTargetState == Running /\ ~Held /\ Command.kind = "set" /\ (Applies \/ Breaks \/ Contends)

\* One GO TO SCENE frame, and its recalled fact.
RecallScene == Running /\ ~Held /\ Command.kind = "scene" /\ (Applies \/ Breaks)

\* One recall or dim frame, and its transition fact.
LevelTransition == Running /\ ~Held /\ Command.kind = "preset" /\ (Applies \/ Breaks)

\* One transaction more, of several.
UnitDone(left) ==
    /\ left > 1
    /\ run' = [run EXCEPT !.left = left - 1]
    /\ UNCHANGED <<world, published, arrived, inbox, batch, gate, verdicts>>

\* A read does one transaction more, reports its evidence after the last, or
\* ends over a transport fault or evidence it could not publish; its lease may
\* stop it at any boundary.
ReadAttributes ==
    /\ Running /\ ~Held /\ Command.kind = "read"
    /\ \/ ShouldYield /\ End("preempted")
       \/ /\ ~ShouldYield
          /\ UnitDone(run.left) \/ (run.left = 1 /\ End("ok")) \/ End("failed")
    /\ UNCHANGED <<lamp, torn>>

\* A scan holds an addressing session: it runs to its end.
DiscoverDevices ==
    /\ Running /\ ~Held /\ Command.kind = "scan"
    /\ UnitDone(run.left) \/ (run.left = 1 /\ End("ok")) \/ End("failed")
    /\ UNCHANGED <<lamp, torn>>

\* The arbitration probe reports what it heard, and nothing when it could not
\* ask.
ArbitrationProbe ==
    /\ Running /\ ~Held /\ Command.kind = "probe"
    /\ End("ok") \/ End("silent")
    /\ UNCHANGED <<lamp, torn>>

Work ==
    \/ Take \/ Start \/ Hold
    \/ SetTargetState \/ RecallScene \/ LevelTransition
    \/ ReadAttributes \/ DiscoverDevices \/ ArbitrationProbe

Next ==
    \/ \E c \in world.menu : Publish(c)
    \/ \E g \in world.gates : Turn(g)
    \/ Work

Spec == Init /\ [][Next]_vars

-----------------------------------------------------------------------------
(* Properties. *)

Verdict == {"ok", "failed", "refused", "superseded", "preempted", "silent"}

Setpoints ==
    [power : {On, Off, Unstated}, level : [stated : BOOLEAN, value : 0..Arrivals],
     colour : 0..Arrivals]

\* Entries carry ids of published commands and never more than their riders.
TypeOK ==
    /\ published \in Seq(world.menu) /\ Len(published) <= world.arrivals
    /\ arrived \in [{Interactive, Attended} -> 0..Arrivals]
    /\ inbox \in Seq(Ids)
    /\ \A n \in DOMAIN batch : /\ batch[n].id \in Ids /\ batch[n].sp \in Setpoints
                               /\ batch[n].riders \in Seq(Ids)
    /\ run # Idle => run.sp \in Setpoints /\ run.left \in 1..Units /\ run.retries \in 0..Retries
    /\ gate \in world.gates
    /\ lamp \in [Lamp -> [level : 0..Arrivals+1, active : 1..Arrivals+1, colour : 1..Arrivals+1]]
    /\ \A id \in Ids : verdicts[id] \in Seq(Verdict)
    /\ torn \in BOOLEAN

Drained == run = Idle /\ batch = <<>> /\ inbox = <<>>

\* Whatever was displaced, folded, refused, preempted or broken off on the way,
\* no command ends twice, and none is left without an end once the worker has
\* nothing more to do (settle_batch, Answer::failed and Answer::refused).
AnsweredOnce ==
    /\ \A id \in Ids : Len(verdicts[id]) <= 1
    /\ Drained => \A id \in DOMAIN published : Len(verdicts[id]) = 1

\* The gear as the commands told "ok" would leave it, one after another in
\* publish order.
Replayed ==
    LET ok == SetToSortSeq({id \in DOMAIN published :
                              verdicts[id] = <<"ok">> /\ DrivesLamp(published[id])},
                           LAMBDA i, j : i < j)
        Step(gear, id) == Driven(gear, published[id].target, Stated(id))
    IN  FoldLeft(Step, [l \in Lamp |-> [level |-> 0, active |-> Arrivals + 1,
                                       colour |-> Arrivals + 1]], ok)

\* Publish order is the order the lamps end in: coalescing, folding and the
\* priority order leave every gear as if the commands told "ok", and only
\* those, had been executed one by one as they were published.
LampsEndInPublishOrder ==
    Drained /\ ~torn =>
        \A l \in Lamp : /\ lamp[l].level = Replayed[l].level
                        /\ lamp[l].colour = Replayed[l].colour

\* A setpoint about to be sent states nothing of another origin: the applied
\* fact it ends in is attributed to the survivor's origin (same_origin).
NothingOfAnotherOrigin ==
    \A e \in Range(batch) \cup (IF run = Idle THEN {} ELSE {run}) :
        \A id \in {e.sp.level.value, e.sp.colour} \ {0} :
            published[id].origin = published[e.id].origin

\* Background work is cut short only for a command of strictly higher priority
\* published after it, so equals never preempt each other (WireLease).
PreemptedForCause ==
    \A id \in DOMAIN published :
        verdicts[id] = <<"preempted">> =>
            \E later \in id+1..Len(published) :
                WirePriority(published[later]) < WirePriority(published[id])

\* Every command is answered once and for cause, and goes out as its own
\* origin's.
CommandsKept == TypeOK /\ AnsweredOnce /\ NothingOfAnotherOrigin /\ PreemptedForCause
=============================================================================
