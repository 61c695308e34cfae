---------------------------- MODULE HclScheduler ----------------------------
(***************************************************************************)
(* The human-centric lighting scheduler: a tick works out what each        *)
(* schedule wants of its groups now and publishes it one command at a      *)
(* time, and while it waits for a confirmation it serves whatever comes    *)
(* in: commits of other masters, holds, resumes, and edits of the very     *)
(* schedules the tick was planned from.  One adapter; schedules are        *)
(* numbered in the order of their names; a name of a group, a lamp or      *)
(* Everyone stands for itself.                                             *)
(***************************************************************************)
EXTENDS Absent, Integers, Sequences, FiniteSets, FiniteSetsExt, SequencesExt

CONSTANTS
    HclIds,        \* 1 .. n, the schedules in the order of their names
    HclLamps, HclGroups,
    Everyone,      \* the broadcast target, and the cause of a broadcast hold
    TickCap,       \* MAX_COMMANDS_PER_TICK
    DayRing,       \* YEAR_DAY_RING
    DayMinutes,    \* MINUTES_PER_DAY
    HclScenarios   \* schedules, their edits, frames, times and bounds of a behaviour

ASSUME HclAssumption ==
    /\ HclIds = 1 .. Cardinality(HclIds)
    /\ Everyone \notin HclLamps \cup HclGroups /\ HclLamps \cap HclGroups = {}
    /\ TickCap \in Nat \ {0} /\ DayRing \in Nat \ {0} /\ DayMinutes \in Nat \ {0}

VARIABLES
    hclTable,   \* the registry's schedules: a definition or None each
    hclMember,  \* the registry's applied groups of each lamp
    hclClock,   \* how far the wall clock came in the scenario's times, 0 unsynced
    hclGates,   \* why a tick may not publish: maintenance, passive, quiescent
    hclInbox,   \* [events, commands]: what the bus holds for the scheduler
    hclLedger,  \* OverrideLedger: [day, flags], a flag is its set of causes
    sched,      \* SchedulerState and the tick in progress
    hclSeen,    \* history: [wire, sent, asked, standing]
    hclRun      \* the scenario and what it still allows
hclVars == <<hclTable, hclMember, hclClock, hclGates, hclInbox, hclLedger, sched, hclSeen, hclRun>>

TargetKey == HclGroups \cup {Everyone}
Cause == HclLamps \cup TargetKey

-----------------------------------------------------------------------------
(* The curve of a schedule.  A point: [at, sun, mode, level, kelvin], its  *)
(* minute counted from midnight, sunrise or sunset.                        *)

kelvin_to_mirek(kelvin) ==
    IF kelvin \in {None, 0} THEN kelvin ELSE Min({(1000000 + kelvin \div 2) \div kelvin, 65535})

DesiredState(mode, level, kelvin) == [mode |-> mode, level |-> level, kelvin |-> kelvin]
is_noop(state) == state.kelvin = None /\ state.mode = "none"
wire_equal(a, b) ==
    a.mode = b.mode /\ a.level = b.level /\ kelvin_to_mirek(a.kelvin) = kelvin_to_mirek(b.kelvin)

\* None for a sunrise or a sunset that does not come today.
effective_minutes(point, sun) ==
    IF point.sun = None THEN point.at % DayMinutes
    ELSE IF sun[point.sun] = None THEN None ELSE (sun[point.sun] + point.at) % DayMinutes

\* Rounded half away from zero; the levels and kelvins are not negative.
ramp(from, to, elapsed, span) == (2 * (from * span + (to - from) * elapsed) + span) \div (2 * span)

interpolate(previous, next, elapsed, span) ==
    DesiredState(
        previous.mode,
        IF previous.mode # "absolute" \/ next.mode # "absolute" THEN previous.level
        ELSE IF None \in {previous.level, next.level} THEN None
        ELSE ramp(previous.level, next.level, elapsed, span),
        IF None \in {previous.kelvin, next.kelvin} THEN previous.kelvin
        ELSE ramp(previous.kelvin, next.kelvin, elapsed, span))

\* The last of the points due and the first of those to come, in a stable sort
\* by minute; before the first point the curve says nothing.
evaluate(schedule, sun, now) ==
    LET minute(i) == effective_minutes(schedule.points[i], sun)
        known == {i \in DOMAIN schedule.points : minute(i) # None}
        before(i, j) == minute(i) < minute(j) \/ (minute(i) = minute(j) /\ i <= j)
        due == {i \in known : minute(i) <= now}
        ahead == known \ due
        last == CHOOSE i \in due : \A j \in due : before(j, i)
        first == CHOOSE i \in ahead : \A j \in ahead : before(i, j)
        p == schedule.points[last]
    IN  IF due = {} THEN None
        ELSE IF schedule.stepped \/ ahead = {} THEN DesiredState(p.mode, p.level, p.kelvin)
        ELSE interpolate(p, schedule.points[first], now - minute(last), minute(first) - minute(last))

driven_dimensions(schedule) ==
    LET points == ToSet(schedule.points)
    IN  (IF \E p \in points : p.mode # "none" THEN {"level"} ELSE {})
        \cup (IF \E p \in points : p.kelvin # None THEN {"color"} ELSE {})

-----------------------------------------------------------------------------
(* Time and the registry, as the scheduler reads them.                     *)

local == IF hclClock = 0 THEN None ELSE hclRun.times[hclClock]
runs_today(id) ==
    /\ hclTable[id] # None
    /\ hclTable[id].enabled /\ local.weekday \in hclTable[id].days

Members(group) == {l \in HclLamps : group \in hclMember[l]}
lamp_in_target(lamp, key) == key = Everyone \/ key \in hclMember[lamp]

group_covers_target_Itself(group, key) == key = group
group_covers_target(group, key) ==
    \/ key = group
    \/ \E l \in Members(group) : lamp_in_target(l, key)

hold_covers_target(held, key) ==
    \/ held = Everyone
    \/ held \in HclGroups /\ group_covers_target(held, key)
    \/ held \in HclLamps /\ lamp_in_target(held, key)

\* A commit: [lamp, foreign, dimensions, holds].
overrides(commit) == commit.holds /\ commit.foreign
commit_hits_target(commit, key, driven) ==
    /\ overrides(commit) /\ commit.dimensions \cap driven # {}
    /\ IF commit.lamp = None THEN key = Everyone ELSE lamp_in_target(commit.lamp, key)

resume_removal(target) ==
    CASE target = Everyone -> Cause
      [] target \in HclGroups -> {target} \cup Members(target)
      [] OTHER -> {target}

-----------------------------------------------------------------------------
(* The handlers: each takes and returns the worker's [led, s, seen].       *)

NoFlags == [id \in HclIds |-> [k \in TargetKey |-> {}]]
Nothing == [k \in TargetKey |-> None]
Handler == [led |-> hclLedger, s |-> sched, seen |-> hclSeen]

\* The keys the tick in progress has published.
SentByTick(s) ==
    {k \in TargetKey : s.outcomes[k] # None \/ (s.phase = "wait" /\ s.plan[s.at].key = k)}

\* A day is rolled to when it is no further ahead on the ring of year days than
\* it is behind.
roll_over_to(day) ==
    LET prev == hclLedger.day
        forward == (day + DayRing - prev) % DayRing
        backward == (prev + DayRing - day) % DayRing
    IN  prev = None \/ (prev # day /\ forward <= backward)

roll_over_ledger(w) ==
    IF ~roll_over_to(local.day) THEN w
    ELSE [led |-> [day |-> local.day, flags |-> NoFlags],
          s |-> [w.s EXCEPT !.last = Nothing],
          seen |-> [w.seen EXCEPT !.sent = SentByTick(w.s), !.asked = {}, !.standing = {}]]

stand_down(s, keys) ==
    [s EXCEPT !.last = [k \in TargetKey |-> IF k \in keys THEN None ELSE @[k]],
              !.tick = IF @ = None THEN None ELSE [@ EXCEPT !.stoodDown = @ \cup keys]]

driven(s, key) == s.last[key] # None \/ (s.tick # None /\ key \in s.tick.published)

\* OverrideLedger::suspend, for pairs of a schedule and one of its targets.
suspend(led, pairs, cause) ==
    [led EXCEPT !.flags = [id \in HclIds |-> [k \in TargetKey |->
        @[id][k] \cup IF <<id, k>> \in pairs THEN {cause} ELSE {}]]]

RunningToday == {id \in HclIds : runs_today(id)}
TargetsOf(schedules) == {<<id, k>> \in schedules \X TargetKey : k \in ToSet(hclTable[id].targets)}

\* HclOverrideHoldCommand is refused without a clock.
handle_override_hold(held) ==
    LET w == roll_over_ledger(Handler)
        covered == {p \in TargetsOf(RunningToday) : hold_covers_target(held, p[2])}
    IN  IF local = None THEN Handler
        ELSE [led |-> suspend(w.led, covered, held),
              s |-> stand_down(w.s, {p[2] : p \in covered}),
              seen |-> [w.seen EXCEPT !.asked = @ \cup {held}, !.standing = @ \cup {held}]]

\* The targets a commit hits, and those that are also driven by a schedule it leaves alone.
split_targets(commit, s) ==
    LET candidates == {p \in TargetsOf(RunningToday) : driven(s, p[2])}
        hit == {p \in candidates : commit_hits_target(commit, p[2], driven_dimensions(hclTable[p[1]]))}
    IN  [hit |-> hit, spared |-> {p[2] : p \in candidates \ hit}]

\* RuntimeStateChangedEvent: a target another running schedule still drives in
\* a dimension the commit leaves alone is not stood down.
suspend_hit_targets(commit) ==
    LET w == roll_over_ledger(Handler)
        split == split_targets(commit, w.s)
        cause == IF commit.lamp = None THEN Everyone ELSE commit.lamp
    IN  IF ~overrides(commit) \/ local = None THEN Handler
        ELSE [led |-> suspend(w.led, split.hit, cause),
              s |-> stand_down(w.s, {p[2] : p \in split.hit} \ split.spared),
              seen |-> [w.seen EXCEPT !.asked = @ \cup {cause}]]

clear_schedule(led, id) == [led EXCEPT !.flags[id] = [k \in TargetKey |-> {}]]

handle_override_clear(id) ==
    [Handler EXCEPT !.led = clear_schedule(@, id), !.seen.standing = {}]

handle_override_resume(target) ==
    LET removal == resume_removal(target)
        inside == CASE target = Everyone -> Cause
                    [] target \in HclGroups -> {target} \cup Members(target)
                    [] OTHER -> {target}
    IN  [Handler EXCEPT
            !.led.flags = [id \in HclIds |-> [k \in TargetKey |-> @[id][k] \ removal]],
            !.seen.asked = @ \ inside, !.seen.standing = @ \ inside]

\* An edit served while a tick publishes takes the schedule's old and new
\* targets out of what was published; the tick skips its commands.
edit_during_tick(s, id) ==
    LET was == IF s.from = None THEN None ELSE s.from[id]
        now == hclTable[id]
        stale == UNION {ToSet(v.targets) : v \in {was, now} \ {None}}
    IN  IF was = now THEN s
        ELSE [s EXCEPT !.last = [k \in TargetKey |-> IF k \in stale THEN None ELSE @[k]],
                       !.tick.published = @ \ stale,
                       !.tick.edited = @ \cup {id}]

\* Between ticks: what the last tick was planned from is published again, and
\* anything else makes the scheduler forget all it published.
forget_edited(s) ==
    IF s.from = hclTable
    THEN [s EXCEPT !.last = [k \in TargetKey |->
              IF @[k] = None THEN None ELSE [state |-> @[k].state, confirmed |-> FALSE]]]
    ELSE [s EXCEPT !.last = Nothing, !.from = None]

apply_schedule_change(id, removed) ==
    [Handler EXCEPT
        !.s = IF @.tick # None THEN edit_during_tick(@, id) ELSE forget_edited(@),
        !.led = IF removed THEN clear_schedule(@, id) ELSE @,
        !.seen.standing = {}]

-----------------------------------------------------------------------------
(* A tick.                                                                 *)

\* What each schedule that runs today wants of its targets, suspended ones
\* left out, in the order of the schedules and of their targets.
desired_entries(led) ==
    LET wants(id) == evaluate(hclTable[id], local.sun, local.minute)
        entry(id, state) ==
            [i \in DOMAIN hclTable[id].targets |->
                [key |-> hclTable[id].targets[i], state |-> state, schedule |-> id]]
        open(e) == led.flags[e.schedule][e.key] = {}
    IN  FlattenSeq([id \in HclIds |->
            IF ~runs_today(id) \/ wants(id) = None THEN <<>>
            ELSE SelectSeq(entry(id, wants(id)), open)])

\* One entry a key: at the place of the first, what the last one says.
coalesce(entries) ==
    LET last(e) == entries[Max({i \in DOMAIN entries : entries[i].key = e.key})]
        first(i) == \A j \in 1 .. (i - 1) : entries[j].key # entries[i].key
        places == SelectSeq([i \in DOMAIN entries |-> i], first)
    IN  [n \in DOMAIN places |-> last(entries[places[n]])]

unconfirmed_entries_Recorded(last, entries) ==
    SelectSeq(entries, LAMBDA e : ~(last[e.key] # None /\ wire_equal(last[e.key].state, e.state)))
unconfirmed_entries(last, entries) ==
    SelectSeq(entries, LAMBDA e :
        ~(last[e.key] # None /\ last[e.key].confirmed /\ wire_equal(last[e.key].state, e.state)))

\* The commands of an entry: a recall of the last level needs one of its own.
commands_for(entry) ==
    LET cmd(what) == [key |-> entry.key, what |-> what, state |-> entry.state, schedule |-> entry.schedule]
        colour == IF entry.state.kelvin = None THEN <<>> ELSE <<cmd("colour")>>
    IN  CASE entry.state.mode = "absolute" /\ entry.state.level # None -> <<cmd("level")>>
          [] entry.state.mode = "last" -> colour \o <<cmd("recall")>>
          [] OTHER -> colour

\* Whole entries up to the cap; after the first that does not fit, none.
plan(entries) ==
    LET units == [i \in DOMAIN entries |-> IF is_noop(entries[i].state) THEN <<>> ELSE commands_for(entries[i])]
        upto(n) == FlattenSeq(SubSeq(units, 1, n))
    IN  upto(Max({n \in 0 .. Len(units) : Len(upto(n)) <= TickCap}))

\* run_tick, up to the first command: nothing while a gate is closed or the
\* clock is not set.
run_tick ==
    /\ sched.phase = "idle" /\ hclGates = {} /\ local # None
    /\ \E w \in {roll_over_ledger(Handler)} :
       \E entries \in {desired_entries(w.led)} :
       \E fresh \in {unconfirmed_entries(w.s.last, coalesce(entries))} :
       LET from(k) == {fresh[i].schedule : i \in {j \in DOMAIN fresh : fresh[j].key = k}}
       IN  /\ sched' = [w.s EXCEPT
                 !.from = hclTable, !.fresh = fresh, !.plan = plan(fresh), !.at = 1,
                 !.outcomes = Nothing, !.phase = "publish",
                 !.tick = [sources |-> [k \in TargetKey |-> from(k)], published |-> {},
                           stoodDown |-> {}, edited |-> {}, cut |-> FALSE]]
           /\ hclLedger' = w.led /\ hclSeen' = w.seen
    /\ UNCHANGED <<hclTable, hclMember, hclClock, hclGates, hclInbox, hclRun>>

planned_by_an_edited_schedule(tick, key) == tick.sources[key] \cap tick.edited # {}

Command == sched.plan[sched.at]
skips_in_tick(key) ==
    planned_by_an_edited_schedule(sched.tick, key) \/ key \in sched.tick.stoodDown
skip_command ==
    /\ sched.phase = "publish" /\ sched.at <= Len(sched.plan)
    /\ skips_in_tick(Command.key)
    /\ sched' = [sched EXCEPT !.at = @ + 1,
                    !.tick.cut = @ \/ planned_by_an_edited_schedule(sched.tick, Command.key)]
    /\ UNCHANGED <<hclTable, hclMember, hclClock, hclGates, hclInbox, hclLedger, hclSeen, hclRun>>

\* The first command of an entry starts the history of its key afresh.
Starts == sched.at = 1 \/ sched.plan[sched.at - 1].key # Command.key
publish_one ==
    /\ sched.phase = "publish" /\ sched.at <= Len(sched.plan)
    /\ ~skips_in_tick(Command.key)
    /\ sched' = [sched EXCEPT !.phase = "wait", !.tick.published = @ \cup {Command.key}]
    /\ hclSeen' = [hclSeen EXCEPT
            !.sent = @ \cup {Command.key},
            !.wire[Command.key] = IF Starts THEN [state |-> Command.state, got |-> 0] ELSE @]
    /\ UNCHANGED <<hclTable, hclMember, hclClock, hclGates, hclInbox, hclLedger, hclRun>>

\* The bus refused it: the tick ends, and no key with a command left over
\* counts as confirmed.
mark_unpublished_keys ==
    {sched.plan[i].key : i \in sched.at .. Len(sched.plan)}

HclSpend(bound) == hclRun[bound] > 0 /\ hclRun' = [hclRun EXCEPT ![bound] = @ - 1]

publish_refused ==
    /\ sched.phase = "publish" /\ sched.at <= Len(sched.plan)
    /\ ~skips_in_tick(Command.key)
    /\ HclSpend("failures")
    /\ sched' = [sched EXCEPT !.phase = "publish", !.at = Len(sched.plan) + 1,
            !.outcomes = [k \in TargetKey |->
                IF @[k] # None /\ k \in mark_unpublished_keys THEN FALSE ELSE @[k]]]
    /\ UNCHANGED <<hclTable, hclMember, hclClock, hclGates, hclInbox, hclLedger, hclSeen>>

\* wait_for_confirmation: an answer that is not ok, or none in time, is the
\* same to the tick.  All the commands of a key must be confirmed.
outcomes_merge_Last(seen, ok) == ok
outcomes_merge(seen, ok) == IF seen = None THEN ok ELSE seen /\ ok
wait_for_confirmation(ok) ==
    /\ sched.phase = "wait"
    /\ IF ok THEN UNCHANGED hclRun ELSE HclSpend("failures")
    /\ sched' = [sched EXCEPT !.phase = "publish", !.at = @ + 1,
                    !.outcomes[Command.key] = outcomes_merge(@, ok)]
    /\ hclSeen' = IF ok THEN [hclSeen EXCEPT !.wire[Command.key].got = @ + 1] ELSE hclSeen
    /\ UNCHANGED <<hclTable, hclMember, hclClock, hclGates, hclInbox, hclLedger>>

\* What was published is remembered, but for what an edit or a stand-down has
\* reached meanwhile.
record_published(s) ==
    LET kept(k) == {i \in DOMAIN s.fresh : s.fresh[i].key = k}
        recorded(k) == /\ s.outcomes[k] # None /\ k \notin s.tick.stoodDown
                       /\ ~planned_by_an_edited_schedule(s.tick, k)
    IN  [k \in TargetKey |->
            IF k \in s.tick.stoodDown THEN None
            ELSE IF recorded(k)
            THEN [state |-> s.fresh[CHOOSE i \in kept(k) : TRUE].state, confirmed |-> s.outcomes[k]]
            ELSE s.last[k]]

finish_tick ==
    /\ sched.phase = "publish" /\ sched.at > Len(sched.plan)
    /\ sched' = [sched EXCEPT
            !.phase = "idle", !.tick = None, !.last = record_published(sched),
            !.from = IF sched.tick.edited = {} THEN @ ELSE hclTable,
            !.fresh = <<>>, !.plan = <<>>, !.at = 0, !.outcomes = Nothing]
    /\ UNCHANGED <<hclTable, hclMember, hclClock, hclGates, hclInbox, hclLedger, hclSeen, hclRun>>

-----------------------------------------------------------------------------
(* The worker's inbox: within a channel frames keep their order, between   *)
(* the two channels they do not.  It is served between ticks and while a   *)
(* tick waits for a confirmation.                                          *)

HclHandle(frame) ==
    CASE frame.kind = "changed" -> apply_schedule_change(frame.id, frame.removed)
      [] frame.kind = "commit" -> suspend_hit_targets(frame)
      [] frame.kind = "hold" -> handle_override_hold(frame.target)
      [] frame.kind = "resume" -> handle_override_resume(frame.target)
      [] frame.kind = "clear" -> handle_override_clear(frame.id)

apply_frame(channel) ==
    /\ sched.phase \in {"idle", "wait"}
    /\ hclInbox[channel] # <<>>
    /\ LET w == HclHandle(Head(hclInbox[channel]))
       IN  hclLedger' = w.led /\ sched' = w.s /\ hclSeen' = w.seen
    /\ hclInbox' = [hclInbox EXCEPT ![channel] = Tail(@)]
    /\ UNCHANGED <<hclTable, hclMember, hclClock, hclGates, hclRun>>

\* The rest of the controller.  A schedule changes in the registry before the
\* event that says so is on the bus.
HclEdited(edit) ==
    /\ edit \in hclRun.edits /\ hclTable[edit.id] # edit.becomes
    /\ hclTable' = [hclTable EXCEPT ![edit.id] = edit.becomes]
    /\ hclInbox' = [hclInbox EXCEPT !.events =
            Append(@, [kind |-> "changed", id |-> edit.id, removed |-> edit.becomes = None])]
    /\ hclRun' = [hclRun EXCEPT !.edits = @ \ {edit}]
    /\ hclSeen' = [hclSeen EXCEPT !.standing = {}]
    /\ UNCHANGED <<hclMember, hclClock, hclGates, hclLedger, sched>>

HclSent(frame) ==
    /\ frame \in hclRun.frames
    /\ LET channel == IF frame.kind = "commit" THEN "events" ELSE "commands"
       IN  hclInbox' = [hclInbox EXCEPT ![channel] = Append(@, frame)]
    /\ hclRun' = [hclRun EXCEPT !.frames = @ \ {frame}]
    /\ UNCHANGED <<hclTable, hclMember, hclClock, hclGates, hclLedger, sched, hclSeen>>

HclClockMoves ==
    /\ hclClock < Len(hclRun.times)
    /\ hclClock' = hclClock + 1
    /\ hclSeen' = IF local # None /\ hclRun.times[hclClock + 1].day = local.day THEN hclSeen
                  ELSE [hclSeen EXCEPT !.standing = {}]
    /\ UNCHANGED <<hclTable, hclMember, hclGates, hclInbox, hclLedger, sched, hclRun>>

HclGate(gate) ==
    /\ HclSpend("gates")
    /\ hclGates' = IF gate \in hclGates THEN hclGates \ {gate} ELSE hclGates \cup {gate}
    /\ UNCHANGED <<hclTable, hclMember, hclClock, hclInbox, hclLedger, sched, hclSeen>>

HclRegroup(member) ==
    /\ member \in hclRun.regroup
    /\ hclMember' = member
    /\ hclRun' = [hclRun EXCEPT !.regroup = {}]
    /\ hclSeen' = [hclSeen EXCEPT !.standing = {}]
    /\ UNCHANGED <<hclTable, hclClock, hclGates, hclInbox, hclLedger, sched>>

HclInit ==
    /\ hclRun \in HclScenarios
    /\ hclTable = hclRun.table /\ hclMember = hclRun.member
    /\ hclClock = 0 /\ hclGates = {}
    /\ hclInbox = [events |-> <<>>, commands |-> <<>>]
    /\ hclLedger = [day |-> None, flags |-> NoFlags]
    /\ sched = [last |-> Nothing, from |-> None, tick |-> None, phase |-> "idle",
                fresh |-> <<>>, plan |-> <<>>, at |-> 0, outcomes |-> Nothing]
    /\ hclSeen = [wire |-> Nothing, sent |-> {}, asked |-> {}, standing |-> {}]

HclWorks ==
    \/ run_tick \/ skip_command \/ publish_one \/ finish_tick
    \/ \E ok \in BOOLEAN : wait_for_confirmation(ok)
HclNext ==
    \/ HclWorks \/ publish_refused
    \/ \E channel \in {"events", "commands"} : apply_frame(channel)
    \/ \E edit \in hclRun.edits : HclEdited(edit)
    \/ \E frame \in hclRun.frames : HclSent(frame)
    \/ \E gate \in {"maintenance", "passive", "quiescent"} : HclGate(gate)
    \/ \E member \in hclRun.regroup : HclRegroup(member)
    \/ HclClockMoves

\* The worker's loop turns: it ticks when the period is over, a command it
\* published is confirmed or times out, and it takes what the bus delivers.
HclFairness ==
    /\ WF_hclVars(HclWorks)
    /\ \A channel \in {"events", "commands"} : WF_hclVars(apply_frame(channel))
HclSpec == HclInit /\ [][HclNext]_hclVars /\ HclFairness

-----------------------------------------------------------------------------
(* What the scheduler promises.                                            *)

HclTypeOK ==
    /\ sched.phase \in {"idle", "publish", "wait"} /\ (sched.phase = "idle") = (sched.tick = None)
    /\ hclLedger.flags \in [HclIds -> [TargetKey -> SUBSET Cause]]
    /\ Len(sched.plan) <= TickCap
    /\ sched.phase = "wait" => sched.at \in DOMAIN sched.plan

\* When a tick is planned, a state remembered as confirmed is the last one sent
\* to its target and every command of it was confirmed: unconfirmed_entries
\* skips it.
MemoIsTrue ==
    \A k \in TargetKey :
        (sched.tick = None /\ sched.last[k] # None /\ sched.last[k].confirmed) =>
            /\ hclSeen.wire[k].state = sched.last[k].state
            /\ hclSeen.wire[k].got =
                   Len(commands_for([key |-> k, state |-> sched.last[k].state, schedule |-> 0]))

\* A commit may stand down only targets the scheduler really published since
\* the day of its ledger began, or in the tick that was under way then.
DrivenWasSent ==
    \A k \in TargetKey : driven(sched, k) => k \in hclSeen.sent

\* Whatever suspends a target is a hold or a commit of this day that no resume
\* has lifted since.
FlagsAreOwed ==
    UNION {hclLedger.flags[id][k] : id \in HclIds, k \in TargetKey} \subseteq hclSeen.asked

Publishes == sched'.phase = "wait" /\ sched.phase = "publish"
LampsOf(target) == IF target = Everyone THEN HclLamps ELSE IF target \in HclLamps THEN {target} ELSE Members(target)

\* No command reaches a lamp inside a hold that still stands: hcl.hold stands
\* down every target its lamps are in, the tick in progress included.
HeldLampsLeftAlone ==
    [][Publishes => LET lamps == UNION {LampsOf(h) : h \in hclSeen.standing}
                    IN  LampsOf(Command.key) \cap lamps = {}]_hclVars

\* A tick does not publish for a schedule whose target was suspended under it,
\* unless another schedule of the plan shares that target.
SuspendedStaysQuiet ==
    [][Publishes =>
         \/ hclLedger.flags[Command.schedule][Command.key] = {}
         \/ \E id \in HclIds \ {Command.schedule} :
                sched.from[id] # None /\ Command.key \in ToSet(sched.from[id].targets)]_hclVars

\* The schedules that want something of a target now; the last one has it.
Wanting(k) ==
    {id \in RunningToday : /\ k \in ToSet(hclTable[id].targets) /\ hclLedger.flags[id][k] = {}
                           /\ evaluate(hclTable[id], local.sun, local.minute) # None}
Told(k, state) ==
    \/ commands_for([key |-> k, state |-> state, schedule |-> 0]) = <<>>
    \/ sched.last[k] # None /\ sched.last[k].confirmed /\ wire_equal(sched.last[k].state, state)
Applied ==
    (hclGates = {} /\ local # None) =>
        \A k \in TargetKey :
            Wanting(k) # {} => Told(k, evaluate(hclTable[Max(Wanting(k))], local.sun, local.minute))

\* In the end every target of a schedule that runs and is not suspended has
\* been told what its curve says now: refusals, timeouts, edits under a tick
\* and the cap of a tick only delay it.
CurveApplied == <>[]Applied


\* What the scheduler remembers is true: of what its targets were told, of what
\* it drove and of what suspends them.
LedgerIsTrue == HclTypeOK /\ MemoIsTrue /\ DrivenWasSent /\ FlagsAreOwed

\* The scheduler is quiet where it was asked to be.
QuietWhereAsked == HeldLampsLeftAlone /\ SuspendedStaysQuiet
=============================================================================
