---------------------------- MODULE RulesEngine ----------------------------
(***************************************************************************)
(* The rules engine: what one input (an event, a tick of the wheel, a run  *)
(* asked for over HTTP) does to the loaded rules, and the loop the effects *)
(* close when the lamps they drive report back.                            *)
(*                                                                         *)
(* A rule is [on, cooldown, when, do, enabled]: its triggers, its pause    *)
(* between activations, its conditions, its actions and its switch.  Rules *)
(* and timers are named by numbers, since the engine walks them in name    *)
(* order.  The engine is one record, and an input is handled by one action *)
(* because one thread owns the engine.  Time is in steps; a step of the    *)
(* wall clock is a minute of a short week.                                 *)
(***************************************************************************)
EXTENDS Absent, Integers, Sequences, FiniteSets, FiniteSetsExt, SequencesExt

CONSTANTS
    RuleSets,       \* the documents that may be loaded, each a function from names to rules
    RuleBlocks,     \* the def blocks: name -> actions
    RuleLamps,      \* the lamps the rules watch and drive
    MaxContinuations, MaxTimers, MaxChainDepth, ChainWindow,
    MaxExpanded,    \* MAX_ACTIONS_EXPANDED, the steps one activation may take
    StepCap,        \* FLATTEN_STEP_CAP
    MaxCallDepth, MaxRepeat,
    WeekMinutes, CatchupCap,
    EchoLatency,    \* how long a driven lamp may take to report
    EngineScenarios \* [load, reloads, toggles, runs, presses, moves, time, refusals]

ASSUME EngineAssumption ==
    /\ EchoLatency <= ChainWindow
    /\ CatchupCap < WeekMinutes

VARIABLES
    engine,    \* the Engine: rules, switches and volatile state
    ruleNow,   \* the monotonic clock
    wall,      \* the minute of the week, or None while the clock is not set
    lampOn,    \* what the read model says of each lamp
    lampSeen,  \* the funnel's last state of each lamp
    echoes,    \* lamp changes on their way back, in order
    handled,   \* the last input, what it made the engine do, and the state it met
    wallMoved, \* minutes the clock moved since the wheel last read it, None if unknown
    firedAt,   \* when each rule of the document was last activated for effect
    engineRun  \* what the scenario still allows
engineVars == <<engine, ruleNow, wall, lampOn, lampSeen, echoes, handled, wallMoved, firedAt, engineRun>>

-----------------------------------------------------------------------------
(* Flattening: blocks and repeats are unrolled before the run, nesting     *)
(* that the compiler should have refused becomes a failing step.           *)

Fail == [do |-> "fail"]
TopLevel == [calls |-> 0, repeat |-> FALSE, branch |-> FALSE, after |-> FALSE]

RECURSIVE flatten_list(_, _, _)

flatten_after(a, out, ctx) ==
    IF ctx.after THEN Append(out, Fail)
    ELSE Append(out, [do |-> "after", ms |-> a.ms,
                      body |-> flatten_list(a.body, <<>>, [ctx EXCEPT !.after = TRUE])])

flatten_call(a, out, ctx) ==
    IF a.block \notin DOMAIN RuleBlocks \/ ctx.calls + 1 > MaxCallDepth THEN Append(out, Fail)
    ELSE flatten_list(RuleBlocks[a.block], out, [ctx EXCEPT !.calls = @ + 1])

flatten_repeat(a, out, ctx) ==
    IF ctx.repeat \/ a.count = 0 \/ a.count > MaxRepeat THEN Append(out, Fail)
    ELSE LET body == flatten_list(a.body, <<>>, [ctx EXCEPT !.repeat = TRUE])
             fits == IF body = <<>> THEN a.count
                     ELSE Min({a.count, Max({0, StepCap - Len(out)}) \div Len(body)})
         IN  out \o FlattenSeq([i \in 1 .. fits |-> body])
                 \o (IF fits < a.count THEN <<Fail>> ELSE <<>>)

flatten_branch(a, out, ctx) ==
    IF ctx.branch THEN Append(out, Fail)
    ELSE LET nested == [ctx EXCEPT !.branch = TRUE]
             node == Len(out) + 1
             then == flatten_list(a.then, Append(out, Fail), nested)
             whole == flatten_list(a.else, then, nested)
         IN  [whole EXCEPT ![node] = [do |-> "branch", cond |-> a.cond, then |-> Len(then) - node,
                                    else |-> Len(whole) - Len(then)]]

flatten_action(a, out, ctx) ==
    CASE a.do = "after" -> flatten_after(a, out, ctx)
      [] a.do = "call" -> flatten_call(a, out, ctx)
      [] a.do = "repeat" -> flatten_repeat(a, out, ctx)
      [] a.do = "if" -> flatten_branch(a, out, ctx)
      [] OTHER -> Append(out, a)

flatten_list(actions, out, ctx) ==
    IF actions = <<>> THEN out
    ELSE IF Len(out) >= StepCap THEN Append(out, Fail)
    ELSE flatten_list(Tail(actions), flatten_action(Head(actions), out, ctx), ctx)

-----------------------------------------------------------------------------
(* The volatile state.                                                     *)

RuleNames == UNION {DOMAIN RuleSets[d] : d \in DOMAIN RuleSets}
RulesOf(doc) == IF doc = None THEN <<>> ELSE RuleSets[doc]
TimerNames == 1 .. (MaxTimers + 1)

Engine_new ==
    [doc |-> None, enabled |-> <<>>, last |-> [n \in RuleNames |-> None],
     cycle |-> [n \in RuleNames |-> 0], timers |-> [t \in TimerNames |-> None],
     conts |-> <<>>, every |-> {}, chain |-> {}, prev |-> None]

TimersArmed(e) == {t \in TimerNames : e.timers[t] # None}
name_order(e) == SetToSortSeq(DOMAIN e.enabled, <)
Triggered(e, n, kind, arg) == \E t \in RulesOf(e.doc)[n].on : t.kind = kind /\ t.arg = arg

\* What an effect is remembered under, and what a lamp event is looked up by.
target_chain_keys(target) == {IF target = "all" THEN "adapter" ELSE target}
record_effect_chain(effect) ==
    CASE effect.do = "light" -> target_chain_keys(effect.target)
      [] effect.do = "cycle" -> {"scene"}
      [] OTHER -> {}
lamp_chain_keys(lamp) == {lamp, "adapter"}

\* Mutant: what is exactly as old as the window is forgotten.
prune_chain_Short(e, now) == [e EXCEPT !.chain = {c \in @ : now - c.at < ChainWindow}]
prune_chain(e, now) == [e EXCEPT !.chain = {c \in @ : now - c.at <= ChainWindow}]
chain_depth_for(e, keys) ==
    LET parents == {c.depth : c \in {c \in e.chain : c.key \in keys}}
    IN  IF parents = {} THEN 0 ELSE Max(parents) + 1

-----------------------------------------------------------------------------
(* Conditions, over the snapshot the handler was given.                    *)

\* world is [now, wall, lamps]; the result is TRUE, FALSE or None: unevaluable.
eval_condition(e, world, c) ==
    CASE c.is = "lamp" -> IF world.lamps[c.lamp] = None THEN None ELSE world.lamps[c.lamp] = c.on
      [] c.is = "timer" -> e.timers[c.timer] # None
      [] c.is = "enabled" -> c.rule \in DOMAIN e.enabled /\ e.enabled[c.rule]
      [] c.is = "older" -> e.last[c.rule] = None \/ world.now - e.last[c.rule] > c.ms
      [] OTHER -> IF world.wall = None THEN None ELSE world.wall \in c.minutes

\* The first condition that is not TRUE decides.
conditions_hold(e, world, conds) ==
    LET verdicts == [i \in DOMAIN conds |-> eval_condition(e, world, conds[i])]
        other == {i \in DOMAIN conds : verdicts[i] # TRUE}
    IN  IF other = {} THEN TRUE ELSE verdicts[Min(other)]

-----------------------------------------------------------------------------
(* Running the steps of an activation.  A run is [e, effects, partial].    *)

note_partial(run, why) == [run EXCEPT !.partial = IF @ = None THEN why ELSE @]
Failed(run) == note_partial(run, "unevaluable")

schedule_continuation(run, world, job, ms, steps) ==
    IF Len(run.e.conts) >= MaxContinuations THEN note_partial(run, "budget")
    ELSE [run EXCEPT !.e.conts = Append(@,
              [due |-> world.now + ms, rule |-> job.rule, depth |-> job.depth,
               cause |-> job.cause, budget |-> job.budget, steps |-> steps])]

flip_rule_bit(e, n, value) ==
    [e EXCEPT !.enabled[n] = value,
              !.conts = IF value THEN @ ELSE SelectSeq(@, LAMBDA c : c.rule # n)]

arm_timer(run, world, job, t, ms) ==
    IF job.dry THEN run
    ELSE IF Cardinality(TimersArmed(run.e)) >= MaxTimers THEN Failed(run)
    ELSE [run EXCEPT !.e.timers[t] = world.now + ms]

prim_timer(run, world, job, s) ==
    CASE s.do = "start" -> IF run.e.timers[s.timer] # None THEN run
                           ELSE arm_timer(run, world, job, s.timer, s.ms)
      [] s.do = "restart" -> arm_timer(IF job.dry THEN run ELSE [run EXCEPT !.e.timers[s.timer] = None],
                                       world, job, s.timer, s.ms)
      [] OTHER -> IF job.dry THEN run ELSE [run EXCEPT !.e.timers[s.timer] = None]

set_rule_bit(run, job, s) ==
    IF s.rule \notin DOMAIN run.e.enabled THEN Failed(run)
    ELSE IF job.dry THEN run
    ELSE [run EXCEPT !.e = flip_rule_bit(@, s.rule, s.do = "enable")]

cycle_effect(run, job, s) ==
    IF s.scenes = <<>> THEN Failed(run)
    ELSE LET pos == run.e.cycle[job.rule] % Len(s.scenes)
         IN  [run EXCEPT !.effects = Append(@, [do |-> "cycle", target |-> s.scenes[pos + 1], on |-> TRUE]),
                         !.e.cycle[job.rule] = IF job.dry THEN @ ELSE (pos + 1) % Len(s.scenes)]

light_verb(run, world, s) ==
    LET known == s.do # "toggle" \/ world.lamps[s.target] # None
        on == IF s.do = "toggle" THEN ~world.lamps[s.target] ELSE s.do = "on"
    IN  IF ~known THEN Failed(run)
        ELSE [run EXCEPT !.effects = Append(@, [do |-> "light", target |-> s.target, on |-> on])]

run_prim(run, world, job, s) ==
    CASE s.do \in {"on", "off", "toggle"} -> light_verb(run, world, s)
      [] s.do = "cycle" -> cycle_effect(run, job, s)
      [] s.do \in {"enable", "disable"} -> set_rule_bit(run, job, s)
      [] OTHER -> prim_timer(run, world, job, s)

\* The steps after a branch: the chosen region, then what follows both.
run_branch(run, world, job, s) ==
    LET steps == job.steps
        rest == SubSeq(steps, s.then + s.else + 1, Len(steps))
        verdict == eval_condition(run.e, world, s.cond)
    IN  CASE verdict = TRUE -> <<run, SubSeq(steps, 1, s.then) \o rest>>
          [] verdict = FALSE -> <<run, SubSeq(steps, s.then + 1, s.then + s.else) \o rest>>
          [] OTHER -> <<Failed(run), rest>>

RECURSIVE run_steps(_, _, _)
run_steps(run, world, job) ==
    IF job.steps = <<>> THEN run
    ELSE IF job.budget = 0 THEN note_partial(run, "budget")
    ELSE LET s == Head(job.steps)
             next == [job EXCEPT !.steps = Tail(@), !.budget = @ - 1]
         IN  CASE s.do = "wait" ->
                    IF job.dry THEN run_steps(run, world, next)
                    ELSE schedule_continuation(run, world, next, s.ms, next.steps)
               [] s.do = "after" ->
                    IF job.dry THEN run_steps(run, world, [next EXCEPT !.steps = @ \o s.body])
                    ELSE run_steps(schedule_continuation(run, world, next, s.ms, s.body), world, next)
               [] s.do = "branch" ->
                    LET b == run_branch(run, world, next, s)
                    IN  run_steps(b[1], world, [next EXCEPT !.steps = b[2]])
               [] s.do = "fail" -> run_steps(Failed(run), world, next)
               [] OTHER -> run_steps(run_prim(run, world, next, s), world, next)

-----------------------------------------------------------------------------
(* Activating rules.  A handling is [e, out]: the engine and its outcomes. *)

in_cooldown(e, world, n) ==
    /\ RulesOf(e.doc)[n].cooldown > 0
    /\ e.last[n] # None
    /\ world.now - e.last[n] < RulesOf(e.doc)[n].cooldown

Outcome(n, why, depth, cause, mode, run) ==
    [rule |-> n, why |-> why, mode |-> mode, depth |-> depth, cause |-> cause,
     effects |-> run.effects, partial |-> run.partial]
Refusal(e, why) == [e |-> e, effects |-> <<>>, partial |-> why]

\* Every effect is remembered under its keys, at the depth of its activation.
finish_wet(run, world, depth, dry) ==
    IF dry THEN run.e
    ELSE [run.e EXCEPT !.chain = @ \cup
              {[key |-> k, depth |-> depth, at |-> world.now] :
                   k \in UNION {record_effect_chain(run.effects[i]) : i \in DOMAIN run.effects}}]

Finished(h, run, world, why, job, mode) ==
    [e |-> finish_wet(run, world, job.depth, job.dry),
     out |-> Append(h.out, Outcome(job.rule, why, job.depth, job.cause, mode, run))]

\* The steps of a job from the engine's state.
Worked(h, world, why, job, mode) ==
    Finished(h, run_steps([e |-> h.e, effects |-> <<>>, partial |-> None], world, job), world, why, job, mode)

execute(h, world, n, why, depth, cause, mode) ==
    Worked(IF mode = "dry" THEN h ELSE [h EXCEPT !.e.last[n] = world.now], world, why,
           [rule |-> n, depth |-> depth, cause |-> cause, dry |-> mode = "dry", budget |-> MaxExpanded,
            steps |-> flatten_list(RulesOf(h.e.doc)[n].do, <<>>, TopLevel)], mode)

activate(h, world, n, why, depth, cause, mode) ==
    LET verdict == conditions_hold(h.e, world, RulesOf(h.e.doc)[n].when)
        Refused(reason) == [h EXCEPT !.out = Append(@, Outcome(n, "refused", depth, cause, mode,
                                                               Refusal(h.e, reason)))]
    IN  IF mode = "auto" /\ in_cooldown(h.e, world, n) THEN h
        ELSE IF depth > MaxChainDepth THEN Refused("depth")
        ELSE CASE verdict = TRUE -> execute(h, world, n, why, depth, cause, mode)
               [] verdict = FALSE -> h
               [] OTHER -> Refused("unevaluable")

\* The enabled rules that a trigger names, one after another in name order.
ActivateAll(h, world, kind, arg, depth, cause) ==
    FoldLeft(LAMBDA g, n : IF Triggered(g.e, n, kind, arg) /\ g.e.enabled[n]
                           THEN activate(g, world, n, kind, depth, cause, "auto") ELSE g,
             h, name_order(h.e))

input_chain_depth(e, input) ==
    IF input.kind = "turns" THEN chain_depth_for(e, lamp_chain_keys(input.lamp)) ELSE 0
on_external(h, world, input) ==
    ActivateAll(h, world, input.kind, input.arg, input_chain_depth(h.e, input), input.cause)

run_rule(h, world, n, dry) ==
    IF n \notin DOMAIN h.e.enabled \/ (~dry /\ ~h.e.enabled[n]) THEN h
    ELSE activate(h, world, n, "http", 0, 0, IF dry THEN "dry" ELSE "manual")

-----------------------------------------------------------------------------
(* The wheel.                                                              *)

\* A sequence in the order of its due times, equals in the order they stood in.
DueOrder(s, now) ==
    FlattenSeq([t \in 1 .. now |-> SelectSeq(s, LAMBDA c : c.due = t)])

resume(h, world, c) ==
    Worked(h, world, "resumed",
           [rule |-> c.rule, depth |-> c.depth, cause |-> c.cause, dry |-> FALSE,
            budget |-> c.budget, steps |-> c.steps], "auto")

\* All that is due is taken out before the first of them runs.
fire_continuations(h, world) ==
    LET due == DueOrder(h.e.conts, world.now)
        kept == [h EXCEPT !.e.conts = SelectSeq(@, LAMBDA c : c.due > world.now)]
    IN  FoldLeft(LAMBDA g, c : resume(g, world, c), kept, due)

fire_timers(h, world) ==
    LET armed == [i \in TimerNames |-> [name |-> i, due |-> h.e.timers[i]]]
        due == DueOrder(SelectSeq(armed, LAMBDA t : t.due # None), world.now)
        kept == [h EXCEPT !.e.timers = [t \in TimerNames |->
                     IF @[t] # None THEN IF @[t] <= world.now THEN None ELSE @[t] ELSE None]]
    IN  FoldLeft(LAMBDA g, t : ActivateAll(g, world, "timer", t.name, 0, 0), kept, due)

\* The next due time is set before the rule runs, from now and not from the last one.
fire_every(h, world) ==
    LET due == {s \in h.e.every : s.due <= world.now}
        moved == [h EXCEPT !.e.every = (@ \ due) \cup {[s EXCEPT !.due = world.now + s.period] : s \in due}]
    IN  FoldLeft(LAMBDA g, s : IF g.e.enabled[s.rule]
                               THEN activate(g, world, s.rule, "every", 0, 0, "auto") ELSE g,
                 moved, SetToSortSeq(due, LAMBDA a, b : a.rule < b.rule))

cyclic_dist(from, to) == (to + WeekMinutes - from) % WeekMinutes
\* Mutant: the minute the wheel last read counts again.
in_window_FromBase(base, window, target) == cyclic_dist(base, target) \in 0 .. window
in_window(base, window, target) == cyclic_dist(base, target) \in 1 .. window
WallMinutes(e, n) == {t.arg : t \in {t \in RulesOf(e.doc)[n].on : t.kind = "at"}}
has_wall_triggers(e) == \E n \in DOMAIN e.enabled : e.enabled[n] /\ WallMinutes(e, n) # {}

fire_due_wall_rules(h, world, base, window) ==
    FoldLeft(LAMBDA g, n :
                 IF g.e.enabled[n] /\ \E m \in WallMinutes(g.e, n) : in_window(base, window, m)
                 THEN activate(g, world, n, "at", 0, 0, "auto") ELSE g,
             h, name_order(h.e))

fire_wall_schedules(h, world) ==
    LET prev == h.e.prev
        read == [h EXCEPT !.e.prev = world.wall]
        window == Min({cyclic_dist(prev, world.wall), CatchupCap})
        base == (world.wall + WeekMinutes - window) % WeekMinutes
    IN  IF world.wall = None \/ prev = None \/ ~has_wall_triggers(h.e) THEN read
        ELSE IF window = 0 THEN read
        ELSE fire_due_wall_rules(read, world, base, window)

service_tick(h, world) ==
    fire_wall_schedules(fire_every(fire_timers(fire_continuations(h, world), world), world), world)

\* When the worker must next turn the wheel: the earliest of what is armed.
next_deadline(e) ==
    {e.conts[i].due : i \in DOMAIN e.conts} \cup {e.timers[t] : t \in TimersArmed(e)}
        \cup {s.due : s \in e.every}

-----------------------------------------------------------------------------
(* Loading and switching.                                                  *)

rebuild_every(e, rules, now) ==
    UNION {LET periods == {t.arg : t \in {t \in rules[n].on : t.kind = "every"}}
               Kept(p) == {s \in e.every : s.rule = n /\ s.period = p}
           IN  UNION {IF Kept(p) # {} THEN Kept(p)
                      ELSE {[rule |-> n, period |-> p, due |-> now + p]} : p \in periods}
           : n \in DOMAIN rules}

set_rules(e, doc, now) ==
    LET rules == RulesOf(doc)
        Survives(f, zero) == [n \in RuleNames |-> IF n \in DOMAIN rules THEN f[n] ELSE zero]
    IN  [e EXCEPT !.doc = doc, !.enabled = [n \in DOMAIN rules |-> rules[n].enabled],
                  !.conts = <<>>, !.last = Survives(@, None), !.cycle = Survives(@, 0),
                  !.every = rebuild_every(e, rules, now)]

handle(e, world, input) ==
    LET h == [e |-> prune_chain(e, world.now), out |-> <<>>]
    IN  IF e.doc = None THEN h
        ELSE CASE input.kind = "tick" -> service_tick(h, world)
               [] input.kind = "run" -> run_rule(h, world, input.rule, input.dry)
               [] OTHER -> on_external(h, world, input)

-----------------------------------------------------------------------------
(* The worker's side of one input: the effects go out, a failed activation *)
(* is an input of its own (and is not reported again if it fails there),   *)
(* and what the effects drive comes back as lamp changes.                  *)

Input(kind, arg, lamp, cause) == [kind |-> kind, arg |-> arg, lamp |-> lamp, cause |-> cause]
Joined(g, h) == [e |-> h.e, out |-> g.out \o h.out]
Wet(o) == o.mode # "dry"
OutcomeFailed(o, refused) == Wet(o) /\ (o.partial # None \/ (refused /\ o.effects # <<>>))

\* The failed activations among those of a handling, each reported to the engine.
ReportFailures(h, world, refused) ==
    FoldLeft(LAMBDA g, o : Joined(g, handle(g.e, world, Input("fails", o.rule, None, 0))),
             h, SelectSeq(h.out, LAMBDA o : OutcomeFailed(o, refused)))
feed(e, world, input, refused) == ReportFailures(handle(e, world, input), world, refused)

\* One command to each target of an outcome: the light effects on it are merged.
EchoOf(o, lamp) ==
    LET hits == {i \in DOMAIN o.effects : o.effects[i].do = "light" /\ o.effects[i].target \in {lamp, "all"}}
    IN  IF hits = {} THEN <<>>
        ELSE <<[lamp |-> lamp, on |-> o.effects[Max(hits)].on, cause |-> o.cause + 1, since |-> ruleNow]>>
EchoesOf(out) ==
    FlattenSeq([i \in DOMAIN out |->
        IF ~Wet(out[i]) THEN <<>>
        ELSE FlattenSeq([l \in 1 .. Cardinality(RuleLamps) |-> EchoOf(out[i], SetToSeq(RuleLamps)[l])])])

World == [now |-> ruleNow, wall |-> wall, lamps |-> lampOn]
Activations(out) == SelectSeq(out, LAMBDA o : Wet(o) /\ o.why \notin {"refused", "resumed"})
\* The rules an input activated sooner than their pause allows.
Early(out) ==
    LET acts == SelectSeq(Activations(out), LAMBDA o : o.mode = "auto")
        Pause(n) == RulesOf(engine.doc)[n].cooldown
    IN  {n \in RuleNames : \E i \in DOMAIN acts :
            /\ acts[i].rule = n
            /\ Pause(n) > 0
            /\ \/ firedAt[n] # None /\ ruleNow - firedAt[n] < Pause(n)
               \/ \E j \in DOMAIN acts : j # i /\ acts[j].rule = n}

EngineSpend(what) == engineRun[what] > 0 /\ engineRun' = [engineRun EXCEPT ![what] = @ - 1]

TakeInput(kind, input, lamps, waiting, refused) ==
    \E h \in {feed(engine, [World EXCEPT !.lamps = lamps], input, refused)} :
    \E acts \in {Activations(h.out)} :
        /\ engine' = h.e
        /\ handled' = [kind |-> kind, out |-> h.out, moved |-> wallMoved,
                       enabled |-> engine.enabled, early |-> Early(h.out)]
        /\ firedAt' = [n \in RuleNames |-> IF \E i \in DOMAIN acts : acts[i].rule = n
                                           THEN ruleNow ELSE firedAt[n]]
        /\ echoes' = waiting \o (IF refused THEN <<>> ELSE EchoesOf(h.out))
        /\ lampOn' = lamps

NotHandled == [kind |-> "none", out |-> <<>>, moved |-> None, enabled |-> <<>>, early |-> {}]
NothingHandled == handled' = NotHandled

EngineInit ==
    /\ ruleNow = 1
    /\ engineRun \in EngineScenarios
    /\ engine = set_rules(Engine_new, engineRun.load, 1)
    /\ wall = engineRun.wall /\ wallMoved = None
    /\ lampOn = [l \in RuleLamps |-> FALSE] /\ lampSeen = [l \in RuleLamps |-> None]
    /\ echoes = <<>>
    /\ handled = NotHandled
    /\ firedAt = [n \in RuleNames |-> None]

\* RuntimeStateChanged: the funnel compares it with the lamp's last state.
LampReports ==
    /\ echoes # <<>>
    /\ LET r == Head(echoes)
           turned == lampSeen[r.lamp] # None /\ lampSeen[r.lamp] # r.on
       IN  /\ lampSeen' = [lampSeen EXCEPT ![r.lamp] = r.on]
           /\ TakeInput("turns", Input(IF turned THEN "turns" ELSE "none", <<r.lamp, r.on>>, r.lamp, r.cause),
                   [lampOn EXCEPT ![r.lamp] = r.on], Tail(echoes), FALSE)
    /\ UNCHANGED <<ruleNow, wall, wallMoved, engineRun>>

\* Somebody turns a lamp by other means, or a button is pressed.
PersonTurns(l) ==
    /\ EngineSpend("presses")
    /\ echoes' = Append(echoes, [lamp |-> l, on |-> ~lampOn[l], cause |-> 0, since |-> ruleNow])
    /\ NothingHandled
    /\ UNCHANGED <<engine, ruleNow, wall, wallMoved, lampOn, lampSeen, firedAt>>
Press ==
    /\ \E refused \in BOOLEAN :
          /\ engineRun.presses > 0 /\ (refused => engineRun.refusals > 0)
          /\ engineRun' = [engineRun EXCEPT !.presses = @ - 1, !.refusals = IF refused THEN @ - 1 ELSE @]
          /\ TakeInput("press", Input("press", TRUE, None, 0), lampOn, echoes, refused)
    /\ UNCHANGED <<ruleNow, wall, wallMoved, lampSeen>>

RunRule(n, dry) ==
    /\ EngineSpend("runs")
    /\ TakeInput(IF dry THEN "dry" ELSE "run", [kind |-> "run", rule |-> n, dry |-> dry], lampOn, echoes, FALSE)
    /\ UNCHANGED <<ruleNow, wall, wallMoved, lampSeen>>

\* on_tick: the wheel turns when something is due, and once a second at the latest.
Tick ==
    /\ handled.kind # "tick"
    /\ TakeInput("tick", Input("tick", None, None, 0), lampOn, echoes, FALSE)
    /\ wallMoved' = IF wall = None THEN None ELSE 0
    /\ UNCHANGED <<ruleNow, wall, lampSeen, engineRun>>

LoadRules(doc) ==
    /\ EngineSpend("reloads")
    /\ engine' = set_rules(engine, doc, ruleNow)
    /\ firedAt' = [n \in RuleNames |-> IF n \in DOMAIN engine'.enabled THEN firedAt[n] ELSE None]
    /\ NothingHandled
    /\ UNCHANGED <<ruleNow, wall, wallMoved, lampOn, lampSeen, echoes>>

set_rule_enabled(n, on) ==
    /\ EngineSpend("toggles")
    /\ n \in DOMAIN engine.enabled
    /\ engine' = flip_rule_bit(engine, n, on)
    /\ NothingHandled
    /\ UNCHANGED <<ruleNow, wall, wallMoved, lampOn, lampSeen, echoes, firedAt>>

\* A driven lamp reports within its latency.
TimePasses ==
    /\ EngineSpend("time")
    /\ echoes # <<>> => ruleNow < Head(echoes).since + EchoLatency
    /\ ruleNow' = ruleNow + 1
    /\ NothingHandled
    /\ UNCHANGED <<engine, wall, wallMoved, lampOn, lampSeen, echoes, firedAt>>

\* The wall clock runs or is set, by minutes forward or back; or it is lost and found.
WallMoves(k) ==
    /\ EngineSpend("minutes") /\ wall # None
    /\ wall' = (wall + WeekMinutes + k) % WeekMinutes
    /\ wallMoved' = IF wallMoved = None THEN None ELSE wallMoved + k
    /\ NothingHandled
    /\ UNCHANGED <<engine, ruleNow, lampOn, lampSeen, echoes, firedAt>>
WallLost ==
    /\ EngineSpend("losses")
    /\ wall' = IF wall = None THEN 0 ELSE None
    /\ wallMoved' = None
    /\ NothingHandled
    /\ UNCHANGED <<engine, ruleNow, lampOn, lampSeen, echoes, firedAt>>

EngineNext ==
    \/ LampReports \/ Press \/ Tick \/ TimePasses \/ WallLost
    \/ \E l \in RuleLamps : PersonTurns(l)
    \/ \E n \in RuleNames : \E b \in BOOLEAN : RunRule(n, b) \/ set_rule_enabled(n, b)
    \/ \E doc \in DOMAIN RuleSets \cup {None} : LoadRules(doc)
    \/ \E k \in engineRun.moves : WallMoves(k)
EngineSpec == EngineInit /\ [][EngineNext]_engineVars

-----------------------------------------------------------------------------
(* What the engine promises.                                               *)

Executed(o) == o.why # "refused"

\* The limits hold, and a pending continuation and an every slot belong to a
\* rule of the document.
EngineTypeOK ==
    /\ Len(engine.conts) <= MaxContinuations
    /\ Cardinality(TimersArmed(engine)) <= MaxTimers
    /\ \A i \in DOMAIN engine.conts : engine.conts[i].rule \in DOMAIN engine.enabled
    /\ \A s \in engine.every : s.rule \in DOMAIN engine.enabled
    /\ \A i \in DOMAIN handled.out : Len(handled.out[i].effects) <= MaxExpanded

\* A chain of rules that set each other off through the lamps they drive ends:
\* input_chain_depth never counts less than the activations that really led
\* here, through waits, afters and reports as late as the window allows, so none
\* runs deeper than the limit.  Timers, every and failures start a new chain.
ChainsEnd ==
    \A i \in DOMAIN handled.out :
        LET o == handled.out[i] IN
        /\ o.cause <= o.depth
        /\ Executed(o) => o.cause <= MaxChainDepth

\* activate's pause: a rule with a cooldown is not activated twice within it by
\* triggers, whatever is reloaded, switched or run by hand in between, and no
\* matter how many of its triggers one tick meets.
CooldownKept == handled.early = {}

\* fire_wall_schedules: while the clock goes forward by no more than the
\* catch-up cap between two turns of the wheel, a schedule fires exactly when
\* its minute went by; however else the clock jumps, nothing older than the
\* cap fires.
SchedulesFire ==
    handled.kind = "tick" /\ wall # None =>
        \A n \in DOMAIN engine.enabled :
            LET fired == \E i \in DOMAIN handled.out : handled.out[i].rule = n /\ handled.out[i].why = "at"
                Passed(k) == \E m \in WallMinutes(engine, n) : cyclic_dist(m, wall) < k
                steady == handled.enabled[n] /\ engine.enabled[n] /\ RulesOf(engine.doc)[n].when = <<>>
                          /\ RulesOf(engine.doc)[n].cooldown = 0
            IN  /\ fired => Passed(CatchupCap)
                /\ steady /\ handled.moved # None =>
                       (handled.moved \in 0 .. CatchupCap => (fired <=> Passed(handled.moved)))

\* service_tick leaves nothing behind that was due: no continuation, timer or
\* every slot, not even one that a rule of the same tick armed or moved.
NothingOverdue ==
    handled.kind = "tick" /\ engine.doc # None => \A d \in next_deadline(engine) : d > ruleNow

\* The wheel fires what is due, all of it and nothing else: schedules in their
\* window, nothing left overdue, no rule inside its cooldown.
WheelTurns == EngineTypeOK /\ SchedulesFire /\ NothingOverdue /\ CooldownKept
=============================================================================
