------------------------------ MODULE MCRules ------------------------------
(***************************************************************************)
(* Instances of the rules engine and of the document it runs.              *)
(***************************************************************************)
EXTENDS RulesEngine, RulesDocument, TLC

-----------------------------------------------------------------------------
(* RulesEngine: a loop of two rules, rules that call, wait and repeat, and *)
(* rules on the wall clock.                                                *)
Trigger(kind, arg) == [kind |-> kind, arg |-> arg]
Rule(on, pause, when, do) ==
    [on |-> on, cooldown |-> pause, when |-> when, do |-> do, enabled |-> TRUE]
Do(verb, lamp) == [do |-> verb, target |-> lamp]
WaitFor(ms) == [do |-> "wait", ms |-> ms]
AfterMs(ms, body) == [do |-> "after", ms |-> ms, body |-> body]
Timer(verb, timer, ms) == [do |-> verb, timer |-> timer, ms |-> ms]
Switch(verb, rule) == [do |-> verb, rule |-> rule]
LoopRules == <<
    Rule({Trigger("turns", <<"a", TRUE>>), Trigger("turns", <<"b", TRUE>>)}, 0, <<>>, <<WaitFor(3), Do("off", "all")>>),
    Rule({Trigger("turns", <<"a", FALSE>>)}, 0, <<>>, <<Do("on", "b"), AfterMs(1, <<Do("toggle", "a")>>)>>)>>
MCRuleBlocks ==
    [blk |-> <<Do("on", "a"), [do |-> "repeat", count |-> 2, body |-> <<WaitFor(1), Do("off", "a")>>]>>]
FlowRules == <<
    Rule({Trigger("press", TRUE), Trigger("timer", 1)}, 2, <<>>,
         <<Timer("restart", 1, 1), AfterMs(1, <<Switch("disable", 2), Do("off", "a")>>),
           [do |-> "call", block |-> "blk"], Timer("start", 2, 1)>>),
    Rule({Trigger("timer", 2), Trigger("fails", 1), Trigger("every", 2)}, 0, <<[is |-> "lamp", lamp |-> "a", on |-> FALSE]>>,
         <<[do |-> "if", cond |-> [is |-> "timer", timer |-> 1],
            then |-> <<WaitFor(1), [do |-> "cycle", scenes |-> <<1, 2>>]>>,
            else |-> <<Switch("enable", 2), Timer("start", 3, 2)>>],
           WaitFor(2), Timer("cancel", 3, 0)>>)>>
EditedRules ==
    (1 :> FlowRules[1]) @@ (3 :> Rule({Trigger("every", 1)}, 3, <<[is |-> "older", rule |-> 1, ms |-> 1]>>,
                                      <<Timer("start", 2, 3), [do |-> "fail"]>>))
WallRules == <<
    Rule({Trigger("at", 2), Trigger("every", 3)}, 0, <<>>, <<Do("on", "a")>>),
    Rule({Trigger("at", 7)}, 0, <<>>, <<Do("off", "a")>>),
    Rule({Trigger("at", 0), Trigger("at", 1)}, 2, <<[is |-> "wall", minutes |-> 0 .. 5]>>, <<Switch("disable", 4)>>)>>
MCRuleSets == [Loop |-> LoopRules, Flow |-> FlowRules, Edited |-> EditedRules, Wall |-> WallRules]
EngineBounds(reloads, toggles, runs, presses, time, minutes, losses, refusals) ==
    [reloads |-> reloads, toggles |-> toggles, runs |-> runs, presses |-> presses, time |-> time,
     minutes |-> minutes, losses |-> losses, refusals |-> refusals]
EngineScenario(load, clock, moves, bounds) == [load |-> load, wall |-> clock, moves |-> moves] @@ bounds
MCEngineScenarios == {
    EngineScenario("Loop", None, {}, EngineBounds(0, 0, 0, 2, 10, 0, 0, 0)),
    EngineScenario("Flow", None, {}, EngineBounds(0, 1, 0, 1, 4, 0, 0, 1)),
    EngineScenario("Flow", None, {}, EngineBounds(1, 0, 1, 1, 3, 0, 0, 0)),
    EngineScenario("Wall", 1, {1, 3, 5, -2}, EngineBounds(0, 1, 0, 0, 1, 3, 1, 0))}

-----------------------------------------------------------------------------
(* RulesDocument.                                                          *)
MCRuleTexts == {<<"p">>, <<"q", "p">>, <<"p", "r">>}
MCPeerDoc == [text |-> <<"q", "r">>, rev |-> 1, table |-> [q |-> FALSE, r |-> TRUE]]
DocBounds(edits, toggles, renames, imports, faults, crashes) ==
    [edits |-> edits, toggles |-> toggles, renames |-> renames, imports |-> imports,
     faults |-> faults, crashes |-> crashes, failed |-> FALSE]
MCDocScenarios == {
    DocBounds(2, 1, 0, 0, 1, 1), DocBounds(1, 0, 1, 1, 1, 1), DocBounds(1, 1, 2, 0, 0, 1),
    DocBounds(1, 1, 0, 1, 0, 0), DocBounds(2, 0, 0, 1, 0, 0)}

=============================================================================
