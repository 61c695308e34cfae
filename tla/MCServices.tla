----------------------------- MODULE MCServices -----------------------------
(***************************************************************************)
(* The services beside the bus for TLC: the WebSocket hub, the console     *)
(* queue and the scheduler of human-centric lighting.  They share no       *)
(* state, so a behaviour exercises one of them, `part`, and leaves the     *)
(* others where they start.                                                *)
(***************************************************************************)
EXTENDS WsHub, ConsoleQueue, HclScheduler

VARIABLE part

-----------------------------------------------------------------------------
(* WsHub.                                                                  *)
HubBounds(requests, frames, losses, leaves) ==
    [requests |-> requests, frames |-> frames, losses |-> losses, leaves |-> leaves]
MCHubConfigs == {
    [clients |-> 1, senders |-> 2, readers |-> 2, conns |-> {1}, bounds |-> HubBounds(2, 2, 1, 0)],
    [clients |-> 1, senders |-> 2, readers |-> 2, conns |-> {1}, bounds |-> HubBounds(1, 2, 1, 1)],
    [clients |-> 2, senders |-> 2, readers |-> 2, conns |-> {1, 2}, bounds |-> HubBounds(2, 1, 0, 0)],
    [clients |-> 1, senders |-> 1, readers |-> 1, conns |-> {1, 2}, bounds |-> HubBounds(1, 1, 0, 1)]}

-----------------------------------------------------------------------------
(* ConsoleQueue: a line is a warning (TRUE) or not.                        *)
ConsoleRun(first, up, one, two) == [first |-> first, installed |-> up, lines |-> <<one, two>>]
MCConsoleScenarios == {
    ConsoleRun(0, FALSE, <<FALSE, FALSE>>, <<TRUE>>),
    ConsoleRun(0, TRUE, <<FALSE, TRUE, FALSE>>, <<TRUE>>),
    ConsoleRun(6, TRUE, <<FALSE, TRUE>>, <<TRUE, TRUE>>),
    ConsoleRun(5, TRUE, <<TRUE, FALSE>>, <<TRUE, TRUE>>)}

-----------------------------------------------------------------------------
(* HclScheduler.                                                           *)
Point(at, mode, level, kelvin) ==
    [at |-> at, sun |-> None, mode |-> mode, level |-> level, kelvin |-> kelvin]
SunPoint(at, sun, mode, level, kelvin) ==
    [at |-> at, sun |-> sun, mode |-> mode, level |-> level, kelvin |-> kelvin]
Schedule(targets, points) ==
    [enabled |-> TRUE, days |-> 0 .. 6, stepped |-> TRUE, targets |-> targets, points |-> points]
Interpolated(schedule) == [schedule EXCEPT !.stepped = FALSE]
DayTime(day, minute) ==
    [day |-> day, minute |-> minute, weekday |-> day % 7, sun |-> [rise |-> 30, set |-> None]]
Bright == <<Point(10, "absolute", 80, 2700), Point(20, "last", None, 4000)>>
Warm == <<SunPoint(-20, "rise", "none", None, 2700), SunPoint(5, "set", "none", None, 5000),
          Point(40, "none", None, 2702)>>
Dim == <<Point(10, "absolute", 20, None), Point(30, "absolute", 40, None)>>
Both == [l1 |-> {"g1", "g2"}, l2 |-> {"g2"}]
Apart == [l1 |-> {"g1"}, l2 |-> {"g2"}]
Commit(lamp) ==
    [kind |-> "commit", lamp |-> lamp, dimensions |-> {"level"}, foreign |-> TRUE, holds |-> TRUE]
Hold(target) == [kind |-> "hold", target |-> target]
Resume(target) == [kind |-> "resume", target |-> target]
ClearOf(id) == [kind |-> "clear", id |-> id]
Becomes(id, schedule) == [id |-> id, becomes |-> schedule]
HclScenario(table, edits, regroup, frames, times, failures, gates) ==
    [table |-> table, edits |-> edits, member |-> Both, regroup |-> regroup, frames |-> frames,
     times |-> times, failures |-> failures, gates |-> gates]
MCHclScenarios == {
    HclScenario(<<Schedule(<<"g1", "g2">>, Bright), None>>, {}, {},
                {Hold("g1"), Resume("g1"), Commit("l2")}, <<DayTime(5, 20)>>, 1, 0),
    HclScenario(<<Schedule(<<"all", "g1">>, Bright), None>>, {}, {Apart},
                {Hold("l1"), Resume("g2"), Hold("all")}, <<DayTime(5, 20)>>, 0, 1),
    HclScenario(<<Schedule(<<"g1">>, Bright), Schedule(<<"g1", "g2">>, Warm)>>,
                {Becomes(1, Schedule(<<"g2">>, Dim)), Becomes(2, None)}, {},
                {Commit("l1")}, <<DayTime(5, 20)>>, 1, 0),
    HclScenario(<<Interpolated(Schedule(<<"g1", "all">>, Dim)), None>>, {}, {},
                {Commit(None), ClearOf(1)}, <<DayTime(5, 15), DayTime(0, 12), DayTime(5, 20)>>, 1, 0)}

-----------------------------------------------------------------------------
AnyOf(S) == CHOOSE x \in S : TRUE
MCInit ==
    /\ part \in {"hub", "console", "hcl"}
    /\ WsInit /\ ConsoleInit /\ HclInit
    /\ part # "hub" => wsConfig = AnyOf(HubConfigs)
    /\ part # "console" => toLog = AnyOf(ConsoleScenarios).lines /\ head = AnyOf(ConsoleScenarios).first
    /\ part # "hcl" => hclRun = AnyOf(HclScenarios)
MCNext ==
    \/ part = "hub" /\ WsNext /\ UNCHANGED <<part, consoleVars, hclVars>>
    \/ part = "console" /\ ConsoleNext /\ UNCHANGED <<part, wsVars, hclVars>>
    \/ part = "hcl" /\ HclNext /\ UNCHANGED <<part, wsVars, consoleVars>>
\* The fairness of each module, asked of the part that moves.
MCFairness ==
    /\ \A c \in Conns : WF_wsVars(part = "hub" /\ SenderRuns(c)) /\ WF_wsVars(part = "hub" /\ ReaderRuns(c))
    /\ WF_wsVars(part = "hub" /\ SessionOpens)
    /\ WF_consoleVars(part = "console" /\ ~aliased /\ Pops)
    /\ \A l \in Loggers : WF_consoleVars(part = "console" /\ ~aliased /\ Pushes(l))
    /\ WF_hclVars(part = "hcl" /\ HclWorks)
    /\ \A channel \in {"events", "commands"} : WF_hclVars(part = "hcl" /\ apply_frame(channel))
MCSpec ==
    /\ MCInit /\ [][MCNext]_<<part, wsVars, consoleVars, hclVars>>
    /\ MCFairness
=============================================================================
