----------------------------- MODULE Redundancy -----------------------------
(***************************************************************************)
(* Controllers on one DALI segment that arbitrate who drives it (ADR-018). *)
(* Every controller has a registry that keeps applicationActive, a bus     *)
(* unit that answers QUERY APPLICATION CONTROLLER ENABLED with it, an      *)
(* arbitration worker (redundancy-runtime) and a DALI worker that sends    *)
(* its probes and the planned handover.  They talk through the local bus   *)
(* (commands to the registry, events to the arbitration worker) and see    *)
(* each other only on the wire.                                            *)
(*                                                                         *)
(* The redundancy settings are constant and enabled.  Time is two flags:   *)
(* the boot listening period is over, a probe is due.  What passes between *)
(* registry and bus unit is BusUnitSync's; here it is one step each way,   *)
(* with the rule that a newer local change beats the wire's.  `budget`     *)
(* bounds every kind of disturbance.                                       *)
(***************************************************************************)
EXTENDS Integers, Sequences, FiniteSets

CONSTANTS
    Node,
    Scenario,        \* what may happen: see ScenarioType
    TakeoverAfter,   \* takeover_after_missed
    ProbeRoom,       \* room for probes waiting for the DALI worker
    CommandRoom      \* room for commands waiting for the registry

(* The nodes configured as standby (the others are primary), those whose   *)
(* NVM says active at first power-up, and bounds on the disturbances.      *)
ScenarioType ==
    [standby : SUBSET Node, active : SUBSET Node, handovers : Nat,
     crash : Nat, lapse : Nat, lost : Nat, unsent : Nat, refused : Nat]

ASSUME RedundancyAssumption ==
    /\ \A c \in Scenario : c \in ScenarioType
    /\ TakeoverAfter \in Nat \ {0}
    /\ ProbeRoom \in Nat /\ CommandRoom \in Nat

VARIABLES
    up,          \* powered and running
    nvm,         \* applicationActive as last flushed to flash
    active,      \* applicationActive in the registry
    fresh,       \* a command moved it after the bus unit last adopted it
    unit,        \* applicationActive as the bus unit answers it
    reported,    \* the bus unit was moved by the wire and told the registry
    lease,       \* the liveness lease runs
    commands,    \* role changes on their way to the registry
    inbox,       \* events on their way to the arbitration worker
    probing,     \* probes waiting for the DALI worker
    worker,      \* the arbitration worker's state
    listening, due,   \* its clocks
    scenario,    \* the one that is played; never changes
    budget,      \* what is left of its bounds
    losses       \* ghost: [row, worst]: answers lost in a row, the longest such row

node == <<up, nvm, active, fresh, unit, reported, lease>>
queues == <<commands, inbox, probing>>
clocks == <<listening, due>>
ghosts == <<losses, scenario>>
vars == <<node, queues, worker, clocks, budget, ghosts>>

Worker == [fsm : {"disabled", "listening", "passive", "active"}, missed : 0 .. TakeoverAfter - 1]

FreshWorker == [fsm |-> "disabled", missed |-> 0]

Spend(kind) ==
    /\ budget[kind] > 0
    /\ budget' = [budget EXCEPT ![kind] = @ - 1]

----------------------------------------------------------------------------
(* arbitration.rs: the automaton.                                          *)

Outcome(fsm, missed, act) == [fsm |-> fsm, missed |-> missed, act |-> act]

ListeningTurn(n) ==
    CASE listening[n] -> Outcome("listening", 0, "idle")
      [] ~listening[n] /\ active[n] -> Outcome("active", 0, "idle")
      [] ~listening[n] /\ ~active[n] ->
            Outcome("passive", 0, IF n \in scenario.standby THEN "probe" ELSE "idle")

\* mutant: a turn without a verdict counts as a miss
MissOrNothing(verdict) == verdict # "yes"

Miss(verdict) == verdict = "no"

Missing(missed) == missed + 1 >= TakeoverAfter

PassiveTurn(n, verdict) ==
    LET missed == worker[n].missed
    IN CASE active[n] -> Outcome("active", 0, "idle")
         [] ~active[n] /\ n \notin scenario.standby -> Outcome("passive", missed, "idle")
         [] ~active[n] /\ n \in scenario.standby /\ Miss(verdict) ->
               IF Missing(missed)
               THEN Outcome("active", 0, "claim")
               ELSE Outcome("passive", missed + 1, "probe")
         [] OTHER -> Outcome("passive", IF verdict = "yes" THEN 0 ELSE missed, "probe")

\* mutant: an active standby ignores who answers its probe
KeepsTheBus(verdict) == FALSE

StandsDown(verdict) == verdict = "yes"

ActiveTurn(n, verdict) ==
    CASE ~active[n] -> Outcome("passive", 0, "idle")
      [] active[n] /\ n \notin scenario.standby -> Outcome("active", 0, "idle")
      [] OTHER -> IF StandsDown(verdict)
                  THEN Outcome("passive", 0, "stand_down")
                  ELSE Outcome("active", 0, "probe")

ArbitrationStep(n, verdict) ==
    CASE worker[n].fsm \in {"disabled", "listening"} -> ListeningTurn(n)
      [] worker[n].fsm = "passive" -> PassiveTurn(n, verdict)
      [] worker[n].fsm = "active" -> ActiveTurn(n, verdict)

----------------------------------------------------------------------------
(* arbitration_worker.rs: one turn of the loop.  It takes an event if one  *)
(* is there, else its wait ran out.                                        *)

(* try_publish: refused when the queue is full, or by the bus.             *)
Publish(n, value) ==
    /\ Len(commands[n]) < CommandRoom
    /\ commands' = [commands EXCEPT ![n] = Append(@, value)]

Refused(n) ==
    IF Len(commands[n]) < CommandRoom THEN Spend("refused") ELSE UNCHANGED budget

SetRole(n, value) ==
    /\ (Publish(n, value) /\ UNCHANGED budget) \/ (Refused(n) /\ UNCHANGED commands)
    /\ UNCHANGED <<probing, due>>

ProbeWhenDue(n) ==
    /\ IF due[n]
       THEN /\ due' = [due EXCEPT ![n] = FALSE]
            /\ probing' = [probing EXCEPT ![n] = IF @ < ProbeRoom THEN @ + 1 ELSE @]
       ELSE UNCHANGED <<due, probing>>
    /\ UNCHANGED <<commands, budget>>

RunTurn(n) ==
    LET verdict == IF inbox[n] = <<>> THEN "none" ELSE Head(inbox[n])
        step == ArbitrationStep(n, verdict)
    IN /\ up[n]
       /\ inbox' = [inbox EXCEPT ![n] = IF @ = <<>> THEN @ ELSE Tail(@)]
       /\ worker' = [worker EXCEPT ![n] = [fsm |-> step.fsm, missed |-> step.missed]]
       /\ CASE step.act = "claim" -> SetRole(n, TRUE)
            [] step.act = "stand_down" -> SetRole(n, FALSE)
            [] step.act = "probe" -> ProbeWhenDue(n)
            [] OTHER -> UNCHANGED <<commands, probing, due, budget>>
       /\ UNCHANGED <<node, listening, ghosts>>

ListenEnds(n) ==
    /\ up[n] /\ listening[n]
    /\ listening' = [listening EXCEPT ![n] = FALSE]
    /\ UNCHANGED <<node, queues, worker, due, budget, ghosts>>

ProbeFallsDue(n) ==
    /\ up[n] /\ ~due[n]
    /\ due' = [due EXCEPT ![n] = TRUE]
    /\ UNCHANGED <<node, queues, worker, listening, budget, ghosts>>

----------------------------------------------------------------------------
(* The registry and the bus unit.                                          *)

RegistryApplies(n) ==
    /\ up[n] /\ commands[n] # <<>>
    /\ commands' = [commands EXCEPT ![n] = Tail(@)]
    /\ active' = [active EXCEPT ![n] = Head(commands[n])]
    /\ fresh' = [fresh EXCEPT ![n] = @ \/ active[n] # Head(commands[n])]
    /\ UNCHANGED <<up, nvm, unit, reported, lease, inbox, probing, worker, clocks,
                   budget, ghosts>>

UnitAdopts(n) ==
    /\ up[n] /\ ~reported[n]
    /\ fresh[n] \/ unit[n] # active[n]
    /\ unit' = [unit EXCEPT ![n] = active[n]]
    /\ fresh' = [fresh EXCEPT ![n] = FALSE]
    /\ UNCHANGED <<up, nvm, active, reported, lease, queues, worker, clocks,
                   budget, ghosts>>

(* apply_wire: what the wire moved, unless a command moved it since.       *)
RegistryHears(n) ==
    /\ up[n] /\ reported[n]
    /\ reported' = [reported EXCEPT ![n] = FALSE]
    /\ active' = [active EXCEPT ![n] = IF fresh[n] THEN @ ELSE unit[n]]
    /\ UNCHANGED <<up, nvm, fresh, unit, lease, queues, worker, clocks, budget, ghosts>>

Flush(n) ==
    /\ up[n] /\ nvm[n] # active[n]
    /\ nvm' = [nvm EXCEPT ![n] = active[n]]
    /\ UNCHANGED <<up, active, fresh, unit, reported, lease, queues, worker, clocks,
                   budget, ghosts>>

----------------------------------------------------------------------------
(* The wire.                                                               *)

Answers(n) == up[n] /\ lease[n] /\ unit[n]

Asked(n) == \E m \in Node \ {n} : Answers(m)

Hears(n, event) == inbox' = [inbox EXCEPT ![n] = Append(@, event)]

InARow(lost) ==
    LET row == IF lost THEN losses.row + 1 ELSE 0
    IN [row |-> row, worst |-> IF row > losses.worst THEN row ELSE losses.worst]

(* A probe that could not be sent is no verdict; an answer may be lost.    *)
ProbeNotSent(n) ==
    /\ up[n] /\ probing[n] > 0
    /\ Spend("unsent")
    /\ probing' = [probing EXCEPT ![n] = @ - 1]
    /\ UNCHANGED <<node, commands, inbox, worker, clocks, ghosts>>

ProbeAsked(n) ==
    /\ up[n] /\ probing[n] > 0
    /\ probing' = [probing EXCEPT ![n] = @ - 1]
    /\ \/ /\ Hears(n, IF Asked(n) THEN "yes" ELSE "no")
          /\ losses' = IF Asked(n) THEN InARow(FALSE) ELSE losses
          /\ UNCHANGED budget
       \/ /\ Asked(n)
          /\ Spend("lost")
          /\ Hears(n, "no")
          /\ losses' = InARow(TRUE)
    /\ UNCHANGED <<node, commands, worker, clocks, scenario>>

Peer(n) == CHOOSE m \in Node : m # n

(* handle_handover: ENABLE the peer, ask it, and stand down only on a YES. *)
EnablePeer(m) ==
    /\ unit' = [unit EXCEPT ![m] = @ \/ up[m]]
    /\ reported' = [reported EXCEPT ![m] = @ \/ (up[m] /\ ~unit[m])]

PeerEnabled(m) == up[m] /\ lease[m]

StandDownAfterHandover(n) ==
    Publish(n, FALSE) \/ (Len(commands[n]) = CommandRoom /\ UNCHANGED commands)

Handover(n) ==
    /\ up[n] /\ active[n] /\ Spend("handovers")
    /\ EnablePeer(Peer(n))
    /\ \E heard \in BOOLEAN :
          IF PeerEnabled(Peer(n)) /\ heard THEN StandDownAfterHandover(n)
          ELSE UNCHANGED commands
    /\ UNCHANGED <<up, nvm, active, fresh, lease, inbox, probing, worker, clocks, ghosts>>

----------------------------------------------------------------------------
(* Power and the liveness lease.                                           *)

Crash(n) ==
    /\ up[n] /\ Spend("crash")
    /\ up' = [up EXCEPT ![n] = FALSE]
    /\ reported' = [reported EXCEPT ![n] = FALSE]
    /\ fresh' = [fresh EXCEPT ![n] = FALSE]
    /\ unit' = [unit EXCEPT ![n] = FALSE]
    /\ active' = [active EXCEPT ![n] = FALSE]
    /\ commands' = [commands EXCEPT ![n] = <<>>]
    /\ inbox' = [inbox EXCEPT ![n] = <<>>]
    /\ probing' = [probing EXCEPT ![n] = 0]
    /\ due' = [due EXCEPT ![n] = TRUE]
    /\ UNCHANGED <<nvm, lease, worker, listening, ghosts>>

Boot(n) ==
    /\ ~up[n]
    /\ up' = [up EXCEPT ![n] = TRUE]
    /\ active' = [active EXCEPT ![n] = nvm[n]]
    /\ unit' = [unit EXCEPT ![n] = nvm[n]]
    /\ worker' = [worker EXCEPT ![n] = FreshWorker]
    /\ listening' = [listening EXCEPT ![n] = TRUE]
    /\ UNCHANGED <<nvm, fresh, reported, lease, queues, due, budget, ghosts>>

LeaseLapses(n) ==
    /\ lease[n] /\ Spend("lapse")
    /\ lease' = [lease EXCEPT ![n] = FALSE]
    /\ UNCHANGED <<up, nvm, active, fresh, unit, reported, queues, worker, clocks,
                   ghosts>>

LeaseRenewed(n) ==
    /\ ~lease[n]
    /\ lease' = [lease EXCEPT ![n] = TRUE]
    /\ UNCHANGED <<up, nvm, active, fresh, unit, reported, queues, worker, clocks,
                   budget, ghosts>>

----------------------------------------------------------------------------
Init ==
    /\ scenario \in Scenario
    /\ up = [n \in Node |-> TRUE]
    /\ nvm = [n \in Node |-> n \in scenario.active]
    /\ active = nvm /\ unit = nvm
    /\ fresh = [n \in Node |-> FALSE]
    /\ reported = [n \in Node |-> FALSE]
    /\ lease = [n \in Node |-> TRUE]
    /\ commands = [n \in Node |-> <<>>]
    /\ inbox = [n \in Node |-> <<>>]
    /\ probing = [n \in Node |-> 0]
    /\ worker = [n \in Node |-> FreshWorker]
    /\ listening = [n \in Node |-> TRUE]
    /\ due = [n \in Node |-> TRUE]
    /\ budget = scenario
    /\ losses = [row |-> 0, worst |-> 0]

Works(n) ==
    \/ RunTurn(n) \/ ListenEnds(n) \/ ProbeFallsDue(n)
    \/ RegistryApplies(n) \/ UnitAdopts(n) \/ RegistryHears(n) \/ Flush(n)
    \/ ProbeAsked(n)

Disturbed(n) ==
    \/ ProbeNotSent(n) \/ Handover(n)
    \/ Crash(n) \/ Boot(n) \/ LeaseLapses(n) \/ LeaseRenewed(n)

Next == \E n \in Node : Works(n) \/ Disturbed(n)

Spec == Init /\ [][Next]_vars

(* The workers' threads keep running and their clocks keep going.          *)
Fairness ==
    \A n \in Node :
        /\ WF_vars(RunTurn(n)) /\ WF_vars(ListenEnds(n)) /\ WF_vars(ProbeFallsDue(n))
        /\ WF_vars(RegistryApplies(n)) /\ WF_vars(UnitAdopts(n)) /\ WF_vars(RegistryHears(n))
        /\ WF_vars(ProbeAsked(n))

FairSpec == Spec /\ Fairness

----------------------------------------------------------------------------
(* Types; a passive automaton never counts up to takeover_after_missed.    *)
TypeOK ==
    /\ \A f \in {up, nvm, active, fresh, unit, reported, lease, listening, due} :
          f \in [Node -> BOOLEAN]
    /\ \A n \in Node :
          /\ commands[n] \in Seq(BOOLEAN)
          /\ inbox[n] \in Seq({"yes", "no"})
    /\ probing \in [Node -> 0 .. ProbeRoom]
    /\ worker \in [Node -> Worker]
    /\ budget \in ScenarioType

(* Who drives the bus as the wire sees it.                                 *)
Owners == {n \in Node : up[n] /\ lease[n] /\ unit[n]}

Undisturbed ==
    \A k \in {"crash", "lapse", "handovers"} : budget[k] = scenario[k]

(* "One lost frame cannot move the bus": while the primary is left alone,  *)
(* a standby drives the bus only after takeover_after_missed answers were  *)
(* lost in a row.  Probes that were never sent do not count, and an answer *)
(* in between starts the count again.                                      *)
LostFramesMoveNothing ==
    Undisturbed /\ losses.worst < TakeoverAfter
        /\ scenario.active # {}
        => \A n \in scenario.standby \ scenario.active : ~active[n] /\ commands[n] = <<>>

(* A planned switchover enables the peer before it stands itself down, so  *)
(* that the segment has an owner all along.                                *)
BusHasOwner == Owners # {}

StandbyServes == \E n \in scenario.standby : up[n] /\ lease[n]

HasPrimary == scenario.standby # Node

(* Whatever was lost, crashed, lapsed or handed over: once it is over, and *)
(* a standby is there, exactly one controller drives the bus for good.     *)
Converges == HasPrimary /\ <>[]StandbyServes => <>[](Cardinality(Owners) = 1)

(* Two standbys cannot keep each other passive: they may duel for as long  *)
(* as their claims collide, but never stay without an owner.               *)
NeverStuckPassive == ~HasPrimary => []<>(Owners # {})

(* The roles are well formed, and lost frames alone do not move them.      *)
RolesKept == TypeOK /\ LostFramesMoveNothing

(* The bus ends up with an owner, and with one only where a primary is     *)
(* configured.                                                             *)
BusIsOwned == Converges /\ NeverStuckPassive
=============================================================================
