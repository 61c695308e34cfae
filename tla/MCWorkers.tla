----------------------------- MODULE MCWorkers -----------------------------
(***************************************************************************)
(* The workers that decide what goes to the lamps, for TLC: the queue of   *)
(* the DALI worker, the rules engine and the rules document.  A behaviour  *)
(* exercises one of them, `part`, and leaves the others where they start.  *)
(***************************************************************************)
EXTENDS MCDaliWorker, MCRules

VARIABLE part

AnyOf(S) == CHOOSE x \in S : TRUE
MCInit ==
    /\ part \in {"worker", "engine", "document"}
    /\ Init /\ EngineInit /\ DocInit
    /\ part # "worker" => world = AnyOf(Scenarios)
    /\ part # "engine" => engineRun = AnyOf(EngineScenarios)
    /\ part # "document" => docRun = AnyOf(DocScenarios)
MCNext ==
    \/ part = "worker" /\ Next /\ UNCHANGED <<part, engineVars, docVars>>
    \/ part = "engine" /\ EngineNext /\ UNCHANGED <<part, vars, docVars>>
    \/ part = "document" /\ DocNext /\ UNCHANGED <<part, vars, engineVars>>
MCSpec == MCInit /\ [][MCNext]_<<part, vars, engineVars, docVars>>
=============================================================================
