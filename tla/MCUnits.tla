------------------------------ MODULE MCUnits ------------------------------
(***************************************************************************)
(* What must be agreed on, for TLC: the role of two redundant controllers, *)
(* and a bus unit's variables by the registry and the unit.  A behaviour   *)
(* exercises one of the two, `part`, and leaves the other where it starts. *)
(***************************************************************************)
EXTENDS MCRedundancy, BusUnitSync

VARIABLE part

AnyOf(S) == CHOOSE x \in S : TRUE
MCInit ==
    /\ part \in {"redundancy", "unit"}
    /\ Init /\ UnitInit
    /\ part # "redundancy" => scenario = AnyOf(Scenario)
    /\ part # "unit" => unread = AnyOf([Field -> Val])

MCNext ==
    \/ part = "redundancy" /\ Next /\ UNCHANGED <<part, unitVars>>
    \/ part = "unit" /\ UnitNext /\ UNCHANGED <<part, vars>>

-----------------------------------------------------------------------------
\* The fairness of each module, asked of the part that moves.
RedundancyFair ==
    \A n \in Node :
        /\ WF_vars(part = "redundancy" /\ RunTurn(n)) /\ WF_vars(part = "redundancy" /\ ListenEnds(n))
        /\ WF_vars(part = "redundancy" /\ ProbeFallsDue(n)) /\ WF_vars(part = "redundancy" /\ RegistryApplies(n))
        /\ WF_vars(part = "redundancy" /\ UnitAdopts(n)) /\ WF_vars(part = "redundancy" /\ RegistryHears(n))
        /\ WF_vars(part = "redundancy" /\ ProbeAsked(n))
UnitFair ==
    /\ WF_unitVars(part = "unit" /\ Drain) /\ WF_unitVars(part = "unit" /\ Resend)
    /\ WF_unitVars(part = "unit" /\ ApplyEvidence)

MCSpec ==
    /\ MCInit /\ [][MCNext]_<<part, vars, unitVars>>
    /\ RedundancyFair /\ UnitFair

\* BusUnitSync: once the disturbances are over the two copies agree for good.
UnitSettles == part = "unit" => EventuallySettled
=============================================================================
