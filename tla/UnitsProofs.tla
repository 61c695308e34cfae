----------------------------- MODULE UnitsProofs -----------------------------
(***************************************************************************)
(* Proofs about what must be agreed on: the role of two redundant          *)
(* controllers, and a bus unit's variables by the registry and the unit.   *)
(***************************************************************************)
EXTENDS Redundancy, BusUnitSync, TLAPS

\* A leaf that names no prover is for Zenon; one that counts, or takes a record or
\* a sequence apart, cites SMT.
USE Zenon

-----------------------------------------------------------------------------
(* Redundancy.  RolesKept for two controllers, whatever                    *)
(* takeover_after_missed is and however many answers are lost.  While the  *)
(* active controller is left alone the standby's misses, the ones it       *)
(* counted and the ones still in its inbox, are answers that were lost in  *)
(* a row.                                                                  *)

TypeInv ==
    /\ up \in [Node -> BOOLEAN] /\ nvm \in [Node -> BOOLEAN] /\ active \in [Node -> BOOLEAN]
    /\ fresh \in [Node -> BOOLEAN] /\ unit \in [Node -> BOOLEAN] /\ reported \in [Node -> BOOLEAN]
    /\ lease \in [Node -> BOOLEAN] /\ listening \in [Node -> BOOLEAN] /\ due \in [Node -> BOOLEAN]
    /\ commands \in [Node -> Seq(BOOLEAN)] /\ inbox \in [Node -> Seq({"yes", "no"})]
    /\ probing \in [Node -> 0 .. ProbeRoom] /\ worker \in [Node -> Worker]
    /\ budget \in ScenarioType /\ scenario \in ScenarioType
    /\ losses \in [row : Nat, worst : Nat]

\* The bounds are only spent, and the longest row covers the one that runs.
BudgetInv ==
    /\ budget.crash <= scenario.crash /\ budget.lapse <= scenario.lapse
    /\ budget.handovers <= scenario.handovers
    /\ losses.row <= losses.worst

\* p drives the bus, s stands by, and nothing but answers of probes was lost.
Quiet(p, s) ==
    /\ Undisturbed /\ losses.worst < TakeoverAfter
    /\ scenario.active = {p} /\ s \in scenario.standby

AllNo(q, i, k) == \A j \in (i + 1) .. k : q[j] = "no"

\* q is the inbox of the standby, m what it has missed: every run of misses is
\* within the longest row of lost answers, the last one within the row that runs.
Counted(q, m, row, worst) ==
    /\ \A i, k \in 0 .. Len(q) : i <= k /\ AllNo(q, i, k) =>
          /\ k - i <= worst
          /\ i = 0 => m + k <= worst
          /\ k = Len(q) => k - i <= row
          /\ i = 0 /\ k = Len(q) => m + k <= row

QuietInv(p, s) ==
    /\ \A n \in Node : up[n] /\ lease[n] /\ ~reported[n] /\ ~fresh[n] /\ commands[n] = <<>>
    /\ active[p] /\ unit[p] /\ ~active[s] /\ ~unit[s]
    /\ worker[s].fsm # "active"
    /\ \A i \in 1 .. Len(inbox[p]) : inbox[p][i] = "no"
    /\ Counted(inbox[s], worker[s].missed, losses.row, losses.worst)

RolesInv ==
    /\ TypeInv /\ BudgetInv
    /\ \A p, s \in Node : p # s /\ Quiet(p, s) => QuietInv(p, s)

TwoControllers == \E p, s \in Node : p # s /\ Node = {p, s}

-----------------------------------------------------------------------------
\* The types.

LEMMA StepOutcome ==
    ASSUME TypeInv, NEW n \in Node, NEW verdict
    PROVE  /\ ArbitrationStep(n, verdict).fsm \in {"disabled", "listening", "passive", "active"}
           /\ ArbitrationStep(n, verdict).missed \in 0 .. TakeoverAfter - 1
<1> USE RedundancyAssumption
<1>1. worker[n] \in Worker /\ active[n] \in BOOLEAN /\ listening[n] \in BOOLEAN
  BY DEF TypeInv
<1>2. worker[n].fsm \in {"disabled", "listening", "passive", "active"} /\ worker[n].missed \in 0 .. TakeoverAfter - 1
  BY <1>1 DEF Worker
<1>3. CASE worker[n].fsm \in {"disabled", "listening"}
  BY <1>1, <1>3, SMT DEF ArbitrationStep, ListeningTurn, Outcome
<1>4. CASE worker[n].fsm = "passive"
  BY <1>1, <1>2, <1>4, SMT DEF ArbitrationStep, PassiveTurn, Outcome, Missing
<1>5. CASE worker[n].fsm = "active"
  BY <1>1, <1>5, SMT DEF ArbitrationStep, ActiveTurn, Outcome
<1> QED BY <1>2, <1>3, <1>4, <1>5

LEMMA SpendType ==
    ASSUME TypeInv, NEW kind \in {"crash", "lapse", "handovers", "lost", "unsent", "refused"}, Spend(kind)
    PROVE  /\ budget' \in ScenarioType /\ budget'[kind] = budget[kind] - 1 /\ budget[kind] \in Nat
           /\ budget'.crash <= budget.crash /\ budget'.lapse <= budget.lapse
           /\ budget'.handovers <= budget.handovers
<1>1. budget \in ScenarioType
  BY DEF TypeInv
<1>2. CASE kind = "crash"
  BY <1>1, <1>2, SMT DEF Spend, ScenarioType
<1>3. CASE kind = "lapse"
  BY <1>1, <1>3, SMT DEF Spend, ScenarioType
<1>4. CASE kind = "handovers"
  BY <1>1, <1>4, SMT DEF Spend, ScenarioType
<1>5. CASE kind = "lost"
  BY <1>1, <1>5, SMT DEF Spend, ScenarioType
<1>6. CASE kind = "unsent"
  BY <1>1, <1>6, SMT DEF Spend, ScenarioType
<1>7. CASE kind = "refused"
  BY <1>1, <1>7, SMT DEF Spend, ScenarioType
<1> QED BY <1>2, <1>3, <1>4, <1>5, <1>6, <1>7

\* What every step keeps: the scenario, the bounds from growing, the longest row.
Onward ==
    /\ scenario' = scenario /\ budget' \in ScenarioType
    /\ budget'.crash <= budget.crash /\ budget'.lapse <= budget.lapse /\ budget'.handovers <= budget.handovers
    /\ losses' \in [row : Nat, worst : Nat] /\ losses.worst <= losses'.worst /\ losses'.row <= losses'.worst

LEMMA SameBounds ==
    ASSUME TypeInv, BudgetInv, UNCHANGED ghosts,
           UNCHANGED budget \/ \E k \in {"crash", "lapse", "handovers", "lost", "unsent", "refused"} : Spend(k)
    PROVE  Onward
<1>1. losses' = losses /\ scenario' = scenario /\ losses \in [row : Nat, worst : Nat] /\ losses.row <= losses.worst
  BY DEF ghosts, TypeInv, BudgetInv
<1>2. /\ budget' \in ScenarioType
      /\ budget'.crash <= budget.crash /\ budget'.lapse <= budget.lapse /\ budget'.handovers <= budget.handovers
  <2>1. CASE UNCHANGED budget
    BY <2>1, SMT DEF TypeInv, ScenarioType
  <2>2. ASSUME NEW k \in {"crash", "lapse", "handovers", "lost", "unsent", "refused"}, Spend(k)
        PROVE  /\ budget' \in ScenarioType
               /\ budget'.crash <= budget.crash /\ budget'.lapse <= budget.lapse
               /\ budget'.handovers <= budget.handovers
    BY <2>2, SpendType
  <2> QED BY <2>1, <2>2
<1> QED BY <1>1, <1>2, SMT DEF Onward

LEMMA PublishType ==
    ASSUME TypeInv, NEW n \in Node, NEW value \in BOOLEAN, Publish(n, value)
    PROVE  commands' \in [Node -> Seq(BOOLEAN)]
<1>1. commands[n] \in Seq(BOOLEAN)
  BY DEF TypeInv
<1>2. Append(commands[n], value) \in Seq(BOOLEAN)
  BY <1>1, SMT
<1> QED BY <1>2 DEF Publish, TypeInv

\* The role changes and probes a turn may ask for.
LEMMA TurnActs ==
    ASSUME TypeInv, BudgetInv, NEW n \in Node, RunTurn(n)
    PROVE  /\ commands' \in [Node -> Seq(BOOLEAN)] /\ due' \in [Node -> BOOLEAN]
           /\ probing' \in [Node -> 0 .. ProbeRoom]
           /\ UNCHANGED budget \/ Spend("refused")
<1> DEFINE verdict == IF inbox[n] = <<>> THEN "none" ELSE Head(inbox[n])
<1>0. \/ SetRole(n, TRUE) \/ SetRole(n, FALSE) \/ ProbeWhenDue(n)
      \/ UNCHANGED <<commands, probing, due, budget>>
  BY DEF RunTurn
<1>1. ASSUME NEW value \in BOOLEAN, SetRole(n, value)
      PROVE  /\ commands' \in [Node -> Seq(BOOLEAN)] /\ due' \in [Node -> BOOLEAN]
             /\ probing' \in [Node -> 0 .. ProbeRoom]
             /\ UNCHANGED budget \/ Spend("refused")
  <2>1. CASE Publish(n, value) /\ UNCHANGED budget
    BY <1>1, <2>1, PublishType DEF SetRole, TypeInv
  <2>2. CASE Refused(n) /\ UNCHANGED commands
    BY <1>1, <2>2 DEF SetRole, TypeInv, Refused
  <2> QED BY <1>1, <2>1, <2>2 DEF SetRole
<1>2. ASSUME ProbeWhenDue(n)
      PROVE  /\ commands' \in [Node -> Seq(BOOLEAN)] /\ due' \in [Node -> BOOLEAN]
             /\ probing' \in [Node -> 0 .. ProbeRoom] /\ UNCHANGED budget
  <2>1. probing[n] \in 0 .. ProbeRoom /\ (IF probing[n] < ProbeRoom THEN probing[n] + 1 ELSE probing[n]) \in 0 .. ProbeRoom
    BY RedundancyAssumption, SMT DEF TypeInv
  <2> DEFINE k == IF probing[n] < ProbeRoom THEN probing[n] + 1 ELSE probing[n]
  <2>2. /\ due' = [due EXCEPT ![n] = FALSE] \/ due' = due
        /\ probing' = [probing EXCEPT ![n] = k] \/ probing' = probing
        /\ UNCHANGED <<commands, budget>>
    BY <1>2 DEF ProbeWhenDue
  <2> HIDE DEF k
  <2>3. k \in 0 .. ProbeRoom
    BY <2>1 DEF k
  <2> QED BY <2>2, <2>3 DEF TypeInv
<1> QED
  BY <1>0, <1>1, <1>2 DEF TypeInv

LEMMA RunTurnType ==
    ASSUME TypeInv, BudgetInv, NEW n \in Node, RunTurn(n) PROVE TypeInv' /\ Onward
<1> DEFINE verdict == IF inbox[n] = <<>> THEN "none" ELSE Head(inbox[n])
           step == ArbitrationStep(n, verdict)
<1>1. UNCHANGED <<node, listening, ghosts>> /\ worker' = [worker EXCEPT ![n] = [fsm |-> step.fsm, missed |-> step.missed]]
  BY DEF RunTurn
<1>2. worker' \in [Node -> Worker]
  <2>1. [fsm |-> step.fsm, missed |-> step.missed] \in Worker
    BY StepOutcome DEF Worker
  <2> HIDE DEF step
  <2> QED BY <1>1, <2>1 DEF TypeInv
<1>3. inbox' \in [Node -> Seq({"yes", "no"})]
  <2>1. inbox[n] \in Seq({"yes", "no"})
    BY DEF TypeInv
  <2>2. inbox[n] # <<>> => Tail(inbox[n]) \in Seq({"yes", "no"})
    BY <2>1, SMT
  <2> QED BY <2>1, <2>2 DEF RunTurn, TypeInv
<1>4. Onward
  BY <1>1, TurnActs, SameBounds
<1> QED
  BY <1>1, <1>2, <1>3, <1>4, TurnActs DEF TypeInv, node, ghosts, Onward

LEMMA HeadTail == ASSUME NEW S, NEW q \in Seq(S), q # <<>> PROVE Head(q) \in S /\ Tail(q) \in Seq(S)
  BY SMT

LEMMA LocalType ==
    ASSUME TypeInv, BudgetInv, NEW n \in Node,
           \/ ListenEnds(n) \/ ProbeFallsDue(n) \/ RegistryApplies(n) \/ UnitAdopts(n)
           \/ RegistryHears(n) \/ Flush(n) \/ LeaseRenewed(n) \/ Boot(n)
    PROVE  TypeInv' /\ Onward
<1>1. UNCHANGED ghosts /\ UNCHANGED budget
  BY DEF ListenEnds, ProbeFallsDue, RegistryApplies, UnitAdopts, RegistryHears, Flush, LeaseRenewed, Boot
<1>2. Onward
  BY <1>1, SameBounds
<1>3. UNCHANGED <<losses, scenario>>
  BY <1>1 DEF ghosts
<1>4. CASE ListenEnds(n)
  BY <1>1, <1>2, <1>3, <1>4 DEF ListenEnds, TypeInv, node, queues
<1>5. CASE ProbeFallsDue(n)
  BY <1>1, <1>2, <1>3, <1>5 DEF ProbeFallsDue, TypeInv, node, queues
<1>6. CASE RegistryApplies(n)
  <2>1. commands[n] \in Seq(BOOLEAN) /\ commands[n] # <<>>
    BY <1>6 DEF RegistryApplies, TypeInv
  <2>2. Head(commands[n]) \in BOOLEAN /\ Tail(commands[n]) \in Seq(BOOLEAN)
    BY <2>1, HeadTail
  <2>3. fresh' \in [Node -> BOOLEAN]
    BY <1>6 DEF RegistryApplies, TypeInv
  <2> QED BY <1>1, <1>2, <1>3, <1>6, <2>2, <2>3 DEF RegistryApplies, TypeInv, clocks
<1>7. CASE UnitAdopts(n)
  BY <1>1, <1>2, <1>3, <1>7 DEF UnitAdopts, TypeInv, clocks, queues
<1>8. CASE RegistryHears(n)
  BY <1>1, <1>2, <1>3, <1>8 DEF RegistryHears, TypeInv, clocks, queues
<1>9. CASE Flush(n)
  BY <1>1, <1>2, <1>3, <1>9 DEF Flush, TypeInv, clocks, queues
<1>10. CASE LeaseRenewed(n)
  BY <1>1, <1>2, <1>3, <1>10 DEF LeaseRenewed, TypeInv, clocks, queues
<1>11. CASE Boot(n)
  <2>1. FreshWorker \in Worker
    BY RedundancyAssumption, SMT DEF FreshWorker, Worker
  <2> QED BY <1>1, <1>2, <1>3, <1>11, <2>1 DEF Boot, TypeInv, queues
<1> QED
  BY <1>2, <1>4, <1>5, <1>6, <1>7, <1>8, <1>9, <1>10, <1>11

\* The bounds and the rows of lost answers.
LEMMA RowType ==
    ASSUME TypeInv, BudgetInv, NEW lost \in BOOLEAN
    PROVE  /\ InARow(lost) \in [row : Nat, worst : Nat] /\ losses.worst <= InARow(lost).worst
           /\ InARow(lost).row <= InARow(lost).worst
           /\ InARow(lost).row = IF lost THEN losses.row + 1 ELSE 0
<1> DEFINE r == losses.row  w == losses.worst  row == IF lost THEN r + 1 ELSE 0
<1>1. r \in Nat /\ w \in Nat /\ r <= w
  BY DEF TypeInv, BudgetInv
<1>2. InARow(lost) = [row |-> row, worst |-> IF row > w THEN row ELSE w]
  BY DEF InARow
<1> HIDE DEF r, w
<1>3. row \in Nat /\ (IF row > w THEN row ELSE w) \in Nat /\ w <= (IF row > w THEN row ELSE w)
      /\ row <= (IF row > w THEN row ELSE w)
  BY <1>1, SMT
<1> HIDE DEF row
<1>4. InARow(lost).row = row /\ InARow(lost).worst = (IF row > w THEN row ELSE w)
  BY <1>2, SMT
<1> QED BY <1>2, <1>3, <1>4 DEF r, w, row

LEMMA ProbeType ==
    ASSUME TypeInv, BudgetInv, NEW n \in Node, ProbeNotSent(n) \/ ProbeAsked(n) PROVE TypeInv' /\ Onward
<1>1. probing' \in [Node -> 0 .. ProbeRoom]
  <2>1. probing' = [probing EXCEPT ![n] = probing[n] - 1] /\ probing[n] > 0
    BY DEF ProbeNotSent, ProbeAsked
  <2>2. probing[n] - 1 \in 0 .. ProbeRoom
    BY <2>1, RedundancyAssumption, SMT DEF TypeInv
  <2> QED BY <2>1, <2>2 DEF TypeInv
<1>2. CASE ProbeNotSent(n)
  <2>1. Onward
    BY <1>2, SameBounds DEF ProbeNotSent
  <2> QED BY <1>1, <1>2, <2>1 DEF ProbeNotSent, TypeInv, node, clocks, ghosts, Onward
<1>3. CASE ProbeAsked(n)
  <2>1. \/ losses' = losses \/ losses' = InARow(TRUE) \/ losses' = InARow(FALSE)
    BY <1>3 DEF ProbeAsked
  <2>2. losses' \in [row : Nat, worst : Nat] /\ losses.worst <= losses'.worst /\ losses'.row <= losses'.worst
    <3>1. CASE losses' = losses
      BY <3>1, SMT DEF TypeInv, BudgetInv
    <3>2. CASE losses' = InARow(TRUE) \/ losses' = InARow(FALSE)
      BY <3>2, RowType
    <3> QED BY <2>1, <3>1, <3>2
  <2>3. /\ budget' \in ScenarioType
        /\ budget'.crash <= budget.crash /\ budget'.lapse <= budget.lapse /\ budget'.handovers <= budget.handovers
    <3>0. budget \in ScenarioType
      BY DEF TypeInv
    <3>1. CASE UNCHANGED budget
      BY <3>0, <3>1, SMT DEF ScenarioType
    <3>2. CASE Spend("lost")
      BY <3>2, SpendType
    <3> QED BY <1>3, <3>1, <3>2 DEF ProbeAsked
  <2>4. inbox' \in [Node -> Seq({"yes", "no"})]
    <3>1. \E e \in {"yes", "no"} : inbox' = [inbox EXCEPT ![n] = Append(inbox[n], e)]
      BY <1>3 DEF ProbeAsked, Hears
    <3>2. inbox[n] \in Seq({"yes", "no"})
      BY DEF TypeInv
    <3>3. \A e \in {"yes", "no"} : Append(inbox[n], e) \in Seq({"yes", "no"})
      BY <3>2, SMT
    <3> QED BY <3>1, <3>3, SMT DEF TypeInv
  <2>5. Onward
    BY <1>3, <2>2, <2>3 DEF ProbeAsked, Onward
  <2> QED BY <1>1, <1>3, <2>4, <2>5 DEF ProbeAsked, TypeInv, node, clocks, Onward
<1> QED BY <1>2, <1>3

LEMMA DisturbanceType ==
    ASSUME TypeInv, BudgetInv, TwoControllers, NEW n \in Node, Handover(n) \/ Crash(n) \/ LeaseLapses(n)
    PROVE  TypeInv' /\ Onward
<1>1. Peer(n) \in Node
  BY DEF TwoControllers, Peer
<1>2. Onward
  BY SameBounds DEF Handover, Crash, LeaseLapses
<1>3. CASE Handover(n)
  <2>1. unit' \in [Node -> BOOLEAN] /\ reported' \in [Node -> BOOLEAN]
    BY <1>1, <1>3 DEF Handover, EnablePeer, TypeInv
  <2>2. commands' \in [Node -> Seq(BOOLEAN)]
    BY <1>3, PublishType DEF Handover, StandDownAfterHandover, TypeInv
  <2> QED BY <1>2, <1>3, <2>1, <2>2 DEF Handover, TypeInv, clocks, ghosts, Onward
<1>4. CASE Crash(n)
  <2>1. <<>> \in Seq(BOOLEAN) /\ <<>> \in Seq({"yes", "no"}) /\ 0 \in 0 .. ProbeRoom
    BY RedundancyAssumption, SMT
  <2> QED BY <1>2, <1>4, <2>1 DEF Crash, TypeInv, ghosts, Onward
<1>5. CASE LeaseLapses(n)
  BY <1>2, <1>5 DEF LeaseLapses, TypeInv, clocks, queues, ghosts, Onward
<1> QED BY <1>3, <1>4, <1>5

-----------------------------------------------------------------------------
\* Counting misses: how an event arrives in the inbox and leaves it.

LEMMA MissArrives ==
    ASSUME NEW q \in Seq({"yes", "no"}), NEW m \in Nat, NEW row \in Nat, NEW worst \in Nat, NEW longest \in Nat,
           Counted(q, m, row, worst), worst <= longest, row + 1 <= longest
    PROVE  Counted(Append(q, "no"), m, row + 1, longest)
<1> DEFINE L == Len(q)  r == Append(q, "no")
<1>1. L \in Nat /\ Len(r) = L + 1 /\ \A j \in 1 .. L : r[j] = q[j]
  BY SMT
<1> HIDE DEF r
<1> SUFFICES ASSUME NEW i \in 0 .. (L + 1), NEW k \in 0 .. (L + 1), i <= k, AllNo(r, i, k)
             PROVE  /\ k - i <= longest /\ (i = 0 => m + k <= longest)
                    /\ (k = L + 1 => k - i <= row + 1)
                    /\ (i = 0 /\ k = L + 1 => m + k <= row + 1)
  BY <1>1 DEF Counted, r
<1>2. CASE k <= L
  <2>1. AllNo(q, i, k) /\ i \in 0 .. L /\ k \in 0 .. L
    BY <1>1, <1>2, SMT DEF AllNo
  <2>2. k - i <= worst /\ (i = 0 => m + k <= worst)
    BY <2>1 DEF Counted
  <2> HIDE DEF L
  <2> QED BY <1>1, <1>2, <2>2, SMT
<1>3. CASE k = L + 1 /\ i <= L
  <2>1. AllNo(q, i, L) /\ i \in 0 .. L /\ L \in 0 .. L
    BY <1>1, <1>3, SMT DEF AllNo
  <2>2. L - i <= row /\ (i = 0 => m + L <= row)
    BY <1>3, <2>1 DEF Counted
  <2> HIDE DEF L
  <2> QED BY <1>1, <1>3, <2>2, SMT
<1>4. CASE k = L + 1 /\ i = L + 1
  <2> HIDE DEF L
  <2> QED BY <1>1, <1>4, SMT
<1> HIDE DEF L
<1> QED BY <1>1, <1>2, <1>3, <1>4, SMTT(20)

LEMMA AnswerArrives ==
    ASSUME NEW q \in Seq({"yes", "no"}), NEW m \in Nat, NEW row \in Nat, NEW worst \in Nat, NEW longest \in Nat,
           Counted(q, m, row, worst), worst <= longest
    PROVE  Counted(Append(q, "yes"), m, 0, longest)
<1> DEFINE L == Len(q)  r == Append(q, "yes")
<1>1. L \in Nat /\ Len(r) = L + 1 /\ r[L + 1] = "yes" /\ \A j \in 1 .. L : r[j] = q[j]
  BY SMT
<1> HIDE DEF r
<1> SUFFICES ASSUME NEW i \in 0 .. (L + 1), NEW k \in 0 .. (L + 1), i <= k, AllNo(r, i, k)
             PROVE  /\ k - i <= longest /\ (i = 0 => m + k <= longest)
                    /\ (k = L + 1 => k - i <= 0)
                    /\ (i = 0 /\ k = L + 1 => m + k <= 0)
  BY <1>1 DEF Counted, r
<1>2. CASE k <= L
  <2>1. AllNo(q, i, k) /\ i \in 0 .. L /\ k \in 0 .. L
    BY <1>1, <1>2, SMT DEF AllNo
  <2>2. k - i <= worst /\ (i = 0 => m + k <= worst)
    BY <2>1 DEF Counted
  <2> HIDE DEF L
  <2> QED BY <1>1, <1>2, <2>2, SMT
<1>3. CASE k = L + 1 /\ i <= L
  <2>1. L + 1 \in (i + 1) .. k
    BY <1>1, <1>3, SMT
  <2> QED BY <1>1, <2>1 DEF AllNo
<1>4. CASE k = L + 1 /\ i = L + 1
  <2> HIDE DEF L
  <2> QED BY <1>1, <1>4, SMT
<1> HIDE DEF L
<1> QED BY <1>1, <1>2, <1>3, <1>4, SMTT(20)

LEMMA MissTaken ==
    ASSUME NEW q \in Seq({"yes", "no"}), NEW m \in Nat, NEW row \in Nat, NEW worst \in Nat,
           Counted(q, m, row, worst), q # <<>>, Head(q) = "no"
    PROVE  m + 1 <= worst /\ Counted(Tail(q), m + 1, row, worst)
<1> DEFINE L == Len(q)  r == Tail(q)
<1>1. L \in Nat \ {0} /\ Len(r) = L - 1 /\ q[1] = "no" /\ \A j \in 1 .. (L - 1) : r[j] = q[j + 1]
  BY SMT
<1> HIDE DEF r
<1>2. m + 1 <= worst
  <2>1. AllNo(q, 0, 1) /\ 0 \in 0 .. L /\ 1 \in 0 .. L
    BY <1>1, SMT DEF AllNo
  <2> QED BY <2>1, SMT DEF Counted
<1>3. ASSUME NEW i \in 0 .. (L - 1), NEW k \in 0 .. (L - 1), i <= k, AllNo(r, i, k)
      PROVE  /\ k - i <= worst /\ (i = 0 => m + 1 + k <= worst)
             /\ (k = L - 1 => k - i <= row) /\ (i = 0 /\ k = L - 1 => m + 1 + k <= row)
  <2>1. AllNo(q, i + 1, k + 1)
    <3> SUFFICES ASSUME NEW j \in (i + 2) .. (k + 1) PROVE q[j] = "no"
      BY SMT DEF AllNo
    <3>1. j - 1 \in (i + 1) .. k /\ j - 1 \in 1 .. (L - 1) /\ (j - 1) + 1 = j
      BY <1>1, SMT
    <3> QED BY <1>1, <1>3, <3>1 DEF AllNo
  <2>2. i = 0 => AllNo(q, 0, k + 1)
    <3> SUFFICES ASSUME i = 0, NEW j \in 1 .. (k + 1) PROVE q[j] = "no"
      BY SMT DEF AllNo
    <3>1. CASE j = 1
      BY <1>1, <3>1
    <3>2. CASE j # 1
      BY <2>1, <3>2, SMT DEF AllNo
    <3> QED BY <3>1, <3>2
  <2>3. i + 1 \in 0 .. L /\ k + 1 \in 0 .. L /\ 0 \in 0 .. L /\ i + 1 <= k + 1 /\ 0 <= k + 1
    BY <1>1, <1>3, SMT
  <2>4. (k + 1) - (i + 1) <= worst /\ (k + 1 = L => (k + 1) - (i + 1) <= row)
    BY <2>1, <2>3 DEF Counted
  <2>5. i = 0 => m + (k + 1) <= worst /\ (k + 1 = L => m + (k + 1) <= row)
    BY <2>2, <2>3 DEF Counted
  <2> HIDE DEF L
  <2> QED BY <1>1, <2>4, <2>5, SMT
<1> QED BY <1>1, <1>2, <1>3 DEF Counted, r

LEMMA CountStartsAgain ==
    ASSUME NEW q \in Seq({"yes", "no"}), NEW m \in Nat, NEW row \in Nat, NEW worst \in Nat,
           Counted(q, m, row, worst), q # <<>>
    PROVE  Counted(Tail(q), 0, row, worst)
<1> DEFINE L == Len(q)  r == Tail(q)
<1>1. L \in Nat \ {0} /\ Len(r) = L - 1 /\ \A j \in 1 .. (L - 1) : r[j] = q[j + 1]
  BY SMT
<1> HIDE DEF r
<1>3. ASSUME NEW i \in 0 .. (L - 1), NEW k \in 0 .. (L - 1), i <= k, AllNo(r, i, k)
      PROVE  /\ k - i <= worst /\ (i = 0 => 0 + k <= worst)
             /\ (k = L - 1 => k - i <= row) /\ (i = 0 /\ k = L - 1 => 0 + k <= row)
  <2>1. AllNo(q, i + 1, k + 1)
    <3> SUFFICES ASSUME NEW j \in (i + 2) .. (k + 1) PROVE q[j] = "no"
      BY SMT DEF AllNo
    <3>1. j - 1 \in (i + 1) .. k /\ j - 1 \in 1 .. (L - 1) /\ (j - 1) + 1 = j
      BY <1>1, SMT
    <3> QED BY <1>1, <1>3, <3>1 DEF AllNo
  <2>3. i + 1 \in 0 .. L /\ k + 1 \in 0 .. L /\ i + 1 <= k + 1
    BY <1>1, <1>3, SMT
  <2>4. (k + 1) - (i + 1) <= worst /\ (k + 1 = L => (k + 1) - (i + 1) <= row)
    BY <2>1, <2>3 DEF Counted
  <2> HIDE DEF L
  <2> QED BY <1>1, <2>4, SMT
<1> QED BY <1>1, <1>3 DEF Counted, r

LEMMA NothingToTake ==
    ASSUME NEW m \in Nat, NEW row \in Nat, NEW worst \in Nat PROVE Counted(<<>>, 0, row, worst)
  BY SMT DEF Counted

-----------------------------------------------------------------------------
\* While it is quiet nothing but probes, their answers and turns happens.

\* What is quiet after a step was quiet before it.
LEMMA QuietBefore ==
    ASSUME TypeInv, BudgetInv, Onward, NEW p \in Node, NEW s \in Node, Quiet(p, s)'
    PROVE  /\ Quiet(p, s)
           /\ budget'.crash = budget.crash /\ budget'.lapse = budget.lapse /\ budget'.handovers = budget.handovers
<1>1. budget \in ScenarioType /\ scenario \in ScenarioType
  BY DEF TypeInv
<1>2. /\ budget'.crash = scenario.crash /\ budget'.lapse = scenario.lapse
      /\ budget'.handovers = scenario.handovers
  BY <1>1 DEF Quiet, Undisturbed, Onward, ScenarioType
<1>3. /\ budget.crash = scenario.crash /\ budget.lapse = scenario.lapse
      /\ budget.handovers = scenario.handovers
  BY <1>1, <1>2, SMT DEF BudgetInv, Onward, ScenarioType
<1>4. Undisturbed
  BY <1>1, <1>3 DEF Undisturbed, ScenarioType
<1>5. losses.worst < TakeoverAfter
  BY RedundancyAssumption, SMT DEF Quiet, Onward, TypeInv
<1> QED
  BY <1>2, <1>3, <1>4, <1>5 DEF Quiet, Onward

\* Steps that move neither what s has heard nor the roles.
LEMMA NothingMoves ==
    ASSUME TypeInv, NEW p \in Node, NEW s \in Node, Quiet(p, s), QuietInv(p, s),
           UNCHANGED <<up, lease, reported, fresh, commands, active, unit, worker, inbox, losses>>
    PROVE  QuietInv(p, s)'
  BY DEF QuietInv

LEMMA QuietTurnOfOwner ==
    ASSUME TypeInv, NEW p \in Node, NEW s \in Node, p # s, Quiet(p, s), QuietInv(p, s), RunTurn(p)
    PROVE  QuietInv(p, s)'
<1> DEFINE verdict == IF inbox[p] = <<>> THEN "none" ELSE Head(inbox[p])
           step == ArbitrationStep(p, verdict)
<1>1. inbox[p] \in Seq({"yes", "no"}) /\ active[p] /\ \A i \in 1 .. Len(inbox[p]) : inbox[p][i] = "no"
  BY DEF TypeInv, QuietInv
<1>2. verdict # "yes"
  <2>1. inbox[p] # <<>> => 1 \in 1 .. Len(inbox[p]) /\ Head(inbox[p]) = inbox[p][1]
    BY <1>1, SMT
  <2> QED BY <1>1, <2>1
<1>3. step.act \in {"idle", "probe"}
  <2>1. worker[p].fsm \in {"disabled", "listening", "passive", "active"}
    BY DEF TypeInv, Worker
  <2> HIDE DEF verdict
  <2>2. CASE worker[p].fsm \in {"disabled", "listening"}
    BY <1>1, <2>2 DEF ArbitrationStep, ListeningTurn, Outcome
  <2>3. CASE worker[p].fsm = "passive"
    BY <1>1, <2>3 DEF ArbitrationStep, PassiveTurn, Outcome
  <2>4. CASE worker[p].fsm = "active"
    BY <1>1, <1>2, <2>4 DEF ArbitrationStep, ActiveTurn, Outcome, StandsDown
  <2> QED BY <2>1, <2>2, <2>3, <2>4
<1>4. UNCHANGED commands
  <2>1. \/ step.act = "probe" /\ ProbeWhenDue(p)
        \/ UNCHANGED <<commands, probing, due, budget>>
    <3> HIDE DEF verdict
    <3>1. CASE step.act = "probe"
      BY <3>1 DEF RunTurn, verdict
    <3>2. CASE step.act = "idle"
      BY <3>2 DEF RunTurn, verdict
    <3> QED BY <1>3, <3>1, <3>2
  <2> QED BY <2>1 DEF ProbeWhenDue
<1>5. UNCHANGED <<up, lease, reported, fresh, active, unit, losses>>
  BY DEF RunTurn, node, ghosts
<1>6. inbox'[s] = inbox[s] /\ worker'[s] = worker[s]
  BY DEF RunTurn, TypeInv
<1>7. \A i \in 1 .. Len(inbox'[p]) : inbox'[p][i] = "no"
  <2>1. CASE inbox[p] = <<>>
    BY <1>1, <2>1 DEF RunTurn, TypeInv
  <2>2. CASE inbox[p] # <<>>
    <3>1. inbox'[p] = Tail(inbox[p])
      BY <2>2 DEF RunTurn, TypeInv
    <3>2. \A i \in 1 .. Len(Tail(inbox[p])) : i + 1 \in 1 .. Len(inbox[p]) /\ Tail(inbox[p])[i] = inbox[p][i + 1]
      BY <1>1, <2>2, SMT
    <3> QED BY <1>1, <3>1, <3>2
  <2> QED BY <2>1, <2>2
<1> QED
  BY <1>4, <1>5, <1>6, <1>7, SMTT(20) DEF QuietInv

LEMMA QuietTurnOfStandby ==
    ASSUME TypeInv, NEW p \in Node, NEW s \in Node, p # s, Quiet(p, s), QuietInv(p, s), RunTurn(s)
    PROVE  QuietInv(p, s)'
<1> USE RedundancyAssumption
<1> DEFINE verdict == IF inbox[s] = <<>> THEN "none" ELSE Head(inbox[s])
           step == ArbitrationStep(s, verdict)
           q == inbox[s]  m == worker[s].missed  row == losses.row  worst == losses.worst
<1>1. /\ q \in Seq({"yes", "no"}) /\ ~active[s] /\ s \in scenario.standby /\ m \in Nat /\ row \in Nat /\ worst \in Nat
      /\ worst < TakeoverAfter /\ Counted(q, m, row, worst)
      /\ worker[s].fsm \in {"disabled", "listening", "passive"} /\ listening[s] \in BOOLEAN
  BY SMT DEF TypeInv, QuietInv, Quiet, Worker
<1>2. verdict = "no" => q # <<>> /\ Head(q) = "no" /\ m + 1 <= worst
  <2>1. verdict = "no" => q # <<>> /\ Head(q) = "no"
    OBVIOUS
  <2> QED BY <1>1, <2>1, MissTaken
<1>3. /\ step.act \in {"idle", "probe"} /\ step.fsm # "active"
      /\ \/ step.missed = 0
         \/ verdict = "no" /\ step.missed = m + 1
         \/ verdict = "none" /\ step.missed = m
  <2> HIDE DEF verdict
  <2>2. CASE worker[s].fsm \in {"disabled", "listening"}
    BY <1>1, <2>2 DEF ArbitrationStep, ListeningTurn, Outcome
  <2>3. CASE worker[s].fsm = "passive"
    <3>1. verdict \in {"none", "yes", "no"}
      BY <1>1, HeadTail, SMTT(20) DEF verdict
    <3>2. step = PassiveTurn(s, verdict)
      BY <2>3 DEF ArbitrationStep
    <3>3. CASE verdict = "no"
      <4>1. ~Missing(m) /\ Miss(verdict)
        BY <1>1, <1>2, <3>3, SMTT(20) DEF Missing, Miss
      <4>2. step = Outcome("passive", m + 1, "probe")
        BY <1>1, <3>2, <4>1 DEF PassiveTurn
      <4> QED BY <3>3, <4>2, SMT DEF Outcome
    <3>4. CASE verdict # "no"
      <4>1. step = Outcome("passive", IF verdict = "yes" THEN 0 ELSE m, "probe")
        BY <1>1, <3>2, <3>4 DEF PassiveTurn, Miss
      <4> QED BY <3>1, <3>4, <4>1, SMTT(20) DEF Outcome
    <3> QED BY <3>3, <3>4
  <2> QED BY <1>1, <2>2, <2>3
<1>4. UNCHANGED commands
  <2>1. \/ step.act = "probe" /\ ProbeWhenDue(s)
        \/ UNCHANGED <<commands, probing, due, budget>>
    <3> HIDE DEF verdict
    <3>1. CASE step.act = "probe"
      BY <3>1 DEF RunTurn, verdict
    <3>2. CASE step.act = "idle"
      BY <3>2 DEF RunTurn, verdict
    <3> QED BY <1>3, <3>1, <3>2
  <2> QED BY <2>1 DEF ProbeWhenDue
<1>5. UNCHANGED <<up, lease, reported, fresh, active, unit, losses>>
  BY DEF RunTurn, node, ghosts
<1>6. inbox'[p] = inbox[p] /\ worker'[s].fsm = step.fsm /\ worker'[s].missed = step.missed
  BY DEF RunTurn, TypeInv
<1>7. inbox'[s] = IF q = <<>> THEN q ELSE Tail(q)
  BY DEF RunTurn, TypeInv
<1>8. Counted(inbox'[s], worker'[s].missed, row, worst)
  <2>0. verdict = "none" => q = <<>>
    <3>1. q # <<>> => Head(q) \in {"yes", "no"}
      BY <1>1, HeadTail
    <3> QED BY <3>1
  <2>1. CASE q = <<>>
    <3>1. verdict = "none"
      BY <2>1
    <3>2. step.missed \in {0, m}
      BY <1>3, <3>1
    <3> QED BY <1>1, <1>6, <1>7, <2>1, <3>2, NothingToTake
  <2>2. CASE q # <<>> /\ step.missed = 0
    BY <1>1, <1>6, <1>7, <2>2, CountStartsAgain, SMTT(20)
  <2>3. CASE q # <<>> /\ verdict = "no" /\ step.missed = m + 1
    BY <1>1, <1>2, <1>6, <1>7, <2>3, MissTaken
  <2> QED BY <1>3, <2>0, <2>1, <2>2, <2>3
<1> QED
  BY <1>3, <1>4, <1>5, <1>6, <1>8 DEF QuietInv

LEMMA QuietProbe ==
    ASSUME TypeInv, BudgetInv, NEW p \in Node, NEW s \in Node, p # s, Node = {p, s}, Quiet(p, s), QuietInv(p, s),
           NEW n \in Node, ProbeAsked(n)
    PROVE  QuietInv(p, s)'
<1>1. UNCHANGED <<up, lease, reported, fresh, active, unit, commands, worker>>
  BY DEF ProbeAsked, node
<1>2. losses.row \in Nat /\ losses.worst \in Nat /\ losses.row <= losses.worst
  BY DEF TypeInv, BudgetInv
<1>3. CASE n = p
  <2>1. ~Asked(p)
    BY DEF Asked, Answers, QuietInv
  <2>2. inbox' = [inbox EXCEPT ![p] = Append(inbox[p], "no")] /\ losses' = losses
    BY <1>3, <2>1 DEF ProbeAsked, Hears
  <2>3. inbox'[s] = inbox[s] /\ inbox'[p] = Append(inbox[p], "no") /\ inbox[p] \in Seq({"yes", "no"})
    BY <2>2 DEF TypeInv
  <2>4. \A i \in 1 .. Len(inbox'[p]) : inbox'[p][i] = "no"
    <3>1. \A i \in 1 .. Len(inbox[p]) : inbox[p][i] = "no"
      BY DEF QuietInv
    <3> QED BY <2>3, <3>1, SMT
  <2> QED BY <1>1, <2>2, <2>3, <2>4 DEF QuietInv
<1>4. CASE n = s
  <2> DEFINE q == inbox[s]  m == worker[s].missed
  <2>1. Asked(s)
    BY DEF Asked, Answers, QuietInv
  <2>2. q \in Seq({"yes", "no"}) /\ m \in Nat /\ Counted(q, m, losses.row, losses.worst)
    BY SMT DEF TypeInv, QuietInv, Worker
  <2>3. CASE inbox' = [inbox EXCEPT ![s] = Append(q, "yes")] /\ losses' = InARow(FALSE)
    <3>1. losses'.row = 0 /\ losses'.worst \in Nat /\ losses.worst <= losses'.worst
      BY <2>3, RowType
    <3>2. inbox'[s] = Append(q, "yes") /\ inbox'[p] = inbox[p]
      BY <2>3 DEF TypeInv
    <3>3. Counted(inbox'[s], m, 0, losses'.worst)
      BY <1>2, <2>2, <3>1, <3>2, AnswerArrives
    <3> QED BY <1>1, <3>1, <3>2, <3>3 DEF QuietInv
  <2>4. CASE inbox' = [inbox EXCEPT ![s] = Append(q, "no")] /\ losses' = InARow(TRUE)
    <3>1. /\ losses'.row = losses.row + 1 /\ losses'.worst \in Nat /\ losses.worst <= losses'.worst
          /\ losses'.row <= losses'.worst
      BY <2>4, RowType
    <3>2. inbox'[s] = Append(q, "no") /\ inbox'[p] = inbox[p]
      BY <2>4 DEF TypeInv
    <3>3. Counted(inbox'[s], m, losses'.row, losses'.worst)
      BY <1>2, <2>2, <3>1, <3>2, MissArrives
    <3> QED BY <1>1, <3>1, <3>2, <3>3 DEF QuietInv
  <2> QED BY <1>4, <2>1, <2>3, <2>4 DEF ProbeAsked, Hears
<1> QED BY <1>3, <1>4

LEMMA QuietStep ==
    ASSUME TypeInv, BudgetInv, NEW p \in Node, NEW s \in Node, p # s, Node = {p, s}, Quiet(p, s), QuietInv(p, s),
           budget'.crash = budget.crash, budget'.lapse = budget.lapse, budget'.handovers = budget.handovers,
           NEW n \in Node, Works(n) \/ Disturbed(n)
    PROVE  QuietInv(p, s)'
<1>1. CASE RunTurn(n)
  BY <1>1, QuietTurnOfOwner, QuietTurnOfStandby
<1>2. CASE ProbeAsked(n)
  BY <1>2, QuietProbe
<1>3. CASE ListenEnds(n) \/ ProbeFallsDue(n) \/ Flush(n) \/ ProbeNotSent(n)
  <2>1. UNCHANGED <<up, lease, reported, fresh, commands, active, unit, worker, inbox, losses>>
    BY <1>3 DEF ListenEnds, ProbeFallsDue, Flush, ProbeNotSent, node, queues, ghosts
  <2> QED BY <2>1, NothingMoves
<1>4. ~RegistryApplies(n) /\ ~RegistryHears(n) /\ ~LeaseRenewed(n) /\ ~Boot(n)
  BY DEF RegistryApplies, RegistryHears, LeaseRenewed, Boot, QuietInv
<1>5. ~UnitAdopts(n)
  <2>1. active[p] = TRUE /\ unit[p] = TRUE /\ active[s] = FALSE /\ unit[s] = FALSE
    BY DEF QuietInv, TypeInv
  <2>2. active[n] = unit[n] /\ ~fresh[n]
    BY <2>1 DEF QuietInv
  <2> QED BY <2>2 DEF UnitAdopts
<1>6. ~Crash(n) /\ ~LeaseLapses(n) /\ ~Handover(n)
  <2>1. budget.crash \in Nat /\ budget.lapse \in Nat /\ budget.handovers \in Nat
    BY DEF TypeInv, ScenarioType
  <2>2. budget["crash"] = budget.crash /\ budget["lapse"] = budget.lapse /\ budget["handovers"] = budget.handovers
    BY DEF TypeInv, ScenarioType
  <2>3. ~Spend("crash")
    BY <2>1, SpendType, SMT
  <2>4. ~Spend("lapse")
    BY <2>1, SpendType, SMTT(20)
  <2>5. ~Spend("handovers")
    BY <2>1, SpendType, SMT
  <2> QED BY <2>3, <2>4, <2>5 DEF Crash, LeaseLapses, Handover
<1> QED
  BY <1>1, <1>2, <1>3, <1>4, <1>5, <1>6 DEF Works, Disturbed

-----------------------------------------------------------------------------

LEMMA RolesInit == Init => RolesInv
<1> SUFFICES ASSUME Init PROVE RolesInv
  OBVIOUS
<1> USE RedundancyAssumption
<1>1. TypeInv
  <2>1. FreshWorker \in Worker
    BY SMT DEF FreshWorker, Worker
  <2>2. <<>> \in Seq(BOOLEAN) /\ <<>> \in Seq({"yes", "no"}) /\ 0 \in 0 .. ProbeRoom
    BY SMT
  <2> QED BY <2>1, <2>2, SMT DEF Init, TypeInv
<1>2. BudgetInv
  BY <1>1, SMT DEF Init, BudgetInv, TypeInv, ScenarioType
<1>3. ASSUME NEW p \in Node, NEW s \in Node, p # s, Quiet(p, s) PROVE QuietInv(p, s)
  <2>1. active[p] /\ unit[p] /\ ~active[s] /\ ~unit[s]
    BY <1>3 DEF Quiet, Init
  <2>2. Counted(inbox[s], worker[s].missed, losses.row, losses.worst)
    BY NothingToTake DEF Init, FreshWorker
  <2>3. Len(inbox[p]) = 0
    BY DEF Init
  <2> QED BY <2>1, <2>2, <2>3, SMTT(20) DEF Init, QuietInv, FreshWorker
<1> QED BY <1>1, <1>2, <1>3 DEF RolesInv

LEMMA RolesStep == ASSUME TwoControllers PROVE RolesInv /\ [Next]_vars => RolesInv'
<1> SUFFICES ASSUME RolesInv, [Next]_vars PROVE RolesInv'
  OBVIOUS
<1>1. CASE UNCHANGED vars
  <2>0. UNCHANGED <<node, commands, inbox, probing, worker, listening, due, budget, losses, scenario>>
    BY <1>1 DEF vars, queues, clocks, ghosts
  <2>1. TypeInv' /\ BudgetInv'
    BY <2>0 DEF RolesInv, TypeInv, BudgetInv, node
  <2>2. \A p, s \in Node : Quiet(p, s)' <=> Quiet(p, s)
    BY <2>0 DEF Quiet, Undisturbed
  <2>3. \A p, s \in Node : QuietInv(p, s) => QuietInv(p, s)'
    BY <2>0 DEF QuietInv, node
  <2> QED BY <2>1, <2>2, <2>3 DEF RolesInv
<1>2. ASSUME NEW n \in Node, Works(n) \/ Disturbed(n) PROVE RolesInv'
  <2>1. TypeInv /\ BudgetInv
    BY DEF RolesInv
  <2>2. TypeInv' /\ Onward
    BY <1>2, <2>1, RunTurnType, LocalType, ProbeType, DisturbanceType DEF Works, Disturbed
  <2>3. BudgetInv'
    <3>1. budget \in ScenarioType /\ scenario \in ScenarioType
      BY <2>1 DEF TypeInv
    <3> QED BY <2>1, <2>2, <3>1, SMTT(20) DEF Onward, BudgetInv, ScenarioType
  <2>4. ASSUME NEW p \in Node, NEW s \in Node, p # s, Quiet(p, s)' PROVE QuietInv(p, s)'
    <3>1. /\ Quiet(p, s)
          /\ budget'.crash = budget.crash /\ budget'.lapse = budget.lapse /\ budget'.handovers = budget.handovers
      BY <2>1, <2>2, <2>4, QuietBefore
    <3>2. QuietInv(p, s) /\ Node = {p, s}
      BY <2>4, <3>1, SMTT(20) DEF RolesInv, TwoControllers
    <3> QED BY <1>2, <2>1, <2>4, <3>1, <3>2, QuietStep
  <2> QED BY <2>2, <2>3, <2>4 DEF RolesInv
<1> QED BY <1>1, <1>2 DEF Next

LEMMA InvKeepsRoles == ASSUME TwoControllers PROVE RolesInv => RolesKept
<1> SUFFICES ASSUME RolesInv PROVE RolesKept
  OBVIOUS
<1>1. TypeOK
  BY DEF RolesInv, TypeInv, TypeOK
<1>2. LostFramesMoveNothing
  <2> SUFFICES ASSUME Undisturbed, losses.worst < TakeoverAfter, scenario.active # {},
                      NEW s \in scenario.standby \ scenario.active
               PROVE  ~active[s] /\ commands[s] = <<>>
    BY DEF LostFramesMoveNothing
  <2>1. s \in Node /\ scenario.active \subseteq Node
    BY DEF RolesInv, TypeInv, ScenarioType
  <2>2. PICK p \in Node : p # s /\ scenario.active = {p}
    BY <2>1, SMT DEF TwoControllers
  <2>3. QuietInv(p, s)
    BY <2>1, <2>2 DEF RolesInv, Quiet
  <2> QED BY <2>1, <2>3 DEF QuietInv
<1> QED BY <1>1, <1>2 DEF RolesKept

\* Two controllers on a segment, any takeover_after_missed: while the one that
\* drives the bus is left alone, a standby claims it only after
\* takeover_after_missed answers were lost in a row (run_turn, passive_turn).
THEOREM RolesAreKept == ASSUME TwoControllers PROVE Spec => []RolesKept
<1>1. Spec => []RolesInv
  BY RolesInit, RolesStep, PTL DEF Spec
<1> QED
  BY <1>1, InvKeepsRoles, PTL

-----------------------------------------------------------------------------
(* BusUnitSync, for every set of variables and values, every queue         *)
(* capacity and every number of patches, wire commands and losses that     *)
(* leaves revisions in less than half of their range.                      *)

\* Revisions and sequence numbers never get beyond this.
Top == MaxPatch + MaxWire + 2

Captured == [field : Field, val : Val]

\* The copy the registry will compare the unit's next report with.
Base ==
    IF reg.applied # None /\ reg.applied[1] = busUnit.rev THEN reg.applied[2] ELSE adopted

\* Field f holds v once every captured command is drained.
Becomes(f, v) ==
    \/ v = busUnit.nvm[f] /\ \A i \in DOMAIN ring : ring[i].field # f
    \/ \E i \in DOMAIN ring : /\ ring[i].field = f /\ ring[i].val = v
                              /\ \A j \in DOMAIN ring : j > i => ring[j].field # f

\* The numbers: each revision is a patch, an applied report or a read of the
\* slice, and each sequence number a drained command.
NumberInv ==
    /\ reg.rev <= patches + reg.ack + IF unread = None THEN 1 ELSE 0
    /\ reg.ack <= busUnit.seq /\ busUnit.seq + Len(ring) <= wires
    /\ busUnit.rev # None => busUnit.rev <= reg.rev
    /\ busUnit.rev = None => busUnit.seq = 0 /\ reg.applied = None
    /\ reg.applied # None => reg.applied[1] <= busUnit.rev
    /\ \A f \in Field : reg.movedAt[f] # None => reg.movedAt[f] <= reg.rev

\* What is on its way: a report that may still be applied was made from the copy
\* the unit has adopted, and the last one tells what the unit holds.
ReportInv ==
    /\ cell = Snapshot(reg)
    /\ busUnit.rev # None => adopted \in Nvm
    /\ unacked = None => reg.ack = busUnit.seq
    /\ unacked # None => busUnit.rev # None /\ unacked = Report(busUnit.nvm, busUnit.seq)
    /\ \A i \in DOMAIN queue :
          /\ queue[i].seq <= busUnit.seq
          /\ queue[i].seq > reg.ack => queue[i].rev = busUnit.rev /\ queue[i].adopted = adopted
          /\ queue[i].seq > reg.ack /\ queue[i].seq = busUnit.seq => queue[i].observed = busUnit.nvm

\* The two copies: with everything acknowledged the unit holds the copy it is
\* compared with, and at the registry's revision that copy is the registry's.
\* A field the operator has not moved since is the registry's too, and its
\* rightful value is the one the drains will leave; a field the operator has
\* moved has its rightful value in the registry.
CopyInv ==
    /\ busUnit.rev # None /\ reg.ack = busUnit.seq => busUnit.nvm = Base
    /\ busUnit.rev = reg.rev => Base = adopted /\ reg.nvm = adopted
    /\ \A f \in Field : rightful[f] # Untracked =>
          IF Adopted(f) THEN reg.nvm[f] = Base[f] /\ Becomes(f, rightful[f])
                        ELSE reg.nvm[f] = rightful[f]

UnitInv == UnitTypeOK /\ ring \in Seq(Captured) /\ queue \in Seq(Evidence)
        /\ NumberInv /\ ReportInv /\ CopyInv

-----------------------------------------------------------------------------
\* Below Top the modular comparison is the comparison, and the increment adds 1.

LEMMA TopFacts == Top \in Nat /\ Wrap \in Nat /\ 2 * Top < Wrap /\ 0 .. Top \subseteq Rev /\ Top >= 2
  BY RoomAssumption, SMT DEF Top, Rev

LEMMA IncBelow == ASSUME NEW n \in 0 .. Top - 1 PROVE Inc(n) = n + 1 /\ Inc(n) \in Rev
<1>1. n + 1 \in 0 .. Wrap - 1 /\ Wrap \in Nat \ {0} /\ n + 1 \in Nat
  BY TopFacts, SMT
<1>2. (n + 1) % Wrap = n + 1
  BY <1>1, SMT
<1> QED
  BY <1>1, <1>2 DEF Inc, Rev

LEMMA NewerIsGreater ==
    ASSUME NEW a \in 0 .. Top - 1, NEW b \in 0 .. Top - 1 PROVE IsNewer(a, b) <=> a > b
<1> DEFINE half == (Wrap - 1) \div 2
<1>0. Top \in Nat /\ Wrap \in Nat /\ 2 * Top < Wrap
  BY TopFacts
<1>1. half \in Nat /\ Top <= half /\ 2 * half <= Wrap - 1
  BY <1>0, SMT
<1>2. CASE a >= b
  <2>1. a - b \in 0 .. Wrap - 1 /\ a - b < Top
    BY <1>0, <1>2, SMT
  <2>2. (a - b) % Wrap = a - b
    BY <1>0, <2>1, SMT
  <2> HIDE DEF half
  <2>3. IsNewer(a, b) <=> a - b # 0 /\ a - b < half
    BY <2>2 DEF IsNewer, half
  <2> QED
    BY <1>0, <1>1, <1>2, <2>1, <2>3, SMT
<1>3. CASE a < b
  <2>1. (a - b) + Wrap \in 0 .. Wrap - 1 /\ (a - b) + Wrap >= Wrap - Top
    BY <1>0, <1>3, SMT
  <2>2. (a - b) % Wrap = (a - b) + Wrap
    BY <1>0, <2>1, SMT
  <2> HIDE DEF half
  <2>3. IsNewer(a, b) => (a - b) + Wrap < half
    BY <2>2 DEF IsNewer, half
  <2> QED
    BY <1>0, <1>1, <1>3, <2>1, <2>3, SMT
<1> QED
  BY <1>2, <1>3, SMT

\* In a state of the invariant every number is below Top, and a field is held
\* for the operator exactly when it moved after the unit's revision.
LEMMA Bounds ==
    ASSUME UnitInv
    PROVE  /\ reg.rev \in 0 .. Top - 1 /\ reg.ack \in 0 .. Top - 1 /\ busUnit.seq \in 0 .. Top - 2
           /\ busUnit.rev # None => busUnit.rev \in 0 .. Top - 1
           /\ \A f \in Field : reg.movedAt[f] # None => reg.movedAt[f] \in 0 .. Top - 1
           /\ \A i \in DOMAIN queue : queue[i].seq \in 0 .. Top - 1
           /\ reg.rev = Top - 1 => unread = None /\ patches = MaxPatch
           /\ Len(ring) \in Nat
<1>1. /\ reg.rev \in Nat /\ reg.ack \in Nat /\ busUnit.seq \in Nat /\ Len(ring) \in Nat
      /\ patches \in 0 .. MaxPatch /\ wires \in 0 .. MaxWire
      /\ busUnit.rev # None => busUnit.rev \in Nat
      /\ \A f \in Field : reg.movedAt[f] # None => reg.movedAt[f] \in Nat
      /\ \A i \in DOMAIN queue : queue[i].seq \in Nat
  BY RoomAssumption, SMT DEF UnitInv, UnitTypeOK, SettingsRow, Evidence, Rev
<1>2. MaxPatch \in Nat /\ MaxWire \in Nat /\ Top = MaxPatch + MaxWire + 2
  BY RoomAssumption DEF Top
<1>3. /\ reg.rev <= patches + reg.ack + 1 /\ reg.ack <= busUnit.seq /\ busUnit.seq + Len(ring) <= wires
      /\ unread # None => reg.rev <= patches + reg.ack
      /\ busUnit.rev # None => busUnit.rev <= reg.rev
      /\ \A f \in Field : reg.movedAt[f] # None => reg.movedAt[f] <= reg.rev
      /\ \A i \in DOMAIN queue : queue[i].seq <= busUnit.seq
  BY <1>1, <1>2, SMTT(20) DEF UnitInv, NumberInv, ReportInv
<1> DEFINE rev == reg.rev
           ack == reg.ack
           seq == busUnit.seq
           n == Len(ring)
<1>a. /\ rev \in Nat /\ ack \in Nat /\ seq \in Nat /\ n \in Nat
      /\ rev <= patches + ack + 1 /\ ack <= seq /\ seq + n <= wires
      /\ unread # None => rev <= patches + ack
      /\ patches \in 0 .. MaxPatch /\ wires \in 0 .. MaxWire
  BY <1>1, <1>3
<1> HIDE DEF rev, ack, seq, n
<1>b. /\ seq <= MaxWire /\ ack <= MaxWire /\ rev <= Top - 1
      /\ rev = Top - 1 => unread = None /\ patches = MaxPatch
  BY <1>2, <1>a, SMT
<1>4. busUnit.seq <= MaxWire /\ reg.ack <= MaxWire /\ reg.rev <= Top - 1
  BY <1>b DEF rev, ack, seq
<1>5. reg.rev = Top - 1 => unread = None /\ patches = MaxPatch
  BY <1>b DEF rev
<1>6. reg.rev \in 0 .. Top - 1 /\ reg.ack \in 0 .. Top - 1 /\ busUnit.seq \in 0 .. Top - 2
  BY <1>1, <1>2, <1>4, SMT
<1>7. busUnit.rev # None => busUnit.rev \in 0 .. Top - 1
  BY <1>1, <1>2, <1>3, <1>4, SMT
<1>8. \A f \in Field : reg.movedAt[f] # None => reg.movedAt[f] \in 0 .. Top - 1
  BY <1>1, <1>2, <1>3, <1>4, SMT
<1>9. \A i \in DOMAIN queue : queue[i].seq \in 0 .. Top - 1
  BY <1>1, <1>2, <1>3, <1>4, SMT
<1> QED
  BY <1>1, <1>5, <1>6, <1>7, <1>8, <1>9

LEMMA AdoptedMeans ==
    ASSUME UnitInv, NEW f \in Field
    PROVE  Adopted(f) <=> busUnit.rev # None /\ (reg.movedAt[f] = None \/ reg.movedAt[f] <= busUnit.rev)
<1>1. CASE busUnit.rev # None /\ reg.movedAt[f] # None
  <2>1. busUnit.rev \in 0 .. Top - 1 /\ reg.movedAt[f] \in 0 .. Top - 1
    BY <1>1, Bounds
  <2>2. IsNewer(reg.movedAt[f], busUnit.rev) <=> reg.movedAt[f] > busUnit.rev
    BY <2>1, NewerIsGreater
  <2>3. reg.movedAt[f] > busUnit.rev <=> ~(reg.movedAt[f] <= busUnit.rev)
    BY <2>1, SMT
  <2> QED
    BY <1>1, <2>2, <2>3 DEF Adopted
<1>2. CASE ~(busUnit.rev # None /\ reg.movedAt[f] # None)
  BY <1>2 DEF Adopted
<1> QED
  BY <1>1, <1>2

\* hydrate_dali_settings_inner, field by field.
LEMMA HydratedRow ==
    ASSUME NEW row \in SettingsRow, row.rev \in 0 .. Top - 1, NEW stored \in Nvm
    PROVE  LET h == Hydrated(row, stored)
           IN  /\ h \in SettingsRow /\ h.nvm = stored /\ h.rev = row.rev + 1 /\ h.ack = row.ack
               /\ h.applied = row.applied /\ h.movedAt = row.movedAt
<1>1. Inc(row.rev) = row.rev + 1 /\ Inc(row.rev) \in Rev
  BY IncBelow
<1> QED
  BY <1>1 DEF Hydrated, SettingsRow

LEMMA DefaultRowShape ==
    /\ DefaultRow \in SettingsRow /\ DefaultRow.rev = 0 /\ DefaultRow.ack = 0
    /\ DefaultRow.applied = None /\ DefaultRow.nvm \in Nvm
    /\ \A f \in Field : DefaultRow.movedAt[f] = None
<1>1. 0 \in Rev
  BY TopFacts, SMT DEF Rev
<1>2. [f \in Field |-> Factory] \in Nvm
  BY ValueAssumption DEF Nvm
<1> QED
  BY <1>1, <1>2 DEF DefaultRow, SettingsRow

\* Boot: one copy, nothing on its way, nothing adopted.
LEMMA UnitInitHolds == UnitInit => UnitInv
<1> SUFFICES ASSUME UnitInit PROVE UnitInv
  OBVIOUS
<1>1. PICK stored \in Nvm, readFails \in BOOLEAN :
        /\ reg = IF readFails THEN DefaultRow ELSE Hydrated(DefaultRow, stored)
        /\ unread = IF readFails THEN stored ELSE None
        /\ cell = Snapshot(reg)
        /\ busUnit = [nvm |-> [f \in Field |-> Factory], rev |-> None, seq |-> 0]
        /\ adopted = None /\ unacked = None
        /\ ring = <<>> /\ queue = <<>>
        /\ rightful = reg.nvm
        /\ patches = 0 /\ wires = 0 /\ unitLosses = 0
  BY DEF UnitInit
<1>2. /\ reg \in SettingsRow /\ reg.ack = 0 /\ reg.applied = None
      /\ \A f \in Field : reg.movedAt[f] = None
      /\ reg.rev = IF readFails THEN 0 ELSE 1
  BY <1>1, DefaultRowShape, HydratedRow, TopFacts, SMT
<1>3. 0 \in Rev /\ [f \in Field |-> Factory] \in Nvm /\ None \notin Nvm /\ None \notin Rev
  BY TopFacts, ValueAssumption, SMT DEF Nvm, Rev
<1>4. reg.nvm \in Nvm /\ reg.rev \in Rev
  BY <1>2 DEF SettingsRow
<1>5. UnitTypeOK
  <2>1. cell \in [nvm : Nvm, rev : Rev, ack : Rev]
    BY <1>1, <1>2, <1>3, <1>4 DEF Snapshot
  <2>2. rightful \in [Field -> Val \cup {Untracked}]
    BY <1>1, <1>4 DEF Nvm
  <2> QED
    BY <1>1, <1>2, <1>3, <2>1, <2>2, RoomAssumption, SMT DEF UnitTypeOK
<1>6. NumberInv
  BY <1>1, <1>2, <1>3, SMT DEF NumberInv
<1>7. ReportInv
  BY <1>1, <1>2, SMT DEF ReportInv
<1>8. CopyInv
  <2>1. \A f \in Field : ~Adopted(f)
    BY <1>1 DEF Adopted
  <2>2. busUnit.rev = None /\ reg.rev # None
    BY <1>1, <1>3, <1>4
  <2> QED
    BY <1>1, <2>1, <2>2 DEF CopyInv
<1> QED
  BY <1>1, <1>5, <1>6, <1>7, <1>8, SMT DEF UnitInv

-----------------------------------------------------------------------------
\* apply_patch, field by field.
LEMMA PatchedRow ==
    ASSUME NEW row \in SettingsRow, row.rev \in 0 .. Top - 1,
           NEW fields \in SUBSET Field, NEW patch \in [fields -> Val]
    PROVE  LET p == Patched(row, patch)
           IN  /\ p \in SettingsRow /\ p.ack = row.ack /\ p.applied = row.applied
               /\ p.rev \in {row.rev, row.rev + 1}
               /\ p.rev = row.rev => p.nvm = row.nvm
               /\ \A f \in Field :
                     IF p.nvm[f] # row.nvm[f]
                     THEN p.rev = row.rev + 1 /\ p.movedAt[f] = p.rev
                     ELSE p.movedAt[f] = row.movedAt[f]
<1> DEFINE kept == [f \in Field |-> IF f \in DOMAIN patch THEN patch[f] ELSE row.nvm[f]]
           moved == {f \in Field : kept[f] # row.nvm[f]}
           rev == IF moved = {} THEN row.rev ELSE Inc(row.rev)
           movedAt == [f \in Field |-> IF f \in moved THEN rev ELSE row.movedAt[f]]
           p == Patched(row, patch)
<1>1. kept \in Nvm /\ row.nvm \in Nvm
  BY DEF Nvm, SettingsRow
<1>2. rev \in Rev /\ rev = IF moved = {} THEN row.rev ELSE row.rev + 1
  BY IncBelow DEF SettingsRow
<1>3. movedAt \in [Field -> Rev \cup {None}]
  BY <1>2 DEF SettingsRow
<1>4. p = [row EXCEPT !.nvm = kept, !.rev = rev, !.movedAt = movedAt]
  BY DEF Patched
<1> HIDE DEF kept, rev, movedAt, p
<1>5. /\ p \in SettingsRow /\ p.nvm = kept /\ p.rev = rev /\ p.movedAt = movedAt
      /\ p.ack = row.ack /\ p.applied = row.applied
  BY <1>1, <1>2, <1>3, <1>4 DEF SettingsRow
<1>6. moved = {} => kept = row.nvm
  BY <1>1, SMT DEF Nvm
<1>7. row.rev \in Nat /\ row.rev + 1 # row.rev
  BY TopFacts, SMT
<1>8. \A f \in Field : movedAt[f] = IF kept[f] # row.nvm[f] THEN rev ELSE row.movedAt[f]
  BY DEF movedAt
<1> HIDE DEF moved
<1>9. \A f \in Field : kept[f] # row.nvm[f] => moved # {}
  BY DEF moved
<1> QED
  BY <1>2, <1>5, <1>6, <1>7, <1>8, <1>9 DEF p

LEMMA SnapshotType ==
    ASSUME NEW row \in SettingsRow PROVE Snapshot(row) \in [nvm : Nvm, rev : Rev, ack : Rev]
  BY DEF Snapshot, SettingsRow

LEMMA OperatorPatchStep == UnitInv /\ OperatorPatch => UnitInv'
<1> SUFFICES ASSUME UnitInv, OperatorPatch PROVE UnitInv'
  OBVIOUS
<1>0. PICK fields \in SUBSET Field : \E patch \in [fields -> Val] :
        /\ reg' = Patched(reg, patch) /\ cell' = Snapshot(reg')
        /\ rightful' = [f \in Field |-> IF reg'.nvm[f] # reg.nvm[f] THEN reg'.nvm[f] ELSE rightful[f]]
  BY DEF OperatorPatch
<1>1. PICK patch \in [fields -> Val] :
        /\ reg' = Patched(reg, patch) /\ cell' = Snapshot(reg')
        /\ rightful' = [f \in Field |-> IF reg'.nvm[f] # reg.nvm[f] THEN reg'.nvm[f] ELSE rightful[f]]
  BY <1>0
<1>2. /\ patches < MaxPatch /\ patches' = patches + 1
      /\ UNCHANGED <<busUnit, adopted, unacked, ring, queue, unread, wires, unitLosses>>
  BY DEF OperatorPatch
<1>3. /\ reg \in SettingsRow /\ reg.rev \in 0 .. Top - 1 /\ patches \in 0 .. MaxPatch /\ MaxPatch \in Nat
      /\ rightful \in [Field -> Val \cup {Untracked}] /\ reg.ack \in Nat /\ reg.rev \in Nat
  BY Bounds, RoomAssumption, SMT DEF UnitInv, UnitTypeOK
<1>4. /\ reg' \in SettingsRow /\ reg'.ack = reg.ack /\ reg'.applied = reg.applied
      /\ reg'.rev \in {reg.rev, reg.rev + 1}
      /\ reg'.rev = reg.rev => reg'.nvm = reg.nvm
      /\ \A f \in Field : IF reg'.nvm[f] # reg.nvm[f]
                          THEN reg'.rev = reg.rev + 1 /\ reg'.movedAt[f] = reg'.rev
                          ELSE reg'.movedAt[f] = reg.movedAt[f]
  BY <1>1, <1>3, PatchedRow
<1>5. UnitTypeOK'
  <2>1. rightful' \in [Field -> Val \cup {Untracked}]
    BY <1>1, <1>3, <1>4 DEF SettingsRow, Nvm
  <2>2. patches' \in 0 .. MaxPatch
    BY <1>2, <1>3, SMT
  <2> QED
    BY <1>1, <1>2, <1>4, <2>1, <2>2, SnapshotType DEF UnitInv, UnitTypeOK
<1>6. NumberInv'
  <2>1. reg'.rev <= patches' + reg'.ack + IF unread' = None THEN 1 ELSE 0
    <3>1. reg.rev <= patches + reg.ack + IF unread = None THEN 1 ELSE 0
      BY DEF UnitInv, NumberInv
    <3> QED
      BY <1>2, <1>3, <1>4, <3>1, SMT
  <2>2. busUnit.rev # None => busUnit.rev <= reg.rev /\ busUnit.rev <= reg'.rev
    BY <1>3, <1>4, Bounds, SMT DEF UnitInv, NumberInv
  <2>3. \A f \in Field : reg'.movedAt[f] # None => reg'.movedAt[f] <= reg'.rev
    <3> SUFFICES ASSUME NEW f \in Field, reg'.movedAt[f] # None PROVE reg'.movedAt[f] <= reg'.rev
      OBVIOUS
    <3>1. reg'.rev \in Nat /\ reg.rev <= reg'.rev
      BY <1>3, <1>4, SMT
    <3>2. reg'.movedAt[f] = reg'.rev \/ reg'.movedAt[f] = reg.movedAt[f]
      BY <1>4
    <3>3. reg'.movedAt[f] = reg.movedAt[f] => reg.movedAt[f] \in 0 .. Top - 1 /\ reg.movedAt[f] <= reg.rev
      BY Bounds DEF UnitInv, NumberInv
    <3> QED
      BY <1>3, <3>1, <3>2, <3>3, SMT
  <2> QED
    BY <1>2, <1>4, <2>1, <2>2, <2>3 DEF UnitInv, NumberInv
<1>7. ReportInv'
  BY <1>1, <1>2, <1>4 DEF UnitInv, ReportInv, Report
<1>8. UnitInv' \/ ~CopyInv'
  BY <1>2, <1>5, <1>6, <1>7 DEF UnitInv
<1>9. CopyInv'
  <2>1. Base' = Base
    BY <1>2, <1>4 DEF Base
  <2>2. busUnit.rev # None => busUnit.rev \in 0 .. Top - 1 /\ busUnit.rev <= reg.rev
    BY Bounds DEF UnitInv, NumberInv
  <2>3. busUnit'.rev = reg'.rev => Base' = adopted' /\ reg'.nvm = adopted'
    <3> SUFFICES ASSUME busUnit.rev = reg'.rev PROVE Base = adopted /\ reg'.nvm = adopted
      BY <1>2, <2>1
    <3>1. busUnit.rev # None
      BY <1>3, <1>4, ValueAssumption, SMT DEF SettingsRow
    <3>2. reg'.rev = reg.rev
      BY <1>3, <1>4, <2>2, <3>1, SMT
    <3> QED
      BY <1>4, <3>2 DEF UnitInv, CopyInv
  <2>4. ASSUME NEW f \in Field, rightful'[f] # Untracked
        PROVE  IF Adopted(f)' THEN reg'.nvm[f] = Base'[f] /\ Becomes(f, rightful[f])' ELSE reg'.nvm[f] = rightful'[f]
    <3>1. CASE reg'.nvm[f] # reg.nvm[f]
      <4>1. reg'.movedAt[f] = reg.rev + 1 /\ rightful'[f] = reg'.nvm[f]
        BY <1>1, <1>4, <3>1
      <4>2. ~Adopted(f)'
        <5>0. reg.rev # Top - 1
          BY <1>2, <1>3, Bounds, SMT
        <5>1. busUnit'.rev = busUnit.rev /\ reg.rev + 1 \in 0 .. Top - 1
          BY <1>2, <1>3, <5>0, TopFacts, SMT
        <5>2. reg.rev + 1 # None
          BY <5>1, TopFacts, ValueAssumption, SMT DEF Rev
        <5>3. busUnit.rev # None => IsNewer(reg.rev + 1, busUnit.rev)
          BY <1>3, <2>2, <5>1, NewerIsGreater, SMT
        <5> QED
          BY <4>1, <5>1, <5>2, <5>3 DEF Adopted
      <4> QED
        BY <4>1, <4>2
    <3>2. CASE reg'.nvm[f] = reg.nvm[f]
      <4>1. reg'.movedAt[f] = reg.movedAt[f] /\ rightful'[f] = rightful[f]
        BY <1>1, <1>4, <3>2
      <4>2. Adopted(f)' <=> Adopted(f)
        BY <1>2, <4>1 DEF Adopted
      <4>3. Becomes(f, rightful[f])' <=> Becomes(f, rightful[f])
        BY <1>2, <4>1 DEF Becomes
      <4> QED
        BY <2>1, <2>4, <3>2, <4>1, <4>2, <4>3 DEF UnitInv, CopyInv
    <3> QED
      BY <3>1, <3>2
  <2> QED
    BY <1>2, <1>4, <2>1, <2>3, <2>4 DEF UnitInv, CopyInv
<1> QED
  BY <1>8, <1>9

\* The late read of the slice: a new revision, and no field is tracked.
LEMMA RereadSliceStep == UnitInv /\ RereadSlice => UnitInv'
<1> SUFFICES ASSUME UnitInv, RereadSlice PROVE UnitInv'
  OBVIOUS
<1>1. /\ unread # None /\ unread' = None /\ reg' = Hydrated(reg, unread) /\ cell' = Snapshot(reg')
      /\ rightful' = [f \in Field |-> Untracked]
      /\ UNCHANGED <<busUnit, adopted, unacked, ring, queue, patches, wires, unitLosses>>
  BY DEF RereadSlice
<1>2. /\ reg \in SettingsRow /\ reg.rev \in 0 .. Top - 1 /\ unread \in Nvm /\ reg.rev \in Nat
      /\ reg.ack \in Nat /\ patches \in Nat
  BY <1>1, Bounds, SMT DEF UnitInv, UnitTypeOK
<1>3. /\ reg' \in SettingsRow /\ reg'.rev = reg.rev + 1 /\ reg'.ack = reg.ack
      /\ reg'.applied = reg.applied /\ reg'.movedAt = reg.movedAt
  BY <1>1, <1>2, HydratedRow
<1>4. UnitTypeOK'
  BY <1>1, <1>3, SnapshotType DEF UnitInv, UnitTypeOK
<1>5. NumberInv'
  <2>1. reg'.rev <= patches' + reg'.ack + 1
    <3>1. reg.rev <= patches + reg.ack
      BY <1>1, <1>2, SMT DEF UnitInv, NumberInv
    <3>2. /\ reg'.rev = reg.rev + 1 /\ reg'.ack = reg.ack /\ patches' = patches
          /\ reg.rev \in Nat /\ reg.ack \in Nat /\ patches \in Nat
      BY <1>1, <1>2, <1>3
    <3> QED
      BY <3>1, <3>2, SMTT(20)
  <2>2. busUnit.rev # None => busUnit.rev <= reg'.rev /\ busUnit.rev # reg'.rev
    <3>1. busUnit.rev # None => busUnit.rev \in 0 .. Top - 1 /\ busUnit.rev <= reg.rev
      BY Bounds DEF UnitInv, NumberInv
    <3> QED
      BY <1>2, <1>3, <3>1, SMT
  <2>3. ASSUME NEW f \in Field, reg.movedAt[f] # None PROVE reg.movedAt[f] <= reg'.rev
    <3>1. reg.movedAt[f] \in 0 .. Top - 1 /\ reg.movedAt[f] <= reg.rev
      BY <2>3, Bounds DEF UnitInv, NumberInv
    <3> QED
      BY <1>2, <1>3, <3>1, SMT
  <2> QED
    BY <1>1, <1>3, <2>1, <2>2, <2>3 DEF UnitInv, NumberInv
<1>6. ReportInv'
  BY <1>1, <1>3 DEF UnitInv, ReportInv, Report
<1>7. CopyInv'
  <2>1. Base' = Base
    BY <1>1, <1>3 DEF Base
  <2>2. busUnit.rev # reg'.rev
    <3>1. busUnit.rev # None => busUnit.rev \in 0 .. Top - 1 /\ busUnit.rev <= reg.rev
      BY Bounds DEF UnitInv, NumberInv
    <3>2. reg'.rev # None
      BY <1>3, ValueAssumption DEF SettingsRow
    <3> QED
      BY <1>2, <1>3, <3>1, <3>2, SMT
  <2> QED
    BY <1>1, <1>3, <2>1, <2>2 DEF UnitInv, CopyInv
<1> QED
  BY <1>1, <1>4, <1>5, <1>6, <1>7 DEF UnitInv

\* A captured command is rightful when the unit has adopted the field.
LEMMA CaptureStep == UnitInv /\ Capture => UnitInv'
<1> SUFFICES ASSUME UnitInv, Capture PROVE UnitInv'
  OBVIOUS
<1>1. PICK g \in Field, v \in Val :
        /\ ring' = Append(ring, [field |-> g, val |-> v])
        /\ rightful' = IF rightful[g] # Untracked /\ Adopted(g)
                       THEN [rightful EXCEPT ![g] = v] ELSE rightful
  BY DEF Capture
<1>2. /\ wires < MaxWire /\ wires' = wires + 1
      /\ UNCHANGED <<reg, cell, busUnit, adopted, unacked, queue, unread, patches, unitLosses>>
  BY DEF Capture
<1> DEFINE e == [field |-> g, val |-> v]
<1>3. e \in Captured /\ e.field = g /\ e.val = v /\ ring \in Seq(Captured)
  BY DEF Captured, UnitInv
<1> HIDE DEF e
<1>4. /\ ring' \in Seq(Captured) /\ Len(ring') = Len(ring) + 1 /\ Len(ring) \in Nat
      /\ DOMAIN ring = 1 .. Len(ring) /\ DOMAIN ring' = 1 .. Len(ring) + 1
      /\ \A i \in 1 .. Len(ring) : ring'[i] = ring[i]
      /\ ring'[Len(ring) + 1] = e
  BY <1>1, <1>3, SMT DEF e
<1>5. UnitTypeOK'
  <2>1. rightful' \in [Field -> Val \cup {Untracked}]
    BY <1>1 DEF UnitInv, UnitTypeOK
  <2>2. wires' \in 0 .. MaxWire
    BY <1>2, RoomAssumption, SMT DEF UnitInv, UnitTypeOK
  <2>3. \A i \in DOMAIN ring' : ring'[i] \in [field : Field, val : Val]
    <3>1. \A i \in DOMAIN ring' : ring'[i] \in Captured
      BY <1>4, SMT
    <3> QED
      BY <3>1 DEF Captured
  <2> QED
    BY <1>2, <2>1, <2>2, <2>3 DEF UnitInv, UnitTypeOK
<1>6. NumberInv'
  <2>1. busUnit'.seq + Len(ring') <= wires'
    <3>1. busUnit.seq + Len(ring) <= wires /\ busUnit.seq \in Nat /\ wires \in Nat
      BY Bounds, SMT DEF UnitInv, NumberInv, UnitTypeOK
    <3> QED
      BY <1>2, <1>4, <3>1, SMTT(20)
  <2> QED
    BY <1>2, <2>1 DEF UnitInv, NumberInv
<1>7. ReportInv'
  BY <1>2 DEF UnitInv, ReportInv, Report, Snapshot
<1>8. CopyInv'
  <2>1. Base' = Base /\ \A f \in Field : Adopted(f)' <=> Adopted(f)
    BY <1>2 DEF Base, Adopted
  <2>2. ASSUME NEW f \in Field, rightful'[f] # Untracked
        PROVE  IF Adopted(f)' THEN reg'.nvm[f] = Base'[f] /\ Becomes(f, rightful[f])'
                              ELSE reg'.nvm[f] = rightful'[f]
    <3>0. rightful \in [Field -> Val \cup {Untracked}]
      BY DEF UnitInv, UnitTypeOK
    <3>1. CASE ~Adopted(f)
      <4>1. rightful'[f] = rightful[f]
        BY <1>1, <3>0, <3>1
      <4> QED
        BY <1>2, <2>1, <2>2, <3>1, <4>1 DEF UnitInv, CopyInv
    <3>2. CASE Adopted(f) /\ f = g
      <4>1. rightful[f] # Untracked
        BY <1>1, <2>2, <3>2
      <4>2. rightful'[f] = v
        BY <1>1, <3>0, <3>2, <4>1
      <4>3. Becomes(f, rightful[f])'
        <5>1. Len(ring) + 1 \in DOMAIN ring' /\ \A j \in DOMAIN ring' : ~(j > Len(ring) + 1)
          BY <1>4, SMT
        <5> QED
          BY <1>3, <1>4, <3>2, <4>2, <5>1 DEF Becomes
      <4> QED
        BY <1>2, <2>1, <3>2, <4>1, <4>3 DEF UnitInv, CopyInv
    <3>3. CASE Adopted(f) /\ f # g
      <4>1. rightful'[f] = rightful[f]
        BY <1>1, <3>0, <3>3
      <4>2. Becomes(f, rightful[f]) /\ reg.nvm[f] = Base[f]
        BY <2>2, <3>3, <4>1 DEF UnitInv, CopyInv
      <4>3. \A j \in DOMAIN ring' : (j \in DOMAIN ring /\ ring'[j] = ring[j]) \/ ring'[j].field # f
        BY <1>3, <1>4, <3>3, SMT
      <4>4. \A j \in DOMAIN ring : j \in DOMAIN ring' /\ ring'[j] = ring[j]
        BY <1>4, SMT
      <4>5. Becomes(f, rightful[f])'
        BY <1>2, <4>1, <4>2, <4>3, <4>4 DEF Becomes
      <4> QED
        BY <1>2, <2>1, <3>3, <4>2, <4>5
    <3> QED
      BY <3>1, <3>2, <3>3
  <2> QED
    BY <1>2, <2>1, <2>2 DEF UnitInv, CopyInv
<1> QED
  BY <1>2, <1>4, <1>5, <1>6, <1>7, <1>8 DEF UnitInv

\* A report put on the queue by try_send, or refused by a full one.
LEMMA SentQueue ==
    ASSUME NEW report \in Evidence, queue \in Seq(Evidence), Len(queue) <= QueueCap
    PROVE  /\ Sent(report) \in Seq(Evidence) /\ Len(Sent(report)) <= QueueCap
           /\ \A i \in DOMAIN Sent(report) :
                 (i \in DOMAIN queue /\ Sent(report)[i] = queue[i]) \/ Sent(report)[i] = report
<1>1. CASE Len(queue) < QueueCap
  <2>1. Sent(report) = Append(queue, report)
    BY <1>1 DEF Sent
  <2> DEFINE q == Append(queue, report)
  <2>2. /\ q \in Seq(Evidence) /\ Len(q) = Len(queue) + 1 /\ Len(queue) \in Nat
        /\ DOMAIN q = 1 .. Len(queue) + 1 /\ DOMAIN queue = 1 .. Len(queue)
        /\ \A i \in 1 .. Len(queue) : q[i] = queue[i]
        /\ q[Len(queue) + 1] = report
    BY SMT
  <2> HIDE DEF q
  <2>3. Len(q) <= QueueCap
    BY <1>1, <2>2, RoomAssumption, SMT
  <2>4. \A i \in DOMAIN q : (i \in DOMAIN queue /\ q[i] = queue[i]) \/ q[i] = report
    BY <2>2, SMT
  <2> QED
    BY <2>1, <2>2, <2>3, <2>4 DEF q
<1>2. CASE ~(Len(queue) < QueueCap)
  BY <1>2 DEF Sent
<1> QED
  BY <1>1, <1>2

\* The ring without its head.
LEMMA RingTail ==
    ASSUME ring \in Seq(Captured), ring # <<>>
    PROVE  /\ Tail(ring) \in Seq(Captured) /\ Head(ring) \in Captured /\ Head(ring) = ring[1]
           /\ Len(Tail(ring)) = Len(ring) - 1 /\ Len(ring) \in Nat /\ 1 \in DOMAIN ring
           /\ \A i \in DOMAIN Tail(ring) : i \in Nat /\ i + 1 \in DOMAIN ring /\ Tail(ring)[i] = ring[i + 1]
           /\ \A i \in DOMAIN ring : i \in Nat
           /\ \A i \in DOMAIN ring : i # 1 => i - 1 \in DOMAIN Tail(ring) /\ Tail(ring)[i - 1] = ring[i]
<1> DEFINE t == Tail(ring)
<1>1. /\ t \in Seq(Captured) /\ Head(ring) \in Captured /\ Head(ring) = ring[1] /\ Len(t) = Len(ring) - 1
      /\ Len(ring) \in Nat \ {0} /\ DOMAIN ring = 1 .. Len(ring) /\ DOMAIN t = 1 .. Len(t)
      /\ \A i \in 1 .. Len(t) : t[i] = ring[i + 1]
  BY SMT
<1> HIDE DEF t
<1>2. \A i \in DOMAIN t : i \in Nat /\ i + 1 \in DOMAIN ring /\ t[i] = ring[i + 1]
  BY <1>1, SMT
<1>3. \A i \in DOMAIN ring : i \in Nat /\ (i # 1 => i - 1 \in DOMAIN t /\ t[i - 1] = ring[i])
  BY <1>1, SMT
<1>4. 1 \in DOMAIN ring /\ Len(ring) \in Nat
  BY <1>1, SMT
<1> QED
  BY <1>1, <1>2, <1>3, <1>4 DEF t

\* feed: what the ring leaves in a field stays the same when its head is drained.
LEMMA BecomesTail ==
    ASSUME ring \in Seq(Captured), ring # <<>>, ring' = Tail(ring), busUnit.nvm \in Nvm,
           busUnit'.nvm = [busUnit.nvm EXCEPT ![Head(ring).field] = Head(ring).val],
           NEW f \in Field, NEW v, Becomes(f, v)
    PROVE  Becomes(f, v)'
<1>1. /\ Head(ring) = ring[1] /\ 1 \in DOMAIN ring
      /\ \A i \in DOMAIN ring' : i \in Nat /\ i + 1 \in DOMAIN ring /\ ring'[i] = ring[i + 1]
      /\ \A i \in DOMAIN ring : i \in Nat
      /\ \A i \in DOMAIN ring : i # 1 => i - 1 \in DOMAIN ring' /\ ring'[i - 1] = ring[i]
  BY RingTail
<1>2. busUnit'.nvm[f] = IF ring[1].field = f THEN ring[1].val ELSE busUnit.nvm[f]
  BY <1>1, SMT DEF Nvm
<1>3. CASE v = busUnit.nvm[f] /\ \A i \in DOMAIN ring : ring[i].field # f
  BY <1>1, <1>2, <1>3, SMT DEF Becomes
<1>4. ASSUME NEW i \in DOMAIN ring, ring[i].field = f, ring[i].val = v,
             \A j \in DOMAIN ring : j > i => ring[j].field # f
      PROVE  Becomes(f, v)'
  <2>1. CASE i = 1
    <3>1. \A j \in DOMAIN ring' : ring'[j].field # f
      <4> SUFFICES ASSUME NEW j \in DOMAIN ring' PROVE ring'[j].field # f
        OBVIOUS
      <4>1. j + 1 \in DOMAIN ring /\ ring'[j] = ring[j + 1] /\ j \in Nat /\ j # 0
        <5>1. j # 0
          BY RingTail, SMT
        <5> QED
          BY <1>1, <5>1
      <4>2. j + 1 > i
        BY <2>1, <4>1, SMT
      <4> QED
        BY <1>4, <4>1, <4>2
    <3> QED
      BY <1>2, <1>4, <2>1, <3>1 DEF Becomes
  <2>2. CASE i # 1
    <3>1. i - 1 \in DOMAIN ring' /\ ring'[i - 1] = ring[i] /\ i \in Nat
      BY <1>1, <2>2
    <3>2. \A j \in DOMAIN ring' : j > i - 1 => ring'[j].field # f
      <4> SUFFICES ASSUME NEW j \in DOMAIN ring', j > i - 1 PROVE ring'[j].field # f
        OBVIOUS
      <4>1. j \in Nat /\ j + 1 \in DOMAIN ring /\ ring'[j] = ring[j + 1]
        BY <1>1
      <4>2. j + 1 > i
        BY <3>1, <4>1, SMT
      <4> QED
        BY <1>4, <4>1, <4>2
    <3> QED
      BY <1>4, <3>1, <3>2 DEF Becomes
  <2> QED
    BY <2>1, <2>2
<1> QED
  BY <1>3, <1>4 DEF Becomes

\* A drained command: dropped, without effect, or a wire change with its report.
LEMMA DrainStep == UnitInv /\ Drain => UnitInv'
<1> SUFFICES ASSUME UnitInv, Drain PROVE UnitInv'
  OBVIOUS
<1> DEFINE kept == [busUnit.nvm EXCEPT ![Head(ring).field] = Head(ring).val]
           report == Report(kept, Inc(busUnit.seq))
<1>1. /\ ring # <<>> /\ ring' = Tail(ring)
      /\ UNCHANGED <<reg, cell, adopted, unread, rightful, patches, wires, unitLosses>>
  BY DEF Drain
<1>2. /\ ring \in Seq(Captured) /\ queue \in Seq(Evidence) /\ Len(queue) <= QueueCap
      /\ busUnit \in [nvm : Nvm, rev : Rev \cup {None}, seq : Rev] /\ busUnit.nvm \in Nvm
  BY DEF UnitInv, UnitTypeOK
<1>3. /\ ring' \in Seq(Captured) /\ Head(ring) \in Captured /\ Len(ring') = Len(ring) - 1 /\ Len(ring) \in Nat
  BY <1>1, <1>2, RingTail
<1>4. kept \in Nvm
  BY <1>2, <1>3 DEF Nvm, Captured
<1>5. Inc(busUnit.seq) = busUnit.seq + 1 /\ Inc(busUnit.seq) \in Rev /\ busUnit.seq \in Nat
      /\ reg.ack \in Nat /\ reg.ack <= busUnit.seq /\ wires \in Nat
  <2>1. busUnit.seq \in 0 .. Top - 1 /\ reg.ack \in Nat
    BY Bounds, TopFacts, SMT
  <2> QED
    BY <2>1, IncBelow, SMT DEF UnitInv, NumberInv, UnitTypeOK
<1>6. \A i \in DOMAIN ring' : ring'[i] \in [field : Field, val : Val]
  <2>1. \A i \in DOMAIN ring' : ring'[i] \in Captured
    BY <1>3, SMT
  <2> QED
    BY <2>1 DEF Captured
<1> HIDE DEF kept
<1>7. CASE busUnit.rev = None \/ kept = busUnit.nvm
  <2>1. UNCHANGED <<busUnit, unacked, queue>>
    BY <1>7 DEF Drain, kept
  <2>2. UnitTypeOK'
    BY <1>1, <1>6, <2>1 DEF UnitInv, UnitTypeOK
  <2>3. NumberInv'
    <3>1. busUnit.seq + Len(ring') <= wires
      BY <1>3, <1>5, SMT DEF UnitInv, NumberInv
    <3> QED
      BY <1>1, <2>1, <3>1 DEF UnitInv, NumberInv
  <2>4. ReportInv'
    BY <1>1, <2>1 DEF UnitInv, ReportInv, Report, Snapshot
  <2>5. CopyInv'
    <3>1. Base' = Base /\ \A f \in Field : Adopted(f)' <=> Adopted(f)
      BY <1>1, <2>1 DEF Base, Adopted
    <3>2. ASSUME NEW f \in Field, rightful[f] # Untracked, Adopted(f) PROVE Becomes(f, rightful[f])'
      <4>1. busUnit'.nvm = kept /\ Becomes(f, rightful[f])
        BY <1>7, <2>1, <3>2 DEF UnitInv, CopyInv, Adopted
      <4>2. Becomes(f, rightful[f]) /\ rightful' = rightful
        BY <1>1, <4>1
      <4> QED
        BY <1>1, <1>2, <4>1, <4>2, BecomesTail DEF kept
    <3> QED
      BY <1>1, <2>1, <3>1, <3>2 DEF UnitInv, CopyInv
  <2> QED
    BY <1>3, <1>2, <2>1, <2>2, <2>3, <2>4, <2>5 DEF UnitInv
<1>8. CASE busUnit.rev # None /\ kept # busUnit.nvm
  <2>1. /\ busUnit' = [busUnit EXCEPT !.nvm = kept, !.seq = Inc(@)]
        /\ unacked' = report /\ queue' = Sent(report)
    BY <1>8 DEF Drain, kept
  <2>2. /\ busUnit' \in [nvm : Nvm, rev : Rev \cup {None}, seq : Rev]
        /\ busUnit'.nvm = kept /\ busUnit'.rev = busUnit.rev /\ busUnit'.seq = busUnit.seq + 1
    BY <1>2, <1>4, <1>5, <2>1
  <2>3. /\ report \in Evidence /\ report.seq = busUnit.seq + 1 /\ report.rev = busUnit.rev
        /\ report.adopted = adopted /\ report.observed = kept
    BY <1>2, <1>4, <1>5, <1>8 DEF Report, Evidence, UnitInv, ReportInv
  <2>4. report = Report(busUnit.nvm, busUnit.seq)'
    BY <1>1, <1>5, <2>2 DEF Report
  <2> HIDE DEF report
  <2>5. /\ queue' \in Seq(Evidence) /\ Len(queue') <= QueueCap
        /\ \A i \in DOMAIN queue' : (i \in DOMAIN queue /\ queue'[i] = queue[i]) \/ queue'[i] = report
    BY <1>2, <2>1, <2>3, SentQueue
  <2>6. UnitTypeOK'
    BY <1>1, <1>6, <2>1, <2>2, <2>3, <2>5 DEF UnitInv, UnitTypeOK
  <2>7. NumberInv'
    <3>1. busUnit'.seq + Len(ring') <= wires /\ reg.ack <= busUnit'.seq
      BY <1>3, <1>5, <2>2, SMTT(20) DEF UnitInv, NumberInv
    <3> QED
      BY <1>1, <1>8, <2>2, <3>1 DEF UnitInv, NumberInv
  <2>8. ReportInv'
    <3>1. ASSUME NEW i \in DOMAIN queue'
          PROVE  /\ queue'[i].seq <= busUnit'.seq
                 /\ queue'[i].seq > reg.ack => queue'[i].rev = busUnit'.rev /\ queue'[i].adopted = adopted
                 /\ queue'[i].seq > reg.ack /\ queue'[i].seq = busUnit'.seq => queue'[i].observed = busUnit'.nvm
      <4>1. CASE i \in DOMAIN queue /\ queue'[i] = queue[i]
        <5>1. /\ queue[i].seq <= busUnit.seq /\ queue[i].seq \in 0 .. Top - 1
              /\ queue[i].seq > reg.ack => queue[i].rev = busUnit.rev /\ queue[i].adopted = adopted
          BY <4>1, Bounds DEF UnitInv, ReportInv
        <5>2. queue[i].seq <= busUnit'.seq /\ queue[i].seq # busUnit'.seq
          BY <1>5, <2>2, <5>1, SMT
        <5> QED
          BY <2>2, <4>1, <5>1, <5>2
      <4>2. CASE queue'[i] = report
        BY <1>5, <2>2, <2>3, <4>2, SMT
      <4> QED
        BY <2>5, <4>1, <4>2
    <3>2. report # None
      BY <2>3, ValueAssumption
    <3> QED
      BY <1>1, <1>8, <2>1, <2>2, <2>4, <3>1, <3>2, SMT DEF UnitInv, ReportInv, Snapshot
  <2>9. CopyInv'
    <3>1. Base' = Base /\ \A f \in Field : Adopted(f)' <=> Adopted(f)
      BY <1>1, <2>2 DEF Base, Adopted
    <3>2. reg.ack # busUnit'.seq
      BY <1>5, <2>2, SMT
    <3>3. ASSUME NEW f \in Field, rightful[f] # Untracked, Adopted(f) PROVE Becomes(f, rightful[f])'
      <4>1. Becomes(f, rightful[f]) /\ rightful' = rightful
        BY <1>1, <3>3 DEF UnitInv, CopyInv
      <4> QED
        BY <1>1, <1>2, <2>2, <4>1, BecomesTail DEF kept
    <3> QED
      BY <1>1, <2>2, <3>1, <3>2, <3>3 DEF UnitInv, CopyInv
  <2> QED
    BY <1>3, <2>5, <2>6, <2>7, <2>8, <2>9 DEF UnitInv
<1> QED
  BY <1>7, <1>8

\* The queue after a step that only moves reports: what it held, or the report
\* still unacknowledged sent again.
QueueMoved ==
    /\ queue' \in Seq(Evidence) /\ Len(queue') <= QueueCap
    /\ \A i \in DOMAIN queue' :
          (\E j \in DOMAIN queue : queue'[i] = queue[j]) \/ (unacked' # None /\ queue'[i] = unacked')

LEMMA QueueMoves ==
    ASSUME UnitInv, QueueMoved, unitLosses' \in 0 .. MaxLoss,
           unacked' = unacked \/ (unacked' = None /\ reg.ack = busUnit.seq),
           UNCHANGED <<reg, cell, busUnit, adopted, ring, unread, rightful, patches, wires>>
    PROVE  UnitInv'
<1>1. UnitTypeOK'
  BY DEF UnitInv, UnitTypeOK, QueueMoved
<1>2. NumberInv'
  BY DEF UnitInv, NumberInv
<1>3. ReportInv'
  <2>1. ASSUME NEW i \in DOMAIN queue'
        PROVE  /\ queue'[i].seq <= busUnit.seq
               /\ queue'[i].seq > reg.ack => queue'[i].rev = busUnit.rev /\ queue'[i].adopted = adopted
               /\ queue'[i].seq > reg.ack /\ queue'[i].seq = busUnit.seq => queue'[i].observed = busUnit.nvm
    <3>1. CASE \E j \in DOMAIN queue : queue'[i] = queue[j]
      BY <3>1 DEF UnitInv, ReportInv
    <3>2. CASE unacked' # None /\ queue'[i] = unacked'
      <4>1. queue'[i] = Report(busUnit.nvm, busUnit.seq)
        BY <3>2 DEF UnitInv, ReportInv
      <4>2. busUnit.seq \in Nat
        BY Bounds, SMT
      <4> QED
        BY <4>1, <4>2, SMT DEF Report
    <3> QED
      BY <2>1, <3>1, <3>2 DEF QueueMoved
  <2> QED
    BY <2>1 DEF UnitInv, ReportInv, Report, Snapshot
<1>4. CopyInv'
  <2>1. Base' = Base /\ \A f \in Field : (Adopted(f)' <=> Adopted(f))
    BY DEF Base, Adopted
  <2>2. \A f \in Field : Becomes(f, rightful[f])' <=> Becomes(f, rightful[f])
    BY DEF Becomes
  <2> QED
    BY <2>1, <2>2 DEF UnitInv, CopyInv
<1> QED
  BY <1>1, <1>2, <1>3, <1>4 DEF UnitInv, QueueMoved

\* BusUnitWire::hydrate: only a fully acknowledged unit adopts, and nothing of
\* an older revision can be applied afterwards.
LEMMA AdoptKeeps ==
    ASSUME UnitInv, ring = <<>>, Adopt, QueueMoved,
           UNCHANGED <<reg, cell, ring, unread, rightful, patches, wires, unitLosses>>
    PROVE  UnitInv'
<1>1. /\ cell = Snapshot(reg) /\ cell.rev = reg.rev /\ cell.ack = reg.ack /\ cell.nvm = reg.nvm
      /\ reg \in SettingsRow /\ reg.nvm \in Nvm /\ reg.rev \in Rev /\ reg.rev # None
      /\ busUnit \in [nvm : Nvm, rev : Rev \cup {None}, seq : Rev]
  BY ValueAssumption DEF UnitInv, ReportInv, UnitTypeOK, Snapshot, SettingsRow
<1>2. unacked' = IF reg.ack = busUnit.seq THEN None ELSE unacked
  BY <1>1 DEF Adopt
<1>3. CASE ~MayAdopt
  <2>1. UNCHANGED <<busUnit, adopted>>
    BY <1>3 DEF Adopt
  <2> QED
    BY <1>2, <2>1, QueueMoves DEF UnitInv, UnitTypeOK
<1>4. CASE MayAdopt
  <2>1. /\ busUnit' = [busUnit EXCEPT !.rev = reg.rev, !.nvm = reg.nvm] /\ adopted' = reg.nvm
        /\ reg.ack = busUnit.seq /\ (busUnit.rev = None \/ IsNewer(reg.rev, busUnit.rev))
    BY <1>1, <1>4 DEF Adopt, MayAdopt
  <2>2. /\ busUnit' \in [nvm : Nvm, rev : Rev \cup {None}, seq : Rev]
        /\ busUnit'.rev = reg.rev /\ busUnit'.nvm = reg.nvm /\ busUnit'.seq = busUnit.seq
    BY <1>1, <2>1
  <2>3. unacked' = None
    BY <1>2, <2>1
  <2>4. busUnit.rev # None => busUnit.rev \in 0 .. Top - 1 /\ reg.rev \in 0 .. Top - 1 /\ reg.rev > busUnit.rev
    <3>1. busUnit.rev # None => busUnit.rev \in 0 .. Top - 1 /\ reg.rev \in 0 .. Top - 1
      BY Bounds
    <3> QED
      BY <2>1, <3>1, NewerIsGreater
  <2>5. reg.applied # None => reg.applied[1] \in Nat /\ reg.applied[1] < reg.rev
    <3>1. reg.applied # None => reg.applied[1] \in Nat
      BY <1>1, SMT DEF SettingsRow, Rev
    <3>2. reg.applied # None => busUnit.rev # None /\ reg.applied[1] <= busUnit.rev
      BY DEF UnitInv, NumberInv
    <3> QED
      BY <2>4, <3>1, <3>2, SMT
  <2>6. UnitTypeOK'
    BY <1>1, <2>1, <2>2, <2>3 DEF UnitInv, UnitTypeOK, QueueMoved
  <2>7. NumberInv'
    <3>1. reg.rev \in Nat
      BY Bounds, SMT
    <3>2. reg.applied # None => reg.applied[1] <= busUnit'.rev
      BY <2>2, <2>5, <3>1, SMT
    <3> QED
      BY <1>1, <2>2, <3>1, <3>2, SMTT(20) DEF UnitInv, NumberInv
  <2>8. ReportInv'
    <3>1. \A i \in DOMAIN queue' : queue'[i].seq <= busUnit.seq /\ ~(queue'[i].seq > reg.ack)
      <4> SUFFICES ASSUME NEW i \in DOMAIN queue'
                   PROVE  queue'[i].seq <= busUnit.seq /\ ~(queue'[i].seq > reg.ack)
        OBVIOUS
      <4>1. PICK j \in DOMAIN queue : queue'[i] = queue[j]
        BY <2>3 DEF QueueMoved
      <4>2. queue[j].seq <= busUnit.seq /\ queue[j].seq \in 0 .. Top - 1 /\ busUnit.seq \in Nat
        BY Bounds, SMT DEF UnitInv, ReportInv
      <4> QED
        BY <2>1, <4>1, <4>2, SMT
    <3> QED
      BY <1>1, <2>1, <2>2, <2>3, <3>1 DEF UnitInv, ReportInv, Snapshot
  <2>9. CopyInv'
    <3>1. Base' = adopted' /\ adopted' = reg.nvm
      <4>1. reg.applied # None => reg.applied[1] # reg.rev
        BY <2>5, Bounds, SMT
      <4> QED
        BY <2>1, <2>2, <4>1 DEF Base
    <3>2. ASSUME NEW f \in Field, rightful[f] # Untracked PROVE rightful[f] = reg.nvm[f]
      <4>1. CASE Adopted(f)
        <5>1. busUnit.rev # None /\ busUnit.nvm = Base /\ reg.nvm[f] = Base[f] /\ Becomes(f, rightful[f])
          BY <2>1, <3>2, <4>1 DEF UnitInv, CopyInv, Adopted
        <5>2. rightful[f] = busUnit.nvm[f]
          BY <5>1, SMT DEF Becomes
        <5> QED
          BY <5>1, <5>2
      <4>2. CASE ~Adopted(f)
        BY <3>2, <4>2 DEF UnitInv, CopyInv
      <4> QED
        BY <4>1, <4>2
    <3>3. ASSUME NEW f \in Field, rightful[f] # Untracked
          PROVE  reg.nvm[f] = Base'[f] /\ Becomes(f, rightful[f])'
      BY <2>2, <3>1, <3>2, <3>3, SMT DEF Becomes
    <3> QED
      BY <2>1, <2>2, <3>1, <3>2, <3>3 DEF CopyInv
  <2> QED
    BY <2>6, <2>7, <2>8, <2>9 DEF UnitInv, QueueMoved
<1> QED
  BY <1>3, <1>4

LEMMA PollStep == UnitInv /\ Poll => UnitInv'
<1> SUFFICES ASSUME UnitInv, Poll PROVE UnitInv'
  OBVIOUS
<1>1. /\ UNCHANGED <<reg, cell, ring, unread, rightful, patches, wires, unitLosses>>
      /\ queue' = queue \/ (unacked' # None /\ queue' = Sent(unacked'))
  BY DEF Poll
<1>2. /\ queue \in Seq(Evidence) /\ Len(queue) <= QueueCap /\ unacked \in Evidence \cup {None}
      /\ unitLosses \in 0 .. MaxLoss
  BY DEF UnitInv, UnitTypeOK
<1>3. unacked' = unacked \/ unacked' = None
  BY DEF Poll, Adopt
<1>4. QueueMoved
  <2>1. CASE queue' = queue
    BY <1>2, <2>1 DEF QueueMoved
  <2>2. CASE unacked' # None /\ queue' = Sent(unacked')
    <3>1. unacked' \in Evidence
      BY <1>2, <1>3, <2>2
    <3> QED
      BY <1>2, <2>2, <3>1, SentQueue DEF QueueMoved
  <2> QED
    BY <1>1, <2>1, <2>2
<1>5. CASE ring = <<>>
  <2>1. Adopt
    BY <1>5 DEF Poll
  <2> QED
    BY <1>1, <1>4, <1>5, <2>1, AdoptKeeps
<1>6. CASE ring # <<>>
  <2>1. UNCHANGED <<busUnit, adopted, unacked>>
    BY <1>6 DEF Poll
  <2> QED
    BY <1>1, <1>2, <1>4, <2>1, QueueMoves
<1> QED
  BY <1>5, <1>6

\* The queue without its head.
LEMMA QueueTail ==
    ASSUME queue \in Seq(Evidence), queue # <<>>, Len(queue) <= QueueCap
    PROVE  /\ Tail(queue) \in Seq(Evidence) /\ Len(Tail(queue)) <= QueueCap
           /\ 1 \in DOMAIN queue /\ Head(queue) = queue[1] /\ Head(queue) \in Evidence
           /\ \A i \in DOMAIN Tail(queue) : \E j \in DOMAIN queue : Tail(queue)[i] = queue[j]
<1> DEFINE t == Tail(queue)
<1>1. /\ t \in Seq(Evidence) /\ Head(queue) \in Evidence /\ Head(queue) = queue[1]
      /\ Len(t) = Len(queue) - 1 /\ Len(queue) \in Nat \ {0}
      /\ DOMAIN queue = 1 .. Len(queue) /\ DOMAIN t = 1 .. Len(t)
      /\ \A i \in 1 .. Len(t) : t[i] = queue[i + 1]
  BY SMT
<1> HIDE DEF t
<1>2. Len(t) <= QueueCap /\ 1 \in DOMAIN queue
  BY <1>1, RoomAssumption, SMT
<1>3. \A i \in DOMAIN t : i + 1 \in DOMAIN queue /\ t[i] = queue[i + 1]
  BY <1>1, SMT
<1> QED
  BY <1>1, <1>2, <1>3 DEF t

LEMMA LoseStep == UnitInv /\ Lose => UnitInv'
<1> SUFFICES ASSUME UnitInv, Lose PROVE UnitInv'
  OBVIOUS
<1>1. /\ queue # <<>> /\ queue' = Tail(queue) /\ unitLosses < MaxLoss /\ unitLosses' = unitLosses + 1
      /\ UNCHANGED <<reg, cell, busUnit, adopted, unacked, ring, unread, rightful, patches, wires>>
  BY DEF Lose
<1>2. queue \in Seq(Evidence) /\ Len(queue) <= QueueCap /\ unitLosses \in 0 .. MaxLoss
  BY DEF UnitInv, UnitTypeOK
<1>3. QueueMoved
  BY <1>1, <1>2, QueueTail DEF QueueMoved
<1>4. unitLosses' \in 0 .. MaxLoss
  BY <1>1, <1>2, RoomAssumption, SMT
<1> QED
  BY <1>1, <1>3, <1>4, QueueMoves

\* apply_wire: what it makes of a row.
LEMMA WireAppliedRow ==
    ASSUME NEW row \in SettingsRow, row.rev \in 0 .. Top - 1, NEW ev \in Evidence
    PROVE  LET p == WireApplied(row, ev)
           IN  /\ p \in SettingsRow /\ p.rev = row.rev + 1 /\ p.ack = ev.seq
               /\ p.applied = <<ev.rev, ev.observed>> /\ p.movedAt = row.movedAt
               /\ \A f \in Field : p.nvm[f] = IF WireMayMove(row, WireBase(row, ev), ev, f)
                                              THEN ev.observed[f] ELSE row.nvm[f]
<1> DEFINE moved == {f \in Field : WireMayMove(row, WireBase(row, ev), ev, f)}
           kept == [f \in Field |-> IF f \in moved THEN ev.observed[f] ELSE row.nvm[f]]
           applied == <<ev.rev, ev.observed>>
           rev == Inc(row.rev)
           p == WireApplied(row, ev)
<1>1. kept \in Nvm
  BY DEF Nvm, SettingsRow, Evidence
<1>2. applied \in Rev \X Nvm /\ ev.seq \in Rev
  BY DEF Evidence
<1>3. rev \in Rev /\ rev = row.rev + 1
  BY IncBelow
<1>4. p = [row EXCEPT !.nvm = kept, !.applied = applied, !.ack = ev.seq, !.rev = rev]
  BY DEF WireApplied
<1>5. \A f \in Field : kept[f] = IF WireMayMove(row, WireBase(row, ev), ev, f) THEN ev.observed[f] ELSE row.nvm[f]
  OBVIOUS
<1> HIDE DEF moved, kept, applied, rev, p
<1>6. /\ p.nvm = kept /\ p.rev = rev /\ p.movedAt = row.movedAt /\ p.ack = ev.seq /\ p.applied = applied
      /\ p \in SettingsRow
  BY <1>1, <1>2, <1>3, <1>4 DEF SettingsRow
<1> QED
  BY <1>3, <1>5, <1>6 DEF p, applied

\* A report the registry takes as newer was made from the copy the unit still
\* has, so it is compared with the right base.
LEMMA TakenReport ==
    ASSUME UnitInv, queue # <<>>, IsNewer(Head(queue).seq, reg.ack)
    PROVE  LET h == Head(queue)
           IN  /\ h \in Evidence /\ h.seq > reg.ack /\ h.seq <= busUnit.seq
               /\ busUnit.rev # None /\ h.rev = busUnit.rev /\ h.adopted = adopted
               /\ h.seq = busUnit.seq => h.observed = busUnit.nvm
               /\ WireBase(reg, h) = Base
               /\ \A f \in Field : WireMayMove(reg, Base, h, f) <=> h.observed[f] # Base[f] /\ Adopted(f)
<1> DEFINE h == Head(queue)
<1>1. queue \in Seq(Evidence) /\ Len(queue) <= QueueCap
  BY DEF UnitInv, UnitTypeOK
<1>2. 1 \in DOMAIN queue /\ h = queue[1] /\ h \in Evidence
  BY <1>1, QueueTail
<1> HIDE DEF h
<1>3. h.seq \in 0 .. Top - 1 /\ reg.ack \in 0 .. Top - 1 /\ busUnit.seq \in Nat
  BY <1>2, Bounds, SMT
<1>4. h.seq > reg.ack
  BY <1>3, NewerIsGreater DEF h
<1>5. /\ h.seq <= busUnit.seq /\ h.rev = busUnit.rev /\ h.adopted = adopted
      /\ h.seq = busUnit.seq => h.observed = busUnit.nvm
  BY <1>2, <1>4 DEF UnitInv, ReportInv
<1>6. busUnit.rev # None
  BY <1>3, <1>4, <1>5, SMT DEF UnitInv, NumberInv
<1>7. WireBase(reg, h) = Base
  BY <1>5 DEF WireBase, Base
<1>8. \A f \in Field : WireMayMove(reg, Base, h, f) <=> h.observed[f] # Base[f] /\ Adopted(f)
  BY <1>5, <1>6 DEF WireMayMove, Adopted
<1> QED
  BY <1>2, <1>4, <1>5, <1>6, <1>7, <1>8 DEF h

LEMMA ApplyEvidenceStep == UnitInv /\ ApplyEvidence => UnitInv'
<1> SUFFICES ASSUME UnitInv, ApplyEvidence PROVE UnitInv'
  OBVIOUS
<1> DEFINE h == Head(queue)
<1>1. /\ queue # <<>> /\ queue' = Tail(queue)
      /\ UNCHANGED <<busUnit, adopted, unacked, ring, unread, rightful, patches, wires, unitLosses>>
  BY DEF ApplyEvidence
<1>2. /\ queue \in Seq(Evidence) /\ Len(queue) <= QueueCap /\ reg \in SettingsRow
      /\ reg.rev \in 0 .. Top - 1 /\ reg.ack \in Nat /\ reg.rev \in Nat /\ busUnit.seq \in Nat
      /\ patches \in Nat /\ unitLosses \in 0 .. MaxLoss
  BY Bounds, SMT DEF UnitInv, UnitTypeOK
<1>3. QueueMoved
  BY <1>1, <1>2, QueueTail DEF QueueMoved
<1>4. CASE ~IsNewer(h.seq, reg.ack)
  <2>1. UNCHANGED <<reg, cell>>
    BY <1>4 DEF ApplyEvidence
  <2> QED
    BY <1>1, <1>2, <1>3, <2>1, QueueMoves
<1>5. CASE IsNewer(h.seq, reg.ack)
  <2>1. reg' = WireApplied(reg, h) /\ cell' = Snapshot(reg')
    BY <1>5 DEF ApplyEvidence
  <2>2. /\ h \in Evidence /\ h.seq > reg.ack /\ h.seq <= busUnit.seq
        /\ busUnit.rev # None /\ h.rev = busUnit.rev
        /\ h.seq = busUnit.seq => h.observed = busUnit.nvm
        /\ WireBase(reg, h) = Base
        /\ \A f \in Field : WireMayMove(reg, Base, h, f) <=> h.observed[f] # Base[f] /\ Adopted(f)
    BY <1>1, <1>5, TakenReport
  <2> HIDE DEF h
  <2>3. /\ reg' \in SettingsRow /\ reg'.rev = reg.rev + 1 /\ reg'.ack = h.seq
        /\ reg'.applied = <<h.rev, h.observed>> /\ reg'.movedAt = reg.movedAt
        /\ \A f \in Field : reg'.nvm[f] = IF h.observed[f] # Base[f] /\ Adopted(f)
                                          THEN h.observed[f] ELSE reg.nvm[f]
    BY <1>2, <2>1, <2>2, WireAppliedRow
  <2>4. /\ reg'.applied # None /\ reg'.applied[1] = busUnit.rev /\ reg'.applied[2] = h.observed
        /\ h.seq \in Nat /\ busUnit.rev \in Nat /\ busUnit.rev <= reg.rev
    <3>0. h \in Evidence /\ h.rev = busUnit.rev /\ reg'.applied = <<h.rev, h.observed>>
      BY <2>2, <2>3
    <3>1. <<h.rev, h.observed>> \in Rev \X Nvm /\ h.seq \in Rev
      BY <3>0 DEF Evidence
    <3>2. h.seq \in Nat
      <4>1. h.seq \in Rev
        BY <3>1
      <4> QED BY <4>1, TopFacts, SMT DEF Rev
    <3>3. busUnit.rev \in Nat /\ busUnit.rev <= reg.rev
      <4>1. busUnit.rev \in 0 .. Top - 1 /\ busUnit.rev <= reg.rev
        BY <2>2, Bounds DEF UnitInv, NumberInv
      <4> QED BY <4>1, TopFacts, SMT
    <3>4. reg'.applied # None
      BY <3>0, <3>1, ValueAssumption
    <3>5. reg'.applied[1] = h.rev /\ reg'.applied[2] = h.observed
      BY <3>0, SMT
    <3> QED
      BY <3>0, <3>2, <3>3, <3>4, <3>5
  <2>5. UnitTypeOK'
    BY <1>1, <1>3, <2>1, <2>3, SnapshotType DEF UnitInv, UnitTypeOK, QueueMoved
  <2>6. NumberInv'
    <3>1. reg'.rev <= patches' + reg'.ack + IF unread' = None THEN 1 ELSE 0
      <4> DEFINE extra == IF unread = None THEN 1 ELSE 0
                 rev == reg.rev
                 ack == reg.ack
                 seq == h.seq
      <4>1. rev <= patches + ack + extra /\ extra \in Nat
        BY DEF UnitInv, NumberInv
      <4>2. rev \in Nat /\ ack \in Nat /\ seq \in Nat /\ patches \in Nat /\ seq > ack
        BY <1>2, <2>2, <2>4
      <4> HIDE DEF extra, rev, ack, seq
      <4>3. rev + 1 <= patches + seq + extra
        BY <4>1, <4>2, SMTT(20)
      <4> QED
        BY <1>1, <2>3, <4>3 DEF extra, rev, seq
    <3>2. \A f \in Field : reg'.movedAt[f] # None => reg'.movedAt[f] <= reg'.rev
      <4> SUFFICES ASSUME NEW f \in Field, reg.movedAt[f] # None PROVE reg.movedAt[f] <= reg.rev + 1
        BY <2>3
      <4>1. reg.movedAt[f] \in 0 .. Top - 1 /\ reg.movedAt[f] <= reg.rev
        BY Bounds DEF UnitInv, NumberInv
      <4> QED
        BY <1>2, <4>1, SMT
    <3>3. busUnit.rev <= reg.rev + 1 /\ reg'.applied[1] <= busUnit.rev
      BY <1>2, <2>4, SMT
    <3> QED
      BY <1>1, <2>2, <2>3, <3>1, <3>2, <3>3 DEF UnitInv, NumberInv
  <2>7. ReportInv'
    <3>0. reg.ack # busUnit.seq
      BY <1>2, <2>2, <2>4, SMT
    <3>1. unacked # None
      BY <3>0 DEF UnitInv, ReportInv
    <3>2. ASSUME NEW i \in DOMAIN queue'
          PROVE  /\ queue'[i].seq <= busUnit.seq
                 /\ queue'[i].seq > h.seq => queue'[i].rev = busUnit.rev /\ queue'[i].adopted = adopted
                 /\ queue'[i].seq > h.seq /\ queue'[i].seq = busUnit.seq => queue'[i].observed = busUnit.nvm
      <4>1. PICK j \in DOMAIN queue : queue'[i] = queue[j]
        BY <1>1, <1>2, <3>2, QueueTail
      <4>2. queue[j].seq \in Nat
        BY Bounds, SMTT(20)
      <4>3. queue[j].seq > h.seq => queue[j].seq > reg.ack
        BY <1>2, <2>2, <2>4, <4>2, SMT
      <4> QED
        BY <4>1, <4>3 DEF UnitInv, ReportInv
    <3> QED
      BY <1>1, <2>1, <2>3, <3>1, <3>2 DEF UnitInv, ReportInv, Report
  <2>8. CopyInv'
    <3>1. Base' = h.observed
      BY <1>1, <2>4 DEF Base
    <3>2. busUnit.rev # reg'.rev
      BY <1>2, <2>3, <2>4, SMT
    <3>3. ASSUME NEW f \in Field
          PROVE  (Adopted(f)' <=> Adopted(f)) /\ (Becomes(f, rightful[f])' <=> Becomes(f, rightful[f]))
      BY <1>1, <2>3 DEF Adopted, Becomes
    <3>4. ASSUME NEW f \in Field, rightful[f] # Untracked
          PROVE  IF Adopted(f) THEN reg'.nvm[f] = h.observed[f] /\ Becomes(f, rightful[f])
                               ELSE reg'.nvm[f] = rightful[f]
      BY <2>3, <3>4 DEF UnitInv, CopyInv
    <3> QED
      BY <1>1, <2>2, <2>3, <3>1, <3>2, <3>3, <3>4 DEF CopyInv
  <2> QED
    BY <1>1, <1>3, <2>5, <2>6, <2>7, <2>8 DEF UnitInv, QueueMoved
<1> QED
  BY <1>4, <1>5

-----------------------------------------------------------------------------
LEMMA UnitStepHolds == UnitInv /\ [UnitNext]_unitVars => UnitInv'
<1>1. ASSUME UnitInv, UNCHANGED unitVars PROVE UnitInv'
  <2>1. \A f \in Field : (Adopted(f)' <=> Adopted(f)) /\ (Becomes(f, rightful[f])' <=> Becomes(f, rightful[f]))
    BY <1>1 DEF unitVars, Adopted, Becomes
  <2>2. Base' = Base
    BY <1>1 DEF unitVars, Base
  <2>3. CopyInv'
    BY <1>1, <2>1, <2>2 DEF unitVars, UnitInv, CopyInv
  <2> QED
    BY <1>1, <2>3 DEF unitVars, UnitInv, UnitTypeOK, NumberInv, ReportInv, Report
<1> QED
  BY <1>1, OperatorPatchStep, RereadSliceStep, CaptureStep, DrainStep, PollStep, LoseStep, ApplyEvidenceStep
     DEF UnitNext

LEMMA Invariance == UnitSpec => []UnitInv
<1>1. UnitInv /\ [UnitNext]_unitVars => UnitInv'
  BY UnitStepHolds
<1> QED
  BY <1>1, UnitInitHolds, PTL DEF UnitSpec

\* Revisions and sequence numbers keep their width, every report is whole and
\* the observation queue (tx.try_send) keeps its capacity, whatever the sizes.
THEOREM UnitTypeCorrect == UnitSpec => []UnitTypeOK
<1>1. UnitInv => UnitTypeOK
  BY DEF UnitInv
<1> QED
  BY <1>1, Invariance, PTL

\* When nothing is on its way, Device103Unit and the registry's row hold the same
\* variables, each with the value of its rightful last writer: hydrate, feed,
\* apply_patch and apply_wire lose no change in whatever order they run and
\* however many reports are lost or repeated.
THEOREM SettledCopiesAgree == UnitSpec => []CopiesAgree
<1>1. UnitInv => CopiesAgree
  <2> SUFFICES ASSUME UnitInv, Settled
               PROVE  busUnit.nvm = reg.nvm /\ \A f \in Field : rightful[f] \in {reg.nvm[f], Untracked}
    BY DEF CopiesAgree
  <2>1. ring = <<>> /\ unacked = None /\ busUnit.rev = reg.rev
    BY DEF Settled
  <2>2. reg.rev \in Rev
    BY DEF UnitInv, UnitTypeOK, SettingsRow
  <2>3. busUnit.rev # None
    BY <2>1, <2>2, ValueAssumption
  <2>4. reg.ack = busUnit.seq
    BY <2>1 DEF UnitInv, ReportInv
  <2>5. busUnit.nvm = Base /\ Base = adopted /\ reg.nvm = adopted
    BY <2>1, <2>3, <2>4 DEF UnitInv, CopyInv
  <2>6. ASSUME NEW f \in Field, rightful[f] # Untracked PROVE rightful[f] = reg.nvm[f]
    <3>1. CASE Adopted(f)
      <4>1. Becomes(f, rightful[f])
        BY <2>6, <3>1 DEF UnitInv, CopyInv
      <4> QED
        BY <2>1, <2>5, <4>1, SMT DEF Becomes
    <3>2. CASE ~Adopted(f)
      BY <2>6, <3>2 DEF UnitInv, CopyInv
    <3> QED
      BY <3>1, <3>2
  <2> QED
    BY <2>5, <2>6
<1> QED
  BY <1>1, Invariance, PTL

\* A copy of the registry that Device103Unit::hydrate adopts changes only fields
\* an operator, or a late read of the stored slice, moved: a wire change the unit
\* already answers from is never undone.
THEOREM AdoptionIsSafe == UnitSpec => AdoptionUndoesNoWireChange
<1> DEFINE A == busUnit.rev # None /\ busUnit'.rev # busUnit.rev =>
                  \A f \in Field : busUnit'.nvm[f] # busUnit.nvm[f] =>
                     \/ rightful[f] = Untracked
                     \/ reg.movedAt[f] # None /\ IsNewer(reg.movedAt[f], busUnit.rev)
<1>1. ASSUME UnitInv, UnitNext PROVE A
  <2> SUFFICES ASSUME busUnit.rev # None, busUnit'.rev # busUnit.rev,
                      NEW f \in Field, rightful[f] # Untracked,
                      reg.movedAt[f] = None \/ ~IsNewer(reg.movedAt[f], busUnit.rev)
               PROVE  busUnit'.nvm[f] = busUnit.nvm[f]
    OBVIOUS
  <2>0. busUnit \in [nvm : Nvm, rev : Rev \cup {None}, seq : Rev]
    BY <1>1 DEF UnitInv, UnitTypeOK
  <2>1. Poll
    <3>1. ~Drain
      BY <2>0 DEF Drain
    <3> QED
      BY <1>1, <3>1 DEF UnitNext, OperatorPatch, RereadSlice, Capture, Lose, ApplyEvidence
  <2>2. ring = <<>> /\ Adopt
    BY <2>1 DEF Poll
  <2>3. MayAdopt
    BY <2>2 DEF Adopt
  <2>4. busUnit'.nvm = reg.nvm /\ reg.ack = busUnit.seq
    <3>1. cell.nvm = reg.nvm /\ cell.ack = reg.ack
      BY <1>1 DEF UnitInv, ReportInv, Snapshot
    <3> QED
      BY <2>0, <2>2, <2>3, <3>1 DEF Adopt, MayAdopt
  <2>5. Adopted(f)
    BY DEF Adopted
  <2>6. reg.nvm[f] = Base[f] /\ busUnit.nvm = Base
    BY <1>1, <2>4, <2>5 DEF UnitInv, CopyInv
  <2> QED
    BY <2>4, <2>6
<1>2. UnitInv /\ [UnitNext]_unitVars => [A]_unitVars
  BY <1>1
<1>3. UnitSpec => [][A]_unitVars
  BY <1>2, Invariance, PTL DEF UnitSpec
<1> QED
  BY <1>3 DEF AdoptionUndoesNoWireChange

\* apply_bus_unit_evidence never overwrites a value an operator set and the unit
\* has not adopted yet, in whatever order patch, capture, report and resend came.
THEOREM OperatorPrevails == UnitSpec => OperatorHolds
<1> DEFINE A == reg'.ack # reg.ack => \A f \in Field : ~Adopted(f) => reg'.nvm[f] = reg.nvm[f]
<1>1. ASSUME UnitInv, UnitNext PROVE A
  <2> SUFFICES ASSUME reg'.ack # reg.ack, NEW f \in Field, ~Adopted(f) PROVE reg'.nvm[f] = reg.nvm[f]
    OBVIOUS
  <2>1. reg \in SettingsRow /\ reg.rev \in 0 .. Top - 1
    BY <1>1, Bounds DEF UnitInv, UnitTypeOK
  <2>2. ApplyEvidence
    <3>1. ~OperatorPatch
      <4> SUFFICES ASSUME OperatorPatch PROVE FALSE
        OBVIOUS
      <4>1. PICK fields \in SUBSET Field : \E patch \in [fields -> Val] : reg' = Patched(reg, patch)
        BY DEF OperatorPatch
      <4>2. PICK patch \in [fields -> Val] : reg' = Patched(reg, patch)
        BY <4>1
      <4> QED
        BY <2>1, <4>2, PatchedRow
    <3>2. ~RereadSlice
      BY <2>1 DEF RereadSlice, Hydrated, SettingsRow
    <3> QED
      BY <1>1, <3>1, <3>2 DEF UnitNext, Capture, Drain, Poll, Lose
  <2>3. queue # <<>> /\ IsNewer(Head(queue).seq, reg.ack) /\ reg' = WireApplied(reg, Head(queue))
    BY <2>2 DEF ApplyEvidence
  <2> DEFINE h == Head(queue)
  <2>4. h \in Evidence /\ WireBase(reg, h) = Base /\ ~WireMayMove(reg, Base, h, f)
    BY <1>1, <2>3, TakenReport
  <2> QED
    BY <2>1, <2>3, <2>4, WireAppliedRow
<1>2. UnitInv /\ [UnitNext]_unitVars => [A]_unitVars
  BY <1>1
<1>3. UnitSpec => [][A]_unitVars
  BY <1>2, Invariance, PTL DEF UnitSpec
<1> QED
  BY <1>3 DEF OperatorHolds

\* Both together: between hydrate and apply_bus_unit_evidence the later writer's
\* value holds, whichever side it came from.
THEOREM LaterWriterPrevails == UnitSpec => LaterWriterHolds
  BY AdoptionIsSafe, OperatorPrevails DEF LaterWriterHolds
=============================================================================
