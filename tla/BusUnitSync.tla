---------------------------- MODULE BusUnitSync ----------------------------
(***************************************************************************)
(* The two copies of the controller's Part 103 variables (its "NVM"): the   *)
(* registry's row, which the operator patches and flash keeps, and the      *)
(* bus-unit model's own copy, from which the DALI interrupt answers and     *)
(* which the commands of other controllers change at once.                  *)
(*                                                                          *)
(* The registry publishes its row, with a revision and the last wire change *)
(* it acknowledged, into a one-slot cell.  The model reports each wire      *)
(* change as evidence through a lossy queue, keeps the last report until it *)
(* is acknowledged, and resends it every second.                            *)
(*                                                                          *)
(* The registry's command and event handlers run on one thread, so each is  *)
(* one action, its publication into the cell included.  The capture of a    *)
(* frame, the drain that feeds it to the model, and the poll are separate.  *)
(***************************************************************************)
EXTENDS Absent, Integers, Sequences, FiniteSets

CONSTANTS
    Field,      \* the bus-unit variables
    Val,        \* the values one of them can hold
    Factory,    \* the value every field has in a factory-new row
    Wrap,       \* the modulus of revisions and sequence numbers (2^32)
    QueueCap,   \* capacity of the observation queue
    MaxPatch,   \* bound: operator patches in a behaviour
    MaxWire,    \* bound: configuration commands of other controllers
    MaxLoss     \* bound: reports lost on the way to the registry

ASSUME RoomAssumption ==
    /\ Wrap \in Nat /\ QueueCap \in Nat
    /\ MaxPatch \in Nat /\ MaxWire \in Nat /\ MaxLoss \in Nat
    /\ 2 * (MaxPatch + MaxWire + 2) < Wrap

VARIABLES
    reg,       \* DaliSettingsRecord: nvm, rev, ack, applied, movedAt
    cell,      \* Latest<BusUnitSnapshot>
    busUnit,   \* Device103Unit: nvm, rev, seq
    adopted,   \* BusUnitWire.adopted
    unacked,   \* BusUnitWire.unacknowledged
    ring,      \* captured frames the drain has not fed to the model
    queue,     \* reports on their way to the registry
    unread,    \* the stored slice while its boot-time read has failed
    rightful,  \* history: the value the last rightful writer gave a field
    patches, wires, unitLosses  \* how much of each bound is used

unitVars == <<reg, cell, busUnit, adopted, unacked, ring, queue, unread, rightful,
              patches, wires, unitLosses>>

Nvm == [Field -> Val]
Rev == 0 .. Wrap - 1

\* A field whose rightful value the history does not track any more: a late
\* read of the stored slice replaced the row.
Untracked == "untracked"

Inc(n) == (n + 1) % Wrap

\* is_newer: ahead of the other by less than half of the number range.
IsNewer(candidate, than) ==
    LET ahead == (candidate - than) % Wrap
    IN  ahead # 0 /\ ahead < (Wrap - 1) \div 2

Snapshot(row) == [nvm |-> row.nvm, rev |-> row.rev, ack |-> row.ack]

SettingsRow ==
    [nvm : Nvm, rev : Rev, ack : Rev,
     applied : {None} \cup (Rev \X Nvm),
     movedAt : [Field -> Rev \cup {None}]]
Evidence == [adopted : Nvm, rev : Rev, observed : Nvm, seq : Rev]

\* None is a value of its own.
ASSUME ValueAssumption ==
    /\ Factory \in Val
    /\ None \notin Rev \cup Nvm \cup Evidence \cup (Rev \X Nvm)

DefaultRow ==
    [nvm |-> [f \in Field |-> Factory], rev |-> 0, ack |-> 0,
     applied |-> None, movedAt |-> [f \in Field |-> None]]

\* hydrate_dali_settings_inner: the stored values under a new revision; what
\* the wire and the operator did since boot is kept beside them.
Hydrated(row, stored) ==
    [row EXCEPT !.nvm = stored, !.rev = Inc(@)]

----------------------------------------------------------------------------
\* Boot reads the slice before the workers start.  Its read may fail, and the
\* row then keeps the factory values until a later read succeeds.
UnitInit ==
    \E stored \in Nvm, readFails \in BOOLEAN :
        /\ reg = IF readFails THEN DefaultRow ELSE Hydrated(DefaultRow, stored)
        /\ unread = IF readFails THEN stored ELSE None
        /\ cell = Snapshot(reg)
        /\ busUnit = [nvm |-> [f \in Field |-> Factory], rev |-> None, seq |-> 0]
        /\ adopted = None /\ unacked = None
        /\ ring = <<>> /\ queue = <<>>
        /\ rightful = reg.nvm
        /\ patches = 0 /\ wires = 0 /\ unitLosses = 0

\* apply_patch, then publish_bus_unit: the patched fields move, and the ones
\* whose value changed remember the revision that moved them.
Patched(row, patch) ==
    LET nvm == [f \in Field |-> IF f \in DOMAIN patch THEN patch[f]
                                                     ELSE row.nvm[f]]
        moved == {f \in Field : nvm[f] # row.nvm[f]}
        rev == IF moved = {} THEN row.rev ELSE Inc(row.rev)
    IN  [row EXCEPT !.nvm = nvm, !.rev = rev,
            !.movedAt = [f \in Field |-> IF f \in moved THEN rev ELSE @[f]]]

OperatorPatch ==
    /\ patches < MaxPatch
    /\ \E fields \in SUBSET Field \ {{}} : \E patch \in [fields -> Val] :
        /\ reg' = Patched(reg, patch)
        /\ cell' = Snapshot(reg')
        /\ rightful' = [f \in Field |-> IF reg'.nvm[f] # reg.nvm[f]
                                     THEN reg'.nvm[f] ELSE rightful[f]]
    /\ patches' = patches + 1
    /\ UNCHANGED <<busUnit, adopted, unacked, ring, queue, unread, wires, unitLosses>>

\* reread_held_from_store: a slice whose read failed at boot is read again
\* while the system runs, and replaces the row.
RereadSlice ==
    /\ unread # None
    /\ reg' = Hydrated(reg, unread)
    /\ cell' = Snapshot(reg')
    /\ unread' = None
    /\ rightful' = [f \in Field |-> Untracked]
    /\ UNCHANGED <<busUnit, adopted, unacked, ring, queue, patches, wires, unitLosses>>

----------------------------------------------------------------------------
\* The unit has adopted the operator's last move of a field.
Adopted(f) ==
    busUnit.rev # None /\ (reg.movedAt[f] = None \/ ~IsNewer(reg.movedAt[f], busUnit.rev))

\* Another controller sends a configuration command; the interrupt captures it.
Capture ==
    /\ wires < MaxWire
    /\ \E f \in Field, v \in Val :
        /\ ring' = Append(ring, [field |-> f, val |-> v])
        /\ rightful' = IF rightful[f] # Untracked /\ Adopted(f)
                    THEN [rightful EXCEPT ![f] = v] ELSE rightful
    /\ wires' = wires + 1
    /\ UNCHANGED <<reg, cell, busUnit, adopted, unacked, queue, unread, patches, unitLosses>>

\* tx.try_send: a full queue refuses the report.
Sent(report) == IF Len(queue) < QueueCap THEN Append(queue, report) ELSE queue

\* evidence: what the model holds, against the copy it started from.
Report(nvm, seq) ==
    [adopted |-> adopted, rev |-> busUnit.rev, observed |-> nvm, seq |-> seq]

\* feed, through set_nvm, then report_nvm: a model that has adopted nothing
\* drops the command; a changed variable takes the next sequence number and
\* its report replaces the one still unacknowledged.
Drain ==
    /\ ring # <<>>
    /\ ring' = Tail(ring)
    /\ LET nvm == [busUnit.nvm EXCEPT ![Head(ring).field] = Head(ring).val]
           report == Report(nvm, Inc(busUnit.seq))
       IN  IF busUnit.rev = None \/ nvm = busUnit.nvm
             THEN UNCHANGED <<busUnit, unacked, queue>>
             ELSE /\ busUnit' = [busUnit EXCEPT !.nvm = nvm, !.seq = Inc(@)]
                  /\ unacked' = report
                  /\ queue' = Sent(report)
    /\ UNCHANGED <<reg, cell, adopted, unread, rightful, patches, wires, unitLosses>>

\* Mutant: a newer revision is adopted whatever is still unacknowledged.
MayAdoptUnsettled == busUnit.rev = None \/ IsNewer(cell.rev, busUnit.rev)

\* Device103Unit::hydrate: a newer revision is adopted only when the last wire
\* change is acknowledged.
MayAdopt ==
    /\ busUnit.rev = None \/ IsNewer(cell.rev, busUnit.rev)
    /\ cell.ack = busUnit.seq

\* BusUnitWire::hydrate: the report is settled when its number is the
\* acknowledged one, and an adopted copy is remembered for the next reports.
Adopt ==
    /\ unacked' = IF cell.ack = busUnit.seq THEN None ELSE unacked
    /\ IF MayAdopt
         THEN /\ busUnit' = [busUnit EXCEPT !.rev = cell.rev, !.nvm = cell.nvm]
              /\ adopted' = cell.nvm
         ELSE UNCHANGED <<busUnit, adopted>>

\* Mutant: an unacknowledged report is not sent again.
PollWithoutResend ==
    /\ IF ring = <<>> THEN Adopt ELSE UNCHANGED <<busUnit, adopted, unacked>>
    /\ UNCHANGED <<reg, cell, ring, queue, unread, rightful, patches, wires, unitLosses>>

\* poll: adopts only when every capture the interrupt numbered is drained,
\* then resends the report still unacknowledged once its second is over
\* (resend_nvm; the period itself is not modelled).
Poll ==
    /\ IF ring = <<>> THEN Adopt ELSE UNCHANGED <<busUnit, adopted, unacked>>
    /\ queue' \in {queue} \cup
          (IF unacked' = None THEN {} ELSE {Sent(unacked')})
    /\ UNCHANGED <<reg, cell, ring, unread, rightful, patches, wires, unitLosses>>

\* The poll that does resend, singled out for fairness.
Resend ==
    /\ Poll
    /\ unacked' = None \/ queue' = Sent(unacked')

\* The registry's inbox refused the event, or the bus dropped it.
Lose ==
    /\ queue # <<>> /\ unitLosses < MaxLoss
    /\ queue' = Tail(queue)
    /\ unitLosses' = unitLosses + 1
    /\ UNCHANGED <<reg, cell, busUnit, adopted, unacked, ring, unread, rightful, patches, wires>>

----------------------------------------------------------------------------

\* wire_may_move: the wire changed the field, and the operator has not moved it
\* since the revision the model's copy came from.
WireMayMove(row, base, ev, f) ==
    /\ ev.observed[f] # base[f]
    /\ row.movedAt[f] = None \/ ~IsNewer(row.movedAt[f], ev.rev)

\* Mutant: always compared with the copy the model adopted.
WireBaseAdopted(row, ev) == ev.adopted

\* The copy an evidence is compared with: what the last evidence from the same
\* revision observed, else the copy the model adopted.
WireBase(row, ev) ==
    IF row.applied # None /\ row.applied[1] = ev.rev
      THEN row.applied[2] ELSE ev.adopted

\* apply_wire
WireApplied(row, ev) ==
    LET moved == {f \in Field : WireMayMove(row, WireBase(row, ev), ev, f)}
    IN  [row EXCEPT
            !.nvm = [f \in Field |-> IF f \in moved THEN ev.observed[f] ELSE @[f]],
            !.applied = <<ev.rev, ev.observed>>,
            !.ack = ev.seq,
            !.rev = Inc(@)]

\* apply_bus_unit_evidence: a report not newer than the acknowledged one is
\* ignored; any other is applied and the row published.
ApplyEvidence ==
    /\ queue # <<>>
    /\ queue' = Tail(queue)
    /\ IF IsNewer(Head(queue).seq, reg.ack)
         THEN /\ reg' = WireApplied(reg, Head(queue))
              /\ cell' = Snapshot(reg')
         ELSE UNCHANGED <<reg, cell>>
    /\ UNCHANGED <<busUnit, adopted, unacked, ring, unread, rightful, patches, wires, unitLosses>>

UnitNext ==
    \/ OperatorPatch \/ RereadSlice
    \/ Capture \/ Drain \/ Poll \/ Lose
    \/ ApplyEvidence

UnitSpec == UnitInit /\ [][UnitNext]_unitVars

\* The sniffer thread polls every 10 ms and drains before it polls; the
\* registry worker takes every event of its inbox.
UnitFairSpec ==
    /\ UnitSpec
    /\ WF_unitVars(Drain) /\ WF_unitVars(Resend) /\ WF_unitVars(ApplyEvidence)

----------------------------------------------------------------------------
\* Revisions and sequence numbers keep their width, and every report is whole:
\* the observation queue never outgrows its capacity.
UnitTypeOK ==
    /\ reg \in SettingsRow
    /\ cell \in [nvm : Nvm, rev : Rev, ack : Rev]
    /\ busUnit \in [nvm : Nvm, rev : Rev \cup {None}, seq : Rev]
    /\ adopted \in Nvm \cup {None}
    /\ unacked \in Evidence \cup {None}
    /\ \A i \in DOMAIN ring : ring[i] \in [field : Field, val : Val]
    /\ \A i \in DOMAIN queue : queue[i] \in Evidence
    /\ Len(queue) <= QueueCap
    /\ unread \in Nvm \cup {None}
    /\ rightful \in [Field -> Val \cup {Untracked}]
    /\ patches \in 0 .. MaxPatch /\ wires \in 0 .. MaxWire /\ unitLosses \in 0 .. MaxLoss

\* Every change has travelled both ways: no capture waits, no report is
\* unacknowledged, and the model has adopted the registry's revision.
Settled ==
    ring = <<>> /\ unacked = None /\ busUnit.rev = reg.rev

\* Once settled the two copies agree, and each field has the value of its
\* rightful last writer: an operator's value holds against a wire change made
\* before the model adopted it, and a wire change made after replaces it.
CopiesAgree ==
    Settled =>
        /\ busUnit.nvm = reg.nvm
        /\ \A f \in Field : rightful[f] \in {reg.nvm[f], Untracked}

\* Adopting the registry's copy changes a field of the model only where an
\* operator (or a late read of flash) moved it: a wire change the model already
\* answers from is never undone by an older value coming back.
AdoptionUndoesNoWireChange ==
    [][busUnit.rev # None /\ busUnit'.rev # busUnit.rev =>
         \A f \in Field : busUnit'.nvm[f] # busUnit.nvm[f] =>
            \/ rightful[f] = Untracked
            \/ reg.movedAt[f] # None /\ IsNewer(reg.movedAt[f], busUnit.rev)]_unitVars

\* Evidence never overwrites an operator's value the model has not adopted yet,
\* whatever order patch, capture, report and resend happened in.
OperatorHolds ==
    [][reg'.ack # reg.ack =>
         \A f \in Field : ~Adopted(f) => reg'.nvm[f] = reg.nvm[f]]_unitVars

\* Whatever is lost on the way, the model's copy and the registry's end equal
\* once the changes stop: the unacknowledged report is resent.
EventuallySettled == <>[](Settled /\ busUnit.nvm = reg.nvm)

\* A later writer's value holds against an earlier one on its way, in both
\* directions: adopting undoes no wire change, evidence no operator's patch.
LaterWriterHolds == AdoptionUndoesNoWireChange /\ OperatorHolds
=============================================================================
