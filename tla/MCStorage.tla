----------------------------- MODULE MCStorage -----------------------------
(***************************************************************************)
(* The layers of the configuration store, checked side by side: one slot   *)
(* of the flash store, the registry above slots that are atomic, and the   *)
(* banks of its input devices.                                             *)
(***************************************************************************)
EXTENDS SliceStore, RegistryPersistence, InputDeviceBanks

VARIABLE part   \* which of the three this behaviour is about


Store(b0, b1, old, lamps, rest) ==
    [k \in Key |-> CASE k = "bank0" -> b0 [] k = "bank1" -> b1 [] k = "old" -> old
                     [] k = "lamps" -> lamps [] OTHER -> rest]
Old(a, b) == [s \in Short |-> IF s = 0 THEN a ELSE b]
Ok(v) == Slot("ok", v)

Empty == Store(AbsentSlot, AbsentSlot, AbsentSlot, AbsentSlot, AbsentSlot)

\* Installed; an adapter still in the old slot, the settings never saved; half
\* migrated, with a bank and the settings not decoding.
MCInstalled ==
    {Store(Ok(1), Ok(0), AbsentSlot, Ok(0), Ok(1)),
     Store(AbsentSlot, AbsentSlot, Ok(Old(1, 1)), Ok(1), AbsentSlot),
     Store(BadSlot, Ok(1), Ok(Old(1, 0)), Ok(0), BadSlot)}

Item(k, slot) == [key |-> k, slot |-> slot]

\* A restored configuration; one slice of two unreadable; nothing readable.
MCImports ==
    {<<Item("lamps", Ok(1)), Item("bank1", Ok(1)), Item("bank0", Ok(0))>>,
     <<Item("hcl", BadSlot), Item("old", Ok(Old(0, 1)))>>,
     <<Item("ha", BadSlot)>>}
\* The registry of a behaviour about another part: nothing of it is due.
AtRest ==
    /\ disk = Empty /\ mem = NewMem /\ pc = "idle"
    /\ todo = {} /\ importing = None /\ stage = None /\ firmwareOpen = FALSE /\ queue = {}
    /\ report = "none" /\ known = disk /\ owed = {} /\ used = [NoUse EXCEPT !.edits = MaxEdits]

InputAtRest == InputInit /\ bankSlot = [k \in InputBanks |-> NoSlice]

MCInit ==
    /\ SliceInit
    /\ \/ part = "slot" /\ AtRest /\ InputAtRest
       \/ part = "registry" /\ PersistInit /\ InputAtRest
       \/ part = "inputs" /\ AtRest /\ InputInit

SlotStep == part = "slot" /\ UNCHANGED <<persistVars, inputVars, part>>
RegistryStep == part = "registry" /\ UNCHANGED <<sliceVars, inputVars, part>>
InputStep == part = "inputs" /\ UNCHANGED <<sliceVars, persistVars, part>>

MCNext ==
    \/ SlotStep /\ SliceNext
    \/ RegistryStep /\ PersistNext
    \/ InputStep /\ InputNext

MCSpec == MCInit /\ [][MCNext]_<<sliceVars, persistVars, inputVars, part>> /\ PersistFairness
=============================================================================
