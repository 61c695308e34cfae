------------------------- MODULE InputDeviceBanks --------------------------
(***************************************************************************)
(* How the registry spreads its input devices over the banks of their      *)
(* slice family: admission to the first bank with room, the flush that     *)
(* writes the banks in order and stops at a failure, and hydration, which  *)
(* meets one device in two banks and more devices than a bank has seats    *)
(* (registry/input_devices.rs and persistence.rs). The family waits as one *)
(* when a bank cannot be read. A device's record is a number, its version. *)
(***************************************************************************)
EXTENDS Naturals, FiniteSets, SequencesExt

CONSTANTS
    InputDevices,        \* addresses, ordered numbers
    InputBanks,          \* 0 .. the last bank
    PerBank,             \* INPUT_DEVICES_PER_BANK
    MaxVersion, MaxBankFaults

ASSUME InputBanksAssumption ==
    InputDevices \subseteq Nat /\ InputBanks \subseteq Nat /\ PerBank \in Nat \ {0}

VARIABLES
    bankSlot,     \* the stored banks: absent, bad, or the version of each device
    inputs,       \* the registry: device -> [bank, ver]
    inputsDirty, inputsHeld,
    flushingBank, \* the bank the flush writes next, or Resting
    up,           \* the controller runs
    safe,         \* ghost: devices of the last complete save, not forgotten since
    lastVersion, bankFaults

inputVars == <<bankSlot, inputs, inputsDirty, inputsHeld, flushingBank, up, safe,
               lastVersion, bankFaults>>

NoDevice == [d \in {} |-> 0]
Slice(devs) == [st |-> "ok", devs |-> devs]
NoSlice == [st |-> "absent", devs |-> NoDevice]
Unreadable == [st |-> "bad", devs |-> NoDevice]
Resting == Max(InputBanks) + 1
MaxInputs == PerBank * Cardinality(InputBanks)
Seated(devs, bank) == {d \in DOMAIN devs : devs[d].bank = bank}

InputInit ==
    /\ bankSlot \in [InputBanks -> {NoSlice, Unreadable}]
    /\ inputs = NoDevice /\ inputsDirty = FALSE /\ inputsHeld = FALSE /\ flushingBank = Resting
    /\ up = FALSE /\ safe = {} /\ lastVersion = 0 /\ bankFaults = 0

----------------------------------------------------------------------------

\* admitting_bank: the first bank with room.
RoomIn(devs) == {k \in InputBanks : Cardinality(Seated(devs, k)) < PerBank}
AdmittingBank(devs) == Min(RoomIn(devs))
MayAdmit(devs) == Cardinality(DOMAIN devs) < MaxInputs /\ RoomIn(devs) # {}

Seat(devs, d, k, v) == [x \in DOMAIN devs \cup {d} |-> IF x = d THEN [bank |-> k, ver |-> v] ELSE devs[x]]

Changed == up /\ flushingBank = Resting /\ lastVersion < MaxVersion /\ lastVersion' = lastVersion + 1
           /\ inputsDirty' = TRUE /\ UNCHANGED <<bankSlot, inputsHeld, flushingBank, up, bankFaults>>

\* admit_input_device by a scan, or a change of a device's record.
Admit(d) ==
    /\ Changed /\ (d \in DOMAIN inputs \/ MayAdmit(inputs))
    /\ LET k == IF d \in DOMAIN inputs THEN inputs[d].bank ELSE AdmittingBank(inputs)
       IN inputs' = Seat(inputs, d, k, lastVersion + 1)
    /\ UNCHANGED safe

\* forget_input_device.
ForgetInput(d) ==
    /\ Changed /\ d \in DOMAIN inputs
    /\ inputs' = Restrict(inputs, DOMAIN inputs \ {d}) /\ safe' = safe \ {d}

----------------------------------------------------------------------------
\* persistable_snapshot_bank.
Snapshot(k) == [d \in Seated(inputs, k) |-> inputs[d].ver]

\* take_input_devices_dirty: not while the family waits to be read.
FlushInputs ==
    /\ up /\ flushingBank = Resting /\ inputsDirty /\ ~inputsHeld
    /\ inputsDirty' = FALSE /\ flushingBank' = Min(InputBanks)
    /\ UNCHANGED <<bankSlot, inputs, inputsHeld, up, safe, lastVersion, bankFaults>>

WriteBank ==
    /\ up /\ flushingBank # Resting
    /\ bankSlot' = [bankSlot EXCEPT ![flushingBank] = Slice(Snapshot(flushingBank))]
    /\ flushingBank' = flushingBank + 1
    /\ safe' = IF flushingBank + 1 = Resting THEN DOMAIN inputs ELSE safe
    /\ UNCHANGED <<inputs, inputsDirty, inputsHeld, up, lastVersion, bankFaults>>


\* The family is marked again and the banks after the failed one are left.
WriteBankFails ==
    /\ up /\ flushingBank # Resting /\ bankFaults < MaxBankFaults
    /\ inputsDirty' = TRUE /\ flushingBank' = Resting /\ bankFaults' = bankFaults + 1
    /\ UNCHANGED <<bankSlot, inputs, inputsHeld, up, safe, lastVersion>>

----------------------------------------------------------------------------
\* The devices the readable banks store; the lowest bank that has one wins.
StoredIn(k, unread) == IF k \in unread THEN {} ELSE DOMAIN bankSlot[k].devs
StoredDevices(unread) == UNION {StoredIn(k, unread) : k \in InputBanks}
BankStoring(d, unread) == Min({k \in InputBanks : d \in StoredIn(k, unread)})

\* A bank holds a device a lower one holds too.
HeldTwice(unread) ==
    \E j, k \in InputBanks : j # k /\ StoredIn(j, unread) \cap StoredIn(k, unread) # {}

BeforeByAddress(devs, stored, d, e) ==
    devs[d].bank < devs[e].bank \/ (devs[d].bank = devs[e].bank /\ d < e)

\* The order of seats: by bank, the stored devices first, then by address.
Before(devs, stored, d, e) ==
    \/ devs[d].bank < devs[e].bank
    \/ /\ devs[d].bank = devs[e].bank
       /\ IF (d \in stored) = (e \in stored) THEN d < e ELSE d \in stored

\* excess_input_devices.
Excess(devs, stored) ==
    {d \in DOMAIN devs :
        Cardinality({e \in Seated(devs, devs[d].bank) : Before(devs, stored, e, d)}) >= PerBank}

\* rebank_input_devices: each one over goes to a bank with room, or is refused.
Rebanked(devs, stored) ==
    LET over == Excess(devs, stored)
        readmit(m, d) == IF MayAdmit(m) THEN Seat(m, d, AdmittingBank(m), devs[d].ver) ELSE m
    IN FoldLeft(readmit, Restrict(devs, DOMAIN devs \ over),
                SetToSortSeq(over, LAMBDA d, e : Before(devs, stored, d, e)))

\* hydrate_input_device_banks at boot or when the family is read again.
HydrateInputs(unread) ==
    /\ up => inputsHeld /\ flushingBank = Resting
    /\ Cardinality(unread) + bankFaults <= MaxBankFaults
    /\ LET stored == StoredDevices(unread)
           bad == {k \in InputBanks \ unread : bankSlot[k] = Unreadable}
           whole == unread = {} /\ bad = {}
           loaded == \E k \in InputBanks \ unread : bankSlot[k].st = "ok"
           kept == IF whole /\ loaded THEN stored ELSE stored \cup DOMAIN inputs
           devs == [d \in kept |-> IF d \in stored
                      THEN LET k == BankStoring(d, unread) IN [bank |-> k, ver |-> bankSlot[k].devs[d]]
                      ELSE inputs[d]]
       IN /\ inputs' = Rebanked(devs, stored)
          /\ inputsDirty' = (inputsDirty \/ bad # {} \/ HeldTwice(unread) \/ Excess(devs, stored) # {})
          /\ inputsHeld' = (unread # {})
          /\ safe' = IF unread = {} THEN stored ELSE safe \cap stored
    /\ up' = TRUE /\ bankFaults' = bankFaults + Cardinality(unread)
    /\ UNCHANGED <<bankSlot, flushingBank, lastVersion>>

InputPowerLoss ==
    /\ up /\ bankFaults < MaxBankFaults /\ bankFaults' = bankFaults + 1
    /\ inputs' = NoDevice /\ inputsDirty' = FALSE /\ inputsHeld' = FALSE
    /\ flushingBank' = Resting /\ up' = FALSE
    /\ UNCHANGED <<bankSlot, safe, lastVersion>>

InputNext ==
    \/ \E d \in InputDevices : Admit(d) \/ ForgetInput(d)
    \/ FlushInputs \/ WriteBank \/ WriteBankFails
    \/ \E unread \in SUBSET InputBanks : HydrateInputs(unread)
    \/ InputPowerLoss

InputSpec == InputInit /\ [][InputNext]_inputVars

----------------------------------------------------------------------------
\* A device of a complete save stays in the store, in some bank and version,
\* until it is forgotten: whatever bank write fails or is cut, and whatever
\* seats a later scan or re-read gives away.
SavedInputKept == safe \subseteq StoredDevices({})

\* No bank of the registry has more devices than its slice may hold.
SeatsRespected == \A k \in InputBanks : Cardinality(Seated(inputs, k)) <= PerBank

\* With nothing marked, waiting or under way, each bank is what the registry
\* would write: no device is stored twice or in a bank it has left.
InputsInStep ==
    up /\ ~inputsDirty /\ ~inputsHeld /\ flushingBank = Resting =>
        \A k \in InputBanks : bankSlot[k].devs = Snapshot(k)

\* Input devices are kept through scans, re-reads and cut flushes: what was
\* saved stays stored, in banks that have room, and once all is flushed each
\* device is stored exactly where the registry seats it.
InputsKept == SavedInputKept /\ SeatsRespected /\ InputsInStep
=============================================================================
