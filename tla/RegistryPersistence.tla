------------------------ MODULE RegistryPersistence ------------------------
(***************************************************************************)
(* What the registry worker keeps in memory and what the slice store holds *)
(* of it: hydration at boot and after an import, the slices it holds from  *)
(* the flush because their stored copy has not been read, the flush, the   *)
(* paced write of schedule switches, imports and the announcement of the   *)
(* records a reload replaced (dali2rust-registry-runtime/src/runtime/      *)
(* registry/{persistence,store,withheld_slices,physical_device_banks,      *)
(* replaced_slices,transfer,import_stage}.rs and registry_worker/).        *)
(*                                                                         *)
(* A slot is absent, bad (it does not decode) or holds a value; writing it *)
(* is atomic (SliceStore shows why) and may fail. One adapter; "groups"    *)
(* stands for every slice without a rule of its own; a device bank holds   *)
(* one short address; one virtual lamp, of which only the binding matters. *)
(***************************************************************************)
EXTENDS Absent, Naturals, Sequences, FiniteSets

CONSTANTS
    Installed,     \* the stores a controller may be started with
    Imports,       \* the batches an import may stage: sequences of [key, slot]
    FailingReads,  \* bound: the slots whose reads may fail
    MaxFaults,     \* bound: failed reads and writes, firmware writes, power losses
    MaxEdits, MaxImports

VARIABLES
    disk,       \* the stored slices
    mem,        \* the registry: [ram, dirty, held, switched]
    pc,         \* the worker: down, idle, flush, import, write, reload
    todo,       \* the places in FlushOrder, or in the import, yet to be written
    importing,  \* the import taken: [slices, written, failed], or None
    stage,      \* the staged import, or None
    firmwareOpen,  \* flash_gate: a firmware write is under way
    queue,      \* announcements waiting
    report,     \* the answer of the last import
    known,      \* ghost: the stored slices the memory was last reconciled with
    owed,       \* ghost: what an import left unreconciled: lamps, old
    used        \* how much of each bound is used

persistVars == <<disk, mem, pc, todo, importing, stage, firmwareOpen, queue, report, known,
                owed, used>>

Short == {0, 1}
Plain == {"groups", "hcl", "ha"}
BankKey == [s \in Short |-> IF s = 0 THEN "bank0" ELSE "bank1"]
BankKeys == {BankKey[s] : s \in Short}
Key == Plain \cup BankKeys \cup {"old", "lamps"}
BankOf(k) == CHOOSE s \in Short : BankKey[s] = k

Slot(st, v) == [st |-> st, val |-> v]
AbsentSlot == Slot("absent", None)
BadSlot == Slot("bad", None)

\* RegistryStore as a factory-new controller has it; 0 is a default, or no device.
NewRam == [groups |-> 0, hcl |-> 0, ha |-> 0, lamp |-> None, dev |-> [s \in Short |-> 0]]
NewMem == [ram |-> NewRam, dirty |-> {}, held |-> {}, switched |-> FALSE]
Unknown == [k \in Key |-> None]

\* What a slot that decodes can hold.
Values(k) ==
    CASE k = "old" -> [Short -> {0, 1}] [] k = "lamps" -> Short \cup {None} [] OTHER -> {0, 1}
Slots(k) == {AbsentSlot, BadSlot} \cup {Slot("ok", v) : v \in Values(k)}

ASSUME PersistAssumption ==
    /\ None \notin Short /\ \A k \in Key : None \notin Slots(k)
    /\ \A d \in Installed : DOMAIN d = Key /\ \A k \in Key : d[k] \in Slots(k)
    /\ \A s \in Imports : s # None /\ Len(s) \in Nat /\ DOMAIN s = 1 .. Len(s)
    /\ \A s \in Imports : \A i \in DOMAIN s : s[i].key \in Key /\ s[i].slot \in Slots(s[i].key)
    /\ \A s \in Imports : \A i, j \in DOMAIN s : s[i].key = s[j].key => i = j

NoUse == [faults |-> 0, edits |-> 0, imports |-> 0]
Spend(n) == used' = [used EXCEPT !.faults = @ + n]

\* The share of memory the slice k stores.
Content(ram, k) ==
    CASE k \in Plain -> ram[k]
      [] k = "lamps" -> ram.lamp
      [] k \in BankKeys -> ram.dev[BankOf(k)]

PersistInit ==
    /\ disk \in Installed /\ mem = NewMem /\ pc = "down" /\ todo = {} /\ importing = None
    /\ stage = None /\ firmwareOpen = FALSE /\ queue = {} /\ report = "none"
    /\ known = Unknown /\ owed = {} /\ used = NoUse

----------------------------------------------------------------------------
(* Hydration. out[k] is what became of reading slot k.                     *)
Outcome(k, unread) ==
    IF k \in unread THEN "unread"
    ELSE CASE disk[k].st = "ok" -> "loaded" [] disk[k].st = "bad" -> "rejected"
           [] OTHER -> "missing"

Outcomes(unread) == [k \in Key |-> Outcome(k, unread)]

Mark(m, ks) == [m EXCEPT !.dirty = @ \cup ks]
\* A slice that could not be read is held from the flush until it is.
Settle(m, k, unread) == [m EXCEPT !.held = IF unread THEN @ \cup {k} ELSE @ \ {k}]

\* hydrate_stored_slice, and the derived default home-assistant settings.
HydratePlain(m, out, k) ==
    LET loaded == IF out[k] = "loaded" THEN [m EXCEPT !.ram[k] = disk[k].val] ELSE m
        marked == IF out[k] = "rejected" \/ (k = "ha" /\ out[k] = "missing")
                  THEN Mark(loaded, {k}) ELSE loaded
    IN Settle(marked, k, out[k] = "unread")

DecideIgnoringOldSlot(out, banks) ==
    LET of(o) == {k \in banks : out[k] = o}
    IN [rewrite |-> of("missing") \cup of("rejected"), settled |-> banks \ of("unread"),
        waiting |-> of("unread")]

\* BankOutcomes::decide.
Decide(out, banks) ==
    LET of(o) == {k \in banks : out[k] = o}
        open == of("missing") \cup of("rejected")
        rewrite == CASE out["old"] \in {"loaded", "rejected"} -> open
                     [] out["old"] = "missing" -> of("rejected")
                     [] OTHER -> {}
        waiting == IF out["old"] = "unread" THEN open ELSE {}
    IN [rewrite |-> rewrite, settled |-> of("loaded") \cup (open \ waiting),
        waiting |-> waiting \cup of("unread")]

\* fall_back_to_whole_adapter_slot: the devices of banks not live in memory.
FromOldSlot(m, out, banks) ==
    LET open == {k \in banks : out[k] \in {"missing", "rejected"}}
        live == {k \in BankKeys : m.ram.dev[BankOf(k)] # 0} \cup m.dirty
        takeable == open \cap (m.held \cup (BankKeys \ live))
    IN IF open = {} \/ out["old"] # "loaded" THEN m
       ELSE [m EXCEPT !.ram.dev = [s \in Short |->
                IF BankKey[s] \in takeable /\ @[s] = 0 THEN disk["old"].val[s] ELSE @[s]]]

\* drop_bindings_their_banks_lack: in memory only.
DropOrphans(m, released) ==
    IF m.ram.lamp # None /\ BankKey[m.ram.lamp] \in released /\ m.ram.dev[m.ram.lamp] = 0
    THEN [m EXCEPT !.ram.lamp = None] ELSE m

\* hydrate_physical_devices_of: a bank that loads is authoritative.
HydrateDevices(m, out, banks) ==
    LET loaded == [m EXCEPT !.ram.dev = [s \in Short |->
                     IF BankKey[s] \in banks /\ out[BankKey[s]] = "loaded"
                     THEN disk[BankKey[s]].val ELSE @[s]]]
        taken == FromOldSlot(loaded, out, banks)
        d == Decide(out, banks)
        settled == [Mark(taken, d.rewrite) EXCEPT !.held = (@ \ d.settled) \cup d.waiting]
    IN IF banks = {} THEN m ELSE DropOrphans(settled, m.held \ settled.held)

\* hydrate_vl_slice: a binding is kept if its device is there or its bank waits.
HydrateLamps(m, out) ==
    LET s == disk["lamps"].val
        kept == IF s # None /\ (BankKey[s] \in m.held \/ m.ram.dev[s] # 0) THEN s ELSE None
        loaded == CASE out["lamps"] = "loaded" -> [m EXCEPT !.ram.lamp = kept]
                    [] out["lamps"] = "rejected" -> Mark(m, {"lamps"})
                    [] OTHER -> m
    IN Settle(loaded, "lamps", out["lamps"] = "unread")

\* hydrate_all over the slices in which: groups, devices, lamps, globals.
Hydrate(m, out, which) ==
    LET plain(n, k) == IF k \in which THEN HydratePlain(n, out, k) ELSE n
        lamps(n) == IF "lamps" \in which THEN HydrateLamps(n, out) ELSE n
        devices == HydrateDevices(plain(m, "groups"), out, which \cap BankKeys)
    IN plain(plain(lamps(devices), "hcl"), "ha")

\* Ghost: what this process now knows of the store. The old slot is read when
\* a bank did not load.
Learn(out, which) ==
    LET open == {k \in which \cap BankKeys : out[k] \in {"missing", "rejected"}}
        read == (which \ {"old"}) \cup {k \in {"old"} : open # {}}
    IN [k \in Key |-> IF k \in read /\ out[k] # "unread" THEN disk[k] ELSE known[k]]

Unread(n) == {u \in SUBSET FailingReads : Cardinality(u) <= n}
ReadBudget == MaxFaults - used.faults

\* hydrate_from_store, before any worker runs.
Boot(unread) ==
    /\ pc = "down"
    /\ LET out == Outcomes(unread) IN
        /\ mem' = Hydrate(mem, out, Key) /\ known' = Learn(out, Key)
    /\ pc' = "idle" /\ Spend(Cardinality(unread))
    /\ UNCHANGED <<disk, todo, importing, stage, firmwareOpen, queue, report, owed>>

EntitiesOfSliceOnly(m, k) == IF k = "old" THEN BankKeys ELSE {k}

\* The records a slice holds in memory m: a bank's devices, and the lamp bound
\* to one of them.
EntitiesOf(m, k) ==
    LET banks == IF k = "old" THEN BankKeys ELSE {k} IN
    CASE k \in BankKeys \cup {"old"} ->
           banks \cup {l \in {"lamps"} : m.ram.lamp # None /\ BankKey[m.ram.lamp] \in banks}
      [] OTHER -> {k}

\* replaced_entities: of the slices written and of those no longer held, the
\* records they held before the reload and after it.
Replaced(before, after, written) ==
    UNION {EntitiesOf(before, k) \cup EntitiesOf(after, k) :
             k \in written \cup (before.held \ after.held)}

\* reread_held_slices: the waiting slices only, the old slot with the banks.
Reread(unread) ==
    /\ pc = "idle" /\ mem.held # {} /\ ~firmwareOpen
    /\ unread \subseteq mem.held \cup {"old"}
    /\ LET out == Outcomes(unread)
           m == Hydrate(mem, out, mem.held)
       IN /\ mem' = m /\ known' = Learn(out, mem.held)
          /\ queue' = queue \cup Replaced(mem, m, {})
    /\ Spend(Cardinality(unread))
    /\ UNCHANGED <<disk, pc, todo, importing, stage, firmwareOpen, report, owed>>

----------------------------------------------------------------------------
(* Changes the worker applies to the registry.                             *)
Edited(m) ==
    /\ pc = "idle" /\ used.edits < MaxEdits
    /\ mem' = m /\ used' = [used EXCEPT !.edits = @ + 1]
    /\ UNCHANGED <<disk, pc, todo, importing, stage, firmwareOpen, queue, report, known, owed>>

EditPlain(k) == Edited(Mark([mem EXCEPT !.ram[k] = 1 - @], {k}))

\* switch_hcl_schedule: the write is paced.
SwitchSchedule == Edited([mem EXCEPT !.ram.hcl = 1 - @, !.switched = TRUE])

DiscoverDevice(s) ==
    /\ mem.ram.dev[s] = 0
    /\ Edited(Mark([mem EXCEPT !.ram.dev[s] = 1], {BankKey[s]}))

\* apply_physical_device_forget unbinds the lamp.
ForgetDevice(s) ==
    /\ mem.ram.dev[s] # 0
    /\ LET bound == mem.ram.lamp = s IN
       Edited(Mark([mem EXCEPT !.ram.dev[s] = 0, !.ram.lamp = IF bound THEN None ELSE @],
                   {BankKey[s]} \cup (IF bound THEN {"lamps"} ELSE {})))

\* apply_virtual_lamp_bind.
BindLamp(s) ==
    /\ mem.ram.dev[s] # 0
    /\ Edited(Mark([mem EXCEPT !.ram.lamp = s], {"lamps"}))

----------------------------------------------------------------------------
(* The flush.                                                              *)
FlushOrder == <<"groups", "lamps", "bank0", "bank1", "hcl", "ha">>

\* DirtyFlags: a slice that is held keeps its mark and is not written.
Writable(m) == m.dirty \ m.held

FlushTodo(m) == {i \in DOMAIN FlushOrder : FlushOrder[i] \in Writable(m)}

\* Slices are written in order.
First(places) == CHOOSE i \in places : \A j \in places : i <= j

\* flush_paced closes the interval of waiting schedule switches.
SwitchesDue ==
    /\ pc = "idle" /\ mem.switched /\ "hcl" \notin mem.dirty
    /\ mem' = Mark(mem, {"hcl"})
    /\ UNCHANGED <<disk, pc, todo, importing, stage, firmwareOpen, queue, report, known, owed,
                   used>>

\* flush_persistence, on a turn where the debounce has passed.
FlushBegins ==
    /\ pc = "idle" /\ ~firmwareOpen /\ Writable(mem) # {}
    /\ pc' = "flush" /\ todo' = FlushTodo(mem)
    /\ UNCHANGED <<disk, mem, importing, stage, firmwareOpen, queue, report, known, owed, used>>

TakeKeepsSwitch(m, k) == [m EXCEPT !.dirty = @ \ {k}]

\* A mark is taken before the write; a schedule write carries the switches.
Take(m, k) == [m EXCEPT !.dirty = @ \ {k}, !.switched = @ /\ k # "hcl"]

FlushWrites ==
    /\ pc = "flush" /\ todo # {}
    /\ LET k == FlushOrder[First(todo)] IN
        /\ disk' = [disk EXCEPT ![k] = Slot("ok", Content(mem.ram, k))]
        /\ mem' = Take(mem, k)
        /\ known' = [known EXCEPT ![k] = disk'[k]]
    /\ todo' = todo \ {First(todo)}
    /\ UNCHANGED <<pc, importing, stage, firmwareOpen, queue, report, used, owed>>

NoRemark(m, k) == Take(m, k)

\* The slice is marked again; the switches its write would have carried too.
Remark(m, k) == Mark(Take(m, k), {k})

FlushFails ==
    /\ pc = "flush" /\ todo # {} /\ used.faults < MaxFaults
    /\ mem' = Remark(mem, FlushOrder[First(todo)]) /\ todo' = todo \ {First(todo)}
    /\ Spend(1)
    /\ UNCHANGED <<disk, pc, importing, stage, firmwareOpen, queue, report, known, owed>>

FlushEnds ==
    /\ pc = "flush" /\ todo = {}
    /\ pc' = IF importing = None THEN "idle" ELSE "import"
    /\ UNCHANGED <<disk, mem, todo, importing, stage, firmwareOpen, queue, report, known, owed,
                   used>>

----------------------------------------------------------------------------
(* Imports.                                                                *)
\* stage_import, by the HTTP server; a second one is Busy.
StageImport(slices) ==
    /\ pc # "down" /\ stage = None /\ used.imports < MaxImports
    /\ stage' = slices /\ used' = [used EXCEPT !.imports = @ + 1] /\ report' = "none"
    /\ UNCHANGED <<disk, mem, pc, todo, importing, firmwareOpen, queue, known, owed>>

\* evict_stale_import: the command then finds no stage.
StageExpires ==
    /\ pc = "idle" /\ stage # None
    /\ stage' = None /\ report' = "refused"
    /\ UNCHANGED <<disk, mem, pc, todo, importing, firmwareOpen, queue, known, owed, used>>

\* flush_before_import: waiting switches and dirty slices go first.
ImportBegins ==
    /\ pc = "idle" /\ stage # None
    /\ importing' = [slices |-> stage, written |-> {}, failed |-> FALSE] /\ stage' = None
    /\ LET m == IF mem.switched THEN [Mark(mem, {"hcl"}) EXCEPT !.switched = FALSE] ELSE mem IN
        /\ mem' = m
        /\ todo' = IF firmwareOpen THEN {} ELSE FlushTodo(m)
    /\ pc' = "flush"
    /\ UNCHANGED <<disk, firmwareOpen, queue, report, known, owed, used>>

Refuse ==
    /\ importing' = None /\ pc' = "idle" /\ report' = "refused" /\ todo' = {}

\* keep_decodable (no family among these keys), then write_staged.
ImportValidates ==
    /\ pc = "import"
    /\ LET slices == importing.slices
           good == {i \in DOMAIN slices : slices[i].slot.st = "ok"}
       IN
       IF good = {} \/ firmwareOpen THEN Refuse
       ELSE /\ pc' = "write" /\ todo' = good
            /\ importing' = [importing EXCEPT !.failed = good # DOMAIN slices]
            /\ UNCHANGED report
    /\ UNCHANGED <<disk, mem, stage, firmwareOpen, queue, known, owed, used>>

ImportWrites ==
    /\ pc = "write"
    /\ LET x == importing.slices[First(todo)] IN
        /\ disk' = [disk EXCEPT ![x.key] = x.slot]
        /\ importing' = [importing EXCEPT !.written = @ \cup {x.key}]
    /\ todo' = todo \ {First(todo)} /\ pc' = IF todo' = {} THEN "reload" ELSE "write"
    /\ UNCHANGED <<mem, stage, firmwareOpen, queue, report, known, owed, used>>

PartlyWritten == [importing EXCEPT !.failed = TRUE]

\* A write fails: what went before it is reloaded, and the answer says so.
ImportWriteFails ==
    /\ pc = "write" /\ used.faults < MaxFaults
    /\ Spend(1)
    /\ IF importing.written = {} THEN Refuse
       ELSE /\ importing' = PartlyWritten
            /\ pc' = "reload" /\ todo' = {} /\ UNCHANGED report
    /\ UNCHANGED <<disk, mem, stage, firmwareOpen, queue, known, owed>>

\* reload_written: every slice is read again, the written and the settled
\* ones are announced.
ImportReloads(unread) ==
    /\ pc = "reload"
    /\ LET out == Outcomes(unread)
           m == Hydrate(mem, out, Key)
       IN /\ mem' = m /\ known' = Learn(out, Key)
          /\ queue' = queue \cup Replaced(mem, m, importing.written)
    /\ Spend(Cardinality(unread))
    /\ report' = IF importing.failed THEN "partial" ELSE "ok"
    /\ importing' = None /\ pc' = "idle"
    /\ owed' = {"lamps"} \cap mem.dirty
    /\ UNCHANGED <<disk, todo, stage, firmwareOpen>>

\* withhold_until_read; the old slot has no hold of its own.
Withhold(m, ks) == [m EXCEPT !.held = @ \cup (ks \ {"old"})]

\* The reload stack is busy: the written slices are held.
ImportNotReloaded ==
    /\ pc = "reload" /\ used.faults < MaxFaults
    /\ Spend(1)
    /\ mem' = Withhold(mem, importing.written)
    /\ report' = "partial" /\ importing' = None /\ pc' = "idle"
    /\ owed' = owed \cup ({"old"} \cap importing.written)
    /\ UNCHANGED <<disk, todo, stage, firmwareOpen, queue, known>>

----------------------------------------------------------------------------
\* announce_queued, in a window that takes all; a refusing one takes none.
Announce ==
    /\ pc = "idle" /\ queue # {} /\ queue' = {}
    /\ UNCHANGED <<disk, mem, pc, todo, importing, stage, firmwareOpen, report, known, owed,
                   used>>

\* Another thread's firmware write opens and closes; only these turns tell.
FirmwareOpens ==
    /\ pc \in {"idle", "import"} /\ ~firmwareOpen /\ used.faults < MaxFaults
    /\ firmwareOpen' = TRUE /\ Spend(1)
    /\ UNCHANGED <<disk, mem, pc, todo, importing, stage, queue, report, known, owed>>

FirmwareCloses ==
    /\ pc \in {"idle", "import"} /\ firmwareOpen /\ firmwareOpen' = FALSE
    /\ UNCHANGED <<disk, mem, pc, todo, importing, stage, queue, report, known, owed, used>>

\* Power is lost between two writes: memory is gone.
LosePower ==
    /\ pc # "down" /\ used.faults < MaxFaults
    /\ Spend(1)
    /\ mem' = NewMem /\ pc' = "down" /\ todo' = {} /\ importing' = None /\ stage' = None
    /\ firmwareOpen' = FALSE /\ queue' = {} /\ report' = "none" /\ known' = Unknown
    /\ owed' = {}
    /\ UNCHANGED disk

BootStep == \E u \in Unread(ReadBudget) : Boot(u)
RereadStep == \E u \in Unread(ReadBudget) : Reread(u)
ReloadStep == \E u \in Unread(ReadBudget) : ImportReloads(u)
Edits ==
    \/ \E k \in Plain : EditPlain(k)
    \/ SwitchSchedule
    \/ \E s \in Short : DiscoverDevice(s) \/ ForgetDevice(s) \/ BindLamp(s)
FlushSteps == FlushWrites \/ FlushFails \/ FlushEnds
ImportSteps ==
    \/ ImportBegins \/ ImportValidates \/ ImportWrites \/ ImportWriteFails
    \/ ReloadStep \/ ImportNotReloaded

PersistNext ==
    \/ BootStep \/ RereadStep \/ Edits \/ SwitchesDue \/ FlushBegins \/ FlushSteps
    \/ (\E i \in Imports : StageImport(i)) \/ StageExpires \/ ImportSteps
    \/ Announce \/ FirmwareOpens \/ FirmwareCloses \/ LosePower

\* The worker takes its turns and a firmware write ends.
PersistFairness ==
    /\ WF_persistVars(BootStep) /\ WF_persistVars(RereadStep) /\ WF_persistVars(SwitchesDue)
    /\ WF_persistVars(FlushBegins \/ FlushSteps) /\ WF_persistVars(ImportSteps)
    /\ WF_persistVars(FirmwareCloses)

PersistSpec == PersistInit /\ [][PersistNext]_persistVars /\ PersistFairness

----------------------------------------------------------------------------

\* Slots, memory, marks and holds keep their shapes.
PersistTypeOK ==
    /\ \A k \in Key : disk[k].st \in {"absent", "bad", "ok"}
    /\ mem.ram.dev \in [Short -> {0, 1}] /\ mem.ram.lamp \in Short \cup {None}
    /\ mem.dirty \subseteq Key \ {"old"} /\ mem.held \subseteq Key \ {"old"}
    /\ pc \in {"down", "idle", "flush", "import", "write", "reload"}
    /\ queue \subseteq Key /\ report \in {"none", "ok", "partial", "refused"}

\* A flush writes a slice only when the worker knows what it replaces: its
\* stored copy was read (or is absent or garbage) since power-up, and for a
\* device bank that has no copy so was the old slot that may hold its devices.
NoBlindWrite ==
    [][\A k \in Key : pc = "flush" /\ disk'[k] # disk[k] =>
        /\ known[k] = disk[k]
        /\ k \in BankKeys /\ disk[k].st # "ok" => known["old"] # None]_persistVars

\* What the store would hydrate for k, were it read now.
Stored(k) == IF disk[k].st = "ok" THEN disk[k].val ELSE Content(NewRam, k)

\* Between turns, memory and store differ only in slices that are marked,
\* held, carried by a waiting schedule switch, or in a binding hydration
\* dropped from memory alone: no change is forgotten.
NothingForgotten ==
    pc = "idle" => \A k \in Key \ {"old"} :
        \/ k \in mem.dirty \cup mem.held
        \/ Content(mem.ram, k) = Stored(k)
        \/ k = "hcl" /\ mem.switched
        \/ k = "lamps" /\ mem.ram.lamp = None

\* A lamp is bound to a device the registry has, or to one of a bank that
\* waits to be read, or the lamp's own slice has yet to be read, unless an import
\* replaced the bank while a new binding had not been written.
BindingHasDevice ==
    pc = "idle" /\ mem.ram.lamp # None /\ "lamps" \notin owed =>
        \/ mem.ram.dev[mem.ram.lamp] # 0
        \/ {BankKey[mem.ram.lamp], "lamps"} \cap mem.held # {}

\* The worker ends a re-read of held slices, or a reload after a full flush.
Rehydrates ==
    /\ pc' = "idle"
    /\ \/ pc = "idle" /\ mem'.held # mem.held
       \/ pc = "reload" /\ Writable(mem) = {}

\* What no announcement covers: devices of an old slot an earlier import wrote
\* and did not reload, a binding an earlier import left without its device, and
\* one dropped from memory alone that comes back.
Unannounced(k) ==
    \/ k \in BankKeys \cup {"lamps"} /\ "old" \in owed
    \/ k = "lamps" /\ "lamps" \in owed
    \/ /\ k = "lamps" /\ mem.ram.lamp = None /\ mem'.ram.lamp # None
       /\ mem'.ram.dev[mem'.ram.lamp] = mem.ram.dev[mem'.ram.lamp]

\* What a reload or a re-read changes in memory is queued for announcement,
\* unless the flush before an import left a change of the worker's unwritten,
\* or it is one of the cases above.
ReplacedIsAnnounced ==
    [][Rehydrates => \A k \in Key \ {"old"} :
        \/ Content(mem'.ram, k) = Content(mem.ram, k)
        \/ k \in queue' \/ Unannounced(k)]_persistVars

\* An import answered ok is stored and in memory, or held until it is read;
\* one refused changed nothing in the store.
ImportAnswerTrue ==
    [][/\ report = "none" /\ report' = "ok" =>
            \A i \in DOMAIN importing.slices : LET x == importing.slices[i] IN
                /\ disk[x.key] = x.slot
                /\ x.key \in Key \ {"old", "lamps"} =>
                    Content(mem'.ram, x.key) = x.slot.val \/ x.key \in mem'.held
       /\ report = "none" /\ report' = "refused" /\ importing # None => importing.written = {}
      ]_persistVars

\* Once edits, failures and imports end, every held slice is read, every mark
\* written and no schedule switch waits.
Saved == <>[](pc = "idle" /\ mem.held = {} /\ mem.dirty = {} /\ ~mem.switched)


\* Between turns the registry's memory and its store account for each other,
\* and a binding for its device.
MemoryAccounted == PersistTypeOK /\ NothingForgotten /\ BindingHasDevice

\* What an import or a re-read did is told as it was: to the clients by
\* announcements, to the importer by its answer.
ReloadTold == ReplacedIsAnnounced /\ ImportAnswerTrue
=============================================================================
