--------------------- MODULE RegistryPersistenceProofs ---------------------
(***************************************************************************)
(* That the registry's memory and its store account for each other, that   *)
(* a flush overwrites nothing the worker does not know, and that a reload  *)
(* announces what it replaced, for every set of installed stores and of    *)
(* imports, any number of edits, imports, failed reads and writes and      *)
(* power losses.                                                           *)
(***************************************************************************)
EXTENDS RegistryPersistence, WellFoundedInduction, TLAPS

USE Zenon

----------------------------------------------------------------------------
(* The inductive invariant.                                                *)
Live == Key \ {"old"}

RamType ==
    [groups : {0, 1}, hcl : {0, 1}, ha : {0, 1}, lamp : Short \cup {None}, dev : [Short -> {0, 1}]]
MemType == [ram : RamType, dirty : SUBSET Live, held : SUBSET Live, switched : BOOLEAN]
ImportType == [slices : Imports, written : SUBSET Key, failed : BOOLEAN]

DiskOK(d) == DOMAIN d = Key /\ \A k \in Key : d[k] \in Slots(k)

TypeInv ==
    /\ DiskOK(disk) /\ mem \in MemType /\ DOMAIN known = Key
    /\ pc \in {"down", "idle", "flush", "import", "write", "reload"}
    /\ queue \subseteq Key /\ report \in {"none", "ok", "partial", "refused"}
    /\ owed \subseteq {"lamps", "old"}
    /\ stage = None \/ stage \in Imports
    /\ importing = None \/ importing \in ImportType

\* The slices of the import under way that are in the store and not in memory.
W == IF pc \in {"write", "reload"} THEN importing.written ELSE {}

\* Where the worker stands in a flush and in an import.
StageInv ==
    /\ pc = "down" => mem = NewMem
    /\ pc \in {"down", "idle"} => importing = None
    /\ pc \in {"import", "write", "reload"} => importing \in ImportType /\ ~mem.switched
    /\ pc = "import" => importing # None
    /\ importing # None => ~mem.switched
    /\ pc \in {"flush", "import"} /\ importing # None =>
        importing.written = {} /\ ~importing.failed
    /\ pc = "flush" => todo \subseteq DOMAIN FlushOrder /\ \A i \in todo : FlushOrder[i] \notin mem.held
    /\ pc = "reload" => todo = {}

\* What an import wrote is in the store, and it is all that decodes.
WrittenInv ==
    pc \in {"write", "reload"} =>
        /\ \A k \in W : disk[k].st = "ok"
        /\ pc = "write" => /\ todo # {} /\ todo \subseteq DOMAIN importing.slices
                           /\ \A i \in todo : importing.slices[i].slot.st = "ok"
        /\ ~importing.failed => \A i \in DOMAIN importing.slices \ todo :
            /\ importing.slices[i].key \in W
            /\ disk[importing.slices[i].key] = importing.slices[i].slot

\* Why memory m and the store may differ in slice k.
Accounted(m, k) ==
    \/ k \in m.dirty
    \/ k \in m.held /\ disk[k].st = "ok"
    \/ Content(m.ram, k) = Stored(k)
    \/ k = "hcl" /\ m.switched
    \/ k = "lamps" /\ m.ram.lamp = None

\* The device of the lamp's binding is there, or a slice that may tell is held.
Bound(m) ==
    m.ram.lamp # None =>
        \/ m.ram.dev[m.ram.lamp] # 0 \/ BankKey[m.ram.lamp] \in m.held
        \/ "lamps" \in m.held /\ disk["lamps"].st = "ok"

\* The worker knows what a write of k would replace.
Learned(k) ==
    known[k] = disk[k] /\ (k \in BankKeys /\ disk[k].st # "ok" => known["old"] # None)

\* Bank k has devices to expect from the old slot.
OldIsDue(k) == k \notin mem.dirty \cup mem.held /\ disk[k].st # "ok" /\ disk["old"].st # "absent"

AccountInv ==
    pc # "down" =>
        /\ \A k \in Live : k \in W \/ Accounted(mem, k)
        /\ "lamps" \in owed \/ Bound(mem)
        /\ \A k \in Live : k \in mem.held \cup W \/ Learned(k)
        /\ "old" \in owed \cup W \/ \A k \in BankKeys : ~OldIsDue(k)

IInv == TypeInv /\ StageInv /\ WrittenInv /\ AccountInv

----------------------------------------------------------------------------
(* Keys and records.                                                       *)
LEMMA KeyFacts ==
    /\ Key = {"groups", "hcl", "ha", "bank0", "bank1", "old", "lamps"}
    /\ Live = {"groups", "hcl", "ha", "bank0", "bank1", "lamps"}
    /\ BankKeys = {"bank0", "bank1"} /\ Plain = {"groups", "hcl", "ha"} /\ Short = {0, 1}
    /\ BankKey[0] = "bank0" /\ BankKey[1] = "bank1"
    /\ BankOf("bank0") = 0 /\ BankOf("bank1") = 1
<1>1. BankKey[0] = "bank0" /\ BankKey[1] = "bank1"
    BY SMT DEF BankKey, Short
<1>2. BankKeys = {"bank0", "bank1"}
    BY <1>1 DEF BankKeys, Short
<1>3. BankOf("bank0") = 0
    BY <1>1 DEF BankOf, Short
<1>4. BankOf("bank1") = 1
    BY <1>1 DEF BankOf, Short
<1> QED
    BY <1>1, <1>2, <1>3, <1>4 DEF Key, Live, Plain, Short

\* A bank and its short address name each other.
LEMMA BankFacts ==
    /\ \A s \in Short : BankKey[s] \in BankKeys /\ BankOf(BankKey[s]) = s
    /\ \A k \in BankKeys : BankOf(k) \in Short /\ BankKey[BankOf(k)] = k
    /\ BankKeys \subseteq Live /\ Plain \subseteq Live /\ "lamps" \in Live /\ Live \subseteq Key
    /\ Live = Plain \cup BankKeys \cup {"lamps"}
    /\ Plain \cap BankKeys = {} /\ "lamps" \notin Plain \cup BankKeys
BY KeyFacts

LEMMA ContentFacts ==
    ASSUME NEW r
    PROVE  /\ \A k \in Plain : Content(r, k) = r[k]
           /\ Content(r, "lamps") = r.lamp
           /\ \A s \in Short : Content(r, BankKey[s]) = r.dev[s]
<1>1. ASSUME NEW k \in Plain PROVE Content(r, k) = r[k]
    <2>1. k # "lamps" /\ k \notin BankKeys
        BY BankFacts
    <2> QED
        BY <2>1 DEF Content
<1>2. Content(r, "lamps") = r.lamp
    <2>1. "lamps" \notin Plain /\ "lamps" \notin BankKeys
        BY BankFacts
    <2> QED
        BY <2>1 DEF Content
<1>3. ASSUME NEW s \in Short PROVE Content(r, BankKey[s]) = r.dev[s]
    <2>1. BankKey[s] \in BankKeys /\ BankKey[s] \notin Plain /\ BankKey[s] # "lamps"
          /\ BankOf(BankKey[s]) = s
        BY BankFacts
    <2> QED
        BY <2>1 DEF Content
<1> QED
    BY <1>1, <1>2, <1>3

\* Changing one field of the registry, or of its records, leaves the others.
LEMMA MemFields ==
    ASSUME NEW m \in MemType
    PROVE  /\ m.ram \in RamType /\ m.dirty \subseteq Live /\ m.held \subseteq Live
           /\ m.switched \in BOOLEAN
BY DEF MemType

LEMMA SetDirty ==
    ASSUME NEW m \in MemType, NEW S \in SUBSET Live, NEW n, n = [m EXCEPT !.dirty = S]
    PROVE  /\ n.dirty = S /\ n.ram = m.ram /\ n.held = m.held /\ n.switched = m.switched
           /\ n \in MemType
BY SMT DEF MemType

LEMMA SetHeld ==
    ASSUME NEW m \in MemType, NEW S \in SUBSET Live, NEW n, n = [m EXCEPT !.held = S]
    PROVE  /\ n.held = S /\ n.ram = m.ram /\ n.dirty = m.dirty /\ n.switched = m.switched
           /\ n \in MemType
BY SMT DEF MemType

LEMMA SetRam ==
    ASSUME NEW m \in MemType, NEW r \in RamType, NEW n, n = [m EXCEPT !.ram = r]
    PROVE  /\ n.ram = r /\ n.held = m.held /\ n.dirty = m.dirty /\ n.switched = m.switched
           /\ n \in MemType
BY SMT DEF MemType

LEMMA SetRamTwice ==
    ASSUME NEW m \in MemType, NEW q, NEW r, NEW u, u = [m EXCEPT !.ram = q]
    PROVE  [u EXCEPT !.ram = r] = [m EXCEPT !.ram = r]
<1>1. DOMAIN m = {"ram", "dirty", "held", "switched"}
    BY SMT DEF MemType
<1> QED
    BY <1>1

LEMMA SetSwitched ==
    ASSUME NEW m \in MemType, NEW n, n = [m EXCEPT !.switched = TRUE]
    PROVE  /\ n.ram = m.ram /\ n.held = m.held /\ n.dirty = m.dirty /\ n.switched = TRUE
           /\ n \in MemType
<1>1. m = [ram |-> m.ram, dirty |-> m.dirty, held |-> m.held, switched |-> m.switched]
    BY DEF MemType
<1>2. n = [ram |-> m.ram, dirty |-> m.dirty, held |-> m.held, switched |-> TRUE]
    BY <1>1
<1> QED
    BY <1>2, MemFields DEF MemType

LEMMA SetUnswitched ==
    ASSUME NEW m \in MemType, NEW n, n = [m EXCEPT !.switched = FALSE]
    PROVE  /\ n.ram = m.ram /\ n.held = m.held /\ n.dirty = m.dirty /\ n.switched = FALSE
           /\ n \in MemType
<1>1. m = [ram |-> m.ram, dirty |-> m.dirty, held |-> m.held, switched |-> m.switched]
    BY DEF MemType
<1>2. n = [ram |-> m.ram, dirty |-> m.dirty, held |-> m.held, switched |-> FALSE]
    BY <1>1
<1> QED
    BY <1>2, MemFields DEF MemType

LEMMA RamFields ==
    ASSUME NEW r \in RamType
    PROVE  /\ r.lamp \in Short \cup {None} /\ r.dev \in [Short -> {0, 1}]
           /\ \A k \in Plain : r[k] \in {0, 1}
BY SMT DEF RamType, Plain

LEMMA SetLamp ==
    ASSUME NEW r \in RamType, NEW v \in Short \cup {None}, NEW n, n = [r EXCEPT !.lamp = v]
    PROVE  n \in RamType /\ n.lamp = v /\ n.dev = r.dev /\ \A k \in Plain : n[k] = r[k]
BY SMT DEF RamType, Plain

LEMMA SetDev ==
    ASSUME NEW r \in RamType, NEW v \in [Short -> {0, 1}], NEW n, n = [r EXCEPT !.dev = v]
    PROVE  n \in RamType /\ n.dev = v /\ n.lamp = r.lamp /\ \A k \in Plain : n[k] = r[k]
BY SMT DEF RamType, Plain

LEMMA SetPlain ==
    ASSUME NEW r \in RamType, NEW v \in {0, 1}, NEW j \in Plain, NEW n, n = [r EXCEPT ![j] = v]
    PROVE  /\ n \in RamType /\ n[j] = v /\ n.lamp = r.lamp /\ n.dev = r.dev
           /\ \A k \in Plain \ {j} : n[k] = r[k]
BY SMT DEF RamType, Plain

LEMMA SlotFacts ==
    ASSUME NEW d, DiskOK(d), NEW k \in Key
    PROVE  /\ d[k].st \in {"absent", "bad", "ok"} /\ d[k] # None
           /\ d[k].st = "ok" => d[k].val \in Values(k)
<1>1. d[k] \in Slots(k)
    BY DEF DiskOK
<1>2. d[k] # None
    BY <1>1, PersistAssumption
<1>3. CASE d[k] \in {AbsentSlot, BadSlot}
    BY <1>2, <1>3, SMT DEF AbsentSlot, BadSlot, Slot
<1>4. CASE d[k] \in {Slot("ok", v) : v \in Values(k)}
    <2>1. PICK v \in Values(k) : d[k] = Slot("ok", v)
        BY <1>4
    <2> QED
        BY <1>2, <2>1, SMT DEF Slot
<1> QED
    BY <1>1, <1>3, <1>4 DEF Slots

LEMMA ValueFacts ==
    /\ \A k \in Plain \cup BankKeys : Values(k) = {0, 1}
    /\ Values("lamps") = Short \cup {None} /\ Values("old") = [Short -> {0, 1}]
<1>1. ASSUME NEW k \in Plain \cup BankKeys PROVE Values(k) = {0, 1}
    <2>1. k # "old" /\ k # "lamps"
        BY KeyFacts
    <2> QED
        BY <2>1 DEF Values
<1>2. Values("lamps") = Short \cup {None}
    BY DEF Values
<1>3. Values("old") = [Short -> {0, 1}]
    BY DEF Values
<1> QED
    BY <1>1, <1>2, <1>3

\* What becomes of reading a slot.
LEMMA OutcomeFacts ==
    ASSUME DiskOK(disk), NEW unread, NEW k \in Key
    PROVE  LET o == Outcomes(unread)[k] IN
           /\ o \in {"unread", "loaded", "rejected", "missing"}
           /\ o = "unread" <=> k \in unread
           /\ o = "loaded" <=> k \notin unread /\ disk[k].st = "ok"
           /\ o = "rejected" <=> k \notin unread /\ disk[k].st = "bad"
           /\ o = "missing" <=> k \notin unread /\ disk[k].st = "absent"
<1>1. Outcomes(unread)[k] = Outcome(k, unread)
    BY DEF Outcomes
<1>2. disk[k].st \in {"absent", "bad", "ok"}
    BY SlotFacts
<1>3. CASE k \in unread
    BY <1>1, <1>3 DEF Outcome
<1>4. CASE k \notin unread /\ disk[k].st = "ok"
    BY <1>1, <1>4 DEF Outcome
<1>5. CASE k \notin unread /\ disk[k].st = "bad"
    BY <1>1, <1>5 DEF Outcome
<1>6. CASE k \notin unread /\ disk[k].st = "absent"
    BY <1>1, <1>6 DEF Outcome
<1> QED
    BY <1>2, <1>3, <1>4, <1>5, <1>6

LEMMA LoadedFacts ==
    ASSUME DiskOK(disk), NEW unread, NEW k \in Key, Outcomes(unread)[k] = "loaded"
    PROVE  disk[k].st = "ok" /\ disk[k].val \in Values(k)
<1>1. disk[k].st = "ok"
    BY OutcomeFacts, SMT
<1> QED
    BY <1>1, SlotFacts

----------------------------------------------------------------------------
(* What hydration does, slice by slice.                                    *)
\* From memory m to memory n slice k was read.
PlainRead(m, n, out, k) ==
    /\ n.ram[k] = IF out[k] = "loaded" THEN disk[k].val ELSE m.ram[k]
    /\ k \in n.held <=> out[k] = "unread"
    /\ out[k] = "rejected" => k \in n.dirty

\* Nothing of slice k changed.
PlainSame(m, n, k) == n.ram[k] = m.ram[k] /\ (k \in n.held <=> k \in m.held)

LEMMA ReadPlain ==
    ASSUME DiskOK(disk), NEW unread, NEW m \in MemType, NEW k \in Plain
    PROVE  LET out == Outcomes(unread)
               n == HydratePlain(m, out, k)
           IN /\ n \in MemType /\ n.switched = m.switched /\ m.dirty \subseteq n.dirty
              /\ n.ram.dev = m.ram.dev /\ n.ram.lamp = m.ram.lamp
              /\ PlainRead(m, n, out, k)
              /\ \A j \in Plain \ {k} : PlainSame(m, n, j)
              /\ \A j \in Live \ {k} : (j \in n.dirty <=> j \in m.dirty) /\ (j \in n.held <=> j \in m.held)
<1> DEFINE out == Outcomes(unread)
           loaded == IF out[k] = "loaded" THEN [m EXCEPT !.ram[k] = disk[k].val] ELSE m
           marked == IF out[k] = "rejected" \/ (k = "ha" /\ out[k] = "missing")
                     THEN Mark(loaded, {k}) ELSE loaded
           n == Settle(marked, k, out[k] = "unread")
<1>0. k \in Live /\ k \in Key
    BY BankFacts
<1>1. out[k] = "loaded" => disk[k].val \in {0, 1}
    <2>1. out[k] = "loaded" => disk[k].st = "ok"
        BY <1>0, OutcomeFacts
    <2>2. disk[k].st = "ok" => disk[k].val \in Values(k)
        BY <1>0, SlotFacts
    <2> QED
        BY <2>1, <2>2, ValueFacts
<1>2. /\ loaded \in MemType /\ loaded.switched = m.switched /\ loaded.dirty = m.dirty
      /\ loaded.held = m.held /\ loaded.ram.dev = m.ram.dev /\ loaded.ram.lamp = m.ram.lamp
      /\ loaded.ram[k] = IF out[k] = "loaded" THEN disk[k].val ELSE m.ram[k]
      /\ \A j \in Plain \ {k} : loaded.ram[j] = m.ram[j]
    <2>1. CASE out[k] = "loaded"
        <3> DEFINE r == [m.ram EXCEPT ![k] = disk[k].val]
        <3>1. loaded = [m EXCEPT !.ram = r]
            BY <2>1, SMT DEF MemType
        <3>2. m.ram \in RamType /\ disk[k].val \in {0, 1}
            BY <1>1, <2>1, MemFields
        <3>3. /\ r \in RamType /\ r[k] = disk[k].val /\ r.lamp = m.ram.lamp /\ r.dev = m.ram.dev
              /\ \A j \in Plain \ {k} : r[j] = m.ram[j]
            BY <3>2, SetPlain, SMT
        <3> HIDE DEF r, loaded
        <3>4. /\ loaded.ram = r /\ loaded.held = m.held /\ loaded.dirty = m.dirty
              /\ loaded.switched = m.switched /\ loaded \in MemType
            BY <3>1, <3>3, SetRam, SMT
        <3> QED
            BY <2>1, <3>3, <3>4
    <2>2. CASE out[k] # "loaded"
        BY <2>2
    <2> QED
        BY <2>1, <2>2
<1> HIDE DEF loaded
<1>3. /\ marked \in MemType /\ marked.switched = m.switched /\ m.dirty \subseteq marked.dirty
      /\ marked.held = m.held /\ marked.ram = loaded.ram
      /\ out[k] = "rejected" => k \in marked.dirty
      /\ \A j \in Live \ {k} : j \in marked.dirty <=> j \in m.dirty
    <2>1. m.dirty \subseteq Live
        BY MemFields
    <2>2. Mark(loaded, {k}) = [loaded EXCEPT !.dirty = m.dirty \cup {k}]
        BY <1>2 DEF Mark
    <2>3. m.dirty \cup {k} \in SUBSET Live
        BY <1>0, <2>1
    <2>4. LET x == Mark(loaded, {k}) IN
          /\ x.dirty = m.dirty \cup {k} /\ x.ram = loaded.ram /\ x.held = loaded.held
          /\ x.switched = loaded.switched /\ x \in MemType
        BY <1>2, <2>2, <2>3, SetDirty, SMTT(20)
    <2> QED
        BY <1>2, <2>4
<1> HIDE DEF marked
<1>4. /\ n \in MemType /\ n.switched = m.switched /\ n.dirty = marked.dirty /\ n.ram = marked.ram
      /\ k \in n.held <=> out[k] = "unread"
      /\ \A j \in Live \ {k} : j \in n.held <=> j \in m.held
    <2>1. m.held \subseteq Live
        BY MemFields
    <2>2. n = [marked EXCEPT !.held = IF out[k] = "unread" THEN m.held \cup {k} ELSE m.held \ {k}]
        BY <1>3 DEF Settle
    <2> DEFINE h == IF out[k] = "unread" THEN m.held \cup {k} ELSE m.held \ {k}
    <2>3. h \in SUBSET Live
        BY <1>0, <2>1
    <2>4. (k \in h <=> out[k] = "unread") /\ \A j \in Live \ {k} : j \in h <=> j \in m.held
        OBVIOUS
    <2>5. n = [marked EXCEPT !.held = h]
        BY <2>2
    <2> HIDE DEF h, n
    <2>6. /\ n.held = h /\ n.ram = marked.ram /\ n.dirty = marked.dirty
          /\ n.switched = marked.switched /\ n \in MemType
        BY <1>3, <2>3, <2>5, SetHeld, SMT
    <2> QED
        BY <1>3, <2>4, <2>6
<1>5. n = HydratePlain(m, out, k)
    BY DEF HydratePlain, n, marked, loaded
<1> HIDE DEF n
<1>6. Plain \subseteq Live
    BY BankFacts
<1> QED
    BY <1>2, <1>3, <1>4, <1>5, <1>6 DEF PlainRead, PlainSame

\* From memory m to memory n the bank of s was read.
BankRead(m, n, out, s) ==
    LET b == BankKey[s] IN
    /\ out[b] = "loaded" => n.ram.dev[s] = disk[b].val /\ b \notin n.held
    /\ out[b] = "unread" => n.ram.dev[s] = m.ram.dev[s] /\ b \in n.held
    /\ out[b] \in {"missing", "rejected"} =>
        /\ b \in n.held <=> out["old"] = "unread"
        /\ out["old"] \in {"loaded", "rejected"} => b \in n.dirty
        /\ out["old"] # "loaded" => n.ram.dev[s] = m.ram.dev[s]
        /\ out[b] = "rejected" /\ out["old"] = "missing" => b \in n.dirty

\* Nothing of the bank of s changed.
BankSame(m, n, s) ==
    n.ram.dev[s] = m.ram.dev[s] /\ (BankKey[s] \in n.held <=> BankKey[s] \in m.held)

\* The binding of m, unless its bank was read and lacks the device.
Unorphaned(m, n) ==
    IF m.ram.lamp # None /\ BankKey[m.ram.lamp] \in m.held \ n.held /\ n.ram.dev[m.ram.lamp] = 0
    THEN None ELSE m.ram.lamp

LEMMA DecideFacts ==
    ASSUME DiskOK(disk), NEW unread, NEW banks \in SUBSET BankKeys
    PROVE  LET out == Outcomes(unread)
               d == Decide(out, banks)
           IN /\ d.rewrite \subseteq banks /\ d.settled \subseteq banks /\ d.waiting \subseteq banks
              /\ \A k \in banks :
                  /\ out[k] = "loaded" => k \in d.settled /\ k \notin d.waiting
                  /\ out[k] = "unread" => k \in d.waiting
                  /\ out[k] \in {"missing", "rejected"} =>
                      /\ out["old"] = "unread" => k \in d.waiting
                      /\ out["old"] # "unread" => k \in d.settled /\ k \notin d.waiting
                      /\ out["old"] \in {"loaded", "rejected"} => k \in d.rewrite
                      /\ out[k] = "rejected" /\ out["old"] = "missing" => k \in d.rewrite
<1> DEFINE out == Outcomes(unread)
           of(o) == {k \in banks : out[k] = o}
           open == of("missing") \cup of("rejected")
           rewrite == CASE out["old"] \in {"loaded", "rejected"} -> open
                        [] out["old"] = "missing" -> of("rejected")
                        [] OTHER -> {}
           waiting == IF out["old"] = "unread" THEN open ELSE {}
           d == Decide(out, banks)
<1>1. /\ d.rewrite = rewrite /\ d.settled = of("loaded") \cup (open \ waiting)
      /\ d.waiting = waiting \cup of("unread")
    BY SMT DEF Decide
<1>2. /\ out["old"] \in {"loaded", "rejected"} => rewrite = open
      /\ out["old"] = "missing" => rewrite = of("rejected")
      /\ out["old"] = "unread" => rewrite = {}
    <2>1. CASE out["old"] \in {"loaded", "rejected"}
        BY <2>1
    <2>2. CASE out["old"] = "missing"
        BY <2>2
    <2>3. CASE out["old"] = "unread"
        BY <2>3
    <2> QED
        BY <2>1, <2>2, <2>3
<1>3. out["old"] \in {"unread", "loaded", "rejected", "missing"}
    BY OutcomeFacts, KeyFacts
<1> HIDE DEF d, rewrite
<1> QED
    BY <1>1, <1>2, <1>3 DEF d

\* The old slot fills banks that did not load and are not live.
LEMMA OldSlotFacts ==
    ASSUME DiskOK(disk), NEW unread, NEW m \in MemType, NEW banks \in SUBSET BankKeys
    PROVE  LET out == Outcomes(unread)
               n == FromOldSlot(m, out, banks)
           IN /\ n \in MemType /\ n.switched = m.switched /\ n.dirty = m.dirty /\ n.held = m.held
              /\ n.ram.lamp = m.ram.lamp /\ \A k \in Plain : n.ram[k] = m.ram[k]
              /\ \A s \in Short :
                  n.ram.dev[s] = m.ram.dev[s]
                  \/ /\ out["old"] = "loaded" /\ BankKey[s] \in banks
                     /\ out[BankKey[s]] \in {"missing", "rejected"}
<1> DEFINE out == Outcomes(unread)
           open == {k \in banks : out[k] \in {"missing", "rejected"}}
           live == {k \in BankKeys : m.ram.dev[BankOf(k)] # 0} \cup m.dirty
           takeable == open \cap (m.held \cup (BankKeys \ live))
           n == FromOldSlot(m, out, banks)
<1>1. CASE open = {} \/ out["old"] # "loaded"
    <2>1. n = m
        BY <1>1 DEF FromOldSlot
    <2> QED
        BY <2>1
<1>2. CASE ~(open = {} \/ out["old"] # "loaded")
    <2> DEFINE v == [s \in Short |-> IF BankKey[s] \in takeable /\ m.ram.dev[s] = 0
                                     THEN disk["old"].val[s] ELSE m.ram.dev[s]]
               r == [m.ram EXCEPT !.dev = v]
    <2>1. n = [m EXCEPT !.ram.dev = v]
        <3>1. FromOldSlot(m, out, banks) =
                [m EXCEPT !.ram.dev = [s \in Short |->
                    IF BankKey[s] \in takeable /\ @[s] = 0 THEN disk["old"].val[s] ELSE @[s]]]
            BY <1>2 DEF FromOldSlot
        <3> QED
            BY <3>1
    <2>2. m.ram \in RamType /\ m.ram.dev \in [Short -> {0, 1}]
        BY MemFields, RamFields
    <2>3. disk["old"].val \in [Short -> {0, 1}]
        <3>1. "old" \in Key
            BY KeyFacts
        <3>3. disk["old"].val \in Values("old")
            BY <1>2, <3>1, LoadedFacts
        <3> QED
            BY <3>3, ValueFacts
    <2>4. v \in [Short -> {0, 1}]
        BY <2>2, <2>3
    <2>5. \A s \in Short : v[s] = m.ram.dev[s] \/ BankKey[s] \in open
        OBVIOUS
    <2> HIDE DEF v
    <2>6. n = [m EXCEPT !.ram = r]
        BY <2>1, SMT DEF MemType, RamType
    <2>7. r \in RamType /\ r.dev = v /\ r.lamp = m.ram.lamp /\ \A k \in Plain : r[k] = m.ram[k]
        BY <2>2, <2>4, SetDev, SMT
    <2> HIDE DEF r, n
    <2>8. /\ n.ram = r /\ n.held = m.held /\ n.dirty = m.dirty /\ n.switched = m.switched
          /\ n \in MemType
        BY <2>6, <2>7, SetRam, SMT
    <2> QED
        BY <1>2, <2>5, <2>7, <2>8 DEF n
<1> QED
    BY <1>1, <1>2

LEMMA OrphanFacts ==
    ASSUME NEW m \in MemType, NEW released
    PROVE  LET n == DropOrphans(m, released)
           IN /\ n \in MemType /\ n.switched = m.switched /\ n.dirty = m.dirty /\ n.held = m.held
              /\ n.ram.dev = m.ram.dev /\ \A k \in Plain : n.ram[k] = m.ram[k]
              /\ n.ram.lamp = IF m.ram.lamp # None /\ BankKey[m.ram.lamp] \in released
                                 /\ m.ram.dev[m.ram.lamp] = 0
                              THEN None ELSE m.ram.lamp
<1> DEFINE n == DropOrphans(m, released)
           orphan == m.ram.lamp # None /\ BankKey[m.ram.lamp] \in released
                     /\ m.ram.dev[m.ram.lamp] = 0
           r == [m.ram EXCEPT !.lamp = None]
<1>1. CASE orphan
    <2>1. n = [m EXCEPT !.ram.lamp = None]
        BY <1>1 DEF DropOrphans
    <2>2. n = [m EXCEPT !.ram = r]
        BY <2>1, SMT DEF MemType
    <2>3. m.ram \in RamType
        BY MemFields
    <2>4. r \in RamType /\ r.lamp = None /\ r.dev = m.ram.dev /\ \A k \in Plain : r[k] = m.ram[k]
        BY <2>3, SetLamp, SMT
    <2> HIDE DEF r, n
    <2>5. /\ n.ram = r /\ n.held = m.held /\ n.dirty = m.dirty /\ n.switched = m.switched
          /\ n \in MemType
        BY <2>2, <2>4, SetRam, SMT
    <2> QED
        BY <1>1, <2>4, <2>5 DEF n
<1>2. CASE ~orphan
    <2>1. n = m
        BY <1>2 DEF DropOrphans
    <2> QED
        BY <1>2, <2>1
<1> QED
    BY <1>1, <1>2

LEMMA ReadDevices ==
    ASSUME DiskOK(disk), NEW unread, NEW m \in MemType, NEW banks \in SUBSET BankKeys
    PROVE  LET out == Outcomes(unread)
               n == HydrateDevices(m, out, banks)
           IN /\ n \in MemType /\ n.switched = m.switched /\ m.dirty \subseteq n.dirty
              /\ \A k \in Plain : n.ram[k] = m.ram[k]
              /\ \A s \in Short :
                  IF BankKey[s] \in banks THEN BankRead(m, n, out, s) ELSE BankSame(m, n, s)
              /\ \A j \in Live \ banks :
                  (j \in n.dirty <=> j \in m.dirty) /\ (j \in n.held <=> j \in m.held)
              /\ n.ram.lamp = Unorphaned(m, n)
<1> DEFINE out == Outcomes(unread)
           v == [s \in Short |-> IF BankKey[s] \in banks /\ out[BankKey[s]] = "loaded"
                                 THEN disk[BankKey[s]].val ELSE m.ram.dev[s]]
           loaded == [m EXCEPT !.ram.dev = [s \in Short |->
                     IF BankKey[s] \in banks /\ out[BankKey[s]] = "loaded"
                     THEN disk[BankKey[s]].val ELSE @[s]]]
           taken == FromOldSlot(loaded, out, banks)
           d == Decide(out, banks)
           settled == [Mark(taken, d.rewrite) EXCEPT !.held = (@ \ d.settled) \cup d.waiting]
           dropped == DropOrphans(settled, m.held \ settled.held)
           n == HydrateDevices(m, out, banks)
<1>0. /\ m.ram \in RamType /\ m.ram.dev \in [Short -> {0, 1}] /\ m.dirty \subseteq Live
      /\ m.held \subseteq Live
    BY MemFields, RamFields
<1>1. CASE banks = {}
    <2>1. n = m
        BY <1>1 DEF HydrateDevices
    <2> QED
        BY <1>1, <2>1 DEF BankSame, Unorphaned
<1>2. CASE banks # {}
    <2>1. n = dropped
        BY <1>2 DEF HydrateDevices
    <2>2. v \in [Short -> {0, 1}]
        <3>1. ASSUME NEW s \in Short, out[BankKey[s]] = "loaded" PROVE disk[BankKey[s]].val \in {0, 1}
            <4>1. BankKey[s] \in Key /\ BankKey[s] \in BankKeys
                BY BankFacts
            <4>3. disk[BankKey[s]].val \in Values(BankKey[s])
                BY <3>1, <4>1, LoadedFacts
            <4> QED
                BY <4>1, <4>3, ValueFacts
        <3>2. \A s \in Short : m.ram.dev[s] \in {0, 1}
            BY <1>0
        <3> QED
            BY <3>1, <3>2
    <2>3. \A s \in Short : v[s] = IF BankKey[s] \in banks /\ out[BankKey[s]] = "loaded"
                                  THEN disk[BankKey[s]].val ELSE m.ram.dev[s]
        OBVIOUS
    <2>4. loaded = [m EXCEPT !.ram = [m.ram EXCEPT !.dev = v]]
        <3>1. loaded = [m EXCEPT !.ram.dev = v]
            OBVIOUS
        <3> HIDE DEF v, loaded
        <3> QED
            BY <3>1, SMT DEF MemType
    <2>5. /\ loaded \in MemType /\ loaded.switched = m.switched /\ loaded.dirty = m.dirty
          /\ loaded.held = m.held /\ loaded.ram.dev = v /\ loaded.ram.lamp = m.ram.lamp
          /\ \A k \in Plain : loaded.ram[k] = m.ram[k]
        <3> DEFINE r == [m.ram EXCEPT !.dev = v]
        <3> HIDE DEF v, loaded
        <3>1. r \in RamType /\ r.dev = v /\ r.lamp = m.ram.lamp /\ \A k \in Plain : r[k] = m.ram[k]
            BY <1>0, <2>2, SetDev, SMT
        <3>2. loaded = [m EXCEPT !.ram = r]
            BY <2>4
        <3> HIDE DEF r
        <3>3. /\ loaded.ram = r /\ loaded.held = m.held /\ loaded.dirty = m.dirty
              /\ loaded.switched = m.switched /\ loaded \in MemType
            BY <3>1, <3>2, SetRam, SMT
        <3> QED
            BY <3>1, <3>3
    <2> HIDE DEF v, loaded
    <2>6. /\ taken \in MemType /\ taken.switched = m.switched /\ taken.dirty = m.dirty
          /\ taken.held = m.held /\ taken.ram.lamp = m.ram.lamp
          /\ \A k \in Plain : taken.ram[k] = m.ram[k]
          /\ \A s \in Short : taken.ram.dev[s] = v[s]
                \/ /\ out["old"] = "loaded" /\ BankKey[s] \in banks
                   /\ out[BankKey[s]] \in {"missing", "rejected"}
        <3>1. loaded \in MemType
            BY <2>5
        <3> HIDE DEF out
        <3>2. /\ taken \in MemType /\ taken.switched = loaded.switched /\ taken.dirty = loaded.dirty
              /\ taken.held = loaded.held /\ taken.ram.lamp = loaded.ram.lamp
              /\ \A k \in Plain : taken.ram[k] = loaded.ram[k]
              /\ \A s \in Short : taken.ram.dev[s] = loaded.ram.dev[s]
                    \/ /\ out["old"] = "loaded" /\ BankKey[s] \in banks
                       /\ out[BankKey[s]] \in {"missing", "rejected"}
            BY <3>1, OldSlotFacts, SMTT(20) DEF out, taken
        <3> HIDE DEF taken
        <3> QED
            BY <2>5, <3>2
    <2> HIDE DEF taken
    <2>7. /\ d.rewrite \subseteq banks /\ d.settled \subseteq banks /\ d.waiting \subseteq banks
          /\ \A k \in banks :
              /\ out[k] = "loaded" => k \in d.settled /\ k \notin d.waiting
              /\ out[k] = "unread" => k \in d.waiting
              /\ out[k] \in {"missing", "rejected"} =>
                  /\ out["old"] = "unread" => k \in d.waiting
                  /\ out["old"] # "unread" => k \in d.settled /\ k \notin d.waiting
                  /\ out["old"] \in {"loaded", "rejected"} => k \in d.rewrite
                  /\ out[k] = "rejected" /\ out["old"] = "missing" => k \in d.rewrite
        BY DecideFacts
    <2> HIDE DEF d
    <2>8. /\ settled \in MemType /\ settled.switched = m.switched /\ settled.ram = taken.ram
          /\ settled.dirty = m.dirty \cup d.rewrite
          /\ settled.held = (m.held \ d.settled) \cup d.waiting
        <3> DEFINE x == Mark(taken, d.rewrite)
        <3>1. banks \subseteq Live
            BY BankFacts
        <3>2. x = [taken EXCEPT !.dirty = m.dirty \cup d.rewrite]
            BY <2>6 DEF Mark
        <3>3. m.dirty \cup d.rewrite \in SUBSET Live
            BY <1>0, <2>7, <3>1
        <3> HIDE DEF x
        <3>4. /\ x.dirty = m.dirty \cup d.rewrite /\ x.ram = taken.ram /\ x.held = taken.held
              /\ x.switched = taken.switched /\ x \in MemType
            <4>1. taken \in MemType
                BY <2>6
            <4> QED
                BY <3>2, <3>3, <4>1, SetDirty, SMT
        <3>5. settled = [x EXCEPT !.held = (m.held \ d.settled) \cup d.waiting]
            BY <2>6, <3>4 DEF x
        <3>6. (m.held \ d.settled) \cup d.waiting \in SUBSET Live
            BY <1>0, <2>7, <3>1
        <3> HIDE DEF settled
        <3>7. /\ settled.held = (m.held \ d.settled) \cup d.waiting /\ settled.ram = x.ram
              /\ settled.dirty = x.dirty /\ settled.switched = x.switched /\ settled \in MemType
            BY <3>4, <3>5, <3>6, SetHeld, SMT
        <3> QED
            BY <2>6, <3>4, <3>7
    <2> HIDE DEF settled
    <2>9. /\ n \in MemType /\ n.switched = m.switched /\ n.dirty = settled.dirty
          /\ n.held = settled.held /\ n.ram.dev = taken.ram.dev
          /\ \A k \in Plain : n.ram[k] = m.ram[k]
          /\ n.ram.lamp = IF m.ram.lamp # None /\ BankKey[m.ram.lamp] \in m.held \ settled.held
                             /\ taken.ram.dev[m.ram.lamp] = 0
                          THEN None ELSE m.ram.lamp
        <3> DEFINE gone == m.held \ settled.held
        <3> HIDE DEF gone
        <3>1. settled \in MemType
            BY <2>8
        <3>2. n = DropOrphans(settled, gone)
            BY <2>1 DEF gone
        <3> HIDE DEF n
        <3>3. /\ n \in MemType /\ n.switched = settled.switched /\ n.dirty = settled.dirty
              /\ n.held = settled.held /\ n.ram.dev = settled.ram.dev
              /\ \A k \in Plain : n.ram[k] = settled.ram[k]
              /\ n.ram.lamp = IF settled.ram.lamp # None /\ BankKey[settled.ram.lamp] \in gone
                                 /\ settled.ram.dev[settled.ram.lamp] = 0
                              THEN None ELSE settled.ram.lamp
            BY <3>1, <3>2, OrphanFacts, ZenonT(30)
        <3> QED
            BY <2>6, <2>8, <3>3, SMT DEF gone
    <2> HIDE DEF n
    <2>10. n.ram.lamp = Unorphaned(m, n)
        BY <2>9 DEF Unorphaned
    <2>11. ASSUME NEW s \in Short, BankKey[s] \in banks PROVE BankRead(m, n, out, s)
        <3>1. n.ram.dev[s] = v[s] \/ (out["old"] = "loaded" /\ out[BankKey[s]] \in {"missing", "rejected"})
            BY <2>6, <2>9
        <3>2. out[BankKey[s]] = "loaded" => v[s] = disk[BankKey[s]].val
            BY <2>3, <2>11
        <3>3. out[BankKey[s]] # "loaded" => v[s] = m.ram.dev[s]
            BY <2>3
        <3> QED
            BY <2>7, <2>8, <2>9, <2>11, <3>1, <3>2, <3>3 DEF BankRead
    <2>12. ASSUME NEW s \in Short, BankKey[s] \notin banks PROVE BankSame(m, n, s)
        <3>1. n.ram.dev[s] = v[s] /\ v[s] = m.ram.dev[s]
            BY <2>3, <2>6, <2>9, <2>12
        <3> QED
            BY <2>7, <2>8, <2>9, <2>12, <3>1 DEF BankSame
    <2>13. \A j \in Live \ banks : (j \in n.dirty <=> j \in m.dirty) /\ (j \in n.held <=> j \in m.held)
        BY <2>7, <2>8, <2>9
    <2> QED
        BY <2>8, <2>9, <2>10, <2>11, <2>12, <2>13 DEF n
<1> QED
    BY <1>1, <1>2

\* The stored binding, if its device is there or its bank waits.
Kept(n) ==
    LET s == disk["lamps"].val
    IN IF s # None /\ (BankKey[s] \in n.held \/ n.ram.dev[s] # 0) THEN s ELSE None

\* Marks and holds outside K are the same in m and n.
Elsewhere(m, n, K) ==
    \A j \in Live \ K : (j \in n.dirty <=> j \in m.dirty) /\ (j \in n.held <=> j \in m.held)

\* Memory n follows m, and nothing was unmarked.
Follows(m, n) == n \in MemType /\ n.switched = m.switched /\ m.dirty \subseteq n.dirty

LEMMA ReadLamps ==
    ASSUME DiskOK(disk), NEW unread, NEW m \in MemType
    PROVE  LET out == Outcomes(unread)
               n == HydrateLamps(m, out)
           IN /\ Follows(m, n) /\ Elsewhere(m, n, {"lamps"})
              /\ n.ram.dev = m.ram.dev /\ \A k \in Plain : n.ram[k] = m.ram[k]
              /\ "lamps" \in n.held <=> out["lamps"] = "unread"
              /\ out["lamps"] = "rejected" => "lamps" \in n.dirty
              /\ n.ram.lamp = IF out["lamps"] = "loaded" THEN Kept(m) ELSE m.ram.lamp
<1> DEFINE out == Outcomes(unread)
           o == out["lamps"]
           loaded == CASE o = "loaded" -> [m EXCEPT !.ram.lamp = Kept(m)]
                       [] o = "rejected" -> Mark(m, {"lamps"})
                       [] OTHER -> m
           n == HydrateLamps(m, out)
           h == IF o = "unread" THEN loaded.held \cup {"lamps"} ELSE loaded.held \ {"lamps"}
<1>0. /\ "lamps" \in Live /\ "lamps" \in Key /\ m.ram \in RamType /\ m.dirty \subseteq Live
      /\ m.held \subseteq Live
    BY BankFacts, MemFields
<1>1. n = [loaded EXCEPT !.held = h]
    BY DEF HydrateLamps, Settle, Kept
<1>2. /\ loaded \in MemType /\ loaded.switched = m.switched /\ loaded.held = m.held
      /\ loaded.ram.dev = m.ram.dev /\ \A k \in Plain : loaded.ram[k] = m.ram[k]
      /\ m.dirty \subseteq loaded.dirty
      /\ \A j \in Live \ {"lamps"} : j \in loaded.dirty <=> j \in m.dirty
      /\ o = "rejected" => "lamps" \in loaded.dirty
      /\ loaded.ram.lamp = IF o = "loaded" THEN Kept(m) ELSE m.ram.lamp
    <2> HIDE DEF o
    <2>1. CASE o = "loaded"
        <3> DEFINE r == [m.ram EXCEPT !.lamp = Kept(m)]
        <3>1. loaded = [m EXCEPT !.ram.lamp = Kept(m)]
            BY <2>1
        <3>2. Kept(m) \in Short \cup {None}
            <4>1. disk["lamps"].val \in Values("lamps")
                BY <1>0, <2>1, LoadedFacts DEF o
            <4>2. disk["lamps"].val \in Short \cup {None}
                BY <4>1, ValueFacts
            <4> QED
                BY <4>2 DEF Kept
        <3> HIDE DEF loaded
        <3>3. loaded = [m EXCEPT !.ram = r]
            BY <3>1, SMT DEF MemType
        <3>4. r \in RamType /\ r.lamp = Kept(m) /\ r.dev = m.ram.dev /\ \A k \in Plain : r[k] = m.ram[k]
            BY <1>0, <3>2, SetLamp, SMT
        <3> HIDE DEF r
        <3>5. /\ loaded.ram = r /\ loaded.held = m.held /\ loaded.dirty = m.dirty
              /\ loaded.switched = m.switched /\ loaded \in MemType
            BY <3>3, <3>4, SetRam, SMT
        <3> QED
            BY <2>1, <3>4, <3>5
    <2>2. CASE o = "rejected"
        <3>1. loaded = Mark(m, {"lamps"})
            BY <2>2
        <3> HIDE DEF loaded
        <3>2. loaded = [m EXCEPT !.dirty = m.dirty \cup {"lamps"}]
            BY <3>1 DEF Mark
        <3>3. m.dirty \cup {"lamps"} \in SUBSET Live
            BY <1>0
        <3>4. /\ loaded.dirty = m.dirty \cup {"lamps"} /\ loaded.ram = m.ram /\ loaded.held = m.held
              /\ loaded.switched = m.switched /\ loaded \in MemType
            BY <3>2, <3>3, SetDirty, SMT
        <3> QED
            BY <2>2, <3>4
    <2>3. CASE o # "loaded" /\ o # "rejected"
        <3>1. loaded = m
            BY <2>3
        <3> HIDE DEF loaded
        <3> QED
            BY <2>3, <3>1
    <2> QED
        BY <2>1, <2>2, <2>3
<1> HIDE DEF loaded
<1>3. h \in SUBSET Live
    BY <1>0, <1>2
<1>4. ("lamps" \in h <=> o = "unread") /\ \A j \in Live \ {"lamps"} : j \in h <=> j \in m.held
    BY <1>2
<1> HIDE DEF h, n
<1>5. /\ n.held = h /\ n.ram = loaded.ram /\ n.dirty = loaded.dirty
      /\ n.switched = loaded.switched /\ n \in MemType
    <2>1. loaded \in MemType
        BY <1>2
    <2> QED
        BY <1>1, <1>3, <2>1, SetHeld, SMT
<1> QED
    BY <1>2, <1>4, <1>5 DEF Follows, Elsewhere, n

\* One slice without a rule of its own, in its turn.
LEMMA PlainTurn ==
    ASSUME DiskOK(disk), NEW unread, NEW m \in MemType, NEW k \in Plain, NEW which
    PROVE  LET out == Outcomes(unread)
               n == IF k \in which THEN HydratePlain(m, out, k) ELSE m
           IN /\ Follows(m, n) /\ Elsewhere(m, n, {k})
              /\ n.ram.dev = m.ram.dev /\ n.ram.lamp = m.ram.lamp
              /\ \A j \in Plain \ {k} : n.ram[j] = m.ram[j]
              /\ IF k \in which THEN PlainRead(m, n, out, k) ELSE PlainSame(m, n, k)
<1>1. CASE k \in which
    BY <1>1, ReadPlain, SMT DEF Follows, Elsewhere, PlainSame
<1>2. CASE k \notin which
    BY <1>2 DEF Follows, Elsewhere, PlainSame
<1> QED
    BY <1>1, <1>2

\* Memory n is m after the slices in which were read.
Hydrated(m, n, out, which) ==
    /\ Follows(m, n)
    /\ \A k \in Plain : IF k \in which THEN PlainRead(m, n, out, k) ELSE PlainSame(m, n, k)
    /\ \A s \in Short :
        IF BankKey[s] \in which THEN BankRead(m, n, out, s) ELSE BankSame(m, n, s)
    /\ "lamps" \in n.held <=> IF "lamps" \in which THEN out["lamps"] = "unread"
                              ELSE "lamps" \in m.held
    /\ "lamps" \in which /\ out["lamps"] = "rejected" => "lamps" \in n.dirty
    /\ n.ram.lamp = IF "lamps" \in which /\ out["lamps"] = "loaded" THEN Kept(n)
                    ELSE Unorphaned(m, n)

LEMMA HydrateFacts ==
    ASSUME DiskOK(disk), NEW unread, NEW m \in MemType, NEW which
    PROVE  LET out == Outcomes(unread) IN Hydrated(m, Hydrate(m, out, which), out, which)
<1> DEFINE out == Outcomes(unread)
           banks == which \cap BankKeys
           a == IF "groups" \in which THEN HydratePlain(m, out, "groups") ELSE m
           b == HydrateDevices(a, out, banks)
           c == IF "lamps" \in which THEN HydrateLamps(b, out) ELSE b
           d == IF "hcl" \in which THEN HydratePlain(c, out, "hcl") ELSE c
           e == IF "ha" \in which THEN HydratePlain(d, out, "ha") ELSE d
<1>0. e = Hydrate(m, out, which)
    BY DEF Hydrate
<1>1. Plain = {"groups", "hcl", "ha"}
    BY KeyFacts
<1>2. /\ Follows(m, a) /\ Elsewhere(m, a, {"groups"})
      /\ a.ram.dev = m.ram.dev /\ a.ram.lamp = m.ram.lamp
      /\ \A j \in Plain \ {"groups"} : a.ram[j] = m.ram[j]
      /\ IF "groups" \in which THEN PlainRead(m, a, out, "groups") ELSE PlainSame(m, a, "groups")
    BY <1>1, PlainTurn, SMT
<1> HIDE DEF a
<1>3. /\ Follows(a, b) /\ Elsewhere(a, b, banks)
      /\ \A k \in Plain : b.ram[k] = a.ram[k]
      /\ \A s \in Short :
          IF BankKey[s] \in banks THEN BankRead(a, b, out, s) ELSE BankSame(a, b, s)
      /\ b.ram.lamp = Unorphaned(a, b)
    <2>1. a \in MemType /\ banks \in SUBSET BankKeys
        BY <1>2 DEF Follows
    <2> HIDE DEF banks
    <2> QED
        BY <2>1, ReadDevices, SMT DEF Follows, Elsewhere
<1> HIDE DEF b
<1>4. /\ Follows(b, c) /\ Elsewhere(b, c, {"lamps"})
      /\ c.ram.dev = b.ram.dev /\ \A k \in Plain : c.ram[k] = b.ram[k]
      /\ "lamps" \in c.held <=> IF "lamps" \in which THEN out["lamps"] = "unread"
                                ELSE "lamps" \in b.held
      /\ "lamps" \in which /\ out["lamps"] = "rejected" => "lamps" \in c.dirty
      /\ c.ram.lamp = IF "lamps" \in which /\ out["lamps"] = "loaded" THEN Kept(b) ELSE b.ram.lamp
    <2>1. b \in MemType
        BY <1>3 DEF Follows
    <2>2. CASE "lamps" \in which
        BY <2>1, <2>2, ReadLamps, SMT
    <2>3. CASE "lamps" \notin which
        BY <2>1, <2>3 DEF Follows, Elsewhere
    <2> QED
        BY <2>2, <2>3
<1> HIDE DEF c
<1>5. /\ Follows(c, d) /\ Elsewhere(c, d, {"hcl"})
      /\ d.ram.dev = c.ram.dev /\ d.ram.lamp = c.ram.lamp
      /\ \A j \in Plain \ {"hcl"} : d.ram[j] = c.ram[j]
      /\ IF "hcl" \in which THEN PlainRead(c, d, out, "hcl") ELSE PlainSame(c, d, "hcl")
    <2>1. c \in MemType
        BY <1>4 DEF Follows
    <2> QED
        BY <1>1, <2>1, PlainTurn, SMT
<1> HIDE DEF d
<1>6. /\ Follows(d, e) /\ Elsewhere(d, e, {"ha"})
      /\ e.ram.dev = d.ram.dev /\ e.ram.lamp = d.ram.lamp
      /\ \A j \in Plain \ {"ha"} : e.ram[j] = d.ram[j]
      /\ IF "ha" \in which THEN PlainRead(d, e, out, "ha") ELSE PlainSame(d, e, "ha")
    <2>1. d \in MemType
        BY <1>5 DEF Follows
    <2> QED
        BY <1>1, <2>1, PlainTurn, SMT
<1> HIDE DEF e
<1>7. Follows(m, e)
    BY <1>2, <1>3, <1>4, <1>5, <1>6 DEF Follows
<1>8. /\ {"groups", "hcl", "ha", "lamps"} \subseteq Live /\ BankKeys \subseteq Live
      /\ {"groups", "hcl", "ha", "lamps"} \cap BankKeys = {}
    BY KeyFacts
<1>9. IF "groups" \in which THEN PlainRead(m, e, out, "groups") ELSE PlainSame(m, e, "groups")
    <2>1. "groups" \notin banks
        BY <1>8
    <2>2. "groups" \in e.held <=> "groups" \in a.held
        BY <1>3, <1>4, <1>5, <1>6, <1>8, <2>1 DEF Elsewhere
    <2>3. "groups" \in e.dirty <=> "groups" \in a.dirty
        BY <1>3, <1>4, <1>5, <1>6, <1>8, <2>1 DEF Elsewhere
    <2>4. e.ram["groups"] = a.ram["groups"]
        BY <1>1, <1>3, <1>4, <1>5, <1>6
    <2> QED
        BY <1>2, <2>2, <2>3, <2>4 DEF PlainRead, PlainSame
<1>10. IF "hcl" \in which THEN PlainRead(m, e, out, "hcl") ELSE PlainSame(m, e, "hcl")
    <2>1. "hcl" \notin banks
        BY <1>8
    <2>2. ("hcl" \in e.held <=> "hcl" \in d.held) /\ ("hcl" \in c.held <=> "hcl" \in m.held)
        BY <1>2, <1>3, <1>4, <1>6, <1>8, <2>1 DEF Elsewhere
    <2>3. "hcl" \in e.dirty <=> "hcl" \in d.dirty
        BY <1>6, <1>8 DEF Elsewhere
    <2>4. e.ram["hcl"] = d.ram["hcl"] /\ c.ram["hcl"] = m.ram["hcl"]
        BY <1>1, <1>2, <1>3, <1>4, <1>6
    <2> QED
        BY <1>5, <2>2, <2>3, <2>4 DEF PlainRead, PlainSame
<1>11. IF "ha" \in which THEN PlainRead(m, e, out, "ha") ELSE PlainSame(m, e, "ha")
    <2>1. "ha" \notin banks
        BY <1>8
    <2>2. "ha" \in d.held <=> "ha" \in m.held
        BY <1>2, <1>3, <1>4, <1>5, <1>8, <2>1 DEF Elsewhere
    <2>3. d.ram["ha"] = m.ram["ha"]
        BY <1>1, <1>2, <1>3, <1>4, <1>5
    <2> QED
        BY <1>6, <2>2, <2>3 DEF PlainRead, PlainSame
<1>12. \A k \in BankKeys : /\ k \in a.held <=> k \in m.held
                           /\ k \in b.held <=> k \in e.held
                           /\ k \in b.dirty <=> k \in e.dirty
    BY <1>2, <1>4, <1>5, <1>6, <1>8 DEF Elsewhere
<1>13. e.ram.dev = b.ram.dev
    BY <1>4, <1>5, <1>6
<1>14. ASSUME NEW s \in Short
       PROVE  IF BankKey[s] \in which THEN BankRead(m, e, out, s) ELSE BankSame(m, e, s)
    <2>1. BankKey[s] \in BankKeys /\ (BankKey[s] \in banks <=> BankKey[s] \in which)
        BY BankFacts
    <2>2. a.ram.dev = m.ram.dev
        BY <1>2
    <2>3. /\ BankKey[s] \in a.held <=> BankKey[s] \in m.held
          /\ BankKey[s] \in b.held <=> BankKey[s] \in e.held
          /\ BankKey[s] \in b.dirty <=> BankKey[s] \in e.dirty
        BY <1>12, <2>1
    <2>4. IF BankKey[s] \in banks THEN BankRead(a, b, out, s) ELSE BankSame(a, b, s)
        BY <1>3
    <2> HIDE DEF banks, out
    <2>5. CASE BankKey[s] \in which
        <3>1. BankRead(a, b, out, s)
            BY <2>1, <2>4, <2>5
        <3>2. BankRead(m, e, out, s)
            BY <1>13, <2>2, <2>3, <3>1 DEF BankRead
        <3> QED
            BY <2>5, <3>2
    <2>6. CASE BankKey[s] \notin which
        <3>1. BankSame(a, b, s)
            BY <2>1, <2>4, <2>6
        <3>2. BankSame(m, e, s)
            BY <1>13, <2>2, <2>3, <3>1 DEF BankSame
        <3> QED
            BY <2>6, <3>2
    <2> QED
        BY <2>5, <2>6
<1>15. /\ "lamps" \in e.held <=> IF "lamps" \in which THEN out["lamps"] = "unread"
                                 ELSE "lamps" \in m.held
       /\ "lamps" \in which /\ out["lamps"] = "rejected" => "lamps" \in e.dirty
    <2>1. "lamps" \notin banks
        BY <1>8
    <2>2. /\ "lamps" \in e.held <=> "lamps" \in c.held
          /\ "lamps" \in e.dirty <=> "lamps" \in c.dirty
        BY <1>5, <1>6, <1>8 DEF Elsewhere
    <2>3. "lamps" \in b.held <=> "lamps" \in m.held
        BY <1>2, <1>3, <1>8, <2>1 DEF Elsewhere
    <2> QED
        BY <1>4, <2>2, <2>3
<1>16. e.ram.lamp = IF "lamps" \in which /\ out["lamps"] = "loaded" THEN Kept(e)
                    ELSE Unorphaned(m, e)
    <2>1. e.ram.lamp = IF "lamps" \in which /\ out["lamps"] = "loaded" THEN Kept(b)
                       ELSE Unorphaned(a, b)
        BY <1>3, <1>4, <1>5, <1>6
    <2>2. CASE "lamps" \in which /\ out["lamps"] = "loaded"
        <3>1. disk["lamps"].val \in Short \cup {None}
            <4>1. "lamps" \in Key
                BY KeyFacts
            <4>2. disk["lamps"].val \in Values("lamps")
                BY <2>2, <4>1, LoadedFacts
            <4> QED
                BY <4>2, ValueFacts
        <3>2. \A s \in Short : BankKey[s] \in b.held <=> BankKey[s] \in e.held
            BY <1>12, BankFacts
        <3>3. Kept(b) = Kept(e)
            BY <1>13, <3>1, <3>2 DEF Kept
        <3> QED
            BY <2>1, <2>2, <3>3
    <2>3. CASE ~("lamps" \in which /\ out["lamps"] = "loaded")
        <3>1. m.ram.lamp \in Short \cup {None}
            BY MemFields, RamFields
        <3>2. \A s \in Short : /\ BankKey[s] \in b.held <=> BankKey[s] \in e.held
                               /\ BankKey[s] \in a.held <=> BankKey[s] \in m.held
            BY <1>12, BankFacts
        <3>3. a.ram.lamp = m.ram.lamp
            BY <1>2
        <3>4. Unorphaned(a, b) = Unorphaned(m, e)
            BY <1>13, <3>1, <3>2, <3>3 DEF Unorphaned
        <3> QED
            BY <2>1, <2>3, <3>4
    <2> QED
        BY <2>2, <2>3
<1>17. \A k \in Plain : IF k \in which THEN PlainRead(m, e, out, k) ELSE PlainSame(m, e, k)
    BY <1>1, <1>9, <1>10, <1>11
<1> HIDE DEF out
<1>18. Hydrated(m, e, out, which)
    BY <1>7, <1>14, <1>15, <1>16, <1>17 DEF Hydrated
<1> QED
    BY <1>0, <1>18 DEF out

----------------------------------------------------------------------------
(* What hydration keeps of the account.                                    *)
LEMMA StoredFacts ==
    ASSUME NEW k
    PROVE  /\ disk[k].st = "ok" => Stored(k) = disk[k].val
           /\ disk[k].st # "ok" => Stored(k) = Content(NewRam, k)
BY DEF Stored

\* Of each slice read, why memory may still differ from the store.
LEMMA HydratedAccounts ==
    ASSUME DiskOK(disk), NEW unread, NEW out, out = Outcomes(unread), NEW which,
           NEW m \in MemType, NEW n, Hydrated(m, n, out, which),
           \A k \in Live : disk[k].st # "ok" \/ k \notin which => Accounted(m, k)
    PROVE  \A k \in Live : Accounted(n, k)
<1>0. n.switched = m.switched /\ m.dirty \subseteq n.dirty
    BY DEF Hydrated, Follows
<1>1. \A k \in Key : /\ out[k] \in {"unread", "loaded", "rejected", "missing"}
                     /\ out[k] = "loaded" => disk[k].st = "ok"
                     /\ out[k] \in {"rejected", "missing"} => disk[k].st # "ok"
    BY OutcomeFacts, SMT
<1>2. ASSUME NEW k \in Plain PROVE Accounted(n, k)
    <2>0. k \in Live /\ k \in Key /\ k # "lamps"
        BY BankFacts
    <2>1. Content(n.ram, k) = n.ram[k] /\ Content(m.ram, k) = m.ram[k]
        BY ContentFacts
    <2>2. CASE k \in which
        <3>1. PlainRead(m, n, out, k)
            BY <2>2 DEF Hydrated
        <3>2. CASE out[k] = "loaded"
            BY <1>1, <2>0, <2>1, <3>1, <3>2, StoredFacts DEF PlainRead, Accounted
        <3>3. CASE out[k] # "loaded" /\ disk[k].st = "ok"
            BY <1>1, <2>0, <3>1, <3>3 DEF PlainRead, Accounted
        <3>4. CASE out[k] # "loaded" /\ disk[k].st # "ok"
            <4>1. Accounted(m, k)
                BY <2>0, <3>4
            <4> QED
                BY <1>0, <2>0, <2>1, <3>1, <3>4, <4>1 DEF PlainRead, Accounted
        <3> QED
            BY <3>2, <3>3, <3>4
    <2>3. CASE k \notin which
        <3>1. PlainSame(m, n, k)
            BY <2>3 DEF Hydrated
        <3>2. Accounted(m, k)
            BY <2>0, <2>3
        <3> QED
            BY <1>0, <2>0, <2>1, <3>1, <3>2 DEF PlainSame, Accounted
    <2> QED
        BY <2>2, <2>3
<1>3. ASSUME NEW s \in Short PROVE Accounted(n, BankKey[s])
    <2> DEFINE k == BankKey[s]
    <2>0. k \in Live /\ k \in Key /\ k # "lamps" /\ k # "hcl"
        BY BankFacts, KeyFacts
    <2>1. Content(n.ram, k) = n.ram.dev[s] /\ Content(m.ram, k) = m.ram.dev[s]
        BY ContentFacts
    <2>2. CASE k \in which
        <3>1. BankRead(m, n, out, s)
            BY <2>2 DEF Hydrated
        <3>2. CASE out[k] = "loaded"
            BY <1>1, <2>0, <2>1, <3>1, <3>2, StoredFacts DEF BankRead, Accounted
        <3>3. CASE out[k] # "loaded" /\ disk[k].st = "ok"
            <4>1. out[k] = "unread"
                BY <1>1, <2>0, <3>3
            <4> QED
                BY <3>1, <3>3, <4>1 DEF BankRead, Accounted
        <3>4. CASE out[k] # "loaded" /\ disk[k].st # "ok"
            <4>1. Accounted(m, k)
                BY <2>0, <3>4
            <4>2. k \in n.dirty \/ n.ram.dev[s] = m.ram.dev[s]
                BY <1>1, <2>0, <3>1, <3>4 DEF BankRead
            <4> QED
                BY <1>0, <2>0, <2>1, <3>4, <4>1, <4>2 DEF Accounted
        <3> QED
            BY <3>2, <3>3, <3>4
    <2>3. CASE k \notin which
        <3>1. BankSame(m, n, s)
            BY <2>3 DEF Hydrated
        <3>2. Accounted(m, k)
            BY <2>0, <2>3
        <3> QED
            BY <1>0, <2>0, <2>1, <3>1, <3>2 DEF BankSame, Accounted
    <2> QED
        BY <2>2, <2>3
<1>4. Accounted(n, "lamps")
    <2>0. "lamps" \in Live /\ "lamps" \in Key
        BY BankFacts
    <2>1. Content(n.ram, "lamps") = n.ram.lamp /\ Content(m.ram, "lamps") = m.ram.lamp
        BY ContentFacts
    <2>2. CASE "lamps" \in which /\ out["lamps"] = "loaded"
        <3>1. n.ram.lamp = None \/ n.ram.lamp = disk["lamps"].val
            BY <2>2 DEF Hydrated, Kept
        <3> QED
            BY <1>1, <2>0, <2>1, <2>2, <3>1, StoredFacts DEF Accounted
    <2>3. CASE "lamps" \in which /\ out["lamps"] # "loaded" /\ disk["lamps"].st = "ok"
        <3>1. "lamps" \in n.held
            BY <1>1, <2>0, <2>3 DEF Hydrated
        <3> QED
            BY <2>3, <3>1 DEF Accounted
    <2>4. CASE ~("lamps" \in which /\ (out["lamps"] = "loaded" \/ disk["lamps"].st = "ok"))
        <3>1. Accounted(m, "lamps")
            BY <2>0, <2>4
        <3>2. n.ram.lamp = None \/ n.ram.lamp = m.ram.lamp
            BY <2>4 DEF Hydrated, Unorphaned
        <3>3. disk["lamps"].st = "ok" => ("lamps" \in n.held <=> "lamps" \in m.held)
            BY <2>4 DEF Hydrated
        <3> QED
            BY <1>0, <2>1, <3>1, <3>2, <3>3 DEF Accounted
    <2> QED
        BY <2>2, <2>3, <2>4
<1>5. ASSUME NEW k \in BankKeys PROVE Accounted(n, k)
    <2>1. BankOf(k) \in Short /\ k = BankKey[BankOf(k)]
        BY BankFacts
    <2>2. Accounted(n, BankKey[BankOf(k)])
        BY <1>3, <2>1
    <2> QED
        BY <2>1, <2>2
<1>6. Live = Plain \cup BankKeys \cup {"lamps"}
    BY BankFacts
<1> QED
    BY <1>2, <1>4, <1>5, <1>6

\* What is held after hydration, and what is then known.
LEMMA HydratedHolds ==
    ASSUME DiskOK(disk), NEW unread, NEW out, out = Outcomes(unread), NEW which,
           NEW m \in MemType, NEW n, Hydrated(m, n, out, which)
    PROVE  /\ \A k \in Live \ which : k \in n.held <=> k \in m.held
           /\ \A k \in Live \cap which : k \notin n.held =>
               /\ out[k] # "unread"
               /\ k \in BankKeys /\ disk[k].st # "ok" =>
                   out[k] \in {"missing", "rejected"} /\ out["old"] # "unread"
           /\ \A k \in BankKeys \cap which :
               k \in n.dirty \cup n.held \/ disk[k].st = "ok" \/ disk["old"].st = "absent"
<1>1. \A k \in Key : /\ out[k] \in {"unread", "loaded", "rejected", "missing"}
                     /\ out[k] = "loaded" => disk[k].st = "ok"
                     /\ out[k] = "missing" => disk[k].st = "absent"
    BY OutcomeFacts, SMT
<1>2. ASSUME NEW k \in Plain
      PROVE  IF k \in which THEN k \notin n.held => out[k] # "unread" ELSE k \in n.held <=> k \in m.held
    BY DEF Hydrated, PlainRead, PlainSame
<1>3. ASSUME NEW s \in Short
      PROVE  LET k == BankKey[s] IN
             IF k \in which
             THEN /\ k \notin n.held =>
                      /\ out[k] # "unread"
                      /\ disk[k].st # "ok" => out[k] \in {"missing", "rejected"} /\ out["old"] # "unread"
                  /\ k \in n.dirty \cup n.held \/ disk[k].st = "ok" \/ disk["old"].st = "absent"
             ELSE k \in n.held <=> k \in m.held
    <2>0. BankKey[s] \in Key /\ "old" \in Key
        BY BankFacts, KeyFacts
    <2>1. CASE BankKey[s] \in which
        <3>1. BankRead(m, n, out, s)
            BY <2>1 DEF Hydrated
        <3> QED
            BY <1>1, <2>0, <2>1, <3>1 DEF BankRead
    <2>2. CASE BankKey[s] \notin which
        BY <2>2 DEF Hydrated, BankSame
    <2> QED
        BY <2>1, <2>2
<1>4. IF "lamps" \in which THEN "lamps" \notin n.held => out["lamps"] # "unread"
      ELSE "lamps" \in n.held <=> "lamps" \in m.held
    BY DEF Hydrated
<1>5. /\ \A k \in BankKeys : \E s \in Short : k = BankKey[s]
      /\ Live = Plain \cup BankKeys \cup {"lamps"} /\ Plain \cap BankKeys = {} /\ "lamps" \notin BankKeys
    BY BankFacts
<1>6. ASSUME NEW k \in BankKeys
      PROVE  IF k \in which
             THEN /\ k \notin n.held =>
                      /\ out[k] # "unread"
                      /\ disk[k].st # "ok" => out[k] \in {"missing", "rejected"} /\ out["old"] # "unread"
                  /\ k \in n.dirty \cup n.held \/ disk[k].st = "ok" \/ disk["old"].st = "absent"
             ELSE k \in n.held <=> k \in m.held
    <2>1. PICK s \in Short : k = BankKey[s]
        BY <1>5
    <2> QED
        BY <1>3, <2>1
<1> QED
    BY <1>2, <1>4, <1>5, <1>6

\* A binding read again is checked against its bank; one kept in memory is
\* checked when its bank is read.
LEMMA HydratedBinds ==
    ASSUME DiskOK(disk), NEW unread, NEW out, out = Outcomes(unread), NEW which,
           NEW m \in MemType, NEW n, Hydrated(m, n, out, which),
           \/ which \subseteq m.held /\ Bound(m)
           \/ "lamps" \in which /\ (disk["lamps"].st # "ok" => m.ram.lamp = None)
    PROVE  Bound(n)
<1>0. "lamps" \in Key /\ m.ram.lamp \in Short \cup {None}
    BY BankFacts, MemFields, RamFields
<1>1. /\ out["lamps"] \in {"unread", "loaded", "rejected", "missing"}
      /\ out["lamps"] = "loaded" => disk["lamps"].st = "ok"
      /\ out["lamps"] \in {"rejected", "missing"} => disk["lamps"].st # "ok"
    BY <1>0, OutcomeFacts, SMT
<1>2. CASE "lamps" \in which /\ out["lamps"] = "loaded"
    <2>1. n.ram.lamp = Kept(n)
        BY <1>2 DEF Hydrated
    <2> QED
        BY <2>1 DEF Kept, Bound
<1>3. CASE ~("lamps" \in which /\ out["lamps"] = "loaded")
    <2>1. n.ram.lamp = Unorphaned(m, n)
        BY <1>3 DEF Hydrated
    <2>2. "lamps" \in n.held <=> IF "lamps" \in which THEN out["lamps"] = "unread"
                                 ELSE "lamps" \in m.held
        BY DEF Hydrated
    <2>3. CASE "lamps" \in which /\ (disk["lamps"].st # "ok" => m.ram.lamp = None)
        <3>1. CASE disk["lamps"].st = "ok"
            BY <1>1, <1>3, <2>2, <2>3, <3>1 DEF Bound
        <3>2. CASE disk["lamps"].st # "ok"
            BY <2>1, <2>3, <3>2 DEF Unorphaned, Bound
        <3> QED
            BY <3>1, <3>2
    <2>4. CASE which \subseteq m.held /\ Bound(m)
        <3> SUFFICES ASSUME n.ram.lamp # None PROVE Bound(n)
            BY DEF Bound
        <3> DEFINE s == m.ram.lamp
        <3>1. /\ n.ram.lamp = s /\ s # None
              /\ ~(BankKey[s] \in m.held \ n.held /\ n.ram.dev[s] = 0)
            BY <2>1 DEF Unorphaned
        <3>2. s \in Short
            BY <1>0, <3>1
        <3>3. CASE BankKey[s] \in m.held
            BY <3>1, <3>3 DEF Bound
        <3>4. CASE BankKey[s] \notin m.held
            <4>1. BankKey[s] \notin which
                BY <2>4, <3>4
            <4>2. n.ram.dev[s] = m.ram.dev[s]
                BY <3>2, <4>1 DEF Hydrated, BankSame
            <4>3. m.ram.dev[s] # 0 \/ ("lamps" \in m.held /\ disk["lamps"].st = "ok")
                BY <2>4, <3>1, <3>4 DEF Bound
            <4>4. "lamps" \in m.held /\ disk["lamps"].st = "ok" => "lamps" \in n.held
                BY <1>1, <1>3, <2>2
            <4> QED
                BY <3>1, <4>2, <4>3, <4>4 DEF Bound
        <3> QED
            BY <3>3, <3>4
    <2> QED
        BY <2>3, <2>4
<1> QED
    BY <1>2, <1>3

----------------------------------------------------------------------------
(* Every step keeps the invariant.                                         *)
LEMMA NewMemFacts == NewMem \in MemType
<1>1. NewRam \in RamType
    BY KeyFacts, SMT DEF NewRam, RamType
<1> QED
    BY <1>1, SMT DEF NewMem, MemType

LEMMA InitInv == PersistInit => IInv
<1> SUFFICES ASSUME PersistInit PROVE IInv
    OBVIOUS
<1>1. NewMem \in MemType
    BY NewMemFacts
<1>2. DiskOK(disk)
    BY PersistAssumption DEF PersistInit, DiskOK
<1>3. TypeInv
    BY <1>1, <1>2 DEF PersistInit, TypeInv, Unknown
<1> QED
    BY <1>3 DEF PersistInit, IInv, StageInv, WrittenInv, AccountInv

\* Steps that touch none of what the account is about.
LEMMA Aside ==
    ASSUME IInv, UNCHANGED <<disk, mem, pc, todo, importing, known, owed>>, queue' \subseteq Key,
           report' \in {"none", "ok", "partial", "refused"}, stage' = None \/ stage' \in Imports
    PROVE  IInv'
<1>1. TypeInv'
    BY DEF IInv, TypeInv, DiskOK
<1>2. StageInv' /\ WrittenInv'
    BY DEF IInv, StageInv, WrittenInv, W
<1>3. AccountInv'
    BY DEF IInv, AccountInv, W, Accounted, Stored, Bound, Learned, OldIsDue
<1> QED
    BY <1>1, <1>2, <1>3 DEF IInv

\* The slices in which were read, and the worker is idle again.
LEMMA HydrateStep ==
    ASSUME IInv, NEW unread, NEW which \in SUBSET Key, NEW out, out = Outcomes(unread),
           disk' = disk, mem' = Hydrate(mem, out, which), known' = Learn(out, which),
           pc' = "idle", importing' = None, owed' \subseteq {"lamps", "old"},
           queue' \subseteq Key, report' \in {"none", "ok", "partial", "refused"},
           stage' = stage,
           \A k \in Live : disk[k].st # "ok" \/ k \notin which => Accounted(mem, k),
           \/ which \subseteq mem.held /\ Bound(mem)
           \/ "lamps" \in which /\ (disk["lamps"].st # "ok" => mem.ram.lamp = None)
           \/ "lamps" \in owed',
           \A k \in Live \ which : k \in mem.held \/ Learned(k),
           "old" \in owed' \/ \A k \in BankKeys \ which : ~OldIsDue(k)
    PROVE  IInv' /\ Hydrated(mem, mem', out, which)
<1>1. DiskOK(disk) /\ mem \in MemType
    BY DEF IInv, TypeInv
<1>2. Hydrated(mem, mem', out, which)
    BY <1>1, HydrateFacts, SMT
<1>3. mem' \in MemType /\ mem.dirty \subseteq mem'.dirty
    BY <1>2 DEF Hydrated, Follows
<1>4. TypeInv'
    BY <1>1, <1>3 DEF IInv, TypeInv, DiskOK, Learn
<1>5. StageInv' /\ WrittenInv' /\ W' = {}
    BY DEF StageInv, WrittenInv, W
<1>6. ASSUME NEW k \in Live PROVE Accounted(mem, k)'
    <2>1. Accounted(mem', k)
        BY <1>1, <1>2, HydratedAccounts
    <2> QED
        BY <2>1 DEF Accounted, Stored
<1>7. "lamps" \in owed' \/ Bound(mem)'
    <2>1. "lamps" \in owed' \/ Bound(mem')
        BY <1>1, <1>2, HydratedBinds
    <2> QED
        BY <2>1 DEF Bound
<1>8. /\ \A k \in Live \ which : k \in mem'.held <=> k \in mem.held
      /\ \A k \in Live \cap which : k \notin mem'.held =>
          /\ out[k] # "unread"
          /\ k \in BankKeys /\ disk[k].st # "ok" =>
              out[k] \in {"missing", "rejected"} /\ out["old"] # "unread"
      /\ \A k \in BankKeys \cap which :
          k \in mem'.dirty \cup mem'.held \/ disk[k].st = "ok" \/ disk["old"].st = "absent"
    BY <1>1, <1>2, HydratedHolds, SMT
<1>9. ASSUME NEW k \in Live PROVE k \in mem'.held \/ Learned(k)'
    <2>0. k \in Key /\ "old" \in Key /\ k # "old"
        BY KeyFacts
    <2>1. disk["old"] # None
        BY <1>1, <2>0, SlotFacts
    <2>2. known'["old"] = known["old"] \/ known'["old"] = disk["old"]
        BY <2>0 DEF Learn
    <2>3. CASE k \in which
        <3> SUFFICES ASSUME k \notin mem'.held PROVE Learned(k)'
            OBVIOUS
        <3>1. out[k] # "unread"
            BY <1>8, <2>3
        <3>2. known'[k] = disk[k]
            BY <2>0, <2>3, <3>1 DEF Learn
        <3>3. ASSUME k \in BankKeys, disk[k].st # "ok" PROVE known'["old"] # None
            <4>1. out[k] \in {"missing", "rejected"} /\ out["old"] # "unread"
                BY <1>8, <2>3, <3>3
            <4>2. k \in {j \in which \cap BankKeys : out[j] \in {"missing", "rejected"}}
                BY <2>3, <3>3, <4>1
            <4>3. known'["old"] = disk["old"]
                BY <2>0, <4>1, <4>2 DEF Learn
            <4> QED
                BY <2>1, <4>3
        <3> QED
            BY <3>2, <3>3 DEF Learned
    <2>4. CASE k \notin which
        <3>1. k \in mem.held \/ Learned(k)
            BY <2>4
        <3>2. known'[k] = known[k]
            BY <2>0, <2>4 DEF Learn
        <3> QED
            BY <1>8, <2>1, <2>2, <2>4, <3>1, <3>2 DEF Learned
    <2> QED
        BY <2>3, <2>4
<1>10. "old" \in owed' \/ \A k \in BankKeys : ~OldIsDue(k)'
    <2> SUFFICES ASSUME "old" \notin owed', NEW k \in BankKeys PROVE ~OldIsDue(k)'
        OBVIOUS
    <2>1. CASE k \in which
        BY <1>8, <2>1 DEF OldIsDue
    <2>2. CASE k \notin which
        <3>1. k \in Live
            BY BankFacts
        <3> QED
            BY <1>3, <1>8, <2>2, <3>1 DEF OldIsDue
    <2> QED
        BY <2>1, <2>2
<1>11. AccountInv'
    BY <1>5, <1>6, <1>7, <1>9, <1>10 DEF AccountInv
<1> QED
    BY <1>2, <1>4, <1>5, <1>11 DEF IInv

LEMMA BootKeeps ==
    ASSUME IInv, NEW unread, Boot(unread)
    PROVE  IInv'
<1> DEFINE out == Outcomes(unread)
<1>1. /\ pc = "down" /\ disk' = disk /\ mem' = Hydrate(mem, out, Key) /\ known' = Learn(out, Key)
      /\ pc' = "idle" /\ importing' = importing /\ owed' = owed /\ queue' = queue
      /\ report' = report /\ stage' = stage
    BY DEF Boot
<1>2. mem = NewMem /\ importing = None
    BY <1>1 DEF IInv, StageInv
<1>3. /\ owed \subseteq {"lamps", "old"} /\ queue \subseteq Key
      /\ report \in {"none", "ok", "partial", "refused"}
    BY DEF IInv, TypeInv
<1>4. mem.ram = NewRam /\ mem.ram.lamp = None
    BY <1>2, SMT DEF NewMem, NewRam
<1>5. \A k \in Live : disk[k].st # "ok" \/ k \notin Key => Accounted(mem, k)
    BY <1>4, BankFacts, StoredFacts DEF Accounted
<1>6. "lamps" \in Key /\ Live \subseteq Key /\ BankKeys \subseteq Key
    BY BankFacts
<1>7. (\A k \in Live \ Key : k \in mem.held \/ Learned(k)) /\ \A k \in BankKeys \ Key : ~OldIsDue(k)
    BY <1>6
<1> HIDE DEF out
<1> QED
    BY <1>1, <1>2, <1>3, <1>4, <1>5, <1>6, <1>7, HydrateStep, SMT DEF out

LEMMA NotHeldIsAccounted ==
    ASSUME IInv, pc = "idle"
    PROVE  /\ \A k \in Live : Accounted(mem, k) /\ (k \in mem.held \/ Learned(k))
           /\ "lamps" \in owed \/ Bound(mem)
           /\ "old" \in owed \/ \A k \in BankKeys : ~OldIsDue(k)
           /\ importing = None
<1>1. W = {}
    BY DEF W
<1> QED
    BY <1>1 DEF IInv, AccountInv, StageInv

\* The records a slice holds are announced under the keys of live slices.
LEMMA EntitiesAreKeys ==
    ASSUME NEW m, NEW k \in Key
    PROVE  EntitiesOf(m, k) \subseteq Key
<1>1. CASE k \in BankKeys \cup {"old"}
    BY <1>1, KeyFacts DEF EntitiesOf
<1>2. CASE k \notin BankKeys \cup {"old"}
    BY <1>2 DEF EntitiesOf
<1> QED
    BY <1>1, <1>2

LEMMA RereadKeeps ==
    ASSUME IInv, NEW unread, Reread(unread)
    PROVE  IInv' /\ Hydrated(mem, mem', Outcomes(unread), mem.held)
<1> DEFINE out == Outcomes(unread)
<1>1. /\ pc = "idle" /\ disk' = disk /\ mem' = Hydrate(mem, out, mem.held)
      /\ known' = Learn(out, mem.held) /\ queue' = queue \cup Replaced(mem, mem', {})
      /\ pc' = pc /\ importing' = importing /\ owed' = owed /\ report' = report /\ stage' = stage
    BY DEF Reread
<1>2. /\ owed \subseteq {"lamps", "old"} /\ queue \subseteq Key /\ mem.held \subseteq Live
      /\ report \in {"none", "ok", "partial", "refused"} /\ mem.held \in SUBSET Key
    BY MemFields, BankFacts DEF IInv, TypeInv
<1>3. queue' \subseteq Key
    BY <1>1, <1>2, EntitiesAreKeys DEF Replaced
<1>4. /\ \A k \in Live : Accounted(mem, k) /\ (k \in mem.held \/ Learned(k))
      /\ "lamps" \in owed \/ Bound(mem)
      /\ "old" \in owed \/ \A k \in BankKeys : ~OldIsDue(k)
      /\ importing = None
    BY <1>1, NotHeldIsAccounted
<1> HIDE DEF out
<1> QED
    BY <1>1, <1>2, <1>3, <1>4, HydrateStep, SMT DEF out

LEMMA ReloadKeeps ==
    ASSUME IInv, NEW unread, ImportReloads(unread)
    PROVE  IInv' /\ Hydrated(mem, mem', Outcomes(unread), Key)
<1> DEFINE out == Outcomes(unread)
<1>1. /\ pc = "reload" /\ disk' = disk /\ mem' = Hydrate(mem, out, Key)
      /\ known' = Learn(out, Key) /\ queue' = queue \cup Replaced(mem, mem', importing.written)
      /\ pc' = "idle" /\ importing' = None /\ owed' = {"lamps"} \cap mem.dirty
      /\ report' \in {"ok", "partial"} /\ stage' = stage
    BY DEF ImportReloads
<1>2. /\ owed' \subseteq {"lamps", "old"} /\ queue \subseteq Key /\ mem.held \subseteq Live
      /\ importing \in ImportType
    BY <1>1, MemFields DEF IInv, TypeInv, StageInv
<1>3. importing.written \subseteq Key /\ mem.held \subseteq Key
    BY <1>2, BankFacts DEF ImportType
<1>4. queue' \subseteq Key
    BY <1>1, <1>2, <1>3, EntitiesAreKeys DEF Replaced
<1>5. W = importing.written /\ \A k \in W : disk[k].st = "ok"
    BY <1>1 DEF W, IInv, WrittenInv
<1>6. \A k \in Live : disk[k].st # "ok" => Accounted(mem, k)
    BY <1>1, <1>5 DEF IInv, AccountInv
<1>7. "lamps" \in Key /\ Live \subseteq Key /\ BankKeys \subseteq Key /\ "lamps" \in Live
    BY BankFacts
<1>8. "lamps" \in owed' \/ (disk["lamps"].st # "ok" => mem.ram.lamp = None)
    <2> SUFFICES ASSUME "lamps" \notin mem.dirty, disk["lamps"].st # "ok" PROVE mem.ram.lamp = None
        BY <1>1
    <2>1. Accounted(mem, "lamps")
        BY <1>6, <1>7
    <2>2. Content(mem.ram, "lamps") = mem.ram.lamp /\ Content(NewRam, "lamps") = NewRam.lamp
        BY ContentFacts
    <2>3. NewRam.lamp = None
        BY SMT DEF NewRam
    <2> QED
        BY <2>1, <2>2, <2>3, StoredFacts DEF Accounted
<1>9. (\A k \in Live \ Key : k \in mem.held \/ Learned(k)) /\ \A k \in BankKeys \ Key : ~OldIsDue(k)
    BY <1>7
<1>10. \A k \in Live : disk[k].st # "ok" \/ k \notin Key => Accounted(mem, k)
    BY <1>6, <1>7
<1> HIDE DEF out
<1> QED
    BY <1>1, <1>2, <1>4, <1>7, <1>8, <1>9, <1>10, HydrateStep, SMT DEF out

LEMMA EditKeeps ==
    ASSUME IInv, mem' \in MemType, pc = "idle", disk' = disk, pc' = pc, todo' = todo,
           importing' = importing, stage' = stage, queue' = queue, report' = report,
           known' = known, owed' = owed, mem'.held = mem.held, mem.dirty \subseteq mem'.dirty,
           mem.switched => mem'.switched, Bound(mem) => Bound(mem'),
           \A k \in Live : \/ k \in mem'.dirty
                           \/ k = "hcl" /\ mem'.switched
                           \/ Content(mem'.ram, k) = Content(mem.ram, k)
    PROVE  IInv'
<1>1. /\ pc = "idle"
      /\ UNCHANGED <<disk, pc, todo, importing, stage, queue, report, known, owed>>
    OBVIOUS
<1>2. /\ \A k \in Live : Accounted(mem, k) /\ (k \in mem.held \/ Learned(k))
      /\ "lamps" \in owed \/ Bound(mem)
      /\ "old" \in owed \/ \A k \in BankKeys : ~OldIsDue(k)
      /\ importing = None
    BY <1>1, NotHeldIsAccounted
<1>3. TypeInv'
    BY <1>1 DEF IInv, TypeInv, DiskOK
<1>4. StageInv' /\ WrittenInv' /\ W' = {}
    BY <1>1, <1>2 DEF StageInv, WrittenInv, W
<1>5. ASSUME NEW k \in Live PROVE Accounted(mem, k)'
    <2>1. Accounted(mem, k)
        BY <1>2
    <2>2. Content(mem'.ram, "lamps") = mem'.ram.lamp /\ Content(mem.ram, "lamps") = mem.ram.lamp
        BY ContentFacts
    <2>3. Accounted(mem', k)
        BY <2>1, <2>2 DEF Accounted
    <2> QED
        BY <1>1, <2>3 DEF Accounted, Stored
<1>6. "lamps" \in owed' \/ Bound(mem)'
    BY <1>1, <1>2 DEF Bound
<1>7. \A k \in Live : k \in mem'.held \/ Learned(k)'
    BY <1>1, <1>2 DEF Learned
<1>8. "old" \in owed' \/ \A k \in BankKeys : ~OldIsDue(k)'
    BY <1>1, <1>2 DEF OldIsDue
<1> QED
    BY <1>3, <1>4, <1>5, <1>6, <1>7, <1>8 DEF IInv, AccountInv

\* Changing some records and marking slices.
LEMMA MarkFacts ==
    ASSUME NEW m \in MemType, NEW r \in RamType, NEW ks \in SUBSET Live,
           NEW n, n = Mark([m EXCEPT !.ram = r], ks)
    PROVE  /\ n \in MemType /\ n.ram = r /\ n.held = m.held /\ n.switched = m.switched
           /\ n.dirty = m.dirty \cup ks
<1> DEFINE x == [m EXCEPT !.ram = r]
<1>1. x.ram = r /\ x.held = m.held /\ x.dirty = m.dirty /\ x.switched = m.switched /\ x \in MemType
    BY SetRam, SMT
<1> HIDE DEF x
<1>2. n = [x EXCEPT !.dirty = m.dirty \cup ks]
    BY <1>1 DEF Mark, x
<1>3. m.dirty \cup ks \in SUBSET Live
    BY MemFields
<1> QED
    BY <1>1, <1>2, <1>3, SetDirty, SMT

LEMMA ContentSame ==
    ASSUME NEW r, NEW q, NEW j \in Live,
           j \in Plain => r[j] = q[j], j = "lamps" => r.lamp = q.lamp,
           j \in BankKeys => r.dev[BankOf(j)] = q.dev[BankOf(j)]
    PROVE  Content(r, j) = Content(q, j)
<1>1. CASE j \in Plain
    BY <1>1, ContentFacts, ZenonT(30)
<1>2. CASE j = "lamps"
    BY <1>2, ContentFacts
<1>3. CASE j \in BankKeys
    <2>1. BankOf(j) \in Short /\ j = BankKey[BankOf(j)]
        BY <1>3, BankFacts
    <2>2. Content(r, j) = r.dev[BankOf(j)] /\ Content(q, j) = q.dev[BankOf(j)]
        BY <2>1, ContentFacts
    <2> QED
        BY <1>3, <2>2
<1>4. Live = Plain \cup BankKeys \cup {"lamps"}
    BY BankFacts
<1> QED
    BY <1>1, <1>2, <1>3, <1>4

LEMMA EditPlainKeeps ==
    ASSUME IInv, NEW k \in Plain, EditPlain(k)
    PROVE  IInv'
<1> DEFINE r == [mem.ram EXCEPT ![k] = 1 - mem.ram[k]]
           n == Mark([mem EXCEPT !.ram[k] = 1 - @], {k})
<1>0. mem \in MemType /\ mem.ram \in RamType /\ mem.ram[k] \in {0, 1} /\ {k} \in SUBSET Live
    BY MemFields, RamFields, BankFacts DEF IInv, TypeInv
<1>1. n = Mark([mem EXCEPT !.ram = r], {k})
    <2>1. [mem EXCEPT !.ram[k] = 1 - @] = [mem EXCEPT !.ram = r]
        BY <1>0, SMT DEF MemType
    <2> QED
        BY <2>1
<1>2. /\ r \in RamType /\ r.lamp = mem.ram.lamp /\ r.dev = mem.ram.dev
      /\ \A j \in Plain \ {k} : r[j] = mem.ram[j]
    <2>1. 1 - mem.ram[k] \in {0, 1}
        BY <1>0, SMT
    <2> QED
        BY <1>0, <2>1, SetPlain, SMT
<1>3. /\ pc = "idle" /\ mem' = n /\ disk' = disk /\ pc' = pc /\ todo' = todo
      /\ importing' = importing /\ stage' = stage /\ queue' = queue /\ report' = report
      /\ known' = known /\ owed' = owed
    BY DEF EditPlain, Edited
<1> HIDE DEF n, r
<1>4. /\ n \in MemType /\ n.ram = r /\ n.held = mem.held /\ n.switched = mem.switched
      /\ n.dirty = mem.dirty \cup {k}
    <2>1. r \in RamType
        BY <1>2
    <2> QED
        BY <1>0, <1>1, <2>1, MarkFacts, SMT
<1>5. Bound(mem) => Bound(n)
    BY <1>2, <1>4 DEF Bound
<1>6. ASSUME NEW j \in Live PROVE j \in n.dirty \/ Content(n.ram, j) = Content(mem.ram, j)
    <2>1. CASE j = k
        BY <1>4, <2>1
    <2>2. CASE j # k
        BY <1>2, <1>4, <2>2, ContentSame, SMT
    <2> QED
        BY <2>1, <2>2
<1>7. mem.dirty \subseteq n.dirty /\ (mem.switched => n.switched)
    BY <1>4
<1>20. /\ mem' \in MemType /\ mem'.held = mem.held /\ mem.dirty \subseteq mem'.dirty
      /\ (mem.switched => mem'.switched) /\ (Bound(mem) => Bound(mem'))
      /\ \A j \in Live : \/ j \in mem'.dirty
                         \/ j = "hcl" /\ mem'.switched
                         \/ Content(mem'.ram, j) = Content(mem.ram, j)
    BY <1>3, <1>4, <1>5, <1>6, <1>7
<1> QED
    BY <1>3, <1>20, EditKeeps

LEMMA SwitchKeeps ==
    ASSUME IInv, SwitchSchedule
    PROVE  IInv'
<1> DEFINE r == [mem.ram EXCEPT !.hcl = 1 - mem.ram.hcl]
           n == [mem EXCEPT !.ram.hcl = 1 - @, !.switched = TRUE]
<1>0. mem \in MemType /\ mem.ram \in RamType /\ mem.ram.hcl \in {0, 1} /\ "hcl" \in Plain
    BY MemFields, RamFields, KeyFacts DEF IInv, TypeInv
<1>1. /\ r \in RamType /\ r.lamp = mem.ram.lamp /\ r.dev = mem.ram.dev
      /\ \A j \in Plain \ {"hcl"} : r[j] = mem.ram[j]
    <2>1. 1 - mem.ram.hcl \in {0, 1}
        BY <1>0, SMT
    <2> QED
        BY <1>0, <2>1, SetPlain, SMT
<1>2. n = [mem EXCEPT !.ram = r, !.switched = TRUE]
    BY <1>0, SMT DEF MemType
<1>3. /\ pc = "idle" /\ mem' = n /\ disk' = disk /\ pc' = pc /\ todo' = todo
      /\ importing' = importing /\ stage' = stage /\ queue' = queue /\ report' = report
      /\ known' = known /\ owed' = owed
    BY DEF SwitchSchedule, Edited
<1> HIDE DEF n, r
<1>4. n \in MemType /\ n.ram = r /\ n.held = mem.held /\ n.switched = TRUE /\ n.dirty = mem.dirty
    <2>1. r \in RamType
        BY <1>1
    <2> QED
        <3> DEFINE x == [mem EXCEPT !.ram = r]
        <3>1. x.ram = r /\ x.held = mem.held /\ x.dirty = mem.dirty /\ x \in MemType
            BY <1>0, <2>1, SetRam, SMT
        <3>2. n = [x EXCEPT !.switched = TRUE]
            BY <1>2
        <3> HIDE DEF x
        <3>3. n.ram = x.ram /\ n.held = x.held /\ n.dirty = x.dirty /\ n.switched = TRUE /\ n \in MemType
            <4>1. x \in MemType
                BY <3>1
            <4> QED
                BY <3>2, <4>1, SetSwitched
        <3> QED
            BY <3>1, <3>3
<1>5. Bound(mem) => Bound(n)
    BY <1>1, <1>4 DEF Bound
<1>6. ASSUME NEW j \in Live PROVE j = "hcl" \/ Content(n.ram, j) = Content(mem.ram, j)
    <2>1. CASE j # "hcl"
        BY <1>1, <1>4, <2>1, ContentSame, SMT
    <2> QED
        BY <2>1
<1>7. mem.dirty \subseteq n.dirty /\ n.switched
    BY <1>4
<1>20. /\ mem' \in MemType /\ mem'.held = mem.held /\ mem.dirty \subseteq mem'.dirty
      /\ (mem.switched => mem'.switched) /\ (Bound(mem) => Bound(mem'))
      /\ \A k \in Live : \/ k \in mem'.dirty
                         \/ k = "hcl" /\ mem'.switched
                         \/ Content(mem'.ram, k) = Content(mem.ram, k)
    BY <1>3, <1>4, <1>5, <1>6, <1>7
<1> QED
    BY <1>3, <1>20, EditKeeps

\* DiscoverDevice, ForgetDevice and BindLamp.
LEMMA DeviceEditsKeep ==
    ASSUME IInv, NEW s \in Short, DiscoverDevice(s) \/ ForgetDevice(s) \/ BindLamp(s)
    PROVE  IInv'
<1>0. /\ mem \in MemType /\ mem.ram \in RamType /\ mem.ram.dev \in [Short -> {0, 1}]
      /\ mem.ram.lamp \in Short \cup {None} /\ mem.dirty \subseteq Live
    BY MemFields, RamFields DEF IInv, TypeInv
<1>1. /\ BankKey[s] \in Live /\ "lamps" \in Live /\ s # None
      /\ \A j \in BankKeys : BankOf(j) = s => j = BankKey[s]
    BY BankFacts, PersistAssumption
<1>2. ASSUME DiscoverDevice(s) PROVE IInv'
    <2> DEFINE v == [mem.ram.dev EXCEPT ![s] = 1]
               r == [mem.ram EXCEPT !.dev = v]
               n == Mark([mem EXCEPT !.ram.dev[s] = 1], {BankKey[s]})
    <2>1. /\ pc = "idle" /\ mem' = n /\ disk' = disk /\ pc' = pc /\ todo' = todo
          /\ importing' = importing /\ stage' = stage /\ queue' = queue /\ report' = report
          /\ known' = known /\ owed' = owed
        BY <1>2 DEF DiscoverDevice, Edited
    <2>2. n = Mark([mem EXCEPT !.ram = r], {BankKey[s]})
        <3>1. [mem EXCEPT !.ram.dev[s] = 1] = [mem EXCEPT !.ram = r]
            BY <1>0, SMT DEF MemType, RamType
        <3> QED
            BY <3>1
    <2>3. v \in [Short -> {0, 1}] /\ v[s] = 1 /\ \A t \in Short \ {s} : v[t] = mem.ram.dev[t]
        BY <1>0
    <2> HIDE DEF n, v
    <2>4. r \in RamType /\ r.dev = v /\ r.lamp = mem.ram.lamp /\ \A k \in Plain : r[k] = mem.ram[k]
        BY <1>0, <2>3, SetDev, SMT
    <2> HIDE DEF r
    <2>5. /\ n \in MemType /\ n.ram = r /\ n.held = mem.held /\ n.switched = mem.switched
          /\ n.dirty = mem.dirty \cup {BankKey[s]}
        <3>1. r \in RamType /\ {BankKey[s]} \in SUBSET Live
            BY <1>1, <2>4
        <3> QED
            BY <1>0, <2>2, <3>1, MarkFacts, SMT
    <2>6. Bound(mem) => Bound(n)
        <3>1. 1 # 0
            BY SMT
        <3> QED
            BY <1>0, <2>3, <2>4, <2>5, <3>1, ZenonT(30) DEF Bound
    <2>7. ASSUME NEW j \in Live PROVE j \in n.dirty \/ Content(n.ram, j) = Content(mem.ram, j)
        <3>1. CASE j = BankKey[s]
            BY <2>5, <3>1
        <3>2. CASE j # BankKey[s]
            <4>1. j \in BankKeys => BankOf(j) \in Short \ {s}
                BY <1>1, <3>2, BankFacts
            <4>2. j \in BankKeys => r.dev[BankOf(j)] = mem.ram.dev[BankOf(j)]
                BY <2>3, <2>4, <4>1
            <4> QED
                BY <2>4, <2>5, <4>2, ContentSame, SMT
        <3> QED
            BY <3>1, <3>2
    <2>8. mem.dirty \subseteq n.dirty /\ (mem.switched => n.switched)
        BY <2>5
    <2>20. /\ mem' \in MemType /\ mem'.held = mem.held /\ mem.dirty \subseteq mem'.dirty
          /\ (mem.switched => mem'.switched) /\ (Bound(mem) => Bound(mem'))
          /\ \A k \in Live : \/ k \in mem'.dirty
                             \/ k = "hcl" /\ mem'.switched
                             \/ Content(mem'.ram, k) = Content(mem.ram, k)
        BY <2>1, <2>5, <2>6, <2>7, <2>8
    <2> QED
        BY <2>1, <2>20, EditKeeps
<1>3. ASSUME ForgetDevice(s) PROVE IInv'
    <2> DEFINE bound == mem.ram.lamp = s
               v == [mem.ram.dev EXCEPT ![s] = 0]
               l == IF bound THEN None ELSE mem.ram.lamp
               q == [mem.ram EXCEPT !.dev = v]
               r == [q EXCEPT !.lamp = l]
               ks == {BankKey[s]} \cup (IF bound THEN {"lamps"} ELSE {})
               n == Mark([mem EXCEPT !.ram.dev[s] = 0, !.ram.lamp = IF bound THEN None ELSE @], ks)
    <2>1. /\ pc = "idle" /\ mem' = n /\ disk' = disk /\ pc' = pc /\ todo' = todo
          /\ importing' = importing /\ stage' = stage /\ queue' = queue /\ report' = report
          /\ known' = known /\ owed' = owed
        BY <1>3 DEF ForgetDevice, Edited
    <2>2. n = Mark([mem EXCEPT !.ram = r], ks)
        <3>1. [mem EXCEPT !.ram.dev[s] = 0, !.ram.lamp = IF bound THEN None ELSE @] =
              [mem EXCEPT !.ram = r]
            <4> DEFINE u == [mem EXCEPT !.ram.dev[s] = 0]
            <4>1. u = [mem EXCEPT !.ram = q]
                BY <1>0, SMT DEF MemType, RamType
            <4>2. mem.ram.lamp = q.lamp /\ u.ram = q
                BY <1>0, <4>1, SMT DEF MemType, RamType
            <4>3. [mem EXCEPT !.ram.dev[s] = 0, !.ram.lamp = IF bound THEN None ELSE @] =
                  [u EXCEPT !.ram.lamp = IF bound THEN None ELSE @]
                OBVIOUS
            <4>4. [u EXCEPT !.ram.lamp = IF bound THEN None ELSE @] = [u EXCEPT !.ram.lamp = l]
                BY <4>2
            <4> HIDE DEF u, q, l
            <4>5. [u EXCEPT !.ram.lamp = l] = [mem EXCEPT !.ram = r]
                <5>1. [u EXCEPT !.ram.lamp = l] = [u EXCEPT !.ram = r]
                    BY <4>2
                <5>2. [u EXCEPT !.ram = r] = [mem EXCEPT !.ram = r]
                    <6> HIDE DEF r
                    <6> QED
                        BY <1>0, <4>1, SetRamTwice
                <5> QED
                    BY <5>1, <5>2
            <4> QED
                BY <4>3, <4>4, <4>5
        <3> QED
            BY <3>1
    <2>3. v \in [Short -> {0, 1}] /\ \A t \in Short \ {s} : v[t] = mem.ram.dev[t]
        BY <1>0
    <2>4. l \in Short \cup {None}
        BY <1>0
    <2> HIDE DEF n, v
    <2>5. q \in RamType /\ q.dev = v /\ q.lamp = mem.ram.lamp /\ \A k \in Plain : q[k] = mem.ram[k]
        BY <1>0, <2>3, SetDev, SMT
    <2> HIDE DEF q, l
    <2>6. r \in RamType /\ r.lamp = l /\ r.dev = v /\ \A k \in Plain : r[k] = mem.ram[k]
        <3>1. r \in RamType /\ r.lamp = l /\ r.dev = q.dev /\ \A k \in Plain : r[k] = q[k]
            <4>1. q \in RamType
                BY <2>5
            <4> QED
                BY <2>4, <4>1, SetLamp, SMT
        <3> QED
            BY <2>5, <3>1
    <2>7. ks \in SUBSET Live
        BY <1>1
    <2> HIDE DEF r, ks
    <2>8. /\ n \in MemType /\ n.ram = r /\ n.held = mem.held /\ n.switched = mem.switched
          /\ n.dirty = mem.dirty \cup ks
        <3>1. r \in RamType
            BY <2>6
        <3> QED
            BY <1>0, <2>2, <2>7, <3>1, MarkFacts, SMT
    <2>9. Bound(mem) => Bound(n)
        <3> SUFFICES ASSUME Bound(mem), n.ram.lamp # None PROVE Bound(n)
            BY DEF Bound
        <3>1. n.ram.lamp = mem.ram.lamp /\ mem.ram.lamp # s
            BY <2>6, <2>8 DEF l
        <3>2. n.ram.dev[n.ram.lamp] = mem.ram.dev[mem.ram.lamp]
            BY <1>0, <2>3, <2>6, <2>8, <3>1
        <3> QED
            BY <2>8, <3>1, <3>2 DEF Bound
    <2>10. ASSUME NEW j \in Live PROVE j \in n.dirty \/ Content(n.ram, j) = Content(mem.ram, j)
        <3>1. CASE j = BankKey[s]
            BY <2>8, <3>1 DEF ks
        <3>2. CASE j = "lamps" /\ mem.ram.lamp = s
            BY <2>8, <3>2 DEF ks
        <3>3. CASE j # BankKey[s] /\ ~(j = "lamps" /\ mem.ram.lamp = s)
            <4>1. j \in BankKeys => BankOf(j) \in Short \ {s}
                BY <1>1, <3>3, BankFacts
            <4>2. j \in BankKeys => r.dev[BankOf(j)] = mem.ram.dev[BankOf(j)]
                BY <2>3, <2>6, <4>1
            <4>3. j = "lamps" => r.lamp = mem.ram.lamp
                BY <2>6, <3>3 DEF l
            <4> QED
                BY <2>6, <2>8, <4>2, <4>3, ContentSame, SMT
        <3> QED
            BY <3>1, <3>2, <3>3
    <2>11. mem.dirty \subseteq n.dirty /\ (mem.switched => n.switched)
        BY <2>8
    <2>20. /\ mem' \in MemType /\ mem'.held = mem.held /\ mem.dirty \subseteq mem'.dirty
          /\ (mem.switched => mem'.switched) /\ (Bound(mem) => Bound(mem'))
          /\ \A k \in Live : \/ k \in mem'.dirty
                             \/ k = "hcl" /\ mem'.switched
                             \/ Content(mem'.ram, k) = Content(mem.ram, k)
        BY <2>1, <2>8, <2>9, <2>10, <2>11
    <2> QED
        BY <2>1, <2>20, EditKeeps
<1>4. ASSUME BindLamp(s) PROVE IInv'
    <2> DEFINE r == [mem.ram EXCEPT !.lamp = s]
               n == Mark([mem EXCEPT !.ram.lamp = s], {"lamps"})
    <2>1. /\ pc = "idle" /\ mem' = n /\ disk' = disk /\ pc' = pc /\ todo' = todo
          /\ importing' = importing /\ stage' = stage /\ queue' = queue /\ report' = report
          /\ known' = known /\ owed' = owed
          /\ mem.ram.dev[s] # 0
        BY <1>4 DEF BindLamp, Edited
    <2>2. n = Mark([mem EXCEPT !.ram = r], {"lamps"})
        <3>1. [mem EXCEPT !.ram.lamp = s] = [mem EXCEPT !.ram = r]
            BY <1>0, SMT DEF MemType
        <3> QED
            BY <3>1
    <2>3. r \in RamType /\ r.lamp = s /\ r.dev = mem.ram.dev /\ \A k \in Plain : r[k] = mem.ram[k]
        BY <1>0, SetLamp, SMT
    <2> HIDE DEF n, r
    <2>4. /\ n \in MemType /\ n.ram = r /\ n.held = mem.held /\ n.switched = mem.switched
          /\ n.dirty = mem.dirty \cup {"lamps"}
        <3>1. r \in RamType /\ {"lamps"} \in SUBSET Live
            BY <1>1, <2>3
        <3> QED
            BY <1>0, <2>2, <3>1, MarkFacts, SMT
    <2>5. Bound(n)
        BY <2>1, <2>3, <2>4 DEF Bound
    <2>6. ASSUME NEW j \in Live PROVE j \in n.dirty \/ Content(n.ram, j) = Content(mem.ram, j)
        <3>1. CASE j = "lamps"
            BY <2>4, <3>1
        <3>2. CASE j # "lamps"
            BY <2>3, <2>4, <3>2, ContentSame, SMT
        <3> QED
            BY <3>1, <3>2
    <2>7. mem.dirty \subseteq n.dirty /\ (mem.switched => n.switched)
        BY <2>4
    <2>20. /\ mem' \in MemType /\ mem'.held = mem.held /\ mem.dirty \subseteq mem'.dirty
          /\ (mem.switched => mem'.switched) /\ (Bound(mem) => Bound(mem'))
          /\ \A k \in Live : \/ k \in mem'.dirty
                             \/ k = "hcl" /\ mem'.switched
                             \/ Content(mem'.ram, k) = Content(mem.ram, k)
        BY <2>1, <2>4, <2>5, <2>6, <2>7
    <2> QED
        BY <2>1, <2>20, EditKeeps
<1> QED
    BY <1>2, <1>3, <1>4

LEMMA SwitchesDueKeep ==
    ASSUME IInv, SwitchesDue
    PROVE  IInv'
<1> DEFINE n == Mark(mem, {"hcl"})
<1>0. mem \in MemType /\ mem.dirty \subseteq Live /\ "hcl" \in Live
    BY MemFields, KeyFacts DEF IInv, TypeInv
<1>1. /\ pc = "idle" /\ mem' = n /\ disk' = disk /\ pc' = pc /\ todo' = todo
      /\ importing' = importing /\ stage' = stage /\ queue' = queue /\ report' = report
      /\ known' = known /\ owed' = owed
    BY DEF SwitchesDue
<1>2. n = [mem EXCEPT !.dirty = mem.dirty \cup {"hcl"}]
    BY DEF Mark
<1>3. mem.dirty \cup {"hcl"} \in SUBSET Live
    BY <1>0
<1> HIDE DEF n
<1>4. /\ n.dirty = mem.dirty \cup {"hcl"} /\ n.ram = mem.ram /\ n.held = mem.held
      /\ n.switched = mem.switched /\ n \in MemType
    BY <1>0, <1>2, <1>3, SetDirty, SMT
<1>5. Bound(mem) => Bound(n)
    BY <1>4 DEF Bound
<1>6. /\ mem' \in MemType /\ mem'.held = mem.held /\ mem.dirty \subseteq mem'.dirty
      /\ (mem.switched => mem'.switched) /\ (Bound(mem) => Bound(mem'))
      /\ \A k \in Live : \/ k \in mem'.dirty
                         \/ k = "hcl" /\ mem'.switched
                         \/ Content(mem'.ram, k) = Content(mem.ram, k)
    BY <1>1, <1>4, <1>5
<1> QED
    BY <1>1, <1>6, EditKeeps

----------------------------------------------------------------------------
(* The flush.                                                              *)
\* There is a first of the places yet to be written.
LEMMA FirstIsOne ==
    ASSUME NEW S \in SUBSET Nat, S # {}
    PROVE  First(S) \in S
<1> DEFINE R == OpToRel(<, Nat)
<1>1. PICK x \in S : \A y \in S : <<y, x>> \notin R
    <2>1. IsWellFoundedOn(R, Nat)
        BY NatLessThanWellFounded
    <2> HIDE DEF R
    <2> QED
        BY <2>1, WFMin
<1>2. \A y \in S : ~(y < x)
    BY <1>1 DEF OpToRel
<1>3. \A y \in S : x <= y
    BY <1>2, SMT
<1> QED
    BY <1>3 DEF First

\* The account stands while store, memory and what is written of an import do.
LEMMA SameAccount ==
    ASSUME IInv, pc # "down", W' = W, UNCHANGED <<disk, mem, known, owed>>
    PROVE  AccountInv'
BY DEF IInv, AccountInv, Accounted, Stored, Bound, Learned, OldIsDue

LEMMA FlushBeginsKeeps ==
    ASSUME IInv, FlushBegins
    PROVE  IInv'
<1>1. /\ pc = "idle" /\ pc' = "flush" /\ todo' = FlushTodo(mem)
      /\ UNCHANGED <<disk, mem, importing, stage, queue, report, known, owed>>
    BY DEF FlushBegins
<1>2. TypeInv'
    BY <1>1 DEF IInv, TypeInv, DiskOK
<1>3. StageInv' /\ WrittenInv' /\ W' = W
    BY <1>1 DEF IInv, StageInv, WrittenInv, W, FlushTodo, Writable
<1>4. AccountInv'
    BY <1>1, <1>3, SameAccount
<1> QED
    BY <1>2, <1>3, <1>4 DEF IInv

LEMMA FlushEndsKeeps ==
    ASSUME IInv, FlushEnds
    PROVE  IInv'
<1>1. /\ pc = "flush" /\ pc' = IF importing = None THEN "idle" ELSE "import"
      /\ UNCHANGED <<disk, mem, todo, importing, stage, queue, report, known, owed>>
    BY DEF FlushEnds
<1>2. TypeInv'
    BY <1>1 DEF IInv, TypeInv, DiskOK
<1>3. StageInv' /\ WrittenInv' /\ W' = W
    <2>1. CASE importing = None
        BY <1>1, <2>1 DEF StageInv, WrittenInv, W
    <2>2. CASE importing # None
        <3>1. importing \in ImportType
            BY <2>2 DEF IInv, TypeInv
        <3> QED
            BY <1>1, <2>2, <3>1 DEF IInv, StageInv, WrittenInv, W
    <2> QED
        BY <2>1, <2>2
<1>4. AccountInv'
    BY <1>1, <1>3, SameAccount
<1> QED
    BY <1>2, <1>3, <1>4 DEF IInv

LEMMA FlushKey ==
    ASSUME IInv, pc = "flush", todo # {}
    PROVE  /\ First(todo) \in todo /\ FlushOrder[First(todo)] \in Live
           /\ FlushOrder[First(todo)] \notin mem.held
<1>1. DOMAIN FlushOrder \subseteq Nat /\ \A i \in DOMAIN FlushOrder : FlushOrder[i] \in Live
    BY KeyFacts, SMT DEF FlushOrder
<1>2. todo \subseteq DOMAIN FlushOrder /\ \A i \in todo : FlushOrder[i] \notin mem.held
    BY DEF IInv, StageInv
<1>3. First(todo) \in todo
    BY <1>1, <1>2, FirstIsOne
<1> QED
    BY <1>1, <1>2, <1>3

\* Taking a mark, as a write or as a failed one does.
LEMMA TakeFacts ==
    ASSUME NEW m \in MemType, NEW k \in Live, NEW n, n = Take(m, k)
    PROVE  /\ n \in MemType /\ n.ram = m.ram /\ n.held = m.held /\ n.dirty = m.dirty \ {k}
           /\ n.switched <=> m.switched /\ k # "hcl"
<1> DEFINE b == m.switched /\ k # "hcl"
<1>1. m = [ram |-> m.ram, dirty |-> m.dirty, held |-> m.held, switched |-> m.switched]
    BY DEF MemType
<1>2. n = [ram |-> m.ram, dirty |-> m.dirty \ {k}, held |-> m.held, switched |-> b]
    BY <1>1 DEF Take
<1>3. b \in BOOLEAN
    OBVIOUS
<1> HIDE DEF b
<1>4. n.ram = m.ram /\ n.held = m.held /\ n.dirty = m.dirty \ {k} /\ n.switched = b
    BY <1>2, SMT
<1>5. m.ram \in RamType /\ m.held \in SUBSET Live /\ m.dirty \ {k} \in SUBSET Live
    BY MemFields
<1>6. n \in MemType
    BY <1>2, <1>3, <1>5, SMT DEF MemType
<1> QED
    BY <1>4, <1>6 DEF b

\* Writing in turn, or failing to: the slice is stored as it is, or marked.
LEMMA FlushTurn ==
    ASSUME IInv, pc = "flush", NEW k \in Live, k \notin mem.held, mem' \in MemType,
           mem'.ram = mem.ram, mem'.held = mem.held,
           mem.dirty \ {k} \subseteq mem'.dirty, mem'.switched <=> mem.switched /\ k # "hcl",
           DiskOK(disk'), \A j \in Key \ {k} : disk'[j] = disk[j] /\ known'[j] = known[j],
           DOMAIN known' = Key, known'[k] = disk'[k],
           k \in mem'.dirty \/ (disk'[k].st = "ok" /\ disk'[k].val = Content(mem.ram, k)),
           disk'[k] = disk[k] \/ disk'[k].st = "ok",
           todo' \subseteq todo,
           UNCHANGED <<pc, importing, stage, queue, report, owed>>
    PROVE  IInv'
<1>0. k \in Key /\ "old" \in Key /\ k # "old" /\ "lamps" \in Key /\ Live \subseteq Key /\ BankKeys \subseteq Key
    BY KeyFacts
<1>1. TypeInv'
    BY DEF IInv, TypeInv
<1>2. StageInv'
    BY DEF IInv, StageInv
<1>3. WrittenInv' /\ W' = {} /\ W = {}
    BY DEF WrittenInv, W
<1>4. /\ \A j \in Live : Accounted(mem, j) /\ (j \in mem.held \/ Learned(j))
      /\ "lamps" \in owed \/ Bound(mem)
      /\ "old" \in owed \/ \A j \in BankKeys : ~OldIsDue(j)
    BY <1>3 DEF IInv, AccountInv
<1>5. ASSUME NEW j \in Live PROVE Accounted(mem, j)'
    <2>1. CASE j = k
        BY <2>1 DEF Accounted, Stored
    <2>2. CASE j # k
        BY <1>0, <1>4, <2>2 DEF Accounted, Stored
    <2> QED
        BY <2>1, <2>2
<1>6. "lamps" \in owed' \/ Bound(mem)'
    BY <1>0, <1>4 DEF Bound
<1>7. ASSUME NEW j \in Live PROVE j \in mem'.held \/ Learned(j)'
    BY <1>0, <1>4, ZenonT(30) DEF Learned
<1>8. "old" \in owed' \/ \A j \in BankKeys : ~OldIsDue(j)'
    <2> SUFFICES ASSUME "old" \notin owed, NEW j \in BankKeys PROVE ~OldIsDue(j)'
        OBVIOUS
    <2>1. ~OldIsDue(j)
        BY <1>4
    <2>2. disk'["old"] = disk["old"]
        BY <1>0
    <2>3. CASE j = k
        BY <2>1, <2>2, <2>3 DEF OldIsDue
    <2>4. CASE j # k
        BY <1>0, <2>1, <2>2, <2>4 DEF OldIsDue
    <2> QED
        BY <2>3, <2>4
<1> QED
    BY <1>1, <1>2, <1>3, <1>5, <1>6, <1>7, <1>8, ZenonT(30) DEF IInv, AccountInv

\* What memory holds of a slice can be stored.
LEMMA ContentFits ==
    ASSUME NEW r \in RamType, NEW k \in Live
    PROVE  Slot("ok", Content(r, k)) \in Slots(k)
<1>1. Content(r, k) \in Values(k)
    <2>0. Live = Plain \cup BankKeys \cup {"lamps"}
        BY BankFacts
    <2>1. CASE k \in Plain
        <3>1. Content(r, k) = r[k]
            BY <2>1, ContentFacts
        <3>2. r[k] \in {0, 1}
            BY <2>1, RamFields
        <3> QED
            BY <2>1, <3>1, <3>2, ValueFacts
    <2>2. CASE k \in BankKeys
        <3>1. BankOf(k) \in Short /\ k = BankKey[BankOf(k)]
            BY <2>2, BankFacts
        <3>2. Content(r, k) = r.dev[BankOf(k)]
            BY <3>1, ContentFacts
        <3>3. r.dev \in [Short -> {0, 1}]
            BY RamFields
        <3> QED
            BY <2>2, <3>1, <3>2, <3>3, ValueFacts
    <2>3. CASE k = "lamps"
        BY <2>3, ContentFacts, RamFields, ValueFacts, ZenonT(30)
    <2> QED
        BY <2>0, <2>1, <2>2, <2>3
<1> QED
    BY <1>1 DEF Slots

LEMMA FlushWritesKeeps ==
    ASSUME IInv, FlushWrites
    PROVE  IInv'
<1> DEFINE k == FlushOrder[First(todo)]
           x == Slot("ok", Content(mem.ram, k))
<1>1. /\ pc = "flush" /\ todo # {} /\ todo' \subseteq todo
      /\ disk' = [disk EXCEPT ![k] = x] /\ mem' = Take(mem, k)
      /\ known' = [known EXCEPT ![k] = disk'[k]]
      /\ UNCHANGED <<pc, importing, stage, queue, report, owed>>
    BY DEF FlushWrites
<1>2. k \in Live /\ k \notin mem.held
    BY <1>1, FlushKey
<1>3. mem \in MemType /\ mem.ram \in RamType /\ DiskOK(disk) /\ DOMAIN known = Key
    BY MemFields DEF IInv, TypeInv
<1>4. k \in Key
    BY <1>2, BankFacts
<1> HIDE DEF k
<1>5. x \in Slots(k) /\ x.st = "ok" /\ x.val = Content(mem.ram, k)
    <2>1. x.st = "ok" /\ x.val = Content(mem.ram, k)
        BY SMT DEF Slot
    <2> QED
        BY <1>2, <1>3, <2>1, ContentFits
<1> HIDE DEF x
<1>6. /\ disk'[k] = x /\ DOMAIN disk' = Key /\ \A j \in Key \ {k} : disk'[j] = disk[j]
      /\ known'[k] = x /\ DOMAIN known' = Key /\ \A j \in Key \ {k} : known'[j] = known[j]
    BY <1>1, <1>3, <1>4 DEF DiskOK
<1>7. DiskOK(disk')
    BY <1>3, <1>5, <1>6 DEF DiskOK
<1>8. /\ mem' \in MemType /\ mem'.ram = mem.ram /\ mem'.held = mem.held
      /\ mem'.dirty = mem.dirty \ {k} /\ (mem'.switched <=> mem.switched /\ k # "hcl")
    <2> DEFINE n == Take(mem, k)
    <2>1. mem' = n /\ mem \in MemType
        BY <1>1, <1>3
    <2>2. /\ n \in MemType /\ n.ram = mem.ram /\ n.held = mem.held
          /\ n.dirty = mem.dirty \ {k} /\ (n.switched <=> mem.switched /\ k # "hcl")
        BY <1>2, <2>1, TakeFacts, ZenonT(30)
    <2> QED
        BY <2>1, <2>2
<1>9. /\ \A j \in Key \ {k} : disk'[j] = disk[j] /\ known'[j] = known[j]
      /\ mem.dirty \ {k} \subseteq mem'.dirty /\ known'[k] = disk'[k] /\ DOMAIN known' = Key
      /\ disk'[k].st = "ok" /\ disk'[k].val = Content(mem.ram, k)
    BY <1>5, <1>6, <1>8
<1> QED
    BY <1>1, <1>2, <1>7, <1>8, <1>9, FlushTurn

LEMMA FlushFailsKeeps ==
    ASSUME IInv, FlushFails
    PROVE  IInv'
<1> DEFINE k == FlushOrder[First(todo)]
           t == Take(mem, k)
           n == Mark(t, {k})
<1>1. /\ pc = "flush" /\ todo # {} /\ todo' \subseteq todo /\ mem' = n
      /\ UNCHANGED <<disk, known, pc, importing, stage, queue, report, owed>>
    BY DEF FlushFails, Remark
<1>2. k \in Live /\ k \notin mem.held
    BY <1>1, FlushKey
<1>3. mem \in MemType /\ mem.dirty \subseteq Live /\ DiskOK(disk) /\ DOMAIN known = Key
    BY MemFields DEF IInv, TypeInv
<1> HIDE DEF k
<1>4. /\ t \in MemType /\ t.ram = mem.ram /\ t.held = mem.held
      /\ t.dirty = mem.dirty \ {k} /\ (t.switched <=> mem.switched /\ k # "hcl")
    BY <1>2, <1>3, TakeFacts, ZenonT(30)
<1> HIDE DEF t
<1>5. n = [t EXCEPT !.dirty = t.dirty \cup {k}]
    BY DEF Mark
<1> HIDE DEF n
<1>6. t \in MemType /\ t.dirty \cup {k} \in SUBSET Live
    BY <1>2, <1>3, <1>4
<1>7. /\ n.dirty = t.dirty \cup {k} /\ n.ram = t.ram /\ n.held = t.held
      /\ n.switched = t.switched /\ n \in MemType
    BY <1>5, <1>6, SetDirty, SMT
<1>8. known[k] = disk[k]
    BY <1>1, <1>2 DEF IInv, AccountInv, Learned, W
<1>9. /\ mem'.ram = mem.ram /\ mem'.held = mem.held /\ mem.dirty \ {k} \subseteq mem'.dirty
      /\ k \in mem'.dirty /\ (mem'.switched <=> mem.switched /\ k # "hcl") /\ mem' \in MemType
    BY <1>1, <1>4, <1>7
<1>10. DiskOK(disk') /\ DOMAIN known' = Key /\ known'[k] = disk'[k]
    BY <1>1, <1>3, <1>8
<1> QED
    BY <1>1, <1>2, <1>9, <1>10, FlushTurn

----------------------------------------------------------------------------
(* An import.                                                              *)
LEMMA ImportFields ==
    ASSUME NEW i \in ImportType
    PROVE  i.slices \in Imports /\ i.written \in SUBSET Key /\ i.failed \in BOOLEAN
BY DEF ImportType

LEMMA SetWritten ==
    ASSUME NEW i \in ImportType, NEW S \in SUBSET Key, NEW n, n = [i EXCEPT !.written = S]
    PROVE  n.written = S /\ n.slices = i.slices /\ n.failed = i.failed /\ n \in ImportType
BY SMT DEF ImportType

LEMMA SetFailed ==
    ASSUME NEW i \in ImportType, NEW b \in BOOLEAN, NEW n, n = [i EXCEPT !.failed = b]
    PROVE  n.failed = b /\ n.slices = i.slices /\ n.written = i.written /\ n \in ImportType
<1>1. i = [slices |-> i.slices, written |-> i.written, failed |-> i.failed]
    BY DEF ImportType
<1>2. n = [slices |-> i.slices, written |-> i.written, failed |-> b]
    BY <1>1
<1> QED
    BY <1>2, ImportFields, SMT DEF ImportType

\* The schedule switches that wait are due at once.
LEMMA SwitchesAtOnce ==
    ASSUME NEW m \in MemType, NEW n,
           n = IF m.switched THEN [Mark(m, {"hcl"}) EXCEPT !.switched = FALSE] ELSE m
    PROVE  /\ n \in MemType /\ n.ram = m.ram /\ n.held = m.held /\ ~n.switched
           /\ m.dirty \subseteq n.dirty /\ (m.switched => "hcl" \in n.dirty)
<1>2. CASE m.switched
    <2> DEFINE d == m.dirty \cup {"hcl"}
               x == Mark(m, {"hcl"})
    <2>1. n = [x EXCEPT !.switched = FALSE]
        BY <1>2
    <2>2. x = [m EXCEPT !.dirty = d]
        BY DEF Mark
    <2>3. d \in SUBSET Live /\ m.dirty \subseteq d /\ "hcl" \in d
        BY MemFields, KeyFacts
    <2> HIDE DEF d, x
    <2>4. x.ram = m.ram /\ x.held = m.held /\ x.dirty = d /\ x \in MemType
        <3>1. d \in SUBSET Live
            BY <2>3
        <3> QED
            BY <2>2, <3>1, SetDirty, SMT
    <2>5. x \in MemType
        BY <2>4
    <2>6. n.ram = x.ram /\ n.held = x.held /\ n.dirty = x.dirty /\ n.switched = FALSE /\ n \in MemType
        BY <2>1, <2>5, SetUnswitched
    <2> QED
        BY <2>3, <2>4, <2>6
<1>3. CASE ~m.switched
    BY <1>3
<1> QED
    BY <1>2, <1>3

LEMMA ImportBeginsKeeps ==
    ASSUME IInv, ImportBegins
    PROVE  IInv'
<1> DEFINE m == IF mem.switched THEN [Mark(mem, {"hcl"}) EXCEPT !.switched = FALSE] ELSE mem
           i == [slices |-> stage, written |-> {}, failed |-> FALSE]
<1>1. /\ pc = "idle" /\ pc' = "flush" /\ stage # None /\ stage' = None /\ importing' = i
      /\ mem' = m /\ todo' = IF firmwareOpen THEN {} ELSE FlushTodo(m)
      /\ UNCHANGED <<disk, queue, report, known, owed>>
    BY DEF ImportBegins
<1>2. mem \in MemType /\ stage \in Imports
    BY <1>1 DEF IInv, TypeInv
<1>3. /\ m \in MemType /\ m.ram = mem.ram /\ m.held = mem.held /\ ~m.switched
      /\ mem.dirty \subseteq m.dirty /\ (mem.switched => "hcl" \in m.dirty)
    BY <1>2, SwitchesAtOnce
<1>4. i \in ImportType /\ i.written = {} /\ ~i.failed
    BY <1>2, SMT DEF ImportType
<1> HIDE DEF m, i
<1>5. TypeInv'
    BY <1>1, <1>3, <1>4 DEF IInv, TypeInv, DiskOK
<1>6. StageInv' /\ WrittenInv' /\ W' = {}
    BY <1>1, <1>3, <1>4 DEF StageInv, WrittenInv, W, FlushTodo, Writable
<1>7. /\ \A k \in Live : Accounted(mem, k) /\ (k \in mem.held \/ Learned(k))
      /\ "lamps" \in owed \/ Bound(mem)
      /\ "old" \in owed \/ \A k \in BankKeys : ~OldIsDue(k)
    BY <1>1, NotHeldIsAccounted
<1>8. \A k \in Live : Accounted(mem, k)'
    BY <1>1, <1>3, <1>7 DEF Accounted, Stored
<1>9. "lamps" \in owed' \/ Bound(mem)'
    BY <1>1, <1>3, <1>7 DEF Bound
<1>10. \A k \in Live : k \in mem'.held \/ Learned(k)'
    BY <1>1, <1>3, <1>7 DEF Learned
<1>11. "old" \in owed' \/ \A k \in BankKeys : ~OldIsDue(k)'
    BY <1>1, <1>3, <1>7 DEF OldIsDue
<1> QED
    BY <1>5, <1>6, <1>8, <1>9, <1>10, <1>11, ZenonT(30) DEF IInv, AccountInv

\* Refused: nothing of the import was stored.
LEMMA RefuseKeeps ==
    ASSUME IInv, Refuse, pc # "down", W = {}, UNCHANGED <<disk, mem, stage, queue, known, owed>>
    PROVE  IInv'
<1>1. importing' = None /\ pc' = "idle" /\ report' = "refused" /\ todo' = {}
    BY DEF Refuse
<1>2. TypeInv'
    BY <1>1 DEF IInv, TypeInv, DiskOK
<1>3. StageInv' /\ WrittenInv' /\ W' = W
    BY <1>1 DEF StageInv, WrittenInv, W
<1>4. AccountInv'
    BY <1>3, SameAccount
<1> QED
    BY <1>2, <1>3, <1>4 DEF IInv

LEMMA ImportValidatesKeeps ==
    ASSUME IInv, ImportValidates
    PROVE  IInv'
<1> DEFINE slices == importing.slices
           good == {i \in DOMAIN slices : slices[i].slot.st = "ok"}
           b == good # DOMAIN slices
           n == [importing EXCEPT !.failed = b]
<1>1. /\ pc = "import" /\ UNCHANGED <<disk, mem, stage, queue, known, owed>>
      /\ \/ Refuse
         \/ good # {} /\ pc' = "write" /\ todo' = good /\ importing' = n /\ report' = report
    BY DEF ImportValidates
<1>2. importing \in ImportType /\ importing.written = {} /\ ~mem.switched /\ W = {}
    BY <1>1 DEF IInv, StageInv, W
<1>3. CASE Refuse
    BY <1>1, <1>2, <1>3, RefuseKeeps
<1>4. CASE good # {} /\ pc' = "write" /\ todo' = good /\ importing' = n /\ report' = report
    <2>1. b \in BOOLEAN /\ (~b => good = DOMAIN slices)
        OBVIOUS
    <2>2. good \subseteq DOMAIN slices /\ \A i \in good : slices[i].slot.st = "ok"
        OBVIOUS
    <2> HIDE DEF b, good
    <2>3. n.failed = b /\ n.slices = importing.slices /\ n.written = importing.written /\ n \in ImportType
        BY <1>2, <2>1, SetFailed
    <2> HIDE DEF n
    <2>4. TypeInv'
        BY <1>1, <1>4, <2>3 DEF IInv, TypeInv, DiskOK
    <2>5. StageInv' /\ W' = W
        BY <1>1, <1>2, <1>4, <2>3 DEF StageInv, W
    <2>6. WrittenInv'
        <3>1. W' = {}
            BY <1>2, <2>5
        <3>2. importing'.slices = slices /\ importing'.failed = b /\ todo' = good /\ pc' = "write"
            BY <1>4, <2>3
        <3>3. ~importing'.failed => DOMAIN importing'.slices \ todo' = {}
            BY <2>1, <3>2
        <3> HIDE DEF slices
        <3> QED
            BY <1>4, <2>2, <3>1, <3>2, <3>3 DEF WrittenInv
    <2>7. AccountInv'
        BY <1>1, <2>5, SameAccount
    <2> QED
        BY <2>4, <2>5, <2>6, <2>7 DEF IInv
<1> QED
    BY <1>1, <1>3, <1>4

LEMMA ImportWriteFailsKeeps ==
    ASSUME IInv, ImportWriteFails
    PROVE  IInv'
<1> DEFINE n == [importing EXCEPT !.failed = TRUE]
<1>1. /\ pc = "write" /\ UNCHANGED <<disk, mem, stage, queue, known, owed>>
      /\ \/ importing.written = {} /\ Refuse
         \/ importing' = n /\ pc' = "reload" /\ todo' = {} /\ report' = report
    BY DEF ImportWriteFails, PartlyWritten
<1>2. /\ importing \in ImportType /\ ~mem.switched /\ W = importing.written
      /\ \A k \in W : disk[k].st = "ok"
    BY <1>1 DEF IInv, StageInv, WrittenInv, W
<1>3. CASE importing.written = {} /\ Refuse
    BY <1>1, <1>2, <1>3, RefuseKeeps, ZenonT(30)
<1>4. CASE importing' = n /\ pc' = "reload" /\ todo' = {} /\ report' = report
    <2>1. n.failed = TRUE /\ n.slices = importing.slices /\ n.written = importing.written /\ n \in ImportType
        BY <1>2, SetFailed
    <2> HIDE DEF n
    <2>2. TypeInv'
        BY <1>1, <1>4, <2>1 DEF IInv, TypeInv, DiskOK
    <2>3. StageInv' /\ W' = W
        BY <1>1, <1>2, <1>4, <2>1 DEF StageInv, W
    <2>4. WrittenInv'
        BY <1>1, <1>2, <1>4, <2>1, <2>3 DEF WrittenInv
    <2>5. AccountInv'
        BY <1>1, <2>3, SameAccount
    <2> QED
        BY <2>2, <2>3, <2>4, <2>5 DEF IInv
<1> QED
    BY <1>1, <1>3, <1>4

\* The slice an import writes next.
LEMMA ImportSlice ==
    ASSUME IInv, pc = "write"
    PROVE  LET i == First(todo)
               x == importing.slices[i]
           IN /\ i \in todo /\ x.key \in Key /\ x.slot \in Slots(x.key) /\ x.slot.st = "ok"
              /\ \A j \in DOMAIN importing.slices : importing.slices[j].key = x.key => j = i
<1> DEFINE s == importing.slices
<1>1. /\ importing \in ImportType /\ todo # {} /\ todo \subseteq DOMAIN s
      /\ \A i \in todo : s[i].slot.st = "ok"
    BY DEF IInv, StageInv, WrittenInv
<1>2. s \in Imports
    BY <1>1, ImportFields
<1> HIDE DEF s
<1>3. DOMAIN s = 1 .. Len(s) /\ Len(s) \in Nat
    BY <1>2, PersistAssumption
<1>4. DOMAIN s \subseteq Nat
    BY <1>3, SMT
<1>5. First(todo) \in todo /\ First(todo) \in DOMAIN s
    BY <1>1, <1>4, FirstIsOne
<1>6. s[First(todo)].key \in Key /\ s[First(todo)].slot \in Slots(s[First(todo)].key)
    BY <1>2, <1>5, PersistAssumption
<1>7. \A j \in DOMAIN s : s[j].key = s[First(todo)].key => j = First(todo)
    BY <1>2, <1>5, PersistAssumption
<1> QED
    BY <1>1, <1>5, <1>6, <1>7 DEF s

LEMMA ImportWritesKeeps ==
    ASSUME IInv, ImportWrites
    PROVE  IInv'
<1> DEFINE i == First(todo)
           s == importing.slices
           x == s[i]
           S == importing.written \cup {x.key}
           n == [importing EXCEPT !.written = S]
<1>1. /\ pc = "write" /\ disk' = [disk EXCEPT ![x.key] = x.slot] /\ importing' = n
      /\ todo' = todo \ {i} /\ pc' = IF todo' = {} THEN "reload" ELSE "write"
      /\ UNCHANGED <<mem, stage, queue, report, known, owed>>
    BY DEF ImportWrites
<1>2. /\ i \in todo /\ x.key \in Key /\ x.slot \in Slots(x.key) /\ x.slot.st = "ok"
      /\ \A j \in DOMAIN s : s[j].key = x.key => j = i
    BY <1>1, ImportSlice
<1>3. /\ importing \in ImportType /\ ~mem.switched /\ W = importing.written /\ DiskOK(disk)
      /\ todo \subseteq DOMAIN s /\ \A j \in todo : s[j].slot.st = "ok"
      /\ \A k \in W : disk[k].st = "ok"
      /\ ~importing.failed => \A j \in DOMAIN s \ todo : s[j].key \in W /\ disk[s[j].key] = s[j].slot
    BY <1>1 DEF IInv, TypeInv, StageInv, WrittenInv, W
<1>4. S \in SUBSET Key /\ S = W \cup {x.key}
    BY <1>2, <1>3, ImportFields
<1> HIDE DEF S, i
<1>5. n.written = S /\ n.slices = s /\ n.failed = importing.failed /\ n \in ImportType
    <2>1. importing \in ImportType
        BY <1>3
    <2>2. S \in SUBSET Key
        BY <1>4
    <2> HIDE DEF s
    <2>3. n.written = S /\ n.slices = importing.slices /\ n.failed = importing.failed /\ n \in ImportType
        BY <2>1, <2>2, SetWritten, SMT
    <2> QED
        BY <2>3 DEF s
<1> HIDE DEF n, s, x
<1>6. disk'[x.key] = x.slot /\ DOMAIN disk' = Key /\ \A k \in Key \ {x.key} : disk'[k] = disk[k]
    BY <1>1, <1>2, <1>3 DEF DiskOK
<1>7. DiskOK(disk')
    BY <1>2, <1>3, <1>6 DEF DiskOK
<1>8. TypeInv'
    BY <1>1, <1>5, <1>7 DEF IInv, TypeInv
<1>9. StageInv' /\ W' = S /\ importing'.slices = s /\ importing'.failed = importing.failed
    BY <1>1, <1>3, <1>5 DEF StageInv, W
<1>10. \A k \in S : disk'[k].st = "ok"
    BY <1>2, <1>3, <1>4, <1>6
<1>11. ASSUME ~importing.failed, NEW j \in DOMAIN s \ todo'
       PROVE  s[j].key \in S /\ disk'[s[j].key] = s[j].slot
    <2>1. CASE j = i
        BY <1>4, <1>6, <2>1 DEF x
    <2>2. CASE j # i
        <3>1. j \in DOMAIN s \ todo /\ s[j].key # x.key
            BY <1>1, <1>2, <2>2
        <3>2. s[j].key \in W /\ disk[s[j].key] = s[j].slot
            BY <1>3, <1>11, <3>1
        <3> QED
            BY <1>4, <1>6, <3>1, <3>2
    <2> QED
        BY <2>1, <2>2
<1>12. WrittenInv'
    BY <1>1, <1>3, <1>9, <1>10, <1>11, ZenonT(30) DEF WrittenInv
<1>13. /\ \A k \in Live : k \in W \/ Accounted(mem, k)
       /\ "lamps" \in owed \/ Bound(mem)
       /\ \A k \in Live : k \in mem.held \cup W \/ Learned(k)
       /\ "old" \in owed \cup W \/ \A k \in BankKeys : ~OldIsDue(k)
    BY <1>1 DEF IInv, AccountInv
<1>14. Live \subseteq Key /\ BankKeys \subseteq Key /\ "lamps" \in Key /\ "old" \in Key
    BY KeyFacts
<1>15. ASSUME NEW k \in Live, k \notin S PROVE Accounted(mem, k)'
    BY <1>1, <1>4, <1>6, <1>13, <1>14, <1>15 DEF Accounted, Stored
<1>16. "lamps" \in owed' \/ Bound(mem)'
    BY <1>1, <1>2, <1>6, <1>13, <1>14 DEF Bound
<1>17. ASSUME NEW k \in Live, k \notin mem.held \cup S PROVE Learned(k)'
    BY <1>1, <1>4, <1>6, <1>13, <1>14, <1>17, ZenonT(30) DEF Learned
<1>18. ASSUME "old" \notin owed \cup S, NEW k \in BankKeys PROVE ~OldIsDue(k)'
    BY <1>1, <1>2, <1>4, <1>6, <1>13, <1>14, <1>18, ZenonT(30) DEF OldIsDue
<1>19. AccountInv'
    BY <1>1, <1>9, <1>15, <1>16, <1>17, <1>18, ZenonT(30) DEF AccountInv
<1> QED
    BY <1>8, <1>9, <1>12, <1>19 DEF IInv

LEMMA ImportNotReloadedKeeps ==
    ASSUME IInv, ImportNotReloaded
    PROVE  IInv'
<1> DEFINE S == mem.held \cup (importing.written \ {"old"})
           n == [mem EXCEPT !.held = S]
<1>1. /\ pc = "reload" /\ mem' = n /\ report' = "partial" /\ importing' = None /\ pc' = "idle"
      /\ owed' = owed \cup ({"old"} \cap importing.written)
      /\ UNCHANGED <<disk, todo, stage, queue, known>>
    BY DEF ImportNotReloaded, Withhold
<1>2. mem \in MemType /\ importing \in ImportType /\ mem.held \subseteq Live
    BY <1>1, MemFields DEF IInv, TypeInv, StageInv
<1>3. W = importing.written /\ \A k \in W : disk[k].st = "ok"
    BY <1>1 DEF IInv, WrittenInv, W
<1>4. S \in SUBSET Live
    BY <1>2, ImportFields DEF Live
<1>5. Live \subseteq Key /\ "old" \notin Live /\ BankKeys \subseteq Live
    BY KeyFacts
<1> HIDE DEF S
<1>6. n.held = S /\ n.ram = mem.ram /\ n.dirty = mem.dirty /\ n.switched = mem.switched /\ n \in MemType
    <2>1. mem \in MemType
        BY <1>2
    <2> QED
        BY <1>4, <2>1, SetHeld, SMT
<1> HIDE DEF n
<1>7. TypeInv'
    BY <1>1, <1>6 DEF IInv, TypeInv, DiskOK
<1>8. StageInv' /\ WrittenInv' /\ W' = {}
    BY <1>1 DEF StageInv, WrittenInv, W
<1>9. /\ \A k \in Live : k \in W \/ Accounted(mem, k)
      /\ "lamps" \in owed \/ Bound(mem)
      /\ \A k \in Live : k \in mem.held \cup W \/ Learned(k)
      /\ "old" \in owed \cup W \/ \A k \in BankKeys : ~OldIsDue(k)
    BY <1>1 DEF IInv, AccountInv
<1>10. mem.held \subseteq mem'.held /\ \A k \in Live : k \in W => k \in mem'.held
    BY <1>1, <1>3, <1>5, <1>6 DEF S
<1>11. ASSUME NEW k \in Live PROVE Accounted(mem, k)'
    BY <1>1, <1>3, <1>6, <1>9, <1>10 DEF Accounted, Stored
<1>12. "lamps" \in owed' \/ Bound(mem)'
    BY <1>1, <1>6, <1>9, <1>10 DEF Bound
<1>13. ASSUME NEW k \in Live, k \notin mem'.held PROVE Learned(k)'
    BY <1>1, <1>9, <1>10, <1>13 DEF Learned
<1>14. ASSUME "old" \notin owed', NEW k \in BankKeys PROVE ~OldIsDue(k)'
    BY <1>1, <1>3, <1>6, <1>9, <1>10, <1>14 DEF OldIsDue
<1>15. AccountInv'
    BY <1>8, <1>11, <1>12, <1>13, <1>14 DEF AccountInv
<1> QED
    BY <1>7, <1>8, <1>15 DEF IInv

LEMMA LosePowerKeeps ==
    ASSUME IInv, LosePower
    PROVE  IInv'
<1>1. /\ mem' = NewMem /\ pc' = "down" /\ importing' = None /\ stage' = None /\ queue' = {}
      /\ report' = "none" /\ known' = Unknown /\ owed' = {} /\ disk' = disk
    BY DEF LosePower
<1>2. TypeInv'
    BY <1>1, NewMemFacts DEF IInv, TypeInv, DiskOK, Unknown
<1> QED
    BY <1>1, <1>2 DEF IInv, StageInv, WrittenInv, AccountInv

----------------------------------------------------------------------------

LEMMA NextKeeps == IInv /\ [PersistNext]_persistVars => IInv'
<1> SUFFICES ASSUME IInv, [PersistNext]_persistVars PROVE IInv'
    OBVIOUS
<1>1. /\ queue \subseteq Key /\ report \in {"none", "ok", "partial", "refused"}
      /\ stage = None \/ stage \in Imports
    BY DEF IInv, TypeInv
<1>2. CASE BootStep
    BY <1>2, BootKeeps DEF BootStep
<1>3. CASE RereadStep
    BY <1>3, RereadKeeps DEF RereadStep
<1>4. CASE Edits
    BY <1>4, EditPlainKeeps, SwitchKeeps, DeviceEditsKeep DEF Edits
<1>5. CASE SwitchesDue
    BY <1>5, SwitchesDueKeep
<1>6. CASE FlushBegins
    BY <1>6, FlushBeginsKeeps
<1>7. CASE FlushSteps
    BY <1>7, FlushWritesKeeps, FlushFailsKeeps, FlushEndsKeeps DEF FlushSteps
<1>8. ASSUME NEW i \in Imports, StageImport(i) PROVE IInv'
    <2>1. /\ UNCHANGED <<disk, mem, pc, todo, importing, known, owed>> /\ queue' = queue
          /\ report' = "none" /\ stage' = i
        BY <1>8 DEF StageImport
    <2> QED
        BY <1>1, <2>1, Aside
<1>9. CASE StageExpires
    <2>1. /\ UNCHANGED <<disk, mem, pc, todo, importing, known, owed>> /\ queue' = queue
          /\ report' = "refused" /\ stage' = None
        BY <1>9 DEF StageExpires
    <2> QED
        BY <1>1, <2>1, Aside
<1>10. CASE ImportSteps
    BY <1>10, ImportBeginsKeeps, ImportValidatesKeeps, ImportWritesKeeps, ImportWriteFailsKeeps,
       ReloadKeeps, ImportNotReloadedKeeps DEF ImportSteps, ReloadStep
<1>11. CASE Announce \/ FirmwareOpens \/ FirmwareCloses \/ UNCHANGED persistVars
    <2>1. /\ UNCHANGED <<disk, mem, pc, todo, importing, known, owed>> /\ queue' \subseteq queue
          /\ report' = report /\ stage' = stage
        BY <1>11 DEF Announce, FirmwareOpens, FirmwareCloses, persistVars
    <2> QED
        BY <1>1, <2>1, Aside
<1>12. CASE LosePower
    BY <1>12, LosePowerKeeps
<1> QED
    BY <1>2, <1>3, <1>4, <1>5, <1>6, <1>7, <1>8, <1>9, <1>10, <1>11, <1>12, ZenonT(30) DEF PersistNext

LEMMA InvariantHolds == PersistSpec => []IInv
BY InitInv, NextKeeps, PTL DEF PersistSpec

LEMMA InvariantAccounts == IInv => MemoryAccounted
<1> SUFFICES ASSUME IInv PROVE MemoryAccounted
    OBVIOUS
<1>1. /\ DiskOK(disk) /\ mem \in MemType /\ mem.ram \in RamType
      /\ mem.dirty \subseteq Live /\ mem.held \subseteq Live
    BY MemFields DEF IInv, TypeInv
<1>2. PersistTypeOK
    <2>1. \A k \in Key : disk[k].st \in {"absent", "bad", "ok"}
        BY <1>1, SlotFacts
    <2>2. mem.ram.dev \in [Short -> {0, 1}] /\ mem.ram.lamp \in Short \cup {None}
        BY <1>1, RamFields
    <2> QED
        BY <1>1, <2>1, <2>2 DEF IInv, TypeInv, PersistTypeOK, Live
<1>3. NothingForgotten
    <2> SUFFICES ASSUME pc = "idle", NEW k \in Live
                 PROVE  \/ k \in mem.dirty \cup mem.held
                        \/ Content(mem.ram, k) = Stored(k)
                        \/ k = "hcl" /\ mem.switched
                        \/ k = "lamps" /\ mem.ram.lamp = None
        BY DEF NothingForgotten, Live
    <2>1. Accounted(mem, k)
        BY NotHeldIsAccounted
    <2> QED
        BY <2>1 DEF Accounted
<1>4. BindingHasDevice
    <2> SUFFICES ASSUME pc = "idle", mem.ram.lamp # None, "lamps" \notin owed
                 PROVE  \/ mem.ram.dev[mem.ram.lamp] # 0
                        \/ {BankKey[mem.ram.lamp], "lamps"} \cap mem.held # {}
        BY DEF BindingHasDevice
    <2>1. Bound(mem)
        BY NotHeldIsAccounted
    <2> QED
        BY <2>1 DEF Bound
<1> QED
    BY <1>2, <1>3, <1>4 DEF MemoryAccounted

\* Between turns of the registry worker, what its memory and the slice store
\* disagree on is marked dirty, held until its stored copy is read, or waits for
\* the paced schedule write, and a lamp is bound to a device that is there or
\* whose bank has yet to be read: for every installed store, every set of
\* imports, and however reads, writes, power and firmware updates fall.
THEOREM MemoryIsAccounted == PersistSpec => []MemoryAccounted
BY InvariantHolds, InvariantAccounts, PTL

\* Only the write of a flush changes the store during one.
LEMMA FlushStep ==
    ASSUME [PersistNext]_persistVars, pc = "flush", disk' # disk
    PROVE  FlushWrites
<1>1. CASE UNCHANGED persistVars
    BY <1>1 DEF persistVars
<1>2. CASE PersistNext
    <2>1. ~BootStep /\ ~RereadStep
        BY DEF BootStep, RereadStep, Boot, Reread
    <2>2. ~Edits
        BY DEF Edits, EditPlain, SwitchSchedule, DiscoverDevice, ForgetDevice, BindLamp, Edited
    <2>3. ~SwitchesDue /\ ~FlushBegins /\ ~FlushFails /\ ~FlushEnds
        BY DEF SwitchesDue, FlushBegins, FlushFails, FlushEnds
    <2>4. (\A i \in Imports : ~StageImport(i)) /\ ~StageExpires
        BY DEF StageImport, StageExpires
    <2>5. ~ImportSteps
        BY DEF ImportSteps, ImportBegins, ImportValidates, ImportWrites, ImportWriteFails,
           ReloadStep, ImportReloads, ImportNotReloaded
    <2>6. ~Announce /\ ~FirmwareOpens /\ ~FirmwareCloses /\ ~LosePower
        BY DEF Announce, FirmwareOpens, FirmwareCloses, LosePower
    <2> QED
        BY <1>2, <2>1, <2>2, <2>3, <2>4, <2>5, <2>6 DEF PersistNext, FlushSteps
<1> QED
    BY <1>1, <1>2

LEMMA StepsKnow ==
    ASSUME IInv, [PersistNext]_persistVars
    PROVE  \A k \in Key : pc = "flush" /\ disk'[k] # disk[k] =>
               /\ known[k] = disk[k]
               /\ k \in BankKeys /\ disk[k].st # "ok" => known["old"] # None
<1> SUFFICES ASSUME NEW k \in Key, pc = "flush", disk'[k] # disk[k] PROVE Learned(k)
    BY DEF Learned
<1> DEFINE j == FlushOrder[First(todo)]
<1>1. FlushWrites
    BY FlushStep
<1>2. todo # {} /\ disk' = [disk EXCEPT ![j] = Slot("ok", Content(mem.ram, j))]
    BY <1>1 DEF FlushWrites
<1>3. j \in Live /\ j \notin mem.held
    BY <1>2, FlushKey
<1> HIDE DEF j
<1>4. k = j
    BY <1>2 DEF IInv, TypeInv, DiskOK
<1> QED
    BY <1>3, <1>4 DEF IInv, AccountInv, W

\* A flush of the registry writes a slice only when the worker knows what it
\* overwrites: it has read the stored copy since power-up, or found it absent or
\* undecodable, and for a bank without a copy it has read the old slot too.
THEOREM FlushesKnow == PersistSpec => NoBlindWrite
<1>1. IInv /\ [PersistNext]_persistVars =>
        [\A k \in Key : pc = "flush" /\ disk'[k] # disk[k] =>
            /\ known[k] = disk[k]
            /\ k \in BankKeys /\ disk[k].st # "ok" => known["old"] # None]_persistVars
    BY StepsKnow
<1> QED
    BY <1>1, InvariantHolds, PTL DEF PersistSpec, NoBlindWrite

----------------------------------------------------------------------------
(* What a reload announces.                                                *)
LEMMA Announces ==
    ASSUME NEW before, NEW after, NEW written \in SUBSET Key, NEW V,
           V = written \cup (before.held \ after.held), V \subseteq Key
    PROVE  /\ \A k \in V \ {"old"} : k \in Replaced(before, after, written)
           /\ "old" \in V => BankKeys \subseteq Replaced(before, after, written)
           /\ \A s \in Short :
               /\ s # None /\ (before.ram.lamp = s \/ after.ram.lamp = s)
               /\ BankKey[s] \in V \/ "old" \in V
               => "lamps" \in Replaced(before, after, written)
<1>1. \A k \in V : EntitiesOf(before, k) \cup EntitiesOf(after, k) \subseteq Replaced(before, after, written)
    BY DEF Replaced
<1>2. ASSUME NEW m, NEW k \in Key, k # "old" PROVE k \in EntitiesOf(m, k)
    <2>1. CASE k \in BankKeys
        BY <1>2, <2>1 DEF EntitiesOf
    <2>2. CASE k \notin BankKeys
        BY <1>2, <2>2 DEF EntitiesOf
    <2> QED
        BY <2>1, <2>2
<1>3. ASSUME NEW m PROVE BankKeys \subseteq EntitiesOf(m, "old")
    BY DEF EntitiesOf
<1>4. ASSUME NEW m, NEW s \in Short, s # None, m.ram.lamp = s
      PROVE  "lamps" \in EntitiesOf(m, BankKey[s]) /\ "lamps" \in EntitiesOf(m, "old")
    <2>1. BankKey[s] \in BankKeys /\ BankKey[s] # "old"
        BY BankFacts, KeyFacts
    <2>2. "lamps" \in EntitiesOf(m, BankKey[s])
        BY <1>4, <2>1 DEF EntitiesOf
    <2>3. "lamps" \in EntitiesOf(m, "old")
        BY <1>4, <2>1 DEF EntitiesOf
    <2> QED
        BY <2>2, <2>3
<1>5. \A k \in V \ {"old"} : k \in Replaced(before, after, written)
    BY <1>1, <1>2
<1>6. "old" \in V => BankKeys \subseteq Replaced(before, after, written)
    BY <1>1, <1>3
<1>7. ASSUME NEW s \in Short, s # None, before.ram.lamp = s \/ after.ram.lamp = s,
             BankKey[s] \in V \/ "old" \in V
      PROVE  "lamps" \in Replaced(before, after, written)
    <2>1. PICK m \in {before, after} : m.ram.lamp = s
        BY <1>7
    <2>2. "lamps" \in EntitiesOf(m, BankKey[s]) /\ "lamps" \in EntitiesOf(m, "old")
        BY <1>4, <1>7, <2>1
    <2> QED
        BY <1>1, <1>7, <2>1, <2>2
<1> QED
    BY <1>5, <1>6, <1>7

\* The slices V tell what changed from memory m to memory n, save what an
\* earlier import left behind and a binding that comes back.
Told(m, n, V) ==
    /\ \A k \in Plain : n.ram[k] # m.ram[k] => k \in V
    /\ \A s \in Short :
        n.ram.dev[s] # m.ram.dev[s] => BankKey[s] \in V \/ "old" \in V \/ "old" \in owed
    /\ \/ n.ram.lamp = m.ram.lamp
       \/ "lamps" \in V
       \/ "lamps" \in owed \/ "old" \in owed
       \/ m.ram.lamp \in Short /\ (BankKey[m.ram.lamp] \in V \/ "old" \in V)
       \/ n.ram.lamp \in Short /\ (BankKey[n.ram.lamp] \in V \/ "old" \in V)
       \/ /\ m.ram.lamp = None /\ n.ram.lamp # None
          /\ n.ram.dev[n.ram.lamp] = m.ram.dev[n.ram.lamp]

LEMMA RereadTells ==
    ASSUME IInv, NEW unread, NEW out, out = Outcomes(unread),
           Hydrated(mem, mem', out, mem.held)
    PROVE  Told(mem, mem', mem.held \ mem'.held)
<1>0. /\ mem \in MemType /\ DiskOK(disk) /\ mem.ram.lamp \in Short \cup {None}
      /\ mem.held \subseteq Key
    BY MemFields, RamFields, BankFacts DEF IInv, TypeInv
<1>1. \A k \in Key : out[k] \in {"unread", "loaded", "rejected", "missing"}
    BY <1>0, OutcomeFacts, SMT
<1>2. ASSUME NEW k \in Plain, mem'.ram[k] # mem.ram[k] PROVE k \in mem.held \ mem'.held
    BY <1>2 DEF Hydrated, PlainRead, PlainSame
<1>3. ASSUME NEW s \in Short, mem'.ram.dev[s] # mem.ram.dev[s]
      PROVE  BankKey[s] \in mem.held \ mem'.held
    <2>1. BankKey[s] \in mem.held
        BY <1>3 DEF Hydrated, BankSame
    <2>2. BankRead(mem, mem', out, s)
        BY <2>1 DEF Hydrated
    <2> QED
        BY <1>0, <1>1, <1>3, <2>1, <2>2 DEF BankRead
<1>4. \/ mem'.ram.lamp = mem.ram.lamp
      \/ "lamps" \in mem.held \ mem'.held
      \/ mem.ram.lamp \in Short /\ BankKey[mem.ram.lamp] \in mem.held \ mem'.held
    <2>1. CASE "lamps" \in mem.held /\ out["lamps"] = "loaded"
        BY <2>1 DEF Hydrated
    <2>2. CASE ~("lamps" \in mem.held /\ out["lamps"] = "loaded")
        <3>1. mem'.ram.lamp = Unorphaned(mem, mem')
            BY <2>2 DEF Hydrated
        <3> QED
            BY <1>0, <3>1 DEF Unorphaned
    <2> QED
        BY <2>1, <2>2
<1> QED
    BY <1>2, <1>3, <1>4 DEF Told

\* Of a slice that is not written, held or marked, memory has what is stored.
LEMMA SettledIsStored ==
    ASSUME IInv, pc = "reload", Writable(mem) = {}
    PROVE  \A k \in Live : \/ k \in importing.written \cup mem.held
                           \/ Content(mem.ram, k) = Stored(k)
                           \/ k = "lamps" /\ mem.ram.lamp = None
<1>1. W = importing.written /\ ~mem.switched
    BY DEF IInv, StageInv, W
<1>2. mem.dirty \subseteq mem.held
    BY DEF Writable
<1>3. \A k \in Live : k \in W \/ Accounted(mem, k)
    BY DEF IInv, AccountInv
<1> QED
    BY <1>1, <1>2, <1>3 DEF Accounted

LEMMA ReloadTells ==
    ASSUME IInv, pc = "reload", Writable(mem) = {}, NEW unread, NEW out, out = Outcomes(unread),
           Hydrated(mem, mem', out, Key), NEW V, V = importing.written \cup (mem.held \ mem'.held)
    PROVE  Told(mem, mem', V)
<1>0. /\ mem \in MemType /\ DiskOK(disk) /\ mem.ram.lamp \in Short \cup {None}
      /\ mem.held \subseteq Key /\ mem.dirty \subseteq mem.held
    BY MemFields, RamFields, BankFacts DEF IInv, TypeInv, Writable
<1>1. \A k \in Key : /\ out[k] \in {"unread", "loaded", "rejected", "missing"}
                     /\ out[k] = "loaded" => disk[k].st = "ok"
                     /\ out[k] \in {"rejected", "missing"} => disk[k].st # "ok"
    BY <1>0, OutcomeFacts, SMT
<1>2. /\ "lamps" \in Key /\ "old" \in Key /\ Plain \subseteq Key /\ BankKeys \subseteq Key
      /\ Plain \subseteq Live /\ BankKeys \subseteq Live /\ "lamps" \in Live
      /\ "lamps" \notin Plain \cup BankKeys
    BY KeyFacts
<1>3. ASSUME NEW k \in Live, out[k] = "loaded", k \notin mem'.held, k \notin V
      PROVE  Content(mem.ram, k) = disk[k].val \/ (k = "lamps" /\ mem.ram.lamp = None)
    <2>1. k \notin importing.written \cup mem.held
        BY <1>3
    <2>2. disk[k].st = "ok"
        BY <1>1, <1>3, BankFacts
    <2>3. Stored(k) = disk[k].val
        BY <2>2, StoredFacts
    <2> QED
        BY <2>1, <2>3, SettledIsStored
<1>4. ASSUME NEW k \in Plain, mem'.ram[k] # mem.ram[k] PROVE k \in V
    <2>1. PlainRead(mem, mem', out, k)
        BY <1>2 DEF Hydrated
    <2>2. out[k] = "loaded" /\ mem'.ram[k] = disk[k].val /\ k \notin mem'.held
        BY <1>4, <2>1 DEF PlainRead
    <2>3. Content(mem.ram, k) = mem.ram[k]
        BY ContentFacts
    <2> QED
        BY <1>2, <1>3, <1>4, <2>2, <2>3
<1>5. ASSUME NEW s \in Short, mem'.ram.dev[s] # mem.ram.dev[s]
      PROVE  BankKey[s] \in V \/ "old" \in V \/ "old" \in owed
    <2> DEFINE b == BankKey[s]
    <2>0. b \in BankKeys /\ b \in Live /\ b \in Key /\ b # "lamps" /\ Content(mem.ram, b) = mem.ram.dev[s]
        <3>1. b \in BankKeys
            BY BankFacts
        <3>2. Content(mem.ram, b) = mem.ram.dev[s]
            BY ContentFacts
        <3> QED
            BY <1>2, <3>1, <3>2
    <2>1. BankRead(mem, mem', out, s)
        BY <2>0 DEF Hydrated
    <2>2. CASE out[b] = "loaded"
        <3>1. mem'.ram.dev[s] = disk[b].val /\ b \notin mem'.held
            BY <2>1, <2>2 DEF BankRead
        <3> HIDE DEF b
        <3> QED
            BY <1>3, <1>5, <2>0, <2>2, <3>1 DEF b
    <2>3. CASE out[b] \in {"missing", "rejected"}
        <3>1. out["old"] = "loaded" /\ b \notin mem'.held
            BY <1>5, <2>1, <2>3 DEF BankRead
        <3>2. disk["old"].st = "ok" /\ disk[b].st # "ok"
            BY <1>1, <1>2, <2>0, <2>3, <3>1
        <3>3. b \in mem.held \/ OldIsDue(b)
            BY <1>0, <3>2 DEF OldIsDue
        <3>4. "old" \in owed \cup importing.written \/ ~OldIsDue(b)
            BY <2>0 DEF IInv, AccountInv, W
        <3> QED
            BY <3>1, <3>3, <3>4
    <2>4. out[b] # "unread"
        BY <1>5, <2>1 DEF BankRead
    <2> QED
        BY <1>1, <2>0, <2>2, <2>3, <2>4
<1>6. \/ mem'.ram.lamp = mem.ram.lamp
      \/ "lamps" \in V
      \/ "lamps" \in owed \/ "old" \in owed
      \/ mem.ram.lamp \in Short /\ (BankKey[mem.ram.lamp] \in V \/ "old" \in V)
      \/ mem'.ram.lamp \in Short /\ (BankKey[mem'.ram.lamp] \in V \/ "old" \in V)
      \/ /\ mem.ram.lamp = None /\ mem'.ram.lamp # None
         /\ mem'.ram.dev[mem'.ram.lamp] = mem.ram.dev[mem'.ram.lamp]
    <2>1. CASE out["lamps"] = "loaded"
        <3> DEFINE s == disk["lamps"].val
        <3> SUFFICES ASSUME "lamps" \notin V, "lamps" \notin owed, mem'.ram.lamp # mem.ram.lamp
                     PROVE  \/ "old" \in owed
                            \/ mem.ram.lamp \in Short /\ (BankKey[mem.ram.lamp] \in V \/ "old" \in V)
                            \/ mem'.ram.lamp \in Short /\ (BankKey[mem'.ram.lamp] \in V \/ "old" \in V)
                            \/ /\ mem.ram.lamp = None /\ mem'.ram.lamp # None
                               /\ mem'.ram.dev[mem'.ram.lamp] = mem.ram.dev[mem'.ram.lamp]
            OBVIOUS
        <3>1. mem'.ram.lamp = Kept(mem') /\ "lamps" \notin mem'.held
            BY <1>2, <2>1 DEF Hydrated
        <3>2. mem.ram.lamp = s \/ mem.ram.lamp = None
            <4>1. Content(mem.ram, "lamps") = mem.ram.lamp
                BY ContentFacts
            <4> QED
                BY <1>2, <1>3, <2>1, <3>1, <4>1
        <3>3. s \in Short \cup {None}
            BY <1>0, <1>2, <2>1, LoadedFacts, ValueFacts
        <3>4. "lamps" \notin mem.held
            BY <3>1
        <3> HIDE DEF s
        <3>5. CASE mem.ram.lamp = s
            <4>1. s # None /\ s \in Short /\ BankKey[s] \notin mem'.held /\ mem'.ram.dev[s] = 0
                BY <3>1, <3>3, <3>5 DEF Kept, s
            <4>2. Bound(mem)
                BY DEF IInv, AccountInv
            <4>3. mem.ram.dev[s] # 0 \/ BankKey[s] \in mem.held
                BY <3>4, <3>5, <4>1, <4>2 DEF Bound
            <4>4. BankKey[s] \in V \/ "old" \in V \/ "old" \in owed
                BY <1>5, <4>1, <4>3
            <4> QED
                BY <3>5, <4>1, <4>4
        <3>6. CASE mem.ram.lamp = None
            <4>1. mem'.ram.lamp = s /\ s # None /\ s \in Short
                BY <3>1, <3>3, <3>6 DEF Kept, s
            <4> QED
                BY <1>5, <3>6, <4>1
        <3> QED
            BY <3>2, <3>5, <3>6
    <2>2. CASE out["lamps"] # "loaded"
        <3>1. mem'.ram.lamp = Unorphaned(mem, mem')
            BY <2>2 DEF Hydrated
        <3> QED
            BY <1>0, <3>1 DEF Unorphaned
    <2> QED
        BY <2>1, <2>2
<1> QED
    BY <1>4, <1>5, <1>6 DEF Told

\* What the slices V tell is queued.
LEMMA ToldIsAnnounced ==
    ASSUME IInv, IInv', NEW written \in SUBSET Key, NEW V,
           V = written \cup (mem.held \ mem'.held), Told(mem, mem', V),
           queue' = queue \cup Replaced(mem, mem', written)
    PROVE  \A k \in Live : \/ Content(mem'.ram, k) = Content(mem.ram, k)
                           \/ k \in queue' \/ Unannounced(k)
<1>0. /\ mem.ram.lamp \in Short \cup {None} /\ mem'.ram.lamp \in Short \cup {None}
      /\ V \subseteq Key /\ None \notin Short
    <2>1. mem \in MemType /\ mem' \in MemType
        BY DEF IInv, TypeInv
    <2>2. mem.ram \in RamType /\ mem'.ram \in RamType /\ mem.held \subseteq Live
        BY <2>1, MemFields
    <2> QED
        BY <2>2, RamFields, BankFacts, PersistAssumption
<1>1. /\ \A k \in V \ {"old"} : k \in queue'
      /\ "old" \in V => BankKeys \subseteq queue'
      /\ \A s \in Short :
          /\ s # None /\ (mem.ram.lamp = s \/ mem'.ram.lamp = s)
          /\ BankKey[s] \in V \/ "old" \in V
          => "lamps" \in queue'
    <2> DEFINE R == Replaced(mem, mem', written)
    <2>1. /\ \A k \in V \ {"old"} : k \in R
          /\ "old" \in V => BankKeys \subseteq R
          /\ \A s \in Short :
              /\ s # None /\ (mem.ram.lamp = s \/ mem'.ram.lamp = s)
              /\ BankKey[s] \in V \/ "old" \in V
              => "lamps" \in R
        BY <1>0, Announces
    <2> HIDE DEF R
    <2>2. R \subseteq queue'
        BY DEF R
    <2> QED
        BY <2>1, <2>2
<1>2. ASSUME NEW k \in Plain PROVE Content(mem'.ram, k) = Content(mem.ram, k) \/ k \in queue'
    <2>1. Content(mem'.ram, k) = mem'.ram[k] /\ Content(mem.ram, k) = mem.ram[k] /\ k # "old"
        BY ContentFacts, KeyFacts
    <2> QED
        BY <1>1, <2>1 DEF Told
<1>3. ASSUME NEW k \in BankKeys
      PROVE  \/ Content(mem'.ram, k) = Content(mem.ram, k)
             \/ k \in queue' \/ Unannounced(k)
    <2> DEFINE s == BankOf(k)
    <2>1. s \in Short /\ k = BankKey[s] /\ k # "old"
        BY BankFacts, KeyFacts
    <2>2. Content(mem'.ram, k) = mem'.ram.dev[s] /\ Content(mem.ram, k) = mem.ram.dev[s]
        BY <2>1, ContentFacts
    <2>3. mem'.ram.dev[s] # mem.ram.dev[s] => k \in V \/ "old" \in V \/ "old" \in owed
        BY <2>1 DEF Told
    <2>4. "old" \in owed => Unannounced(k)
        BY DEF Unannounced
    <2> QED
        BY <1>1, <2>1, <2>2, <2>3, <2>4
<1>4. \/ Content(mem'.ram, "lamps") = Content(mem.ram, "lamps")
      \/ "lamps" \in queue' \/ Unannounced("lamps")
    <2>1. Content(mem'.ram, "lamps") = mem'.ram.lamp /\ Content(mem.ram, "lamps") = mem.ram.lamp
        BY ContentFacts
    <2>2. "lamps" \in owed \/ "old" \in owed => Unannounced("lamps")
        BY DEF Unannounced
    <2>3. /\ mem.ram.lamp = None /\ mem'.ram.lamp # None
          /\ mem'.ram.dev[mem'.ram.lamp] = mem.ram.dev[mem'.ram.lamp]
          => Unannounced("lamps")
        BY DEF Unannounced
    <2>4. \/ mem'.ram.lamp = mem.ram.lamp
          \/ "lamps" \in V
          \/ "lamps" \in owed \/ "old" \in owed
          \/ mem.ram.lamp \in Short /\ (BankKey[mem.ram.lamp] \in V \/ "old" \in V)
          \/ mem'.ram.lamp \in Short /\ (BankKey[mem'.ram.lamp] \in V \/ "old" \in V)
          \/ /\ mem.ram.lamp = None /\ mem'.ram.lamp # None
             /\ mem'.ram.dev[mem'.ram.lamp] = mem.ram.dev[mem'.ram.lamp]
        BY DEF Told
    <2> QED
        BY <1>0, <1>1, <2>1, <2>2, <2>3, <2>4
<1>5. Live = Plain \cup BankKeys \cup {"lamps"}
    BY BankFacts
<1> QED
    BY <1>2, <1>3, <1>4, <1>5

\* Edits hold and release nothing.
LEMMA EditsHold ==
    ASSUME IInv, Edits \/ SwitchesDue
    PROVE  mem'.held = mem.held
<1>1. /\ mem \in MemType
      /\ mem = [ram |-> mem.ram, dirty |-> mem.dirty, held |-> mem.held, switched |-> mem.switched]
    BY DEF IInv, TypeInv, MemType
<1>2. ASSUME NEW k \in Plain, EditPlain(k) PROVE mem'.held = mem.held
    BY <1>1, <1>2 DEF EditPlain, Edited, Mark
<1>3. CASE SwitchSchedule \/ SwitchesDue
    BY <1>1, <1>3 DEF SwitchSchedule, SwitchesDue, Edited, Mark
<1>4. ASSUME NEW s \in Short, DiscoverDevice(s) \/ ForgetDevice(s) \/ BindLamp(s)
      PROVE  mem'.held = mem.held
    BY <1>1, <1>4 DEF DiscoverDevice, ForgetDevice, BindLamp, Edited, Mark
<1> QED
    BY <1>2, <1>3, <1>4 DEF Edits

\* The steps that end a re-read or a reload.
LEMMA RehydrateSteps ==
    ASSUME IInv, [PersistNext]_persistVars, Rehydrates
    PROVE  RereadStep \/ (ReloadStep /\ Writable(mem) = {}) \/ ImportNotReloaded
<1>1. /\ pc' = "idle"
      /\ \/ pc = "idle" /\ mem'.held # mem.held
         \/ pc = "reload" /\ Writable(mem) = {}
    BY DEF Rehydrates
<1>2. ~UNCHANGED persistVars
    BY <1>1 DEF persistVars
<1>3. ~BootStep /\ ~FlushBegins /\ ~FlushSteps
    BY <1>1 DEF BootStep, Boot, FlushBegins, FlushSteps, FlushWrites, FlushFails, FlushEnds
<1>4. ~Edits /\ ~SwitchesDue
    <2>1. Edits \/ SwitchesDue => pc = "idle"
        BY DEF Edits, EditPlain, SwitchSchedule, DiscoverDevice, ForgetDevice, BindLamp, Edited,
           SwitchesDue
    <2> QED
        BY <1>1, <2>1, EditsHold
<1>5. (\A i \in Imports : ~StageImport(i)) /\ ~StageExpires
    BY <1>1 DEF StageImport, StageExpires
<1>6. ~ImportBegins /\ ~ImportValidates /\ ~ImportWrites /\ ~ImportWriteFails
    BY <1>1 DEF ImportBegins, ImportValidates, ImportWrites, ImportWriteFails
<1>7. ~Announce /\ ~FirmwareOpens /\ ~FirmwareCloses /\ ~LosePower
    BY <1>1 DEF Announce, FirmwareOpens, FirmwareCloses, LosePower
<1>8. ReloadStep => pc = "reload"
    BY DEF ReloadStep, ImportReloads
<1> QED
    BY <1>1, <1>2, <1>3, <1>4, <1>5, <1>6, <1>7, <1>8, ZenonT(30) DEF PersistNext, ImportSteps

LEMMA StepsAnnounce ==
    ASSUME IInv, [PersistNext]_persistVars, Rehydrates
    PROVE  \A k \in Key \ {"old"} :
               \/ Content(mem'.ram, k) = Content(mem.ram, k)
               \/ k \in queue' \/ Unannounced(k)
<1>0. IInv' /\ Live = Key \ {"old"} /\ Live \subseteq Key
    BY NextKeeps, KeyFacts DEF Live
<1>1. ASSUME NEW u, Reread(u)
      PROVE  \A k \in Live : \/ Content(mem'.ram, k) = Content(mem.ram, k)
                             \/ k \in queue' \/ Unannounced(k)
    <2> DEFINE V == {} \cup (mem.held \ mem'.held)
    <2>1. Hydrated(mem, mem', Outcomes(u), mem.held)
        BY <1>1, RereadKeeps
    <2>2. V = mem.held \ mem'.held /\ Told(mem, mem', mem.held \ mem'.held)
        BY <2>1, RereadTells
    <2>3. Told(mem, mem', V) /\ queue' = queue \cup Replaced(mem, mem', {})
        BY <1>1, <2>2 DEF Reread
    <2>4. {} \in SUBSET Key
        OBVIOUS
    <2> HIDE DEF V
    <2>5. V = {} \cup (mem.held \ mem'.held)
        BY DEF V
    <2> QED
        BY <1>0, <2>3, <2>4, <2>5, ToldIsAnnounced
<1>2. ASSUME NEW u, ImportReloads(u), Writable(mem) = {}
      PROVE  \A k \in Live : \/ Content(mem'.ram, k) = Content(mem.ram, k)
                             \/ k \in queue' \/ Unannounced(k)
    <2> DEFINE V == importing.written \cup (mem.held \ mem'.held)
    <2>1. pc = "reload" /\ queue' = queue \cup Replaced(mem, mem', importing.written)
        BY <1>2 DEF ImportReloads
    <2>2. Hydrated(mem, mem', Outcomes(u), Key)
        BY <1>2, ReloadKeeps
    <2>3. importing.written \in SUBSET Key
        <3>1. importing \in ImportType
            BY <2>1 DEF IInv, StageInv
        <3> QED
            BY <3>1, ImportFields
    <2>4. V = importing.written \cup (mem.held \ mem'.held)
        OBVIOUS
    <2> HIDE DEF V
    <2>5. Told(mem, mem', V)
        BY <1>2, <2>1, <2>2, <2>4, ReloadTells
    <2> QED
        BY <1>0, <2>1, <2>3, <2>4, <2>5, ToldIsAnnounced
<1>3. ASSUME ImportNotReloaded
      PROVE  \A k \in Live : Content(mem'.ram, k) = Content(mem.ram, k)
    <2>1. mem' = [mem EXCEPT !.held = mem.held \cup (importing.written \ {"old"})]
        BY <1>3 DEF ImportNotReloaded, Withhold
    <2>2. mem = [ram |-> mem.ram, dirty |-> mem.dirty, held |-> mem.held, switched |-> mem.switched]
        BY DEF IInv, TypeInv, MemType
    <2>3. mem'.ram = mem.ram
        BY <2>1, <2>2
    <2> QED
        BY <2>3
<1> QED
    BY <1>0, <1>1, <1>2, <1>3, RehydrateSteps DEF RereadStep, ReloadStep

\* An import that answered ok was written whole, and read or held.
LEMMA StepsAnswer ==
    ASSUME IInv, [PersistNext]_persistVars, report = "none", report' = "ok"
    PROVE  \A i \in DOMAIN importing.slices : LET x == importing.slices[i] IN
               /\ disk[x.key] = x.slot
               /\ x.key \in Key \ {"old", "lamps"} =>
                   Content(mem'.ram, x.key) = x.slot.val \/ x.key \in mem'.held
<1>1. PICK u : ImportReloads(u)
    <2>1. ~UNCHANGED persistVars
        BY DEF persistVars
    <2>2. ~BootStep /\ ~RereadStep /\ ~FlushBegins /\ ~FlushSteps /\ ~SwitchesDue
        BY DEF BootStep, Boot, RereadStep, Reread, FlushBegins, FlushSteps, FlushWrites,
           FlushFails, FlushEnds, SwitchesDue
    <2>3. ~Edits
        BY DEF Edits, EditPlain, SwitchSchedule, DiscoverDevice, ForgetDevice, BindLamp, Edited
    <2>4. (\A i \in Imports : ~StageImport(i)) /\ ~StageExpires
        BY DEF StageImport, StageExpires
    <2>5. ~ImportBegins /\ ~ImportValidates /\ ~ImportWrites /\ ~ImportWriteFails /\ ~ImportNotReloaded
        BY DEF ImportBegins, ImportValidates, ImportWrites, ImportWriteFails, ImportNotReloaded, Refuse
    <2>6. ~Announce /\ ~FirmwareOpens /\ ~FirmwareCloses /\ ~LosePower
        BY DEF Announce, FirmwareOpens, FirmwareCloses, LosePower
    <2> QED
        BY <2>1, <2>2, <2>3, <2>4, <2>5, <2>6 DEF PersistNext, ImportSteps, ReloadStep
<1> DEFINE out == Outcomes(u)
           s == importing.slices
<1>2. pc = "reload" /\ ~importing.failed
    BY <1>1 DEF ImportReloads
<1>3. importing \in ImportType /\ todo = {} /\ DiskOK(disk)
    BY <1>2 DEF IInv, TypeInv, StageInv
<1>4. \A i \in DOMAIN s : disk[s[i].key] = s[i].slot /\ s[i].key \in W
    BY <1>2, <1>3 DEF IInv, WrittenInv
<1>5. \A k \in W : k \in Key /\ disk[k].st = "ok"
    BY <1>2, <1>3, ImportFields DEF IInv, WrittenInv, W
<1>6. Hydrated(mem, mem', out, Key)
    BY <1>1, ReloadKeeps
<1>7. \A k \in W : out[k] \in {"loaded", "unread"}
    BY <1>3, <1>5, OutcomeFacts, SMT
<1> HIDE DEF out
<1>8. ASSUME NEW k \in W, k \in Key \ {"old", "lamps"}
      PROVE  Content(mem'.ram, k) = disk[k].val \/ k \in mem'.held
    <2>1. CASE k \in Plain
        <3>1. PlainRead(mem, mem', out, k) /\ Content(mem'.ram, k) = mem'.ram[k]
            BY <1>5, <1>6, <2>1, ContentFacts DEF Hydrated
        <3> QED
            BY <1>7, <3>1 DEF PlainRead
    <2>2. CASE k \in BankKeys
        <3> DEFINE b == BankOf(k)
        <3>1. b \in Short /\ k = BankKey[b]
            BY <2>2, BankFacts
        <3> HIDE DEF b
        <3>2. BankRead(mem, mem', out, b) /\ Content(mem'.ram, k) = mem'.ram.dev[b]
            BY <1>5, <1>6, <3>1, ContentFacts DEF Hydrated
        <3> QED
            BY <1>7, <3>1, <3>2 DEF BankRead
    <2> QED
        BY <1>8, <2>1, <2>2 DEF Key
<1> QED
    BY <1>4, <1>8

\* One that is refused had written nothing.
LEMMA StepsRefuse ==
    ASSUME IInv, [PersistNext]_persistVars, report = "none", report' = "refused", importing # None
    PROVE  importing.written = {}
<1>1. ~UNCHANGED persistVars
    BY DEF persistVars
<1>2. ~BootStep /\ ~RereadStep /\ ~FlushBegins /\ ~FlushSteps /\ ~SwitchesDue
    BY DEF BootStep, Boot, RereadStep, Reread, FlushBegins, FlushSteps, FlushWrites,
       FlushFails, FlushEnds, SwitchesDue
<1>3. ~Edits
    BY DEF Edits, EditPlain, SwitchSchedule, DiscoverDevice, ForgetDevice, BindLamp, Edited
<1>4. (\A i \in Imports : ~StageImport(i)) /\ ~StageExpires
    BY DEF StageImport, StageExpires, IInv, StageInv
<1>5. ~ImportBegins /\ ~ImportWrites /\ ~ReloadStep /\ ~ImportNotReloaded
    BY DEF ImportBegins, ImportWrites, ReloadStep, ImportReloads, ImportNotReloaded
<1>6. ~Announce /\ ~FirmwareOpens /\ ~FirmwareCloses /\ ~LosePower
    BY DEF Announce, FirmwareOpens, FirmwareCloses, LosePower
<1>7. ImportValidates \/ ImportWriteFails
    BY <1>1, <1>2, <1>3, <1>4, <1>5, <1>6, ZenonT(30) DEF PersistNext, ImportSteps
<1>8. CASE ImportValidates
    BY <1>8 DEF ImportValidates, IInv, StageInv
<1>9. CASE ImportWriteFails
    BY <1>9 DEF ImportWriteFails
<1> QED
    BY <1>7, <1>8, <1>9

\* What a reload or a re-read replaced in memory is queued for the clients, save
\* the three cases Unannounced names, and the answer of an import is true: ok
\* means every slice of it is stored and is in memory or held until it is read,
\* refused that nothing was stored.
THEOREM ReloadsAreTold == PersistSpec => ReloadTold
<1>1. IInv /\ [PersistNext]_persistVars =>
        [Rehydrates => \A k \in Key \ {"old"} :
            \/ Content(mem'.ram, k) = Content(mem.ram, k)
            \/ k \in queue' \/ Unannounced(k)]_persistVars
    BY StepsAnnounce
<1>2. PersistSpec => ReplacedIsAnnounced
    BY <1>1, InvariantHolds, PTL DEF PersistSpec, ReplacedIsAnnounced
<1>3. IInv /\ [PersistNext]_persistVars =>
        [/\ report = "none" /\ report' = "ok" =>
              \A i \in DOMAIN importing.slices : LET x == importing.slices[i] IN
                  /\ disk[x.key] = x.slot
                  /\ x.key \in Key \ {"old", "lamps"} =>
                      Content(mem'.ram, x.key) = x.slot.val \/ x.key \in mem'.held
         /\ report = "none" /\ report' = "refused" /\ importing # None => importing.written = {}
        ]_persistVars
    BY StepsAnswer, StepsRefuse
<1>4. PersistSpec => ImportAnswerTrue
    BY <1>3, InvariantHolds, PTL DEF PersistSpec, ImportAnswerTrue
<1> QED
    BY <1>2, <1>4 DEF ReloadTold
=============================================================================
