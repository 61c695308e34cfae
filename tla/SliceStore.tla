----------------------------- MODULE SliceStore -----------------------------
(***************************************************************************)
(* One slot of the configuration store, dali2rust-bsp/src/                 *)
(* slice_store_core.rs: two flash banks, each a header (sequence number    *)
(* and checksum) before a payload, the memory the process keeps about the  *)
(* slot, the sessions that write it and a load that may run beside them.   *)
(* Every flash operation may fail half way and power may be lost inside    *)
(* it.                                                                     *)
(*                                                                         *)
(* Abstractions: a payload is two chunks holding the same value, so that a *)
(* torn one shows; the checksum of a payload is the value it was computed  *)
(* over; a header whose length word was not programmed is Torn (it is not  *)
(* a candidate), one whose checksum was not is a candidate with BadCrc.    *)
(***************************************************************************)
EXTENDS Absent, Naturals, Sequences

CONSTANTS
    Value,         \* contents a slice can have
    Writers,       \* threads that write the slot
    MaxSeq,        \* bound: sequence numbers
    MaxFlashFaults,  \* bound: failed operations and power losses
    ReadsMayFail   \* may the read of a bank fail while the other is a candidate

Bank == {0, 1}
Blank == "blank"
Torn == "torn"
Junk == "junk"
BadCrc == "bad crc"

ASSUME SliceStoreAssumption ==
    /\ None \notin Value /\ None \notin Bank
    /\ (Value \cup {None}) \cap {Blank, Torn, Junk, BadCrc} = {}
    /\ MaxSeq \in Nat \ {0} /\ MaxFlashFaults \in Nat /\ ReadsMayFail \in BOOLEAN

VARIABLES
    flash,     \* the two banks
    served,    \* ServedBank: the bank known good, None after a boot, and its generation
    erased,    \* SlotMemory.erased: the bank known to be erased
    writing,   \* SlotMemory.writing: the claim
    session,   \* the write session of each writer
    reader,    \* the load under way
    loaded,    \* the slot has been loaded since power was lost
    allowed,   \* ghost: the contents a load may find
    flashFaults

sliceVars == <<flash, served, erased, writing, session, reader, loaded, allowed, flashFaults>>

Chunks == {1, 2}

NoHeader == [seq |-> 0, crc |-> Blank]
TornHeader == [seq |-> 0, crc |-> Torn]
Headers == {NoHeader, TornHeader} \cup [seq : 1..MaxSeq, crc : Value \cup {BadCrc}]
Cells == Value \cup {Blank, Junk}
BlankBank == [hdr |-> NoHeader, body |-> [i \in Chunks |-> Blank]]

\* candidate_banks: the magic and the length are in order.
IsCandidate(h) == h.seq > 0

\* The payload has the checksum the header states.
Good(k) == IsCandidate(k.hdr) /\ \A i \in Chunks : k.body[i] = k.hdr.crc

\* candidate_banks, sorted by descending sequence number.
Candidates(found) ==
    {s \in UNION {[1..n -> Bank] : n \in 0..2} :
        /\ {s[i] : i \in DOMAIN s} = {k \in Bank : IsCandidate(found[k])}
        /\ \A i, j \in DOMAIN s : i < j => s[i] # s[j] /\ found[s[i]].seq >= found[s[j]].seq}

GoodBanks == {k \in Bank : Good(flash[k])}

\* The content a load that nothing disturbs would find.
Recovered ==
    IF GoodBanks = {} THEN None
    ELSE LET k == CHOOSE k \in GoodBanks :
                    \A j \in GoodBanks : flash[k].hdr.seq >= flash[j].hdr.seq
         IN flash[k].hdr.crc

NoSession == [pc |-> "idle", target |-> 0, stale |-> None, seq |-> 1, val |-> None]
NoLoad == [pc |-> "idle", seen |-> 0, found |-> [k \in Bank |-> NoHeader], order |-> <<>>,
           chunk |-> None, result |-> None, overtaken |-> 0, current |-> {}]

SliceInit ==
    /\ flash = [k \in Bank |-> BlankBank]
    /\ served = [bank |-> None, generation |-> 0] /\ erased = None /\ writing = FALSE
    /\ session = [w \in Writers |-> NoSession] /\ reader = NoLoad
    /\ loaded = FALSE /\ allowed = {None} /\ flashFaults = 0

----------------------------------------------------------------------------
\* What a flash operation may leave behind when it fails or power is lost in
\* it. A program only clears bits: over a cell that is not blank it is junk.
Program(cell, v) == IF cell = Blank THEN v ELSE Junk

HalfErased(k) ==
    [hdr : {k.hdr, NoHeader, TornHeader} \cup (IF IsCandidate(k.hdr)
                                      THEN {[k.hdr EXCEPT !.crc = BadCrc]} ELSE {}),
     body : {f \in [Chunks -> Cells] : \A i \in Chunks : f[i] \in {k.body[i], Blank, Junk}}]

HalfAppended(k, i, v) ==
    {[k EXCEPT !.body[i] = c] : c \in {k.body[i], Junk, Program(k.body[i], v)}}

HalfCommitted(k, s, v) ==
    {[k EXCEPT !.hdr = h] : h \in {k.hdr, TornHeader, [seq |-> s, crc |-> BadCrc], [seq |-> s, crc |-> v]}}

\* The states the flash may be in if the operation of session w is cut short.
Interrupted(w) ==
    LET s == session[w]
        left == CASE s.pc = "erase" -> HalfErased(flash[s.target])
                  [] s.pc = "append1" -> HalfAppended(flash[s.target], 1, s.val)
                  [] s.pc = "append2" -> HalfAppended(flash[s.target], 2, s.val)
                  [] s.pc = "header" -> HalfCommitted(flash[s.target], s.seq, s.val)
                  [] s.pc = "stale" -> HalfErased(flash[s.stale])
                  [] OTHER -> {flash[s.target]}
        where == IF s.pc = "stale" THEN s.stale ELSE s.target
    IN {[flash EXCEPT ![where] = k] : k \in left}

\* One commit more, none, or one, or several.
Overtaken(n, commit) == IF commit /\ n < 2 THEN n + 1 ELSE n

\* A load under way notes what it could have found and the commits passing it.
Watch(commit) ==
    reader' = IF reader.pc = "idle" THEN reader
              ELSE [reader EXCEPT !.current = @ \cup {Recovered'},
                                  !.overtaken = Overtaken(@, commit)]

Step(w, pc) == session' = [session EXCEPT ![w].pc = pc]

\* The session ends: dropping it drops the claim.
Ends(w) == session' = [session EXCEPT ![w] = NoSession] /\ writing' = FALSE

----------------------------------------------------------------------------
ChooseNewest(proved, newest) ==
    LET keep == newest
    IN [keep |-> keep, target |-> IF keep = None THEN 0 ELSE 1 - keep]

\* choose_bank: keep the bank proved good, else the newest header.
ChooseBank(proved, newest) ==
    LET keep == IF proved # None THEN proved ELSE newest
    IN [keep |-> keep, target |-> IF keep = None THEN 0 ELSE 1 - keep]

\* WriteClaim::take: a second writer is Deferred.
Claim == ~writing

\* begin_write, with the erase left to EraseTarget when the target is dirty.
\* No writer runs before the boot has loaded the slot.
BeginWrite(w, v) ==
    /\ loaded /\ session[w] = NoSession /\ Claim
    /\ \E order \in Candidates([k \in Bank |-> flash[k].hdr]) :
        LET newest == IF order = <<>> THEN None ELSE order[1]
            seq == IF newest = None THEN 1 ELSE flash[newest].hdr.seq + 1
            choice == ChooseBank(served.bank, newest)
            clean == erased = choice.target \/ flash[choice.target] = BlankBank
        IN /\ seq <= MaxSeq
           /\ session' = [session EXCEPT ![w] =
                [pc |-> IF clean THEN "append1" ELSE "erase", target |-> choice.target,
                 stale |-> choice.keep, seq |-> seq, val |-> v]]
           /\ erased' = IF clean THEN None ELSE erased
    /\ writing' = TRUE
    /\ UNCHANGED <<flash, served, reader, loaded, allowed, flashFaults>>

EraseTarget(w) ==
    /\ session[w].pc = "erase"
    /\ flash' = [flash EXCEPT ![session[w].target] = BlankBank]
    /\ erased' = None /\ Step(w, "append1") /\ Watch(FALSE)
    /\ UNCHANGED <<served, writing, loaded, allowed, flashFaults>>

\* append, one chunk at a time.
AppendChunk(w) ==
    /\ session[w].pc \in {"append1", "append2"}
    /\ LET s == session[w]
           i == IF s.pc = "append1" THEN 1 ELSE 2
       IN /\ flash' = [flash EXCEPT ![s.target].body[i] = Program(@, s.val)]
          /\ Step(w, IF i = 1 THEN "append2" ELSE "header")
    /\ Watch(FALSE)
    /\ UNCHANGED <<served, erased, writing, loaded, allowed, flashFaults>>

\* commit: the header goes last.
CommitHeader(w) ==
    /\ session[w].pc = "header"
    /\ LET s == session[w] IN
        /\ flash' = [flash EXCEPT ![s.target].hdr =
                        IF @ = NoHeader THEN [seq |-> s.seq, crc |-> s.val] ELSE TornHeader]
        /\ allowed' = allowed \cup {s.val}
    /\ Step(w, "served") /\ Watch(TRUE)
    /\ UNCHANGED <<served, erased, writing, loaded, flashFaults>>

\* ServedBank::committed.
Committed(bank) == [bank |-> bank, generation |-> served.generation + 1]

CommitServed(w) ==
    /\ session[w].pc = "served"
    /\ served' = Committed(session[w].target)
    /\ IF session[w].stale = None
       THEN Ends(w) /\ allowed' = {session[w].val}
       ELSE Step(w, "stale") /\ UNCHANGED <<writing, allowed>>
    /\ UNCHANGED <<flash, erased, reader, loaded, flashFaults>>

\* commit erases the superseded bank and returns Ok.
EraseStale(w) ==
    /\ session[w].pc = "stale"
    /\ flash' = [flash EXCEPT ![session[w].stale] = BlankBank]
    /\ erased' = session[w].stale /\ allowed' = {session[w].val}
    /\ Ends(w) /\ Watch(FALSE)
    /\ UNCHANGED <<served, loaded, flashFaults>>

\* A flash operation fails. The stale bank's erase is deferred and the commit
\* still succeeds; every other failure ends the session with an error. A
\* header write that reports an error is assumed not to have programmed the
\* whole header (one cut by a power loss may have).
Fail(w) ==
    /\ session[w].pc \in {"erase", "append1", "append2", "header", "stale"}
    /\ flashFaults < MaxFlashFaults /\ flashFaults' = flashFaults + 1
    /\ flash' \in Interrupted(w)
    /\ session[w].pc = "header" => ~Good(flash'[session[w].target])
    /\ allowed' = IF session[w].pc = "stale" THEN {session[w].val} ELSE allowed
    /\ Ends(w) /\ Watch(FALSE)
    /\ UNCHANGED <<served, erased, loaded>>

\* The caller gives the session up (an encoder error): abort.
Abort(w) ==
    /\ session[w].pc \in {"append1", "append2", "header"}
    /\ Ends(w)
    /\ UNCHANGED <<flash, served, erased, reader, loaded, allowed, flashFaults>>

----------------------------------------------------------------------------
\* load: the served word is noted first, then the headers one by one.
LoadBegin ==
    /\ reader.pc = "idle"
    /\ reader' = [NoLoad EXCEPT !.pc = "header", !.seen = served.generation,
                                !.found[0] = flash[0].hdr, !.current = {Recovered}]
    /\ UNCHANGED <<flash, served, erased, writing, session, loaded, allowed, flashFaults>>

LoadHeader ==
    /\ reader.pc = "header"
    /\ LET found == [reader.found EXCEPT ![1] = flash[1].hdr] IN
        \E order \in Candidates(found) :
            reader' = [reader EXCEPT !.found = found, !.order = order, !.pc = "chunk1"]
    /\ UNCHANGED <<flash, served, erased, writing, session, loaded, allowed, flashFaults>>

LoadFirstChunk ==
    /\ reader.pc = "chunk1" /\ reader.order # <<>>
    /\ reader' = [reader EXCEPT !.chunk = flash[reader.order[1]].body[1], !.pc = "chunk2"]
    /\ UNCHANGED <<flash, served, erased, writing, session, loaded, allowed, flashFaults>>

\* ServedBank::read_unless_moved.
ReadUnlessMoved(seen, bank) ==
    IF served.generation = seen THEN [served EXCEPT !.bank = bank] ELSE served

\* A boot's load tells what the slot holds from here on.
LoadEnds(result) ==
    /\ reader' = [reader EXCEPT !.pc = "idle", !.result = result, !.order = <<>>]
    /\ loaded' = TRUE
    /\ allowed' = IF loaded THEN allowed ELSE {result}

CrcOfFirstChunk(first, second, crc) == first = crc

\* The checksum over what was read is the header's.
CrcMatches(first, second, crc) == first = crc /\ second = crc

\* What the load has read.
Payload(first, second) == IF first = second THEN first ELSE Junk

\* The rest of the payload, and its checksum: a good bank is served.
LoadSecondChunk ==
    /\ reader.pc = "chunk2"
    /\ LET bank == reader.order[1]
           rest == flash[bank].body[2]
       IN IF CrcMatches(reader.chunk, rest, reader.found[bank].crc)
          THEN served' = ReadUnlessMoved(reader.seen, bank) /\ LoadEnds(Payload(reader.chunk, rest))
          ELSE /\ reader' = [reader EXCEPT !.order = Tail(@), !.pc = "chunk1"]
               /\ UNCHANGED <<served, loaded, allowed>>
    /\ UNCHANGED <<flash, erased, writing, session, flashFaults>>

\* Neither bank is good: Missing.
LoadMissing ==
    /\ reader.pc = "chunk1" /\ reader.order = <<>>
    /\ LoadEnds(None)
    /\ UNCHANGED <<flash, served, erased, writing, session, flashFaults>>

\* A chunk cannot be read: the next bank is tried, or the load says Backend
\* and the slice stays unread.
LoadReadFails ==
    /\ reader.pc \in {"chunk1", "chunk2"} /\ reader.order # <<>>
    /\ Len(reader.order) > 1 => ReadsMayFail
    /\ flashFaults < MaxFlashFaults /\ flashFaults' = flashFaults + 1
    /\ reader' = IF Len(reader.order) > 1
                 THEN [reader EXCEPT !.order = Tail(@), !.pc = "chunk1"] ELSE NoLoad
    /\ UNCHANGED <<flash, served, erased, writing, session, loaded, allowed>>

\* Power is lost: a flash operation under way is cut short, memory is gone.
PowerLoss ==
    /\ flashFaults < MaxFlashFaults /\ flashFaults' = flashFaults + 1
    /\ flash' \in {flash} \cup UNION {Interrupted(w) : w \in Writers}
    /\ allowed' = allowed \cup {session[w].val : w \in {x \in Writers : session[x].pc = "header"}}
    /\ served' = [bank |-> None, generation |-> 0] /\ erased' = None /\ writing' = FALSE
    /\ session' = [w \in Writers |-> NoSession] /\ reader' = NoLoad /\ loaded' = FALSE

SliceWriter(w) ==
    \/ \E v \in Value : BeginWrite(w, v)
    \/ EraseTarget(w) \/ AppendChunk(w) \/ CommitHeader(w) \/ CommitServed(w) \/ EraseStale(w)
    \/ Fail(w) \/ Abort(w)

SliceLoad ==
    LoadBegin \/ LoadHeader \/ LoadFirstChunk \/ LoadSecondChunk \/ LoadMissing \/ LoadReadFails

SliceNext == (\E w \in Writers : SliceWriter(w)) \/ SliceLoad \/ PowerLoss

SliceSpec == SliceInit /\ [][SliceNext]_sliceVars

----------------------------------------------------------------------------
SessionPc == {"idle", "erase", "append1", "append2", "header", "served", "stale"}

\* Flash, memory, sessions and the load keep their shapes.
SliceTypeOK ==
    /\ flash \in [Bank -> [hdr : Headers, body : [Chunks -> Cells]]]
    /\ served \in [bank : Bank \cup {None}, generation : Nat]
    /\ erased \in Bank \cup {None} /\ writing \in BOOLEAN /\ loaded \in BOOLEAN
    /\ session \in [Writers -> [pc : SessionPc, target : Bank, stale : Bank \cup {None},
                                seq : 1..MaxSeq, val : Value \cup {None}]]
    /\ reader.pc \in {"idle", "header", "chunk1", "chunk2"}
    /\ allowed \subseteq Value \cup {None} /\ flashFaults \in 0..MaxFlashFaults

\* Whatever failed and wherever power was lost, a load would find the content
\* last committed (or loaded by the boot), or one whose header was being
\* written: an acknowledged slice is never lost, a torn one never served.
DurableContent == Recovered \in allowed

\* The bank recorded as served is good, also when a load that found the other
\* bank good ends after a commit: begin_write erases the bank not served.
ServedIsGood == served.bank # None => served.bank \in GoodBanks

\* A bank is programmed only where it is blank: the erased bank remembered by
\* the last commit really is, and every other target is erased first.
ProgramsBlankCells ==
    \A w \in Writers : LET s == session[w] IN
        /\ s.pc = "append1" => flash[s.target] = BlankBank
        /\ s.pc = "append2" => flash[s.target].hdr = NoHeader /\ flash[s.target].body[2] = Blank
        /\ s.pc = "header" => flash[s.target].hdr = NoHeader

\* load answers with a content the slot had while it ran, never a mixture of
\* two, and says Missing of a slot that has one only when a commit passed it
\* between the headers and the payload. Only when two commits did may it answer
\* with an older content, that of a superseded header it read whose payload a
\* third write is just programming anew.
LoadAnswersSomeMoment ==
    [][reader.pc # "idle" /\ reader'.pc = "idle" /\ reader' # NoLoad =>
        \/ reader'.result \in reader.current
        \/ reader'.result = None /\ reader.overtaken > 0
        \/ reader'.result = reader.found[reader.order[1]].crc /\ reader.overtaken = 2]_sliceVars

=============================================================================
