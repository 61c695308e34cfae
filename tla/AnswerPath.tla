----------------------------- MODULE AnswerPath -----------------------------
(***************************************************************************)
(* How the controller answers a query of another controller within the      *)
(* 9.17 ms the bus allows.  The timer interrupt numbers and decodes every    *)
(* capture and looks a query up in a table; the sniffer task applies the     *)
(* captures to the unit and publishes the table, word by word, into the one  *)
(* of two copies that is not live.  The unit is one register with "set" and  *)
(* "query" frames; the lease of the answering role, the table's age and the  *)
(* units' own answers are left out.                                         *)
(***************************************************************************)
EXTENDS Naturals, Sequences

CONSTANTS
    Value,        \* what the register can hold
    None,
    RingRoom,     \* captures the ring holds (RX_RING_CAP - 1)
    GenModulus,   \* 2^32 in the code: the width of a copy's generation
    EpochModulus, \* 2^8 in the code: the width of the bus epoch
    MaxCaptures,  \* bound on captures
    MaxForwards   \* bound on forward frames when an own frame starts

ASSUME AnswerAssumption ==
    /\ None \notin Value /\ None # "too_late"
    /\ RingRoom \in Nat \ {0} /\ MaxCaptures \in Nat /\ MaxForwards \in Nat
    /\ GenModulus \in Nat /\ GenModulus > 2 /\ GenModulus % 2 = 0
    /\ EpochModulus \in Nat /\ EpochModulus > 1

VARIABLES
    truth,     \* ghost: the register of a unit that misses no frame
    forwards,  \* ghost: forward frames the bus has carried
    sniffSeq,  \* table_path.sniff_seq
    busEpoch,  \* bus_epoch
    txBusy,    \* an own forward frame is on the wire
    held,      \* the 24-bit capture being decoded, or None
    reader,    \* the table look-up of the interrupt
    rxRing,    \* captures on their way to the task
    answerCell, \* the staged answer, or None
    answerSent, \* ghost: whether the last answer came before any other frame
    accountsFor, unit,  \* the task: last capture applied, the register or None
    writer,    \* the next store of the task's publication
    copies, live

interrupt == <<truth, forwards, sniffSeq, busEpoch, txBusy, held, reader, answerCell,
               answerSent>>
sniffer == <<accountsFor, unit, writer, copies, live>>
answerVars == <<interrupt, rxRing, sniffer>>

Plus(x, n, modulus) == (x + n) % modulus

Sets == [kind : {"set"}, value : Value]
Others == {[kind |-> "query"], [kind |-> "forward16"], [kind |-> "backward"]}

Idle == [pc |-> "idle", copy |-> 0, gen |-> 0, accountsFor |-> 0, word |-> None,
         flips |-> 0, spanned |-> 0]

Unpublished(v) == [gen |-> 0, accountsFor |-> 0, word |-> v]

AnswerInit ==
    /\ truth \in Value /\ unit = truth
    /\ forwards = 0 /\ sniffSeq = 0 /\ busEpoch = 0 /\ txBusy = FALSE
    /\ held = None /\ reader = Idle /\ rxRing = <<>> /\ answerCell = None /\ answerSent = None
    /\ accountsFor = 0 /\ writer = "idle"
    /\ copies = [c \in {0, 1} |-> Unpublished(None)] /\ live = 0

----------------------------------------------------------------------------
\* The interrupt.

\* push_to_sniffer_ring: a full ring drops the capture.
Pushed(ring, capture) ==
    IF Len(ring) < RingRoom
    THEN Append(ring, [frame |-> capture.frame, seq |-> capture.seq])
    ELSE ring

\* A tick lies between any two frames, and each tick starts with
\* try_arm_answer: a stale staged answer is gone before the next frame.
NoStaleCell == answerCell # None => answerCell.epoch = busEpoch

\* drain_completed_rx, route_*_capture and push_sniffer_capture.
Capture(frame) ==
    LET backward == frame.kind = "backward"
        epoch == IF backward THEN busEpoch ELSE Plus(busEpoch, 1, EpochModulus)
        nth == IF backward THEN forwards ELSE forwards + 1
        capture == [frame |-> frame, seq |-> sniffSeq + 1, epoch |-> epoch,
                    before |-> truth, nth |-> nth,
                    ready |-> copies[live].gen # 0 /\ copies[live].accountsFor = sniffSeq]
        ring == IF held = None THEN rxRing ELSE Pushed(rxRing, held)
    IN /\ reader = Idle /\ ~txBusy /\ NoStaleCell /\ sniffSeq < MaxCaptures
       /\ sniffSeq' = sniffSeq + 1
       /\ busEpoch' = epoch /\ forwards' = nth
       /\ truth' = IF frame.kind = "set" THEN frame.value ELSE truth
       /\ IF frame.kind \in {"set", "query"}
          THEN held' = capture /\ rxRing' = ring
          ELSE held' = None /\ rxRing' = Pushed(ring, capture)
       /\ UNCHANGED <<txBusy, reader, answerCell, answerSent, sniffer>>

\* arm_pending_forward and start_tx; an answer waiting for its slot goes first.
OwnFrameStarts ==
    /\ reader = Idle /\ ~txBusy /\ answerCell = None /\ forwards < MaxForwards
    /\ txBusy' = TRUE
    /\ busEpoch' = Plus(busEpoch, 1, EpochModulus) /\ forwards' = forwards + 1
    /\ UNCHANGED <<truth, sniffSeq, held, reader, rxRing, answerCell, answerSent, sniffer>>

\* report_forward_completion: a yielded frame never was on the bus.  The phase
\* search takes five ticks, less than a frame, but not less than a yield.
OwnFrameEnds(yielded) ==
    /\ reader = Idle /\ txBusy /\ (yielded \/ held = None)
    /\ txBusy' = FALSE
    /\ busEpoch' = IF yielded THEN Plus(busEpoch, EpochModulus - 1, EpochModulus) ELSE busEpoch
    /\ forwards' = IF yielded THEN forwards - 1 ELSE forwards
    /\ UNCHANGED <<truth, sniffSeq, held, reader, rxRing, answerCell, answerSent, sniffer>>

\* step_held_capture when the search is done: a frame that does not decode, and
\* one that is no query, goes to the ring unanswered.
DecodeNoQuery ==
    /\ reader = Idle /\ held # None
    /\ held' = None
    /\ rxRing' = Pushed(rxRing, held)
    /\ UNCHANGED <<truth, forwards, sniffSeq, busEpoch, txBusy, reader, answerCell, answerSent,
                   sniffer>>

\* read_live loads the index of the live copy; flips counts the publications
\* that complete, spanned the generation stores, until the look-up ends.
Looking == [Idle EXCEPT !.pc = "gen", !.copy = live]

\* step_held_capture on a query: answer_from_table.
DecodeQuery ==
    /\ reader = Idle /\ held # None /\ held.frame.kind = "query"
    /\ reader' = Looking
    /\ UNCHANGED <<truth, forwards, sniffSeq, busEpoch, txBusy, held, rxRing, answerCell,
                   answerSent, sniffer>>

Read(from, to) ==
    /\ reader.pc = from
    /\ UNCHANGED <<truth, forwards, sniffSeq, busEpoch, txBusy, held, rxRing, answerCell,
                   answerSent, sniffer>>
    /\ reader' = to

\* The generation before the words; NEVER_PUBLISHED ends the look-up.
ReadGeneration ==
    LET gen == copies[reader.copy].gen
    IN Read("gen", [reader EXCEPT !.pc = IF gen = 0 THEN "not_published" ELSE "accounts",
                                  !.gen = gen])

ReadAccounts ==
    Read("accounts", [reader EXCEPT !.pc = "word",
                                    !.accountsFor = copies[reader.copy].accountsFor])

ReadWord ==
    Read("word", [reader EXCEPT !.pc = "settled", !.word = copies[reader.copy].word])

\* Mutant: an odd generation is taken for a settled one.
SettledIfSame(before) == copies[reader.copy].gen = before

\* settled_since: the generation was even and is the same again.
SettledSince(before) == before % 2 = 0 /\ copies[reader.copy].gen = before

\* decide after read_live; the tick of the table and the lease are free here.
Decide(aged, alive) ==
    IF ~SettledSince(reader.gen) THEN "torn"
    ELSE IF reader.accountsFor # held.seq - 1 THEN "behind"
    ELSE IF aged THEN "aged"
    ELSE IF ~alive \/ reader.word = None THEN "silent"
    ELSE "answer"

ReadSettled(aged, alive) == Read("settled", [reader EXCEPT !.pc = Decide(aged, alive)])

Outcomes == {"not_published", "torn", "behind", "aged", "silent", "answer"}

\* answer_from_table stages the answer unless the cell is busy, and
\* step_held_capture passes the capture on.
LookupEnds ==
    /\ reader.pc \in Outcomes
    /\ answerCell' = IF reader.pc = "answer" /\ answerCell = None
                     THEN [answer |-> reader.word, epoch |-> held.epoch,
                           before |-> held.before, nth |-> held.nth]
                     ELSE answerCell
    /\ rxRing' = Pushed(rxRing, held)
    /\ held' = None /\ reader' = Idle
    /\ UNCHANGED <<truth, forwards, sniffSeq, busEpoch, txBusy, answerSent, sniffer>>

\* try_arm_answer and fire_staged_answer.
Fire ==
    /\ reader = Idle /\ ~txBusy /\ answerCell # None /\ answerCell.epoch = busEpoch
    /\ answerSent' = (IF answerCell.nth = forwards THEN "in_turn" ELSE "too_late")
    /\ answerCell' = None
    /\ UNCHANGED <<truth, forwards, sniffSeq, busEpoch, txBusy, held, reader, rxRing, sniffer>>

\* try_arm_answer: a stale answer, or one past its time, is dropped.
DropAnswer ==
    /\ reader = Idle /\ ~txBusy /\ answerCell # None
    /\ answerCell' = None
    /\ UNCHANGED <<truth, forwards, sniffSeq, busEpoch, txBusy, held, reader, rxRing, answerSent,
                   sniffer>>

Interrupt ==
    \/ \E frame \in Sets \cup Others : Capture(frame)
    \/ OwnFrameStarts
    \/ \E yielded \in BOOLEAN : OwnFrameEnds(yielded)
    \/ DecodeNoQuery \/ DecodeQuery
    \/ ReadGeneration \/ ReadAccounts \/ ReadWord
    \/ \E aged, alive \in BOOLEAN : ReadSettled(aged, alive)
    \/ LookupEnds \/ Fire \/ DropAnswer

----------------------------------------------------------------------------
\* The sniffer task.

\* AnswerPublisher::drain and UnitTap::on_capture: a gap makes the register
\* unknown until it is set again.
Applied(capture) ==
    IF capture.frame.kind = "set" THEN capture.frame.value
    ELSE IF capture.seq # accountsFor + 1 THEN None
    ELSE unit

Drain ==
    /\ writer = "idle" /\ rxRing # <<>>
    /\ accountsFor' = Head(rxRing).seq
    /\ unit' = Applied(Head(rxRing))
    /\ rxRing' = Tail(rxRing)
    /\ UNCHANGED <<interrupt, writer, copies, live>>

\* One store of AnswerTableCell::publish.  A look-up lasts microseconds, so it
\* never spans GenModulus generation stores of its copy.
Store(from, to, c, copy, newLive) ==
    /\ writer = from /\ writer' = to
    /\ copies' = [copies EXCEPT ![c] = copy]
    /\ live' = newLive
    /\ LET look == reader # Idle /\ reader.copy = c /\ copy.gen # copies[c].gen
       IN /\ look => reader.spanned + 1 < GenModulus
          /\ reader' = IF reader = Idle THEN reader
                       ELSE [reader EXCEPT !.spanned = IF look THEN @ + 1 ELSE @,
                                           !.flips = IF newLive # live /\ @ = 0 THEN 1 ELSE @]
    /\ UNCHANGED <<truth, forwards, sniffSeq, busEpoch, txBusy, held, answerCell, answerSent,
                   rxRing, accountsFor, unit>>

\* publish writes the copy that is not live.
NextCopy == 1 - live

Generation(n) == Plus(copies[NextCopy].gen, n, GenModulus)

\* The ring was found empty: publish starts with an odd generation.
PublishBegins ==
    /\ rxRing = <<>>
    /\ Store("idle", "accounts", NextCopy, [copies[NextCopy] EXCEPT !.gen = Generation(1)], live)

PublishAccounts ==
    Store("accounts", "word", NextCopy, [copies[NextCopy] EXCEPT !.accountsFor = accountsFor], live)

PublishWord ==
    Store("word", "settle", NextCopy, [copies[NextCopy] EXCEPT !.word = unit], live)

PublishSettles ==
    Store("settle", "flip", NextCopy, [copies[NextCopy] EXCEPT !.gen = Generation(1)], live)

PublishFlips == Store("flip", "idle", NextCopy, copies[NextCopy], NextCopy)

Task ==
    \/ Drain
    \/ PublishBegins \/ PublishAccounts \/ PublishWord \/ PublishSettles \/ PublishFlips

AnswerNext == Interrupt \/ Task

AnswerSpec == AnswerInit /\ [][AnswerNext]_answerVars

----------------------------------------------------------------------------
\* Counters and indices keep their widths; a capture keeps its number.
AnswerTypeOK ==
    /\ truth \in Value /\ unit \in Value \cup {None}
    /\ sniffSeq \in 0 .. MaxCaptures /\ accountsFor \in 0 .. sniffSeq
    /\ busEpoch \in 0 .. EpochModulus - 1 /\ txBusy \in BOOLEAN
    /\ live \in {0, 1}
    /\ \A c \in {0, 1} : /\ copies[c].gen \in 0 .. GenModulus - 1
                         /\ copies[c].word \in Value \cup {None}
    /\ Len(rxRing) <= RingRoom
    /\ \A i \in 1 .. Len(rxRing) - 1 : rxRing[i].seq < rxRing[i + 1].seq
    /\ writer \in {"idle", "accounts", "word", "settle", "flip"}

\* An answer taken from the table is the one a unit that heard every earlier
\* frame gives: no torn, outdated or gap-ridden table is ever answered from
\* (decide, AnswerTableCell::publish, AnswerPublisher::drain).
AnswersCurrent == answerCell # None => answerCell.answer = answerCell.before

\* An answer goes out only while its query is the last forward frame on the bus
\* (bus_epoch in try_arm_answer).
AnswerFollowsItsQuery == answerSent # "too_late"

\* The live copy is never written: a look-up is torn only when a whole
\* publication completes under it and the next one starts.
TornNeedsTwoPublications == reader.pc = "torn" => reader.flips > 0

\* A query whose capture found the table up to date is not refused as behind:
\* the table cannot run past the query before it is looked up
\* (step_held_capture pushes the capture last).
NotRefusedWhenReady == reader.pc = "behind" => ~held.ready

\* What the interrupt answers is right, or it stays silent for a cause: answers
\* are current and in time, and a look-up is refused only under a publication or
\* on a table that really was behind.
AnswersRight ==
    /\ AnswerTypeOK
    /\ AnswersCurrent /\ AnswerFollowsItsQuery
    /\ TornNeedsTwoPublications /\ NotRefusedWhenReady
=============================================================================
