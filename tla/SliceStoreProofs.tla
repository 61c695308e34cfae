-------------------------- MODULE SliceStoreProofs --------------------------
(***************************************************************************)
(* Proofs about one slot of the configuration store, for every set of      *)
(* contents and writers, every number of sequence numbers and of faults.   *)
(***************************************************************************)
EXTENDS SliceStore, TLAPS

\* A leaf that names no prover is for Zenon; one that counts, or takes a record or
\* a sequence apart, cites SMT.
USE Zenon

\* Between the header write and the new served word.
InWindow == \E w \in Writers : session[w].pc = "served"

Newest(b) == \A k \in GoodBanks : flash[k].hdr.seq <= flash[b].hdr.seq

Orders == {<<>>, <<0>>, <<1>>, <<0, 1>>, <<1, 0>>}

Shape ==
    reader \in [pc : {"idle", "header", "chunk1", "chunk2"}, seen : Nat, found : [Bank -> Headers],
                order : Orders, chunk : Cells \cup {None}, result : Value \cup {None},
                overtaken : {0, 1, 2}, current : SUBSET (Value \cup {None})]

\* One session at a time holds the claim, and none before the boot's load.
ClaimInv ==
    /\ \A w \in Writers : session[w].pc = "idle" => session[w] = NoSession
    /\ \A w \in Writers : session[w].pc # "idle" => writing /\ loaded /\ session[w].val \in Value
    /\ \A w, x \in Writers : session[w].pc # "idle" /\ session[x].pc # "idle" => w = x

\* A bank whose header names a content it does not hold is older than a good one.
FlashInv ==
    /\ IsCandidate(flash[0].hdr) /\ IsCandidate(flash[1].hdr) => flash[0].hdr.seq # flash[1].hdr.seq
    /\ \A k \in Bank : flash[k].hdr.crc \in Value =>
          Good(flash[k]) \/ (Good(flash[1 - k]) /\ flash[1 - k].hdr.seq > flash[k].hdr.seq)
    /\ erased # None => flash[erased] = BlankBank

\* The served bank is good, and outside the window the newest good one; with no
\* served bank a loaded slot has no content.
ServedInv ==
    /\ served.bank # None => /\ loaded /\ Good(flash[served.bank])
                             /\ flash[served.bank].hdr.crc \in allowed
                             /\ InWindow \/ Newest(served.bank)
    /\ loaded /\ served.bank = None => InWindow \/ (GoodBanks = {} /\ None \in allowed)
    /\ ~loaded => served.generation = 0 /\ Recovered \in allowed

\* What a session knows of its target and of the other bank.
SessionOK(s) ==
    LET t == s.target
        o == flash[1 - t]
    IN  /\ s.stale \in {None, 1 - t}
        /\ s.stale = None => ~IsCandidate(o.hdr)
        /\ s.seq > o.hdr.seq
        /\ s.pc # "erase" => erased = None
        /\ s.pc \in {"erase", "append1", "append2", "header"} => served.bank \in {None, 1 - t}
        /\ s.pc = "erase" => s.seq > flash[t].hdr.seq /\ erased # t
        /\ s.pc = "append1" => flash[t] = BlankBank
        /\ s.pc = "append2" => flash[t].hdr = NoHeader /\ flash[t].body[1] = s.val /\ flash[t].body[2] = Blank
        /\ s.pc = "header" => flash[t].hdr = NoHeader /\ \A i \in Chunks : flash[t].body[i] = s.val
        /\ s.pc \in {"served", "stale"} => /\ flash[t].hdr = [seq |-> s.seq, crc |-> s.val]
                                           /\ Good(flash[t]) /\ s.val \in allowed
        /\ s.pc = "served" => (o.hdr.crc \in Value => Good(o)) /\ (Good(o) => o.hdr.crc \in allowed)
        /\ s.pc = "stale" => served.bank = t /\ s.stale = 1 - t

SessionInv == \A w \in Writers : session[w].pc # "idle" => SessionOK(session[w])

\* The banks whose header the load has read.
Read == IF reader.pc = "header" THEN {0} ELSE Bank

\* A content the load has read of in bank k is still there, or the other bank
\* is good, newer, and the one served, and stays so until a commit moves it.
Found(k) ==
    LET h == reader.found[k]
        o == flash[1 - k]
    IN  /\ h.crc \in Value =>
             \/ h = flash[k].hdr /\ Good(flash[k])
             \/ /\ Good(o) /\ o.hdr.seq > h.seq /\ served.bank \in {None, 1 - k}
                /\ loaded => served.bank = 1 - k
                /\ 1 - k \in Read => reader.found[1 - k] = o.hdr
        /\ Good(flash[k]) => InWindow \/ h = flash[k].hdr
        /\ ~loaded => h = flash[k].hdr

InOrder(k) == \E i \in DOMAIN reader.order : reader.order[i] = k

ReaderInv ==
    reader.pc # "idle" =>
        /\ reader.seen <= served.generation
        /\ reader.seen = served.generation =>
              /\ \A k \in Read : Found(k)
              /\ reader.pc # "header" => \A k \in Bank : InOrder(k) \/ reader.found[k].crc \notin Value
              /\ reader.pc = "chunk2" /\ reader.found[reader.order[1]].crc \in Value
                    => reader.chunk = reader.found[reader.order[1]].crc
        /\ reader.pc \in {"chunk1", "chunk2"} =>
              /\ \A k \in Bank : InOrder(k) => IsCandidate(reader.found[k])
              /\ Len(reader.order) = 2 =>
                    reader.found[reader.order[1]].seq >= reader.found[reader.order[2]].seq
        /\ reader.pc = "chunk2" => reader.order # <<>>

IInv == SliceTypeOK /\ Shape /\ ClaimInv /\ FlashInv /\ ServedInv /\ SessionInv /\ ReaderInv

----------------------------------------------------------------------------
\* The constants: a bank has one other bank; a header that is no candidate
\* states no content, and a good bank holds one.
BankRecord == [hdr : Headers, body : [Chunks -> Cells]]

LEMMA OtherBank ==
    /\ \A k \in Bank : 1 - k \in Bank /\ 1 - k # k /\ 1 - (1 - k) = k
    /\ \A j, k \in Bank : j = k \/ j = 1 - k
    /\ None \notin Bank
  BY SliceStoreAssumption, SMT DEF Bank

LEMMA HeaderFacts ==
    ASSUME NEW h \in Headers
    PROVE  /\ h.seq \in Nat /\ h.seq <= MaxSeq
           /\ h.crc \in Value => IsCandidate(h)
           /\ IsCandidate(h) => h.crc \in Value \cup {BadCrc}
           /\ ~IsCandidate(h) => h.seq = 0
<1>1. h = NoHeader \/ h = TornHeader \/ h \in [seq : 1..MaxSeq, crc : Value \cup {BadCrc}]
  BY DEF Headers
<1>2. Blank \notin Value /\ Torn \notin Value /\ MaxSeq \in Nat
  BY SliceStoreAssumption
<1> QED
  BY <1>1, <1>2, SMT DEF NoHeader, TornHeader, IsCandidate

LEMMA PlainHeaders ==
    /\ NoHeader \in Headers /\ TornHeader \in Headers
    /\ NoHeader.seq = 0 /\ TornHeader.seq = 0 /\ NoHeader.crc \notin Value /\ TornHeader.crc \notin Value
    /\ ~IsCandidate(NoHeader) /\ ~IsCandidate(TornHeader)
  BY SliceStoreAssumption, SMT DEF Headers, NoHeader, TornHeader, IsCandidate

LEMMA NewHeader ==
    ASSUME NEW q \in 1 .. MaxSeq, NEW v \in Value
    PROVE  LET h == [seq |-> q, crc |-> v] IN
           /\ h \in Headers /\ h.seq = q /\ h.crc = v /\ IsCandidate(h)
<1>1. [seq |-> q, crc |-> v] \in [seq : 1..MaxSeq, crc : Value \cup {BadCrc}]
  OBVIOUS
<1>2. q > 0
  BY SliceStoreAssumption, SMT
<1> QED
  BY <1>1, <1>2 DEF Headers, IsCandidate

LEMMA GoodFacts ==
    ASSUME NEW b \in BankRecord
    PROVE  /\ b.hdr \in Headers /\ b.body[1] \in Cells /\ b.body[2] \in Cells
           /\ Good(b) <=> IsCandidate(b.hdr) /\ b.body[1] = b.hdr.crc /\ b.body[2] = b.hdr.crc
           /\ Good(b) => b.hdr.crc \in Value
<1>1. b.hdr \in Headers /\ b.body[1] \in Cells /\ b.body[2] \in Cells
  BY DEF BankRecord, Chunks
<1>2. Good(b) <=> IsCandidate(b.hdr) /\ b.body[1] = b.hdr.crc /\ b.body[2] = b.hdr.crc
  BY DEF Good, Chunks
<1>3. BadCrc \notin Cells
  BY SliceStoreAssumption DEF Cells, BadCrc, Blank, Junk
<1> QED
  BY <1>1, <1>2, <1>3, HeaderFacts

LEMMA BlankFacts ==
    /\ BlankBank \in BankRecord /\ BlankBank.hdr = NoHeader /\ ~Good(BlankBank)
    /\ \A i \in Chunks : BlankBank.body[i] = Blank
  BY PlainHeaders DEF BlankBank, BankRecord, Cells, Good

----------------------------------------------------------------------------
\* What a load that nothing disturbs would find, of any two banks.
GoodOf(f) == {k \in Bank : Good(f[k])}
Best(f, b) == b \in GoodOf(f) /\ \A k \in GoodOf(f) : f[k].hdr.seq <= f[b].hdr.seq
RecoveredOf(f) ==
    IF GoodOf(f) = {} THEN None
    ELSE LET k == CHOOSE k \in GoodOf(f) : \A j \in GoodOf(f) : f[k].hdr.seq >= f[j].hdr.seq
         IN f[k].hdr.crc

LEMMA RecoveredFacts ==
    ASSUME NEW f \in [Bank -> BankRecord],
           IsCandidate(f[0].hdr) /\ IsCandidate(f[1].hdr) => f[0].hdr.seq # f[1].hdr.seq
    PROVE  /\ GoodOf(f) = {} => RecoveredOf(f) = None
           /\ \A b \in Bank : Best(f, b) => RecoveredOf(f) = f[b].hdr.crc
           /\ GoodOf(f) # {} => \E b \in Bank : Best(f, b)
           /\ RecoveredOf(f) \in Value \cup {None}
<1>1. \A k \in Bank : f[k] \in BankRecord /\ f[k].hdr.seq \in Nat
  BY GoodFacts, HeaderFacts
<1>2. \A j, k \in GoodOf(f) : f[j].hdr.seq = f[k].hdr.seq => j = k
  BY DEF GoodOf, Good, Bank
<1>3. GoodOf(f) # {} => \E b \in Bank : Best(f, b)
  <2> SUFFICES ASSUME GoodOf(f) # {} PROVE \E b \in Bank : Best(f, b)
    OBVIOUS
  <2>1. PICK b \in GoodOf(f) : TRUE
    OBVIOUS
  <2>2. b \in Bank /\ 1 - b \in Bank /\ \A k \in GoodOf(f) : k = b \/ k = 1 - b
    BY OtherBank DEF GoodOf
  <2>3. CASE 1 - b \in GoodOf(f) /\ f[b].hdr.seq < f[1 - b].hdr.seq
    <3>1. Best(f, 1 - b)
      BY <1>1, <2>2, <2>3, SMT DEF Best
    <3> QED
      BY <2>2, <3>1
  <2>4. CASE ~(1 - b \in GoodOf(f) /\ f[b].hdr.seq < f[1 - b].hdr.seq)
    <3>1. Best(f, b)
      BY <1>1, <2>1, <2>2, <2>4, SMT DEF Best
    <3> QED
      BY <2>2, <3>1
  <2> QED
    BY <2>3, <2>4
<1>4. ASSUME NEW b \in Bank, Best(f, b) PROVE RecoveredOf(f) = f[b].hdr.crc
  <2> DEFINE P(k) == \A j \in GoodOf(f) : f[k].hdr.seq >= f[j].hdr.seq
             c == CHOOSE k \in GoodOf(f) : P(k)
  <2>1. b \in GoodOf(f) /\ P(b)
    BY <1>1, <1>4 DEF Best, GoodOf
  <2>2. c \in GoodOf(f) /\ P(c)
    BY <2>1
  <2>3. RecoveredOf(f) = f[c].hdr.crc
    BY <2>1 DEF RecoveredOf
  <2> HIDE DEF c
  <2>4. f[c].hdr.seq = f[b].hdr.seq
    BY <1>1, <2>1, <2>2, SMT DEF GoodOf
  <2> QED
    BY <1>2, <2>1, <2>2, <2>3, <2>4
<1>5. GoodOf(f) = {} => RecoveredOf(f) = None
  BY DEF RecoveredOf
<1>6. \A b \in Bank : Best(f, b) => f[b].hdr.crc \in Value
  BY GoodFacts DEF Best, GoodOf
<1> QED
  BY <1>3, <1>4, <1>5, <1>6

\* The candidates in a load's order: all of them, the newest first.
LEMMA CandidateFacts ==
    ASSUME NEW found \in [Bank -> Headers], NEW order \in Candidates(found)
    PROVE  /\ order \in Orders
           /\ \A k \in Bank : IsCandidate(found[k]) <=> \E i \in DOMAIN order : order[i] = k
           /\ order # <<>> => /\ order[1] \in Bank /\ IsCandidate(found[order[1]])
                              /\ \A k \in Bank : found[k].seq <= found[order[1]].seq
           /\ Len(order) = 2 => found[order[1]].seq >= found[order[2]].seq
<1> DEFINE some == {k \in Bank : IsCandidate(found[k])}
<1>1. PICK n \in 0 .. 2 : order \in [1 .. n -> Bank]
  BY DEF Candidates
<1>0. \A i, j \in DOMAIN order :
         i < j => order[i] # order[j] /\ found[order[i]].seq >= found[order[j]].seq
  BY DEF Candidates
<1>2. found[0] \in Headers /\ found[1] \in Headers
      /\ \A k \in Bank : found[k].seq \in Nat /\ (~IsCandidate(found[k]) => found[k].seq = 0)
  BY HeaderFacts DEF Bank
<1>3. {order[i] : i \in DOMAIN order} = some
  BY DEF Candidates
<1>4. \A k \in Bank : IsCandidate(found[k]) <=> \E i \in DOMAIN order : order[i] = k
  BY <1>3
<1> HIDE DEF some
<1>5. CASE n = 0
  <2>1. order = <<>>
    BY <1>1, <1>5, SMT
  <2> QED
    BY <1>4, <2>1, SMT DEF Orders
<1>6. CASE n = 1
  <2>1. order \in [1 .. 1 -> Bank]
    BY <1>1, <1>6
  <2>2. order = <<order[1]>> /\ order[1] \in Bank /\ DOMAIN order = {1} /\ Len(order) = 1
    BY <2>1, SMT
  <2>3. order \in Orders
    BY <2>2 DEF Orders, Bank
  <2>4. IsCandidate(found[order[1]]) /\ \A k \in Bank : IsCandidate(found[k]) => k = order[1]
    BY <1>4, <2>2
  <2>5. \A k \in Bank : found[k].seq <= found[order[1]].seq
    BY <1>2, <2>2, <2>4, SMT
  <2> QED
    BY <1>4, <2>2, <2>3, <2>4, <2>5
<1>7. CASE n = 2
  <2>1. order \in [1 .. 2 -> Bank]
    BY <1>1, <1>7
  <2>2. DOMAIN order = 1 .. 2 /\ 1 \in DOMAIN order /\ 2 \in DOMAIN order /\ Len(order) = 2
    BY <2>1, SMT
  <2>3. order[1] \in Bank /\ order[2] \in Bank /\ order[1] # order[2]
        /\ found[order[1]].seq >= found[order[2]].seq
    BY <1>0, <2>1, <2>2, SMT
  <2>4. order = <<order[1], order[2]>>
    BY <2>1, SMT
  <2>5. order \in Orders /\ \A k \in Bank : k = order[1] \/ k = order[2]
    BY <2>3, <2>4 DEF Orders, Bank
  <2>6. IsCandidate(found[order[1]])
    BY <1>4, <2>2, <2>3
  <2>7. \A k \in Bank : found[k].seq <= found[order[1]].seq
    BY <1>2, <2>3, <2>5, SMT
  <2> QED
    BY <1>4, <2>3, <2>5, <2>6, <2>7
<1> QED
  BY <1>5, <1>6, <1>7, SMT

----------------------------------------------------------------------------
LEMMA FlashFacts ==
    ASSUME SliceTypeOK, FlashInv
    PROVE  /\ flash \in [Bank -> BankRecord]
           /\ \A k \in Bank : /\ flash[k] \in BankRecord /\ flash[k].hdr \in Headers
                              /\ flash[k].hdr.seq \in Nat
                              /\ Good(flash[k]) => IsCandidate(flash[k].hdr) /\ flash[k].hdr.crc \in Value
           /\ \A k \in Bank : IsCandidate(flash[k].hdr) /\ IsCandidate(flash[1 - k].hdr)
                                => flash[k].hdr.seq # flash[1 - k].hdr.seq
           /\ Recovered = RecoveredOf(flash) /\ GoodBanks = GoodOf(flash)
           /\ Recovered \in Value \cup {None}
<1>1. flash \in [Bank -> BankRecord]
  BY DEF SliceTypeOK, BankRecord
<1>2. \A k \in Bank : /\ flash[k] \in BankRecord /\ flash[k].hdr \in Headers
                      /\ flash[k].hdr.seq \in Nat
                      /\ Good(flash[k]) => IsCandidate(flash[k].hdr) /\ flash[k].hdr.crc \in Value
  BY <1>1, GoodFacts, HeaderFacts
<1>3. \A k \in Bank : IsCandidate(flash[k].hdr) /\ IsCandidate(flash[1 - k].hdr)
                        => flash[k].hdr.seq # flash[1 - k].hdr.seq
  BY SMT DEF FlashInv, Bank
<1>4. Recovered = RecoveredOf(flash) /\ GoodBanks = GoodOf(flash)
  BY DEF Recovered, RecoveredOf, GoodBanks, GoodOf
<1> QED
  BY <1>1, <1>2, <1>3, <1>4, RecoveredFacts DEF FlashInv

\* A session that is not idle is the only one, and holds what it relies on.
LEMMA ActiveSession ==
    ASSUME IInv, NEW w \in Writers, session[w].pc # "idle"
    PROVE  /\ writing /\ loaded /\ session[w].val \in Value
           /\ SessionOK(session[w])
           /\ \A x \in Writers : x # w => session[x].pc = "idle" /\ session[x] = NoSession
           /\ InWindow <=> session[w].pc = "served"
           /\ session[w].target \in Bank /\ session[w].seq \in 1 .. MaxSeq
           /\ session[w].stale \in {None, 1 - session[w].target}
<1>1. writing /\ loaded /\ session[w].val \in Value /\ SessionOK(session[w])
  BY DEF IInv, ClaimInv, SessionInv
<1>2. \A x \in Writers : x # w => session[x].pc = "idle" /\ session[x] = NoSession
  BY DEF IInv, ClaimInv
<1>3. InWindow <=> session[w].pc = "served"
  BY <1>2 DEF InWindow
<1>4. session[w].target \in Bank /\ session[w].seq \in 1 .. MaxSeq
  BY DEF IInv, SliceTypeOK
<1> QED
  BY <1>1, <1>2, <1>3, <1>4 DEF SessionOK

\* A load finds content the slot may hold.
LEMMA Durable == ASSUME IInv PROVE Recovered \in allowed
<1>0. SliceTypeOK /\ FlashInv
  BY DEF IInv
<1>1. CASE ~loaded
  BY <1>1 DEF IInv, ServedInv
<1>2. CASE InWindow
  <2>1. PICK w \in Writers : session[w].pc = "served"
    BY <1>2 DEF InWindow
  <2> DEFINE s == session[w]
             t == s.target
  <2>2. /\ t \in Bank /\ flash[t].hdr = [seq |-> s.seq, crc |-> s.val] /\ Good(flash[t])
        /\ s.val \in allowed /\ s.seq > flash[1 - t].hdr.seq /\ s.seq \in 1 .. MaxSeq
    BY <2>1, ActiveSession DEF SessionOK
  <2>3. \A k \in Bank : flash[k].hdr.seq <= flash[t].hdr.seq
    <3>1. flash[t].hdr.seq = s.seq /\ flash[1 - t].hdr.seq \in Nat /\ s.seq \in Nat
      BY <1>0, <2>2, FlashFacts, OtherBank, SMT
    <3> HIDE DEF s, t
    <3>2. \A k \in Bank : k = t \/ k = 1 - t
      BY <2>2, OtherBank
    <3> QED
      BY <2>2, <3>1, <3>2, SMT
  <2>4. Best(flash, t)
    BY <2>2, <2>3 DEF Best, GoodOf
  <2>5. Recovered = flash[t].hdr.crc
    BY <1>0, <2>2, <2>4, FlashFacts, RecoveredFacts DEF FlashInv
  <2> QED
    BY <2>2, <2>5, SMT
<1>3. CASE loaded /\ ~InWindow /\ served.bank # None
  <2>1. served.bank \in Bank /\ Best(flash, served.bank) /\ flash[served.bank].hdr.crc \in allowed
    BY <1>3 DEF IInv, ServedInv, SliceTypeOK, Newest, Best, GoodBanks, GoodOf
  <2> QED
    BY <1>0, <2>1, FlashFacts, RecoveredFacts DEF FlashInv
<1>4. CASE loaded /\ ~InWindow /\ served.bank = None
  <2>1. GoodBanks = {} /\ None \in allowed
    BY <1>4 DEF IInv, ServedInv
  <2> QED
    BY <2>1 DEF Recovered
<1> QED
  BY <1>1, <1>2, <1>3, <1>4

\* The load is where it was, or idle.
SameReader ==
    reader'.pc # "idle" =>
        /\ reader'.pc = reader.pc /\ reader'.seen = reader.seen /\ reader'.found = reader.found
        /\ reader'.order = reader.order /\ reader'.chunk = reader.chunk

LEMMA WatchFacts ==
    ASSUME Shape, NEW commit \in BOOLEAN, Watch(commit), Recovered' \in Value \cup {None}
    PROVE  Shape' /\ SameReader
<1>1. CASE reader.pc = "idle"
  BY <1>1 DEF Watch, Shape, SameReader
<1>2. CASE reader.pc # "idle"
  <2> DEFINE now == reader.current \cup {Recovered'}
             n == Overtaken(reader.overtaken, commit)
  <2>1. reader' = [reader EXCEPT !.current = now, !.overtaken = n]
    BY <1>2 DEF Watch
  <2>2. now \in SUBSET (Value \cup {None}) /\ n \in {0, 1, 2}
    <3>1. reader.overtaken \in {0, 1, 2} /\ now \in SUBSET (Value \cup {None})
      BY DEF Shape
    <3>2. n \in {0, 1, 2}
      BY <3>1, SMT DEF Overtaken
    <3> QED
      BY <3>1, <3>2
  <2> HIDE DEF now, n
  <2>3. /\ reader'.pc = reader.pc /\ reader'.seen = reader.seen /\ reader'.found = reader.found
        /\ reader'.order = reader.order /\ reader'.chunk = reader.chunk
    BY <2>1 DEF Shape
  <2> QED
    BY <2>1, <2>2, <2>3 DEF Shape, SameReader
<1> QED
  BY <1>1, <1>2

----------------------------------------------------------------------------
\* An operation on bank t, while the other bank is the one served or no bank
\* holds content, that leaves t as it was or without content.
Spoils(t) ==
    /\ flash' \in [Bank -> BankRecord] /\ flash'[1 - t] = flash[1 - t]
    /\ flash'[t] = flash[t] \/ ~Good(flash'[t])
    /\ flash'[t].hdr.crc \in Value => flash'[t].hdr = flash[t].hdr
    /\ flash'[t].hdr.seq \in {0, flash[t].hdr.seq} \/ flash'[t].hdr.seq > flash[1 - t].hdr.seq
    /\ erased' # None => flash'[erased'] = BlankBank
    /\ loaded /\ ~InWindow /\ served.bank \in {None, 1 - t}

\* What both banks are then.
LEMMA SpoiledBanks ==
    ASSUME IInv, NEW t \in Bank, Spoils(t)
    PROVE  /\ Good(flash[t]) => /\ served.bank = 1 - t /\ Good(flash[1 - t])
                                /\ flash[1 - t].hdr.seq > flash[t].hdr.seq
           /\ served.bank = 1 - t => Good(flash[1 - t]) /\ Newest(1 - t)
           /\ served.bank = None => GoodBanks = {} /\ None \in allowed
           /\ Good(flash'[t]) => flash'[t] = flash[t]
           /\ \A k \in Bank : Good(flash'[k]) => Good(flash[k]) /\ flash'[k] = flash[k]
<1>1. served.bank = None => GoodBanks = {} /\ None \in allowed
  BY DEF IInv, ServedInv, Spoils
<1>2. served.bank = 1 - t => Good(flash[1 - t]) /\ Newest(1 - t)
  BY OtherBank DEF IInv, ServedInv, Spoils
<1>3. Good(flash[t]) => /\ served.bank = 1 - t /\ Good(flash[1 - t])
                        /\ flash[1 - t].hdr.seq > flash[t].hdr.seq
  <2> SUFFICES ASSUME Good(flash[t]) PROVE /\ served.bank = 1 - t /\ Good(flash[1 - t])
                                           /\ flash[1 - t].hdr.seq > flash[t].hdr.seq
    OBVIOUS
  <2>1. served.bank = 1 - t
    BY <1>1 DEF GoodBanks, Spoils
  <2>2. Good(flash[1 - t]) /\ flash[t].hdr.seq <= flash[1 - t].hdr.seq
    BY <1>2, <2>1 DEF Newest, GoodBanks
  <2>3. flash[t].hdr.seq # flash[1 - t].hdr.seq /\ flash[t].hdr.seq \in Nat /\ flash[1 - t].hdr.seq \in Nat
    BY <2>2, FlashFacts, OtherBank DEF IInv
  <2> QED
    BY <2>1, <2>2, <2>3, SMT
<1>4. Good(flash'[t]) => flash'[t] = flash[t]
  BY DEF Spoils
<1>5. \A k \in Bank : Good(flash'[k]) => Good(flash[k]) /\ flash'[k] = flash[k]
  BY <1>4, OtherBank DEF Spoils
<1> QED
  BY <1>1, <1>2, <1>3, <1>4, <1>5

LEMMA SpoiledFlash == ASSUME IInv, NEW t \in Bank, Spoils(t) PROVE FlashInv'
<1>0. \A k \in Bank : k = t \/ k = 1 - t
  BY OtherBank
<1>1. \A k \in Bank : flash[k].hdr.seq \in Nat /\ flash'[k].hdr.seq \in Nat
  BY FlashFacts, GoodFacts, HeaderFacts DEF IInv, Spoils
<1>2. ASSUME IsCandidate(flash'[t].hdr), IsCandidate(flash'[1 - t].hdr)
      PROVE  flash'[t].hdr.seq # flash'[1 - t].hdr.seq
  <2>1. 1 - t \in Bank /\ flash'[1 - t] = flash[1 - t] /\ flash'[t].hdr.seq > 0
    BY <1>2, OtherBank DEF Spoils, IsCandidate
  <2>2. CASE flash'[t].hdr.seq = flash[t].hdr.seq
    BY <1>2, <2>1, <2>2, FlashFacts DEF IInv, IsCandidate
  <2>3. CASE flash'[t].hdr.seq > flash[1 - t].hdr.seq
    BY <1>1, <2>1, <2>3, SMT
  <2> QED
    BY <1>1, <2>1, <2>2, <2>3 DEF Spoils
<1>3. IsCandidate(flash'[0].hdr) /\ IsCandidate(flash'[1].hdr) => flash'[0].hdr.seq # flash'[1].hdr.seq
  <2>1. CASE t = 0
    BY <1>2, <2>1, SMT
  <2>2. CASE t = 1
    BY <1>2, <2>2, SMT
  <2> QED
    BY <2>1, <2>2 DEF Bank
<1>4. flash'[t].hdr.crc \in Value =>
         Good(flash'[t]) \/ (Good(flash'[1 - t]) /\ flash'[1 - t].hdr.seq > flash'[t].hdr.seq)
  <2> SUFFICES ASSUME flash'[t].hdr.crc \in Value, ~Good(flash'[t])
               PROVE  Good(flash'[1 - t]) /\ flash'[1 - t].hdr.seq > flash'[t].hdr.seq
    OBVIOUS
  <2>1. flash'[t].hdr = flash[t].hdr /\ flash'[1 - t] = flash[1 - t]
    BY DEF Spoils
  <2>2. Good(flash[t]) \/ (Good(flash[1 - t]) /\ flash[1 - t].hdr.seq > flash[t].hdr.seq)
    BY <2>1 DEF IInv, FlashInv
  <2> QED
    BY <2>1, <2>2, SpoiledBanks
<1>5. flash'[1 - t].hdr.crc \in Value => Good(flash'[1 - t])
  <2>1. 1 - t \in Bank /\ 1 - (1 - t) = t /\ flash'[1 - t] = flash[1 - t]
    BY OtherBank DEF Spoils
  <2>2. flash[1 - t].hdr.crc \in Value => Good(flash[1 - t]) \/ Good(flash[t])
    BY <2>1 DEF IInv, FlashInv
  <2> QED
    BY <2>1, <2>2, SpoiledBanks
<1>6. \A k \in Bank : flash'[k].hdr.crc \in Value =>
         Good(flash'[k]) \/ (Good(flash'[1 - k]) /\ flash'[1 - k].hdr.seq > flash'[k].hdr.seq)
  BY <1>0, <1>4, <1>5
<1> QED
  BY <1>3, <1>6 DEF FlashInv, Spoils

LEMMA SpoiledRecovery ==
    ASSUME IInv, NEW t \in Bank, Spoils(t)
    PROVE  RecoveredOf(flash') = IF served.bank = None THEN None ELSE flash[1 - t].hdr.crc
<1>1. IsCandidate(flash'[0].hdr) /\ IsCandidate(flash'[1].hdr) => flash'[0].hdr.seq # flash'[1].hdr.seq
  BY SpoiledFlash DEF FlashInv
<1>2. flash' \in [Bank -> BankRecord] /\ flash'[1 - t] = flash[1 - t] /\ 1 - t \in Bank
  BY OtherBank DEF Spoils
<1>3. CASE served.bank = None
  <2>1. GoodOf(flash') = {}
    BY <1>3, SpoiledBanks DEF GoodOf, GoodBanks
  <2> QED
    BY <1>1, <1>2, <1>3, <2>1, RecoveredFacts
<1>4. CASE served.bank # None
  <2>1. Good(flash[1 - t]) /\ Newest(1 - t)
    BY <1>4, SpoiledBanks DEF Spoils
  <2>2. Best(flash', 1 - t)
    BY <1>2, <2>1, SpoiledBanks DEF Best, GoodOf, Newest, GoodBanks
  <2> QED
    BY <1>1, <1>2, <1>4, <2>2, RecoveredFacts
<1> QED
  BY <1>3, <1>4

LEMMA SpoiledServed ==
    ASSUME IInv, NEW t \in Bank, Spoils(t), UNCHANGED <<served, loaded>>,
           allowed' = allowed \/ (served.bank = 1 - t /\ allowed' = {flash[1 - t].hdr.crc})
    PROVE  ServedInv'
<1>1. loaded' /\ served' = served /\ served.bank \in {None, 1 - t} /\ flash'[1 - t] = flash[1 - t]
  BY DEF Spoils
<1>2. 1 - t \in Bank /\ None # 1 - t
  BY OtherBank
<1>3. CASE served.bank = None
  <2>1. GoodBanks' = {} /\ None \in allowed'
    BY <1>2, <1>3, SpoiledBanks DEF GoodBanks
  <2> QED
    BY <1>1, <1>3, <2>1 DEF ServedInv
<1>4. CASE served.bank = 1 - t
  <2>1. Good(flash'[1 - t]) /\ Newest(1 - t)
    BY <1>1, <1>4, SpoiledBanks
  <2>2. Newest(1 - t)'
    BY <1>1, <2>1, SpoiledBanks DEF Newest, GoodBanks
  <2>3. flash'[1 - t].hdr.crc \in allowed'
    BY <1>1, <1>2, <1>4, SMT DEF IInv, ServedInv
  <2> QED
    BY <1>1, <1>2, <1>4, <2>1, <2>2, <2>3 DEF ServedInv
<1> QED
  BY <1>1, <1>3, <1>4

\* A step that keeps the load and the served word needs only keep the facts
\* about what the load has read.
LEMMA ReaderKept ==
    ASSUME IInv, SameReader, UNCHANGED served,
           reader'.pc # "idle" /\ reader.seen = served.generation /\ (\A k \in Read : Found(k))
              => \A k \in Read : Found(k)'
    PROVE  ReaderInv'
<1> SUFFICES ASSUME reader'.pc # "idle" PROVE ReaderInv'
  BY DEF ReaderInv
<1>1. /\ reader'.pc = reader.pc /\ reader'.seen = reader.seen /\ reader'.found = reader.found
      /\ reader'.order = reader.order /\ reader'.chunk = reader.chunk
  BY DEF SameReader
<1>2. Read' = Read /\ \A k \in Bank : InOrder(k)' <=> InOrder(k)
  BY <1>1 DEF Read, InOrder
<1> QED
  BY <1>1, <1>2 DEF IInv, ReaderInv

LEMMA SpoiledReader ==
    ASSUME IInv, NEW t \in Bank, Spoils(t), UNCHANGED <<served, loaded>>, SameReader
    PROVE  ReaderInv'
<1> SUFFICES ASSUME reader'.pc # "idle", \A k \in Read : Found(k), NEW k \in Read PROVE Found(k)'
  BY ReaderKept
<1>1. reader'.found = reader.found /\ Read' = Read /\ Read \subseteq Bank
  BY DEF SameReader, Read, Bank
<1>2. loaded' /\ served' = served /\ loaded
  BY DEF Spoils
<1>3. k \in Bank /\ 1 - k \in Bank /\ (k = t \/ k = 1 - t) /\ 1 - (1 - t) = t
  BY <1>1, OtherBank
<1>4. Good(flash'[k]) => InWindow' \/ reader'.found[k] = flash'[k].hdr
  BY <1>1, <1>3, SpoiledBanks DEF Found, Spoils
<1>5. ASSUME reader.found[k].crc \in Value, k = t
      PROVE  \/ reader.found[k] = flash'[k].hdr /\ Good(flash'[k])
             \/ /\ Good(flash'[1 - k]) /\ flash'[1 - k].hdr.seq > reader.found[k].seq
                /\ served.bank = 1 - k
                /\ 1 - k \in Read => reader.found[1 - k] = flash'[1 - k].hdr
  <2>1. flash'[1 - t] = flash[1 - t] /\ ~InWindow
    BY DEF Spoils
  <2>2. CASE reader.found[k] = flash[k].hdr /\ Good(flash[k])
    <3>1. served.bank = 1 - t /\ Good(flash[1 - t]) /\ flash[1 - t].hdr.seq > flash[t].hdr.seq
      BY <1>5, <2>2, SpoiledBanks
    <3>2. 1 - t \in Read => reader.found[1 - t] = flash[1 - t].hdr
      BY <2>1, <3>1 DEF Found
    <3> QED
      BY <1>5, <2>1, <2>2, <3>1, <3>2
  <2>3. CASE ~(reader.found[k] = flash[k].hdr /\ Good(flash[k]))
    BY <1>2, <1>5, <2>1, <2>3 DEF Found
  <2> QED
    BY <2>2, <2>3
<1>6. ASSUME reader.found[k].crc \in Value, k = 1 - t
      PROVE  reader.found[k] = flash'[k].hdr /\ Good(flash'[k])
  <2>1. flash'[1 - t] = flash[1 - t] /\ served.bank # t
    BY OtherBank DEF Spoils
  <2> QED
    BY <1>2, <1>3, <1>6, <2>1 DEF Found
<1> QED
  BY <1>1, <1>2, <1>3, <1>4, <1>5, <1>6 DEF Found

----------------------------------------------------------------------------
\* What an operation cut short leaves of a bank.
LEMMA HalfErasedFacts ==
    ASSUME NEW b \in BankRecord, NEW n \in HalfErased(b)
    PROVE  /\ n \in BankRecord
           /\ n = b \/ ~Good(n)
           /\ n.hdr.crc \in Value => n.hdr = b.hdr
           /\ n.hdr.seq \in {0, b.hdr.seq}
<1> DEFINE bad == [b.hdr EXCEPT !.crc = BadCrc]
<1>1. /\ n.body \in [Chunks -> Cells] /\ n = [hdr |-> n.hdr, body |-> n.body]
      /\ \A i \in Chunks : n.body[i] \in {b.body[i], Blank, Junk}
      /\ n.hdr \in {b.hdr, NoHeader, TornHeader} \/ (n.hdr = bad /\ IsCandidate(b.hdr))
  BY DEF HalfErased
<1>2. b.hdr \in Headers /\ b.body \in [Chunks -> Cells] /\ b = [hdr |-> b.hdr, body |-> b.body]
  BY DEF BankRecord
<1>3. IsCandidate(b.hdr) => bad \in Headers /\ bad.seq = b.hdr.seq /\ bad.crc = BadCrc
  BY <1>2, PlainHeaders DEF Headers
<1>4. BadCrc \notin Value /\ Blank \notin Value /\ Junk \notin Value
  BY SliceStoreAssumption
<1> HIDE DEF bad
<1>5. n.hdr \in Headers /\ (n.hdr.crc \in Value => n.hdr = b.hdr) /\ n.hdr.seq \in {0, b.hdr.seq}
  BY <1>1, <1>2, <1>3, <1>4, PlainHeaders
<1>6. n \in BankRecord
  BY <1>1, <1>5 DEF BankRecord
<1>7. ASSUME Good(n) PROVE n = b
  <2>1. n.hdr = b.hdr /\ \A i \in Chunks : n.body[i] \in Value
    BY <1>5, <1>6, <1>7, GoodFacts DEF Chunks
  <2>2. \A i \in Chunks : n.body[i] = b.body[i]
    BY <1>1, <1>4, <2>1
  <2>3. n.body = b.body
    BY <1>1, <1>2, <2>2, SMT
  <2> QED
    BY <1>1, <1>2, <2>1, <2>3
<1> QED
  BY <1>5, <1>6, <1>7

LEMMA HalfAppendedFacts ==
    ASSUME NEW b \in BankRecord, NEW i \in Chunks, NEW v \in Value, NEW n \in HalfAppended(b, i, v)
    PROVE  n \in BankRecord /\ n.hdr = b.hdr
<1>1. PICK c \in {b.body[i], Junk, Program(b.body[i], v)} : n = [b EXCEPT !.body[i] = c]
  BY DEF HalfAppended
<1>2. c \in Cells
  BY <1>1 DEF BankRecord, Program, Cells
<1> QED
  BY <1>1, <1>2 DEF BankRecord

LEMMA HalfCommittedFacts ==
    ASSUME NEW b \in BankRecord, NEW s \in 1 .. MaxSeq, NEW v \in Value, NEW n \in HalfCommitted(b, s, v)
    PROVE  /\ n \in BankRecord /\ n.body = b.body
           /\ n.hdr = b.hdr \/ n.hdr = TornHeader \/ n.hdr = [seq |-> s, crc |-> BadCrc]
              \/ n.hdr = [seq |-> s, crc |-> v]
<1>1. PICK h \in {b.hdr, TornHeader, [seq |-> s, crc |-> BadCrc], [seq |-> s, crc |-> v]} :
         n = [b EXCEPT !.hdr = h]
  BY DEF HalfCommitted
<1>2. h \in Headers
  BY <1>1, SMT DEF Headers, BankRecord
<1> QED
  BY <1>1, <1>2 DEF BankRecord

\* The bank an operation of session w works on.
Where(w) == IF session[w].pc = "stale" THEN session[w].stale ELSE session[w].target

LEMMA InterruptedFacts ==
    ASSUME IInv, NEW w \in Writers, session[w].pc # "idle", flash' \in Interrupted(w)
    PROVE  /\ Where(w) \in Bank /\ flash' \in [Bank -> BankRecord]
           /\ flash'[1 - Where(w)] = flash[1 - Where(w)]
           /\ session[w].pc \in {"erase", "stale"} => flash'[Where(w)] \in HalfErased(flash[Where(w)])
           /\ session[w].pc \in {"append1", "append2"} => flash'[Where(w)].hdr = flash[Where(w)].hdr
           /\ session[w].pc = "header" => flash'[Where(w)] \in HalfCommitted(flash[Where(w)], session[w].seq, session[w].val)
           /\ session[w].pc = "served" => flash' = flash
<1> DEFINE s == session[w]
           t == Where(w)
           left == CASE s.pc = "erase" -> HalfErased(flash[s.target])
                     [] s.pc = "append1" -> HalfAppended(flash[s.target], 1, s.val)
                     [] s.pc = "append2" -> HalfAppended(flash[s.target], 2, s.val)
                     [] s.pc = "header" -> HalfCommitted(flash[s.target], s.seq, s.val)
                     [] s.pc = "stale" -> HalfErased(flash[s.stale])
                     [] OTHER -> {flash[s.target]}
<1>1. PICK k \in left : flash' = [flash EXCEPT ![t] = k]
  BY DEF Interrupted, Where
<1>a. /\ s.target \in Bank /\ s.val \in Value /\ s.seq \in 1 .. MaxSeq
      /\ s.pc = "stale" => s.stale = 1 - s.target
  BY ActiveSession DEF SessionOK
<1>b. s.pc \in SessionPc /\ flash \in [Bank -> BankRecord]
  BY FlashFacts DEF IInv, SliceTypeOK
<1>c. t \in Bank
  BY <1>a, OtherBank DEF Where
<1>2. /\ t \in Bank /\ s.target \in Bank /\ s.val \in Value /\ s.seq \in 1 .. MaxSeq /\ s.pc \in SessionPc
      /\ flash \in [Bank -> BankRecord] /\ flash[t] \in BankRecord
      /\ s.pc = "stale" => s.stale = 1 - s.target
  BY <1>a, <1>b, <1>c
<1>3. /\ s.pc \in {"erase", "stale"} => k \in HalfErased(flash[t])
      /\ s.pc = "append1" => k \in HalfAppended(flash[t], 1, s.val)
      /\ s.pc = "append2" => k \in HalfAppended(flash[t], 2, s.val)
      /\ s.pc = "header" => k \in HalfCommitted(flash[t], s.seq, s.val)
      /\ s.pc = "served" => k = flash[t]
  BY <1>1, <1>2 DEF Where
<1> HIDE DEF left, t
<1>4. k \in BankRecord /\ (s.pc \in {"append1", "append2"} => k.hdr = flash[t].hdr)
  <2>1. s.pc \in {"erase", "stale"} => k \in BankRecord
    BY <1>2, <1>3, HalfErasedFacts
  <2>2. s.pc \in {"append1", "append2"} => k \in BankRecord /\ k.hdr = flash[t].hdr
    BY <1>2, <1>3, HalfAppendedFacts DEF Chunks
  <2>3. s.pc = "header" => k \in BankRecord
    BY <1>2, <1>3, HalfCommittedFacts
  <2>4. s.pc = "served" => k \in BankRecord
    BY <1>2, <1>3
  <2> QED
    BY <1>2, <2>1, <2>2, <2>3, <2>4 DEF SessionPc
<1>5. flash'[t] = k /\ flash'[1 - t] = flash[1 - t] /\ flash' \in [Bank -> BankRecord]
  BY <1>1, <1>2, <1>4, OtherBank
<1>6. s.pc = "served" => flash' = flash
  BY <1>1, <1>2, <1>3
<1> QED
  BY <1>2, <1>3, <1>4, <1>5, <1>6 DEF t

LEMMA InterruptedSpoils ==
    ASSUME IInv, NEW w \in Writers, session[w].pc \notin {"idle", "served"}, flash' \in Interrupted(w),
           session[w].pc = "header" => ~Good(flash'[session[w].target]), erased' \in {None, erased}
    PROVE  Spoils(Where(w))
<1> DEFINE s == session[w]
           t == Where(w)
           n == flash'[t]
           b == flash[t]
<1>1. /\ t \in Bank /\ flash' \in [Bank -> BankRecord] /\ flash'[1 - t] = flash[1 - t]
      /\ s.pc \in {"erase", "stale"} => n \in HalfErased(b)
      /\ s.pc \in {"append1", "append2"} => n.hdr = b.hdr
      /\ s.pc = "header" => n \in HalfCommitted(b, s.seq, s.val)
  BY InterruptedFacts
<1>2. /\ SessionOK(s) /\ loaded /\ ~InWindow /\ s.target \in Bank /\ s.val \in Value
      /\ s.seq \in 1 .. MaxSeq /\ s.pc \in SessionPc \ {"idle", "served"}
  <2>1. s.pc \in SessionPc
    BY DEF IInv, SliceTypeOK
  <2> QED
    BY <2>1, ActiveSession
<1>3. t = IF s.pc = "stale" THEN 1 - s.target ELSE s.target
  BY <1>2 DEF Where, SessionOK
<1>4. b \in BankRecord /\ n \in BankRecord
  BY <1>1, FlashFacts DEF IInv
<1>5. served.bank \in {None, 1 - t}
  BY <1>2, <1>3, OtherBank DEF SessionOK, SessionPc
<1>6. erased' # None => flash'[erased'] = BlankBank
  <2> SUFFICES ASSUME erased' # None PROVE flash'[erased] = BlankBank /\ erased' = erased
    OBVIOUS
  <2>1. erased' = erased /\ erased # None /\ erased \in Bank /\ flash[erased] = BlankBank
    BY DEF IInv, FlashInv, SliceTypeOK
  <2>2. s.pc = "erase" /\ erased # t
    BY <1>2, <1>3, <2>1 DEF SessionOK
  <2> QED
    BY <1>1, <2>1, <2>2, OtherBank
<1> HIDE DEF t, n, b, s
<1>7. CASE s.pc \in {"erase", "stale"}
  <2>1. /\ n = b \/ ~Good(n)
        /\ n.hdr.crc \in Value => n.hdr = b.hdr
        /\ n.hdr.seq \in {0, b.hdr.seq}
    BY <1>1, <1>4, <1>7, HalfErasedFacts
  <2> QED
    BY <1>1, <1>2, <1>5, <1>6, <2>1 DEF Spoils, t, n, b
<1>8. CASE s.pc \in {"append1", "append2"}
  <2>1. n.hdr = NoHeader /\ b.hdr = NoHeader
    BY <1>1, <1>2, <1>3, <1>8, BlankFacts DEF SessionOK, b
  <2>2. ~Good(n) /\ n.hdr.crc \notin Value /\ n.hdr.seq = 0
    BY <1>4, <2>1, GoodFacts, PlainHeaders
  <2> QED
    BY <1>1, <1>2, <1>5, <1>6, <2>2 DEF Spoils, t, n, b
<1>9. CASE s.pc = "header"
  <2>1. /\ b.hdr = NoHeader /\ (\A i \in Chunks : b.body[i] = s.val) /\ s.seq > flash[1 - t].hdr.seq
    BY <1>2, <1>3, <1>9 DEF SessionOK, b
  <2>2. ~Good(n)
    BY <1>3, <1>9 DEF n, s
  <2>3. /\ n.body = b.body
        /\ n.hdr = b.hdr \/ n.hdr = TornHeader \/ n.hdr = [seq |-> s.seq, crc |-> BadCrc]
           \/ n.hdr = [seq |-> s.seq, crc |-> s.val]
    BY <1>1, <1>2, <1>4, <1>9, HalfCommittedFacts, SMT
  <2>4. n.hdr # [seq |-> s.seq, crc |-> s.val]
    BY <1>2, <1>4, <2>1, <2>2, <2>3, GoodFacts, SMT DEF IsCandidate, Chunks
  <2>5. BadCrc \notin Value
    BY SliceStoreAssumption
  <2>6. n.hdr.crc \notin Value /\ (n.hdr.seq = 0 \/ n.hdr.seq = s.seq)
    BY <2>1, <2>3, <2>4, <2>5, PlainHeaders, SMT
  <2> QED
    BY <1>1, <1>2, <1>5, <1>6, <2>1, <2>2, <2>6 DEF Spoils, t, n, b
<1> QED
  BY <1>2, <1>7, <1>8, <1>9 DEF SessionPc

\* The end of the only session leaves all idle.
LEMMA SessionEnds ==
    ASSUME IInv, NEW w \in Writers, session[w].pc # "idle", Ends(w)
    PROVE  /\ ClaimInv' /\ SessionInv' /\ ~InWindow' /\ writing' = FALSE
           /\ session' \in [Writers -> [pc : SessionPc, target : Bank, stale : Bank \cup {None},
                                        seq : 1..MaxSeq, val : Value \cup {None}]]
<1>1. \A x \in Writers : session'[x] = NoSession /\ session'[x].pc = "idle"
  BY ActiveSession DEF Ends, NoSession, IInv, SliceTypeOK
<1>2. NoSession \in [pc : SessionPc, target : Bank, stale : Bank \cup {None},
                     seq : 1..MaxSeq, val : Value \cup {None}]
  BY SliceStoreAssumption, SMT DEF NoSession, SessionPc, Bank
<1>3. session' \in [Writers -> [pc : SessionPc, target : Bank, stale : Bank \cup {None},
                                seq : 1..MaxSeq, val : Value \cup {None}]]
  BY <1>2 DEF Ends, IInv, SliceTypeOK
<1> QED
  BY <1>1, <1>3 DEF ClaimInv, SessionInv, InWindow, Ends

\* The session goes on; the others stay idle.
LEMMA SessionGoesOn ==
    ASSUME IInv, NEW w \in Writers, session[w].pc # "idle", NEW pc \in SessionPc \ {"idle"}, Step(w, pc),
           UNCHANGED <<writing, loaded>>
    PROVE  /\ ClaimInv' /\ (InWindow' <=> pc = "served")
           /\ session' \in [Writers -> [pc : SessionPc, target : Bank, stale : Bank \cup {None},
                                        seq : 1..MaxSeq, val : Value \cup {None}]]
           /\ session'[w].pc = pc /\ session'[w].target = session[w].target
           /\ session'[w].stale = session[w].stale /\ session'[w].seq = session[w].seq
           /\ session'[w].val = session[w].val
           /\ SessionOK(session[w])' => SessionInv'
<1> USE DEF IInv, SliceTypeOK
<1>1. /\ session'[w].pc = pc /\ session'[w].target = session[w].target
      /\ session'[w].stale = session[w].stale /\ session'[w].seq = session[w].seq
      /\ session'[w].val = session[w].val
      /\ \A x \in Writers : x # w => session'[x] = session[x]
  BY DEF Step
<1>2. \A x \in Writers : x # w => session'[x] = NoSession /\ session'[x].pc = "idle"
  BY <1>1, ActiveSession, SMT
<1>3. session' \in [Writers -> [pc : SessionPc, target : Bank, stale : Bank \cup {None},
                                seq : 1..MaxSeq, val : Value \cup {None}]]
  BY DEF Step
<1>4. ClaimInv'
  BY <1>1, <1>2, ActiveSession, SMT DEF ClaimInv
<1> QED
  BY <1>1, <1>2, <1>3, <1>4 DEF InWindow, SessionInv

----------------------------------------------------------------------------
LEMMA NextRecovered ==
    ASSUME flash' \in [Bank -> BankRecord], FlashInv'
    PROVE  Recovered' = RecoveredOf(flash') /\ Recovered' \in Value \cup {None}
<1>1. Recovered' = RecoveredOf(flash')
  BY DEF Recovered, RecoveredOf, GoodBanks, GoodOf
<1> QED
  BY <1>1, RecoveredFacts DEF FlashInv

\* All but the session: a step that spoils bank t beside a load.
LEMMA SpoilingStep ==
    ASSUME IInv, NEW t \in Bank, Spoils(t), UNCHANGED <<served, loaded>>, Watch(FALSE),
           erased' \in Bank \cup {None}, writing' \in BOOLEAN, flashFaults' \in 0 .. MaxFlashFaults,
           session' \in [Writers -> [pc : SessionPc, target : Bank, stale : Bank \cup {None},
                                     seq : 1..MaxSeq, val : Value \cup {None}]],
           allowed' = allowed \/ (served.bank = 1 - t /\ allowed' = {flash[1 - t].hdr.crc})
    PROVE  SliceTypeOK' /\ Shape' /\ FlashInv' /\ ServedInv' /\ ReaderInv'
<1>1. FlashInv' /\ flash' \in [Bank -> BankRecord]
  BY SpoiledFlash DEF Spoils
<1>2. Recovered' \in Value \cup {None}
  BY <1>1, NextRecovered
<1>3. Shape' /\ SameReader
  BY <1>2, WatchFacts DEF IInv
<1>4. ServedInv'
  BY SpoiledServed
<1>5. ReaderInv'
  BY <1>3, SpoiledReader
<1>6. allowed' \subseteq Value \cup {None}
  <2>1. CASE allowed' = allowed
    BY <2>1 DEF IInv, SliceTypeOK
  <2>2. CASE served.bank = 1 - t /\ allowed' = {flash[1 - t].hdr.crc}
    BY <2>2, SpoiledBanks, FlashFacts, OtherBank, SMT DEF IInv
  <2> QED
    BY <2>1, <2>2
<1>7. reader'.pc \in {"idle", "header", "chunk1", "chunk2"}
  BY <1>3 DEF Shape
<1>8. SliceTypeOK'
  BY <1>1, <1>6, <1>7 DEF IInv, SliceTypeOK, BankRecord
<1> QED
  BY <1>1, <1>3, <1>4, <1>5, <1>8

LEMMA FailStep ==
    ASSUME IInv, NEW w \in Writers, Fail(w) PROVE IInv' /\ \E t \in Bank : Spoils(t)
<1> DEFINE s == session[w]
<1>0. flashFaults' \in 0 .. MaxFlashFaults
  <2>1. flashFaults \in 0 .. MaxFlashFaults /\ MaxFlashFaults \in Nat
    BY SliceStoreAssumption DEF IInv, SliceTypeOK
  <2>2. flashFaults < MaxFlashFaults /\ flashFaults' = flashFaults + 1
    BY DEF Fail
  <2> QED
    BY <2>1, <2>2, SMT
<1>1. /\ s.pc \in {"erase", "append1", "append2", "header", "stale"}
      /\ flash' \in Interrupted(w) /\ (s.pc = "header" => ~Good(flash'[s.target]))
      /\ allowed' = IF s.pc = "stale" THEN {s.val} ELSE allowed
      /\ Ends(w) /\ Watch(FALSE) /\ UNCHANGED <<served, erased, loaded>>
  BY DEF Fail
<1>2. Spoils(Where(w)) /\ Where(w) \in Bank
  BY <1>1, InterruptedSpoils, InterruptedFacts
<1>3. allowed' = allowed \/ (served.bank = 1 - Where(w) /\ allowed' = {flash[1 - Where(w)].hdr.crc})
  <2>1. CASE s.pc = "stale"
    <3>1. /\ s.stale = 1 - s.target /\ served.bank = s.target /\ s.target \in Bank
          /\ flash[s.target].hdr = [seq |-> s.seq, crc |-> s.val]
      BY <2>1, ActiveSession DEF SessionOK
    <3>2. 1 - Where(w) = s.target
      BY <2>1, <3>1, OtherBank DEF Where
    <3> QED
      BY <1>1, <2>1, <3>1, <3>2, SMT
  <2> QED
    BY <1>1, <2>1
<1>4. /\ ClaimInv' /\ SessionInv' /\ writing' = FALSE
      /\ session' \in [Writers -> [pc : SessionPc, target : Bank, stale : Bank \cup {None},
                                   seq : 1..MaxSeq, val : Value \cup {None}]]
  BY <1>1, SessionEnds
<1>5. erased' \in Bank \cup {None}
  BY <1>1 DEF IInv, SliceTypeOK
<1>20. IInv'
  BY <1>0, <1>1, <1>2, <1>3, <1>4, <1>5, SpoilingStep DEF IInv
<1> QED
  BY <1>20, <1>2

LEMMA EraseStaleStep ==
    ASSUME IInv, NEW w \in Writers, EraseStale(w) PROVE IInv' /\ \E t \in Bank : Spoils(t)
<1> DEFINE s == session[w]
           t == s.stale
<1>1. /\ s.pc = "stale" /\ flash' = [flash EXCEPT ![t] = BlankBank] /\ erased' = t
      /\ allowed' = {s.val} /\ Ends(w) /\ Watch(FALSE) /\ UNCHANGED <<served, loaded, flashFaults>>
  BY DEF EraseStale
<1>2. /\ t \in Bank /\ 1 - t = s.target /\ served.bank = s.target /\ loaded /\ ~InWindow
      /\ flash[s.target].hdr = [seq |-> s.seq, crc |-> s.val]
  BY <1>1, ActiveSession, OtherBank, SMT DEF SessionOK
<1>3. /\ flash' \in [Bank -> BankRecord] /\ flash'[1 - t] = flash[1 - t] /\ flash'[t] = BlankBank
  BY <1>1, <1>2, BlankFacts, FlashFacts, OtherBank DEF IInv
<1>4. Spoils(t)
  BY <1>1, <1>2, <1>3, BlankFacts, PlainHeaders DEF Spoils
<1>5. served.bank = 1 - t /\ allowed' = {flash[1 - t].hdr.crc}
  BY <1>1, <1>2, SMT
<1>6. /\ ClaimInv' /\ SessionInv' /\ writing' = FALSE
      /\ session' \in [Writers -> [pc : SessionPc, target : Bank, stale : Bank \cup {None},
                                   seq : 1..MaxSeq, val : Value \cup {None}]]
  BY <1>1, SessionEnds
<1>7. flashFaults' \in 0 .. MaxFlashFaults
  BY <1>1 DEF IInv, SliceTypeOK
<1>20. IInv'
  BY <1>1, <1>2, <1>4, <1>5, <1>6, <1>7, SpoilingStep DEF IInv
<1> QED
  BY <1>20, <1>2, <1>4

LEMMA EraseTargetStep ==
    ASSUME IInv, NEW w \in Writers, EraseTarget(w) PROVE IInv' /\ \E t \in Bank : Spoils(t)
<1> DEFINE s == session[w]
           t == s.target
<1>1. /\ s.pc = "erase" /\ flash' = [flash EXCEPT ![t] = BlankBank] /\ erased' = None
      /\ Step(w, "append1") /\ Watch(FALSE)
      /\ UNCHANGED <<served, writing, loaded, allowed, flashFaults>>
  BY DEF EraseTarget
<1>2. t \in Bank /\ served.bank \in {None, 1 - t} /\ loaded /\ ~InWindow /\ SessionOK(s)
  BY <1>1, ActiveSession DEF SessionOK
<1>3. /\ flash' \in [Bank -> BankRecord] /\ flash'[1 - t] = flash[1 - t] /\ flash'[t] = BlankBank
  BY <1>1, <1>2, BlankFacts, FlashFacts, OtherBank DEF IInv
<1>4. Spoils(t)
  BY <1>1, <1>2, <1>3, BlankFacts, PlainHeaders DEF Spoils
<1>5. /\ ClaimInv' /\ (SessionOK(session[w])' => SessionInv')
      /\ session' \in [Writers -> [pc : SessionPc, target : Bank, stale : Bank \cup {None},
                                   seq : 1..MaxSeq, val : Value \cup {None}]]
      /\ session'[w].pc = "append1" /\ session'[w].target = t /\ session'[w].stale = s.stale
      /\ session'[w].seq = s.seq /\ session'[w].val = s.val
  BY <1>1, SessionGoesOn DEF SessionPc
<1>6. SessionOK(session[w])'
  BY <1>1, <1>2, <1>3, <1>5 DEF SessionOK
<1>7. flashFaults' \in 0 .. MaxFlashFaults /\ writing' \in BOOLEAN
  BY <1>1 DEF IInv, SliceTypeOK
<1>20. IInv'
  BY <1>1, <1>2, <1>4, <1>5, <1>6, <1>7, SpoilingStep DEF IInv
<1> QED
  BY <1>20, <1>2, <1>4

LEMMA AppendChunkStep ==
    ASSUME IInv, NEW w \in Writers, AppendChunk(w) PROVE IInv' /\ \E t \in Bank : Spoils(t)
<1> DEFINE s == session[w]
           t == s.target
           i == IF s.pc = "append1" THEN 1 ELSE 2
           pc == IF i = 1 THEN "append2" ELSE "header"
<1>1. /\ s.pc \in {"append1", "append2"} /\ flash' = [flash EXCEPT ![t].body[i] = Program(@, s.val)]
      /\ Step(w, pc) /\ Watch(FALSE) /\ UNCHANGED <<served, erased, writing, loaded, allowed, flashFaults>>
  BY DEF AppendChunk
<1>2. /\ t \in Bank /\ served.bank \in {None, 1 - t} /\ loaded /\ ~InWindow /\ SessionOK(s)
      /\ s.val \in Value /\ erased = None
  BY <1>1, ActiveSession DEF SessionOK
<1>3. /\ flash[t] \in BankRecord /\ flash[t].hdr = NoHeader /\ flash[t].body[i] = Blank
      /\ s.pc = "append2" => flash[t].body[1] = s.val
  <2>1. flash[t] \in BankRecord
    BY <1>2, FlashFacts DEF IInv
  <2>2. s.pc = "append1" => flash[t] = BlankBank
    BY <1>2 DEF SessionOK
  <2>3. s.pc = "append2" => /\ flash[t].hdr = NoHeader /\ flash[t].body[1] = s.val
                            /\ flash[t].body[2] = Blank
    BY <1>2 DEF SessionOK
  <2> QED
    BY <1>1, <2>1, <2>2, <2>3, BlankFacts DEF Chunks
<1> DEFINE n == [flash[t] EXCEPT !.body[i] = s.val]
<1>4. flash' = [flash EXCEPT ![t] = n]
  BY <1>1, <1>3 DEF Program
<1>5. /\ n \in BankRecord /\ n.hdr = NoHeader /\ n.body[i] = s.val
      /\ \A j \in Chunks : j # i => n.body[j] = flash[t].body[j]
  BY <1>2, <1>3 DEF BankRecord, Chunks, Cells
<1>6. /\ flash' \in [Bank -> BankRecord] /\ flash'[1 - t] = flash[1 - t] /\ flash'[t] = n
  BY <1>2, <1>4, <1>5, FlashFacts, OtherBank DEF IInv
<1>7. Spoils(t)
  <2>1. ~Good(n) /\ n.hdr.crc \notin Value /\ n.hdr.seq = 0
    BY <1>5, GoodFacts, PlainHeaders
  <2> HIDE DEF n
  <2> QED
    BY <1>1, <1>2, <1>6, <2>1 DEF Spoils
<1>8. pc \in SessionPc \ {"idle"} /\ pc # "served"
  BY DEF SessionPc
<1> HIDE DEF pc
<1>9. /\ ClaimInv' /\ (SessionOK(session[w])' => SessionInv')
      /\ session' \in [Writers -> [pc : SessionPc, target : Bank, stale : Bank \cup {None},
                                   seq : 1..MaxSeq, val : Value \cup {None}]]
      /\ session'[w].pc = pc /\ session'[w].target = t /\ session'[w].stale = s.stale
      /\ session'[w].seq = s.seq /\ session'[w].val = s.val
  BY <1>1, <1>8, SessionGoesOn
<1>10. SessionOK(session[w])'
  <2>1. pc = "append2" => n.body[1] = s.val /\ n.body[2] = Blank
    <3>1. pc = "append2" => i = 1 /\ s.pc = "append1"
      BY <1>1, SMT DEF pc
    <3>2. s.pc = "append1" => flash[t].body[2] = Blank
      BY <1>2, BlankFacts DEF SessionOK, Chunks
    <3>3. i = 1 => n.body[2] = flash[t].body[2]
      BY <1>5, SMT DEF Chunks
    <3> QED
      BY <1>5, <3>1, <3>2, <3>3
  <2>2. pc = "header" => \A j \in Chunks : n.body[j] = s.val
    BY <1>1, <1>3, <1>5 DEF pc, Chunks
  <2>3. pc \in {"append2", "header"}
    BY DEF pc
  <2> HIDE DEF n
  <2> QED
    BY <1>1, <1>2, <1>5, <1>6, <1>9, <2>1, <2>2, <2>3 DEF SessionOK
<1>11. flashFaults' \in 0 .. MaxFlashFaults /\ writing' \in BOOLEAN /\ erased' = None
  BY <1>1, <1>2 DEF IInv, SliceTypeOK
<1>20. IInv'
  BY <1>1, <1>2, <1>7, <1>9, <1>10, <1>11, SpoilingStep DEF IInv
<1> QED
  BY <1>20, <1>2, <1>7

LEMMA CommitHeaderStep == ASSUME IInv, NEW w \in Writers, CommitHeader(w) PROVE IInv'
<1> DEFINE s == session[w]
           t == s.target
           h == [seq |-> s.seq, crc |-> s.val]
           n == [flash[t] EXCEPT !.hdr = h]
<1>1. /\ s.pc = "header" /\ allowed' = allowed \cup {s.val} /\ Step(w, "served") /\ Watch(TRUE)
      /\ UNCHANGED <<served, erased, writing, loaded, flashFaults>>
  BY DEF CommitHeader
<1>2. /\ t \in Bank /\ served.bank \in {None, 1 - t} /\ loaded /\ ~InWindow /\ SessionOK(s)
      /\ s.val \in Value /\ erased = None /\ s.seq \in 1 .. MaxSeq /\ s.seq > flash[1 - t].hdr.seq
      /\ flash[t].hdr = NoHeader /\ \A i \in Chunks : flash[t].body[i] = s.val
  BY <1>1, ActiveSession DEF SessionOK
<1>3. flash' = [flash EXCEPT ![t] = n]
  BY <1>2 DEF CommitHeader
<1>4. h \in Headers /\ h.seq = s.seq /\ h.crc = s.val /\ IsCandidate(h)
  BY <1>2, NewHeader
<1> HIDE DEF h
<1>5. n \in BankRecord /\ n.hdr = h /\ Good(n)
  <2>1. flash[t] \in BankRecord
    BY <1>2, FlashFacts DEF IInv
  <2>2. n \in BankRecord /\ n.hdr = h /\ n.body = flash[t].body
    BY <1>4, <2>1 DEF BankRecord
  <2> QED
    BY <1>2, <1>4, <2>2 DEF Good
<1> HIDE DEF n
<1>6. /\ flash' \in [Bank -> BankRecord] /\ flash'[1 - t] = flash[1 - t] /\ flash'[t] = n
      /\ 1 - t \in Bank /\ 1 - (1 - t) = t /\ \A k \in Bank : k = t \/ k = 1 - t
  BY <1>2, <1>3, <1>5, FlashFacts, OtherBank DEF IInv
<1>7. ~Good(flash[t]) /\ flash[1 - t].hdr.seq \in Nat
  BY <1>2, <1>6, FlashFacts, PlainHeaders DEF IInv
<1>8. /\ flash[1 - t].hdr.crc \in Value => Good(flash[1 - t])
      /\ Good(flash[1 - t]) => served.bank = 1 - t /\ flash[1 - t].hdr.crc \in allowed
  <2>1. flash[1 - t].hdr.crc \in Value => Good(flash[1 - t])
    BY <1>6, <1>7 DEF IInv, FlashInv
  <2>2. Good(flash[1 - t]) => served.bank = 1 - t
    BY <1>2, <1>6 DEF IInv, ServedInv, GoodBanks
  <2>3. served.bank = 1 - t => flash[1 - t].hdr.crc \in allowed
    BY <1>6, OtherBank DEF IInv, ServedInv
  <2> QED
    BY <2>1, <2>2, <2>3
<1>9. /\ ClaimInv' /\ (SessionOK(session[w])' => SessionInv') /\ InWindow'
      /\ session' \in [Writers -> [pc : SessionPc, target : Bank, stale : Bank \cup {None},
                                   seq : 1..MaxSeq, val : Value \cup {None}]]
      /\ session'[w].pc = "served" /\ session'[w].target = t /\ session'[w].stale = s.stale
      /\ session'[w].seq = s.seq /\ session'[w].val = s.val
  BY <1>1, SessionGoesOn DEF SessionPc
<1>10. FlashInv'
  <2>1. n.hdr.seq # flash[1 - t].hdr.seq /\ n.hdr.seq > flash[1 - t].hdr.seq
    BY <1>2, <1>4, <1>5, <1>7, SMT
  <2>2. flash'[0].hdr.seq # flash'[1].hdr.seq
    BY <1>2, <1>6, <2>1 DEF Bank
  <2>3. \A k \in Bank : flash'[k].hdr.crc \in Value => Good(flash'[k])
    BY <1>5, <1>6, <1>8
  <2> QED
    BY <1>1, <1>2, <2>2, <2>3 DEF FlashInv
<1>11. SessionOK(session[w])'
  BY <1>1, <1>2, <1>4, <1>5, <1>6, <1>8, <1>9 DEF SessionOK, h
<1>12. ServedInv'
  BY <1>1, <1>2, <1>6, <1>9 DEF IInv, ServedInv
<1>13. Shape' /\ SameReader
  BY <1>1, <1>6, <1>10, NextRecovered, WatchFacts DEF IInv
<1>14. ReaderInv'
  <2> SUFFICES ASSUME reader'.pc # "idle", \A k \in Read : Found(k), NEW k \in Read PROVE Found(k)'
    BY <1>1, <1>13, ReaderKept
  <2>1. reader'.found = reader.found /\ Read' = Read /\ k \in Bank
    BY <1>13 DEF SameReader, Read, Bank
  <2>2. CASE k = t
    BY <1>1, <1>2, <1>6, <1>7, <1>9, <2>1, <2>2 DEF Found
  <2>3. CASE k = 1 - t
    BY <1>1, <1>2, <1>6, <1>7, <1>9, <2>1, <2>3 DEF Found
  <2> QED
    BY <1>6, <2>1, <2>2, <2>3
<1>15. SliceTypeOK'
  <2>1. reader'.pc \in {"idle", "header", "chunk1", "chunk2"}
    BY <1>13 DEF Shape
  <2> QED
    BY <1>1, <1>2, <1>6, <1>9, <2>1 DEF IInv, SliceTypeOK, BankRecord
<1> QED
  BY <1>9, <1>10, <1>11, <1>12, <1>13, <1>14, <1>15 DEF IInv

LEMMA CommitServedStep == ASSUME IInv, NEW w \in Writers, CommitServed(w) PROVE IInv'
<1> DEFINE s == session[w]
           t == s.target
<1>1. /\ s.pc = "served" /\ served' = [bank |-> t, generation |-> served.generation + 1]
      /\ UNCHANGED <<flash, erased, reader, loaded, flashFaults>>
      /\ s.stale = None => Ends(w) /\ allowed' = {s.val}
      /\ s.stale # None => Step(w, "stale") /\ UNCHANGED <<writing, allowed>>
  BY DEF CommitServed, Committed
<1>2. /\ t \in Bank /\ loaded /\ SessionOK(s) /\ s.val \in Value /\ erased = None
      /\ s.seq \in 1 .. MaxSeq /\ s.seq > flash[1 - t].hdr.seq /\ s.val \in allowed
      /\ flash[t].hdr = [seq |-> s.seq, crc |-> s.val] /\ Good(flash[t]) /\ s.stale \in {None, 1 - t}
  BY <1>1, ActiveSession DEF SessionOK
<1>3. served.generation \in Nat /\ served'.bank = t /\ served'.generation = served.generation + 1
      /\ served' \in [bank : Bank \cup {None}, generation : Nat]
  <2>1. served.generation \in Nat
    BY DEF IInv, SliceTypeOK
  <2> QED
    BY <1>1, <1>2, <2>1, SMT
<1>4. /\ ClaimInv' /\ SessionInv' /\ ~InWindow' /\ writing' \in BOOLEAN
      /\ session' \in [Writers -> [pc : SessionPc, target : Bank, stale : Bank \cup {None},
                                   seq : 1..MaxSeq, val : Value \cup {None}]]
  <2>1. CASE s.stale = None
    BY <1>1, <2>1, SessionEnds
  <2>2. CASE s.stale # None
    <3>1. /\ ClaimInv' /\ (SessionOK(session[w])' => SessionInv') /\ ~InWindow'
          /\ session' \in [Writers -> [pc : SessionPc, target : Bank, stale : Bank \cup {None},
                                       seq : 1..MaxSeq, val : Value \cup {None}]]
          /\ session'[w].pc = "stale" /\ session'[w].target = t /\ session'[w].stale = s.stale
          /\ session'[w].seq = s.seq /\ session'[w].val = s.val
      BY <1>1, <2>2, SessionGoesOn DEF SessionPc
    <3>2. SessionOK(session[w])'
      BY <1>1, <1>2, <1>3, <2>2, <3>1 DEF SessionOK
    <3>3. writing' \in BOOLEAN
      BY <1>1, <2>2 DEF IInv, SliceTypeOK
    <3> QED
      BY <3>1, <3>2, <3>3
  <2> QED
    BY <2>1, <2>2
<1>5. s.val \in allowed' /\ allowed' \subseteq Value \cup {None}
  BY <1>1, <1>2 DEF IInv, SliceTypeOK
<1>6. ServedInv'
  <2>1. flash[t].hdr.seq = s.seq /\ flash[t].hdr.crc = s.val /\ flash[1 - t].hdr.seq \in Nat
    <3>1. 1 - t \in Bank
      BY <1>2, OtherBank
    <3>2. flash[1 - t].hdr.seq \in Nat
      BY <3>1, FlashFacts DEF IInv
    <3> HIDE DEF s, t
    <3> QED
      BY <1>2, <3>2, SMT
  <2>2. \A k \in Bank : flash[k].hdr.seq <= flash[t].hdr.seq
    <3> HIDE DEF s, t
    <3>1. \A k \in Bank : k = t \/ k = 1 - t
      BY <1>2, OtherBank
    <3>2. s.seq \in Nat /\ s.seq > flash[1 - t].hdr.seq
      BY <1>2, SMT
    <3>3. flash[t].hdr.seq <= flash[t].hdr.seq /\ flash[1 - t].hdr.seq <= flash[t].hdr.seq
      BY <2>1, <3>2, SMT
    <3> QED
      BY <3>1, <3>3
  <2>3. Newest(served.bank)'
    BY <1>1, <1>3, <2>2 DEF Newest, GoodBanks
  <2> QED
    BY <1>1, <1>2, <1>3, <1>5, <2>1, <2>3, OtherBank DEF ServedInv
<1>7. ReaderInv'
  <2>1. reader.pc # "idle" => reader.seen \in Nat /\ reader.seen <= served.generation
    BY DEF IInv, ReaderInv, Shape
  <2>2. reader.pc # "idle" => reader.seen <= served'.generation /\ reader.seen # served'.generation
    BY <1>3, <2>1, SMT
  <2>3. /\ reader' = reader /\ \A k \in Bank : InOrder(k)' <=> InOrder(k)
    BY <1>1 DEF InOrder
  <2> QED
    BY <2>2, <2>3 DEF IInv, ReaderInv
<1>8. SliceTypeOK' /\ Shape' /\ FlashInv'
  BY <1>1, <1>3, <1>4, <1>5 DEF IInv, SliceTypeOK, Shape, FlashInv
<1> QED
  BY <1>4, <1>6, <1>7, <1>8 DEF IInv

\* Nothing the load relies on moves.
LEMMA QuietReader ==
    ASSUME IInv, UNCHANGED <<flash, served, reader, loaded>>, InWindow' <=> InWindow PROVE ReaderInv'
<1>1. Read' = Read /\ (\A k \in Bank : InOrder(k)' <=> InOrder(k)) /\ \A k \in Read : Found(k)' <=> Found(k)
  BY DEF Read, InOrder, Found
<1> QED
  BY <1>1 DEF IInv, ReaderInv

LEMMA QuietServed ==
    ASSUME IInv, UNCHANGED <<flash, served, loaded, allowed>>, InWindow' <=> InWindow PROVE ServedInv'
<1>1. GoodBanks' = GoodBanks /\ (\A k \in Bank : Newest(k)' <=> Newest(k)) /\ Recovered' = Recovered
  BY SMT DEF GoodBanks, Newest, Recovered
<1> QED
  BY <1>1 DEF IInv, ServedInv, SliceTypeOK

LEMMA AbortStep == ASSUME IInv, NEW w \in Writers, Abort(w) PROVE IInv'
<1>1. /\ session[w].pc \in {"append1", "append2", "header"} /\ Ends(w)
      /\ UNCHANGED <<flash, served, erased, reader, loaded, allowed, flashFaults>>
  BY DEF Abort
<1>2. /\ ClaimInv' /\ SessionInv' /\ ~InWindow' /\ writing' = FALSE /\ ~InWindow
      /\ session' \in [Writers -> [pc : SessionPc, target : Bank, stale : Bank \cup {None},
                                   seq : 1..MaxSeq, val : Value \cup {None}]]
  BY <1>1, SessionEnds, ActiveSession
<1>3. ReaderInv' /\ ServedInv'
  BY <1>1, <1>2, QuietReader, QuietServed
<1>4. SliceTypeOK' /\ Shape' /\ FlashInv'
  BY <1>1, <1>2 DEF IInv, SliceTypeOK, Shape, FlashInv
<1> QED
  BY <1>2, <1>3, <1>4 DEF IInv

LEMMA BeginWriteStep == ASSUME IInv, NEW w \in Writers, NEW v \in Value, BeginWrite(w, v) PROVE IInv'
<1> DEFINE hdrs == [k \in Bank |-> flash[k].hdr]
<1>1. PICK order \in Candidates(hdrs) :
        LET newest == IF order = <<>> THEN None ELSE order[1]
            seq == IF newest = None THEN 1 ELSE flash[newest].hdr.seq + 1
            choice == ChooseBank(served.bank, newest)
            clean == erased = choice.target \/ flash[choice.target] = BlankBank
        IN /\ seq <= MaxSeq
           /\ session' = [session EXCEPT ![w] =
                [pc |-> IF clean THEN "append1" ELSE "erase", target |-> choice.target,
                 stale |-> choice.keep, seq |-> seq, val |-> v]]
           /\ erased' = IF clean THEN None ELSE erased
  BY DEF BeginWrite
<1>2. /\ loaded /\ session[w] = NoSession /\ ~writing /\ writing' = TRUE
      /\ UNCHANGED <<flash, served, reader, loaded, allowed, flashFaults>>
  BY DEF BeginWrite, Claim
<1> DEFINE newest == IF order = <<>> THEN None ELSE order[1]
           seq == IF newest = None THEN 1 ELSE flash[newest].hdr.seq + 1
           keep == IF served.bank # None THEN served.bank ELSE newest
           t == IF keep = None THEN 0 ELSE 1 - keep
           clean == erased = t \/ flash[t] = BlankBank
           s == [pc |-> IF clean THEN "append1" ELSE "erase", target |-> t, stale |-> keep,
                 seq |-> seq, val |-> v]
<1>3. /\ seq <= MaxSeq /\ session' = [session EXCEPT ![w] = s]
      /\ erased' = IF clean THEN None ELSE erased
  BY <1>1 DEF ChooseBank
<1>4. /\ \A k \in Bank : flash[k].hdr \in Headers /\ flash[k].hdr.seq \in Nat
      /\ hdrs \in [Bank -> Headers] /\ \A k \in Bank : hdrs[k] = flash[k].hdr
  BY FlashFacts DEF IInv
<1> HIDE DEF hdrs
<1>5. /\ newest = None => \A k \in Bank : ~IsCandidate(flash[k].hdr)
      /\ newest # None => newest \in Bank /\ \A k \in Bank : flash[k].hdr.seq <= flash[newest].hdr.seq
  <2>1. order = <<>> => \A k \in Bank : ~IsCandidate(hdrs[k])
    BY <1>4, CandidateFacts, SMT
  <2>2. order # <<>> => order[1] \in Bank /\ \A k \in Bank : hdrs[k].seq <= hdrs[order[1]].seq
    BY <1>4, CandidateFacts
  <2> QED
    BY <1>4, <2>1, <2>2, OtherBank
<1> HIDE DEF newest
<1>6. seq \in 1 .. MaxSeq /\ \A k \in Bank : flash[k].hdr.seq < seq
  <2>1. CASE newest = None
    BY <1>4, <1>5, <2>1, HeaderFacts, SliceStoreAssumption, SMT
  <2>2. CASE newest # None
    <3>1. newest \in Bank /\ flash[newest].hdr.seq \in Nat /\ seq = flash[newest].hdr.seq + 1
      BY <1>4, <1>5, <2>2
    <3>2. seq \in 1 .. MaxSeq
      BY <1>3, <3>1, SliceStoreAssumption, SMT
    <3>3. ASSUME NEW k \in Bank PROVE flash[k].hdr.seq < seq
      <4>1. flash[k].hdr.seq \in Nat /\ flash[k].hdr.seq <= flash[newest].hdr.seq
        BY <1>4, <1>5, <2>2
      <4> QED
        BY <3>1, <4>1, SMT
    <3> QED
      BY <3>2, <3>3
  <2> QED
    BY <2>1, <2>2
<1> HIDE DEF seq
<1>7. /\ keep \in Bank \cup {None} /\ t \in Bank /\ keep \in {None, 1 - t}
      /\ keep = None => newest = None
      /\ served.bank \in {None, 1 - t}
  <2>1. served.bank \in Bank \cup {None}
    BY DEF IInv, SliceTypeOK
  <2>2. keep \in Bank \cup {None} /\ (keep = None => newest = None)
    BY <1>5, <2>1
  <2>3. t \in Bank /\ keep \in {None, 1 - t}
    BY <2>2, OtherBank DEF Bank
  <2> QED
    BY <2>2, <2>3
<1> HIDE DEF keep, t
<1>8. clean => flash[t] = BlankBank
  BY <1>7, OtherBank DEF IInv, FlashInv
<1> HIDE DEF clean
<1>9. /\ s.pc = (IF clean THEN "append1" ELSE "erase") /\ s.target = t /\ s.stale = keep
      /\ s.seq = seq /\ s.val = v
      /\ s \in [pc : SessionPc, target : Bank, stale : Bank \cup {None},
                seq : 1..MaxSeq, val : Value \cup {None}]
  BY <1>6, <1>7 DEF SessionPc
<1> HIDE DEF s
<1>10. /\ session'[w] = s /\ \A x \in Writers : x # w => session'[x] = NoSession /\ session'[x].pc = "idle"
       /\ session' \in [Writers -> [pc : SessionPc, target : Bank, stale : Bank \cup {None},
                                    seq : 1..MaxSeq, val : Value \cup {None}]]
  <2>1. \A x \in Writers : session[x].pc = "idle" /\ session[x] = NoSession
    BY <1>2 DEF IInv, ClaimInv
  <2>2. session' \in [Writers -> [pc : SessionPc, target : Bank, stale : Bank \cup {None},
                                  seq : 1..MaxSeq, val : Value \cup {None}]]
    BY <1>3, <1>9 DEF IInv, SliceTypeOK
  <2> QED
    BY <1>3, <2>1, <2>2 DEF IInv, SliceTypeOK
<1>11. ~InWindow /\ ~InWindow'
  <2>1. ~InWindow
    BY <1>2 DEF IInv, ClaimInv, InWindow
  <2>2. s.pc # "served"
    BY <1>9
  <2> QED
    BY <1>10, <2>1, <2>2 DEF InWindow
<1>12. ClaimInv'
  BY <1>2, <1>9, <1>10 DEF ClaimInv
<1>13. SessionOK(session[w])'
  <2>1. 1 - t \in Bank /\ (keep = None => ~IsCandidate(flash[1 - t].hdr))
    BY <1>5, <1>7, OtherBank
  <2>2. ~clean => erased # t
    BY DEF clean
  <2>3. session'[w] = s /\ flash' = flash /\ served' = served
    BY <1>2, <1>10
  <2> QED
    BY <1>3, <1>6, <1>7, <1>8, <1>9, <2>1, <2>2, <2>3 DEF SessionOK
<1>14. SessionInv'
  BY <1>10, <1>13 DEF SessionInv
<1>15. ReaderInv' /\ ServedInv'
  BY <1>2, <1>11, QuietReader, QuietServed
<1>16. SliceTypeOK' /\ Shape' /\ FlashInv'
  BY <1>2, <1>3, <1>10 DEF IInv, SliceTypeOK, Shape, FlashInv
<1> QED
  BY <1>12, <1>14, <1>15, <1>16 DEF IInv

----------------------------------------------------------------------------
\* The load.
LEMMA OrderFacts ==
    ASSUME NEW o \in Orders, o # <<>>
    PROVE  /\ o[1] \in Bank /\ 1 \in DOMAIN o
           /\ Tail(o) \in Orders /\ Len(Tail(o)) # 2
           /\ \A k \in Bank : (\E i \in DOMAIN o : o[i] = k) /\ k # o[1] => Len(o) = 2 /\ o[2] = k
           /\ \A k \in Bank : (\E i \in DOMAIN Tail(o) : Tail(o)[i] = k) => \E i \in DOMAIN o : o[i] = k
           /\ \A k \in Bank : (\E i \in DOMAIN o : o[i] = k) /\ k # o[1] => \E i \in DOMAIN Tail(o) : Tail(o)[i] = k
           /\ Len(o) = 1 \/ Len(o) = 2
<1>1. CASE \E a \in Bank : o = <<a>>
  <2>1. PICK a \in Bank : o = <<a>>
    BY <1>1
  <2>2. Tail(o) = <<>> /\ Len(o) = 1 /\ o[1] = a /\ DOMAIN o = {1}
    BY <2>1, SMT
  <2> QED
    BY <2>1, <2>2, SMT DEF Orders
<1>2. CASE \E a \in Bank : o = <<a, 1 - a>>
  <2>1. PICK a \in Bank : o = <<a, 1 - a>>
    BY <1>2
  <2>2. Tail(o) = <<1 - a>> /\ Len(o) = 2 /\ o[1] = a /\ o[2] = 1 - a /\ DOMAIN o = {1, 2}
    BY <2>1, SMT
  <2>3. <<1 - a>> \in Orders /\ DOMAIN <<1 - a>> = {1} /\ Len(<<1 - a>>) = 1 /\ <<1 - a>>[1] = 1 - a
    BY SMT DEF Orders, Bank
  <2> QED
    BY <2>1, <2>2, <2>3, SMT
<1> QED
  BY <1>1, <1>2, SMT DEF Orders, Bank

LEMMA FreshHeader ==
    ASSUME IInv, NEW k \in Bank, flash[k].hdr.crc \in Value, ~Good(flash[k])
    PROVE  /\ Good(flash[1 - k]) /\ flash[1 - k].hdr.seq > flash[k].hdr.seq
           /\ served.bank \in {None, 1 - k} /\ (loaded => served.bank = 1 - k)
<1>1. Good(flash[1 - k]) /\ flash[1 - k].hdr.seq > flash[k].hdr.seq /\ 1 - k \in Bank
  BY OtherBank DEF IInv, FlashInv
<1>2. ~InWindow
  <2> SUFFICES ASSUME NEW w \in Writers, session[w].pc = "served" PROVE FALSE
    BY DEF InWindow
  <2> DEFINE t == session[w].target
  <2>1. t \in Bank /\ Good(flash[t]) /\ (flash[1 - t].hdr.crc \in Value => Good(flash[1 - t]))
    BY ActiveSession DEF SessionOK
  <2> QED
    BY <2>1, OtherBank
<1>3. served.bank \in Bank \cup {None} /\ (served.bank # None => Good(flash[served.bank]) /\ loaded)
      /\ (loaded /\ served.bank = None => GoodBanks = {})
  BY <1>2 DEF IInv, ServedInv, SliceTypeOK
<1> QED
  BY <1>1, <1>3, OtherBank DEF GoodBanks

\* The bank at the head of a load that no commit has passed still holds what
\* its header said, if that was a content.
LEMMA HeadIsGood ==
    ASSUME IInv, reader.pc \in {"chunk1", "chunk2"}, reader.seen = served.generation,
           reader.order # <<>>, reader.found[reader.order[1]].crc \in Value
    PROVE  LET b == reader.order[1]
           IN  b \in Bank /\ reader.found[b] = flash[b].hdr /\ Good(flash[b])
<1> DEFINE b == reader.order[1]
<1>1. /\ b \in Bank /\ 1 - b \in Bank /\ 1 - b # b
      /\ InOrder(1 - b) => Len(reader.order) = 2 /\ reader.order[2] = 1 - b
  <2>1. reader.order \in Orders
    BY DEF IInv, Shape
  <2>2. b \in Bank /\ 1 - b \in Bank /\ 1 - b # b
    BY <2>1, OrderFacts, OtherBank
  <2> QED
    BY <2>1, <2>2, OrderFacts DEF InOrder
<1>2. /\ Found(b) /\ (InOrder(1 - b) \/ reader.found[1 - b].crc \notin Value) /\ 1 - b \in Read
      /\ Len(reader.order) = 2 => reader.found[b].seq >= reader.found[reader.order[2]].seq
  BY <1>1 DEF IInv, ReaderInv, Read
<1>3. /\ reader.found[b].seq \in Nat /\ flash[1 - b].hdr.seq \in Nat
      /\ Good(flash[1 - b]) => flash[1 - b].hdr.crc \in Value
  BY <1>1, HeaderFacts, FlashFacts DEF IInv, Shape
<1>4. ASSUME Good(flash[1 - b]), flash[1 - b].hdr.seq > reader.found[b].seq,
             reader.found[1 - b] = flash[1 - b].hdr
      PROVE  FALSE
  <2>1. reader.found[b].seq >= flash[1 - b].hdr.seq
    BY <1>1, <1>2, <1>3, <1>4
  <2> QED
    BY <1>3, <1>4, <2>1, SMT
<1> QED
  BY <1>1, <1>2, <1>4 DEF Found

\* Unless a commit is between its header and its served word, that bank is the
\* newest good one, and the one already served.
LEMMA HeadIsNewest ==
    ASSUME IInv, reader.pc \in {"chunk1", "chunk2"}, reader.seen = served.generation,
           reader.order # <<>>, reader.found[reader.order[1]].crc \in Value, ~InWindow
    PROVE  Newest(reader.order[1]) /\ (loaded => served.bank = reader.order[1])
<1> DEFINE b == reader.order[1]
<1>1. b \in Bank /\ reader.found[b] = flash[b].hdr /\ Good(flash[b])
  BY HeadIsGood
<1>2. /\ 1 - b \in Bank /\ 1 - b # b /\ \A k \in Bank : k = b \/ k = 1 - b
      /\ InOrder(1 - b) => Len(reader.order) = 2 /\ reader.order[2] = 1 - b
  BY <1>1, OrderFacts, OtherBank, SMT DEF IInv, Shape, InOrder
<1>3. \A k \in Bank : flash[k].hdr.seq \in Nat /\ (Good(flash[k]) => flash[k].hdr.crc \in Value)
  BY FlashFacts DEF IInv
<1>4. Good(flash[1 - b]) => flash[1 - b].hdr.seq <= flash[b].hdr.seq
  <2> SUFFICES ASSUME Good(flash[1 - b]) PROVE flash[1 - b].hdr.seq <= flash[b].hdr.seq
    OBVIOUS
  <2>1. reader.found[1 - b] = flash[1 - b].hdr
    BY <1>2 DEF IInv, ReaderInv, Read, Found
  <2>2. InOrder(1 - b)
    BY <1>2, <1>3, <2>1 DEF IInv, ReaderInv
  <2>3. reader.found[b].seq >= reader.found[1 - b].seq
    BY <1>2, <2>2 DEF IInv, ReaderInv
  <2> QED
    BY <1>1, <1>2, <1>3, <2>1, <2>3
<1>5. Newest(b)
  BY <1>1, <1>2, <1>3, <1>4, SMT DEF Newest, GoodBanks
<1>6. loaded => served.bank = b
  <2> SUFFICES ASSUME loaded PROVE served.bank = b
    OBVIOUS
  <2> DEFINE c == served.bank
  <2>1. c \in Bank /\ Good(flash[c]) /\ Newest(c)
    BY <1>1 DEF IInv, ServedInv, SliceTypeOK, GoodBanks
  <2>2. flash[c].hdr.seq <= flash[b].hdr.seq /\ flash[b].hdr.seq <= flash[c].hdr.seq
    BY <1>1, <1>5, <2>1 DEF Newest, GoodBanks
  <2>3. c = 1 - b => flash[c].hdr.seq # flash[b].hdr.seq
    BY <1>1, <2>1, FlashFacts DEF IInv
  <2> HIDE DEF c
  <2>4. flash[c].hdr.seq = flash[b].hdr.seq
    BY <1>1, <1>3, <2>1, <2>2, SMT
  <2> QED
    BY <1>2, <2>1, <2>3, <2>4 DEF c
<1> QED
  BY <1>5, <1>6

\* A step of the load alone.
LEMMA ReaderAlone ==
    ASSUME IInv, UNCHANGED <<flash, served, erased, writing, session, loaded, allowed>>,
           flashFaults' \in 0 .. MaxFlashFaults, Shape', ReaderInv'
    PROVE  IInv'
<1>1. InWindow' <=> InWindow
  BY DEF InWindow
<1>2. ServedInv'
  BY <1>1, QuietServed
<1>3. ClaimInv' /\ FlashInv' /\ SessionInv'
  <2>1. ClaimInv'
    BY DEF IInv, ClaimInv
  <2>2. FlashInv'
    BY DEF IInv, FlashInv, Good, IsCandidate
  <2>3. ASSUME NEW w \in Writers, SessionOK(session[w]) PROVE SessionOK(session[w])'
    BY <2>3, SMT DEF SessionOK
  <2>4. SessionInv'
    BY <2>3 DEF IInv, SessionInv
  <2> QED
    BY <2>1, <2>2, <2>4
<1>4. SliceTypeOK'
  BY DEF IInv, SliceTypeOK, Shape
<1> QED
  BY <1>2, <1>3, <1>4 DEF IInv

LEMMA LoadBeginStep == ASSUME IInv, LoadBegin PROVE IInv'
<1> DEFINE found == [NoLoad.found EXCEPT ![0] = flash[0].hdr]
<1>1. /\ reader' = [pc |-> "header", seen |-> served.generation, found |-> found, order |-> <<>>,
                    chunk |-> None, result |-> None, overtaken |-> 0, current |-> {Recovered}]
      /\ UNCHANGED <<flash, served, erased, writing, session, loaded, allowed, flashFaults>>
  BY DEF LoadBegin, NoLoad
<1>2. found \in [Bank -> Headers] /\ found[0] = flash[0].hdr /\ 0 \in Bank /\ 1 - 0 = 1
  <2>1. 0 \in Bank /\ 1 - 0 = 1 /\ flash[0].hdr \in Headers
    BY FlashFacts, SMT DEF IInv, Bank
  <2>2. NoLoad.found \in [Bank -> Headers]
    BY PlainHeaders DEF NoLoad
  <2> QED
    BY <2>1, <2>2
<1> HIDE DEF found
<1>3. /\ reader'.pc = "header" /\ reader'.seen = served.generation /\ reader'.found = found
      /\ served.generation \in Nat /\ Recovered \in Value \cup {None}
  BY <1>1, FlashFacts DEF IInv, SliceTypeOK
<1>4. Shape'
  BY <1>1, <1>2, <1>3 DEF Shape, Orders
<1>5. Found(0)'
  BY <1>1, <1>2, <1>3, FreshHeader DEF Found, Read
<1>6. ReaderInv'
  BY <1>1, <1>3, <1>5, SMT DEF ReaderInv, Read
<1>7. flashFaults' \in 0 .. MaxFlashFaults
  BY <1>1 DEF IInv, SliceTypeOK
<1> QED
  BY <1>1, <1>4, <1>6, <1>7, ReaderAlone

LEMMA LoadHeaderStep == ASSUME IInv, LoadHeader PROVE IInv'
<1> DEFINE found == [reader.found EXCEPT ![1] = flash[1].hdr]
<1>1. /\ reader.pc = "header"
      /\ UNCHANGED <<flash, served, erased, writing, session, loaded, allowed, flashFaults>>
  BY DEF LoadHeader
<1>2. PICK order \in Candidates(found) :
        reader' = [reader EXCEPT !.found = found, !.order = order, !.pc = "chunk1"]
  BY DEF LoadHeader
<1>3. /\ found \in [Bank -> Headers] /\ found[1] = flash[1].hdr /\ found[0] = reader.found[0]
      /\ 1 \in Bank /\ 0 \in Bank /\ 1 - 1 = 0 /\ 1 - 0 = 1
  BY FlashFacts, SMT DEF IInv, Shape, Bank
<1> HIDE DEF found
<1>4. /\ order \in Orders
      /\ \A k \in Bank : IsCandidate(found[k]) <=> \E i \in DOMAIN order : order[i] = k
      /\ Len(order) = 2 => found[order[1]].seq >= found[order[2]].seq
  BY <1>3, CandidateFacts
<1>5. /\ reader'.pc = "chunk1" /\ reader'.seen = reader.seen /\ reader'.found = found
      /\ reader'.order = order
  BY <1>2 DEF IInv, Shape
<1>6. Shape'
  BY <1>2, <1>3, <1>4 DEF IInv, Shape
<1>7. ASSUME reader.seen = served.generation PROVE Found(0)' /\ Found(1)'
  <2>1. Found(0) /\ (InWindow' <=> InWindow) /\ Read' = Bank
    BY <1>1, <1>5, <1>7 DEF IInv, ReaderInv, Read, InWindow
  <2>2. Found(0)'
    BY <1>1, <1>3, <1>5, <2>1 DEF Found
  <2>3. Good(flash[0]) => InWindow \/ found[0] = flash[0].hdr
    BY <1>3, <2>1 DEF Found
  <2>4. flash[1].hdr.crc \in Value /\ ~Good(flash[1]) =>
           /\ Good(flash[0]) /\ flash[0].hdr.seq > flash[1].hdr.seq
           /\ served.bank \in {None, 0} /\ (loaded => served.bank = 0) /\ ~InWindow
    <3>1. ASSUME NEW w \in Writers, session[w].pc = "served", flash[1].hdr.crc \in Value
          PROVE  Good(flash[1])
      <4> DEFINE t == session[w].target
      <4>1. t \in Bank /\ Good(flash[t]) /\ (flash[1 - t].hdr.crc \in Value => Good(flash[1 - t]))
        BY <3>1, ActiveSession DEF SessionOK
      <4>2. 1 = t \/ 1 = 1 - t
        BY <4>1, SMT DEF Bank
      <4> QED
        BY <3>1, <4>1, <4>2
    <3> QED
      BY <1>3, <3>1, FreshHeader DEF InWindow
  <2>5. Found(1)'
    BY <1>1, <1>3, <1>5, <2>1, <2>3, <2>4 DEF Found
  <2> QED
    BY <2>2, <2>5
<1>8. \A k \in Bank : InOrder(k)' <=> IsCandidate(found[k])
  BY <1>4, <1>5 DEF InOrder
<1>9. \A k \in Bank : found[k].crc \in Value => IsCandidate(found[k])
  BY <1>3, HeaderFacts
<1>10. ReaderInv'
  BY <1>1, <1>4, <1>5, <1>7, <1>8, <1>9 DEF IInv, ReaderInv, Read, Bank
<1>11. flashFaults' \in 0 .. MaxFlashFaults
  BY <1>1 DEF IInv, SliceTypeOK
<1> QED
  BY <1>1, <1>6, <1>10, <1>11, ReaderAlone

LEMMA LoadFirstChunkStep == ASSUME IInv, LoadFirstChunk PROVE IInv'
<1> DEFINE b == reader.order[1]
           c == flash[b].body[1]
<1>1. /\ reader.pc = "chunk1" /\ reader.order # <<>> /\ reader' = [reader EXCEPT !.chunk = c, !.pc = "chunk2"]
      /\ UNCHANGED <<flash, served, erased, writing, session, loaded, allowed, flashFaults>>
  BY DEF LoadFirstChunk
<1>2. b \in Bank /\ flash[b] \in BankRecord /\ c \in Cells
  BY <1>1, OrderFacts, FlashFacts, GoodFacts DEF IInv, Shape
<1>3. reader.seen = served.generation /\ reader.found[b].crc \in Value => c = reader.found[b].crc
  BY <1>1, <1>2, HeadIsGood, GoodFacts
<1> HIDE DEF c
<1>4. /\ reader'.pc = "chunk2" /\ reader'.seen = reader.seen /\ reader'.found = reader.found
      /\ reader'.order = reader.order /\ reader'.chunk = c
  BY <1>1 DEF IInv, Shape
<1>5. Shape'
  BY <1>1, <1>2 DEF IInv, Shape
<1>6. /\ Read = Bank /\ Read' = Bank /\ (InWindow' <=> InWindow)
      /\ \A k \in Bank : (InOrder(k)' <=> InOrder(k)) /\ (Found(k)' <=> Found(k))
  BY <1>1, <1>4 DEF Read, InOrder, Found, InWindow
<1>7. ReaderInv'
  BY <1>1, <1>3, <1>4, <1>6 DEF IInv, ReaderInv
<1>8. flashFaults' \in 0 .. MaxFlashFaults
  BY <1>1 DEF IInv, SliceTypeOK
<1> QED
  BY <1>1, <1>5, <1>7, <1>8, ReaderAlone

LEMMA LoadSecondChunkStep == ASSUME IInv, LoadSecondChunk PROVE IInv'
<1> DEFINE b == reader.order[1]
           rest == flash[b].body[2]
           crc == reader.found[b].crc
<1>1. /\ reader.pc = "chunk2" /\ UNCHANGED <<flash, erased, writing, session, flashFaults>>
      /\ flashFaults' \in 0 .. MaxFlashFaults
  BY DEF LoadSecondChunk, IInv, SliceTypeOK
<1>2. reader.order # <<>> /\ reader.order \in Orders /\ b \in Bank /\ flash[b] \in BankRecord
  BY <1>1, OrderFacts, FlashFacts DEF IInv, ReaderInv, Shape
<1>3. reader.found[b] \in Headers /\ IsCandidate(reader.found[b])
      /\ crc \in Value \cup {BadCrc} /\ reader.chunk \in Cells \cup {None} /\ rest \in Cells
  <2>1. InOrder(b)
    BY <1>2, OrderFacts DEF InOrder
  <2> QED
    BY <1>1, <1>2, <2>1, HeaderFacts, GoodFacts DEF IInv, ReaderInv, Shape
<1>4. CASE ~CrcMatches(reader.chunk, rest, crc)
  <2>1. /\ reader' = [reader EXCEPT !.order = Tail(@), !.pc = "chunk1"]
        /\ UNCHANGED <<served, loaded, allowed>>
    BY <1>4 DEF LoadSecondChunk
  <2>2. /\ reader'.pc = "chunk1" /\ reader'.seen = reader.seen /\ reader'.found = reader.found
        /\ reader'.order = Tail(reader.order) /\ Shape'
    BY <1>2, <2>1, OrderFacts DEF IInv, Shape
  <2>3. reader.seen = served.generation => crc \notin Value
    <3> SUFFICES ASSUME reader.seen = served.generation, crc \in Value PROVE FALSE
      OBVIOUS
    <3>1. reader.found[b] = flash[b].hdr /\ Good(flash[b])
      BY <1>1, <1>2, HeadIsGood
    <3>2. rest = crc /\ reader.chunk = crc
      BY <1>1, <1>2, <3>1, GoodFacts DEF IInv, ReaderInv
    <3> QED
      BY <1>4, <3>2 DEF CrcMatches
  <2>4. /\ \A k \in Bank : InOrder(k)' => InOrder(k)
        /\ \A k \in Bank : InOrder(k) /\ k # b => InOrder(k)'
        /\ Len(reader'.order) # 2
    BY <1>2, <2>2, OrderFacts, SMT DEF InOrder
  <2>5. Read = Bank /\ Read' = Bank /\ \A k \in Bank : Found(k)' <=> Found(k)
    BY <1>1, <2>1, <2>2 DEF Read, Found, InWindow
  <2>6. ReaderInv'
    BY <1>1, <2>1, <2>2, <2>3, <2>4, <2>5 DEF IInv, ReaderInv
  <2> QED
    BY <1>1, <2>1, <2>2, <2>6, ReaderAlone
<1>5. CASE CrcMatches(reader.chunk, rest, crc)
  <2> DEFINE val == Payload(reader.chunk, rest)
  <2>1. /\ served' = ReadUnlessMoved(reader.seen, b) /\ LoadEnds(val)
    BY <1>5 DEF LoadSecondChunk
  <2>2. crc \in Value /\ val = crc
    BY <1>3, <1>5, SliceStoreAssumption DEF CrcMatches, Payload, Cells, BadCrc, Blank, Junk
  <2> HIDE DEF val
  <2>3. /\ reader' = [reader EXCEPT !.pc = "idle", !.result = val, !.order = <<>>]
        /\ loaded' = TRUE /\ allowed' = IF loaded THEN allowed ELSE {val}
    BY <2>1 DEF LoadEnds
  <2>4. reader'.pc = "idle" /\ Shape' /\ ReaderInv'
    BY <2>2, <2>3 DEF IInv, Shape, ReaderInv, Orders
  <2>5. InWindow' <=> InWindow
    BY <1>1 DEF InWindow
  <2>6. CASE reader.seen # served.generation
    <3>1. served' = served
      BY <2>1, <2>6 DEF ReadUnlessMoved
    <3>2. loaded
      <4>1. reader.seen \in Nat /\ reader.seen <= served.generation
        BY <1>1 DEF IInv, ReaderInv, Shape
      <4>2. ~loaded => served.generation = 0
        BY DEF IInv, ServedInv
      <4> QED
        BY <2>6, <4>1, <4>2, SMT
    <3> QED
      BY <1>1, <2>3, <2>4, <3>1, <3>2, ReaderAlone
  <2>7. CASE reader.seen = served.generation
    <3>1. reader.found[b] = flash[b].hdr /\ Good(flash[b])
      BY <1>1, <1>2, <2>2, <2>7, HeadIsGood
    <3>2. served' = [served EXCEPT !.bank = b]
      BY <2>1, <2>7 DEF ReadUnlessMoved
    <3>3. /\ served'.bank = b /\ served'.generation = served.generation
          /\ served' \in [bank : Bank \cup {None}, generation : Nat]
      BY <1>2, <3>2 DEF IInv, SliceTypeOK
    <3>4. CASE loaded /\ ~InWindow
      <4>1. served.bank = b
        BY <1>1, <1>2, <2>2, <2>7, <3>4, HeadIsNewest
      <4>2. served' = served
        BY <3>2, <4>1 DEF IInv, SliceTypeOK
      <4> QED
        BY <1>1, <2>3, <2>4, <3>4, <4>2, ReaderAlone
    <3>5. CASE InWindow
      <4>1. PICK w \in Writers : session[w].pc = "served"
        BY <3>5 DEF InWindow
      <4> DEFINE t == session[w].target
      <4>a. loaded /\ t \in Bank /\ SessionOK(session[w])
        BY <4>1, ActiveSession
      <4>b. /\ flash[t].hdr = [seq |-> session[w].seq, crc |-> session[w].val]
            /\ session[w].val \in allowed
        BY <4>1, <4>a DEF SessionOK
      <4>2. /\ loaded /\ t \in Bank /\ flash[t].hdr.crc \in allowed
            /\ (Good(flash[1 - t]) => flash[1 - t].hdr.crc \in allowed)
        <5>1. flash[t].hdr.crc = session[w].val
          BY <4>b, SMT
        <5>2. Good(flash[1 - t]) => flash[1 - t].hdr.crc \in allowed
          BY <4>1, <4>a DEF SessionOK
        <5> QED
          BY <4>a, <4>b, <5>1, <5>2
      <4>3. flash[b].hdr.crc \in allowed
        BY <1>2, <3>1, <4>2, OtherBank
      <4>4. ServedInv'
        BY <1>1, <1>2, <2>3, <2>5, <3>1, <3>3, <3>5, <4>2, <4>3, OtherBank DEF ServedInv
      <4>5. \A x \in Writers : session[x].pc # "idle" => session[x].pc = "served"
        BY <4>1 DEF IInv, ClaimInv
      <4>6. SessionInv'
        BY <1>1, <2>3, <4>2, <4>5, SMT DEF IInv, SessionInv, SessionOK
      <4>7. ClaimInv' /\ FlashInv'
        BY <1>1, <2>3 DEF IInv, ClaimInv, FlashInv
      <4>8. SliceTypeOK'
        BY <1>1, <2>3, <2>4, <3>3, <4>2 DEF IInv, SliceTypeOK
      <4> QED
        BY <2>4, <4>4, <4>6, <4>7, <4>8 DEF IInv
    <3>6. CASE ~loaded
      <4>1. \A x \in Writers : session[x].pc = "idle"
        BY <3>6 DEF IInv, ClaimInv
      <4>2. ~InWindow
        BY <4>1 DEF InWindow
      <4>3. Newest(b) /\ flash[b].hdr.crc = val
        BY <1>1, <1>2, <2>2, <2>7, <3>1, <4>2, HeadIsNewest
      <4>4. Newest(served.bank)'
        BY <1>1, <3>3, <4>3 DEF Newest, GoodBanks
      <4>5. ServedInv'
        BY <1>1, <1>2, <2>3, <3>1, <3>3, <3>6, <4>3, <4>4, OtherBank DEF ServedInv
      <4>6. SessionInv' /\ ClaimInv' /\ FlashInv'
        BY <1>1, <2>3, <4>1 DEF IInv, SessionInv, ClaimInv, FlashInv
      <4>7. SliceTypeOK'
        BY <1>1, <2>2, <2>3, <2>4, <3>3, <3>6 DEF IInv, SliceTypeOK
      <4> QED
        BY <2>4, <4>5, <4>6, <4>7 DEF IInv
    <3> QED
      BY <3>4, <3>5, <3>6
  <2> QED
    BY <2>6, <2>7
<1> QED
  BY <1>4, <1>5

LEMMA LoadMissingStep == ASSUME IInv, LoadMissing PROVE IInv'
<1>1. /\ reader.pc = "chunk1" /\ reader.order = <<>>
      /\ UNCHANGED <<flash, served, erased, writing, session, flashFaults>>
      /\ reader' = [reader EXCEPT !.pc = "idle", !.result = None, !.order = <<>>]
      /\ loaded' = TRUE /\ allowed' = IF loaded THEN allowed ELSE {None}
      /\ flashFaults' \in 0 .. MaxFlashFaults
  BY DEF LoadMissing, LoadEnds, IInv, SliceTypeOK
<1>2. reader'.pc = "idle" /\ Shape' /\ ReaderInv'
  BY <1>1 DEF IInv, Shape, ReaderInv, Orders
<1>3. CASE loaded
  BY <1>1, <1>2, <1>3, ReaderAlone
<1>4. CASE ~loaded
  <2>1. served.generation = 0 /\ reader.seen = served.generation
    BY <1>1, <1>4, SMT DEF IInv, ServedInv, ReaderInv, Shape
  <2>2. \A k \in Bank : ~InOrder(k)
    BY <1>1, SMT DEF InOrder
  <2>3. \A k \in Bank : reader.found[k] = flash[k].hdr /\ reader.found[k].crc \notin Value
    BY <1>1, <1>4, <2>1, <2>2 DEF IInv, ReaderInv, Read, Found
  <2>4. GoodBanks = {} /\ GoodBanks' = {}
    BY <1>1, <2>3, FlashFacts DEF IInv, GoodBanks
  <2>5. \A x \in Writers : session[x].pc = "idle"
    BY <1>4 DEF IInv, ClaimInv
  <2>6. served.bank = None
    BY <1>4 DEF IInv, ServedInv
  <2>7. ServedInv'
    BY <1>1, <1>4, <2>4, <2>6 DEF ServedInv
  <2>8. SessionInv' /\ ClaimInv' /\ FlashInv'
    BY <1>1, <2>5 DEF IInv, SessionInv, ClaimInv, FlashInv
  <2>9. SliceTypeOK'
    BY <1>1, <1>2, <1>4 DEF IInv, SliceTypeOK
  <2> QED
    BY <1>2, <2>7, <2>8, <2>9 DEF IInv
<1> QED
  BY <1>3, <1>4

\* Without ReadsMayFail a read fails only once no other bank is left to try:
\* the load ends without an answer and without a bank to serve.
LEMMA LoadReadFailsStep == ASSUME IInv, LoadReadFails, ~ReadsMayFail PROVE IInv'
<1>1. /\ UNCHANGED <<flash, served, erased, writing, session, loaded, allowed>> /\ reader' = NoLoad
  BY DEF LoadReadFails
<1>2. flashFaults' \in 0 .. MaxFlashFaults
  <2>1. flashFaults \in 0 .. MaxFlashFaults /\ MaxFlashFaults \in Nat
    BY SliceStoreAssumption DEF IInv, SliceTypeOK
  <2>2. flashFaults < MaxFlashFaults /\ flashFaults' = flashFaults + 1
    BY DEF LoadReadFails
  <2> QED
    BY <2>1, <2>2, SMT
<1>3. Shape' /\ ReaderInv'
  BY <1>1, PlainHeaders DEF Shape, ReaderInv, NoLoad, Orders, Bank
<1> QED
  BY <1>1, <1>2, <1>3, ReaderAlone

\* A header written to its end just before power is lost makes the new content
\* the one a boot finds; any other operation leaves the old one.
LEMMA CutShort ==
    ASSUME IInv, flash' \in {flash} \cup UNION {Interrupted(w) : w \in Writers}, erased' = None,
           allowed' = allowed \cup {session[w].val : w \in {x \in Writers : session[x].pc = "header"}}
    PROVE  flash' \in [Bank -> BankRecord] /\ FlashInv' /\ RecoveredOf(flash') \in allowed'
<1>1. CASE flash' = flash
  <2>1. FlashInv' /\ flash \in [Bank -> BankRecord] /\ RecoveredOf(flash) = Recovered
    BY <1>1, FlashFacts DEF IInv, FlashInv
  <2> QED
    BY <1>1, <2>1, Durable
<1>2. CASE flash' # flash
  <2>1. PICK w \in Writers : flash' \in Interrupted(w)
    BY <1>2
  <2> DEFINE s == session[w]
             t == s.target
  <2>2. s.pc \notin {"idle", "served"}
    <3>1. s.pc = "idle" => flash' = flash
      <4> SUFFICES ASSUME s.pc = "idle" PROVE flash' = flash
        OBVIOUS
      <4>1. flash' = [flash EXCEPT ![t] = flash[t]]
        BY <2>1 DEF Interrupted
      <4> QED
        BY <4>1 DEF IInv, SliceTypeOK
    <3>2. s.pc = "served" => flash' = flash
      BY <2>1, InterruptedFacts
    <3> QED
      BY <1>2, <3>1, <3>2
  <2>3. CASE s.pc = "header" => ~Good(flash'[t])
    <3>1. Spoils(Where(w)) /\ Where(w) \in Bank
      BY <2>1, <2>2, <2>3, InterruptedSpoils, InterruptedFacts
    <3>2. FlashInv' /\ flash' \in [Bank -> BankRecord]
      BY <3>1, SpoiledFlash DEF Spoils
    <3>3. CASE served.bank = None
      BY <3>1, <3>2, <3>3, SpoiledRecovery, SpoiledBanks
    <3>4. CASE served.bank # None
      <4>1. served.bank = 1 - Where(w) /\ flash[served.bank].hdr.crc \in allowed
        BY <3>1, <3>4 DEF Spoils, IInv, ServedInv
      <4> QED
        BY <3>1, <3>2, <3>4, <4>1, SpoiledRecovery
    <3> QED
      BY <3>3, <3>4
  <2>4. CASE s.pc = "header" /\ Good(flash'[t])
    <3>1. /\ t \in Bank /\ s.seq \in 1 .. MaxSeq /\ s.seq > flash[1 - t].hdr.seq /\ s.val \in Value
          /\ flash[t].hdr = NoHeader /\ served.bank \in {None, 1 - t} /\ Where(w) = t
      BY <2>2, <2>4, ActiveSession DEF SessionOK, Where
    <3>2. /\ flash' \in [Bank -> BankRecord] /\ flash'[1 - t] = flash[1 - t]
          /\ flash'[t] \in HalfCommitted(flash[t], s.seq, s.val)
      BY <2>1, <2>2, <2>4, <3>1, InterruptedFacts
    <3>3. flash'[t].hdr = [seq |-> s.seq, crc |-> s.val]
      <4>1. flash'[t].hdr.crc \in Value /\ flash[t] \in BankRecord
        BY <2>4, <3>1, <3>2, GoodFacts, FlashFacts DEF IInv
      <4>2. BadCrc \notin Value
        BY SliceStoreAssumption
      <4> DEFINE n == flash'[t]
      <4> HIDE DEF n
      <4>3. n.hdr = flash[t].hdr \/ n.hdr = TornHeader \/ n.hdr = [seq |-> s.seq, crc |-> BadCrc]
            \/ n.hdr = [seq |-> s.seq, crc |-> s.val]
        BY <3>1, <3>2, <4>1, HalfCommittedFacts DEF n
      <4>4. n.hdr.crc \in Value
        BY <4>1 DEF n
      <4>5. n.hdr = [seq |-> s.seq, crc |-> s.val]
        BY <3>1, <4>2, <4>3, <4>4, PlainHeaders, SMT
      <4> QED
        BY <4>5 DEF n
    <3>4. /\ flash[1 - t].hdr.seq \in Nat /\ 1 - t \in Bank /\ 1 - (1 - t) = t
          /\ ~Good(flash[t]) /\ \A k \in Bank : k = t \/ k = 1 - t
      BY <3>1, FlashFacts, PlainHeaders, OtherBank DEF IInv
    <3>5. flash'[t].hdr.seq > flash'[1 - t].hdr.seq /\ flash'[t].hdr.seq \in Nat
      <4>1. flash'[t].hdr.seq = s.seq /\ flash'[1 - t].hdr.seq = flash[1 - t].hdr.seq
        BY <3>2, <3>3, SMT
      <4> QED
        BY <3>1, <4>1, SMT
    <3>6. flash[1 - t].hdr.crc \in Value => Good(flash[1 - t])
      BY <3>4 DEF IInv, FlashInv
    <3>7. FlashInv'
      <4>1. flash'[0].hdr.seq # flash'[1].hdr.seq
        <5>1. flash'[t].hdr.seq # flash'[1 - t].hdr.seq
          <6>1. flash'[1 - t].hdr.seq \in Nat
            BY <3>2, <3>4
          <6> QED
            BY <3>5, <6>1, SMT
        <5> QED
          BY <3>1, <5>1, SMT DEF Bank
      <4>2. \A k \in Bank : flash'[k].hdr.crc \in Value => Good(flash'[k])
        BY <2>4, <3>2, <3>4, <3>6
      <4> QED
        BY <4>1, <4>2 DEF FlashInv
    <3>8. Best(flash', t)
      <4>1. /\ flash'[t].hdr.seq <= flash'[t].hdr.seq
            /\ flash'[1 - t].hdr.seq <= flash'[t].hdr.seq
        <5>1. flash'[1 - t].hdr.seq \in Nat
          BY <3>2, <3>4
        <5> QED
          BY <3>5, <5>1, SMT
      <4>2. \A k \in Bank : flash'[k].hdr.seq <= flash'[t].hdr.seq
        BY <3>4, <4>1
      <4> QED
        BY <2>4, <3>1, <4>2 DEF Best, GoodOf
    <3>9. RecoveredOf(flash') = s.val
      <4>1. IsCandidate(flash'[0].hdr) /\ IsCandidate(flash'[1].hdr)
                => flash'[0].hdr.seq # flash'[1].hdr.seq
        BY <3>7 DEF FlashInv
      <4>2. RecoveredOf(flash') = flash'[t].hdr.crc
        BY <3>1, <3>2, <3>8, <4>1, RecoveredFacts
      <4> QED
        BY <3>3, <4>2, SMT
    <3> QED
      BY <2>4, <3>2, <3>7, <3>9
  <2> QED
    BY <2>3, <2>4
<1> QED
  BY <1>1, <1>2

LEMMA PowerLossStep == ASSUME IInv, PowerLoss PROVE IInv'
<1>1. /\ flash' \in {flash} \cup UNION {Interrupted(w) : w \in Writers}
      /\ allowed' = allowed \cup {session[w].val : w \in {x \in Writers : session[x].pc = "header"}}
      /\ served' = [bank |-> None, generation |-> 0] /\ erased' = None /\ writing' = FALSE
      /\ session' = [w \in Writers |-> NoSession] /\ reader' = NoLoad /\ loaded' = FALSE
  BY DEF PowerLoss
<1>2. flashFaults' \in 0 .. MaxFlashFaults
  <2>1. flashFaults \in 0 .. MaxFlashFaults /\ MaxFlashFaults \in Nat
    BY SliceStoreAssumption DEF IInv, SliceTypeOK
  <2>2. flashFaults < MaxFlashFaults /\ flashFaults' = flashFaults + 1
    BY DEF PowerLoss
  <2> QED
    BY <2>1, <2>2, SMT
<1>3. flash' \in [Bank -> BankRecord] /\ FlashInv' /\ RecoveredOf(flash') \in allowed'
  BY <1>1, CutShort
<1>4. Recovered' \in allowed'
  BY <1>3, NextRecovered
<1>5. ServedInv'
  BY <1>1, <1>4 DEF ServedInv
<1>6. \A w \in Writers : session'[w] = NoSession /\ session'[w].pc = "idle"
  BY <1>1 DEF NoSession
<1>7. ClaimInv' /\ SessionInv'
  BY <1>6 DEF ClaimInv, SessionInv
<1>8. Shape' /\ ReaderInv'
  BY <1>1, PlainHeaders DEF Shape, ReaderInv, NoLoad, Orders, Bank
<1>9. SliceTypeOK'
  <2>1. NoSession \in [pc : SessionPc, target : Bank, stale : Bank \cup {None},
                       seq : 1..MaxSeq, val : Value \cup {None}]
    BY SliceStoreAssumption, SMT DEF NoSession, SessionPc, Bank
  <2>2. allowed' \subseteq Value \cup {None}
    <3>1. \A w \in {x \in Writers : session[x].pc = "header"} : session[w].val \in Value
      BY ActiveSession
    <3>2. allowed \subseteq Value \cup {None}
      BY DEF IInv, SliceTypeOK
    <3> QED
      BY <1>1, <3>1, <3>2
  <2>3. reader'.pc = "idle"
    BY <1>1 DEF NoLoad
  <2> QED
    BY <1>1, <1>2, <1>3, <2>1, <2>2, <2>3 DEF SliceTypeOK, BankRecord
<1> QED
  BY <1>3, <1>5, <1>7, <1>8, <1>9 DEF IInv

----------------------------------------------------------------------------
LEMMA InitHolds == SliceInit => IInv
<1> SUFFICES ASSUME SliceInit PROVE IInv
  OBVIOUS
<1>1. /\ flash = [k \in Bank |-> BlankBank]
      /\ served = [bank |-> None, generation |-> 0] /\ erased = None /\ writing = FALSE
      /\ session = [w \in Writers |-> NoSession] /\ reader = NoLoad
      /\ loaded = FALSE /\ allowed = {None} /\ flashFaults = 0
  BY DEF SliceInit
<1>2. /\ \A k \in Bank : flash[k] = BlankBank
      /\ \A w \in Writers : session[w] = NoSession /\ session[w].pc = "idle"
  BY <1>1 DEF NoSession
<1>3. Recovered = None
  BY <1>2, BlankFacts DEF Recovered, GoodBanks
<1>4. FlashInv
  BY <1>1, <1>2, BlankFacts, PlainHeaders DEF FlashInv, Bank
<1>5. ServedInv /\ ClaimInv /\ SessionInv
  BY <1>1, <1>2, <1>3 DEF ServedInv, ClaimInv, SessionInv
<1>6. Shape /\ ReaderInv
  BY <1>1, PlainHeaders DEF Shape, ReaderInv, NoLoad, Orders, Bank
<1>7. SliceTypeOK
  <2>1. NoSession \in [pc : SessionPc, target : Bank, stale : Bank \cup {None},
                       seq : 1..MaxSeq, val : Value \cup {None}]
    BY SliceStoreAssumption, SMT DEF NoSession, SessionPc, Bank
  <2>2. reader.pc = "idle" /\ flashFaults \in 0 .. MaxFlashFaults
    BY <1>1, SliceStoreAssumption, SMT DEF NoLoad
  <2>3. flash \in [Bank -> [hdr : Headers, body : [Chunks -> Cells]]]
    BY <1>1, BlankFacts DEF BankRecord
  <2> QED
    BY <1>1, <2>1, <2>2, <2>3 DEF SliceTypeOK
<1> QED
  BY <1>4, <1>5, <1>6, <1>7 DEF IInv

LEMMA StepHolds == ASSUME ~ReadsMayFail PROVE IInv /\ [SliceNext]_sliceVars => IInv'
<1> SUFFICES ASSUME IInv, [SliceNext]_sliceVars PROVE IInv'
  OBVIOUS
<1>1. ASSUME NEW w \in Writers, SliceWriter(w) PROVE IInv'
  <2>1. CASE \E v \in Value : BeginWrite(w, v)
    BY <2>1, BeginWriteStep
  <2> QED
    BY <1>1, <2>1, EraseTargetStep, AppendChunkStep, CommitHeaderStep, CommitServedStep,
       EraseStaleStep, FailStep, AbortStep DEF SliceWriter
<1>2. CASE SliceLoad
  BY <1>2, LoadBeginStep, LoadHeaderStep, LoadFirstChunkStep, LoadSecondChunkStep, LoadMissingStep,
     LoadReadFailsStep DEF SliceLoad
<1>3. CASE PowerLoss
  BY <1>3, PowerLossStep
<1>4. CASE UNCHANGED sliceVars
  <2>1. /\ UNCHANGED <<flash, served, erased, writing, session, loaded, allowed, reader, flashFaults>>
        /\ (InWindow' <=> InWindow)
    BY <1>4 DEF sliceVars, InWindow
  <2>2. Shape' /\ ReaderInv' /\ flashFaults' \in 0 .. MaxFlashFaults
    BY <2>1, QuietReader DEF IInv, Shape, SliceTypeOK
  <2> QED
    BY <2>1, <2>2, ReaderAlone
<1> QED
  BY <1>1, <1>2, <1>3, <1>4 DEF SliceNext

LEMMA Invariance == ASSUME ~ReadsMayFail PROVE SliceSpec => []IInv
  BY InitHolds, StepHolds, PTL DEF SliceSpec

\* Flash, memory, sessions and the load keep their shapes.
THEOREM SliceTypeCorrect == ASSUME ~ReadsMayFail PROVE SliceSpec => []SliceTypeOK
<1>1. IInv => SliceTypeOK
  BY DEF IInv
<1> QED
  BY <1>1, Invariance, PTL

\* Whatever flash operation fails and wherever power is lost, a load finds the
\* content last committed, or one whose header was being written (load, commit).
THEOREM ContentIsDurable == ASSUME ~ReadsMayFail PROVE SliceSpec => []DurableContent
<1>1. IInv => DurableContent
  BY Durable DEF DurableContent
<1> QED
  BY <1>1, Invariance, PTL

\* The bank recorded as served holds a good content, so the bank begin_write
\* erases is never the only one.
THEOREM ServedBankIsGood == ASSUME ~ReadsMayFail PROVE SliceSpec => []ServedIsGood
<1>1. IInv => ServedIsGood
  BY DEF IInv, ServedInv, SliceTypeOK, ServedIsGood, GoodBanks
<1> QED
  BY <1>1, Invariance, PTL

\* append and commit program only cells that are blank.
THEOREM OnlyBlankCellsProgrammed == ASSUME ~ReadsMayFail PROVE SliceSpec => []ProgramsBlankCells
<1>1. IInv => ProgramsBlankCells
  BY DEF IInv, SessionInv, SessionOK, ProgramsBlankCells
<1> QED
  BY <1>1, Invariance, PTL
----------------------------------------------------------------------------
\* What a load will answer. Until a commit passes it, the newest good bank is
\* the one it read of and has not given up; once one has, the bank committed is
\* the newest good one, and the other bank can state only a content that was
\* current while the load ran.
Latest(n) == Good(flash[n]) /\ Newest(n)

Undisturbed ==
    /\ GoodBanks = {} => \A k \in Bank : reader.found[k].crc \notin Value
    /\ \A n \in Bank : Latest(n) =>
        /\ n = 0 \/ reader.pc # "header" => reader.found[n] = flash[n].hdr
        /\ reader.found[1 - n].crc \in Value => reader.found[1 - n].seq < flash[n].hdr.seq
        /\ reader.pc # "header" => InOrder(n)
        /\ reader.pc = "chunk2" /\ reader.order[1] = n => reader.chunk = flash[n].body[1]

Passed(t) ==
    /\ Latest(t)
    /\ flash[1 - t].hdr.crc \in Value => flash[1 - t].hdr.crc \in reader.current
    /\ reader.found[1 - t].crc \in Value => reader.found[1 - t].crc \in reader.current

MomentInv ==
    reader.pc # "idle" =>
        /\ Recovered \in reader.current
        /\ reader.pc = "header" => reader.found[1].crc \notin Value
        /\ reader.overtaken = 0 => Undisturbed
        /\ reader.overtaken = 1 => \E t \in Bank : Passed(t)

LEMMA LatestFacts ==
    ASSUME IInv
    PROVE  /\ GoodBanks # {} => \E n \in Bank : Latest(n)
           /\ GoodBanks = {} => Recovered = None /\ \A k \in Bank : flash[k].hdr.crc \notin Value
           /\ \A n \in Bank : Latest(n) =>
                /\ Recovered = flash[n].hdr.crc /\ flash[n].hdr.crc \in Value
                /\ flash[n].body[1] = flash[n].hdr.crc /\ flash[n].body[2] = flash[n].hdr.crc
                /\ flash[1 - n].hdr.crc \in Value => flash[1 - n].hdr.seq < flash[n].hdr.seq
<1>0. SliceTypeOK /\ FlashInv
  BY DEF IInv
<1>1. \A n \in Bank : Latest(n) <=> Best(flash, n)
  BY DEF Latest, Newest, Best, GoodBanks, GoodOf
<1>2. IsCandidate(flash[0].hdr) /\ IsCandidate(flash[1].hdr) => flash[0].hdr.seq # flash[1].hdr.seq
  BY <1>0 DEF FlashInv
<1>3. /\ GoodBanks # {} => \E n \in Bank : Latest(n)
      /\ \A n \in Bank : Latest(n) => Recovered = flash[n].hdr.crc
  BY <1>0, <1>1, <1>2, FlashFacts, RecoveredFacts
<1>4. GoodBanks = {} => Recovered = None /\ \A k \in Bank : flash[k].hdr.crc \notin Value
  BY <1>0, OtherBank DEF Recovered, GoodBanks, FlashInv
<1>5. ASSUME NEW n \in Bank, Latest(n)
      PROVE  /\ flash[n].hdr.crc \in Value
             /\ flash[n].body[1] = flash[n].hdr.crc /\ flash[n].body[2] = flash[n].hdr.crc
             /\ flash[1 - n].hdr.crc \in Value => flash[1 - n].hdr.seq < flash[n].hdr.seq
  <2>1. Good(flash[n]) /\ flash[n] \in BankRecord /\ flash[n].hdr.seq \in Nat /\ IsCandidate(flash[n].hdr)
        /\ 1 - n \in Bank /\ 1 - (1 - n) = n /\ flash[1 - n].hdr.seq \in Nat
    BY <1>0, <1>5, FlashFacts, OtherBank DEF Latest
  <2>2. ASSUME flash[1 - n].hdr.crc \in Value PROVE flash[1 - n].hdr.seq < flash[n].hdr.seq
    <3>1. CASE Good(flash[1 - n])
      <4>1. flash[1 - n].hdr.seq <= flash[n].hdr.seq
        BY <1>5, <2>1, <3>1 DEF Latest, Newest, GoodBanks
      <4>2. flash[n].hdr.seq # flash[1 - n].hdr.seq
        BY <1>0, <2>1, <3>1, FlashFacts
      <4> QED
        BY <2>1, <4>1, <4>2, SMT
    <3>2. CASE ~Good(flash[1 - n])
      <4>1. flash[n].hdr.seq > flash[1 - n].hdr.seq
        BY <1>0, <2>1, <2>2, <3>2 DEF FlashInv
      <4> QED
        BY <2>1, <4>1, SMT
    <3> QED
      BY <3>1, <3>2
  <2> QED
    BY <2>1, <2>2, GoodFacts
<1> QED
  BY <1>3, <1>4, <1>5

LEMMA SpoiledLatest ==
    ASSUME IInv, NEW t \in Bank, Spoils(t)
    PROVE  /\ GoodBanks' = {} <=> GoodBanks = {}
           /\ \A n \in Bank : /\ Latest(n)' <=> Latest(n)
                              /\ Latest(n) => n = 1 - t /\ flash'[n] = flash[n]
<1>1. /\ 1 - t \in Bank /\ 1 - t # t /\ flash'[1 - t] = flash[1 - t]
      /\ \A k \in Bank : k = t \/ k = 1 - t
  BY OtherBank DEF Spoils
<1>2. /\ flash[t].hdr.seq \in Nat /\ flash[1 - t].hdr.seq \in Nat
      /\ Good(flash[t]) => Good(flash[1 - t]) /\ flash[1 - t].hdr.seq > flash[t].hdr.seq
      /\ Good(flash'[t]) => flash'[t] = flash[t]
  BY <1>1, SpoiledBanks, FlashFacts DEF IInv
<1>3. ~Latest(t)
  <2> SUFFICES ASSUME Latest(t) PROVE FALSE
    OBVIOUS
  <2>1. flash[1 - t].hdr.seq > flash[t].hdr.seq /\ flash[1 - t].hdr.seq <= flash[t].hdr.seq
    BY <1>1, <1>2 DEF Latest, Newest, GoodBanks
  <2> QED
    BY <1>2, <2>1, SMT
<1>4. ~Latest(t)'
  <2> SUFFICES ASSUME Latest(t)' PROVE FALSE
    OBVIOUS
  <2>1. Good(flash'[t]) /\ flash'[t] = flash[t]
    BY <1>2 DEF Latest
  <2>2. Good(flash'[1 - t]) /\ flash[1 - t].hdr.seq > flash[t].hdr.seq
    BY <1>1, <1>2, <2>1
  <2>3. flash'[1 - t].hdr.seq <= flash'[t].hdr.seq
    BY <1>1, <2>2 DEF Latest, Newest, GoodBanks
  <2> QED
    BY <1>1, <1>2, <2>1, <2>2, <2>3, SMT
<1>5. Latest(1 - t) <=> Good(flash[1 - t])
  <2>1. flash[1 - t].hdr.seq <= flash[1 - t].hdr.seq
        /\ (Good(flash[t]) => flash[t].hdr.seq <= flash[1 - t].hdr.seq)
    BY <1>2, SMT
  <2> QED
    BY <1>1, <2>1 DEF Latest, Newest, GoodBanks
<1>6. Latest(1 - t)' <=> Good(flash'[1 - t])
  <2>1. flash'[1 - t].hdr.seq <= flash'[1 - t].hdr.seq
        /\ (Good(flash'[t]) => flash'[t].hdr.seq <= flash'[1 - t].hdr.seq)
    BY <1>1, <1>2, SMT
  <2> QED
    BY <1>1, <2>1 DEF Latest, Newest, GoodBanks
<1>7. GoodBanks' = {} <=> GoodBanks = {}
  <2>1. GoodBanks = {} <=> ~Good(flash[1 - t])
    BY <1>1, <1>2 DEF GoodBanks
  <2>2. GoodBanks' = {} <=> ~Good(flash'[1 - t])
    BY <1>1, <1>2 DEF GoodBanks
  <2> QED
    BY <1>1, <2>1, <2>2
<1> QED
  BY <1>1, <1>3, <1>4, <1>5, <1>6, <1>7
\* A load a step watches goes on where it was.
LEMMA WatchedLoad ==
    ASSUME Shape, NEW commit \in BOOLEAN, Watch(commit), reader'.pc # "idle"
    PROVE  /\ reader.pc # "idle" /\ reader'.pc = reader.pc /\ reader'.found = reader.found
           /\ reader'.order = reader.order /\ reader'.chunk = reader.chunk
           /\ reader'.current = reader.current \cup {Recovered'}
           /\ reader'.overtaken = Overtaken(reader.overtaken, commit)
<1> DEFINE now == reader.current \cup {Recovered'}
           n == Overtaken(reader.overtaken, commit)
<1>1. reader.pc # "idle"
  BY DEF Watch
<1>2. reader' = [reader EXCEPT !.current = now, !.overtaken = n]
  BY <1>1 DEF Watch
<1> HIDE DEF now, n
<1>3. /\ reader'.pc = reader.pc /\ reader'.found = reader.found /\ reader'.order = reader.order
      /\ reader'.chunk = reader.chunk /\ reader'.current = now /\ reader'.overtaken = n
  BY <1>2 DEF Shape
<1> QED
  BY <1>1, <1>3 DEF now, n

LEMMA SpoiledMoment ==
    ASSUME IInv, MomentInv, NEW t \in Bank, Spoils(t), Watch(FALSE)
    PROVE  MomentInv'
<1> SUFFICES ASSUME reader'.pc # "idle" PROVE MomentInv'
  BY DEF MomentInv
<1>1. /\ reader.pc # "idle" /\ reader'.pc = reader.pc /\ reader'.found = reader.found
      /\ reader'.order = reader.order /\ reader'.chunk = reader.chunk
      /\ reader'.current = reader.current \cup {Recovered'} /\ reader'.overtaken = reader.overtaken
  BY WatchedLoad DEF IInv, Overtaken
<1>2. /\ GoodBanks' = {} <=> GoodBanks = {}
      /\ \A n \in Bank : /\ Latest(n)' <=> Latest(n)
                         /\ Latest(n) => n = 1 - t /\ flash'[n] = flash[n]
  BY SpoiledLatest
<1>3. ASSUME Undisturbed PROVE Undisturbed'
  <2>1. GoodBanks' = {} => \A k \in Bank : reader'.found[k].crc \notin Value
    BY <1>1, <1>2, <1>3 DEF Undisturbed
  <2>2. ASSUME NEW n \in Bank, Latest(n)'
        PROVE  /\ n = 0 \/ reader'.pc # "header" => reader'.found[n] = flash'[n].hdr
               /\ reader'.found[1 - n].crc \in Value => reader'.found[1 - n].seq < flash'[n].hdr.seq
               /\ reader'.pc # "header" => InOrder(n)'
               /\ reader'.pc = "chunk2" /\ reader'.order[1] = n => reader'.chunk = flash'[n].body[1]
    <3>1. Latest(n) /\ flash'[n] = flash[n] /\ (InOrder(n)' <=> InOrder(n))
      BY <1>1, <1>2, <2>2 DEF InOrder
    <3>2. /\ n = 0 \/ reader.pc # "header" => reader.found[n] = flash[n].hdr
          /\ reader.found[1 - n].crc \in Value => reader.found[1 - n].seq < flash[n].hdr.seq
          /\ reader.pc # "header" => InOrder(n)
          /\ reader.pc = "chunk2" /\ reader.order[1] = n => reader.chunk = flash[n].body[1]
      BY <1>3, <3>1 DEF Undisturbed
    <3> QED
      BY <1>1, <3>1, <3>2
  <2> QED
    BY <2>1, <2>2 DEF Undisturbed
<1>4. ASSUME NEW n \in Bank, Passed(n) PROVE Passed(n)'
  <2>1. 1 - n = t /\ Latest(n)'
    BY <1>2, <1>4, OtherBank DEF Passed
  <2>2. flash'[t].hdr.crc \in Value => flash'[t].hdr = flash[t].hdr
    BY DEF Spoils
  <2> QED
    BY <1>1, <1>4, <2>1, <2>2 DEF Passed
<1> QED
  BY <1>1, <1>3, <1>4 DEF MomentInv

\* The commit that passes a load makes the other bank the superseded one.
LEMMA CommitMoment ==
    ASSUME IInv, MomentInv, IInv', NEW w \in Writers, CommitHeader(w)
    PROVE  MomentInv'
<1> SUFFICES ASSUME reader'.pc # "idle" PROVE MomentInv'
  BY DEF MomentInv
<1>1. session[w].pc = "header" /\ Step(w, "served") /\ Watch(TRUE)
  BY DEF CommitHeader
<1>0. PICK t \in Bank : t = session[w].target
  BY DEF IInv, SliceTypeOK
<1>2. /\ reader.pc # "idle" /\ reader'.pc = reader.pc /\ reader'.found = reader.found
      /\ reader'.current = reader.current \cup {Recovered'}
      /\ reader'.overtaken = Overtaken(reader.overtaken, TRUE)
  BY <1>1, WatchedLoad DEF IInv
<1>3. t \in Bank /\ flash[t].hdr = NoHeader /\ 1 - t \in Bank /\ 1 - t # t /\ \A k \in Bank : k = t \/ k = 1 - t
  BY <1>0, <1>1, ActiveSession, OtherBank DEF SessionOK
<1>4. flash'[1 - t] = flash[1 - t] /\ ~Good(flash[t])
  BY <1>0, <1>3, FlashFacts, PlainHeaders DEF IInv, CommitHeader, SliceTypeOK
<1>5. session'[w].pc = "served" /\ session'[w].target = t /\ session'[w].seq = session[w].seq
  BY <1>0, <1>1 DEF Step, IInv, SliceTypeOK
<1>6. Latest(t)'
  <2>1. SessionOK(session[w])'
    BY <1>5 DEF IInv, SessionInv
  <2>2. Good(flash'[t]) /\ flash'[t].hdr = [seq |-> session'[w].seq, crc |-> session'[w].val]
        /\ session'[w].seq > flash'[1 - t].hdr.seq
    BY <1>5, <2>1 DEF SessionOK
  <2>3. flash'[t].hdr.seq = session'[w].seq
    BY <2>2, SMT
  <2>4. flash'[1 - t].hdr.seq \in Nat /\ flash'[t].hdr.seq \in Nat
    <3>1. flash' \in [Bank -> [hdr : Headers, body : [Chunks -> Cells]]]
      BY DEF IInv, SliceTypeOK
    <3>2. flash'[1 - t].hdr \in Headers /\ flash'[t].hdr \in Headers
      BY <1>3, <3>1
    <3> QED
      BY <3>2, HeaderFacts
  <2>5. flash'[1 - t].hdr.seq <= flash'[t].hdr.seq /\ flash'[t].hdr.seq <= flash'[t].hdr.seq
    BY <2>2, <2>3, <2>4, SMT
  <2> QED
    BY <1>3, <2>2, <2>5 DEF Latest, Newest, GoodBanks
<1>7. ASSUME Undisturbed, Recovered \in reader.current, reader.pc = "header" => reader.found[1].crc \notin Value
      PROVE  Passed(t)'
  <2>1. \A n \in Bank : Latest(n) => n = 1 - t
    BY <1>3, <1>4 DEF Latest
  <2>2. Latest(1 - t) => /\ flash[1 - t].hdr.crc \in reader.current
                         /\ reader.found[1 - t].crc \in Value => reader.found[1 - t].crc \in reader.current
    <3> SUFFICES ASSUME Latest(1 - t)
                 PROVE  /\ flash[1 - t].hdr.crc \in reader.current
                        /\ reader.found[1 - t].crc \in Value => reader.found[1 - t].crc \in reader.current
      OBVIOUS
    <3>1. flash[1 - t].hdr.crc = Recovered
      BY <1>3, LatestFacts
    <3>2. 1 - t = 0 \/ reader.pc # "header" => reader.found[1 - t] = flash[1 - t].hdr
      BY <1>3, <1>7 DEF Undisturbed
    <3>3. 1 - t = 0 \/ 1 - t = 1
      BY <1>3 DEF Bank
    <3> QED
      BY <1>7, <3>1, <3>2, <3>3
  <2>3. ~Latest(1 - t) => flash[1 - t].hdr.crc \notin Value /\ reader.found[1 - t].crc \notin Value
    <3>1. ~Latest(1 - t) => GoodBanks = {}
      BY <2>1, LatestFacts
    <3> QED
      BY <1>3, <1>7, <3>1, LatestFacts DEF Undisturbed
  <2>4. /\ flash[1 - t].hdr.crc \in Value => flash[1 - t].hdr.crc \in reader.current
        /\ reader.found[1 - t].crc \in Value => reader.found[1 - t].crc \in reader.current
    BY <2>2, <2>3
  <2> QED
    BY <1>2, <1>4, <1>6, <2>4 DEF Passed
<1>8. reader'.overtaken # 0 /\ (reader'.overtaken = 1 => reader.overtaken = 0)
  <2>1. reader.overtaken \in {0, 1, 2}
    BY DEF IInv, Shape
  <2> QED
    BY <1>2, <2>1, SMT DEF Overtaken
<1>9. reader'.overtaken = 1 => Passed(t)'
  BY <1>2, <1>7, <1>8 DEF MomentInv
<1>10. Recovered' \in reader'.current /\ (reader'.pc = "header" => reader'.found[1].crc \notin Value)
  BY <1>2 DEF MomentInv
<1> QED
  BY <1>3, <1>8, <1>9, <1>10 DEF MomentInv

\* Steps that leave flash and the load alone.
LEMMA MomentStays ==
    ASSUME MomentInv, UNCHANGED <<flash, reader>>
    PROVE  MomentInv'
  BY DEF MomentInv, Undisturbed, Passed, Latest, Newest, GoodBanks, Recovered, InOrder
LEMMA TwoBanks == \A n \in Bank : (n = 0 /\ 1 - n = 1) \/ (n = 1 /\ 1 - n = 0)
  BY SMT DEF Bank

LEMMA SameFlash ==
    ASSUME flash' = flash
    PROVE  /\ Recovered' = Recovered /\ GoodBanks' = GoodBanks
           /\ \A n \in Bank : Latest(n)' <=> Latest(n)
<1>1. GoodBanks' = GoodBanks
  BY DEF GoodBanks
<1>2. Recovered' = Recovered
  <2>1. Recovered' = RecoveredOf(flash') /\ Recovered = RecoveredOf(flash)
    BY DEF Recovered, RecoveredOf, GoodBanks, GoodOf
  <2> QED
    BY <2>1
<1>3. ASSUME NEW n \in Bank PROVE Newest(n)' <=> Newest(n)
  BY <1>1 DEF Newest
<1> QED
  BY <1>1, <1>2, <1>3 DEF Latest

\* The load's own steps.
LEMMA LoadBeginMoment == ASSUME IInv, LoadBegin PROVE MomentInv'
<1> DEFINE found == [NoLoad.found EXCEPT ![0] = flash[0].hdr]
<1>1. /\ reader' = [pc |-> "header", seen |-> served.generation, found |-> found, order |-> <<>>,
                    chunk |-> None, result |-> None, overtaken |-> 0, current |-> {Recovered}]
      /\ flash' = flash
  BY DEF LoadBegin, NoLoad
<1>2. found[0] = flash[0].hdr /\ found[1] = NoHeader /\ found[1].crc \notin Value
  BY PlainHeaders, SMT DEF NoLoad, Bank
<1> HIDE DEF found
<1>3. /\ reader'.pc = "header" /\ reader'.found = found /\ reader'.overtaken = 0
      /\ reader'.current = {Recovered}
  BY <1>1
<1>4. /\ Recovered' = Recovered /\ GoodBanks' = GoodBanks /\ \A n \in Bank : Latest(n)' <=> Latest(n)
  BY <1>1, SameFlash
<1>5. GoodBanks = {} => \A k \in Bank : found[k].crc \notin Value
  BY <1>2, LatestFacts DEF Bank
<1>6. ASSUME NEW n \in Bank, Latest(n)
      PROVE  /\ n = 0 => found[n] = flash[n].hdr
             /\ found[1 - n].crc \in Value => found[1 - n].seq < flash[n].hdr.seq
  <2>1. (n = 0 /\ 1 - n = 1) \/ (n = 1 /\ 1 - n = 0)
    BY TwoBanks
  <2>2. flash[1 - n].hdr.crc \in Value => flash[1 - n].hdr.seq < flash[n].hdr.seq
    BY <1>6, LatestFacts
  <2> QED
    BY <1>2, <2>1, <2>2
<1>7. Undisturbed'
  BY <1>1, <1>3, <1>4, <1>5, <1>6 DEF Undisturbed
<1>8. reader'.overtaken # 1
  BY <1>3, SMT
<1> QED
  BY <1>2, <1>3, <1>4, <1>7, <1>8 DEF MomentInv

LEMMA LoadHeaderMoment == ASSUME IInv, MomentInv, LoadHeader PROVE MomentInv'
<1> DEFINE found == [reader.found EXCEPT ![1] = flash[1].hdr]
<1>1. reader.pc = "header" /\ flash' = flash
  BY DEF LoadHeader
<1>2. PICK order \in Candidates(found) :
        reader' = [reader EXCEPT !.found = found, !.order = order, !.pc = "chunk1"]
  BY DEF LoadHeader
<1>3. /\ found \in [Bank -> Headers] /\ found[1] = flash[1].hdr /\ found[0] = reader.found[0]
      /\ 1 \in Bank /\ 0 \in Bank /\ 1 - 1 = 0 /\ 1 - 0 = 1 /\ \A k \in Bank : k = 0 \/ k = 1
  BY FlashFacts, SMT DEF IInv, Shape, Bank
<1> HIDE DEF found
<1>a. \A k \in Bank : IsCandidate(found[k]) <=> \E i \in DOMAIN order : order[i] = k
  BY <1>3, CandidateFacts
<1>b. \A k \in Bank : found[k].crc \in Value => IsCandidate(found[k])
  BY <1>3, HeaderFacts
<1>4. \A k \in Bank : found[k].crc \in Value => \E i \in DOMAIN order : order[i] = k
  BY <1>a, <1>b
<1>5. /\ reader'.pc = "chunk1" /\ reader'.found = found /\ reader'.order = order
      /\ reader'.overtaken = reader.overtaken /\ reader'.current = reader.current
  BY <1>2 DEF IInv, Shape
<1>6. /\ Recovered' = Recovered /\ GoodBanks' = GoodBanks /\ \A n \in Bank : Latest(n)' <=> Latest(n)
  BY <1>1, SameFlash
<1>7. ASSUME Undisturbed PROVE Undisturbed'
  <2>1. GoodBanks = {} => \A k \in Bank : found[k].crc \notin Value
    BY <1>3, <1>7, LatestFacts DEF Undisturbed
  <2>2. ASSUME NEW n \in Bank, Latest(n)
        PROVE  /\ found[n] = flash[n].hdr /\ InOrder(n)'
               /\ found[1 - n].crc \in Value => found[1 - n].seq < flash[n].hdr.seq
    <3>1. /\ n = 0 => reader.found[n] = flash[n].hdr
          /\ reader.found[1 - n].crc \in Value => reader.found[1 - n].seq < flash[n].hdr.seq
      BY <1>7, <2>2 DEF Undisturbed
    <3>2. /\ flash[n].hdr.crc \in Value
          /\ flash[1 - n].hdr.crc \in Value => flash[1 - n].hdr.seq < flash[n].hdr.seq
      BY <2>2, LatestFacts
    <3>3. found[n] = flash[n].hdr
      BY <1>3, <3>1
    <3>4. InOrder(n)'
      BY <1>4, <1>5, <3>2, <3>3 DEF InOrder
    <3>5. (n = 0 /\ 1 - n = 1) \/ (n = 1 /\ 1 - n = 0)
      BY TwoBanks
    <3> QED
      BY <1>3, <3>1, <3>2, <3>3, <3>4, <3>5
  <2>3. reader'.pc # "chunk2"
    BY <1>5
  <2> QED
    BY <1>1, <1>5, <1>6, <2>1, <2>2, <2>3 DEF Undisturbed
<1>8. ASSUME NEW t \in Bank, Passed(t) PROVE Passed(t)'
  <2>1. found[1 - t] = flash[1 - t].hdr \/ found[1 - t] = reader.found[1 - t]
    BY <1>3, OtherBank
  <2> QED
    BY <1>1, <1>5, <1>6, <1>8, <2>1 DEF Passed
<1> QED
  BY <1>1, <1>5, <1>6, <1>7, <1>8 DEF MomentInv

LEMMA LoadFirstChunkMoment == ASSUME IInv, MomentInv, LoadFirstChunk PROVE MomentInv'
<1> DEFINE c == flash[reader.order[1]].body[1]
<1>1. /\ reader.pc = "chunk1" /\ reader.order # <<>> /\ reader' = [reader EXCEPT !.chunk = c, !.pc = "chunk2"]
      /\ flash' = flash
  BY DEF LoadFirstChunk
<1> HIDE DEF c
<1>2. /\ reader'.pc = "chunk2" /\ reader'.found = reader.found /\ reader'.order = reader.order
      /\ reader'.chunk = c /\ reader'.overtaken = reader.overtaken /\ reader'.current = reader.current
  BY <1>1 DEF IInv, Shape
<1>3. /\ Recovered' = Recovered /\ GoodBanks' = GoodBanks
      /\ \A n \in Bank : (Latest(n)' <=> Latest(n)) /\ (InOrder(n)' <=> InOrder(n))
  BY <1>1, <1>2, SameFlash DEF InOrder
<1>4. Undisturbed => Undisturbed'
  BY <1>1, <1>2, <1>3 DEF Undisturbed, c
<1>5. \A t \in Bank : Passed(t) => Passed(t)'
  BY <1>1, <1>2, <1>3 DEF Passed
<1> QED
  BY <1>1, <1>2, <1>3, <1>4, <1>5 DEF MomentInv

\* A bank given up is not the newest good one, unless a commit has passed.
LEMMA LoadSecondChunkMoment == ASSUME IInv, MomentInv, LoadSecondChunk PROVE MomentInv'
<1> DEFINE b == reader.order[1]
           rest == flash[b].body[2]
           crc == reader.found[b].crc
<1>1. reader.pc = "chunk2" /\ flash' = flash /\ reader.order # <<>> /\ reader.order \in Orders
  BY DEF LoadSecondChunk, IInv, ReaderInv, Shape
<1>2. CASE CrcMatches(reader.chunk, rest, crc)
  <2>1. \E v : reader' = [reader EXCEPT !.pc = "idle", !.result = v, !.order = <<>>]
    BY <1>2 DEF LoadSecondChunk, LoadEnds
  <2>2. reader'.pc = "idle"
    BY <2>1 DEF IInv, Shape
  <2> QED
    BY <2>2 DEF MomentInv
<1>3. CASE ~CrcMatches(reader.chunk, rest, crc)
  <2>1. reader' = [reader EXCEPT !.order = Tail(@), !.pc = "chunk1"]
    BY <1>3 DEF LoadSecondChunk
  <2>2. /\ reader'.pc = "chunk1" /\ reader'.found = reader.found /\ reader'.order = Tail(reader.order)
        /\ reader'.overtaken = reader.overtaken /\ reader'.current = reader.current
    BY <2>1 DEF IInv, Shape
  <2>3. /\ Recovered' = Recovered /\ GoodBanks' = GoodBanks /\ \A n \in Bank : Latest(n)' <=> Latest(n)
    BY <1>1, SameFlash
  <2>4. ASSUME Undisturbed, NEW n \in Bank, Latest(n) PROVE InOrder(n)'
    <3>1. InOrder(n) /\ reader.found[n] = flash[n].hdr /\ (b = n => reader.chunk = flash[n].body[1])
      BY <1>1, <2>4 DEF Undisturbed
    <3>2. flash[n].body[1] = flash[n].hdr.crc /\ flash[n].body[2] = flash[n].hdr.crc
      BY <2>4, LatestFacts
    <3>3. n # b
      BY <1>3, <3>1, <3>2 DEF CrcMatches
    <3> QED
      BY <1>1, <2>2, <3>1, <3>3, OrderFacts, SMT DEF InOrder
  <2>5. Undisturbed => Undisturbed'
    BY <1>1, <2>2, <2>3, <2>4 DEF Undisturbed
  <2>6. \A t \in Bank : Passed(t) => Passed(t)'
    BY <1>1, <2>2, <2>3 DEF Passed
  <2> QED
    BY <1>1, <2>2, <2>3, <2>5, <2>6 DEF MomentInv
<1> QED
  BY <1>2, <1>3
\* The answers: what a good bank holds, and Missing.
LEMMA AnswerOfBank ==
    ASSUME IInv, MomentInv, LoadSecondChunk, reader'.pc = "idle"
    PROVE  \/ reader'.result \in reader.current
           \/ reader'.result = reader.found[reader.order[1]].crc /\ reader.overtaken = 2
<1>1. /\ reader.pc = "chunk2" /\ reader.order # <<>> /\ reader.order \in Orders
      /\ Len(reader.order) = 2 =>
            reader.found[reader.order[1]].seq >= reader.found[reader.order[2]].seq
  BY DEF LoadSecondChunk, IInv, ReaderInv, Shape
<1>2. PICK b \in Bank : b = reader.order[1]
  BY <1>1, OrderFacts
<1> DEFINE rest == flash[b].body[2]
           crc == reader.found[b].crc
<1>3. CrcMatches(reader.chunk, rest, crc)
  <2> SUFFICES ASSUME ~CrcMatches(reader.chunk, rest, crc) PROVE FALSE
    OBVIOUS
  <2>1. reader' = [reader EXCEPT !.order = Tail(@), !.pc = "chunk1"]
    BY <1>2 DEF LoadSecondChunk
  <2>2. reader'.pc = "chunk1"
    BY <2>1 DEF IInv, Shape
  <2> QED
    BY <2>2
<1>4. LoadEnds(Payload(reader.chunk, rest))
  BY <1>2, <1>3 DEF LoadSecondChunk
<1>5. reader'.result = crc /\ rest = crc /\ crc \in Value
  <2>1. Payload(reader.chunk, rest) = crc /\ rest = crc
    BY <1>3 DEF CrcMatches, Payload
  <2>2. reader'.result = crc
    BY <1>4, <2>1 DEF LoadEnds, IInv, Shape
  <2>3. flash[b] \in BankRecord /\ reader.found[b] \in Headers /\ InOrder(b)
    BY <1>1, <1>2, FlashFacts, OrderFacts DEF IInv, Shape, InOrder
  <2>4. crc \in Value \cup {BadCrc} /\ rest \in Cells
    BY <1>1, <2>3, HeaderFacts, GoodFacts DEF IInv, ReaderInv
  <2>5. crc \in Value
    BY <2>1, <2>4, SliceStoreAssumption DEF Cells, BadCrc, Blank, Junk
  <2> QED
    BY <2>1, <2>2, <2>5
<1>6. Latest(b) => crc \in reader.current
  BY <1>1, <1>5, LatestFacts DEF MomentInv
<1>7. CASE reader.overtaken = 0
  <2>1. Undisturbed
    BY <1>1, <1>7 DEF MomentInv
  <2>2. PICK n \in Bank : Latest(n)
    BY <1>5, <2>1, LatestFacts DEF Undisturbed
  <2>3. CASE n # b
    <3>1. b = 1 - n
      BY <2>3, OtherBank
    <3>2. /\ InOrder(n) /\ reader.found[n] = flash[n].hdr /\ reader.found[b].seq < flash[n].hdr.seq
      BY <1>1, <1>5, <2>1, <2>2, <3>1 DEF Undisturbed
    <3>3. Len(reader.order) = 2 /\ reader.order[2] = n
      BY <1>1, <1>2, <2>3, <3>2, OrderFacts DEF InOrder
    <3>4. reader.found[b].seq >= reader.found[n].seq
      BY <1>1, <1>2, <3>3
    <3>5. reader.found[b].seq \in Nat /\ reader.found[n].seq \in Nat
      BY HeaderFacts DEF IInv, Shape
    <3>6. FALSE
      <4>1. reader.found[b].seq < reader.found[n].seq
        BY <3>2
      <4> QED
        BY <3>4, <3>5, <4>1, SMT
    <3> QED
      BY <3>6
  <2> QED
    BY <1>5, <1>6, <2>2, <2>3
<1>8. CASE reader.overtaken = 1
  <2>1. PICK t \in Bank : Passed(t)
    BY <1>1, <1>8 DEF MomentInv
  <2>2. b = t \/ b = 1 - t
    BY OtherBank
  <2> QED
    BY <1>5, <1>6, <2>1, <2>2 DEF Passed
<1>9. reader.overtaken \in {0, 1, 2}
  BY DEF IInv, Shape
<1> QED
  BY <1>2, <1>5, <1>7, <1>8, <1>9

LEMMA AnswerMissing ==
    ASSUME IInv, MomentInv, LoadMissing
    PROVE  reader'.result = None /\ (None \in reader.current \/ reader.overtaken > 0)
<1>1. /\ reader.pc = "chunk1" /\ reader.order = <<>>
      /\ reader' = [reader EXCEPT !.pc = "idle", !.result = None, !.order = <<>>]
  BY DEF LoadMissing, LoadEnds
<1>2. reader'.result = None /\ reader.overtaken \in {0, 1, 2}
  BY <1>1 DEF IInv, Shape
<1>3. \A n \in Bank : ~InOrder(n)
  BY <1>1, SMT DEF InOrder
<1>4. CASE reader.overtaken = 0
  <2>1. \A n \in Bank : ~Latest(n)
    BY <1>1, <1>3, <1>4 DEF MomentInv, Undisturbed
  <2>2. Recovered = None
    BY <2>1, LatestFacts
  <2> QED
    BY <1>1, <1>2, <2>2 DEF MomentInv
<1>5. CASE reader.overtaken # 0
  <2>1. reader.overtaken > 0
    BY <1>2, <1>5, SMT
  <2> QED
    BY <1>2, <2>1
<1> QED
  BY <1>4, <1>5

LEMMA MomentStep ==
    ASSUME ~ReadsMayFail
    PROVE  IInv /\ MomentInv /\ [SliceNext]_sliceVars => MomentInv'
<1> SUFFICES ASSUME IInv, MomentInv, [SliceNext]_sliceVars PROVE MomentInv'
  OBVIOUS
<1>1. ASSUME NEW w \in Writers, SliceWriter(w) PROVE MomentInv'
  <2>1. CASE (\E v \in Value : BeginWrite(w, v)) \/ CommitServed(w) \/ Abort(w)
    BY <2>1, MomentStays DEF BeginWrite, CommitServed, Abort
  <2>2. CASE EraseTarget(w) \/ AppendChunk(w) \/ EraseStale(w) \/ Fail(w)
    <3>1. Watch(FALSE)
      BY <2>2 DEF EraseTarget, AppendChunk, EraseStale, Fail
    <3>2. \E t \in Bank : Spoils(t)
      BY <2>2, EraseTargetStep, AppendChunkStep, EraseStaleStep, FailStep
    <3> QED
      BY <3>1, <3>2, SpoiledMoment
  <2>3. CASE CommitHeader(w)
    BY <2>3, CommitHeaderStep, CommitMoment
  <2> QED
    BY <1>1, <2>1, <2>2, <2>3 DEF SliceWriter
<1>2. CASE LoadBegin \/ LoadHeader \/ LoadFirstChunk \/ LoadSecondChunk
  BY <1>2, LoadBeginMoment, LoadHeaderMoment, LoadFirstChunkMoment, LoadSecondChunkMoment
<1>3. CASE LoadMissing
  <2>1. reader' = [reader EXCEPT !.pc = "idle", !.result = None, !.order = <<>>]
    BY <1>3 DEF LoadMissing, LoadEnds
  <2>2. reader'.pc = "idle"
    BY <2>1 DEF IInv, Shape
  <2> QED
    BY <2>2 DEF MomentInv
<1>4. CASE LoadReadFails \/ PowerLoss
  <2>1. reader' = NoLoad
    BY <1>4 DEF LoadReadFails, PowerLoss
  <2>2. reader'.pc = "idle"
    BY <2>1 DEF NoLoad
  <2> QED
    BY <2>2 DEF MomentInv
<1>5. CASE UNCHANGED sliceVars
  BY <1>5, MomentStays DEF sliceVars
<1> QED
  BY <1>1, <1>2, <1>3, <1>4, <1>5 DEF SliceNext, SliceLoad

LEMMA AnswerStep ==
    ASSUME ~ReadsMayFail, IInv, MomentInv, [SliceNext]_sliceVars,
           reader.pc # "idle", reader'.pc = "idle", reader' # NoLoad
    PROVE  \/ reader'.result \in reader.current
           \/ reader'.result = None /\ reader.overtaken > 0
           \/ reader'.result = reader.found[reader.order[1]].crc /\ reader.overtaken = 2
<1>1. ASSUME NEW w \in Writers, SliceWriter(w) PROVE FALSE
  <2>1. reader' = reader \/ Watch(FALSE) \/ Watch(TRUE)
    BY <1>1 DEF SliceWriter, BeginWrite, EraseTarget, AppendChunk, CommitHeader, CommitServed,
                EraseStale, Fail, Abort
  <2>2. reader'.pc = reader.pc
    BY <2>1 DEF Watch, IInv, Shape
  <2> QED
    BY <2>2
<1>2. ~LoadBegin
  BY DEF LoadBegin
<1>3. ~LoadHeader /\ ~LoadFirstChunk
  <2>1. ASSUME NEW f, NEW o, reader' = [reader EXCEPT !.found = f, !.order = o, !.pc = "chunk1"]
        PROVE  FALSE
    BY <2>1 DEF IInv, Shape
  <2>2. ASSUME NEW c, reader' = [reader EXCEPT !.chunk = c, !.pc = "chunk2"] PROVE FALSE
    BY <2>2 DEF IInv, Shape
  <2> QED
    BY <2>1, <2>2 DEF LoadHeader, LoadFirstChunk
<1>4. ~LoadReadFails /\ ~PowerLoss
  BY DEF LoadReadFails, PowerLoss
<1>5. ~UNCHANGED sliceVars
  BY DEF sliceVars
<1>6. LoadSecondChunk \/ LoadMissing
  BY <1>1, <1>2, <1>3, <1>4, <1>5 DEF SliceNext, SliceLoad
<1> QED
  BY <1>6, AnswerOfBank, AnswerMissing

\* Whatever writes, fails and is committed beside it, load answers with a
\* content the slot had while it ran; it says Missing of a slot that has one only
\* when a commit passed it, and an older content than that only when two did.
THEOREM LoadsAnswerSomeMoment == ASSUME ~ReadsMayFail PROVE SliceSpec => LoadAnswersSomeMoment
<1>1. SliceInit => MomentInv
  <2>1. SliceInit => reader = NoLoad
    BY DEF SliceInit
  <2>2. NoLoad.pc = "idle"
    BY DEF NoLoad
  <2> QED
    BY <2>1, <2>2 DEF MomentInv
<1>2. IInv /\ MomentInv /\ [SliceNext]_sliceVars =>
        [reader.pc # "idle" /\ reader'.pc = "idle" /\ reader' # NoLoad =>
            \/ reader'.result \in reader.current
            \/ reader'.result = None /\ reader.overtaken > 0
            \/ reader'.result = reader.found[reader.order[1]].crc /\ reader.overtaken = 2]_sliceVars
  BY AnswerStep
<1> QED
  BY <1>1, <1>2, Invariance, MomentStep, PTL DEF SliceSpec, LoadAnswersSomeMoment
=============================================================================
