------------------------ MODULE RulesDocumentProofs ------------------------
(***************************************************************************)
(* Proofs about the rules document: the engine runs the document as it is, *)
(* compiled for the names as they are, and no editor's commit overwrites a *)
(* change its author had not read, for every set of editors and of texts,  *)
(* every number of banks and every sequence of edits, toggles, renames,    *)
(* imports, faults and power losses.                                       *)
(***************************************************************************)
EXTENDS RulesDocument, TLAPS

\* A leaf that names no prover is for Zenon; one that counts, or takes a record or
\* a sequence apart, cites SMT.
USE Zenon

Texts == RuleTexts \cup {PeerDoc.text}
Written == UNION {Range(t) : t \in Texts}
Rules == Written \cup DOMAIN PeerDoc.table
RuleSetsOf(t) == [bind : {0, 1}, on : [Range(t) -> BOOLEAN]]
Tables == UNION {[D -> BOOLEAN] : D \in SUBSET Rules}
Diagnoses == {None, "rules_banks_torn", "rules_compile_failed", "rules_names_unresolved"}
Docs == [text : Texts \cup {<<>>}, lang : BOOLEAN, rev : Nat,
         compiled : {None} \cup UNION {RuleSetsOf(t) : t \in Texts}, diag : Diagnoses, table : Tables]
Manifests == [text : Texts, rev : Nat, table : Tables]
Writes == ((1 .. TextBanks) \X (Rules \cup {""})) \cup ({ManifestBank} \X Manifests)

\* A document that is one was compiled from its own text, or says why not.
GoodDoc(d) ==
    /\ d \in Docs
    /\ d.lang => d.text \in Texts
    /\ d.compiled # None => d.lang /\ d.compiled \in RuleSetsOf(d.text)
    /\ d.lang /\ d.compiled = None => d.diag # None

\* What an editor has read, under a document d loaded n times.  The revision only
\* grows between two loads, so the same revision is the same text and switches.
Snapshot(d, n, seen, read) ==
    /\ seen \in Docs /\ read \in Nat /\ read <= n
    /\ read = n => /\ seen.rev <= d.rev
                   /\ seen.rev = d.rev => seen.text = d.text /\ seen.table = d.table

EditorOK(d, n, r) ==
    /\ r \in [phase : {"idle", "read", "sending", "sent"}, seen : Docs, loads : Nat,
              text : RuleTexts \cup {<<>>}, sent : Nat]
    /\ Snapshot(d, n, r.seen, r.loads)
    /\ r.phase = "read" => r.sent = 0
    /\ r.phase = "sending" => r.text \in RuleTexts /\ r.sent <= Len(r.text)

CommandOK(d, n, c) ==
    /\ c.kind \in {"stage", "commit", "enable", "reloaded", "renamed"}
    /\ c.kind = "enable" => c.on \in BOOLEAN
    /\ c.kind = "commit" => /\ c.text \in RuleTexts /\ c.corr \in Editors
                            /\ c.base = c.seen.rev /\ Snapshot(d, n, c.seen, c.loads)

\* A rename the document has not been compiled for yet.
RenamePending == dirty \/ \E c \in Range(cmds) : c.kind = "renamed"

WorkerOK ==
    /\ worker \in [pc : {"idle", "commit", "toggle"}, writes : Seq(Writes), next : Docs,
                   by : Editors \cup {None}, seen : Docs, loads : Nat]
    /\ worker.pc = "idle" <=> worker.writes = <<>>
    /\ worker.pc = "commit" =>
         /\ GoodDoc(worker.next) /\ worker.next.lang /\ worker.next.rev = doc.rev + 1
         /\ worker.by \in Editors
         /\ RenamePending \/ worker.next.compiled = recompiled(worker.next)
         /\ worker.loads = loads => doc.text = worker.seen.text /\ doc.table = worker.seen.table

EngineInv ==
    /\ ruleEngine.rev \in Nat /\ ruleEngine.rev <= doc.rev
    /\ ruleEngine.rev = doc.rev => ruleEngine.rules = doc.compiled

NamesInv == doc.lang => RenamePending \/ doc.compiled = recompiled(doc)

Around ==
    /\ names \in {1, None} /\ loads \in Nat /\ dirty \in BOOLEAN
    /\ manifest = None \/ manifest \in Manifests
    /\ importing \in Seq(Writes)
    /\ cmds \in Seq(Range(cmds)) /\ \A c \in Range(cmds) : CommandOK(doc, loads, c)
    /\ editors = [e \in Editors |-> editors[e]] /\ \A e \in Editors : EditorOK(doc, loads, editors[e])

IInv == GoodDoc(doc) /\ Around /\ WorkerOK /\ EngineInv /\ NamesInv

----------------------------------------------------------------------------
\* The constants and the sequences.
LEMMA TextFacts ==
    /\ TextBanks \in Nat
    /\ \A t \in Texts : t \in Seq(Rules) /\ Range(t) \subseteq Rules /\ None \notin RuleSetsOf(t)
    /\ PeerDoc.text \in Texts /\ PeerDoc.rev \in Nat /\ PeerDoc.table \in Tables
    /\ None \notin {"rules_banks_torn", "rules_compile_failed", "rules_names_unresolved"}
  <1>1. /\ TextBanks \in Nat /\ Texts \subseteq Seq(Written)
        /\ PeerDoc.rev \in Nat /\ PeerDoc.table \in [DOMAIN PeerDoc.table -> BOOLEAN]
        /\ \A t \in Texts : None \notin RuleSetsOf(t)
        /\ None \notin {"rules_banks_torn", "rules_compile_failed", "rules_names_unresolved"}
    BY DocAssumption DEF Texts, Written, RuleSetsOf
  <1>2. Written \subseteq Rules /\ DOMAIN PeerDoc.table \subseteq Rules
    BY DEF Rules
  <1>3. \A t \in Texts : t \in Seq(Written)
    BY <1>1
  <1>4. \A t \in Texts : Range(t) \subseteq Rules
    BY DEF Rules, Written
  <1>5. \A t \in Texts : t \in Seq(Rules)
    BY <1>2, <1>3, SMT
  <1>6. PeerDoc.table \in Tables
    BY <1>1, <1>2 DEF Tables
  <1> QED BY <1>1, <1>4, <1>5, <1>6 DEF Texts

LEMMA AppendFacts ==
    ASSUME NEW S, NEW s \in Seq(S), NEW x
    PROVE  /\ Range(Append(s, x)) = Range(s) \cup {x}
           /\ Append(s, x) \in Seq(S \cup {x}) /\ Append(s, x) # <<>>
  <1>1. /\ Append(s, x) \in Seq(S \cup {x}) /\ Len(Append(s, x)) = Len(s) + 1 /\ Len(s) \in Nat
        /\ DOMAIN s = 1 .. Len(s) /\ DOMAIN Append(s, x) = 1 .. (Len(s) + 1)
        /\ Append(s, x)[Len(s) + 1] = x /\ \A i \in 1 .. Len(s) : Append(s, x)[i] = s[i]
    BY SMT
  <1>2. \A i : i \in 1 .. (Len(s) + 1) <=> i \in 1 .. Len(s) \/ i = Len(s) + 1
    BY <1>1, SMT
  <1>3. Range(Append(s, x)) = Range(s) \cup {x}
    BY <1>1, <1>2 DEF Range
  <1>4. Append(s, x) # <<>>
    BY <1>1, SMT
  <1> QED BY <1>1, <1>3, <1>4

LEMMA EmptyHasNoLength == ASSUME NEW S, NEW s \in Seq(S) PROVE s = <<>> <=> Len(s) = 0
  BY SMT

LEMMA TailFacts ==
    ASSUME NEW S, NEW s \in Seq(S), s # <<>>
    PROVE  /\ Range(s) = {Head(s)} \cup Range(Tail(s))
           /\ Head(s) \in S /\ Tail(s) \in Seq(S) /\ Len(s) \in Nat
           /\ Len(s) > 1 <=> Tail(s) # <<>>
  <1>1. /\ Tail(s) \in Seq(S) /\ Len(Tail(s)) = Len(s) - 1 /\ Len(s) \in Nat /\ Len(s) >= 1
        /\ DOMAIN s = 1 .. Len(s) /\ DOMAIN Tail(s) = 1 .. (Len(s) - 1)
        /\ Head(s) = s[1] /\ \A i \in 1 .. (Len(s) - 1) : Tail(s)[i] = s[i + 1]
        /\ Head(s) \in S
    BY SMT
  <1>2. \A i : i \in 1 .. Len(s) <=> i = 1 \/ \E j \in 1 .. (Len(s) - 1) : i = j + 1
    <2>1. \A i \in 1 .. Len(s) : i = 1 \/ (i - 1 \in 1 .. (Len(s) - 1) /\ i = (i - 1) + 1)
      BY <1>1, SMT
    <2>2. 1 \in 1 .. Len(s) /\ \A j \in 1 .. (Len(s) - 1) : j + 1 \in 1 .. Len(s)
      BY <1>1, SMT
    <2> QED BY <2>1, <2>2
  <1>3. Range(s) = {Head(s)} \cup Range(Tail(s))
    <2>1. ASSUME NEW y \in Range(s) PROVE y = Head(s) \/ y \in Range(Tail(s))
      <3>1. PICK i \in 1 .. Len(s) : y = s[i]
        BY <1>1 DEF Range
      <3>2. CASE i = 1
        BY <1>1, <3>1, <3>2
      <3>3. ASSUME NEW j \in 1 .. (Len(s) - 1), i = j + 1 PROVE y \in Range(Tail(s))
        BY <1>1, <3>1, <3>3 DEF Range
      <3> QED BY <1>2, <3>1, <3>2, <3>3
    <2>2. Head(s) \in Range(s)
      BY <1>1, <1>2 DEF Range
    <2>3. ASSUME NEW y \in Range(Tail(s)) PROVE y \in Range(s)
      <3>1. PICK j \in 1 .. (Len(s) - 1) : y = Tail(s)[j]
        BY <1>1 DEF Range
      <3>2. j + 1 \in 1 .. Len(s) /\ y = s[j + 1]
        BY <1>1, <1>2, <3>1
      <3> QED BY <1>1, <3>2 DEF Range
    <2> QED BY <2>1, <2>2, <2>3
  <1>4. Len(s) > 1 <=> Tail(s) # <<>>
    <2>1. Tail(s) = <<>> <=> Len(Tail(s)) = 0
      BY <1>1, EmptyHasNoLength
    <2>2. Len(s) > 1 <=> Len(s) - 1 # 0
      BY <1>1, SMT
    <2> QED BY <1>1, <2>1, <2>2
  <1> QED BY <1>1, <1>3, <1>4

\* A sequence of its own elements.
LEMMA OwnElements ==
    ASSUME NEW S, NEW s \in Seq(S)
    PROVE  s \in Seq(Range(s))
  <1>1. DOMAIN s = 1 .. Len(s) /\ Len(s) \in Nat
    BY SMT
  <1>2. \A i \in 1 .. Len(s) : s[i] \in Range(s)
    BY <1>1 DEF Range
  <1> DEFINE T == Range(s)
  <1>3. \A i \in 1 .. Len(s) : s[i] \in T
    BY <1>2
  <1> HIDE DEF T
  <1>4. s \in Seq(T)
    BY <1>1, <1>3, SMT
  <1> QED BY <1>4 DEF T

LEMMA EmptyFacts ==
    /\ <<>> \in [{} -> BOOLEAN] /\ <<>> \in Tables /\ \A S : <<>> \in Seq(S)
    /\ Range(<<>>) = {} /\ <<>> \in Seq(Range(<<>>))
  <1>1. <<>> \in [{} -> BOOLEAN] /\ (\A S : <<>> \in Seq(S)) /\ DOMAIN <<>> = {}
    BY SMT
  <1>2. <<>> \in Tables
    BY <1>1 DEF Tables
  <1> QED BY <1>1, <1>2 DEF Range

LEMMA NoDocumentFacts ==
    /\ NoDocument \in Docs /\ GoodDoc(NoDocument)
    /\ NoDocument.rev = 0 /\ ~NoDocument.lang /\ NoDocument.compiled = None
    /\ NoDocument.text = <<>> /\ NoDocument.table = <<>>
  <1>1. NoDocument \in Docs
    BY EmptyFacts DEF NoDocument, Docs, Diagnoses
  <1> QED BY <1>1 DEF GoodDoc, NoDocument

----------------------------------------------------------------------------
\* Compiling.
LEMMA CompileFacts ==
    ASSUME names \in {1, None}, NEW t \in Texts
    PROVE  /\ compile(t) = None \/ compile(t) \in RuleSetsOf(t)
           /\ compile(t) # None => /\ compile(t).on = [r \in Range(t) |-> TRUE]
                                   /\ compile(t).on \in Tables
  <1>1. [r \in Range(t) |-> TRUE] \in [Range(t) -> BOOLEAN]
    OBVIOUS
  <1>2. compile(t) = None \/ compile(t) \in RuleSetsOf(t)
    BY <1>1 DEF compile, RuleSetsOf
  <1>3. compile(t) # None => compile(t).on = [r \in Range(t) |-> TRUE]
    BY DEF compile
  <1>4. [r \in Range(t) |-> TRUE] \in Tables
    BY <1>1, TextFacts DEF Tables
  <1> QED BY <1>2, <1>3, <1>4

LEMMA TableFacts ==
    ASSUME NEW set, NEW t, set \in RuleSetsOf(t), NEW table \in Tables
    PROVE  /\ apply_enable_table(set, table) \in RuleSetsOf(t)
           /\ apply_enable_table(set, table).bind = set.bind
           /\ \A r \in Range(t) : apply_enable_table(set, table).on[r]
                                  = IF r \in DOMAIN table THEN table[r] ELSE set.on[r]
  <1>1. set.bind \in {0, 1} /\ set.on \in [Range(t) -> BOOLEAN] /\ DOMAIN set.on = Range(t)
    BY DEF RuleSetsOf
  <1>2. \A r \in DOMAIN table : table[r] \in BOOLEAN
    BY DEF Tables
  <1> DEFINE on == [r \in Range(t) |-> IF r \in DOMAIN table THEN table[r] ELSE set.on[r]]
  <1>3. on \in [Range(t) -> BOOLEAN]
    BY <1>1, <1>2
  <1>4. apply_enable_table(set, table) = [set EXCEPT !.on = on]
    BY <1>1 DEF apply_enable_table
  <1> HIDE DEF on
  <1>5. /\ [set EXCEPT !.on = on] \in RuleSetsOf(t)
        /\ [set EXCEPT !.on = on].bind = set.bind /\ [set EXCEPT !.on = on].on = on
    BY <1>1, <1>3, SMT DEF RuleSetsOf
  <1> QED BY <1>4, <1>5 DEF on

LEMMA SameRuleSet ==
    ASSUME NEW t, NEW a \in RuleSetsOf(t), NEW b \in RuleSetsOf(t),
           a.bind = b.bind, \A r \in Range(t) : a.on[r] = b.on[r]
    PROVE  a = b
  <1>1. a.on \in [Range(t) -> BOOLEAN] /\ b.on \in [Range(t) -> BOOLEAN]
    BY DEF RuleSetsOf
  <1>2. a.on = b.on
    BY <1>1, SMT
  <1> QED BY <1>2, SMT DEF RuleSetsOf

LEMMA RecompiledFacts ==
    ASSUME names \in {1, None}, NEW d, d.text \in Texts, d.table \in Tables
    PROVE  recompiled(d) = None \/ recompiled(d) \in RuleSetsOf(d.text)
  BY CompileFacts, TableFacts DEF recompiled

\* A freshly compiled text carries its own switches.
LEMMA OwnTable ==
    ASSUME names \in {1, None}, NEW d, d.text \in Texts, compile(d.text) # None,
           d.table = compile(d.text).on
    PROVE  recompiled(d) = compile(d.text)
  <1> DEFINE set == compile(d.text)
             applied == apply_enable_table(set, d.table)
  <1>1. set \in RuleSetsOf(d.text) /\ set.on \in Tables /\ set.on = [r \in Range(d.text) |-> TRUE]
    BY CompileFacts
  <1>2. /\ applied \in RuleSetsOf(d.text) /\ applied.bind = set.bind
        /\ \A r \in Range(d.text) : applied.on[r] = IF r \in DOMAIN d.table THEN d.table[r] ELSE set.on[r]
    <2>1. d.table \in Tables
      BY <1>1
    <2> QED BY <1>1, <2>1, TableFacts
  <1>3. recompiled(d) = applied
    BY DEF recompiled
  <1> HIDE DEF set, applied
  <1>4. \A r \in Range(d.text) : applied.on[r] = set.on[r]
    <2>1. d.table = set.on
      BY DEF set
    <2> QED BY <1>2, <2>1
  <1>5. applied \in RuleSetsOf(d.text) /\ set \in RuleSetsOf(d.text) /\ applied.bind = set.bind
    BY <1>1, <1>2
  <1>6. applied = set
    BY <1>4, <1>5, SameRuleSet, SMTT(20)
  <1> QED BY <1>3, <1>6 DEF set

\* A switch recorded in the table is the switch of the rules.
LEMMA Toggled ==
    ASSUME names \in {1, None}, NEW d, d.text \in Texts, d.table \in Tables,
           NEW e, e.text = d.text, NEW r \in Range(d.text), NEW on \in BOOLEAN,
           e.table = record_enabled(d.table, r, on),
           d.compiled # None, d.compiled \in RuleSetsOf(d.text),
           e.compiled = [d.compiled EXCEPT !.on[r] = on]
    PROVE  /\ e.table \in Tables /\ e.compiled \in RuleSetsOf(d.text)
           /\ d.compiled = recompiled(d) => e.compiled = recompiled(e)
  <1> DEFINE t == d.text
             old == d.compiled
             new == [old EXCEPT !.on[r] = on]
  <1>1. /\ new \in RuleSetsOf(t) /\ new.bind = old.bind /\ new.on[r] = on
        /\ \A q \in Range(t) : q # r => new.on[q] = old.on[q]
    BY SMT DEF RuleSetsOf
  <1>2. PICK D \in SUBSET Rules : d.table \in [D -> BOOLEAN]
    BY DEF Tables
  <1>3. /\ e.table \in [D \cup {r} -> BOOLEAN] /\ D \cup {r} \in SUBSET Rules
        /\ DOMAIN e.table = DOMAIN d.table \cup {r} /\ e.table[r] = on
        /\ \A q \in DOMAIN d.table : q # r => e.table[q] = d.table[q]
    <2>1. r \in Rules
      BY TextFacts
    <2>2. e.table = [q \in D \cup {r} |-> IF q = r THEN on ELSE d.table[q]] /\ DOMAIN d.table = D
      BY <1>2 DEF record_enabled
    <2>3. \A q \in D \cup {r} : (IF q = r THEN on ELSE d.table[q]) \in BOOLEAN
      BY <1>2
    <2>4. e.table \in [D \cup {r} -> BOOLEAN]
      BY <2>2, <2>3
    <2>5. DOMAIN e.table = DOMAIN d.table \cup {r} /\ e.table[r] = on
      BY <2>2
    <2>6. \A q \in DOMAIN d.table : q # r => e.table[q] = d.table[q]
      BY <2>2
    <2> QED BY <2>1, <2>4, <2>5, <2>6
  <1>4. e.table \in Tables
    BY <1>3 DEF Tables
  <1>5. ASSUME old = recompiled(d) PROVE new = recompiled(e)
    <2> DEFINE set == compile(t)
               was == apply_enable_table(set, d.table)
               is == apply_enable_table(set, e.table)
    <2>1. set # None /\ old = was /\ recompiled(e) = is
      BY <1>5 DEF recompiled
    <2>2. set \in RuleSetsOf(t)
      BY <2>1, CompileFacts
    <2>3. /\ was.bind = set.bind /\ is \in RuleSetsOf(t) /\ is.bind = set.bind
          /\ \A q \in Range(t) : was.on[q] = IF q \in DOMAIN d.table THEN d.table[q] ELSE set.on[q]
          /\ \A q \in Range(t) : is.on[q] = IF q \in DOMAIN e.table THEN e.table[q] ELSE set.on[q]
      <3>1. d.table \in Tables /\ e.table \in Tables
        BY <1>4
      <3> HIDE DEF set
      <3>2. /\ was.bind = set.bind
            /\ \A q \in Range(t) : was.on[q] = IF q \in DOMAIN d.table THEN d.table[q] ELSE set.on[q]
        BY <2>2, <3>1, TableFacts, SMT
      <3>3. /\ is \in RuleSetsOf(t) /\ is.bind = set.bind
            /\ \A q \in Range(t) : is.on[q] = IF q \in DOMAIN e.table THEN e.table[q] ELSE set.on[q]
        BY <2>2, <3>1, TableFacts, SMTT(20)
      <3> QED BY <3>2, <3>3
    <2> HIDE DEF set, was, is, old, new
    <2>4. ASSUME NEW q \in Range(t) PROVE new.on[q] = is.on[q]
      <3>1. CASE q = r
        BY <1>1, <1>3, <2>3, <3>1
      <3>2. CASE q # r
        <4>1. new.on[q] = was.on[q]
          BY <1>1, <2>1, <3>2
        <4>2. q \in DOMAIN e.table <=> q \in DOMAIN d.table
          BY <1>3, <3>2
        <4> QED BY <1>3, <2>3, <3>2, <4>1, <4>2
      <3> QED BY <3>1, <3>2
    <2>5. new.bind = is.bind
      BY <1>1, <2>1, <2>3
    <2>6. new = is
      BY <1>1, <2>3, <2>4, <2>5, SameRuleSet, SMT
    <2> QED BY <2>1, <2>6
  <1> QED BY <1>1, <1>4, <1>5
----------------------------------------------------------------------------
\* What editors have read, and the bus.

\* How the document moves: not at all, to a later revision, or by a load.
Moves(d, n, e, m) ==
    /\ d.rev \in Nat /\ e.rev \in Nat /\ n \in Nat /\ m \in Nat
    /\ (e = d /\ m = n) \/ (m = n /\ e.rev > d.rev) \/ m = n + 1

LEMMA SnapshotMoves ==
    ASSUME NEW d, NEW n, NEW e, NEW m, Moves(d, n, e, m), NEW seen, NEW read, Snapshot(d, n, seen, read)
    PROVE  Snapshot(e, m, seen, read)
  <1>1. read \in Nat /\ read <= n /\ seen \in Docs /\ seen.rev \in Nat
    BY DEF Snapshot, Docs
  <1>2. CASE e = d /\ m = n
    BY <1>2
  <1>3. CASE m = n /\ e.rev > d.rev
    <2>1. read = m => seen.rev <= d.rev
      BY <1>3 DEF Snapshot
    <2>2. read = m => seen.rev <= e.rev /\ seen.rev # e.rev
      BY <1>1, <1>3, <2>1, SMT DEF Moves
    <2> QED BY <1>1, <1>3, <2>2 DEF Snapshot
  <1>4. CASE m = n + 1
    <2>1. read <= m /\ read # m
      BY <1>1, <1>4, SMT DEF Moves
    <2> QED BY <1>1, <2>1 DEF Snapshot
  <1> QED BY <1>2, <1>3, <1>4 DEF Moves

LEMMA CommandMoves ==
    ASSUME NEW d, NEW n, NEW e, NEW m, Moves(d, n, e, m), NEW c, CommandOK(d, n, c)
    PROVE  CommandOK(e, m, c)
  BY SnapshotMoves DEF CommandOK

LEMMA EditorMoves ==
    ASSUME NEW d, NEW n, NEW e, NEW m, Moves(d, n, e, m), NEW r, EditorOK(d, n, r)
    PROVE  EditorOK(e, m, r)
  BY SnapshotMoves DEF EditorOK

LEMMA EditorRests ==
    ASSUME NEW d, NEW n, NEW r, EditorOK(d, n, r)
    PROVE  EditorOK(d, n, [r EXCEPT !.phase = "idle"])
  <1> DEFINE q == [r EXCEPT !.phase = "idle"]
  <1>1. /\ q \in [phase : {"idle", "read", "sending", "sent"}, seen : Docs, loads : Nat,
                  text : RuleTexts \cup {<<>>}, sent : Nat]
        /\ q.phase = "idle" /\ q.seen = r.seen /\ q.loads = r.loads
    BY DEF EditorOK
  <1> HIDE DEF q
  <1> QED BY <1>1 DEF EditorOK, q

\* The handlers and the queue after a step of the worker.
LEMMA AroundWorker ==
    ASSUME IInv, Moves(doc, loads, doc', loads'), dirty' \in BOOLEAN,
           names' = names, importing' = importing,
           manifest' = manifest \/ manifest' \in Manifests,
           cmds' = cmds \/ (cmds # <<>> /\ cmds' = Tail(cmds)),
           editors' = editors \/ \E x \in Editors : editors' = [editors EXCEPT ![x].phase = "idle"]
    PROVE  Around'
  <1>1. loads' \in Nat
    BY DEF Moves
  <1>2. cmds' \in Seq(Range(cmds')) /\ Range(cmds') \subseteq Range(cmds)
    <2>1. cmds \in Seq(Range(cmds))
      BY DEF IInv, Around
    <2>2. CASE cmds # <<>> /\ cmds' = Tail(cmds)
      <3>1. Tail(cmds) \in Seq(Range(cmds)) /\ Range(Tail(cmds)) \subseteq Range(cmds)
        BY <2>1, <2>2, TailFacts
      <3>2. Tail(cmds) \in Seq(Range(Tail(cmds)))
        BY <3>1, OwnElements
      <3> QED BY <2>2, <3>1, <3>2
    <2> QED BY <2>1, <2>2
  <1>3. \A c \in Range(cmds') : CommandOK(doc', loads', c)
    BY <1>2, CommandMoves DEF IInv, Around
  <1> DEFINE Still == /\ editors' = [e \in Editors |-> editors'[e]]
                      /\ \A e \in Editors : EditorOK(doc, loads, editors'[e])
  <1>4. Still
    <2>1. CASE editors' = editors
      BY <2>1 DEF IInv, Around
    <2>2. ASSUME NEW x \in Editors, editors' = [editors EXCEPT ![x].phase = "idle"]
          PROVE  Still
      <3>1. editors = [e \in Editors |-> editors[e]] /\ \A e \in Editors : EditorOK(doc, loads, editors[e])
        BY DEF IInv, Around
      <3>2. editors' = [e \in Editors |-> IF e = x THEN [editors[e] EXCEPT !.phase = "idle"] ELSE editors[e]]
        BY <2>2, <3>1
      <3>3. editors' = [e \in Editors |-> editors'[e]]
        BY <3>2
      <3>4. \A e \in Editors : editors'[e] = editors[e] \/ editors'[e] = [editors[e] EXCEPT !.phase = "idle"]
        BY <3>2
      <3>5. ASSUME NEW e \in Editors PROVE EditorOK(doc, loads, editors'[e])
        <4>1. EditorOK(doc, loads, editors[e])
          BY <3>1
        <4>2. EditorOK(doc, loads, [editors[e] EXCEPT !.phase = "idle"])
          BY <4>1, EditorRests
        <4> QED BY <3>4, <4>1, <4>2
      <3> QED BY <3>3, <3>5
    <2> QED BY <2>1, <2>2
  <1>5. \A e \in Editors : EditorOK(doc', loads', editors'[e])
    BY <1>4, EditorMoves
  <1> QED BY <1>1, <1>2, <1>3, <1>4, <1>5 DEF IInv, Around

LEMMA NamesKept ==
    ASSUME names' = names
    PROVE  recompiled(doc)' = recompiled(doc') /\ recompiled(worker.next)' = recompiled(worker'.next)
  BY DEF recompiled, compile

\* A step after which the worker writes nothing and no rename was forgotten.
LEMMA WorkerRests == ASSUME worker' = IdleWorker PROVE WorkerOK'
  <1>1. IdleWorker \in [pc : {"idle", "commit", "toggle"}, writes : Seq(Writes), next : Docs,
                        by : Editors \cup {None}, seen : Docs, loads : Nat]
    BY EmptyFacts, NoDocumentFacts DEF IdleWorker
  <1> QED BY <1>1 DEF WorkerOK, IdleWorker

\* The steps that leave the document, the worker and the engine alone.
LEMMA QuietDocument ==
    ASSUME IInv, doc' = doc, worker' = worker, ruleEngine' = ruleEngine, loads' = loads,
           RenamePending' \/ (names' = names /\ ~RenamePending)
    PROVE  GoodDoc(doc)' /\ WorkerOK' /\ EngineInv' /\ NamesInv'
  <1>1. names' = names => recompiled(doc)' = recompiled(doc) /\ recompiled(worker.next)' = recompiled(worker.next)
    BY NamesKept
  <1>2. GoodDoc(doc)'
    BY DEF IInv, GoodDoc
  <1>3. EngineInv'
    BY DEF IInv, EngineInv
  <1>4. NamesInv'
    BY <1>1 DEF IInv, NamesInv
  <1>5. WorkerOK'
    <2>1. worker'.pc = "commit" => RenamePending' \/ worker'.next.compiled = recompiled(worker.next)'
      BY <1>1 DEF IInv, WorkerOK
    <2> QED BY <2>1 DEF IInv, WorkerOK
  <1> QED BY <1>2, <1>3, <1>4, <1>5

\* A command put on the bus.
LEMMA Queued ==
    ASSUME IInv, NEW c, cmds' = Append(cmds, c), dirty' = dirty
    PROVE  /\ cmds' \in Seq(Range(cmds')) /\ Range(cmds') = Range(cmds) \cup {c}
           /\ RenamePending \/ c.kind = "renamed" => RenamePending'
  <1>1. cmds \in Seq(Range(cmds))
    BY DEF IInv, Around
  <1>2. Range(cmds') = Range(cmds) \cup {c} /\ cmds' \in Seq(Range(cmds) \cup {c})
    BY <1>1, AppendFacts
  <1> QED BY <1>2 DEF RenamePending
----------------------------------------------------------------------------
\* The banks.
LEMMA WriteBanksFacts ==
    ASSUME NEW d, d.text \in Texts, d.rev \in Nat, d.table \in Tables
    PROVE  write_banks(d) \in Seq(Writes) /\ write_banks(d) # <<>>
  <1> DEFINE piece(b) == <<b, text_banks(d.text)[b]>>
             pieces == [b \in 1 .. TextBanks |-> piece(b)]
             last == <<ManifestBank, ManifestOf(d)>>
  <1>1. TextBanks \in Nat /\ d.text \in Seq(Rules)
    BY TextFacts
  <1>2. ASSUME NEW b \in 1 .. TextBanks PROVE piece(b) \in Writes
    <2>1. b <= Len(d.text) => d.text[b] \in Rules
      BY <1>1, SMT
    <2>2. text_banks(d.text)[b] = IF b <= Len(d.text) THEN d.text[b] ELSE ""
      BY DEF text_banks
    <2>3. text_banks(d.text)[b] \in Rules \cup {""}
      BY <2>1, <2>2
    <2> QED BY <2>3 DEF Writes
  <1>3. last \in Writes
    BY DEF Writes, ManifestOf, Manifests
  <1>4. write_banks(d) = Append(pieces, last)
    BY DEF write_banks
  <1>5. pieces \in [1 .. TextBanks -> Writes]
    BY <1>2
  <1> HIDE DEF pieces, last
  <1>6. pieces \in Seq(Writes)
    BY <1>1, <1>5, SMT
  <1>7. Append(pieces, last) \in Seq(Writes \cup {last}) /\ Append(pieces, last) # <<>>
    BY <1>6, AppendFacts
  <1>8. Writes \cup {last} = Writes
    BY <1>3
  <1> QED BY <1>4, <1>7, <1>8

LEMMA ManifestWrites == \A w \in Writes : w[1] = ManifestBank => w[2] \in Manifests
  <1>1. ManifestBank \notin 1 .. TextBanks
    BY TextFacts, SMT DEF ManifestBank
  <1> QED BY <1>1 DEF Writes

LEMMA ReassembleFacts == \A m, held : reassemble(m, held) = None \/ reassemble(m, held) = m.text
  BY DEF reassemble

\* What a load brings, compiled for the names as they are.
LEMMA LoadFacts ==
    ASSUME names \in {1, None}, manifest = None \/ manifest \in Manifests, load_document # None
    PROVE  /\ GoodDoc(load_document)
           /\ load_document.lang => load_document.compiled = recompiled(load_document)
  <1> DEFINE source == reassemble(manifest, banks)
  <1>1. manifest \in Manifests
    BY DEF load_document
  <1>2. CASE source = None
    <2> DEFINE torn == [NoDocument EXCEPT !.diag = "rules_banks_torn"]
    <2>1. load_document = torn
      BY <1>2, <1>1 DEF load_document
    <2>2. torn \in Docs /\ ~torn.lang /\ torn.compiled = None
      BY NoDocumentFacts DEF Docs, Diagnoses
    <2> HIDE DEF torn
    <2> QED BY <2>1, <2>2 DEF GoodDoc
  <1>3. CASE source # None
    <2> DEFINE d == [NoDocument EXCEPT !.text = source, !.lang = TRUE, !.rev = manifest.rev,
                                       !.table = manifest.table]
               set == recompiled(d)
               read == [d EXCEPT !.compiled = set, !.diag = IF set = None THEN "rules_compile_failed" ELSE None]
    <2>1. load_document = read
      BY <1>1, <1>3 DEF load_document
    <2>2. source \in Texts /\ manifest.rev \in Nat /\ manifest.table \in Tables
      BY <1>1, <1>3, ReassembleFacts DEF Manifests
    <2>3. /\ d \in Docs /\ d.text = source /\ d.lang = TRUE /\ d.table = manifest.table
      BY <2>2, NoDocumentFacts DEF Docs
    <2> HIDE DEF d
    <2>4. set = None \/ set \in RuleSetsOf(source)
      BY <2>2, <2>3, RecompiledFacts
    <2> HIDE DEF set
    <2>5. /\ read \in Docs /\ read.text = source /\ read.lang = TRUE /\ read.table = manifest.table
          /\ read.compiled = set /\ read.diag = IF set = None THEN "rules_compile_failed" ELSE None
      BY <2>2, <2>3, <2>4 DEF Docs, Diagnoses
    <2> HIDE DEF read
    <2>6. recompiled(read) = set
      BY <2>3, <2>5 DEF recompiled, set
    <2>7. GoodDoc(read)
      BY <2>2, <2>4, <2>5, TextFacts DEF GoodDoc
    <2> QED BY <2>1, <2>5, <2>6, <2>7
  <1> QED BY <1>2, <1>3

LEMMA HydrateFacts ==
    ASSUME names \in {1, None}, manifest = None \/ manifest \in Manifests, NEW d, GoodDoc(d)
    PROVE  /\ GoodDoc(hydrate(d))
           /\ hydrate(d) = d \/ (hydrate(d).lang => hydrate(d).compiled = recompiled(hydrate(d)))
  BY LoadFacts DEF hydrate

----------------------------------------------------------------------------
\* The worker between two frames.
LEMMA WorkerStaysIdle == ASSUME IInv, worker.pc = "idle", worker' = worker PROVE WorkerOK'
  BY DEF IInv, WorkerOK

LEMMA EngineInStep ==
    ASSUME doc'.rev \in Nat, ruleEngine'.rev = doc'.rev, ruleEngine'.rules = doc'.compiled
    PROVE  EngineInv'
  <1>1. ruleEngine'.rev <= doc'.rev
    BY SMT
  <1> QED BY <1>1 DEF EngineInv

LEMMA DocRev == ASSUME NEW d, GoodDoc(d) PROVE d.rev \in Nat
  BY DEF GoodDoc, Docs

LEMMA Unmoved == ASSUME IInv, doc' = doc, loads' = loads PROVE Moves(doc, loads, doc', loads')
  BY DocRev DEF IInv, Around, Moves

LEMMA FinishStep ==
    ASSUME IInv, worker.pc # "idle", Finish(doc, worker), names' = names, importing' = importing,
           dirty' = dirty, cmds' = cmds, loads' = loads, ruleEngine' = ruleEngine,
           manifest' = manifest \/ manifest' \in Manifests
    PROVE  IInv'
  <1>1. WorkerOK'
    BY WorkerRests DEF Finish
  <1>2. RenamePending' <=> RenamePending
    BY DEF RenamePending
  <1>3. dirty' \in BOOLEAN
    BY DEF IInv, Around
  <1>4. CASE worker.pc = "commit"
    <2>1. doc' = worker.next /\ editors' = [editors EXCEPT ![worker.by].phase = "idle"]
      BY <1>4 DEF Finish
    <2>2. /\ GoodDoc(worker.next) /\ worker.next.rev = doc.rev + 1 /\ worker.by \in Editors
          /\ RenamePending \/ worker.next.compiled = recompiled(worker.next)
      BY <1>4 DEF IInv, WorkerOK
    <2>3. doc.rev \in Nat /\ loads \in Nat /\ ruleEngine.rev \in Nat /\ ruleEngine.rev <= doc.rev
      BY DocRev DEF IInv, Around, EngineInv
    <2>4. /\ doc'.rev \in Nat /\ doc'.rev > doc.rev
          /\ ruleEngine'.rev <= doc'.rev /\ ruleEngine'.rev # doc'.rev
      BY <2>1, <2>2, <2>3, SMT
    <2>5. Moves(doc, loads, doc', loads')
      BY <2>3, <2>4 DEF Moves
    <2>6. Around'
      BY <1>3, <2>1, <2>2, <2>5, AroundWorker
    <2>7. GoodDoc(doc')
      BY <2>1, <2>2
    <2>8. EngineInv'
      BY <2>3, <2>4 DEF EngineInv
    <2>9. NamesInv'
      BY <1>2, <2>1, <2>2, NamesKept DEF NamesInv
    <2> QED BY <1>1, <2>6, <2>7, <2>8, <2>9 DEF IInv
  <1>5. CASE worker.pc # "commit"
    <2>1. doc' = doc /\ editors' = editors
      BY <1>5 DEF Finish
    <2>2. Around'
      BY <1>3, <2>1, Unmoved, AroundWorker
    <2>3. GoodDoc(doc') /\ EngineInv'
      BY <2>1 DEF IInv, EngineInv
    <2>4. NamesInv'
      BY <1>2, <2>1, NamesKept DEF IInv, NamesInv
    <2> QED BY <1>1, <2>2, <2>3, <2>4 DEF IInv
  <1> QED BY <1>4, <1>5
----------------------------------------------------------------------------
\* One lemma for each step of the worker.
LEMMA WriteOneStep == ASSUME IInv, write_one PROVE IInv'
  <1> DEFINE w == Head(worker.writes)
  <1>1. /\ worker.pc # "idle" /\ names' = names /\ importing' = importing /\ dirty' = dirty
        /\ cmds' = cmds /\ loads' = loads /\ ruleEngine' = ruleEngine
        /\ manifest' = IF w[1] = ManifestBank THEN w[2] ELSE manifest
    BY DEF write_one
  <1>2. worker.writes \in Seq(Writes) /\ worker.writes # <<>>
    BY <1>1 DEF IInv, WorkerOK
  <1>3. w \in Writes /\ Tail(worker.writes) \in Seq(Writes)
        /\ (Len(worker.writes) > 1 <=> Tail(worker.writes) # <<>>)
    BY <1>2, TailFacts
  <1>4. manifest' = manifest \/ manifest' \in Manifests
    BY <1>1, <1>3, ManifestWrites
  <1>5. CASE Len(worker.writes) > 1
    <2>1. worker' = [worker EXCEPT !.writes = Tail(@)] /\ doc' = doc /\ editors' = editors
      BY <1>5 DEF write_one
    <2>2. worker \in [pc : {"idle", "commit", "toggle"}, writes : Seq(Writes), next : Docs,
                      by : Editors \cup {None}, seen : Docs, loads : Nat]
      BY DEF IInv, WorkerOK
    <2>3. /\ worker' \in [pc : {"idle", "commit", "toggle"}, writes : Seq(Writes), next : Docs,
                          by : Editors \cup {None}, seen : Docs, loads : Nat]
          /\ worker'.pc = worker.pc /\ worker'.writes = Tail(worker.writes) /\ worker'.next = worker.next
          /\ worker'.by = worker.by /\ worker'.seen = worker.seen /\ worker'.loads = worker.loads
      BY <1>3, <2>1, <2>2
    <2>4. RenamePending' <=> RenamePending
      BY <1>1 DEF RenamePending
    <2>5. /\ recompiled(worker.next)' = recompiled(worker.next) /\ recompiled(doc)' = recompiled(doc)
      BY <1>1, <2>1, <2>3, NamesKept
    <2>6. WorkerOK'
      <3>1. worker'.pc = "commit" =>
               /\ GoodDoc(worker'.next) /\ worker'.next.lang /\ worker'.next.rev = doc'.rev + 1
               /\ worker'.by \in Editors
               /\ RenamePending' \/ worker'.next.compiled = recompiled(worker.next)'
               /\ worker'.loads = loads' => doc'.text = worker'.seen.text /\ doc'.table = worker'.seen.table
        BY <1>1, <2>1, <2>3, <2>4, <2>5 DEF IInv, WorkerOK
      <3>2. worker'.pc = "idle" <=> worker'.writes = <<>>
        BY <1>1, <1>3, <1>5, <2>3
      <3> QED BY <2>3, <3>1, <3>2 DEF WorkerOK
    <2>7. NamesInv' /\ EngineInv' /\ GoodDoc(doc')
      BY <1>1, <2>1, <2>4, <2>5 DEF IInv, NamesInv, EngineInv
    <2>8. dirty' \in BOOLEAN
      BY <1>1 DEF IInv, Around
    <2>9. Around'
      BY <1>1, <1>4, <2>1, <2>8, Unmoved, AroundWorker
    <2> QED BY <2>6, <2>7, <2>9 DEF IInv
  <1>6. CASE ~(Len(worker.writes) > 1)
    <2>1. Finish(doc, worker)
      BY <1>6 DEF write_one
    <2> QED BY <1>1, <1>4, <2>1, FinishStep
  <1> QED BY <1>5, <1>6

LEMMA WriteFailsStep == ASSUME IInv, WriteFails PROVE IInv'
  <1>1. /\ worker.pc # "idle" /\ Finish(doc, worker) /\ names' = names /\ importing' = importing
        /\ dirty' = dirty /\ cmds' = cmds /\ loads' = loads /\ ruleEngine' = ruleEngine
        /\ manifest' = manifest
    BY DEF WriteFails, flash
  <1> QED BY <1>1, FinishStep

\* A rename seen by the tick is compiled for, under a revision of its own.
LEMMA RecompileFacts ==
    ASSUME names \in {1, None}, NEW d, GoodDoc(d)
    PROVE  LET e == recompile_in_place(d)
           IN  /\ GoodDoc(e) /\ (e.lang => e.compiled = recompiled(e))
               /\ e = d \/ e.rev = d.rev + 1
  <1> DEFINE set == recompiled(d)
             e == recompile_in_place(d)
  <1>1. CASE ~d.lang \/ set = d.compiled
    BY <1>1 DEF recompile_in_place
  <1>2. CASE d.lang /\ set # d.compiled
    <2>1. e = [d EXCEPT !.compiled = set, !.rev = @ + 1,
                        !.diag = IF set = None THEN "rules_names_unresolved" ELSE None]
      BY <1>2 DEF recompile_in_place
    <2>2. d \in Docs /\ d.rev \in Nat /\ d.text \in Texts /\ d.table \in Tables
      BY <1>2 DEF GoodDoc, Docs
    <2>3. set = None \/ set \in RuleSetsOf(d.text)
      BY <2>2, RecompiledFacts
    <2>4. d.rev + 1 \in Nat
      BY <2>2, SMT
    <2> HIDE DEF set, e
    <2>5. /\ e \in Docs /\ e.text = d.text /\ e.table = d.table /\ e.lang = d.lang /\ e.rev = d.rev + 1
          /\ e.compiled = set /\ e.diag = IF set = None THEN "rules_names_unresolved" ELSE None
      BY <2>1, <2>2, <2>3, <2>4 DEF Docs, Diagnoses
    <2>6. recompiled(e) = set
      BY <2>5 DEF recompiled, set
    <2>7. GoodDoc(e)
      BY <1>2, <2>2, <2>3, <2>5, TextFacts DEF GoodDoc
    <2> QED BY <2>5, <2>6, <2>7 DEF e
  <1> QED BY <1>1, <1>2 DEF GoodDoc

LEMMA TickStep == ASSUME IInv, on_tick PROVE IInv'
  <1>1. /\ worker.pc = "idle" /\ dirty' = FALSE /\ names' = names /\ importing' = importing
        /\ worker' = worker /\ cmds' = cmds /\ editors' = editors /\ loads' = loads /\ manifest' = manifest
        /\ doc' = IF dirty THEN recompile_in_place(doc) ELSE doc
        /\ ruleEngine' = reload_engine_if_moved(ruleEngine, doc')
    BY DEF on_tick, flash
  <1>2. names \in {1, None} /\ GoodDoc(doc) /\ loads \in Nat /\ doc.rev \in Nat
    BY DocRev DEF IInv, Around
  <1>3. /\ GoodDoc(doc') /\ (doc' = doc \/ doc'.rev = doc.rev + 1)
        /\ dirty => (doc'.lang => doc'.compiled = recompiled(doc'))
        /\ ~dirty => doc' = doc
    BY <1>1, <1>2, RecompileFacts
  <1>4. doc'.rev \in Nat
    BY <1>3, DocRev
  <1>5. Moves(doc, loads, doc', loads')
    <2>1. doc'.rev = doc.rev + 1 => doc'.rev > doc.rev
      BY <1>2, SMT
    <2> QED BY <1>1, <1>2, <1>3, <1>4, <2>1 DEF Moves
  <1>6. Around'
    BY <1>1, <1>5, AroundWorker
  <1>7. EngineInv'
    <2>1. /\ ruleEngine.rev \in Nat /\ ruleEngine.rev <= doc.rev
          /\ ruleEngine.rev = doc.rev => ruleEngine.rules = doc.compiled
      BY DEF IInv, EngineInv
    <2>2. doc'.rev = doc.rev + 1 => ruleEngine.rev # doc'.rev
      BY <1>2, <2>1, SMT
    <2>3. doc'.rev = ruleEngine.rev => ruleEngine.rules = doc'.compiled
      BY <1>3, <2>1, <2>2
    <2>4. ruleEngine'.rev = doc'.rev /\ ruleEngine'.rules = doc'.compiled
      BY <1>1, <2>3 DEF reload_engine_if_moved, EngineOn
    <2> QED BY <1>4, <2>4, EngineInStep
  <1>8. NamesInv'
    <2>1. ~dirty => (RenamePending <=> RenamePending')
      BY <1>1 DEF RenamePending
    <2>2. recompiled(doc)' = recompiled(doc')
      BY <1>1, NamesKept
    <2>3. CASE dirty
      BY <1>3, <2>2, <2>3 DEF NamesInv
    <2>4. CASE ~dirty
      BY <1>3, <2>1, <2>2, <2>4 DEF IInv, NamesInv
    <2> QED BY <2>3, <2>4
  <1> QED BY <1>1, <1>3, <1>6, <1>7, <1>8, WorkerStaysIdle DEF IInv
----------------------------------------------------------------------------
\* The frames.  What every frame leaves and finds, then one lemma for each kind.
inStep == reload_engine_if_moved(ruleEngine, doc)
Frame(c) ==
    /\ worker.pc = "idle" /\ cmds # <<>> /\ c = Head(cmds) /\ cmds' = Tail(cmds)
    /\ manifest' = manifest /\ names' = names /\ importing' = importing

LEMMA FrameFacts ==
    ASSUME IInv, NEW c, Frame(c)
    PROVE  /\ CommandOK(doc, loads, c)
           /\ inStep.rev = doc.rev /\ inStep.rules = doc.compiled
           /\ c.kind # "renamed" /\ dirty' = dirty => (RenamePending' <=> RenamePending)
           /\ names \in {1, None} /\ loads \in Nat /\ doc.rev \in Nat /\ dirty \in BOOLEAN
           /\ recompiled(doc)' = recompiled(doc')
           /\ recompiled(worker.next)' = recompiled(worker'.next)
  <1>1. cmds \in Seq(Range(cmds)) /\ \A x \in Range(cmds) : CommandOK(doc, loads, x)
    BY DEF IInv, Around
  <1>2. Range(cmds) = {c} \cup Range(cmds')
    BY <1>1, TailFacts DEF Frame
  <1>3. inStep.rev = doc.rev /\ inStep.rules = doc.compiled
    BY DEF inStep, reload_engine_if_moved, EngineOn, IInv, EngineInv
  <1>4. ASSUME c.kind # "renamed", dirty' = dirty PROVE RenamePending' <=> RenamePending
    <2>1. (\E x \in Range(cmds) : x.kind = "renamed") <=> (\E x \in Range(cmds') : x.kind = "renamed")
      BY <1>2, <1>4
    <2> QED BY <1>4, <2>1 DEF RenamePending
  <1> QED BY <1>1, <1>2, <1>3, <1>4, DocRev, NamesKept DEF IInv, Around, Frame

\* The queue and the handlers after a frame.
LEMMA AroundFrame ==
    ASSUME IInv, NEW c, Frame(c), Moves(doc, loads, doc', loads'), dirty' \in BOOLEAN,
           editors' = editors \/ \E x \in Editors : editors' = [editors EXCEPT ![x].phase = "idle"]
    PROVE  Around'
  BY AroundWorker DEF Frame

\* A frame that leaves the document and the worker alone.
LEMMA QuietFrame ==
    ASSUME IInv, NEW c, Frame(c), doc' = doc, worker' = worker, loads' = loads, ruleEngine' = inStep,
           (c.kind # "renamed" /\ dirty' = dirty) \/ dirty' = TRUE,
           editors' = editors \/ \E x \in Editors : editors' = [editors EXCEPT ![x].phase = "idle"]
    PROVE  IInv'
  <1>1. dirty' \in BOOLEAN
    BY FrameFacts
  <1>2. Around'
    BY <1>1, Unmoved, AroundFrame
  <1>3. EngineInv'
    <2>1. doc'.rev \in Nat /\ ruleEngine'.rev = doc'.rev /\ ruleEngine'.rules = doc'.compiled
      BY FrameFacts
    <2> QED BY <2>1, EngineInStep
  <1>4. WorkerOK'
    BY WorkerStaysIdle DEF Frame
  <1>5. RenamePending' \/ (RenamePending' <=> RenamePending)
    BY FrameFacts DEF RenamePending
  <1>6. NamesInv'
    <2>1. recompiled(doc)' = recompiled(doc)
      BY FrameFacts
    <2> QED BY <1>5, <2>1 DEF IInv, NamesInv
  <1> QED BY <1>2, <1>3, <1>4, <1>6 DEF IInv

\* A commit is taken for the very document its author had read.
LEMMA CommitFrame ==
    ASSUME IInv, NEW c, Frame(c), c.kind = "commit", on_commit(c), ruleEngine' = inStep
    PROVE  IInv'
  <1>1. doc' = doc /\ dirty' = dirty /\ loads' = loads
    BY DEF on_commit
  <1>2. /\ c.text \in RuleTexts /\ c.corr \in Editors /\ c.base = c.seen.rev
        /\ Snapshot(doc, loads, c.seen, c.loads)
    BY FrameFacts DEF CommandOK
  <1>3. CASE ~try_commit(c)
    <2>1. worker' = worker /\ editors' = [editors EXCEPT ![c.corr].phase = "idle"]
      BY <1>3 DEF on_commit
    <2>2. \E x \in Editors : editors' = [editors EXCEPT ![x].phase = "idle"]
      BY <1>2, <2>1
    <2>3. c.kind # "renamed"
      OBVIOUS
    <2> QED BY <1>1, <2>1, <2>2, <2>3, QuietFrame
  <1>4. CASE try_commit(c)
    <2> DEFINE set == compile(c.text)
               next == [text |-> c.text, lang |-> TRUE, rev |-> doc.rev + 1, compiled |-> set,
                        diag |-> None, table |-> enable_table_of(set)]
    <2>1. /\ worker' = [pc |-> "commit", writes |-> write_banks(next), next |-> next,
                        by |-> c.corr, seen |-> c.seen, loads |-> c.loads]
          /\ editors' = editors
      BY <1>4 DEF on_commit
    <2>2. c.base = doc.rev /\ set # None
      BY <1>4 DEF try_commit
    <2>3. c.text \in Texts /\ names \in {1, None} /\ doc.rev \in Nat
      BY <1>2, FrameFacts DEF Texts
    <2>4. set \in RuleSetsOf(c.text) /\ set.on \in Tables
      BY <2>2, <2>3, CompileFacts
    <2>5. doc.rev + 1 \in Nat
      BY <2>3, SMT
    <2>6. /\ next \in Docs /\ next.text = c.text /\ next.lang /\ next.rev = doc.rev + 1
          /\ next.compiled = set /\ next.table = set.on
      <3> HIDE DEF set
      <3> QED BY <2>3, <2>4, <2>5 DEF Docs, Diagnoses, enable_table_of
    <2> HIDE DEF next
    <2>7. next.compiled = recompiled(next)
      BY <2>2, <2>3, <2>6, OwnTable
    <2>8. GoodDoc(next)
      BY <2>2, <2>3, <2>4, <2>6 DEF GoodDoc
    <2>9. write_banks(next) \in Seq(Writes) /\ write_banks(next) # <<>>
      BY <2>3, <2>4, <2>5, <2>6, WriteBanksFacts
    <2>10. c.seen \in Docs /\ c.loads \in Nat
           /\ (c.loads = loads => doc.text = c.seen.text /\ doc.table = c.seen.table)
      BY <1>2, <2>2 DEF Snapshot
    <2>11. /\ worker' \in [pc : {"idle", "commit", "toggle"}, writes : Seq(Writes), next : Docs,
                           by : Editors \cup {None}, seen : Docs, loads : Nat]
           /\ worker'.pc = "commit" /\ worker'.writes # <<>> /\ worker'.next = next
           /\ worker'.by = c.corr /\ worker'.seen = c.seen /\ worker'.loads = c.loads
      BY <1>2, <2>1, <2>6, <2>9, <2>10
    <2>12. WorkerOK'
      <3>1. recompiled(worker.next)' = recompiled(next)
        BY <2>11, FrameFacts
      <3>2. GoodDoc(worker'.next) /\ worker'.next.lang /\ worker'.next.rev = doc'.rev + 1
            /\ worker'.by \in Editors /\ worker'.next.compiled = recompiled(worker.next)'
        BY <1>1, <1>2, <2>6, <2>7, <2>8, <2>11, <3>1
      <3>3. worker'.loads = loads' => doc'.text = worker'.seen.text /\ doc'.table = worker'.seen.table
        BY <1>1, <2>10, <2>11
      <3> QED BY <2>11, <3>2, <3>3 DEF WorkerOK
    <2>13. Around'
      <3>1. dirty' \in BOOLEAN
        BY <1>1, FrameFacts
      <3> QED BY <1>1, <2>1, <3>1, Unmoved, AroundFrame
    <2>14. EngineInv'
      <3>1. doc'.rev \in Nat /\ ruleEngine'.rev = doc'.rev /\ ruleEngine'.rules = doc'.compiled
        BY <1>1, FrameFacts
      <3> QED BY <3>1, EngineInStep
    <2>15. NamesInv'
      <3>1. (RenamePending' <=> RenamePending) /\ recompiled(doc)' = recompiled(doc)
        BY <1>1, FrameFacts
      <3> QED BY <1>1, <3>1 DEF IInv, NamesInv
    <2>16. GoodDoc(doc')
      BY <1>1 DEF IInv
    <2> QED BY <2>12, <2>13, <2>14, <2>15, <2>16 DEF IInv
  <1> QED BY <1>3, <1>4
\* A switch turned in the store is turned in the engine, and recorded.
LEMMA EnableFrame ==
    ASSUME IInv, NEW c, Frame(c), c.kind = "enable", on_enable(c),
           ruleEngine' = IF doc'.rev # doc.rev THEN flip_engine_bit(inStep, c) ELSE inStep
    PROVE  IInv'
  <1>1. dirty' = dirty /\ editors' = editors /\ loads' = loads
    BY DEF on_enable
  <1>2. /\ c.on \in BOOLEAN /\ names \in {1, None} /\ loads \in Nat /\ doc.rev \in Nat /\ dirty \in BOOLEAN
        /\ inStep.rev = doc.rev /\ inStep.rules = doc.compiled
        /\ recompiled(doc)' = recompiled(doc')
    BY FrameFacts DEF CommandOK
  <1>3. RenamePending' <=> RenamePending
    BY <1>1, FrameFacts
  <1>4. CASE doc.compiled = None \/ c.rule \notin Range(doc.text)
    <2>1. doc' = doc /\ worker' = worker
      BY <1>4 DEF on_enable
    <2>2. ruleEngine' = inStep /\ c.kind # "renamed"
      BY <2>1
    <2> QED BY <1>1, <2>1, <2>2, QuietFrame
  <1>5. CASE doc.compiled # None /\ c.rule \in Range(doc.text)
    <2> DEFINE turned == [doc.compiled EXCEPT !.on[c.rule] = c.on]
               table == record_enabled(doc.table, c.rule, c.on)
    <2>1. /\ doc' = [doc EXCEPT !.compiled = turned, !.rev = @ + 1, !.table = table]
          /\ worker' = [IdleWorker EXCEPT !.pc = "toggle", !.writes = write_banks(doc')]
      <3>1. /\ doc' = [doc EXCEPT !.compiled.on[c.rule] = c.on, !.rev = @ + 1,
                                  !.table = record_enabled(@, c.rule, c.on)]
            /\ worker' = [IdleWorker EXCEPT !.pc = "toggle", !.writes = write_banks(doc')]
        BY <1>5 DEF on_enable
      <3>2. doc \in Docs
        BY DEF IInv, GoodDoc
      <3> QED BY <3>1, <3>2, SMT DEF Docs
    <2>2. /\ doc \in Docs /\ doc.lang /\ doc.text \in Texts /\ doc.table \in Tables
          /\ doc.compiled \in RuleSetsOf(doc.text)
      BY <1>5 DEF IInv, GoodDoc, Docs
    <2>3. /\ doc'.text = doc.text /\ doc'.lang = doc.lang /\ doc'.rev = doc.rev + 1
          /\ doc'.compiled = turned /\ doc'.table = table /\ doc'.diag = doc.diag
      <3> HIDE DEF turned, table
      <3> QED BY <2>1, <2>2 DEF Docs
    <2>4. /\ doc'.table \in Tables /\ doc'.compiled \in RuleSetsOf(doc.text)
          /\ doc.compiled = recompiled(doc) => doc'.compiled = recompiled(doc')
      <3>1. /\ doc'.text = doc.text /\ doc'.table = record_enabled(doc.table, c.rule, c.on)
            /\ doc'.compiled = [doc.compiled EXCEPT !.on[c.rule] = c.on]
        BY <2>3
      <3> HIDE DEF turned, table
      <3> QED BY <1>2, <1>5, <2>2, <3>1, Toggled, SMT
    <2>5. doc'.rev \in Nat /\ doc'.rev > doc.rev /\ doc'.rev # doc.rev /\ doc.rev = doc'.rev - 1
      BY <1>2, <2>3, SMT
    <2>6. doc' \in Docs
      <3>1. turned \in RuleSetsOf(doc.text) /\ table \in Tables /\ doc.rev + 1 \in Nat
        BY <2>3, <2>4, <2>5
      <3> HIDE DEF turned, table
      <3> QED BY <2>1, <2>2, <3>1 DEF Docs
    <2>7. GoodDoc(doc')
      <3>1. doc'.compiled # None
        BY <2>2, <2>4, TextFacts
      <3> QED BY <2>2, <2>3, <2>4, <2>6, <3>1 DEF GoodDoc
    <2>8. write_banks(doc') \in Seq(Writes) /\ write_banks(doc') # <<>>
      <3>1. doc'.text \in Texts
        BY <2>2, <2>3
      <3> QED BY <2>4, <2>5, <3>1, WriteBanksFacts
    <2>9. WorkerOK'
      <3>1. /\ worker' \in [pc : {"idle", "commit", "toggle"}, writes : Seq(Writes), next : Docs,
                            by : Editors \cup {None}, seen : Docs, loads : Nat]
            /\ worker'.pc = "toggle" /\ worker'.writes # <<>>
        BY <2>1, <2>8, NoDocumentFacts DEF IdleWorker
      <3> QED BY <3>1 DEF WorkerOK
    <2>10. Around'
      <3>1. Moves(doc, loads, doc', loads')
        BY <1>1, <1>2, <2>5 DEF Moves
      <3>2. dirty' \in BOOLEAN
        BY <1>1, <1>2
      <3> QED BY <1>1, <3>1, <3>2, AroundFrame
    <2>11. EngineInv'
      <3> DEFINE flipped == [inStep.rules EXCEPT !.on[c.rule] = c.on]
      <3>1. ruleEngine' = [rev |-> doc'.rev, rules |-> flipped]
        BY <1>2, <2>5 DEF flip_engine_bit
      <3>2. flipped = doc'.compiled
        BY <1>2, <2>3
      <3> HIDE DEF flipped
      <3>3. ruleEngine'.rev = doc'.rev /\ ruleEngine'.rules = doc'.compiled
        BY <3>1, <3>2, SMTT(20)
      <3> QED BY <2>5, <3>3, EngineInStep
    <2>12. NamesInv'
      <3>1. RenamePending \/ doc.compiled = recompiled(doc)
        BY <2>2 DEF IInv, NamesInv
      <3> QED BY <1>2, <1>3, <2>4, <3>1 DEF NamesInv
    <2> QED BY <2>7, <2>9, <2>10, <2>11, <2>12 DEF IInv
  <1> QED BY <1>4, <1>5

\* A document loaded from flash is compiled for the names as they are.
LEMMA ReloadedFrame ==
    ASSUME IInv, NEW c, Frame(c), c.kind = "reloaded", on_reloaded, ruleEngine' = rehydrate_from_slices(inStep)
    PROVE  IInv'
  <1>1. /\ doc' = hydrate(doc) /\ loads' = loads + 1 /\ worker' = worker /\ dirty' = dirty
        /\ editors' = editors
    BY DEF on_reloaded
  <1>2. /\ names \in {1, None} /\ loads \in Nat /\ doc.rev \in Nat /\ dirty \in BOOLEAN
        /\ recompiled(doc)' = recompiled(doc')
    BY FrameFacts
  <1>3. RenamePending' <=> RenamePending
    BY <1>1, FrameFacts
  <1>4. GoodDoc(doc') /\ (doc' = doc \/ (doc'.lang => doc'.compiled = recompiled(doc')))
    BY <1>1, <1>2, HydrateFacts DEF IInv, Around
  <1>5. doc'.rev \in Nat
    BY <1>4, DocRev
  <1>6. Around'
    <2>1. loads + 1 \in Nat
      BY <1>2, SMT
    <2>2. Moves(doc, loads, doc', loads')
      BY <1>1, <1>2, <1>5, <2>1 DEF Moves
    <2>3. dirty' \in BOOLEAN
      BY <1>1, <1>2
    <2> QED BY <1>1, <2>2, <2>3, AroundFrame
  <1>7. EngineInv'
    <2>1. ruleEngine'.rev = doc'.rev /\ ruleEngine'.rules = doc'.compiled
      BY <1>1 DEF rehydrate_from_slices, EngineOn
    <2> QED BY <1>5, <2>1, EngineInStep
  <1>8. NamesInv'
    <2>1. CASE doc' = doc
      BY <1>2, <1>3, <2>1 DEF IInv, NamesInv
    <2>2. CASE doc'.lang => doc'.compiled = recompiled(doc')
      BY <1>2, <2>2 DEF NamesInv
    <2> QED BY <1>4, <2>1, <2>2
  <1>9. WorkerOK'
    BY <1>1, WorkerStaysIdle DEF Frame
  <1> QED BY <1>4, <1>6, <1>7, <1>8, <1>9 DEF IInv

LEMMA FrameStep == ASSUME IInv, on_frame PROVE IInv'
  <1> DEFINE c == Head(cmds)
  <1>1. Frame(c)
    BY DEF on_frame, flash, Frame
  <1>2. /\ \/ c.kind = "stage" /\ on_stage(c)
           \/ c.kind = "commit" /\ on_commit(c)
           \/ c.kind = "enable" /\ on_enable(c)
           \/ c.kind = "reloaded" /\ on_reloaded
           \/ c.kind = "renamed" /\ on_renamed
        /\ ruleEngine' = IF c.kind = "reloaded" THEN rehydrate_from_slices(inStep)
                         ELSE IF c.kind = "enable" /\ doc'.rev # doc.rev THEN flip_engine_bit(inStep, c)
                         ELSE inStep
    BY DEF on_frame, inStep
  <1> HIDE DEF c
  <1>3. CASE c.kind = "stage" /\ on_stage(c)
    <2>1. /\ doc' = doc /\ worker' = worker /\ loads' = loads /\ dirty' = dirty /\ editors' = editors
          /\ c.kind # "renamed" /\ ruleEngine' = inStep
      BY <1>2, <1>3 DEF on_stage
    <2> QED BY <1>1, <2>1, QuietFrame
  <1>4. CASE c.kind = "commit" /\ on_commit(c)
    <2>1. ruleEngine' = inStep
      BY <1>2, <1>4
    <2> QED BY <1>1, <1>4, <2>1, CommitFrame
  <1>5. CASE c.kind = "enable" /\ on_enable(c)
    <2>1. ruleEngine' = IF doc'.rev # doc.rev THEN flip_engine_bit(inStep, c) ELSE inStep
      BY <1>2, <1>5
    <2> QED BY <1>1, <1>5, <2>1, EnableFrame
  <1>6. CASE c.kind = "reloaded" /\ on_reloaded
    <2>1. ruleEngine' = rehydrate_from_slices(inStep)
      BY <1>2, <1>6
    <2> QED BY <1>1, <1>6, <2>1, ReloadedFrame
  <1>7. CASE c.kind = "renamed" /\ on_renamed
    <2>1. /\ doc' = doc /\ worker' = worker /\ loads' = loads /\ dirty' = TRUE /\ editors' = editors
          /\ ruleEngine' = inStep
      BY <1>2, <1>7 DEF on_renamed
    <2> QED BY <1>1, <2>1, QuietFrame
  <1> QED BY <1>2, <1>3, <1>4, <1>5, <1>6, <1>7
----------------------------------------------------------------------------
\* One lemma for each step of the editors and of the rest of the controller.
LEMMA QueueStep ==
    ASSUME IInv, doc' = doc, loads' = loads, dirty' = dirty,
           cmds' = cmds \/ \E c : CommandOK(doc, loads, c) /\ cmds' = Append(cmds, c)
    PROVE  /\ cmds' \in Seq(Range(cmds')) /\ \A c \in Range(cmds') : CommandOK(doc', loads', c)
           /\ RenamePending => RenamePending'
  <1>1. cmds \in Seq(Range(cmds)) /\ \A c \in Range(cmds) : CommandOK(doc, loads, c)
    BY DEF IInv, Around
  <1>2. CASE cmds' = cmds
    BY <1>1, <1>2 DEF RenamePending
  <1>3. ASSUME NEW c, CommandOK(doc, loads, c), cmds' = Append(cmds, c)
        PROVE  /\ cmds' \in Seq(Range(cmds')) /\ \A x \in Range(cmds') : CommandOK(doc', loads', x)
               /\ RenamePending => RenamePending'
    <2>1. /\ cmds' \in Seq(Range(cmds')) /\ Range(cmds') = Range(cmds) \cup {c}
          /\ RenamePending => RenamePending'
      BY <1>3, Queued
    <2>2. ASSUME NEW x \in Range(cmds') PROVE CommandOK(doc', loads', x)
      BY <1>1, <1>3, <2>1
    <2> QED BY <2>1, <2>2
  <1> QED BY <1>2, <1>3

\* A step of one editor.
LEMMA EditorStep ==
    ASSUME IInv, NEW e \in Editors, NEW r, EditorOK(doc, loads, r), editors' = [editors EXCEPT ![e] = r],
           doc' = doc, worker' = worker, ruleEngine' = ruleEngine, loads' = loads, dirty' = dirty,
           names' = names, manifest' = manifest, importing' = importing,
           cmds' = cmds \/ \E c : CommandOK(doc, loads, c) /\ cmds' = Append(cmds, c)
    PROVE  IInv'
  <1>1. /\ cmds' \in Seq(Range(cmds')) /\ \A c \in Range(cmds') : CommandOK(doc', loads', c)
        /\ RenamePending => RenamePending'
    BY QueueStep
  <1>2. GoodDoc(doc)' /\ WorkerOK' /\ EngineInv' /\ NamesInv'
    BY <1>1, QuietDocument
  <1>3. editors' = [x \in Editors |-> editors'[x]] /\ \A x \in Editors : EditorOK(doc', loads', editors'[x])
    <2>1. editors = [x \in Editors |-> editors[x]] /\ \A x \in Editors : EditorOK(doc, loads, editors[x])
      BY DEF IInv, Around
    <2>2. editors' = [x \in Editors |-> IF x = e THEN r ELSE editors[x]]
      BY <2>1
    <2>3. editors' = [x \in Editors |-> editors'[x]]
      BY <2>2
    <2>4. \A x \in Editors : editors'[x] = IF x = e THEN r ELSE editors[x]
      BY <2>2
    <2> QED BY <2>1, <2>3, <2>4
  <1>4. Around'
    BY <1>1, <1>3 DEF IInv, Around
  <1> QED BY <1>2, <1>4 DEF IInv

LEMMA GetStep == ASSUME IInv, NEW e \in Editors, get(e) PROVE IInv'
  <1> DEFINE r == [phase |-> "read", seen |-> doc, loads |-> loads, text |-> <<>>, sent |-> 0]
  <1>1. /\ editors' = [editors EXCEPT ![e] = r]
        /\ doc' = doc /\ worker' = worker /\ ruleEngine' = ruleEngine /\ loads' = loads /\ dirty' = dirty
        /\ names' = names /\ manifest' = manifest /\ importing' = importing /\ cmds' = cmds
    BY DEF get, flash
  <1>2. doc \in Docs /\ loads \in Nat /\ doc.rev \in Nat
    BY DocRev DEF IInv, GoodDoc, Around
  <1>3. doc.rev <= doc.rev /\ loads <= loads /\ 0 \in Nat
    BY <1>2, SMT
  <1>4. Snapshot(doc, loads, doc, loads)
    BY <1>2, <1>3 DEF Snapshot
  <1>5. EditorOK(doc, loads, r)
    BY <1>2, <1>3, <1>4 DEF EditorOK
  <1> QED BY <1>1, <1>5, EditorStep

LEMMA TwoFields ==
    ASSUME NEW S, NEW f, f = [x \in S |-> f[x]], NEW e \in S, NEW p, NEW t
    PROVE  [f EXCEPT ![e].phase = p, ![e].text = t] = [f EXCEPT ![e] = [f[e] EXCEPT !.phase = p, !.text = t]]
  <1> DEFINE h == [f EXCEPT ![e].phase = p, ![e].text = t]
             q == [[f[e] EXCEPT !.phase = p] EXCEPT !.text = t]
  <1>1. h = [x \in S |-> IF x = e THEN q ELSE f[x]]
    OBVIOUS
  <1>2. [f EXCEPT ![e] = q] = [x \in S |-> IF x = e THEN q ELSE f[x]]
    <2> HIDE DEF q
    <2> QED OBVIOUS
  <1> HIDE DEF h
  <1>3. h = [f EXCEPT ![e] = q]
    BY <1>1, <1>2
  <1>4. q = [f[e] EXCEPT !.phase = p, !.text = t]
    OBVIOUS
  <1> QED BY <1>3, <1>4 DEF h

LEMMA PutStep == ASSUME IInv, NEW e \in Editors, NEW t \in RuleTexts, put(e, t) PROVE IInv'
  <1> DEFINE phase == IF compile(t) # None /\ editors[e].seen.rev = doc.rev THEN "sending" ELSE "idle"
             r == [editors[e] EXCEPT !.phase = phase, !.text = t]
  <1>1. /\ editors[e].phase = "read" /\ editors' = [editors EXCEPT ![e].phase = phase, ![e].text = t]
        /\ doc' = doc /\ worker' = worker /\ ruleEngine' = ruleEngine /\ loads' = loads /\ dirty' = dirty
        /\ names' = names /\ manifest' = manifest /\ importing' = importing /\ cmds' = cmds
    BY DEF put, flash
  <1>2. phase \in {"sending", "idle"}
    OBVIOUS
  <1> HIDE DEF phase
  <1>3. editors = [x \in Editors |-> editors[x]] /\ EditorOK(doc, loads, editors[e])
    BY DEF IInv, Around
  <1>4. editors' = [editors EXCEPT ![e] = r]
    BY <1>1, <1>3, TwoFields
  <1>5. /\ r \in [phase : {"idle", "read", "sending", "sent"}, seen : Docs, loads : Nat,
                  text : RuleTexts \cup {<<>>}, sent : Nat]
        /\ r.phase = phase /\ r.text = t /\ r.sent = 0 /\ r.seen = editors[e].seen /\ r.loads = editors[e].loads
    BY <1>1, <1>2, <1>3 DEF EditorOK
  <1> HIDE DEF r
  <1>6. 0 <= Len(t)
    <2>1. t \in Seq(Rules)
      BY TextFacts DEF Texts
    <2> QED BY <2>1, SMT
  <1>7. EditorOK(doc, loads, r)
    BY <1>2, <1>3, <1>5, <1>6 DEF EditorOK
  <1> QED BY <1>1, <1>4, <1>7, EditorStep
\* The k-th frame of a document is a piece of it, or the commit that ends it.
LEMMA FramesFacts ==
    ASSUME IInv, NEW e \in Editors, editors[e].phase = "sending"
    PROVE  LET k == editors[e].sent + 1
               n == Len(editors[e].text)
           IN  /\ k \in Nat /\ n \in Nat /\ k <= n + 1
               /\ Len(document_frames(e)) = n + 1
               /\ CommandOK(doc, loads, document_frames(e)[k])
  <1> DEFINE text == editors[e].text
             n == Len(text)
             k == editors[e].sent + 1
             stage(i) == [kind |-> "stage", corr |-> e, count |-> n, index |-> i, piece |-> text[i]]
             stages == [i \in 1 .. n |-> stage(i)]
             commit == [kind |-> "commit", corr |-> e, count |-> n, text |-> text, base |-> editors[e].seen.rev,
                        seen |-> editors[e].seen, loads |-> editors[e].loads]
  <1>1. document_frames(e) = stages \o <<commit>>
    BY DEF document_frames
  <1>2. /\ text \in RuleTexts /\ editors[e].sent \in Nat /\ editors[e].sent <= n
        /\ Snapshot(doc, loads, editors[e].seen, editors[e].loads)
    BY DEF IInv, Around, EditorOK
  <1>3. n \in Nat
    <2>1. text \in Seq(Rules)
      BY <1>2, TextFacts DEF Texts
    <2> QED BY <2>1, SMT
  <1>4. CommandOK(doc, loads, commit)
    BY <1>2 DEF CommandOK
  <1>5. \A i \in 1 .. n : stages[i] = stage(i)
    OBVIOUS
  <1>6. \A i : CommandOK(doc, loads, stage(i))
    BY DEF CommandOK
  <1>7. stages \in [1 .. n -> {stage(i) : i \in 1 .. n}]
    OBVIOUS
  <1> DEFINE all == {stage(i) : i \in 1 .. n}
  <1>8. stages \in [1 .. n -> all]
    BY <1>7
  <1> HIDE DEF stages, stage, all, commit, n
  <1>9. stages \in Seq(all) /\ Len(stages) = n
    BY <1>3, <1>8, SMT
  <1>10. /\ Len(stages \o <<commit>>) = n + 1 /\ (stages \o <<commit>>)[n + 1] = commit
         /\ \A i \in 1 .. n : (stages \o <<commit>>)[i] = stages[i]
    BY <1>3, <1>9, SMT
  <1>11. k \in Nat /\ k <= n + 1 /\ (k \in 1 .. n \/ k = n + 1)
    BY <1>2, <1>3, SMT
  <1> HIDE DEF k
  <1>12. CommandOK(doc, loads, document_frames(e)[k])
    <2>1. CASE k \in 1 .. n
      BY <1>1, <1>5, <1>6, <1>10, <2>1
    <2>2. CASE k = n + 1
      BY <1>1, <1>4, <1>10, <2>2
    <2> QED BY <1>11, <2>1, <2>2
  <1> QED BY <1>1, <1>3, <1>10, <1>11, <1>12 DEF k, n

LEMMA SentFields ==
    ASSUME NEW S, NEW f, f = [x \in S |-> f[x]], NEW e \in S, "phase" \in DOMAIN f[e], NEW k, NEW n,
           NEW p, p = IF k = n THEN "sent" ELSE f[e].phase
    PROVE  [f EXCEPT ![e].sent = k, ![e].phase = IF k = n THEN "sent" ELSE @]
             = [f EXCEPT ![e] = [f[e] EXCEPT !.sent = k, !.phase = p]]
  <1> DEFINE h == [f EXCEPT ![e].sent = k, ![e].phase = IF k = n THEN "sent" ELSE @]
             q == [[f[e] EXCEPT !.sent = k] EXCEPT !.phase = p]
  <1>1. [f[e] EXCEPT !.sent = k].phase = f[e].phase
    <2> DEFINE a == f[e]
    <2>1. "phase" \in DOMAIN a
      OBVIOUS
    <2> HIDE DEF a
    <2>2. [a EXCEPT !.sent = k].phase = a.phase
      BY <2>1
    <2> QED BY <2>2 DEF a
  <1>2. h = [x \in S |-> IF x = e THEN q ELSE f[x]]
    BY <1>1
  <1>3. [f EXCEPT ![e] = q] = [x \in S |-> IF x = e THEN q ELSE f[x]]
    <2> HIDE DEF q
    <2> QED OBVIOUS
  <1> HIDE DEF h
  <1>4. h = [f EXCEPT ![e] = q]
    BY <1>2, <1>3
  <1>5. q = [f[e] EXCEPT !.sent = k, !.phase = p]
    OBVIOUS
  <1> QED BY <1>4, <1>5 DEF h

LEMMA PublishStep == ASSUME IInv, NEW e \in Editors, publish_document(e) PROVE IInv'
  <1> DEFINE k == editors[e].sent + 1
             n == Len(editors[e].text)
             frames == document_frames(e)
             phase == IF k = Len(frames) THEN "sent" ELSE editors[e].phase
             r == [editors[e] EXCEPT !.sent = k, !.phase = phase]
  <1>1. /\ editors[e].phase = "sending" /\ cmds' = Append(cmds, frames[k])
        /\ editors' = [editors EXCEPT ![e].sent = k, ![e].phase = IF k = Len(frames) THEN "sent" ELSE @]
        /\ doc' = doc /\ worker' = worker /\ ruleEngine' = ruleEngine /\ loads' = loads /\ dirty' = dirty
        /\ names' = names /\ manifest' = manifest /\ importing' = importing
    BY DEF publish_document, flash
  <1>2. k \in Nat /\ n \in Nat /\ k <= n + 1 /\ Len(frames) = n + 1 /\ CommandOK(doc, loads, frames[k])
    BY <1>1, FramesFacts
  <1>3. editors = [x \in Editors |-> editors[x]] /\ EditorOK(doc, loads, editors[e])
    BY DEF IInv, Around
  <1>4. phase = (IF k = Len(frames) THEN "sent" ELSE editors[e].phase)
    OBVIOUS
  <1>5. phase \in {"sending", "sent"} /\ (phase = "sending" => k <= n)
    <2>1. k # n + 1 => k <= n
      BY <1>2, SMT
    <2> QED BY <1>1, <1>2, <2>1
  <1> HIDE DEF k, frames, phase
  <1>6. editors' = [editors EXCEPT ![e] = r]
    <2>1. "phase" \in DOMAIN editors[e]
      BY <1>3 DEF EditorOK
    <2> QED BY <1>1, <1>3, <1>4, <2>1, SentFields
  <1>7. /\ r \in [phase : {"idle", "read", "sending", "sent"}, seen : Docs, loads : Nat,
                  text : RuleTexts \cup {<<>>}, sent : Nat]
        /\ r.phase = phase /\ r.text = editors[e].text /\ r.sent = k
        /\ r.seen = editors[e].seen /\ r.loads = editors[e].loads
    BY <1>2, <1>3, <1>5 DEF EditorOK
  <1>8. editors[e].text \in RuleTexts
    BY <1>1, <1>3 DEF EditorOK
  <1> HIDE DEF r
  <1>9. EditorOK(doc, loads, r)
    BY <1>3, <1>5, <1>7, <1>8 DEF EditorOK
  <1> QED BY <1>1, <1>2, <1>6, <1>9, EditorStep

LEMMA PublishFailsStep == ASSUME IInv, NEW e \in Editors, PublishFails(e) PROVE IInv'
  <1> DEFINE r == [editors[e] EXCEPT !.phase = "idle"]
  <1>1. /\ editors' = [editors EXCEPT ![e].phase = "idle"]
        /\ doc' = doc /\ worker' = worker /\ ruleEngine' = ruleEngine /\ loads' = loads /\ dirty' = dirty
        /\ names' = names /\ manifest' = manifest /\ importing' = importing /\ cmds' = cmds
    BY DEF PublishFails, flash
  <1>2. EditorOK(doc, loads, editors[e])
    BY DEF IInv, Around
  <1>3. EditorOK(doc, loads, r)
    BY <1>2, EditorRests
  <1> QED BY <1>1, <1>3, EditorStep
\* The steps outside the editors that only queue a command.
LEMMA BesideStep ==
    ASSUME IInv, editors' = editors, doc' = doc, worker' = worker, ruleEngine' = ruleEngine,
           loads' = loads, dirty' = dirty, names' \in {1, None}, names' = names \/ RenamePending',
           manifest' = manifest \/ manifest' \in Manifests, importing' \in Seq(Writes),
           cmds' = cmds \/ \E c : CommandOK(doc, loads, c) /\ cmds' = Append(cmds, c)
    PROVE  IInv'
  <1>1. /\ cmds' \in Seq(Range(cmds')) /\ \A c \in Range(cmds') : CommandOK(doc', loads', c)
        /\ RenamePending => RenamePending'
    BY QueueStep
  <1>2. GoodDoc(doc)' /\ WorkerOK' /\ EngineInv' /\ NamesInv'
    BY <1>1, QuietDocument
  <1>3. Around'
    BY <1>1 DEF IInv, Around
  <1> QED BY <1>2, <1>3 DEF IInv

LEMMA PatchStep == ASSUME IInv, NEW r, NEW on \in BOOLEAN, patch_rule(r, on) PROVE IInv'
  <1> DEFINE c == [kind |-> "enable", rule |-> r, on |-> on]
  <1>1. /\ cmds' = Append(cmds, c) /\ editors' = editors
        /\ doc' = doc /\ worker' = worker /\ ruleEngine' = ruleEngine /\ loads' = loads /\ dirty' = dirty
        /\ names' = names /\ manifest' = manifest /\ importing' = importing
    BY DEF patch_rule, flash
  <1>2. CommandOK(doc, loads, c)
    BY DEF CommandOK
  <1>3. names' \in {1, None} /\ importing' \in Seq(Writes)
    BY <1>1 DEF IInv, Around
  <1> QED BY <1>1, <1>2, <1>3, BesideStep

LEMMA RenameStep == ASSUME IInv, NEW n \in {1, None}, Rename(n) PROVE IInv'
  <1> DEFINE c == [kind |-> "renamed"]
  <1>1. /\ cmds' = Append(cmds, c) /\ editors' = editors /\ names' = n
        /\ doc' = doc /\ worker' = worker /\ ruleEngine' = ruleEngine /\ loads' = loads /\ dirty' = dirty
        /\ manifest' = manifest /\ importing' = importing
    BY DEF Rename, flash
  <1>2. CommandOK(doc, loads, c) /\ c.kind = "renamed"
    BY DEF CommandOK
  <1>3. RenamePending'
    BY <1>1, <1>2, Queued
  <1>4. importing' \in Seq(Writes)
    BY <1>1 DEF IInv, Around
  <1> QED BY <1>1, <1>2, <1>3, <1>4, BesideStep

LEMMA ImportStep == ASSUME IInv, ImportBegins \/ ImportWrites \/ ImportStops PROVE IInv'
  <1> DEFINE c == [kind |-> "reloaded"]
  <1>1. CommandOK(doc, loads, c)
    BY DEF CommandOK
  <1>2. importing \in Seq(Writes) /\ names \in {1, None}
    BY DEF IInv, Around
  <1>3. CASE ImportBegins
    <2>1. /\ importing' = write_banks(PeerDoc) /\ editors' = editors /\ cmds' = cmds
          /\ doc' = doc /\ worker' = worker /\ ruleEngine' = ruleEngine /\ loads' = loads /\ dirty' = dirty
          /\ names' = names /\ manifest' = manifest
      BY <1>3 DEF ImportBegins, flash
    <2>2. importing' \in Seq(Writes)
      BY <2>1, TextFacts, WriteBanksFacts
    <2> QED BY <1>2, <2>1, <2>2, BesideStep
  <1>4. CASE ImportWrites
    <2> DEFINE w == Head(importing)
    <2>1. /\ importing # <<>> /\ importing' = Tail(importing) /\ editors' = editors
          /\ cmds' = cmds \/ cmds' = Append(cmds, c)
          /\ doc' = doc /\ worker' = worker /\ ruleEngine' = ruleEngine /\ loads' = loads /\ dirty' = dirty
          /\ names' = names /\ manifest' = IF w[1] = ManifestBank THEN w[2] ELSE manifest
      BY <1>4 DEF ImportWrites
    <2>2. w \in Writes /\ importing' \in Seq(Writes)
      BY <1>2, <2>1, TailFacts
    <2>3. manifest' = manifest \/ manifest' \in Manifests
      BY <2>1, <2>2, ManifestWrites
    <2> QED BY <1>1, <1>2, <2>1, <2>2, <2>3, BesideStep
  <1>5. CASE ImportStops
    <2>1. /\ importing' = <<>> /\ editors' = editors
          /\ cmds' = cmds \/ cmds' = Append(cmds, c)
          /\ doc' = doc /\ worker' = worker /\ ruleEngine' = ruleEngine /\ loads' = loads /\ dirty' = dirty
          /\ names' = names /\ manifest' = manifest
      BY <1>5 DEF ImportStops, flash
    <2>2. importing' \in Seq(Writes)
      BY <2>1, EmptyFacts
    <2> QED BY <1>1, <1>2, <2>1, <2>2, BesideStep
  <1> QED BY <1>3, <1>4, <1>5

LEMMA RestartStep == ASSUME IInv, Restart PROVE IInv'
  <1>1. /\ doc' = hydrate(NoDocument) /\ ruleEngine' = EngineOn(doc') /\ loads' = loads + 1
        /\ worker' = IdleWorker /\ dirty' = FALSE /\ cmds' = <<>> /\ importing' = <<>>
        /\ manifest' = manifest /\ names' = names
        /\ editors' = [e \in Editors |-> IF editors[e].phase = "read" THEN editors[e]
                                         ELSE [editors[e] EXCEPT !.phase = "idle"]]
    BY DEF Restart, flash
  <1>2. /\ names \in {1, None} /\ loads \in Nat /\ doc.rev \in Nat
        /\ manifest = None \/ manifest \in Manifests
    BY DocRev DEF IInv, Around
  <1>3. GoodDoc(doc') /\ (doc'.lang => doc'.compiled = recompiled(doc'))
    <2>1. /\ GoodDoc(hydrate(NoDocument))
          /\ \/ hydrate(NoDocument) = NoDocument
             \/ hydrate(NoDocument).lang => hydrate(NoDocument).compiled = recompiled(hydrate(NoDocument))
      BY <1>2, NoDocumentFacts, HydrateFacts
    <2> QED BY <1>1, <2>1, NoDocumentFacts
  <1>4. doc'.rev \in Nat /\ loads' \in Nat
    <2>1. loads + 1 \in Nat
      BY <1>2, SMT
    <2> QED BY <1>1, <1>3, <2>1, DocRev
  <1>5. Moves(doc, loads, doc', loads')
    BY <1>1, <1>2, <1>4 DEF Moves
  <1>6. editors' = [e \in Editors |-> editors'[e]] /\ \A e \in Editors : EditorOK(doc', loads', editors'[e])
    <2>1. editors' = [e \in Editors |-> editors'[e]]
      BY <1>1
    <2>2. ASSUME NEW e \in Editors PROVE EditorOK(doc', loads', editors'[e])
      <3>1. EditorOK(doc, loads, editors[e])
        BY DEF IInv, Around
      <3>2. EditorOK(doc, loads, [editors[e] EXCEPT !.phase = "idle"])
        BY <3>1, EditorRests
      <3>3. editors'[e] = editors[e] \/ editors'[e] = [editors[e] EXCEPT !.phase = "idle"]
        BY <1>1
      <3>4. EditorOK(doc, loads, editors'[e])
        BY <3>1, <3>2, <3>3
      <3> QED BY <1>5, <3>4, EditorMoves
    <2> QED BY <2>1, <2>2
  <1>7. Around'
    <2>1. cmds' \in Seq(Range(cmds')) /\ Range(cmds') = {} /\ importing' \in Seq(Writes)
      BY <1>1, EmptyFacts
    <2>2. names' \in {1, None} /\ dirty' \in BOOLEAN /\ (manifest' = None \/ manifest' \in Manifests)
      BY <1>1, <1>2
    <2>3. \A c \in Range(cmds') : CommandOK(doc', loads', c)
      BY <2>1
    <2> QED BY <1>4, <1>6, <2>1, <2>2, <2>3 DEF Around
  <1>8. EngineInv'
    <2>1. ruleEngine'.rev = doc'.rev /\ ruleEngine'.rules = doc'.compiled
      BY <1>1 DEF EngineOn
    <2> QED BY <1>4, <2>1, EngineInStep
  <1>9. NamesInv'
    BY <1>1, <1>3, NamesKept DEF NamesInv
  <1> QED BY <1>1, <1>3, <1>7, <1>8, <1>9, WorkerRests DEF IInv
----------------------------------------------------------------------------
LEMMA InitHolds == ASSUME DocInit PROVE IInv
  <1>1. /\ doc = NoDocument /\ ruleEngine = EngineOn(NoDocument) /\ worker = IdleWorker /\ dirty = FALSE
        /\ cmds = <<>> /\ manifest = None /\ names = 1 /\ importing = <<>> /\ loads = 0
        /\ editors = [e \in Editors |-> [phase |-> "idle", seen |-> NoDocument, loads |-> 0,
                                         text |-> <<>>, sent |-> 0]]
    BY DEF DocInit
  <1>2. 0 \in Nat /\ 0 <= 0
    BY SMT
  <1>3. GoodDoc(doc)
    BY <1>1, NoDocumentFacts
  <1>4. WorkerOK
    <2>1. IdleWorker \in [pc : {"idle", "commit", "toggle"}, writes : Seq(Writes), next : Docs,
                          by : Editors \cup {None}, seen : Docs, loads : Nat]
      BY <1>2, EmptyFacts, NoDocumentFacts DEF IdleWorker
    <2> QED BY <1>1, <2>1 DEF WorkerOK, IdleWorker
  <1>5. EngineInv
    BY <1>1, <1>2, NoDocumentFacts DEF EngineInv, EngineOn
  <1>6. NamesInv
    BY <1>1, NoDocumentFacts DEF NamesInv
  <1>7. Around
    <2>1. Snapshot(doc, loads, NoDocument, 0)
      BY <1>1, <1>2, NoDocumentFacts DEF Snapshot
    <2>2. ASSUME NEW e \in Editors PROVE EditorOK(doc, loads, editors[e])
      <3> DEFINE r == [phase |-> "idle", seen |-> NoDocument, loads |-> 0, text |-> <<>>, sent |-> 0]
      <3>1. EditorOK(doc, loads, r)
        BY <1>2, <2>1, NoDocumentFacts DEF EditorOK
      <3>2. editors[e] = r
        BY <1>1
      <3> QED BY <3>1, <3>2
    <2>3. editors = [e \in Editors |-> editors[e]]
      BY <1>1
    <2>4. cmds \in Seq(Range(cmds)) /\ Range(cmds) = {} /\ importing \in Seq(Writes)
      BY <1>1, EmptyFacts
    <2>5. \A c \in Range(cmds) : CommandOK(doc, loads, c)
      BY <2>4
    <2> QED BY <1>1, <1>2, <2>2, <2>3, <2>4, <2>5 DEF Around
  <1> QED BY <1>3, <1>4, <1>5, <1>6, <1>7 DEF IInv

LEMMA StepHolds == ASSUME IInv, [DocNext]_docVars PROVE IInv'
  <1>1. CASE UNCHANGED docVars
    <2>1. /\ editors' = editors /\ doc' = doc /\ worker' = worker /\ ruleEngine' = ruleEngine
          /\ loads' = loads /\ dirty' = dirty /\ names' = names /\ manifest' = manifest
          /\ importing' = importing /\ cmds' = cmds
      BY <1>1 DEF docVars
    <2>2. names' \in {1, None} /\ importing' \in Seq(Writes)
      BY <2>1 DEF IInv, Around
    <2> QED BY <2>1, <2>2, BesideStep
  <1>2. CASE on_frame \/ write_one \/ WriteFails \/ on_tick
    BY <1>2, FrameStep, WriteOneStep, WriteFailsStep, TickStep
  <1>3. ASSUME NEW e \in Editors,
               get(e) \/ publish_document(e) \/ PublishFails(e) \/ \E t \in RuleTexts : put(e, t)
        PROVE  IInv'
    BY <1>3, GetStep, PublishStep, PublishFailsStep, PutStep
  <1>4. ASSUME NEW r \in UNION {Range(t) : t \in RuleTexts}, NEW on \in BOOLEAN, patch_rule(r, on)
        PROVE  IInv'
    BY <1>4, PatchStep
  <1>5. ASSUME NEW n \in {1, None}, Rename(n) PROVE IInv'
    BY <1>5, RenameStep
  <1>6. CASE ImportBegins \/ ImportWrites \/ ImportStops \/ Restart
    BY <1>6, ImportStep, RestartStep
  <1> QED BY <1>1, <1>2, <1>3, <1>4, <1>5, <1>6 DEF DocNext

\* A command on the bus, or a rename not compiled for, is the only reason for a
\* document that is not compiled for the names as they are.
LEMMA InvariantSuffices == ASSUME IInv PROVE EngineCurrent /\ NoLostUpdate
  <1>1. DocTypeOK
    <2>1. doc.compiled # None => DOMAIN doc.compiled.on = Range(doc.text)
      BY DEF IInv, GoodDoc, RuleSetsOf
    <2>2. worker.pc \in {"idle", "commit", "toggle"} /\ (worker.pc = "idle" <=> worker.writes = <<>>)
      BY DEF IInv, WorkerOK
    <2>3. doc.lang /\ doc.compiled = None => doc.diag # None
      BY DEF IInv, GoodDoc
    <2> QED BY <2>1, <2>2, <2>3 DEF DocTypeOK
  <1>2. EngineFollows
    BY DEF IInv, EngineInv, EngineFollows
  <1>3. NamesCurrent
    <2>1. cmds = <<>> /\ ~dirty => ~RenamePending
      BY EmptyFacts DEF RenamePending
    <2> QED BY <2>1 DEF IInv, NamesInv, NamesCurrent
  <1>4. NoLostUpdate
    BY DEF IInv, WorkerOK, NoLostUpdate
  <1> QED BY <1>1, <1>2, <1>3, <1>4 DEF EngineCurrent

\* The rules worker keeps the engine on the document and the document on the
\* names: whatever is committed, toggled, renamed, imported, torn or recovered,
\* an engine at the document's revision runs the document's rules with its
\* switches (reload_engine_if_moved, flip_engine_bit, rehydrate_from_slices),
\* and once the queue is drained the rules are those the names call for.
THEOREM EngineStaysCurrent == DocSpec => []EngineCurrent
  <1>1. DocInit => IInv
    BY InitHolds
  <1>2. IInv /\ [DocNext]_docVars => IInv'
    BY StepHolds
  <1>3. IInv => EngineCurrent
    BY InvariantSuffices
  <1> QED BY <1>1, <1>2, <1>3, PTL DEF DocSpec

\* base_revision in try_commit: a commit being written replaces the very text and
\* switches its author had read, unless a load from flash came in between.
THEOREM NoUpdateIsLost == DocSpec => []NoLostUpdate
  <1>1. DocInit => IInv
    BY InitHolds
  <1>2. IInv /\ [DocNext]_docVars => IInv'
    BY StepHolds
  <1>3. IInv => NoLostUpdate
    BY InvariantSuffices
  <1> QED BY <1>1, <1>2, <1>3, PTL DEF DocSpec
=============================================================================
