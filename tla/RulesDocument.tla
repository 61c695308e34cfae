--------------------------- MODULE RulesDocument ---------------------------
(***************************************************************************)
(* The rules document: how the rules worker takes a new text from an       *)
(* editor, keeps it in flash, follows renames, and keeps the engine on it. *)
(*                                                                         *)
(* A text is a sequence of pieces; a piece is one rule, one chunk of the   *)
(* upload and one text bank.  Hashes are taken to tell texts apart.  The   *)
(* worker is one thread, but its bank writes are steps of their own: power *)
(* may fail between them, and an import writes the same banks.             *)
(***************************************************************************)
EXTENDS Absent, Integers, Sequences, Functions

CONSTANTS
    Editors,
    RuleTexts,      \* the texts the editors write, at most TextBanks long
    BoundRules,     \* the rules that name a device: they compile only while the name is known
    TextBanks,
    PeerDoc,        \* what an import brings: [text, rev, table]
    DocScenarios    \* the bounds: [edits, toggles, renames, imports, faults, crashes, failed]

\* Texts are made of rules; None is neither a compiled document nor a diagnosis.
ASSUME DocAssumption ==
    LET texts == RuleTexts \cup {PeerDoc.text}
    IN  /\ TextBanks \in Nat /\ texts \subseteq Seq(UNION {Range(t) : t \in texts})
        /\ \A t \in RuleTexts : Len(t) <= TextBanks
        /\ PeerDoc.rev \in Nat /\ PeerDoc.table \in [DOMAIN PeerDoc.table -> BOOLEAN]
        /\ \A t \in texts : None \notin [bind : {0, 1}, on : [Range(t) -> BOOLEAN]]
        /\ None \notin {"rules_banks_torn", "rules_compile_failed", "rules_names_unresolved"}

VARIABLES
    doc,        \* RulesStore: [text, lang, rev, compiled, diag, table]
    staging,    \* the chunks received under one correlation
    worker,     \* the worker thread: idle, or writing the banks of a document
    ruleEngine, \* [rev, rules]: the engine's revision and rules
    dirty,      \* names_dirty
    cmds,       \* the worker's bus queue
    banks,      \* flash: a bank holds a piece, "" or None
    manifest,   \* flash: the manifest bank
    names,      \* what the resolver knows of the named device
    editors,    \* the HTTP clients and their handlers
    importing,  \* the banks an import still has to write
    loads,      \* how often the document came from flash
    docRun
docVars == <<doc, staging, worker, ruleEngine, dirty, cmds, banks, manifest, names, editors, importing, loads, docRun>>
flash == <<banks, manifest>>

DocSpend(what) == docRun[what] > 0 /\ docRun' = [docRun EXCEPT ![what] = @ - 1]

-----------------------------------------------------------------------------
(* Compiling and the enable table.                                         *)

compile(text) ==
    LET bound == Range(text) \cap BoundRules # {}
    IN  IF bound /\ names = None THEN None
        ELSE [bind |-> IF bound THEN names ELSE 0, on |-> [r \in Range(text) |-> TRUE]]
enable_table_of(compiled) == compiled.on
apply_enable_table(compiled, table) ==
    [compiled EXCEPT !.on = [r \in DOMAIN @ |-> IF r \in DOMAIN table THEN table[r] ELSE @[r]]]
record_enabled(table, rule, on) ==
    [r \in DOMAIN table \cup {rule} |-> IF r = rule THEN on ELSE table[r]]

NoDocument == [text |-> <<>>, lang |-> FALSE, rev |-> 0, compiled |-> None, diag |-> None, table |-> <<>>]
recompiled(d) ==
    LET set == compile(d.text)
    IN  IF set = None THEN None ELSE apply_enable_table(set, d.table)

-----------------------------------------------------------------------------
(* The banks.                                                              *)

ManifestBank == TextBanks + 1
ManifestOf(d) == [text |-> d.text, rev |-> d.rev, table |-> d.table]
text_banks(text) == [b \in 1 .. TextBanks |-> IF b <= Len(text) THEN text[b] ELSE ""]
\* Mutant: the banks are emptied before they are written.
write_banks_ClearFirst(d) ==
    [b \in 1 .. TextBanks |-> <<b, "">>]
        \o Append([b \in 1 .. TextBanks |-> <<b, text_banks(d.text)[b]>>], <<ManifestBank, ManifestOf(d)>>)
\* The writes of a document: the text banks in order, the manifest last.
write_banks(d) == Append([b \in 1 .. TextBanks |-> <<b, text_banks(d.text)[b]>>],
                         <<ManifestBank, ManifestOf(d)>>)

reassemble(m, held) ==
    LET pieces == SelectSeq(held, LAMBDA p : p \notin {None, ""})
        source == SubSeq(pieces, 1, Len(m.text))
    IN  IF Len(pieces) < Len(m.text) \/ source # m.text THEN None ELSE source

\* What a load makes of the flash: the document, None to leave the store as it is.
load_document ==
    IF manifest = None THEN None
    ELSE LET source == reassemble(manifest, banks)
         IN  IF source = None THEN [NoDocument EXCEPT !.diag = "rules_banks_torn"]
             ELSE LET d == [NoDocument EXCEPT !.text = source, !.lang = TRUE, !.rev = manifest.rev,
                                              !.table = manifest.table]
                      set == recompiled(d)
                  IN  [d EXCEPT !.compiled = set,
                                !.diag = IF set = None THEN "rules_compile_failed" ELSE None]
hydrate(d) == IF load_document = None THEN d ELSE load_document

-----------------------------------------------------------------------------
(* The worker.                                                             *)

EngineOn(d) == [rev |-> d.rev, rules |-> d.compiled]
reload_engine_if_moved(e, d) == IF d.rev = e.rev THEN e ELSE EngineOn(d)

NoStaging == [corr |-> None, chunks |-> <<>>]
IdleWorker == [pc |-> "idle", writes |-> <<>>, next |-> NoDocument, by |-> None, seen |-> NoDocument, loads |-> 0]

on_stage(c) ==
    LET kept == IF staging.corr = c.corr THEN staging
                ELSE [corr |-> c.corr, chunks |-> [i \in 1 .. c.count |-> None]]
    IN  /\ staging' = IF c.index \in DOMAIN kept.chunks
                      THEN [kept EXCEPT !.chunks[c.index] = c.piece] ELSE kept
        /\ UNCHANGED <<doc, worker, dirty, editors, loads>>

\* Mutant: the revision is compared by the HTTP handler alone.
try_commit_NoBase(c) ==
    /\ staging.corr = c.corr /\ Len(staging.chunks) = c.count
    /\ staging.chunks = c.text
    /\ compile(c.text) # None
\* Whether the staged text becomes the document.
try_commit(c) ==
    /\ staging.corr = c.corr /\ Len(staging.chunks) = c.count
    /\ staging.chunks = c.text
    /\ c.base = doc.rev
    /\ compile(c.text) # None

\* An accepted document goes to the banks first and to the store after them.
on_commit(c) ==
    /\ staging' = NoStaging
    /\ IF try_commit(c)
       THEN LET set == compile(c.text)
                next == [text |-> c.text, lang |-> TRUE, rev |-> doc.rev + 1, compiled |-> set,
                         diag |-> None, table |-> enable_table_of(set)]
            IN  /\ worker' = [pc |-> "commit", writes |-> write_banks(next), next |-> next,
                              by |-> c.corr, seen |-> c.seen, loads |-> c.loads]
                /\ UNCHANGED editors
       ELSE /\ editors' = [editors EXCEPT ![c.corr].phase = "idle"]
            /\ UNCHANGED worker
    /\ UNCHANGED <<doc, dirty, loads>>

\* RulesStore::set_enabled and flip_engine_bit; the confirmation precedes the writes.
on_enable(c) ==
    /\ IF doc.compiled = None \/ c.rule \notin Range(doc.text)
       THEN UNCHANGED <<doc, worker>>
       ELSE /\ doc' = [doc EXCEPT !.compiled.on[c.rule] = c.on, !.rev = @ + 1,
                                  !.table = record_enabled(@, c.rule, c.on)]
            /\ worker' = [IdleWorker EXCEPT !.pc = "toggle", !.writes = write_banks(doc')]
    /\ UNCHANGED <<staging, dirty, editors, loads>>

\* Mutant: the engine is reloaded only when the revision has moved.
rehydrate_IfMoved(e) == reload_engine_if_moved(e, hydrate(doc))
rehydrate_from_slices(e) == EngineOn(hydrate(doc))

on_reloaded ==
    /\ doc' = hydrate(doc)
    /\ loads' = loads + 1
    /\ UNCHANGED <<staging, worker, dirty, editors>>
on_renamed ==
    /\ dirty' = TRUE
    /\ UNCHANGED <<doc, staging, worker, editors, loads>>

flip_engine_bit(e, c) ==
    IF e.rev = doc'.rev - 1 THEN [rev |-> doc'.rev, rules |-> [e.rules EXCEPT !.on[c.rule] = c.on]] ELSE e

on_frame ==
    /\ worker.pc = "idle" /\ cmds # <<>>
    /\ cmds' = Tail(cmds)
    /\ LET c == Head(cmds)
           inStep == reload_engine_if_moved(ruleEngine, doc)
       IN  /\ \/ c.kind = "stage" /\ on_stage(c)
              \/ c.kind = "commit" /\ on_commit(c)
              \/ c.kind = "enable" /\ on_enable(c)
              \/ c.kind = "reloaded" /\ on_reloaded
              \/ c.kind = "renamed" /\ on_renamed
           /\ ruleEngine' = IF c.kind = "reloaded" THEN rehydrate_from_slices(inStep)
                            ELSE IF c.kind = "enable" /\ doc'.rev # doc.rev THEN flip_engine_bit(inStep, c)
                            ELSE inStep
    /\ UNCHANGED <<flash, names, importing, docRun>>

\* write_one: an empty bank is not written over an empty one; a failed write ends the series.
Finish(d, w) ==
    /\ doc' = IF w.pc = "commit" THEN w.next ELSE d
    /\ editors' = IF w.pc = "commit" THEN [editors EXCEPT ![w.by].phase = "idle"] ELSE editors
    /\ worker' = IdleWorker
write_one ==
    /\ worker.pc # "idle"
    /\ LET w == Head(worker.writes)
       IN  /\ banks' = IF w[1] \in DOMAIN banks /\ ~(w[2] = "" /\ banks[w[1]] = None)
                       THEN [banks EXCEPT ![w[1]] = w[2]] ELSE banks
           /\ manifest' = IF w[1] = ManifestBank THEN w[2] ELSE manifest
    /\ IF Len(worker.writes) > 1
       THEN worker' = [worker EXCEPT !.writes = Tail(@)] /\ UNCHANGED <<doc, editors>>
       ELSE Finish(doc, worker)
    /\ UNCHANGED <<staging, ruleEngine, dirty, cmds, names, importing, loads, docRun>>
WriteFails ==
    /\ worker.pc # "idle" /\ docRun.faults > 0
    /\ docRun' = [docRun EXCEPT !.faults = @ - 1, !.failed = TRUE]
    /\ Finish(doc, worker)
    /\ UNCHANGED <<staging, ruleEngine, dirty, cmds, flash, names, importing, loads>>

\* The revision moves with the rules; the banks keep the old one.
recompile_in_place(d) ==
    LET set == recompiled(d)
    IN  IF ~d.lang \/ set = d.compiled THEN d
        ELSE [d EXCEPT !.compiled = set, !.rev = @ + 1,
                       !.diag = IF set = None THEN "rules_names_unresolved" ELSE None]

on_tick ==
    /\ worker.pc = "idle"
    /\ dirty' = FALSE
    /\ doc' = IF dirty THEN recompile_in_place(doc) ELSE doc
    /\ ruleEngine' = reload_engine_if_moved(ruleEngine, doc')
    /\ UNCHANGED <<staging, worker, cmds, flash, names, editors, importing, loads, docRun>>

-----------------------------------------------------------------------------
(* The editors: a page that has read the document, and the PUT handler.    *)

get(e) ==
    /\ editors[e].phase = "idle" /\ DocSpend("edits")
    /\ editors' = [editors EXCEPT ![e] = [phase |-> "read", seen |-> doc, loads |-> loads,
                                          text |-> <<>>, sent |-> 0]]
    /\ UNCHANGED <<doc, staging, worker, ruleEngine, dirty, cmds, flash, names, importing, loads>>

\* The handler checks before it publishes; the worker checks again.
put(e, text) ==
    /\ editors[e].phase = "read"
    /\ editors' = [editors EXCEPT ![e].phase = IF compile(text) # None /\ editors[e].seen.rev = doc.rev
                                               THEN "sending" ELSE "idle",
                                  ![e].text = text]
    /\ UNCHANGED <<doc, staging, worker, ruleEngine, dirty, cmds, flash, names, importing, loads, docRun>>

document_frames(e) ==
    LET text == editors[e].text
    IN  [i \in 1 .. Len(text) |-> [kind |-> "stage", corr |-> e, count |-> Len(text), index |-> i, piece |-> text[i]]]
        \o <<[kind |-> "commit", corr |-> e, count |-> Len(text), text |-> text, base |-> editors[e].seen.rev,
              seen |-> editors[e].seen, loads |-> editors[e].loads]>>
\* publish_begin_then_paced_series, a frame at a time; it may give up on a full ingress.
publish_document(e) ==
    /\ editors[e].phase = "sending"
    /\ LET frames == document_frames(e)
           k == editors[e].sent + 1
       IN  /\ cmds' = Append(cmds, frames[k])
           /\ editors' = [editors EXCEPT ![e].sent = k,
                                         ![e].phase = IF k = Len(frames) THEN "sent" ELSE @]
    /\ UNCHANGED <<doc, staging, worker, ruleEngine, dirty, flash, names, importing, loads, docRun>>
PublishFails(e) ==
    /\ editors[e].phase = "sending" /\ DocSpend("faults")
    /\ editors' = [editors EXCEPT ![e].phase = "idle"]
    /\ UNCHANGED <<doc, staging, worker, ruleEngine, dirty, cmds, flash, names, importing, loads>>

patch_rule(r, on) ==
    /\ DocSpend("toggles")
    /\ doc.compiled # None /\ r \in DOMAIN doc.compiled.on
    /\ cmds' = Append(cmds, [kind |-> "enable", rule |-> r, on |-> on])
    /\ UNCHANGED <<doc, staging, worker, ruleEngine, dirty, flash, names, editors, importing, loads>>

-----------------------------------------------------------------------------
(* The rest of the controller.                                             *)

Rename(n) ==
    /\ DocSpend("renames") /\ n # names
    /\ names' = n
    /\ cmds' = Append(cmds, [kind |-> "renamed"])
    /\ UNCHANGED <<doc, staging, worker, ruleEngine, dirty, flash, editors, importing, loads>>

ImportBegins ==
    /\ importing = <<>> /\ DocSpend("imports")
    /\ importing' = write_banks(PeerDoc)
    /\ UNCHANGED <<doc, staging, worker, ruleEngine, dirty, cmds, flash, names, editors, loads>>
ImportWrites ==
    /\ importing # <<>>
    /\ LET w == Head(importing)
       IN  /\ banks' = IF w[1] \in DOMAIN banks THEN [banks EXCEPT ![w[1]] = w[2]] ELSE banks
           /\ manifest' = IF w[1] = ManifestBank THEN w[2] ELSE manifest
    /\ importing' = Tail(importing)
    /\ cmds' = IF Len(importing) = 1 THEN Append(cmds, [kind |-> "reloaded"]) ELSE cmds
    /\ UNCHANGED <<doc, staging, worker, ruleEngine, dirty, names, editors, loads, docRun>>
\* A bank that cannot be written ends the import; what was written is announced.
ImportStops ==
    /\ importing # <<>> /\ DocSpend("faults")
    /\ importing' = <<>>
    /\ cmds' = IF Len(importing) > TextBanks THEN cmds ELSE Append(cmds, [kind |-> "reloaded"])
    /\ UNCHANGED <<doc, staging, worker, ruleEngine, dirty, flash, names, editors, loads>>

\* Power is lost and the worker starts again; what the pages have read, they keep.
Restart ==
    /\ DocSpend("crashes")
    /\ doc' = hydrate(NoDocument)
    /\ ruleEngine' = EngineOn(doc')
    /\ loads' = loads + 1
    /\ staging' = NoStaging /\ worker' = IdleWorker /\ dirty' = FALSE /\ cmds' = <<>> /\ importing' = <<>>
    /\ editors' = [e \in Editors |-> IF editors[e].phase = "read" THEN editors[e]
                                     ELSE [editors[e] EXCEPT !.phase = "idle"]]
    /\ UNCHANGED <<flash, names>>

DocInit ==
    /\ docRun \in DocScenarios
    /\ doc = NoDocument /\ ruleEngine = EngineOn(NoDocument)
    /\ staging = NoStaging /\ worker = IdleWorker /\ dirty = FALSE /\ cmds = <<>>
    /\ banks = [b \in 1 .. TextBanks |-> None] /\ manifest = None
    /\ names = 1
    /\ editors = [e \in Editors |-> [phase |-> "idle", seen |-> NoDocument, loads |-> 0, text |-> <<>>, sent |-> 0]]
    /\ importing = <<>> /\ loads = 0
DocNext ==
    \/ on_frame \/ write_one \/ WriteFails \/ on_tick
    \/ \E e \in Editors : get(e) \/ publish_document(e) \/ PublishFails(e) \/ \E t \in RuleTexts : put(e, t)
    \/ \E r \in UNION {Range(t) : t \in RuleTexts}, on \in BOOLEAN : patch_rule(r, on)
    \/ \E n \in {1, None} : Rename(n)
    \/ ImportBegins \/ ImportWrites \/ ImportStops \/ Restart
DocSpec == DocInit /\ [][DocNext]_docVars

-----------------------------------------------------------------------------
(* What the worker promises.                                               *)

\* The store holds a compiled document, or says why it does not.
DocTypeOK ==
    /\ worker.pc \in {"idle", "commit", "toggle"}
    /\ (worker.pc = "idle") = (worker.writes = <<>>)
    /\ doc.lang /\ doc.compiled = None => doc.diag # None
    /\ doc.compiled # None => DOMAIN doc.compiled.on = Range(doc.text)

\* reload_engine_if_moved trusts the revision: when the engine's is the
\* document's, the engine runs exactly the document's rules, with the same
\* switches, whatever was committed, toggled, renamed, imported or recovered.
EngineFollows == ruleEngine.rev = doc.rev => ruleEngine.rules = doc.compiled

\* base_revision: a commit replaces the very document its author had read,
\* with every toggle made since; only a load from flash in between, which
\* counts revisions from the manifest again, may hide a change.
NoLostUpdate ==
    worker.pc = "commit" /\ worker.loads = loads =>
        doc.text = worker.seen.text /\ doc.table = worker.seen.table

Importing == importing # <<>> \/ \E i \in DOMAIN cmds : cmds[i].kind = "reloaded"
FlashWhole == manifest # None /\ reassemble(manifest, banks) # None

\* What the controller runs is what it will run after a power loss: unless a
\* bank write failed, the worker at rest has the text and the switches of its
\* document in flash, whole, also when an import wrote between its own writes.
Durable ==
    worker.pc = "idle" /\ ~Importing /\ doc.lang /\ ~docRun.failed =>
        FlashWhole /\ manifest.text = doc.text /\ manifest.table = doc.table

\* Once the worker has caught up with the bus, the document is compiled for the
\* names as they are now, under the switches the operator set: a rename on the
\* way to a commit, a reload or a restart is not missed.
NamesCurrent ==
    cmds = <<>> /\ ~dirty /\ worker.pc = "idle" /\ doc.lang => doc.compiled = recompiled(doc)

\* Switching a rule never puts the stored document at risk: between imports,
\* and unless an earlier write failed, only the writes of a commit can make
\* flash that loads refuse to.
OnlyCommitsTear ==
    [][FlashWhole /\ ~FlashWhole' => worker.pc = "commit" \/ Importing \/ docRun.failed]_docVars

\* The engine runs the document as it is now, under the names as they are now.
EngineCurrent == DocTypeOK /\ EngineFollows /\ NamesCurrent

\* The document loses no one's change: not to another editor's commit, not to a
\* restart.
DocumentKept == NoLostUpdate /\ Durable
=============================================================================
