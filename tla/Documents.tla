------------------------------ MODULE Documents ------------------------------
(***************************************************************************)
(* Documents as chunk rows (docs_ingest.py, sqlite_store.py                *)
(* replace_doc_chunks, manager.py ingest_document): the first ingest adds  *)
(* and quarantines the chunks one by one, a re-ingest replaces them in one *)
(* transaction, and both end with a sweep that releases or refuses each    *)
(* chunk.  One document; ingests of it, the pipeline and an operator       *)
(* interleave, and an ingest may die between two commits.                  *)
(***************************************************************************)
EXTENDS Naturals, Sequences, FiniteSets

CONSTANTS
  Ingesters,
  Texts,       \* documents, as sequences of chunk verdicts: "clean", "danger", "error"
  ChunkCap,    \* _MAX_CHUNKS_PER_DOC
  MaxRows,     \* chunk rows ever written
  MaxIngests,
  MaxFaults    \* crashes and failing vector writes per behaviour

VARIABLES
  rows,       \* id -> chunk row, or None
  vectors,    \* ids with an embedding
  version,    \* meta: the doc-chunk cache version
  ing,        \* ingester -> its progress
  disturbed,  \* an ingest overlapped another one or died, and none has run alone since
  orphaned,   \* ids whose embedding a race, a crash or a failed delete may leave behind
  early,      \* ids the pipeline published before their quarantine
  ingests, faults

dvars == <<rows, vectors, version, ing, disturbed, orphaned, early, ingests, faults>>

Ids == 1..MaxRows
None == [status |-> "none", reason |-> "none", text |-> "none", gen |-> 0, swept |-> FALSE]
Idle == [pc |-> "idle", text |-> <<>>, ids |-> {}, at |-> 0, replaced |-> {}, alone |-> TRUE, gen |-> 0,
         seen |-> "none"]

Stored == {i \in Ids : rows[i].status # "none"}
Running(g) == ing[g].pc # "idle"
Served(i) == rows[i].status = "published" /\ rows[i].reason = "none"
Used == Cardinality({i \in Ids : rows[i].gen > 0})

\* Ids are never used twice: a deleted row keeps its generation.
Deleted(i) == [None EXCEPT !.gen = rows[i].gen]

\* chunk_document, cut at the cap.
Chunks(text) == SubSeq(text, 1, IF Len(text) > ChunkCap THEN ChunkCap ELSE Len(text))

Init ==
  /\ rows = [i \in Ids |-> None] /\ vectors = {} /\ version = 0
  /\ ing = [g \in Ingesters |-> Idle]
  /\ disturbed = FALSE /\ orphaned = {} /\ early = {} /\ ingests = 0 /\ faults = 0

ghosts == <<disturbed, orphaned, early>>
bounds == <<ingests, faults>>

----------------------------------------------------------------------------
\* ingest_document.  The look at the existing chunks decides between the two
\* paths.
Ingest(g, text) ==
  /\ ~Running(g) /\ ingests < MaxIngests /\ Chunks(text) # <<>>
  /\ Used + Len(text) * (1 + Cardinality({h \in Ingesters : Running(h)})) <= MaxRows
  /\ ingests' = ingests + 1
  /\ LET others == {h \in Ingesters : Running(h)} IN
     /\ ing' = [h \in Ingesters |->
                 IF h = g THEN [Idle EXCEPT !.pc = IF Stored = {} THEN "add" ELSE "snapshot",
                                            !.text = Chunks(text), !.gen = ingests + 1,
                                            !.alone = others = {}]
                 ELSE IF h \in others THEN [ing[h] EXCEPT !.alone = FALSE] ELSE Idle]
     /\ disturbed' = (disturbed \/ others # {})
  /\ UNCHANGED <<rows, vectors, version, orphaned, early, faults>>

Fresh == CHOOSE i \in Ids : rows[i].gen = 0 /\ \A j \in Ids : rows[j].gen = 0 => i <= j

\* The first ingest: manager.add with an explicit raw status.
AddChunk(g) ==
  /\ ing[g].pc = "add" /\ ing[g].text # <<>>
  /\ rows' = [rows EXCEPT ![Fresh] = [status |-> "raw", reason |-> "none", text |-> Head(ing[g].text),
                                      gen |-> ing[g].gen, swept |-> FALSE]]
  /\ ing' = [ing EXCEPT ![g].pc = "bury", ![g].at = Fresh, ![g].text = Tail(@), ![g].ids = @ \cup {Fresh}]
  /\ UNCHANGED <<vectors, version, ghosts, bounds>>

\* quarantine_entry, the call after each add.
Bury(g) ==
  /\ ing[g].pc = "bury"
  /\ LET i == ing[g].at IN
     IF i \in Stored THEN rows' = [rows EXCEPT ![i].reason = "born"] /\ vectors' = vectors \ {i}
     ELSE UNCHANGED <<rows, vectors>>
  /\ ing' = [ing EXCEPT ![g].pc = IF ing[g].text = <<>> THEN "sweep" ELSE "add"]
  /\ UNCHANGED <<version, ghosts, bounds>>

\* replace_doc_chunks reads the rows to clean up after, before its transaction.
Snapshot(g) ==
  /\ ing[g].pc = "snapshot"
  /\ ing' = [ing EXCEPT ![g].pc = "replace", ![g].replaced = Stored]
  /\ UNCHANGED <<rows, vectors, version, ghosts, bounds>>

NewIds(n) == {i \in Ids : rows[i].gen = 0 /\ Cardinality({j \in Ids : j < i /\ rows[j].gen = 0}) < n}
Nth(s, i) == Cardinality({j \in s : j <= i})

\* _build_chunk_row: quarantined from the first statement.
ChunkRow(text, gen) == [status |-> "raw", reason |-> "born", text |-> text, gen |-> gen, swept |-> FALSE]

\* The DELETE keys on the document.
Dropped(g) == Stored

\* One transaction: every row of the document goes, the new ones come in
\* quarantined, and the version moves.
Replace(g) ==
  /\ ing[g].pc = "replace"
  /\ LET text == ing[g].text
         new == NewIds(Len(text))
     IN /\ rows' = [i \in Ids |->
              IF i \in new THEN ChunkRow(text[Nth(new, i)], ing[g].gen)
              ELSE IF i \in Dropped(g) THEN Deleted(i) ELSE rows[i]]
        /\ ing' = [ing EXCEPT ![g].pc = "clean", ![g].ids = new]
  /\ version' = version + 1
  /\ orphaned' = orphaned \cup (Stored \ ing[g].replaced)
                       \cup {ing[h].at : h \in {k \in Ingesters : ing[k].pc = "upsert"}}
  /\ UNCHANGED <<vectors, disturbed, early, bounds>>

\* _cleanup_replaced_chunks: one vector delete per row of the snapshot, each
\* allowed to fail.
Cleanup(g, fails) ==
  /\ ing[g].pc = "clean"
  /\ IF ing[g].replaced = {} THEN ing' = [ing EXCEPT ![g].pc = "sweep"] /\ ~fails
                                  /\ UNCHANGED <<vectors, orphaned, faults>>
     ELSE \E i \in ing[g].replaced :
            /\ ing' = [ing EXCEPT ![g].replaced = @ \ {i}]
            /\ vectors' = IF fails THEN vectors ELSE vectors \ {i}
            /\ orphaned' = IF fails THEN orphaned \cup {i} ELSE orphaned
            /\ faults' = IF fails THEN faults + 1 ELSE faults
            /\ fails => faults < MaxFaults
  /\ UNCHANGED <<rows, version, disturbed, early, ingests>>

----------------------------------------------------------------------------
\* sweep_document_chunks.

\* The sweep's authority: a row still in the quarantine it was born into.
Sweepable(i) == rows[i].reason = "born"

SweepRead(g) ==
  /\ ing[g].pc = "sweep" /\ ing[g].ids # {}
  /\ LET i == CHOOSE j \in ing[g].ids : \A k \in ing[g].ids : j <= k IN
     ing' = [ing EXCEPT ![g].ids = @ \ {i}, ![g].at = i, ![g].seen = rows[i].reason,
                        ![g].pc = IF Sweepable(i) THEN "verdict" ELSE "sweep"]
  /\ UNCHANGED <<rows, vectors, version, ghosts, bounds>>

\* Mutant: a scanner error is taken for a clean chunk.
Verdict_open(text) == IF text = "danger" THEN "doc-sweep" ELSE "none"

\* The reason a chunk keeps, or none for a release; an error fails closed.
Verdict(text) ==
  CASE text = "danger" -> "doc-sweep" [] text = "error" -> "detector-error" [] text = "clean" -> "none"

\* update_fields, keyed by id only; a row that is gone is not brought back.
SweepWrite(g) ==
  /\ ing[g].pc = "verdict"
  /\ LET i == ing[g].at
         v == Verdict(rows[i].text)
     IN IF i \notin Stored THEN UNCHANGED rows /\ ing' = [ing EXCEPT ![g].pc = "sweep"]
        ELSE IF v = "none"
        THEN /\ rows' = [rows EXCEPT ![i].status = "published", ![i].reason = "none", ![i].swept = TRUE]
             /\ ing' = [ing EXCEPT ![g].pc = "embed"]
        ELSE /\ rows' = [rows EXCEPT ![i].reason = v]
             /\ ing' = [ing EXCEPT ![g].pc = "sweep"]
  /\ UNCHANGED <<vectors, version, ghosts, bounds>>

\* The released row is read again, then embedded.
EmbedRead(g) ==
  /\ ing[g].pc = "embed"
  /\ ing' = [ing EXCEPT ![g].pc = IF ing[g].at \in Stored THEN "upsert" ELSE "sweep"]
  /\ UNCHANGED <<rows, vectors, version, ghosts, bounds>>

Upsert(g, fails) ==
  /\ ing[g].pc = "upsert" /\ ing' = [ing EXCEPT ![g].pc = "sweep"]
  /\ fails => faults < MaxFaults
  /\ faults' = IF fails THEN faults + 1 ELSE faults
  /\ vectors' = IF fails THEN vectors ELSE vectors \cup {ing[g].at}
  /\ UNCHANGED <<rows, version, ghosts, ingests>>

Finish(g) ==
  /\ ing[g].pc = "sweep" /\ ing[g].ids = {}
  /\ ing' = [ing EXCEPT ![g] = Idle]
  /\ disturbed' = (disturbed /\ ~ing[g].alone)
  /\ UNCHANGED <<rows, vectors, version, orphaned, early, bounds>>

----------------------------------------------------------------------------
\* Around the ingests.

\* The process dies with what it has committed.
Crash(g) ==
  /\ Running(g) /\ faults < MaxFaults /\ faults' = faults + 1
  /\ ing' = [ing EXCEPT ![g] = Idle] /\ disturbed' = TRUE
  /\ orphaned' = IF ing[g].pc = "clean" THEN orphaned \cup ing[g].replaced ELSE orphaned
  /\ UNCHANGED <<rows, vectors, version, early, ingests>>

\* The pipeline promotes a raw row it finds outside quarantine; its own gate
\* refuses the dangerous ones.
Promote(i) ==
  /\ rows[i].status = "raw" /\ rows[i].reason = "none" /\ rows[i].text = "clean"
  /\ rows' = [rows EXCEPT ![i].status = "published"] /\ vectors' = vectors \cup {i}
  /\ early' = early \cup {i}
  /\ UNCHANGED <<version, ing, disturbed, orphaned, bounds>>

\* quarantine_entry by an operator.
Quarantine(i) ==
  /\ i \in Stored /\ rows[i].reason \in {"none", "born"} /\ faults < MaxFaults /\ faults' = faults + 1
  /\ rows' = [rows EXCEPT ![i].reason = "operator"] /\ vectors' = vectors \ {i}
  /\ UNCHANGED <<version, ing, ghosts, ingests>>

Step(g) ==
  \/ AddChunk(g) \/ Bury(g) \/ Snapshot(g) \/ Replace(g) \/ SweepRead(g) \/ SweepWrite(g)
  \/ EmbedRead(g) \/ Finish(g) \/ (\E f \in BOOLEAN : Cleanup(g, f) \/ Upsert(g, f))

Next ==
  \/ \E g \in Ingesters : Step(g) \/ Crash(g) \/ (\E t \in Texts : Ingest(g, t))
  \/ \E i \in Ids : Promote(i) \/ Quarantine(i)

Spec == Init /\ [][Next]_dvars

----------------------------------------------------------------------------
Quiet == \A g \in Ingesters : ~Running(g)

TypeOK ==
  /\ \A i \in Ids : /\ rows[i].status \in {"none", "raw", "published"}
                    /\ rows[i].reason \in {"none", "born", "doc-sweep", "detector-error", "operator"}
  /\ vectors \subseteq Ids /\ version \in 0..MaxIngests
  /\ \A g \in Ingesters : ing[g].ids \subseteq Ids /\ Len(ing[g].text) <= ChunkCap

\* A chunk is served only after the sweep released it, or when the pipeline
\* found it between its add and its quarantine.
ServedIsSwept ==
  \A i \in Ids : Served(i) => (rows[i].swept \/ i \in early) /\ rows[i].text = "clean"

\* At rest a document is the chunks of one ingest.  Overlapping ingests or a
\* crash may mix two, until the next ingest that runs alone.
OneGeneration ==
  Quiet /\ ~disturbed => Cardinality({rows[i].gen : i \in Stored}) <= 1

\* After such an ingest no chunk is left in the quarantine it was born into.
EveryChunkJudged == Quiet /\ ~disturbed => \A i \in Stored : rows[i].reason # "born"

\* An embedding outlives its row only through a race of the replacement with
\* another writer, a crash before the cleanup, or a failed delete.
OrphanIsExplained == Quiet => vectors \ Stored \subseteq orphaned

\* An operator's quarantine of a chunk is lifted only by the replacement of
\* the document, by a sweep that had read the chunk before it, or by the
\* ingest's own quarantine when it came between the add and that.
OperatorStep ==
  \A i \in Ids : rows[i].reason = "operator" /\ rows'[i].reason # "operator" =>
    \/ rows'[i].status = "none"
    \/ \E g \in Ingesters : /\ ing[g].at = i
                            /\ ing[g].pc = "bury" \/ (ing[g].pc = "verdict" /\ ing[g].seen = "born")

\* What an ingested document promises: swept chunks of one generation, each with
\* a verdict, and no unexplained embedding.
DocumentsSafe ==
  /\ TypeOK /\ ServedIsSwept /\ OneGeneration /\ EveryChunkJudged
  /\ OrphanIsExplained
=============================================================================
