---------------------------- MODULE Portability ----------------------------
(***************************************************************************)
(* Export, import and restore (cli/export.py, cli/import_.py, cli/sync.py).*)
(* An export leaves one file; an import reads it, decides what it is,      *)
(* validates it and writes row by row, while a server keeps writing to the *)
(* same store.  A row's text stands for its content and its tags: a text   *)
(* may be dangerous (the publish gate refuses it), malformed (import       *)
(* validation refuses it) or private (tagged no-federate).                 *)
(***************************************************************************)
EXTENDS Naturals, FiniteSets

CONSTANTS
  Ids,          \* record ids
  Danger,       \* texts the publish gate refuses
  Odd,          \* texts validate_import_record refuses
  Private,      \* texts tagged no-federate
  ForeignRows,  \* rows a file from elsewhere may hold
  LocalRows,    \* rows the server writes while an import runs
  MaxWrites,    \* server writes per behaviour
  MaxImports    \* imports per behaviour

\* A row is raw or published; the server's own rows went through the publish
\* gate.
ASSUME PortabilityAssumption ==
  /\ "none" \notin Ids
  /\ \A r \in ForeignRows \cup LocalRows :
       r = [status |-> r.status, text |-> r.text] /\ r.status \in {"raw", "published"}
  /\ \A r \in LocalRows : r.status = "published" => r.text \notin Danger

VARIABLES
  store,    \* memories: id -> row, or Absent
  vectors,  \* ids with an embedding
  file,     \* the export file, or NoFile
  saved,    \* what --backup-dir holds: id -> row
  imp,      \* the running import
  before,   \* the store when that import started
  moved,    \* ids the server wrote since then
  ungated,  \* ids a snapshot brought in that no gate has seen
  writes, imports

xvars == <<store, vectors, file, saved, imp, before, moved, ungated, writes, imports>>

Absent  == [status |-> "none", text |-> "none"]
NoFile  == [fmt |-> "none"]
Nothing == [i \in Ids |-> Absent]
Present(s) == {i \in Ids : s[i] # Absent}
Published(s) == {i \in Ids : s[i].status = "published"}
NoId    == "none"

Idle == [pc |-> "idle", mode |-> "merge", over |-> FALSE, backup |-> FALSE,
         todo |-> {}, cur |-> NoId, seen |-> Absent, snap |-> Nothing]

Init ==
  /\ store \in [Ids -> LocalRows \cup {Absent}]
  /\ vectors = Published(store)
  /\ file = NoFile /\ saved = Nothing /\ imp = Idle
  /\ before = store /\ moved = {} /\ ungated = {} /\ writes = 0 /\ imports = 0

----------------------------------------------------------------------------
\* The file.

\* build_json_payload leaves out every no-federate row; a snapshot is the
\* whole database with its vectors.
Payload(fmt) ==
  IF fmt = "json"
    THEN [i \in Ids |-> IF store[i].text \in Private THEN Absent ELSE store[i]]
    ELSE store

\* _compress: zstd falls back to gzip where its library is missing.
_compress(mode) == IF mode = "zstd" THEN {"zstd", "gzip"} ELSE {mode}

\* run_export: any format may be compressed and encrypted.
run_export(fmt, mode, enc) ==
  \E comp \in _compress(mode) :
  /\ imp.pc = "idle" /\ file = NoFile
  /\ file' = [fmt |-> fmt, comp |-> comp, enc |-> enc,
              rows |-> Payload(fmt), vecs |-> vectors]
  /\ UNCHANGED <<store, vectors, saved, imp, before, moved, ungated, writes, imports>>

\* A file from another machine: its rows went through no gate of this one.
Receive(fmt, rows) ==
  /\ imp.pc = "idle" /\ file = NoFile
  /\ file' = [fmt |-> fmt, comp |-> "none", enc |-> FALSE,
              rows |-> rows, vecs |-> Published(rows)]
  /\ UNCHANGED <<store, vectors, saved, imp, before, moved, ungated, writes, imports>>

\* run_import's reading of the bytes (no caller passes `compress`): a snapshot
\* is recognised only as it lies on disk; anything else is decrypted, unpacked
\* if it is plain gzip, and parsed as JSON.
Understood(f) ==
  \/ f.fmt = "sqlite" /\ ~f.enc /\ f.comp = "none"
  \/ f.fmt = "json" /\ IF f.enc THEN f.comp = "none" ELSE f.comp \in {"none", "gzip"}
  \/ f.fmt = "compact" /\ f.comp = "none"

\* validate_import_payload, _validate_compact_payload: one bad record fails
\* the batch.  A snapshot's rows are not validated.
Valid(f) == f.fmt = "sqlite" \/ \A i \in Ids : f.rows[i].text \notin Odd

\* What one record of the file asks for: a compact record is always published.
Asked(f, i) == IF f.fmt = "compact" THEN [f.rows[i] EXCEPT !.status = "published"]
                                    ELSE f.rows[i]

\* Mutant: only a row that asks for the pipeline is looked at.
gate_imported_memory_off(row) == row

\* gate_imported_memory: a dangerous row is stored raw.
gate_imported_memory(row) == IF row.text \in Danger THEN [row EXCEPT !.status = "raw"] ELSE row

----------------------------------------------------------------------------
\* An import.

\* The first phase of an accepted import.
Phase(f, mode) == IF mode = "merge" THEN "loop" ELSE IF f.fmt = "json" THEN "wipe" ELSE "swap"

\* The result of reading the file: refused with nothing written, or the first
\* phase of the import.
Started(mode, over, backup) ==
  [Idle EXCEPT !.mode = mode, !.over = over, !.backup = backup, !.todo = Present(file.rows),
     !.pc = IF ~Understood(file) THEN "unread"
            ELSE IF ~Valid(file) THEN "rejected" ELSE Phase(file, mode)]

\* run_import: --overwrite matters to a merge of JSON, --backup-dir to the
\* restore of a snapshot.
run_import(mode, over, backup) ==
  /\ imp.pc = "idle" /\ file.fmt \in {"json", "sqlite"} /\ imports < MaxImports
  /\ over => mode = "merge" /\ file.fmt = "json"
  /\ backup => mode = "restore" /\ file.fmt = "sqlite"
  /\ imp' = Started(mode, over, backup)
  /\ before' = store /\ moved' = {} /\ imports' = imports + 1
  /\ UNCHANGED <<store, vectors, file, saved, ungated, writes>>

\* run_sync_import: a compact file is always merged, and never over a row.
run_sync_import ==
  /\ imp.pc = "idle" /\ file.fmt = "compact" /\ imports < MaxImports
  /\ imp' = Started("merge", FALSE, FALSE)
  /\ before' = store /\ moved' = {} /\ imports' = imports + 1
  /\ UNCHANGED <<store, vectors, file, saved, ungated, writes>>

\* wipe_all and wipe_projects, then VectorStore.wipe: two databases, two commits.
WipeRows ==
  /\ imp.pc = "wipe" /\ store' = Nothing /\ imp' = [imp EXCEPT !.pc = "wipeVectors"]
  /\ ungated' = {}
  /\ UNCHANGED <<vectors, file, saved, before, moved, writes, imports>>

WipeVectors ==
  /\ imp.pc = "wipeVectors" /\ vectors' = {} /\ imp' = [imp EXCEPT !.pc = "loop"]
  /\ UNCHANGED <<store, file, saved, before, moved, ungated, writes, imports>>

\* restore_sqlite_snapshot: the backup copy, then each database file truncated
\* and rewritten in place.
Backup ==
  /\ imp.pc = "swap"
  /\ saved' = IF imp.backup THEN store ELSE saved
  /\ imp' = [imp EXCEPT !.pc = "truncate"]
  /\ UNCHANGED <<store, vectors, file, before, moved, ungated, writes, imports>>

TruncateDb ==
  /\ imp.pc = "truncate" /\ store' = Nothing /\ ungated' = {}
  /\ imp' = [imp EXCEPT !.pc = "writeDb"]
  /\ UNCHANGED <<vectors, file, saved, before, moved, writes, imports>>

WriteDb ==
  /\ imp.pc = "writeDb" /\ store' = file.rows /\ ungated' = Present(file.rows)
  /\ imp' = [imp EXCEPT !.pc = "writeVectors"]
  /\ UNCHANGED <<vectors, file, saved, before, moved, writes, imports>>

WriteVectors ==
  /\ imp.pc = "writeVectors" /\ vectors' = file.vecs
  /\ imp' = [imp EXCEPT !.pc = "readRows"]
  /\ UNCHANGED <<store, file, saved, before, moved, ungated, writes, imports>>

\* _gate_restored_rows: the sweep reads every row once and saves it back gated.
ReadRows ==
  /\ imp.pc = "readRows"
  /\ imp' = [imp EXCEPT !.pc = "sweep", !.snap = store, !.todo = Present(store)]
  /\ UNCHANGED <<store, vectors, file, saved, before, moved, ungated, writes, imports>>

\* Embedding and un-embedding are best effort: either may fail and is logged.
SweepRow(i) ==
  LET old == imp.snap[i]
      new == gate_imported_memory(old)
  IN
  /\ imp.pc = "sweep" /\ i \in imp.todo
  /\ store' = [store EXCEPT ![i] = new]
  /\ ungated' = ungated \ {i}
  /\ vectors' \in {vectors,
                   IF new.status = "published" THEN vectors \cup {i}
                   ELSE IF old.status = "published" THEN vectors \ {i} ELSE vectors}
  /\ imp' = [imp EXCEPT !.todo = @ \ {i}]
  /\ UNCHANGED <<file, saved, before, moved, writes, imports>>

\* The loop of _import_json, the snapshot merge and run_sync_import: look,
\* gate and save, embed.
Look(i) ==
  /\ imp.pc = "loop" /\ i \in imp.todo
  /\ imp' = [imp EXCEPT !.pc = "save", !.cur = i, !.seen = store[i], !.todo = @ \ {i}]
  /\ UNCHANGED <<store, vectors, file, saved, before, moved, ungated, writes, imports>>

\* An id that is already in the store is skipped unless --overwrite was given.
Skips == imp.seen # Absent /\ ~imp.over

SaveRow ==
  LET i == imp.cur
      new == gate_imported_memory(Asked(file, i))
      refused == Asked(file, i).text \in Danger
  IN
  /\ imp.pc = "save"
  /\ IF Skips
       THEN /\ imp' = [imp EXCEPT !.pc = "loop", !.cur = NoId, !.seen = Absent]
            /\ UNCHANGED <<store, vectors, ungated>>
       ELSE /\ store' = [store EXCEPT ![i] = new]
            /\ ungated' = ungated \ {i}
            /\ vectors' \in {vectors, IF refused /\ imp.seen.status = "published"
                                        THEN vectors \ {i} ELSE vectors}
            /\ imp' = [imp EXCEPT !.pc = "embed", !.seen = Absent]
  /\ UNCHANGED <<file, saved, before, moved, writes, imports>>

\* _reembed writes the embedding of the row it saved, whatever the store says
\* now.
_reembed ==
  LET i == imp.cur IN
  /\ imp.pc = "embed"
  /\ vectors' \in {vectors, IF gate_imported_memory(Asked(file, i)).status = "published"
                              THEN vectors \cup {i} ELSE vectors}
  /\ imp' = [imp EXCEPT !.pc = "loop", !.cur = NoId]
  /\ UNCHANGED <<store, file, saved, before, moved, ungated, writes, imports>>

Finish ==
  /\ imp.pc \in {"loop", "sweep"} /\ imp.todo = {}
  /\ imp' = [imp EXCEPT !.pc = "done", !.snap = Nothing]
  /\ UNCHANGED <<store, vectors, file, saved, before, moved, ungated, writes, imports>>

\* The process dies; what it committed stays.
Crash ==
  /\ imp.pc \notin {"idle", "done", "rejected", "unread", "dead"}
  /\ imp' = [imp EXCEPT !.pc = "dead", !.todo = {}, !.cur = NoId, !.seen = Absent, !.snap = Nothing]
  /\ UNCHANGED <<store, vectors, file, saved, before, moved, ungated, writes, imports>>

\* The operator starts over, keeping the file and the backup.
Again ==
  /\ imp.pc \in {"done", "rejected", "unread", "dead"}
  /\ imp' = Idle
  /\ UNCHANGED <<store, vectors, file, saved, before, moved, ungated, writes, imports>>

----------------------------------------------------------------------------
\* The server, which gates what it publishes (Publication.tla).  It cannot
\* reach the store while its file is being replaced.
Reachable == imp.pc \notin {"writeDb", "writeVectors"}

Write(i, row) ==
  /\ Reachable /\ writes < MaxWrites /\ writes' = writes + 1
  /\ row # store[i]
  /\ store' = [store EXCEPT ![i] = row]
  /\ vectors' = IF row.status = "published" THEN vectors \cup {i} ELSE vectors
  /\ moved' = moved \cup {i} /\ ungated' = ungated \ {i}
  /\ UNCHANGED <<file, saved, imp, before, imports>>

Delete(i) ==
  /\ Reachable /\ writes < MaxWrites /\ writes' = writes + 1
  /\ store[i] # Absent
  /\ store' = [store EXCEPT ![i] = Absent] /\ vectors' = vectors \ {i}
  /\ moved' = moved \cup {i} /\ ungated' = ungated \ {i}
  /\ UNCHANGED <<file, saved, imp, before, imports>>

Next ==
  \/ \E fmt \in {"json", "sqlite"}, comp \in {"none", "gzip", "zstd"}, enc \in BOOLEAN :
        run_export(fmt, comp, enc)
  \/ \E fmt \in {"json", "sqlite", "compact"}, rows \in [Ids -> ForeignRows \cup {Absent}] :
        Receive(fmt, rows)
  \/ \E mode \in {"merge", "restore"}, over, backup \in BOOLEAN : run_import(mode, over, backup)
  \/ run_sync_import
  \/ WipeRows \/ WipeVectors \/ Backup \/ TruncateDb \/ WriteDb \/ WriteVectors \/ ReadRows
  \/ \E i \in Ids : SweepRow(i) \/ Look(i) \/ Delete(i) \/ \E row \in LocalRows : Write(i, row)
  \/ SaveRow \/ _reembed \/ Finish \/ Crash \/ Again

Spec == Init /\ [][Next]_xvars

----------------------------------------------------------------------------
\* Every variable has its type.
TypeOK ==
  /\ DOMAIN store = Ids /\ vectors \subseteq Ids /\ ungated \subseteq Ids /\ moved \subseteq Ids
  /\ \A i \in Ids : store[i].status \in {"none", "raw", "published"}
  /\ imp.cur # NoId => imp.pc \in {"save", "embed"}

\* A dangerous row is visible only where a snapshot restore put it and its gate
\* sweep has not come by (cli/import_.py, _gate_restored_rows).
DangerHidden ==
  \A i \in Published(store) : store[i].text \in Danger => i \in ungated

\* An import that refuses its file has written nothing: the wipe of a restore
\* comes after the whole batch was validated (_import_json).
RefusalTouchesNothing ==
  imp.pc \in {"rejected", "unread"} => \A i \in Ids \ moved : store[i] = before[i]

\* A finished import did what its mode says to every row the server left
\* alone: a merge keeps what was there, a restore leaves the file's rows and
\* no other, and every row it wrote went through the gate.
ImportIsExact ==
  imp.pc = "done" =>
    \A i \in Ids \ moved :
      store[i] = IF \/ imp.mode = "merge" /\ file.rows[i] = Absent
                    \/ imp.mode = "merge" /\ before[i] # Absent /\ ~imp.over
                 THEN before[i]
                 ELSE IF file.rows[i] = Absent THEN Absent ELSE gate_imported_memory(Asked(file, i))

\* With --backup-dir a restore never holds the only copy of an old row: at every
\* step, and wherever the process dies, it is in the store or in the backup
\* (restore_sqlite_snapshot).
BackupHolds ==
  imp.backup => \A i \in Ids \ moved : before[i] \in {store[i], saved[i]}

\* What an import promises at every step: danger hidden, a refusal that wrote
\* nothing, its mode's outcome, and the backup.
PortabilitySafe ==
  /\ TypeOK /\ DangerHidden /\ RefusalTouchesNothing /\ ImportIsExact /\ BackupHolds
=============================================================================
