-------------------------- MODULE ToolsProofs --------------------------
(***************************************************************************)
(* What the command line and the automation change: exports and imports,   *)
(* the updates, the dead-letter queue, the rule files and the deployed     *)
(* pack, each for any values of its constants.  They share no state: a     *)
(* step of the composition is a step of one of them (MCTools).             *)
(*                                                                         *)
(* An import is exact because of what each of its phases has left of every *)
(* row the server did not write meanwhile: the invariant says it row by    *)
(* row, from the validation to the last vector.                            *)
(*                                                                         *)
(* An answer is fresh because every cached entry was honest when its call  *)
(* began, whichever process wrote it last.  That the network is not asked  *)
(* again within the negative lifetime needs more: without an overlap the   *)
(* entry that is there carries the last failure's time or a later success. *)
(*                                                                         *)
(* A count is lost, and a rule served stale, only where two copies of one  *)
(* row were in flight: the invariant says that who holds a copy alone      *)
(* holds what the row says.                                                *)
(*                                                                         *)
(* A deployment needs no history: whatever it finds, each phase puts right *)
(* the files it has taken out of hand, and no later phase touches them.    *)
(***************************************************************************)
EXTENDS MCTools, FiniteSetTheorems, TLAPS

Texts == {r.text : r \in ForeignRows \cup LocalRows \cup {Absent}}
Row   == [status : {"none", "raw", "published"}, text : Texts]
Table == [Ids -> Row]

\* What an import that was accepted passes through.
Merging   == {"loop", "save", "embed"}
Replacing == {"swap", "truncate", "writeDb", "writeVectors", "readRows", "sweep"}
Refusing  == {"rejected", "unread"}
Phases    == {"idle", "wipe", "wipeVectors", "done", "dead"} \cup Merging \cup Replacing \cup Refusing

Files == [fmt : {"json", "sqlite", "compact"}, comp : {"none", "gzip", "zstd"}, enc : BOOLEAN,
          rows : Table, vecs : SUBSET Ids]
Import == [pc : Phases, mode : {"merge", "restore"}, over : BOOLEAN, backup : BOOLEAN,
           todo : SUBSET Ids, cur : Ids \cup {NoId}, seen : Row, snap : Table]

Types ==
  /\ store \in Table /\ before \in Table /\ saved \in Table
  /\ vectors \subseteq Ids /\ ungated \subseteq Ids /\ moved \subseteq Ids
  /\ imp \in Import
  /\ file = NoFile \/ file \in Files
  /\ file = NoFile => imp.pc = "idle"
  /\ imp.cur # NoId <=> imp.pc \in {"save", "embed"}

\* What the import makes of a row.
Outcome(i) ==
  IF \/ imp.mode = "merge" /\ file.rows[i] = Absent
     \/ imp.mode = "merge" /\ before[i] # Absent /\ ~imp.over
  THEN before[i]
  ELSE IF file.rows[i] = Absent THEN Absent ELSE gate_imported_memory(Asked(file, i))

\* Which kind of import is in which phase.
PhaseFits ==
  /\ imp.pc \in Replacing => imp.mode = "restore" /\ file.fmt = "sqlite"
  /\ imp.pc \in {"wipe", "wipeVectors"} => imp.mode = "restore" /\ imp.todo = Present(file.rows)
  /\ imp.mode = "restore" => ~imp.over
  /\ imp.backup => imp.pc \in Replacing \cup Refusing \cup {"done", "dead"}
  /\ imp.pc = "done" => imp.todo = {}

\* A record of the file whose row has not been written.
Pending(i) == i \in imp.todo \/ (imp.pc = "save" /\ i = imp.cur)

\* What a row nobody else wrote holds in each phase.
RowIs(i) ==
  /\ imp.pc \in Refusing \cup {"wipe", "swap", "truncate"} => store[i] = before[i]
  /\ imp.pc \in {"wipeVectors", "writeDb"} => store[i] = Absent
  /\ imp.pc \in {"writeVectors", "readRows"} => store[i] = file.rows[i]
  /\ imp.pc = "sweep" => imp.snap[i] = file.rows[i]
  /\ imp.pc = "sweep" /\ i \in imp.todo => store[i] = file.rows[i] /\ store[i] # Absent
  /\ imp.pc = "sweep" /\ i \notin imp.todo => store[i] = Outcome(i)
  /\ imp.pc \in Merging /\ Pending(i)
       => /\ store[i] = (IF imp.mode = "merge" THEN before[i] ELSE Absent)
          /\ file.rows[i] # Absent
  /\ imp.pc = "save" /\ i = imp.cur => imp.seen = store[i] /\ i \notin imp.todo
  /\ imp.pc \in Merging /\ ~Pending(i) => store[i] = Outcome(i)
  /\ imp.pc = "done" => store[i] = Outcome(i)
  /\ imp.backup /\ imp.pc \in {"truncate", "writeDb", "writeVectors", "readRows", "sweep", "done"}
       => saved[i] = before[i]
  /\ imp.backup => before[i] \in {store[i], saved[i]}

IInv == Types /\ PhaseFits /\ DangerHidden /\ \A i \in Ids \ moved : RowIs(i)

-----------------------------------------------------------------------------
\* What an import turns a row into depends on its mode, its file and the store
\* it found.
LEMMA OutcomeStays ==
  ASSUME imp'.mode = imp.mode, imp'.over = imp.over, file' = file, before' = before
  PROVE  \A i : Outcome(i)' = Outcome(i)
  BY DEF Outcome, Asked

\* The gate hides what is dangerous and changes a status only.
LEMMA GatedIsHidden ==
  ASSUME NEW row \in Row
  PROVE  /\ gate_imported_memory(row) \in Row
         /\ gate_imported_memory(row).status = "published" => gate_imported_memory(row).text \notin Danger
  BY DEF gate_imported_memory, Row

\* An absent row and the empty table have their types.
LEMMA AbsentIsRow == Absent \in Row /\ Nothing \in Table /\ Absent.status = "none"
  <1>1. Absent \in Row /\ Absent.status = "none"
    BY DEF Absent, Row, Texts
  <1> QED BY <1>1 DEF Nothing, Table

\* The rows of the server and of a file have a status of their own.
LEMMA RowsOfOthers ==
  /\ LocalRows \cup ForeignRows \cup {Absent} \subseteq Row
  /\ \A r \in LocalRows \cup ForeignRows : r # Absent
  <1>1. ASSUME NEW r \in LocalRows \cup ForeignRows PROVE r \in Row /\ r # Absent
    <2>1. r = [status |-> r.status, text |-> r.text] /\ r.status \in {"raw", "published"}
      BY PortabilityAssumption
    <2>2. r.text \in Texts
      BY DEF Texts
    <2>3. r \in Row
      BY <2>1, <2>2 DEF Row
    <2> QED BY <2>1, <2>3, AbsentIsRow
  <1> QED BY <1>1, AbsentIsRow

\* What a file says of an id is a row, and a snapshot says it as it is.
LEMMA AskedIsRow ==
  ASSUME file \in Files, NEW i \in Ids
  PROVE  Asked(file, i) \in Row /\ (file.fmt = "sqlite" => Asked(file, i) = file.rows[i])
  <1>1. file.rows[i] \in Row
    BY DEF Files, Table
  <1> QED BY <1>1 DEF Asked, Row

\* A step that leaves the store, the server's traces and the running import's
\* choices alone is about the import's place only.
LEMMA InitHolds == ASSUME Init PROVE IInv
  <1>1. store \in Table
    BY RowsOfOthers DEF Init, Table
  <1>2. Published(store) \subseteq Ids
    BY DEF Published
  <1>3. Idle \in Import /\ Idle.pc = "idle" /\ Idle.cur = NoId /\ Idle.backup = FALSE /\ Idle.mode = "merge"
    BY AbsentIsRow DEF Idle, Import, Phases
  <1>4. Types
    BY <1>1, <1>2, <1>3, AbsentIsRow DEF Init, Types
  <1>5. PhaseFits
    BY <1>3 DEF Init, PhaseFits, Replacing, Refusing
  <1>6. DangerHidden
    <2>1. ASSUME NEW i \in Ids, store[i].status = "published" PROVE store[i].text \notin Danger
      <3>1. store[i] \in LocalRows \cup {Absent} /\ store[i] # Absent
        BY <2>1, AbsentIsRow DEF Init
      <3> QED BY <2>1, <3>1, PortabilityAssumption
    <2> QED BY <2>1 DEF DangerHidden, Published
  <1>7. \A i \in Ids : RowIs(i)
    BY <1>3 DEF Init, RowIs, Merging, Refusing
  <1> QED BY <1>4, <1>5, <1>6, <1>7 DEF IInv

-----------------------------------------------------------------------------
(* The file.                                                               *)

\* A file is made while no import runs.
LEMMA FileMade ==
  ASSUME IInv, imp.pc = "idle", file' \in Files,
         UNCHANGED <<store, vectors, saved, imp, before, moved, ungated>>
  PROVE  IInv'
  <1>1. imp.backup = FALSE /\ file' # NoFile
    BY DEF IInv, PhaseFits, Types, Import, Replacing, Refusing, NoFile, Files
  <1>2. Types'
    BY <1>1 DEF IInv, Types
  <1>3. PhaseFits'
    BY DEF IInv, PhaseFits, Replacing
  <1>4. DangerHidden'
    BY DEF IInv, DangerHidden, Published
  <1>5. \A i \in Ids : RowIs(i)'
    BY <1>1 DEF RowIs, Merging, Refusing
  <1> QED BY <1>2, <1>3, <1>4, <1>5 DEF IInv

\* An export reads the store and writes a file.
LEMMA ExportKeeps ==
  ASSUME IInv, NEW fmt \in {"json", "sqlite"}, NEW mode \in {"none", "gzip", "zstd"},
         NEW enc \in BOOLEAN,
         run_export(fmt, mode, enc)
  PROVE  IInv'
  <1>1. PICK comp \in _compress(mode) :
          /\ imp.pc = "idle"
          /\ file' = [fmt |-> fmt, comp |-> comp, enc |-> enc, rows |-> Payload(fmt), vecs |-> vectors]
          /\ UNCHANGED <<store, vectors, saved, imp, before, moved, ungated>>
    BY DEF run_export
  <1>2. comp \in {"none", "gzip", "zstd"}
    BY DEF _compress
  <1>3. Payload(fmt) \in Table
    BY AbsentIsRow DEF Payload, IInv, Types, Table
  <1>4. file' \in Files
    BY <1>1, <1>2, <1>3 DEF Files, IInv, Types
  <1> QED BY <1>1, <1>4, FileMade

\* A file that comes from elsewhere changes nothing in the store.
LEMMA ReceiveKeeps ==
  ASSUME IInv, NEW fmt \in {"json", "sqlite", "compact"},
         NEW rows \in [Ids -> ForeignRows \cup {Absent}],
         Receive(fmt, rows)
  PROVE  IInv'
  <1>1. rows \in Table /\ Published(rows) \subseteq Ids
    BY RowsOfOthers DEF Table, Published
  <1>2. file' \in Files
    BY <1>1 DEF Receive, Files
  <1> QED BY <1>2, FileMade DEF Receive

-----------------------------------------------------------------------------
(* The import starts and ends.                                             *)

\* Whatever the file is, nothing has been written yet.
LEMMA StartKeeps ==
  ASSUME IInv, NEW mode \in {"merge", "restore"}, NEW over \in BOOLEAN, NEW backup \in BOOLEAN,
         file # NoFile, imp' = Started(mode, over, backup), before' = store, moved' = {},
         over => mode = "merge", backup => mode = "restore" /\ file.fmt = "sqlite",
         mode = "restore" => file.fmt # "compact",
         UNCHANGED <<store, vectors, file, saved, ungated>>
  PROVE  IInv'
  <1>1. file \in Files /\ file.rows \in Table /\ store \in Table
    BY DEF IInv, Types, Files
  <1>2. Present(file.rows) \in SUBSET Ids
    BY DEF Present
  <1> DEFINE pc == IF ~Understood(file) THEN "unread"
                   ELSE IF ~Valid(file) THEN "rejected" ELSE Phase(file, mode)
  <1>3. /\ pc \in Refusing \cup {"loop", "wipe", "swap"}
        /\ pc = "loop" => mode = "merge"
        /\ pc \in {"wipe", "swap"} => mode = "restore"
        /\ pc = "swap" => file.fmt = "sqlite"
        /\ pc = "wipe" => file.fmt = "json"
    BY <1>1 DEF Refusing, Phase, Files
  <1>4. /\ imp' = [pc |-> pc, mode |-> mode, over |-> over, backup |-> backup,
                   todo |-> Present(file.rows), cur |-> NoId, seen |-> Absent, snap |-> Nothing]
    BY DEF Started, Idle
  <1> HIDE DEF pc
  <1>5. imp' \in Import
    BY <1>2, <1>3, <1>4, AbsentIsRow DEF Import, Phases, Refusing, Merging, Replacing
  <1>6. Types'
    BY <1>1, <1>3, <1>4, <1>5 DEF IInv, Types, Refusing
  <1>7. PhaseFits'
    BY <1>1, <1>3, <1>4 DEF PhaseFits, Replacing, Refusing, Files, Present
  <1>8. DangerHidden'
    BY DEF IInv, DangerHidden, Published
  <1>9. ASSUME NEW i \in Ids PROVE RowIs(i)'
    <2>1. store'[i] = before'[i]
      OBVIOUS
    <2>2. i \in Present(file.rows) <=> file.rows[i] # Absent
      BY DEF Present
    <2>3. imp'.pc = "loop" /\ ~Pending(i)' => Outcome(i)' = before'[i]
      BY <1>3, <1>4, <2>2 DEF Outcome, Pending
    <2> QED BY <1>3, <1>4, <2>1, <2>2, <2>3 DEF RowIs, Merging, Refusing, Pending
  <1> QED BY <1>6, <1>7, <1>8, <1>9 DEF IInv

\* An import starts with the store as it was and nothing touched.
LEMMA ImportKeeps ==
  ASSUME IInv, NEW mode \in {"merge", "restore"}, NEW over \in BOOLEAN, NEW backup \in BOOLEAN,
         run_import(mode, over, backup)
  PROVE  IInv'
  <1>1. file # NoFile /\ file.fmt # "compact"
    BY DEF run_import, NoFile
  <1> QED BY <1>1, StartKeeps DEF run_import

\* A sync starts its merge with nothing touched.
LEMMA SyncImportKeeps == ASSUME IInv, run_sync_import PROVE IInv'
  <1>1. file # NoFile
    BY DEF run_sync_import, NoFile
  <1> QED BY <1>1, StartKeeps DEF run_sync_import

\* An import that is through did to each row what its mode says.
LEMMA FinishKeeps == ASSUME IInv, Finish PROVE IInv'
  <1>1. /\ imp.pc \in {"loop", "sweep"} /\ imp.todo = {}
        /\ imp' = [imp EXCEPT !.pc = "done", !.snap = Nothing] /\ imp \in Import
        /\ UNCHANGED <<store, vectors, file, saved, before, moved, ungated>>
    BY DEF Finish, IInv, Types
  <1>2. /\ imp' \in Import /\ imp'.pc = "done" /\ imp'.mode = imp.mode /\ imp'.over = imp.over
        /\ imp'.backup = imp.backup /\ imp'.todo = {} /\ imp'.cur = imp.cur
    BY <1>1, AbsentIsRow DEF Import, Phases
  <1>3. Types'
    BY <1>1, <1>2 DEF IInv, Types
  <1>4. PhaseFits'
    BY <1>1, <1>2 DEF IInv, PhaseFits, Replacing, Refusing
  <1>5. DangerHidden'
    BY <1>1 DEF IInv, DangerHidden, Published
  <1>6. ASSUME NEW i \in Ids \ moved PROVE RowIs(i)'
    <2>1. RowIs(i) /\ Outcome(i)' = Outcome(i)
      BY <1>1, <1>2, OutcomeStays DEF IInv
    <2>2. store[i] = Outcome(i)
      BY <1>1, <2>1 DEF RowIs, Pending, Merging
    <2>3. imp.backup => imp.pc = "sweep"
      BY <1>1 DEF IInv, PhaseFits, Replacing, Refusing
    <2> QED BY <1>1, <1>2, <2>1, <2>2, <2>3 DEF RowIs, Merging, Refusing
  <1> QED BY <1>1, <1>3, <1>4, <1>5, <1>6 DEF IInv

\* A crash between two steps leaves what the steps before it committed.
LEMMA CrashKeeps == ASSUME IInv, Crash PROVE IInv'
  <1>1. /\ imp.pc \notin {"idle", "done", "rejected", "unread", "dead"}
        /\ imp' = [imp EXCEPT !.pc = "dead", !.todo = {}, !.cur = NoId, !.seen = Absent, !.snap = Nothing]
        /\ UNCHANGED <<store, vectors, file, saved, before, moved, ungated>> /\ imp \in Import
    BY DEF Crash, IInv, Types
  <1>2. /\ imp' \in Import /\ imp'.pc = "dead" /\ imp'.mode = imp.mode /\ imp'.over = imp.over
        /\ imp'.backup = imp.backup /\ imp'.cur = NoId
    BY <1>1, AbsentIsRow DEF Import, Phases
  <1>3. Types'
    BY <1>1, <1>2 DEF IInv, Types
  <1>4. PhaseFits'
    BY <1>1, <1>2 DEF IInv, PhaseFits, Replacing, Refusing
  <1>5. DangerHidden'
    BY <1>1 DEF IInv, DangerHidden, Published
  <1>6. ASSUME NEW i \in Ids \ moved PROVE RowIs(i)'
    BY <1>1, <1>2 DEF IInv, RowIs, Merging, Refusing
  <1> QED BY <1>1, <1>3, <1>4, <1>5, <1>6 DEF IInv

\* A command that failed or ended can be run again.
LEMMA AgainKeeps == ASSUME IInv, Again PROVE IInv'
  <1>1. Idle \in Import /\ Idle.pc = "idle" /\ Idle.cur = NoId /\ Idle.backup = FALSE /\ Idle.mode = "merge"
    BY AbsentIsRow DEF Idle, Import, Phases
  <1>2. Types'
    BY <1>1 DEF IInv, Again, Types
  <1>3. PhaseFits'
    BY <1>1 DEF Again, PhaseFits, Replacing, Refusing
  <1>4. DangerHidden'
    BY DEF IInv, Again, DangerHidden, Published
  <1>5. \A i \in Ids : RowIs(i)'
    BY <1>1 DEF Again, RowIs, Merging, Refusing
  <1> QED BY <1>2, <1>3, <1>4, <1>5 DEF IInv

-----------------------------------------------------------------------------
(* A restore replaces the store.                                           *)

\* A replacing import takes the rows before it reads the file.
LEMMA WipeRowsKeeps == ASSUME IInv, WipeRows PROVE IInv'
  <1>1. /\ imp.pc = "wipe" /\ store' = Nothing /\ imp' = [imp EXCEPT !.pc = "wipeVectors"]
        /\ ungated' = {} /\ UNCHANGED <<vectors, file, saved, before, moved>> /\ imp \in Import
    BY DEF WipeRows, IInv, Types
  <1>2. /\ imp' \in Import /\ imp'.pc = "wipeVectors" /\ imp'.mode = imp.mode /\ imp'.over = imp.over
        /\ imp'.backup = imp.backup /\ imp'.cur = imp.cur
    BY <1>1 DEF Import, Phases
  <1>3. Types'
    BY <1>1, <1>2, AbsentIsRow DEF IInv, Types
  <1>4. ~imp.backup /\ imp.mode = "restore"
    BY <1>1 DEF IInv, PhaseFits, Replacing, Refusing
  <1>5. PhaseFits'
    BY <1>1, <1>2, <1>4 DEF IInv, PhaseFits, Replacing
  <1>6. DangerHidden'
    BY <1>1, AbsentIsRow DEF DangerHidden, Published, Nothing
  <1>7. \A i \in Ids : RowIs(i)'
    BY <1>1, <1>2, <1>4 DEF RowIs, Merging, Refusing, Nothing
  <1> QED BY <1>3, <1>5, <1>6, <1>7 DEF IInv

\* The vectors go after the rows.
LEMMA WipeVectorsKeeps == ASSUME IInv, WipeVectors PROVE IInv'
  <1>1. /\ imp.pc = "wipeVectors" /\ vectors' = {} /\ imp' = [imp EXCEPT !.pc = "loop"]
        /\ UNCHANGED <<store, file, saved, before, moved, ungated>> /\ imp \in Import
    BY DEF WipeVectors, IInv, Types
  <1>2. /\ imp' \in Import /\ imp'.pc = "loop" /\ imp'.mode = imp.mode /\ imp'.over = imp.over
        /\ imp'.backup = imp.backup /\ imp'.cur = imp.cur /\ imp'.todo = imp.todo
    BY <1>1 DEF Import, Phases, Merging
  <1>3. Types'
    BY <1>1, <1>2 DEF IInv, Types
  <1>4. ~imp.backup /\ imp.mode = "restore"
    BY <1>1 DEF IInv, PhaseFits, Replacing, Refusing
  <1>5. PhaseFits'
    BY <1>1, <1>2, <1>4 DEF IInv, PhaseFits, Replacing
  <1>6. DangerHidden'
    BY <1>1 DEF IInv, DangerHidden, Published
  <1>7. ASSUME NEW i \in Ids \ moved PROVE RowIs(i)'
    <2>1. store[i] = Absent
      BY <1>1 DEF IInv, RowIs
    <2>2. i \in imp.todo <=> file.rows[i] # Absent
      BY <1>1 DEF IInv, PhaseFits, Present
    <2>3. ~Pending(i)' => Outcome(i)' = Absent
      BY <1>1, <1>2, <1>4, <2>2 DEF Outcome, Pending
    <2> QED BY <1>1, <1>2, <1>4, <2>1, <2>2, <2>3 DEF RowIs, Merging, Refusing, Pending
  <1> QED BY <1>1, <1>3, <1>5, <1>6, <1>7 DEF IInv

\* The backup, when it is asked for, is the whole store.
LEMMA BackupKeeps == ASSUME IInv, Backup PROVE IInv'
  <1>1. /\ imp.pc = "swap" /\ saved' = (IF imp.backup THEN store ELSE saved)
        /\ imp' = [imp EXCEPT !.pc = "truncate"]
        /\ UNCHANGED <<store, vectors, file, before, moved, ungated>> /\ imp \in Import
    BY DEF Backup, IInv, Types
  <1>2. /\ imp' \in Import /\ imp'.pc = "truncate" /\ imp'.mode = imp.mode /\ imp'.over = imp.over
        /\ imp'.backup = imp.backup /\ imp'.cur = imp.cur
    BY <1>1 DEF Import, Phases, Replacing
  <1>3. Types'
    BY <1>1, <1>2 DEF IInv, Types
  <1>4. PhaseFits'
    BY <1>1, <1>2 DEF IInv, PhaseFits, Replacing
  <1>5. DangerHidden'
    BY <1>1 DEF IInv, DangerHidden, Published
  <1>6. ASSUME NEW i \in Ids \ moved PROVE RowIs(i)'
    <2>1. store[i] = before[i]
      BY <1>1 DEF IInv, RowIs
    <2> QED BY <1>1, <1>2, <2>1 DEF RowIs, Merging, Refusing
  <1> QED BY <1>1, <1>3, <1>4, <1>5, <1>6 DEF IInv

\* A restored snapshot first empties the database file.
LEMMA TruncateKeeps == ASSUME IInv, TruncateDb PROVE IInv'
  <1>1. /\ imp.pc = "truncate" /\ store' = Nothing /\ ungated' = {}
        /\ imp' = [imp EXCEPT !.pc = "writeDb"]
        /\ UNCHANGED <<vectors, file, saved, before, moved>> /\ imp \in Import
    BY DEF TruncateDb, IInv, Types
  <1>2. /\ imp' \in Import /\ imp'.pc = "writeDb" /\ imp'.mode = imp.mode /\ imp'.over = imp.over
        /\ imp'.backup = imp.backup /\ imp'.cur = imp.cur
    BY <1>1 DEF Import, Phases, Replacing
  <1>3. Types'
    BY <1>1, <1>2, AbsentIsRow DEF IInv, Types
  <1>4. PhaseFits'
    BY <1>1, <1>2 DEF IInv, PhaseFits, Replacing
  <1>5. DangerHidden'
    BY <1>1, AbsentIsRow DEF DangerHidden, Published, Nothing
  <1>6. ASSUME NEW i \in Ids \ moved PROVE RowIs(i)'
    <2>1. imp.backup => saved[i] = before[i]
      BY <1>1 DEF IInv, RowIs
    <2> QED BY <1>1, <1>2, <2>1 DEF RowIs, Merging, Refusing, Nothing
  <1> QED BY <1>1, <1>3, <1>4, <1>5, <1>6 DEF IInv

\* A restored snapshot brings its rows as they are, dangerous ones included.
LEMMA WriteDbKeeps == ASSUME IInv, WriteDb PROVE IInv'
  <1>1. /\ imp.pc = "writeDb" /\ store' = file.rows /\ ungated' = Present(file.rows)
        /\ imp' = [imp EXCEPT !.pc = "writeVectors"]
        /\ UNCHANGED <<vectors, file, saved, before, moved>> /\ imp \in Import
    BY DEF WriteDb, IInv, Types
  <1>2. /\ imp' \in Import /\ imp'.pc = "writeVectors" /\ imp'.mode = imp.mode /\ imp'.over = imp.over
        /\ imp'.backup = imp.backup /\ imp'.cur = imp.cur
    BY <1>1 DEF Import, Phases, Replacing
  <1>3. file.rows \in Table /\ Present(file.rows) \subseteq Ids
    BY <1>1 DEF IInv, Types, Files, Present
  <1>4. Types'
    BY <1>1, <1>2, <1>3 DEF IInv, Types
  <1>5. PhaseFits'
    BY <1>1, <1>2 DEF IInv, PhaseFits, Replacing
  <1>6. DangerHidden'
    BY <1>1, AbsentIsRow DEF DangerHidden, Published, Present
  <1>7. ASSUME NEW i \in Ids \ moved PROVE RowIs(i)'
    <2>1. imp.backup => saved[i] = before[i]
      BY <1>1 DEF IInv, RowIs
    <2> QED BY <1>1, <1>2, <2>1 DEF RowIs, Merging, Refusing
  <1> QED BY <1>1, <1>4, <1>5, <1>6, <1>7 DEF IInv

\* The snapshot's vectors come after its rows.
LEMMA WriteVectorsKeeps == ASSUME IInv, WriteVectors PROVE IInv'
  <1>1. /\ imp.pc = "writeVectors" /\ vectors' = file.vecs
        /\ imp' = [imp EXCEPT !.pc = "readRows"]
        /\ UNCHANGED <<store, file, saved, before, moved, ungated>> /\ imp \in Import
    BY DEF WriteVectors, IInv, Types
  <1>2. /\ imp' \in Import /\ imp'.pc = "readRows" /\ imp'.mode = imp.mode /\ imp'.over = imp.over
        /\ imp'.backup = imp.backup /\ imp'.cur = imp.cur
    BY <1>1 DEF Import, Phases, Replacing
  <1>3. Types'
    BY <1>1, <1>2 DEF IInv, Types, Files
  <1>4. PhaseFits'
    BY <1>1, <1>2 DEF IInv, PhaseFits, Replacing
  <1>5. DangerHidden'
    BY <1>1 DEF IInv, DangerHidden, Published
  <1>6. ASSUME NEW i \in Ids \ moved PROVE RowIs(i)'
    <2>1. store[i] = file.rows[i] /\ (imp.backup => saved[i] = before[i])
      BY <1>1 DEF IInv, RowIs
    <2> QED BY <1>1, <1>2, <2>1 DEF RowIs, Merging, Refusing
  <1> QED BY <1>1, <1>3, <1>4, <1>5, <1>6 DEF IInv

\* The sweep after a restore reads every row once.
LEMMA ReadRowsKeeps == ASSUME IInv, ReadRows PROVE IInv'
  <1>1. /\ imp.pc = "readRows"
        /\ imp' = [imp EXCEPT !.pc = "sweep", !.snap = store, !.todo = Present(store)]
        /\ UNCHANGED <<store, vectors, file, saved, before, moved, ungated>> /\ imp \in Import
        /\ store \in Table
    BY DEF ReadRows, IInv, Types
  <1>2. /\ imp' \in Import /\ imp'.pc = "sweep" /\ imp'.mode = imp.mode /\ imp'.over = imp.over
        /\ imp'.backup = imp.backup /\ imp'.cur = imp.cur /\ imp'.snap = store
        /\ imp'.todo = Present(store)
    BY <1>1 DEF Import, Phases, Replacing, Present
  <1>3. Types'
    BY <1>1, <1>2 DEF IInv, Types
  <1>4. PhaseFits' /\ imp.mode = "restore" /\ file.fmt = "sqlite"
    BY <1>1, <1>2 DEF IInv, PhaseFits, Replacing
  <1>5. DangerHidden'
    BY <1>1 DEF IInv, DangerHidden, Published
  <1>6. ASSUME NEW i \in Ids \ moved PROVE RowIs(i)'
    <2>1. store[i] = file.rows[i] /\ (imp.backup => saved[i] = before[i])
      BY <1>1 DEF IInv, RowIs
    <2>2. i \in Present(store) <=> store[i] # Absent
      BY DEF Present
    <2>3. store[i] = Absent => Outcome(i)' = Absent
      BY <1>1, <1>2, <1>4, <2>1 DEF Outcome
    <2> QED BY <1>1, <1>2, <2>1, <2>2, <2>3 DEF RowIs, Merging, Refusing
  <1> QED BY <1>1, <1>3, <1>4, <1>5, <1>6 DEF IInv

\* The sweep writes back what it read, gated: to a row nobody else wrote, its
\* outcome.
LEMMA SweepRowKeeps == ASSUME IInv, NEW i \in Ids, SweepRow(i) PROVE IInv'
  <1> DEFINE new == gate_imported_memory(imp.snap[i])
  <1>1. /\ imp.pc = "sweep" /\ i \in imp.todo /\ store' = [store EXCEPT ![i] = new]
        /\ ungated' = ungated \ {i} /\ imp' = [imp EXCEPT !.todo = @ \ {i}]
        /\ vectors' \in {vectors, vectors \cup {i}, vectors \ {i}}
        /\ UNCHANGED <<file, saved, before, moved>>
    BY DEF SweepRow
  <1>2. imp \in Import /\ imp.snap \in Table /\ store \in Table
    BY DEF IInv, Types, Import
  <1>3. new \in Row /\ (new.status = "published" => new.text \notin Danger)
    BY <1>2, GatedIsHidden DEF Table
  <1> HIDE DEF new
  <1>4. /\ imp' \in Import /\ imp'.pc = "sweep" /\ imp'.mode = imp.mode /\ imp'.over = imp.over
        /\ imp'.backup = imp.backup /\ imp'.cur = imp.cur /\ imp'.snap = imp.snap
        /\ imp'.todo = imp.todo \ {i}
    BY <1>1, <1>2 DEF Import
  <1>5. store' \in Table /\ store'[i] = new /\ \A j \in Ids : j # i => store'[j] = store[j]
    BY <1>1, <1>2, <1>3 DEF Table
  <1>6. Types'
    BY <1>1, <1>4, <1>5 DEF IInv, Types
  <1>7. PhaseFits' /\ imp.mode = "restore" /\ file.fmt = "sqlite"
    BY <1>1, <1>4 DEF IInv, PhaseFits, Replacing
  <1>8. DangerHidden'
    BY <1>1, <1>3, <1>5 DEF IInv, DangerHidden, Published
  <1>9. ASSUME NEW j \in Ids \ moved PROVE RowIs(j)'
    <2>1. RowIs(j) /\ Outcome(j)' = Outcome(j)
      BY <1>1, <1>4, OutcomeStays DEF IInv
    <2>2. /\ imp.backup => saved[j] = before[j]
          /\ imp.snap[j] = file.rows[j]
          /\ j \in imp.todo => store[j] = file.rows[j] /\ store[j] # Absent
          /\ j \notin imp.todo => store[j] = Outcome(j)
      BY <1>1, <2>1 DEF RowIs
    <2>3. CASE j = i
      <3>1. Outcome(j) = gate_imported_memory(Asked(file, i))
        BY <1>1, <1>7, <2>2, <2>3 DEF Outcome
      <3>2. Asked(file, i) = imp.snap[i]
        BY <1>7, <2>2, <2>3 DEF Asked
      <3>3. store'[j] = Outcome(j)'
        BY <1>5, <2>1, <2>3, <3>1, <3>2 DEF new
      <3> QED BY <1>1, <1>4, <2>2, <2>3, <3>3 DEF RowIs, Merging, Refusing
    <2>4. CASE j # i
      BY <1>1, <1>4, <1>5, <2>1, <2>2, <2>4 DEF RowIs, Merging, Refusing
    <2> QED BY <2>3, <2>4
  <1> QED BY <1>1, <1>6, <1>7, <1>8, <1>9 DEF IInv

-----------------------------------------------------------------------------
(* The loop.                                                               *)

\* A merge decides on one row, by what the store holds of it then.
LEMMA LookKeeps == ASSUME IInv, NEW i \in Ids, Look(i) PROVE IInv'
  <1>1. /\ imp.pc = "loop" /\ i \in imp.todo
        /\ imp' = [imp EXCEPT !.pc = "save", !.cur = i, !.seen = store[i], !.todo = @ \ {i}]
        /\ UNCHANGED <<store, vectors, file, saved, before, moved, ungated>>
        /\ imp \in Import /\ store[i] \in Row
    BY DEF Look, IInv, Types, Table
  <1>2. /\ imp' \in Import /\ imp'.pc = "save" /\ imp'.mode = imp.mode /\ imp'.over = imp.over
        /\ imp'.backup = imp.backup /\ imp'.cur = i /\ imp'.seen = store[i] /\ imp'.todo = imp.todo \ {i}
    BY <1>1 DEF Import, Phases, Merging
  <1>3. Types'
    BY <1>1, <1>2, PortabilityAssumption DEF IInv, Types, NoId
  <1>4. PhaseFits' /\ ~imp.backup
    BY <1>1, <1>2 DEF IInv, PhaseFits, Replacing, Refusing
  <1>5. DangerHidden'
    BY <1>1 DEF IInv, DangerHidden, Published
  <1>6. ASSUME NEW j \in Ids \ moved PROVE RowIs(j)'
    <2>1. RowIs(j) /\ Outcome(j)' = Outcome(j)
      BY <1>1, <1>2, OutcomeStays DEF IInv
    <2>2. Pending(j)' <=> Pending(j)
      BY <1>1, <1>2 DEF Pending
    <2> QED BY <1>1, <1>2, <1>4, <2>1, <2>2 DEF RowIs, Merging, Refusing
  <1> QED BY <1>1, <1>3, <1>4, <1>5, <1>6 DEF IInv

\* A row nobody else wrote since the look is as it was seen, so what the loop
\* decides on what it saw is the outcome.
LEMMA SaveRowKeeps == ASSUME IInv, SaveRow PROVE IInv'
  <1> DEFINE i == imp.cur
             new == gate_imported_memory(Asked(file, i))
  <1>1. /\ imp.pc = "save" /\ UNCHANGED <<file, saved, before, moved>> /\ imp \in Import
        /\ store \in Table
    BY DEF SaveRow, IInv, Types
  <1>2. i \in Ids /\ file \in Files
    BY <1>1 DEF IInv, Types, Import
  <1>3. new \in Row /\ (new.status = "published" => new.text \notin Danger)
    BY <1>2, AskedIsRow, GatedIsHidden
  <1>4. ~imp.backup
    BY <1>1 DEF IInv, PhaseFits, Replacing, Refusing
  <1>5. CASE Skips
    <2>1. /\ imp' = [imp EXCEPT !.pc = "loop", !.cur = NoId, !.seen = Absent]
          /\ UNCHANGED <<store, vectors, ungated>>
      BY <1>5 DEF SaveRow
    <2>2. /\ imp' \in Import /\ imp'.pc = "loop" /\ imp'.mode = imp.mode /\ imp'.over = imp.over
          /\ imp'.backup = imp.backup /\ imp'.cur = NoId /\ imp'.todo = imp.todo
      BY <1>1, <2>1, AbsentIsRow DEF Import, Phases, Merging
    <2>3. Types'
      BY <1>1, <2>1, <2>2 DEF IInv, Types
    <2>4. PhaseFits'
      BY <1>1, <1>4, <2>1, <2>2 DEF IInv, PhaseFits, Replacing
    <2>5. DangerHidden'
      BY <2>1 DEF IInv, DangerHidden, Published
    <2>6. ASSUME NEW j \in Ids \ moved PROVE RowIs(j)'
      <3>1. RowIs(j) /\ Outcome(j)' = Outcome(j)
        BY <1>1, <2>2, OutcomeStays DEF IInv
      <3>2. CASE j = i
        <4>1. /\ j \notin imp.todo /\ imp.seen = store[j]
              /\ store[j] = (IF imp.mode = "merge" THEN before[j] ELSE Absent)
          BY <1>1, <3>1, <3>2 DEF RowIs, Pending, Merging
        <4>2. imp.mode = "merge" /\ before[j] # Absent /\ ~imp.over
          BY <1>5, <4>1 DEF Skips
        <4>3. Outcome(j) = store[j]
          BY <4>1, <4>2 DEF Outcome
        <4> QED BY <1>4, <2>1, <2>2, <3>1, <4>1, <4>3 DEF RowIs, Pending, Merging, Refusing
      <3>3. CASE j # i
        <4>1. Pending(j)' <=> Pending(j)
          BY <2>2, <3>3 DEF Pending
        <4> QED BY <1>1, <1>4, <2>1, <2>2, <3>1, <3>3, <4>1 DEF RowIs, Merging, Refusing
      <3> QED BY <3>2, <3>3
    <2> QED BY <1>1, <2>3, <2>4, <2>5, <2>6 DEF IInv
  <1>6. CASE ~Skips
    <2>1. /\ store' = [store EXCEPT ![i] = new] /\ ungated' = ungated \ {i}
          /\ vectors' \in {vectors, vectors \ {i}} /\ imp' = [imp EXCEPT !.pc = "embed", !.seen = Absent]
      BY <1>6 DEF SaveRow
    <2>2. /\ imp' \in Import /\ imp'.pc = "embed" /\ imp'.mode = imp.mode /\ imp'.over = imp.over
          /\ imp'.backup = imp.backup /\ imp'.cur = imp.cur /\ imp'.todo = imp.todo
      BY <1>1, <2>1, AbsentIsRow DEF Import, Phases, Merging
    <2>e. new = gate_imported_memory(Asked(file, i))
      OBVIOUS
    <2> HIDE DEF new
    <2>3. store' \in Table /\ store'[i] = new /\ \A j \in Ids : j # i => store'[j] = store[j]
      BY <1>1, <1>2, <1>3, <2>1 DEF Table
    <2>4. Types'
      BY <1>1, <2>1, <2>2, <2>3 DEF IInv, Types
    <2>5. PhaseFits'
      BY <1>1, <1>4, <2>1, <2>2 DEF IInv, PhaseFits, Replacing
    <2>6. DangerHidden'
      BY <1>3, <2>1, <2>3 DEF IInv, DangerHidden, Published
    <2>7. ASSUME NEW j \in Ids \ moved PROVE RowIs(j)'
      <3>1. RowIs(j) /\ Outcome(j)' = Outcome(j)
        BY <1>1, <2>2, OutcomeStays DEF IInv
      <3>2. CASE j = i
        <4>1. /\ j \notin imp.todo /\ imp.seen = store[j] /\ file.rows[j] # Absent
              /\ store[j] = (IF imp.mode = "merge" THEN before[j] ELSE Absent)
          BY <1>1, <3>1, <3>2 DEF RowIs, Pending, Merging
        <4>2. Outcome(j) = new
          BY <1>6, <2>e, <3>2, <4>1 DEF Outcome, Skips
        <4> QED BY <1>4, <2>1, <2>2, <2>3, <3>1, <3>2, <4>1, <4>2 DEF RowIs, Pending, Merging,
                   Refusing
      <3>3. CASE j # i
        <4>1. Pending(j)' <=> Pending(j)
          BY <2>2, <3>3 DEF Pending
        <4> QED BY <1>1, <1>4, <2>1, <2>2, <2>3, <3>1, <3>3, <4>1 DEF RowIs, Merging, Refusing
      <3> QED BY <3>2, <3>3
    <2> QED BY <1>1, <2>4, <2>5, <2>6, <2>7 DEF IInv
  <1> QED BY <1>5, <1>6

\* A published row that was saved gets its embedding, unless that fails.
LEMMA ReembedKeeps == ASSUME IInv, _reembed PROVE IInv'
  <1>1. /\ imp.pc = "embed" /\ imp' = [imp EXCEPT !.pc = "loop", !.cur = NoId]
        /\ vectors' \in {vectors, vectors \cup {imp.cur}}
        /\ UNCHANGED <<store, file, saved, before, moved, ungated>> /\ imp \in Import
    BY DEF _reembed, IInv, Types
  <1>2. /\ imp' \in Import /\ imp'.pc = "loop" /\ imp'.mode = imp.mode /\ imp'.over = imp.over
        /\ imp'.backup = imp.backup /\ imp'.cur = NoId /\ imp'.todo = imp.todo
    BY <1>1 DEF Import, Phases, Merging
  <1>3. imp.cur \in Ids
    BY <1>1 DEF IInv, Types, Import
  <1>4. Types'
    BY <1>1, <1>2, <1>3 DEF IInv, Types
  <1>5. PhaseFits' /\ ~imp.backup
    BY <1>1, <1>2 DEF IInv, PhaseFits, Replacing, Refusing
  <1>6. DangerHidden'
    BY <1>1 DEF IInv, DangerHidden, Published
  <1>7. ASSUME NEW j \in Ids \ moved PROVE RowIs(j)'
    <2>1. RowIs(j) /\ Outcome(j)' = Outcome(j)
      BY <1>1, <1>2, OutcomeStays DEF IInv
    <2>2. Pending(j)' <=> Pending(j)
      BY <1>1, <1>2 DEF Pending
    <2> QED BY <1>1, <1>2, <1>5, <2>1, <2>2 DEF RowIs, Merging, Refusing
  <1> QED BY <1>1, <1>4, <1>5, <1>6, <1>7 DEF IInv

-----------------------------------------------------------------------------
(* The server.                                                             *)

\* Whatever the server does to a row, the import answers for it no longer.
LEMMA ServerKeeps ==
  ASSUME IInv, NEW i \in Ids, NEW r \in Row, store' = [store EXCEPT ![i] = r],
         vectors' \in {vectors, vectors \cup {i}, vectors \ {i}},
         r.status = "published" => r.text \notin Danger,
         moved' = moved \cup {i}, ungated' = ungated \ {i}, UNCHANGED <<file, saved, imp, before>>
  PROVE  IInv'
  <1>1. store \in Table
    BY DEF IInv, Types
  <1>2. store' \in Table /\ store'[i] = r /\ \A j \in Ids : j # i => store'[j] = store[j]
    BY <1>1 DEF Table
  <1>3. Types'
    BY <1>2 DEF IInv, Types
  <1>4. PhaseFits'
    BY DEF IInv, PhaseFits, Present
  <1>5. DangerHidden'
    BY <1>2 DEF IInv, DangerHidden, Published
  <1>6. ASSUME NEW j \in Ids \ moved' PROVE RowIs(j)'
    <2>1. RowIs(j) /\ store'[j] = store[j]
      BY <1>2 DEF IInv
    <2> QED BY <2>1 DEF RowIs, Pending, Outcome, Asked
  <1> QED BY <1>3, <1>4, <1>5, <1>6 DEF IInv

\* A row the server writes meanwhile is on record as touched.
LEMMA WriteKeeps == ASSUME IInv, NEW i \in Ids, NEW r \in LocalRows, Write(i, r) PROVE IInv'
  <1>1. r \in Row /\ (r.status = "published" => r.text \notin Danger)
    BY RowsOfOthers, PortabilityAssumption
  <1> QED BY <1>1, ServerKeeps DEF Write

\* A row the server deletes meanwhile is on record as touched.
LEMMA DeleteKeeps == ASSUME IInv, NEW i \in Ids, Delete(i) PROVE IInv'
  BY AbsentIsRow, ServerKeeps DEF Delete

-----------------------------------------------------------------------------
\* Every step of the import, the export and the server keeps the invariant.
LEMMA NextKeeps == ASSUME IInv, [Next]_xvars PROVE IInv'
  <1>1. CASE UNCHANGED xvars
    BY <1>1 DEF xvars, IInv, Types, PhaseFits, DangerHidden, Published, Present, RowIs, Pending,
                Outcome, Asked
  <1>2. CASE Next
    BY <1>2, ExportKeeps, ReceiveKeeps, ImportKeeps, SyncImportKeeps, WipeRowsKeeps,
       WipeVectorsKeeps,
       BackupKeeps, TruncateKeeps, WriteDbKeeps, WriteVectorsKeeps, ReadRowsKeeps, SweepRowKeeps,
       LookKeeps, SaveRowKeeps, ReembedKeeps, FinishKeeps, CrashKeeps, AgainKeeps, WriteKeeps,
       DeleteKeeps DEF Next
  <1> QED BY <1>1, <1>2

\* The invariant gives what an import and an export promise.
LEMMA Protects == ASSUME IInv PROVE PortabilitySafe
  <1>1. TypeOK
    BY DEF IInv, Types, Table, Row, TypeOK
  <1>2. DangerHidden
    BY DEF IInv
  <1>3. RefusalTouchesNothing
    BY DEF IInv, RowIs, Refusing, RefusalTouchesNothing
  <1>4. ImportIsExact
    BY DEF IInv, RowIs, Outcome, ImportIsExact
  <1>5. BackupHolds
    BY DEF IInv, RowIs, BackupHolds
  <1> QED BY <1>1, <1>2, <1>3, <1>4, <1>5 DEF PortabilitySafe

\* For any file, store, writes of the server between and deaths of the process:
\* a dangerous row is visible only between a snapshot's restore and its gate
\* sweep, a refused file has written nothing, a finished import did what its
\* mode says to every row the server left alone, and with --backup-dir no old
\* row is without a copy (cli/import_.py run_import, cli/sync.py).
THEOREM PortabilitySafety == Spec => []PortabilitySafe
  <1>1. Init => IInv
    BY InitHolds
  <1>2. IInv /\ [Next]_xvars => IInv'
    BY NextKeeps
  <1>3. IInv => PortabilitySafe
    BY Protects
  <1> QED BY <1>1, <1>2, <1>3, PTL DEF Spec

-----------------------------------------------------------------------------
(* The updates: any processes, aliases, lifetimes and boxes.               *)

\* The instance's operators on finite sets are those of the standard modules.
LEMMA UpdateLibrary ==
  /\ \A S : Update!Cardinality(S) = Cardinality(S)
  /\ \A S : Update!IsFiniteSet(S) <=> IsFiniteSet(S)
  BY DEF Update!Cardinality, Cardinality, Update!IsFiniteSet, IsFiniteSet

UpdateTimes  == 0..MaxTime
UpdateEntry  == [dist : Dists, latest : 0..2, ok : BOOLEAN, at : 0..Update!Never]
UpdateFetch  == [pc : {"fetch"}, dist : Dists, old : UpdateEntry, moment : UpdateTimes]
UpdateFamily == [pc : {"family"}, snap : UpdateEntry, moment : UpdateTimes, got : SUBSET (0..2), todo : SUBSET Dists]
UpdateJob    == [pc : {"pip"}, id : 1..MaxApplies, dist : Dists, target : {1, 2}]
UpdateRecord == [pc : {"append"}, id : 1..MaxApplies, snap : SUBSET (1..MaxApplies)]

\* A positive entry says at least what the index said at its moment, which has
\* come.
UpdateHonest(e) == e.ok => e.latest # 0 /\ e.at <= now /\ e.latest >= Update!Published(e.dist, e.at)

\* The family's rests on a check's entry of its lifetime at the worst.
UpdateHonestFamily(e) ==
  e.ok => e.at <= now /\ \A d \in Dists \ partial : e.latest >= Update!Published(d, Update!Ago(e.at, TTL - 1))

\* What a family call has without asking.
UpdateGathered(c) == \A d \in Dists \ c.todo : \E g \in c.got : g >= Update!Published(d, Update!Ago(c.moment, TTL - 1))

UpdateCheckTypes ==
  /\ now \in UpdateTimes /\ release \in [Dists -> {1, Update!Never}] /\ installed \in [Dists -> 0..2]
  /\ \E d \in Dists : installed[d] # 0
  /\ cache \in [own : UpdateEntry, family : UpdateEntry]
  /\ call \in [Procs -> {Update!Idle} \cup UpdateFetch \cup UpdateFamily]
  /\ \A p \in Procs : call[p] # Update!Idle => call[p].moment <= now
  /\ failedAt \in 0..Update!Never /\ raced \in BOOLEAN /\ partial \subseteq Dists
  /\ answer \in [kind : {"none", "check", "family"}, latest : 0..2, stale : BOOLEAN, dist : Dists,
                 moment : UpdateTimes]

UpdateCallsHonest ==
  /\ UpdateHonest(cache.own) /\ UpdateHonestFamily(cache.family)
  /\ \A p \in Procs : call[p].pc = "family" => UpdateHonest(call[p].snap) /\ UpdateGathered(call[p])

\* Without an overlap a call under way read the entry that is there, and asks
\* only when the last failure's lifetime is over.
UpdatePaidOnce ==
  ~raced =>
    /\ \A p \in Procs : call[p].pc = "family" => call[p].snap = cache.own
    /\ failedAt # Update!Never =>
         /\ cache.own.at <= now
         /\ IF cache.own.ok THEN cache.own.at >= failedAt + NegTTL ELSE cache.own.at = failedAt
         /\ \A p \in Procs : call[p].pc = "fetch" => call[p].moment >= failedAt + NegTTL

UpdateCheckInv == UpdateCheckTypes /\ UpdateCallsHonest /\ UpdatePaidOnce /\ Update!AnswersAreFresh

UpdateApplyTypes ==
  /\ apply \in [Procs -> {Update!Idle} \cup UpdateJob \cup UpdateRecord]
  /\ history \subseteq 1..MaxApplies /\ applied \subseteq 1..MaxApplies

\* Who is about to write the history back knows every apply that ended but
\* those that overlapped, and two of them overlap each other.
UpdateKnown ==
  /\ \A p \in Procs : apply[p].pc = "append" => applied \subseteq apply[p].snap \cup overlapped
  /\ \A p, q \in Procs :
       p # q /\ apply[p].pc = "append" /\ apply[q].pc = "append" => apply[p].id \in overlapped

UpdateApplyInv == UpdateApplyTypes /\ UpdateKnown /\ Update!HistoryKeepsAll

UpdateTimerInv == service \subseteq Boxes \cup {Update!Host} /\ (enabled => units)

UpdateIInv == UpdateCheckInv /\ UpdateApplyInv /\ UpdateTimerInv

-----------------------------------------------------------------------------
\* The lifetimes and the times are numbers, and Never is past them all.
LEMMA UpdateBounds ==
  ASSUME Update!LimitsOK
  PROVE  /\ Update!Never \in Nat /\ Update!Never = MaxTime + 1 /\ MaxTime \in Nat /\ TTL \in Nat /\ TTL >= 1
         /\ NegTTL \in Nat /\ First \in Dists
  BY DEF Update!LimitsOK, Update!Never

\* A time is a number before Never.
LEMMA UpdateTimesAre ==
  ASSUME Update!LimitsOK
  PROVE  0 \in UpdateTimes /\ \A t \in UpdateTimes : t \in Nat /\ t \in 0..Update!Never /\ t # Update!Never
  BY UpdateBounds DEF UpdateTimes

\* An empty cache entry is of its type and answers nothing.
LEMMA UpdateNothingCached ==
  ASSUME Update!LimitsOK
  PROVE  Update!NoEntry \in UpdateEntry /\ Update!NoEntry.ok = FALSE /\ Update!NoEntry.at = Update!Never
  BY UpdateBounds DEF Update!NoEntry, UpdateEntry

\* The fields of a cache entry have their types.
LEMMA UpdateEntryIs ==
  ASSUME Update!LimitsOK, NEW e \in UpdateEntry
  PROVE  e.dist \in Dists /\ e.latest \in 0..2 /\ e.ok \in BOOLEAN /\ e.at \in 0..Update!Never /\ e.at \in Nat
  BY UpdateBounds DEF UpdateEntry

\* A time some way back is a time, no further back than asked.
LEMMA UpdateAgoIs ==
  ASSUME NEW t \in Nat, NEW n \in Nat
  PROVE  Update!Ago(t, n) \in Nat /\ Update!Ago(t, n) <= t /\ t <= Update!Ago(t, n) + n
  BY DEF Update!Ago

\* A later time is no earlier some way back.
LEMMA UpdateAgoGrows ==
  ASSUME NEW t \in Nat, NEW u \in Nat, NEW n \in Nat, t <= u
  PROVE  Update!Ago(t, n) <= Update!Ago(u, n)
  BY DEF Update!Ago

\* The index never takes a version back.
LEMMA UpdatePublishedGrows ==
  ASSUME Update!LimitsOK, release \in [Dists -> {1, Update!Never}], NEW d \in Dists,
         NEW t \in Nat, NEW u \in Nat, t <= u
  PROVE  Update!Published(d, t) <= Update!Published(d, u) /\ Update!Published(d, t) \in {1, 2}
  <1>1. release[d] \in Nat
    BY UpdateBounds
  <1> QED BY <1>1 DEF Update!Published

\* The best of the versions read is one of them, and the largest.
LEMMA UpdateBestIsLargest ==
  ASSUME NEW got \in SUBSET (0..2), got # {}
  PROVE  Update!Best(got) \in got /\ \A g \in got : g <= Update!Best(got)
  <1>1. \E x \in got : \A y \in got : x >= y
    <2>1. CASE 2 \in got
      BY <2>1
    <2>2. CASE 2 \notin got /\ 1 \in got
      BY <2>2
    <2>3. CASE 2 \notin got /\ 1 \notin got
      <3>1. \A x \in got : x = 0
        BY <2>3
      <3>2. 0 \in got
        BY <3>1
      <3> QED BY <3>1, <3>2
    <2> QED BY <2>1, <2>2, <2>3
  <1>2. Update!Best(got) = CHOOSE x \in got : \A y \in got : x >= y
    BY DEF Update!Best, Update!Max
  <1>3. Update!Best(got) \in got /\ \A y \in got : Update!Best(got) >= y
    BY <1>1, <1>2
  <1> QED BY <1>3

\* The installed distribution is one of the aliases.
LEMMA UpdateInstalledIsDist ==
  ASSUME Update!LimitsOK, UpdateCheckTypes
  PROVE  Update!detect_installed_dist \in Dists
  BY DEF Update!LimitsOK, UpdateCheckTypes, Update!detect_installed_dist

\* The calls under way, told apart.
LEMMA UpdateCallKinds ==
  ASSUME UpdateCheckTypes, NEW p \in Procs
  PROVE  /\ call[p] = Update!Idle \/ call[p] \in UpdateFetch \/ call[p] \in UpdateFamily
         /\ call[p].pc = "fetch" => call[p] \in UpdateFetch /\ call[p] # Update!Idle
         /\ call[p].pc = "family" => call[p] \in UpdateFamily /\ call[p] # Update!Idle
         /\ call[p] = Update!Idle => call[p].pc = "idle"
  BY DEF UpdateCheckTypes, Update!Idle, UpdateFetch, UpdateFamily

\* Nothing is cached, applied or installed at the start.
LEMMA UpdateInitHolds == ASSUME Update!LimitsOK, Update!Init PROVE UpdateIInv
  <1>1. Update!NoEntry \in UpdateEntry /\ Update!NoEntry.ok = FALSE /\ First \in Dists /\ Update!Never \in Nat /\ 0 \in UpdateTimes
    BY UpdateBounds, UpdateTimesAre, UpdateNothingCached
  <1>2. Update!NoAnswer \in [kind : {"none", "check", "family"}, latest : 0..2, stale : BOOLEAN, dist : Dists,
                      moment : UpdateTimes] /\ Update!NoAnswer.stale = TRUE
    BY <1>1 DEF Update!NoAnswer
  <1>3. UpdateCheckTypes
    <2>1. installed \in [Dists -> 0..2] /\ installed[First] # 0
      BY <1>1 DEF Update!Init
    <2>2. /\ cache \in [own : UpdateEntry, family : UpdateEntry] /\ now \in UpdateTimes /\ failedAt \in 0..Update!Never
          /\ release \in [Dists -> {1, Update!Never}] /\ raced \in BOOLEAN /\ partial \subseteq Dists
      <3>1. cache = [own |-> Update!NoEntry, family |-> Update!NoEntry] /\ now = 0 /\ failedAt = Update!Never
        BY DEF Update!Init
      <3>2. cache \in [own : UpdateEntry, family : UpdateEntry]
        BY <1>1, <3>1
      <3>3. failedAt \in 0..Update!Never
        BY <1>1, <3>1
      <3>4. release \in [Dists -> {1, Update!Never}] /\ raced = FALSE /\ partial = {}
        BY DEF Update!Init
      <3> QED BY <1>1, <3>1, <3>2, <3>3, <3>4
    <2>3. /\ call \in [Procs -> {Update!Idle} \cup UpdateFetch \cup UpdateFamily] /\ \A p \in Procs : call[p] = Update!Idle
      BY DEF Update!Init
    <2> QED BY <1>1, <1>2, <2>1, <2>2, <2>3 DEF Update!Init, UpdateCheckTypes
  <1>4. UpdateCallsHonest
    BY <1>1 DEF Update!Init, UpdateCallsHonest, UpdateHonest, UpdateHonestFamily, Update!Idle
  <1>5. UpdatePaidOnce
    BY DEF Update!Init, UpdatePaidOnce, Update!Idle
  <1>6. Update!AnswersAreFresh
    BY <1>2 DEF Update!Init, Update!AnswersAreFresh
  <1>7. UpdateApplyInv /\ UpdateTimerInv
    BY DEF Update!Init, UpdateApplyInv, UpdateApplyTypes, UpdateKnown, Update!HistoryKeepsAll,
           UpdateTimerInv, Update!Idle
  <1> QED BY <1>3, <1>4, <1>5, <1>6, <1>7 DEF UpdateIInv, UpdateCheckInv

-----------------------------------------------------------------------------
(* The check.                                                              *)

\* A fresh positive entry is honest about the last TTL - 1.
LEMMA UpdateFreshIsRecent ==
  ASSUME Update!LimitsOK, UpdateCheckTypes,
         NEW e \in UpdateEntry, e.ok, Update!_cache_fresh(e), e.at <= now
  PROVE  e.at \in Nat /\ now <= e.at + (TTL - 1) /\ Update!Ago(now, TTL - 1) <= e.at
  <1>1. e.at \in Nat /\ now \in Nat /\ now < e.at + TTL /\ TTL \in Nat /\ TTL >= 1
    <2>1. e.at \in Nat /\ TTL \in Nat /\ TTL >= 1 /\ now \in Nat
      BY UpdateBounds, UpdateEntryIs, UpdateTimesAre DEF UpdateCheckTypes
    <2> QED BY <2>1 DEF Update!_cache_fresh
  <1>2. Update!Ago(now, TTL - 1) <= e.at
    BY <1>1 DEF Update!Ago
  <1> QED BY <1>1, <1>2

\* A check answers from an entry within its lifetime, or goes to the network.
LEMMA UpdateCheckReadKeeps ==
  ASSUME Update!LimitsOK, UpdateCheckInv, NEW p \in Procs, Update!CheckRead(p)
  PROVE  UpdateCheckInv'
  <1> DEFINE d == Update!detect_installed_dist
  <1>1. /\ call[p] = Update!Idle /\ d \in Dists /\ UpdateCheckTypes
        /\ UNCHANGED <<now, release, cache, failedAt, raced, partial, installed>>
    BY UpdateInstalledIsDist DEF UpdateCheckInv, Update!CheckRead, Update!pvars
  <1>2. now \in Nat /\ now \in UpdateTimes /\ cache.own \in UpdateEntry
    BY <1>1, UpdateTimesAre DEF UpdateCheckTypes
  <1>3. CASE Update!Cached(d)
    <2>1. /\ answer' = [kind |-> "check", latest |-> cache.own.latest, stale |-> ~cache.own.ok,
                        dist |-> cache.own.dist, moment |-> now]
          /\ UNCHANGED call
      BY <1>3 DEF Update!CheckRead, Update!Reply
    <2>2. answer' \in [kind : {"none", "check", "family"}, latest : 0..2, stale : BOOLEAN, dist : Dists,
                       moment : UpdateTimes]
      BY <1>2, <2>1 DEF UpdateEntry
    <2>3. UpdateCheckTypes'
      BY <1>1, <2>1, <2>2 DEF UpdateCheckTypes
    <2>4. UpdateCallsHonest' /\ UpdatePaidOnce'
      BY <1>1, <2>1 DEF UpdateCheckInv, UpdateCallsHonest, UpdateHonest, UpdateHonestFamily,
                        UpdateGathered, Update!Published, UpdatePaidOnce
    <2>5. Update!AnswersAreFresh'
      <3>1. ASSUME cache.own.ok
            PROVE  cache.own.latest >= Update!Published(cache.own.dist, Update!Ago(now, TTL - 1))
        <4>1. /\ cache.own.at <= now /\ cache.own.latest >= Update!Published(cache.own.dist, cache.own.at)
              /\ cache.own.latest \in 0..2 /\ cache.own.dist \in Dists
          BY <1>2, <3>1 DEF UpdateCheckInv, UpdateCallsHonest, UpdateHonest, UpdateEntry
        <4>2. Update!_cache_fresh(cache.own)
          BY <1>3 DEF Update!Cached
        <4>3. cache.own.at \in Nat /\ Update!Ago(now, TTL - 1) <= cache.own.at
          BY <1>1, <1>2, <3>1, <4>1, <4>2, UpdateFreshIsRecent
        <4>4. Update!Ago(now, TTL - 1) \in Nat
          <5>1. TTL - 1 \in Nat
            BY UpdateBounds
          <5> QED BY <1>2, <5>1, UpdateAgoIs
        <4>5. /\ Update!Published(cache.own.dist, Update!Ago(now, TTL - 1)) <= Update!Published(cache.own.dist, cache.own.at)
              /\ Update!Published(cache.own.dist, Update!Ago(now, TTL - 1)) \in {1, 2}
          BY <1>1, <4>1, <4>3, <4>4, UpdatePublishedGrows DEF UpdateCheckTypes
        <4>6. Update!Published(cache.own.dist, cache.own.at) \in {1, 2}
          BY DEF Update!Published
        <4> QED BY <4>1, <4>5, <4>6
      <3>2. /\ answer'.kind = "check" /\ answer'.latest = cache.own.latest /\ answer'.dist = cache.own.dist
            /\ answer'.moment = now /\ (~answer'.stale <=> cache.own.ok)
        BY <1>2, <2>1 DEF UpdateEntry
      <3> QED BY <1>1, <1>2, <3>1, <3>2 DEF Update!AnswersAreFresh, Update!Published
    <2> QED BY <2>3, <2>4, <2>5 DEF UpdateCheckInv
  <1>4. CASE ~Update!Cached(d)
    <2> DEFINE c == [pc |-> "fetch", dist |-> d, old |-> cache.own, moment |-> now]
    <2>1. call' = [call EXCEPT ![p] = c] /\ answer' = Update!NoAnswer
      BY <1>4 DEF Update!CheckRead
    <2>2. c \in UpdateFetch /\ c.pc = "fetch" /\ c.moment = now
      BY <1>1, <1>2 DEF UpdateFetch
    <2> HIDE DEF c
    <2>3. /\ call' \in [Procs -> {Update!Idle} \cup UpdateFetch \cup UpdateFamily] /\ call'[p] = c
          /\ \A q \in Procs : q # p => call'[q] = call[q]
      BY <1>1, <2>1, <2>2 DEF UpdateCheckTypes
    <2>4. Update!NoAnswer \in [kind : {"none", "check", "family"}, latest : 0..2, stale : BOOLEAN, dist : Dists,
                        moment : UpdateTimes] /\ Update!NoAnswer.stale = TRUE
      BY UpdateBounds, UpdateTimesAre DEF Update!NoAnswer
    <2>5. UpdateCheckTypes'
      BY <1>1, <1>2, <2>1, <2>2, <2>3, <2>4 DEF UpdateCheckTypes
    <2>6. UpdateCallsHonest'
      BY <1>1, <2>2, <2>3 DEF UpdateCheckInv, UpdateCallsHonest, UpdateHonest, UpdateHonestFamily,
                              UpdateGathered, Update!Published
    <2>7. UpdatePaidOnce'
      <3>1. ASSUME ~raced, failedAt # Update!Never PROVE now >= failedAt + NegTTL
        <4>1. /\ cache.own.at <= now /\ cache.own.at \in Nat
              /\ IF cache.own.ok THEN cache.own.at >= failedAt + NegTTL ELSE cache.own.at = failedAt
          <5>1. cache.own.at \in Nat
            BY <1>2, UpdateEntryIs
          <5> QED BY <3>1, <5>1 DEF UpdateCheckInv, UpdatePaidOnce
        <4>2. failedAt \in Nat /\ NegTTL \in Nat
          BY <1>1, UpdateBounds DEF UpdateCheckTypes
        <4>3. CASE cache.own.ok
          BY <1>2, <4>1, <4>2, <4>3
        <4>4. CASE ~cache.own.ok
          <5>1. ~Update!_cache_fresh(cache.own)
            BY <1>4, <4>4 DEF Update!Cached
          <5>2. ~(now < cache.own.at + NegTTL)
            BY <3>1, <4>1, <4>4, <5>1 DEF Update!_cache_fresh
          <5> QED BY <1>2, <4>1, <4>2, <4>4, <5>2
        <4> QED BY <4>3, <4>4
      <3> QED BY <1>1, <2>2, <2>3, <3>1 DEF UpdateCheckInv, UpdatePaidOnce
    <2>8. Update!AnswersAreFresh'
      BY <2>1, <2>4 DEF Update!AnswersAreFresh
    <2> QED BY <2>5, <2>6, <2>7, <2>8 DEF UpdateCheckInv
  <1> QED BY <1>3, <1>4

\* A check that went to the network caches what it read, or that it read nothing.
LEMMA UpdateCheckFetchKeeps ==
  ASSUME Update!LimitsOK, UpdateCheckInv, NEW p \in Procs,
         NEW reached \in BOOLEAN, Update!CheckFetch(p, reached)
  PROVE  UpdateCheckInv' /\ Update!PaysStep
  <1> DEFINE c == call[p]
             entry == IF reached
                      THEN [dist |-> c.dist, latest |-> Update!Published(c.dist, now), ok |-> TRUE, at |-> c.moment]
                      ELSE Update!AfterFailure(c.old, c.dist, c.moment)
  <1>1. /\ c.pc = "fetch" /\ cache' = [own |-> entry, family |-> Update!NoEntry]
        /\ answer' = [kind |-> "check", latest |-> entry.latest, stale |-> ~reached, dist |-> c.dist,
                      moment |-> c.moment]
        /\ failedAt' = (IF reached THEN failedAt ELSE c.moment)
        /\ raced' = (raced \/ Update!Busy # {p}) /\ call' = [call EXCEPT ![p] = Update!Idle]
        /\ UNCHANGED <<now, release, partial, installed>> /\ UpdateCheckTypes
    BY DEF Update!CheckFetch, Update!_write_cache, Update!Reply, Update!pvars, UpdateCheckInv
  <1>2. c \in UpdateFetch /\ c # Update!Idle
    BY <1>1, UpdateCallKinds
  <1>3. /\ c.dist \in Dists /\ c.old \in UpdateEntry /\ c.moment \in UpdateTimes /\ c.moment \in Nat /\ c.moment <= now
        /\ now \in Nat /\ now \in UpdateTimes /\ c.moment # Update!Never
    BY <1>1, <1>2, UpdateTimesAre DEF UpdateCheckTypes, UpdateFetch
  <1>4. Update!Published(c.dist, now) \in {1, 2} /\ Update!Published(c.dist, c.moment) <= Update!Published(c.dist, now)
        /\ Update!Published(c.dist, c.moment) \in {1, 2}
    BY <1>1, <1>3, UpdatePublishedGrows DEF UpdateCheckTypes, Update!Published
  <1>5. /\ entry \in UpdateEntry /\ entry.at = c.moment /\ entry.dist = c.dist /\ (entry.ok <=> reached)
        /\ reached => entry.latest = Update!Published(c.dist, now)
    <2>0. c.moment \in 0..Update!Never /\ c.old.latest \in 0..2 /\ Update!Published(c.dist, now) \in 0..2
      BY <1>3, <1>4, UpdateTimesAre, UpdateEntryIs
    <2>1. CASE reached
      BY <1>3, <2>0, <2>1 DEF UpdateEntry
    <2>2. CASE ~reached
      BY <1>3, <2>0, <2>2 DEF UpdateEntry, Update!AfterFailure
    <2> QED BY <2>1, <2>2
  <1> HIDE DEF entry, c
  <1>6. /\ call' \in [Procs -> {Update!Idle} \cup UpdateFetch \cup UpdateFamily] /\ call'[p] = Update!Idle
        /\ \A q \in Procs : q # p => call'[q] = call[q]
    BY <1>1 DEF UpdateCheckTypes
  <1>7. UpdateCheckTypes'
    <2>1. answer' \in [kind : {"none", "check", "family"}, latest : 0..2, stale : BOOLEAN, dist : Dists,
                       moment : UpdateTimes]
      BY <1>1, <1>3, <1>5 DEF UpdateEntry
    <2>2. failedAt' \in 0..Update!Never
      <3>1. c.moment \in 0..Update!Never
        BY <1>3, UpdateTimesAre
      <3> QED BY <1>1, <3>1 DEF UpdateCheckTypes
    <2>3. cache' \in [own : UpdateEntry, family : UpdateEntry]
      BY <1>1, <1>5, UpdateNothingCached
    <2>4. raced' \in BOOLEAN
      BY <1>1
    <2> QED BY <1>1, <1>6, <2>1, <2>2, <2>3, <2>4 DEF UpdateCheckTypes
  <1>8. UpdateCallsHonest'
    <2>1. cache'.own = entry /\ cache'.family = Update!NoEntry
      BY <1>1
    <2>2. UpdateHonest(cache.own)'
      <3>1. ASSUME reached
            PROVE  entry.latest # 0 /\ entry.at <= now /\ entry.latest >= Update!Published(entry.dist, entry.at)
        BY <1>3, <1>4, <1>5, <3>1
      <3> QED BY <1>1, <1>5, <2>1, <3>1 DEF UpdateHonest, Update!Published
    <2>3. UpdateHonestFamily(cache.family)'
      BY <2>1, UpdateNothingCached DEF UpdateHonestFamily
    <2>4. \A q \in Procs : call'[q].pc = "family" => q # p /\ call'[q] = call[q]
      BY <1>6 DEF Update!Idle
    <2>5. \A q \in Procs : call[q].pc = "family" => UpdateHonest(call[q].snap) /\ UpdateGathered(call[q])
      BY DEF UpdateCheckInv, UpdateCallsHonest
    <2> QED BY <1>1, <2>2, <2>3, <2>4, <2>5 DEF UpdateCallsHonest, UpdateHonest, UpdateGathered,
                                                Update!Published
  <1>9. ~raced /\ failedAt # Update!Never => c.moment >= failedAt + NegTTL
    BY <1>1 DEF UpdateCheckInv, UpdatePaidOnce, c
  <1>10. UpdatePaidOnce'
    <2>1. ASSUME ~raced' PROVE ~raced /\ \A q \in Procs : q # p => call[q] = Update!Idle
      BY <1>1, <2>1 DEF Update!Busy
    <2>2. ASSUME ~raced' PROVE \A q \in Procs : call'[q].pc = "idle"
      BY <1>6, <2>1, <2>2 DEF Update!Idle
    <2>3. cache'.own = entry
      BY <1>1
    <2>4. CASE reached
      BY <1>1, <1>3, <1>5, <1>9, <2>1, <2>2, <2>3, <2>4 DEF UpdatePaidOnce
    <2>5. CASE ~reached
      BY <1>1, <1>3, <1>5, <2>1, <2>2, <2>3, <2>5 DEF UpdatePaidOnce
    <2> QED BY <2>4, <2>5
  <1>11. Update!AnswersAreFresh'
    <2>1. /\ answer'.kind = "check" /\ answer'.latest = entry.latest /\ answer'.dist = c.dist
          /\ answer'.moment = c.moment /\ (~answer'.stale <=> reached)
      BY <1>1
    <2>2. ASSUME reached
          PROVE  entry.latest >= Update!Published(c.dist, Update!Ago(c.moment, TTL - 1))
      <3>1. Update!Ago(c.moment, TTL - 1) \in Nat /\ Update!Ago(c.moment, TTL - 1) <= c.moment
        <4>1. TTL - 1 \in Nat
          BY UpdateBounds
        <4> QED BY <1>3, <4>1, UpdateAgoIs
      <3>2. /\ Update!Published(c.dist, Update!Ago(c.moment, TTL - 1)) <= Update!Published(c.dist, c.moment)
            /\ Update!Published(c.dist, Update!Ago(c.moment, TTL - 1)) \in {1, 2}
        BY <1>1, <1>3, <3>1, UpdatePublishedGrows DEF UpdateCheckTypes
      <3> QED BY <1>4, <1>5, <2>2, <3>2
    <2> QED BY <1>1, <2>1, <2>2 DEF Update!AnswersAreFresh, Update!Published
  <1>12. Update!PaysStep
    BY <1>1, <1>9 DEF Update!PaysStep
  <1> QED BY <1>7, <1>8, <1>10, <1>11, <1>12 DEF UpdateCheckInv

\* The reused entry of a check covers the last TTL - 1 of its dist.
LEMMA UpdateFamilyReadKeeps ==
  ASSUME Update!LimitsOK, UpdateCheckInv, NEW p \in Procs, Update!FamilyRead(p)
  PROVE  UpdateCheckInv'
  <1>1. /\ call[p] = Update!Idle /\ UpdateCheckTypes
        /\ UNCHANGED <<now, release, cache, failedAt, raced, partial, installed>>
    BY DEF UpdateCheckInv, Update!FamilyRead, Update!pvars
  <1>2. now \in Nat /\ now \in UpdateTimes /\ cache.own \in UpdateEntry /\ cache.family \in UpdateEntry
    BY <1>1, UpdateTimesAre DEF UpdateCheckTypes
  <1>3. TTL - 1 \in Nat /\ TTL \in Nat
    BY UpdateBounds
  <1>4. CASE Update!_cache_fresh(cache.family)
    <2>1. /\ answer' = [kind |-> "family", latest |-> cache.family.latest, stale |-> ~cache.family.ok,
                        dist |-> First, moment |-> now]
          /\ UNCHANGED call
      BY <1>4 DEF Update!FamilyRead, Update!Reply
    <2>2. answer' \in [kind : {"none", "check", "family"}, latest : 0..2, stale : BOOLEAN, dist : Dists,
                       moment : UpdateTimes]
      BY <1>2, <2>1, UpdateBounds, UpdateEntryIs
    <2>3. UpdateCheckTypes'
      BY <1>1, <2>1, <2>2 DEF UpdateCheckTypes
    <2>4. UpdateCallsHonest' /\ UpdatePaidOnce'
      BY <1>1, <2>1 DEF UpdateCheckInv, UpdateCallsHonest, UpdateHonest, UpdateHonestFamily,
                        UpdateGathered, Update!Published, UpdatePaidOnce
    <2>5. ASSUME cache.family.ok, NEW d \in Dists \ partial
          PROVE  cache.family.latest >= Update!Published(d, Update!Ago(now, 2 * (TTL - 1)))
      <3> DEFINE e == cache.family
      <3>1. e.at <= now /\ e.latest >= Update!Published(d, Update!Ago(e.at, TTL - 1)) /\ e.latest \in 0..2
        BY <1>2, <2>5, UpdateEntryIs DEF UpdateCheckInv, UpdateCallsHonest, UpdateHonestFamily
      <3>2. e.at \in Nat /\ now <= e.at + (TTL - 1)
        BY <1>1, <1>2, <1>4, <2>5, <3>1, UpdateFreshIsRecent
      <3> HIDE DEF e
      <3>3. 2 * (TTL - 1) \in Nat
        BY <1>3
      <3>4. Update!Ago(now, 2 * (TTL - 1)) <= Update!Ago(e.at, TTL - 1)
        BY <1>2, <1>3, <3>2, <3>3 DEF Update!Ago
      <3>5. Update!Ago(now, 2 * (TTL - 1)) \in Nat /\ Update!Ago(e.at, TTL - 1) \in Nat
        BY <1>2, <1>3, <3>2, <3>3, UpdateAgoIs
      <3>6. /\ Update!Published(d, Update!Ago(now, 2 * (TTL - 1))) <= Update!Published(d, Update!Ago(e.at, TTL - 1))
            /\ Update!Published(d, Update!Ago(now, 2 * (TTL - 1))) \in {1, 2}
        BY <1>1, <3>4, <3>5, UpdatePublishedGrows DEF UpdateCheckTypes
      <3>7. Update!Published(d, Update!Ago(e.at, TTL - 1)) \in {1, 2}
        BY DEF Update!Published
      <3> QED BY <3>1, <3>6, <3>7 DEF e
    <2>6. Update!AnswersAreFresh'
      <3>1. /\ answer'.kind = "family" /\ answer'.latest = cache.family.latest
            /\ answer'.moment = now /\ (~answer'.stale <=> cache.family.ok)
        BY <1>2, <2>1, UpdateEntryIs
      <3> QED BY <1>1, <2>5, <3>1 DEF Update!AnswersAreFresh, Update!Published
    <2> QED BY <2>3, <2>4, <2>6 DEF UpdateCheckInv
  <1>5. CASE ~Update!_cache_fresh(cache.family)
    <2> DEFINE reuse == cache.own.ok /\ Update!_cache_fresh(cache.own)
               c == [pc |-> "family", snap |-> cache.own, moment |-> now,
                     got |-> IF reuse THEN {cache.own.latest} ELSE {},
                     todo |-> IF reuse THEN Dists \ {cache.own.dist} ELSE Dists]
    <2>1. call' = [call EXCEPT ![p] = c] /\ answer' = Update!NoAnswer
      BY <1>5 DEF Update!FamilyRead
    <2>2. /\ c \in UpdateFamily /\ c.pc = "family" /\ c.moment = now /\ c.snap = cache.own
          /\ reuse => c.got = {cache.own.latest} /\ c.todo = Dists \ {cache.own.dist}
          /\ ~reuse => c.todo = Dists
      BY <1>2, UpdateEntryIs DEF UpdateFamily
    <2> HIDE DEF c
    <2>3. /\ call' \in [Procs -> {Update!Idle} \cup UpdateFetch \cup UpdateFamily] /\ call'[p] = c
          /\ \A q \in Procs : q # p => call'[q] = call[q]
      BY <1>1, <2>1, <2>2 DEF UpdateCheckTypes
    <2>4. Update!NoAnswer \in [kind : {"none", "check", "family"}, latest : 0..2, stale : BOOLEAN, dist : Dists,
                        moment : UpdateTimes] /\ Update!NoAnswer.stale = TRUE
      BY UpdateBounds, UpdateTimesAre DEF Update!NoAnswer
    <2>5. UpdateCheckTypes'
      BY <1>1, <1>2, <2>1, <2>2, <2>3, <2>4 DEF UpdateCheckTypes
    <2>6. ASSUME NEW d \in Dists \ c.todo
          PROVE  \E g \in c.got : g >= Update!Published(d, Update!Ago(now, TTL - 1))
      <3>1. reuse /\ d = cache.own.dist /\ cache.own.latest \in c.got
        BY <2>2, <2>6
      <3>2. /\ cache.own.at <= now /\ cache.own.latest >= Update!Published(d, cache.own.at)
            /\ cache.own.latest \in 0..2
        BY <1>2, <3>1, UpdateEntryIs DEF UpdateCheckInv, UpdateCallsHonest, UpdateHonest
      <3>3. cache.own.at \in Nat /\ Update!Ago(now, TTL - 1) <= cache.own.at
        BY <1>1, <1>2, <3>1, <3>2, UpdateFreshIsRecent
      <3>4. Update!Ago(now, TTL - 1) \in Nat
        BY <1>2, <1>3, UpdateAgoIs
      <3>5. /\ Update!Published(d, Update!Ago(now, TTL - 1)) <= Update!Published(d, cache.own.at)
            /\ Update!Published(d, Update!Ago(now, TTL - 1)) \in {1, 2}
        BY <1>1, <3>3, <3>4, UpdatePublishedGrows DEF UpdateCheckTypes
      <3>6. Update!Published(d, cache.own.at) \in {1, 2}
        BY DEF Update!Published
      <3> QED BY <3>1, <3>2, <3>5, <3>6
    <2>7. UpdateCallsHonest'
      <3>1. (UpdateHonest(cache.own) /\ UpdateHonestFamily(cache.family))'
        BY <1>1 DEF UpdateCheckInv, UpdateCallsHonest, UpdateHonest, UpdateHonestFamily,
                    Update!Published
      <3>2. ASSUME NEW q \in Procs, call'[q].pc = "family"
            PROVE  (UpdateHonest(call[q].snap) /\ UpdateGathered(call[q]))'
        <4>1. CASE q = p
          BY <1>1, <2>2, <2>3, <2>6, <4>1 DEF UpdateCheckInv, UpdateCallsHonest, UpdateHonest,
                                              UpdateGathered, Update!Published
        <4>2. CASE q # p
          BY <1>1, <2>3, <3>2, <4>2 DEF UpdateCheckInv, UpdateCallsHonest, UpdateHonest,
                                        UpdateGathered, Update!Published
        <4> QED BY <4>1, <4>2
      <3> QED BY <3>1, <3>2 DEF UpdateCallsHonest
    <2>8. UpdatePaidOnce'
      BY <1>1, <2>2, <2>3 DEF UpdateCheckInv, UpdatePaidOnce
    <2>9. Update!AnswersAreFresh'
      BY <2>1, <2>4 DEF Update!AnswersAreFresh
    <2> QED BY <2>5, <2>7, <2>8, <2>9 DEF UpdateCheckInv
  <1> QED BY <1>4, <1>5

\* An alias that was asked is covered to the moment, one that was not to the
\* age of the entry that answered for it.
LEMMA UpdateFamilyFetchKeeps ==
  ASSUME Update!LimitsOK, UpdateCheckInv, NEW p \in Procs,
         NEW failing \in SUBSET Dists, Update!FamilyFetch(p, failing)
  PROVE  UpdateCheckInv'
  <1> DEFINE c == call[p]
             got == c.got \cup {Update!Published(d, now) : d \in c.todo \ failing}
             best == IF got = {} THEN 0 ELSE Update!Best(got)
             entry == [dist |-> First, latest |-> best, ok |-> got # {}, at |-> c.moment]
  <1>1. /\ c.pc = "family" /\ failing \subseteq c.todo
        /\ cache' = [own |-> c.snap, family |-> entry]
        /\ answer' = [kind |-> "family", latest |-> best, stale |-> got = {}, dist |-> First,
                      moment |-> c.moment]
        /\ partial' = failing /\ raced' = (raced \/ Update!Busy # {p}) /\ call' = [call EXCEPT ![p] = Update!Idle]
        /\ UNCHANGED <<now, release, failedAt, installed>> /\ UpdateCheckTypes
    BY DEF Update!FamilyFetch, Update!Reply, Update!pvars, UpdateCheckInv
  <1>2. c \in UpdateFamily /\ c # Update!Idle
    BY <1>1, UpdateCallKinds
  <1>3. /\ c.snap \in UpdateEntry /\ c.moment \in UpdateTimes /\ c.moment \in Nat /\ c.moment <= now /\ now \in Nat
        /\ c.got \in SUBSET (0..2) /\ c.todo \subseteq Dists /\ c.moment \in 0..Update!Never
    BY <1>1, <1>2, UpdateTimesAre DEF UpdateCheckTypes, UpdateFamily
  <1>4. UpdateHonest(c.snap) /\ UpdateGathered(c)
    BY <1>1 DEF UpdateCheckInv, UpdateCallsHonest
  <1>5. got \in SUBSET (0..2)
    <2>1. \A d : Update!Published(d, now) \in 0..2
      BY DEF Update!Published
    <2> QED BY <1>3, <2>1
  <1>6. best \in 0..2 /\ \A g \in got : g <= best
    BY <1>5, UpdateBestIsLargest
  <1>7. TTL - 1 \in Nat
    BY UpdateBounds
  <1>8. ASSUME NEW d \in Dists \ failing, got # {}
        PROVE  best >= Update!Published(d, Update!Ago(c.moment, TTL - 1))
    <2>1. \E g \in got : g >= Update!Published(d, Update!Ago(c.moment, TTL - 1))
      <3>1. CASE d \in c.todo
        <4>1. Update!Published(d, now) \in got
          BY <1>8, <3>1
        <4>2. Update!Ago(c.moment, TTL - 1) \in Nat /\ Update!Ago(c.moment, TTL - 1) <= now
          <5> HIDE DEF c
          <5>1. Update!Ago(c.moment, TTL - 1) \in Nat /\ Update!Ago(c.moment, TTL - 1) <= c.moment
            BY <1>3, <1>7, UpdateAgoIs
          <5> QED BY <1>3, <5>1
        <4>3. Update!Published(d, Update!Ago(c.moment, TTL - 1)) <= Update!Published(d, now)
          BY <1>1, <1>3, <4>2, UpdatePublishedGrows DEF UpdateCheckTypes
        <4>4. Update!Published(d, Update!Ago(c.moment, TTL - 1)) \in Nat /\ Update!Published(d, now) \in Nat
          BY DEF Update!Published
        <4> QED BY <4>1, <4>3, <4>4
      <3>2. CASE d \notin c.todo
        BY <1>4, <3>2 DEF UpdateGathered
      <3> QED BY <3>1, <3>2
    <2>2. Update!Published(d, Update!Ago(c.moment, TTL - 1)) \in Nat
      BY DEF Update!Published
    <2>3. PICK g \in got : g >= Update!Published(d, Update!Ago(c.moment, TTL - 1))
      BY <2>1
    <2>4. g \in Nat /\ best \in Nat /\ g <= best
      BY <1>5, <1>6, <2>3
    <2> HIDE DEF got, best
    <2> QED BY <2>2, <2>3, <2>4
  <1>9. entry \in UpdateEntry /\ entry.at = c.moment /\ entry.latest = best /\ (entry.ok <=> got # {})
    <2> HIDE DEF got, best
    <2> QED BY <1>3, <1>6, UpdateBounds DEF UpdateEntry
  <1> HIDE DEF entry, got, best, c
  <1>10. /\ call' \in [Procs -> {Update!Idle} \cup UpdateFetch \cup UpdateFamily] /\ call'[p] = Update!Idle
         /\ \A q \in Procs : q # p => call'[q] = call[q]
    BY <1>1 DEF UpdateCheckTypes
  <1>11. UpdateCheckTypes'
    <2>1. answer' \in [kind : {"none", "check", "family"}, latest : 0..2, stale : BOOLEAN, dist : Dists,
                       moment : UpdateTimes]
      BY <1>1, <1>3, <1>6, UpdateBounds
    <2>2. cache' \in [own : UpdateEntry, family : UpdateEntry]
      BY <1>1, <1>3, <1>9
    <2>3. raced' \in BOOLEAN
      BY <1>1
    <2> QED BY <1>1, <1>10, <2>1, <2>2, <2>3 DEF UpdateCheckTypes
  <1>12. UpdateCallsHonest'
    <2>1. cache'.own = c.snap /\ cache'.family = entry
      BY <1>1
    <2>2. UpdateHonest(cache.own)'
      BY <1>1, <1>4, <2>1 DEF UpdateHonest, Update!Published
    <2>3. UpdateHonestFamily(cache.family)'
      <3>1. \A d \in Dists \ failing : got # {} => best >= Update!Published(d, Update!Ago(c.moment, TTL - 1))
        BY <1>8
      <3> QED BY <1>1, <1>3, <1>9, <2>1, <3>1 DEF UpdateHonestFamily, Update!Published
    <2>4. \A q \in Procs : call'[q].pc = "family" => q # p /\ call'[q] = call[q]
      BY <1>10 DEF Update!Idle
    <2>5. \A q \in Procs : call[q].pc = "family" => UpdateHonest(call[q].snap) /\ UpdateGathered(call[q])
      BY DEF UpdateCheckInv, UpdateCallsHonest
    <2> QED BY <1>1, <2>2, <2>3, <2>4, <2>5 DEF UpdateCallsHonest, UpdateHonest, UpdateGathered,
                                                Update!Published
  <1>13. UpdatePaidOnce'
    <2>1. ASSUME ~raced' PROVE ~raced /\ \A q \in Procs : q # p => call[q] = Update!Idle
      BY <1>1, <2>1 DEF Update!Busy
    <2>2. ASSUME ~raced' PROVE \A q \in Procs : call'[q].pc = "idle"
      BY <1>10, <2>1, <2>2 DEF Update!Idle
    <2>3. ASSUME ~raced' PROVE cache'.own = cache.own
      BY <1>1, <2>1, <2>3 DEF UpdateCheckInv, UpdatePaidOnce, c
    <2> QED BY <1>1, <2>1, <2>2, <2>3 DEF UpdateCheckInv, UpdatePaidOnce
  <1>14. Update!AnswersAreFresh'
    <2>1. /\ answer'.kind = "family" /\ answer'.latest = best /\ answer'.moment = c.moment
          /\ (~answer'.stale <=> got # {})
      BY <1>1
    <2>2. ASSUME NEW d \in Dists \ failing, got # {}
          PROVE  best >= Update!Published(d, Update!Ago(c.moment, 2 * (TTL - 1)))
      <3>1. best >= Update!Published(d, Update!Ago(c.moment, TTL - 1))
        BY <1>8, <2>2
      <3>2. 2 * (TTL - 1) \in Nat
        BY <1>7
      <3>3. /\ Update!Ago(c.moment, 2 * (TTL - 1)) \in Nat /\ Update!Ago(c.moment, TTL - 1) \in Nat
            /\ Update!Ago(c.moment, 2 * (TTL - 1)) <= Update!Ago(c.moment, TTL - 1)
        BY <1>3, <1>7, <3>2 DEF Update!Ago
      <3>4. Update!Published(d, Update!Ago(c.moment, 2 * (TTL - 1))) <= Update!Published(d, Update!Ago(c.moment, TTL - 1))
        BY <1>1, <3>3, UpdatePublishedGrows DEF UpdateCheckTypes
      <3>5. Update!Published(d, Update!Ago(c.moment, 2 * (TTL - 1))) \in Nat /\ Update!Published(d, Update!Ago(c.moment, TTL - 1)) \in Nat
        BY DEF Update!Published
      <3>6. best \in Nat
        BY <1>6
      <3> QED BY <3>1, <3>4, <3>5, <3>6
    <2> QED BY <1>1, <2>1, <2>2 DEF Update!AnswersAreFresh, Update!Published
  <1> QED BY <1>11, <1>12, <1>13, <1>14 DEF UpdateCheckInv

\* As time passes, entries grow older and stay as they are.
LEMMA UpdateTickKeeps == ASSUME Update!LimitsOK, UpdateCheckInv, Update!Tick PROVE UpdateCheckInv'
  <1>1. /\ now < MaxTime /\ now' = now + 1 /\ answer' = Update!NoAnswer /\ UpdateCheckTypes
        /\ UNCHANGED <<release, cache, call, failedAt, raced, partial, installed>>
    BY DEF Update!Tick, Update!pvars, UpdateCheckInv
  <1>2. now \in Nat /\ now' \in UpdateTimes /\ now <= now'
    BY <1>1, UpdateBounds DEF UpdateCheckTypes, UpdateTimes
  <1>3. Update!NoAnswer \in [kind : {"none", "check", "family"}, latest : 0..2, stale : BOOLEAN, dist : Dists,
                      moment : UpdateTimes] /\ Update!NoAnswer.stale = TRUE
    BY UpdateBounds, UpdateTimesAre DEF Update!NoAnswer
  <1>4. \A e \in UpdateEntry : e.at \in Nat /\ (e.at <= now => e.at <= now')
    BY <1>1, <1>2, UpdateEntryIs
  <1>5. cache.own \in UpdateEntry /\ cache.family \in UpdateEntry
    BY <1>1 DEF UpdateCheckTypes
  <1>6. UpdateCheckTypes'
    <2>1. \A q \in Procs : call[q] # Update!Idle => call[q].moment <= now'
      <3>1. ASSUME NEW q \in Procs, call[q] # Update!Idle
            PROVE  call[q].moment \in Nat /\ call[q].moment <= now
        <4>1. call[q] \in UpdateFetch \cup UpdateFamily
          BY <1>1, <3>1, UpdateCallKinds
        <4> QED BY <1>1, <3>1, <4>1, UpdateTimesAre DEF UpdateCheckTypes, UpdateFetch, UpdateFamily
      <3> QED BY <1>1, <1>2, <3>1
    <2> QED BY <1>1, <1>2, <1>3, <2>1 DEF UpdateCheckTypes
  <1>7. UpdateCallsHonest'
    <2>1. ASSUME NEW e \in UpdateEntry, UpdateHonest(e)
          PROVE  e.ok => e.latest # 0 /\ e.at <= now' /\ e.latest >= Update!Published(e.dist, e.at)
      BY <1>4, <2>1 DEF UpdateHonest
    <2>2. \A q \in Procs : call[q].pc = "family" => call[q].snap \in UpdateEntry
      BY <1>1, UpdateCallKinds DEF UpdateFamily
    <2>3. UpdateHonest(cache.own) /\ UpdateHonestFamily(cache.family)
          /\ \A q \in Procs : call[q].pc = "family" => UpdateHonest(call[q].snap) /\ UpdateGathered(call[q])
      BY DEF UpdateCheckInv, UpdateCallsHonest
    <2>4. UpdateHonest(cache.own)'
      BY <1>1, <1>5, <2>1, <2>3 DEF UpdateHonest, Update!Published
    <2>5. UpdateHonestFamily(cache.family)'
      BY <1>1, <1>4, <1>5, <2>3 DEF UpdateHonestFamily, Update!Published
    <2>6. ASSUME NEW q \in Procs, call[q].pc = "family"
          PROVE  (UpdateHonest(call[q].snap) /\ UpdateGathered(call[q]))'
      BY <1>1, <2>1, <2>2, <2>3, <2>6 DEF UpdateHonest, UpdateGathered, Update!Published
    <2> QED BY <1>1, <2>4, <2>5, <2>6 DEF UpdateCallsHonest
  <1>8. UpdatePaidOnce'
    BY <1>1, <1>4, <1>5 DEF UpdateCheckInv, UpdatePaidOnce
  <1>9. Update!AnswersAreFresh'
    BY <1>1, <1>3 DEF Update!AnswersAreFresh
  <1> QED BY <1>6, <1>7, <1>8, <1>9 DEF UpdateCheckInv

-----------------------------------------------------------------------------
(* Applying, and the timer.                                                *)

\* The applying commands change what is installed and nothing the check said.
LEMMA UpdateInstalledChanges ==
  ASSUME UpdateCheckInv, installed' \in [Dists -> 0..2], \E d \in Dists : installed'[d] # 0, UNCHANGED Update!cvars
  PROVE  UpdateCheckInv'
  BY DEF UpdateCheckInv, UpdateCheckTypes, UpdateCallsHonest, UpdateHonest, UpdateHonestFamily,
         UpdateGathered, Update!Published, UpdatePaidOnce,
         Update!AnswersAreFresh, Update!cvars

\* What an apply has in hand fits the step it is at.
LEMMA UpdateApplyKinds ==
  ASSUME UpdateApplyTypes, NEW p \in Procs
  PROVE  /\ apply[p].pc = "pip" => apply[p] \in UpdateJob
         /\ apply[p].pc = "append" => apply[p] \in UpdateRecord
  BY DEF UpdateApplyTypes, Update!Idle, UpdateJob, UpdateRecord

\* The number of the next apply is past zero.
LEMMA UpdateApplyNoIs ==
  ASSUME Update!LimitsOK, UpdateApplyTypes
  PROVE  Update!ApplyNo \in Nat /\ Update!ApplyNo >= 1
  <1>1. IsFiniteSet(applied)
    <2>1. IsFiniteSet(1..MaxApplies)
      BY FS_Interval, UpdateLibrary DEF Update!LimitsOK
    <2> QED BY <2>1, FS_Subset DEF UpdateApplyTypes
  <1>2. IsFiniteSet({q \in Procs : apply[q] # Update!Idle})
    <2>1. {q \in Procs : apply[q] # Update!Idle} \in SUBSET Procs
      OBVIOUS
    <2> QED BY <2>1, FS_Subset, UpdateLibrary DEF Update!LimitsOK
  <1>3. Cardinality(applied) \in Nat /\ Cardinality({q \in Procs : apply[q] # Update!Idle}) \in Nat
    BY <1>1, <1>2, FS_CardinalityType
  <1> QED BY <1>3, UpdateLibrary DEF Update!ApplyNo

\* An apply takes its number, its distribution and its target.
LEMMA UpdateApplyStartKeeps ==
  ASSUME Update!LimitsOK, UpdateIInv, NEW p \in Procs, NEW to \in {0, 1}, Update!ApplyStart(p, to)
  PROVE  UpdateIInv'
  <1> DEFINE d == Update!detect_installed_dist
             c == [pc |-> "pip", id |-> Update!ApplyNo, dist |-> d,
                   target |-> IF to = 0 THEN Update!Published(d, now) ELSE to]
  <1>1. /\ Update!ApplyNo <= MaxApplies /\ apply' = [apply EXCEPT ![p] = c]
        /\ UNCHANGED <<installed, history, applied, overlapped, Update!cvars, Update!tvars>>
        /\ UpdateCheckInv /\ UpdateApplyInv /\ UpdateTimerInv
    BY DEF Update!ApplyStart, UpdateIInv
  <1>2. c \in UpdateJob /\ c.pc = "pip"
    <2>1. d \in Dists
      BY <1>1, UpdateInstalledIsDist DEF UpdateCheckInv
    <2>2. Update!ApplyNo \in 1..MaxApplies
      BY <1>1, UpdateApplyNoIs DEF UpdateApplyInv, Update!LimitsOK
    <2>3. Update!Published(d, now) \in {1, 2}
      BY DEF Update!Published
    <2> QED BY <2>1, <2>2, <2>3 DEF UpdateJob
  <1> HIDE DEF c
  <1>3. /\ apply' \in [Procs -> {Update!Idle} \cup UpdateJob \cup UpdateRecord] /\ apply'[p] = c
        /\ \A q \in Procs : q # p => apply'[q] = apply[q]
    BY <1>1, <1>2 DEF UpdateApplyInv, UpdateApplyTypes
  <1>4. UpdateApplyInv'
    <2>1. UpdateApplyTypes'
      BY <1>1, <1>3 DEF UpdateApplyInv, UpdateApplyTypes
    <2>2. \A q \in Procs : apply'[q].pc = "append" => q # p /\ apply'[q] = apply[q]
      BY <1>2, <1>3
    <2>3. UpdateKnown'
      BY <1>1, <2>2 DEF UpdateApplyInv, UpdateKnown
    <2> QED BY <1>1, <2>1, <2>3 DEF UpdateApplyInv, Update!HistoryKeepsAll
  <1>5. UpdateCheckInv'
    BY <1>1, UpdateInstalledChanges DEF UpdateCheckInv, UpdateCheckTypes
  <1> QED BY <1>1, <1>4, <1>5 DEF UpdateIInv, UpdateTimerInv, Update!tvars

\* pip installs the version or leaves the one there is.
LEMMA UpdateRunPipKeeps ==
  ASSUME UpdateIInv, NEW p \in Procs, NEW ok \in BOOLEAN, Update!RunPip(p, ok)
  PROVE  UpdateIInv'
  <1> DEFINE a == apply[p]
             c == [pc |-> "append", id |-> a.id, snap |-> history]
             others == {q \in Procs \ {p} : apply[q].pc = "append"}
  <1>1. /\ a.pc = "pip" /\ apply' = [apply EXCEPT ![p] = c]
        /\ installed' = (IF ok THEN [installed EXCEPT ![a.dist] = a.target] ELSE installed)
        /\ overlapped' = (IF others = {} THEN overlapped
                          ELSE overlapped \cup {a.id} \cup {apply[q].id : q \in others})
        /\ UNCHANGED <<history, applied, Update!cvars, Update!tvars>> /\ UpdateCheckInv /\ UpdateApplyInv /\ UpdateTimerInv
    <2>1. apply' = [apply EXCEPT ![p] = [pc |-> "append", id |-> @.id, snap |-> history]]
      BY DEF Update!RunPip
    <2>2. apply' = [apply EXCEPT ![p] = c]
      BY <2>1 DEF UpdateIInv, UpdateApplyInv, UpdateApplyTypes
    <2> QED BY <2>2 DEF Update!RunPip, UpdateIInv
  <1>2. a \in UpdateJob /\ history \subseteq 1..MaxApplies /\ apply \in [Procs -> {Update!Idle} \cup UpdateJob \cup UpdateRecord]
    BY <1>1, UpdateApplyKinds DEF UpdateApplyInv, UpdateApplyTypes
  <1>3. c \in UpdateRecord /\ c.pc = "append" /\ c.id = a.id /\ c.snap = history
    BY <1>2 DEF UpdateJob, UpdateRecord
  <1> HIDE DEF a, c
  <1>4. /\ apply' \in [Procs -> {Update!Idle} \cup UpdateJob \cup UpdateRecord] /\ apply'[p] = c
        /\ \A q \in Procs : q # p => apply'[q] = apply[q]
    BY <1>1, <1>2, <1>3
  <1>5. overlapped \subseteq overlapped' /\ applied \subseteq history \cup overlapped
    BY <1>1 DEF UpdateApplyInv, Update!HistoryKeepsAll
  <1>6. ASSUME NEW q \in Procs \ {p}, apply[q].pc = "append"
        PROVE  a.id \in overlapped' /\ apply[q].id \in overlapped'
    BY <1>1, <1>6
  <1>7. UpdateKnown'
    <2>1. ASSUME NEW q \in Procs, apply'[q].pc = "append"
          PROVE  applied' \subseteq apply'[q].snap \cup overlapped'
      <3>1. CASE q = p
        BY <1>1, <1>3, <1>4, <1>5, <3>1
      <3>2. CASE q # p
        BY <1>1, <1>4, <1>5, <2>1, <3>2 DEF UpdateApplyInv, UpdateKnown
      <3> QED BY <3>1, <3>2
    <2>2. ASSUME NEW q \in Procs, NEW r \in Procs, q # r, apply'[q].pc = "append", apply'[r].pc = "append"
          PROVE  apply'[q].id \in overlapped'
      <3>1. CASE q = p
        BY <1>3, <1>4, <1>6, <2>2, <3>1
      <3>2. CASE q # p /\ r = p
        BY <1>4, <1>6, <2>2, <3>2
      <3>3. CASE q # p /\ r # p
        BY <1>1, <1>4, <1>5, <2>2, <3>3 DEF UpdateApplyInv, UpdateKnown
      <3> QED BY <3>1, <3>2, <3>3
    <2> QED BY <2>1, <2>2 DEF UpdateKnown
  <1>8. UpdateApplyInv'
    BY <1>1, <1>4, <1>5, <1>7 DEF UpdateApplyInv, UpdateApplyTypes, Update!HistoryKeepsAll
  <1>9. UpdateCheckInv'
    <2>1. installed \in [Dists -> 0..2] /\ \E d \in Dists : installed[d] # 0
      BY <1>1 DEF UpdateCheckInv, UpdateCheckTypes
    <2>2. a.dist \in Dists /\ a.target \in {1, 2}
      BY <1>2 DEF UpdateJob
    <2>3. installed' \in [Dists -> 0..2] /\ \E d \in Dists : installed'[d] # 0
      <3>1. CASE ok
        <4>1. installed' \in [Dists -> 0..2] /\ installed'[a.dist] = a.target
          BY <1>1, <2>1, <2>2, <3>1
        <4> QED BY <2>2, <4>1
      <3>2. CASE ~ok
        BY <1>1, <2>1, <3>2
      <3> QED BY <3>1, <3>2
    <2> QED BY <1>1, <2>3, UpdateInstalledChanges
  <1> QED BY <1>1, <1>8, <1>9 DEF UpdateIInv, UpdateTimerInv, Update!tvars

\* An apply that ended is on record, unless another's overlapping write took its line.
LEMMA UpdateAppendHistoryKeeps ==
  ASSUME UpdateIInv, NEW p \in Procs, Update!AppendHistory(p)
  PROVE  UpdateIInv'
  <1> DEFINE a == apply[p]
  <1>1. /\ a.pc = "append" /\ history' = a.snap \cup {a.id} /\ applied' = applied \cup {a.id}
        /\ apply' = [apply EXCEPT ![p] = Update!Idle]
        /\ UNCHANGED <<installed, overlapped, Update!cvars, Update!tvars>> /\ UpdateCheckInv /\ UpdateApplyInv /\ UpdateTimerInv
    BY DEF Update!AppendHistory, Update!_append_history, UpdateIInv
  <1>2. a.id \in 1..MaxApplies /\ a.snap \subseteq 1..MaxApplies
    BY <1>1, UpdateApplyKinds DEF UpdateApplyInv, UpdateRecord
  <1>3. /\ apply' \in [Procs -> {Update!Idle} \cup UpdateJob \cup UpdateRecord] /\ apply'[p] = Update!Idle
        /\ \A q \in Procs : q # p => apply'[q] = apply[q]
    BY <1>1 DEF UpdateApplyInv, UpdateApplyTypes
  <1>4. \A q \in Procs : apply'[q].pc = "append" => q # p /\ apply'[q] = apply[q] /\ a.id \in overlapped
    BY <1>1, <1>3 DEF Update!Idle, UpdateApplyInv, UpdateKnown
  <1>5. applied \subseteq a.snap \cup overlapped
    BY <1>1 DEF UpdateApplyInv, UpdateKnown
  <1> HIDE DEF a
  <1>6. UpdateKnown'
    BY <1>1, <1>4 DEF UpdateApplyInv, UpdateKnown
  <1>7. Update!HistoryKeepsAll'
    BY <1>1, <1>5 DEF Update!HistoryKeepsAll
  <1>8. UpdateApplyInv'
    BY <1>1, <1>2, <1>3, <1>6, <1>7 DEF UpdateApplyInv, UpdateApplyTypes
  <1>9. UpdateCheckInv'
    BY <1>1, UpdateInstalledChanges DEF UpdateCheckInv, UpdateCheckTypes
  <1> QED BY <1>1, <1>8, <1>9 DEF UpdateIInv, UpdateTimerInv, Update!tvars

\* Uninstalling one box leaves the others' lines.
LEMMA UpdateTimerKeeps ==
  ASSUME UpdateIInv, Update!TimerNext
  PROVE  UpdateIInv' /\ UNCHANGED <<Update!cvars, Update!pvars>>
  <1>1. UNCHANGED <<Update!cvars, Update!pvars>>
    BY DEF Update!TimerNext, Update!InstallHost, Update!InstallBox, Update!UninstallHost,
           Update!UninstallBox
  <1>2. UpdateTimerInv'
    BY DEF UpdateIInv, UpdateTimerInv, Update!TimerNext, Update!InstallHost, Update!InstallBox,
           Update!UninstallHost, Update!UninstallBox, Update!Enable,
           Update!OthersLeft
  <1>3. UpdateCheckInv'
    BY <1>1, UpdateInstalledChanges DEF UpdateIInv, UpdateCheckInv, UpdateCheckTypes, Update!pvars
  <1>4. UpdateApplyInv'
    BY <1>1 DEF UpdateIInv, UpdateApplyInv, UpdateApplyTypes, UpdateKnown, Update!HistoryKeepsAll,
                Update!pvars
  <1> QED BY <1>1, <1>2, <1>3, <1>4 DEF UpdateIInv

\* A check leaves installs, records and boxes alone.
LEMMA UpdateCheckNextKeeps == ASSUME Update!LimitsOK, UpdateIInv, Update!CheckNext PROVE UpdateIInv'
  <1>1. UpdateCheckInv'
    BY UpdateCheckReadKeeps, UpdateCheckFetchKeeps, UpdateFamilyReadKeeps, UpdateFamilyFetchKeeps,
       UpdateTickKeeps DEF Update!CheckNext, UpdateIInv
  <1>2. UNCHANGED <<Update!pvars, Update!tvars>>
    BY DEF Update!CheckNext, Update!CheckRead, Update!CheckFetch, Update!FamilyRead,
           Update!FamilyFetch, Update!Tick
  <1> QED BY <1>1, <1>2 DEF UpdateIInv, UpdateApplyInv, UpdateApplyTypes, UpdateKnown,
                            Update!HistoryKeepsAll, UpdateTimerInv, Update!pvars, Update!tvars

\* Every step of the update tool keeps the invariant.
LEMMA UpdateNextKeeps ==
  ASSUME Update!LimitsOK, UpdateIInv, [Update!Next]_Update!uvars
  PROVE  UpdateIInv'
  <1>1. CASE UNCHANGED Update!uvars
    <2>1. UpdateCheckInv'
      BY <1>1, UpdateInstalledChanges DEF Update!uvars, Update!pvars, UpdateIInv, UpdateCheckInv,
                                          UpdateCheckTypes
    <2> QED BY <1>1, <2>1 DEF Update!uvars, Update!pvars, Update!tvars, UpdateIInv, UpdateApplyInv,
                              UpdateApplyTypes, UpdateKnown, Update!HistoryKeepsAll,
               UpdateTimerInv
  <1>2. CASE Update!ApplyNext
    BY <1>2, UpdateApplyStartKeeps, UpdateRunPipKeeps, UpdateAppendHistoryKeeps DEF Update!ApplyNext
  <1> QED BY <1>1, <1>2, UpdateCheckNextKeeps, UpdateTimerKeeps DEF Update!Next

\* The invariant gives what the update tool promises.
LEMMA UpdateProtects == ASSUME Update!LimitsOK, UpdateIInv PROVE Update!UpdatesSafe
  <1>1. UpdateCheckTypes /\ UpdateApplyTypes /\ UpdateTimerInv /\ UpdateHonest(cache.own)
    BY DEF UpdateIInv, UpdateCheckInv, UpdateCallsHonest, UpdateApplyInv
  <1>2. cache.own \in UpdateEntry /\ cache.family \in UpdateEntry
    BY <1>1 DEF UpdateCheckTypes
  <1>3. \A p \in Procs : call[p].pc \in {"idle", "fetch", "family"}
    BY <1>1, UpdateCallKinds DEF UpdateFetch, UpdateFamily
  <1>4. \A p \in Procs : apply[p].pc \in {"idle", "pip", "append"}
    BY <1>1 DEF UpdateApplyTypes, Update!Idle, UpdateJob, UpdateRecord
  <1>5. Update!TypeOK
    BY <1>1, <1>2, <1>3, <1>4 DEF Update!TypeOK, UpdateCheckTypes, UpdateApplyTypes,
                                  UpdateTimerInv, UpdateTimes, UpdateEntry, UpdateHonest
  <1> QED BY <1>5 DEF UpdateIInv, UpdateCheckInv, UpdateApplyInv, Update!UpdatesSafe

\* A dead network is paid for once per lifetime of the failure.
LEMMA UpdateStepsHold ==
  ASSUME Update!LimitsOK, UpdateIInv, [Update!Next]_Update!uvars
  PROVE  Update!PaysStep /\ Update!SparesStep
  <1>1. Update!PaysStep
    <2>1. CASE \E p \in Procs, reached \in BOOLEAN : Update!CheckFetch(p, reached)
      BY <2>1, UpdateCheckFetchKeeps DEF UpdateIInv
    <2>2. CASE UNCHANGED failedAt
      BY <2>2 DEF Update!PaysStep
    <2> QED BY <2>1, <2>2 DEF Update!Next, Update!CheckNext, Update!ApplyNext, Update!TimerNext,
                              Update!CheckRead, Update!FamilyRead, Update!FamilyFetch, Update!Tick,
               Update!ApplyStart, Update!RunPip, Update!AppendHistory, Update!InstallHost,
               Update!InstallBox, Update!UninstallHost, Update!UninstallBox,
               Update!cvars, Update!uvars
  <1>2. Update!SparesStep
    BY DEF Update!SparesStep, Update!UninstallBox, Update!OthersLeft
  <1> QED BY <1>1, <1>2

\* For any processes, aliases, lifetimes and boxes: an answer not marked stale
\* is at least what the index said within its lifetime, every apply that ended
\* is on record unless it overlapped another's, a dead network costs one
\* timeout per negative lifetime, and uninstalling a box spares the others.
THEOREM UpdateSafety ==
  Update!LimitsOK => (Update!Spec => []Update!UpdatesSafe /\ [][Update!PaysStep /\ Update!SparesStep]_Update!uvars)
  <1> SUFFICES ASSUME Update!LimitsOK PROVE Update!Spec => []Update!UpdatesSafe /\ [][Update!PaysStep /\ Update!SparesStep]_Update!uvars
    OBVIOUS
  <1>1. Update!Init => UpdateIInv
    BY UpdateInitHolds
  <1>2. UpdateIInv /\ [Update!Next]_Update!uvars => UpdateIInv'
    BY UpdateNextKeeps
  <1>3. UpdateIInv => Update!UpdatesSafe
    BY UpdateProtects
  <1>4. UpdateIInv /\ [Update!Next]_Update!uvars => [Update!PaysStep /\ Update!SparesStep]_Update!uvars
    BY UpdateStepsHold
  <1> QED BY <1>1, <1>2, <1>3, <1>4, PTL DEF Update!Spec

-----------------------------------------------------------------------------
(* The dead-letter queue and the rule files: any entries, callers and files.*)

\* The instance's operators on finite sets are those of the standard modules.
LEMMA JobsLibrary ==
  /\ \A S : Jobs!Cardinality(S) = Cardinality(S)
  /\ \A S : Jobs!IsFiniteSet(S) <=> IsFiniteSet(S)
  BY DEF Jobs!Cardinality, Cardinality, Jobs!IsFiniteSet, IsFiniteSet

JobsLetter == [attempt : Nat, next : Nat]
JobsRetry  == [id : Entries \cup {"none"}, attempt : Nat]
JobsRule   == [file : RuleFiles \cup {"none"}, text : Nat]
JobsRuling == [pc : {"idle", "next", "write", "delete"}, todo : SUBSET RuleFiles, file : RuleFiles \cup {"none"},
           text : Nat, row : RowIds \cup {"none"}]

JobsDlqTypes ==
  /\ clock \in 0..MaxClock /\ dlq \in [Entries -> JobsLetter] /\ pass \in [Entries -> Nat]
  /\ retry \in [Jobs!Who -> JobsRetry] /\ bumps \in [Entries -> Nat] /\ crossed \subseteq Entries
  /\ \A w \in Jobs!Who : retry[w] = Jobs!NoRetry \/ (retry[w].id \in Entries /\ retry[w].attempt > 0)
  /\ \A e \in Entries : dlq[e] = Jobs!NoEntry \/ dlq[e].attempt > 0

\* Who holds a copy of an entry holds it alone, and the copy is the entry's, or
\* the two overlapped; a discarded entry does not come back.
JobsCopiesAgree ==
  /\ \A e \in Entries : (pass[e] > 0 \/ Jobs!Retrying(e) # {} \/ dlq[e] # Jobs!NoEntry) => bumps[e] > 0
  /\ \A e \in Entries \ crossed :
       /\ dlq[e] # Jobs!NoEntry => dlq[e].attempt = bumps[e]
       /\ pass[e] > 0 => /\ Jobs!Retrying(e) = {}
                         /\ dlq[e] # Jobs!NoEntry => pass[e] = dlq[e].attempt /\ dlq[e].next <= clock
       /\ \A w \in Jobs!Retrying(e) :
            /\ Jobs!Retrying(e) = {w}
            /\ dlq[e] # Jobs!NoEntry => retry[w].attempt = dlq[e].attempt
            /\ dlq[e] # Jobs!NoEntry /\ w = Jobs!Scheduler => dlq[e].next <= clock

JobsDlqInv == JobsDlqTypes /\ JobsCopiesAgree

JobsRuleTypes ==
  /\ tree \in [RuleFiles -> Nat] /\ rules \in [RowIds -> JobsRule] /\ ruling \in [Callers -> JobsRuling]
  /\ met \subseteq RuleFiles /\ doubled \subseteq RuleFiles
  /\ \A r \in RowIds : rules[r].file = "none" => rules[r] = Jobs!NoRule

\* A call works on a row of its file, and no id changes its file.
JobsCallsFit ==
  \A c \in Callers :
    /\ ruling[c].pc \in {"idle", "next"} => ruling[c].file = "none"
    /\ ruling[c].pc = "idle" => ruling[c].todo = {}
    /\ ruling[c].pc = "delete" => ruling[c].todo = {} /\ ruling[c].row # "none"
    /\ ruling[c].pc = "write" => ruling[c].text # 0
    /\ ruling[c].pc \in {"write", "delete"} =>
         /\ ruling[c].file \in RuleFiles /\ ruling[c].file \notin ruling[c].todo
         /\ ruling[c].row # "none" => rules[ruling[c].row].file = ruling[c].file

JobsSoleRow == \A f \in RuleFiles \ doubled : \A r, s \in Jobs!RowsOf(f) : r = s

\* A file nobody interfered with has one call at most, which read what is on
\* disk and the row it has.
JobsUndisturbed ==
  \A f \in RuleFiles \ met :
    /\ tree[f] \notin {0, Jobs!Unreadable}
    /\ \A c \in Jobs!Handling(f) :
         /\ Jobs!Handling(f) = {c} /\ ruling[c].pc # "delete"
         /\ ruling[c].file = f =>
              /\ ruling[c].text = tree[f]
              /\ ruling[c].row = "none" => Jobs!RowsOf(f) = {}
              /\ ruling[c].row # "none" => ruling[c].row \in Jobs!RowsOf(f)

JobsRuleInv == JobsRuleTypes /\ JobsCallsFit /\ JobsSoleRow /\ JobsUndisturbed /\ Jobs!ServedRuleIsCurrent

JobsIInv == JobsDlqInv /\ JobsRuleInv

-----------------------------------------------------------------------------
\* The names of callers, entries and files are apart, and the limits are numbers.
LEMMA JobsNames ==
  ASSUME Jobs!LimitsOK
  PROVE  /\ Jobs!Scheduler \notin Callers /\ Jobs!Scheduler \in Jobs!Who /\ Callers \subseteq Jobs!Who
         /\ "none" \notin Entries /\ "none" \notin RuleFiles /\ "none" \notin RowIds
         /\ MaxClock \in Nat /\ MaxAttempts \in Nat /\ BackoffCap \in Nat
  BY DEF Jobs!LimitsOK, Jobs!Scheduler, Jobs!Who

\* The delay before a retry is a number.
LEMMA JobsDelayIs ==
  ASSUME Jobs!LimitsOK, JobsDlqTypes, NEW n \in Nat, n >= 1
  PROVE  Jobs!NextRetry(n) \in Nat
  <1>1. clock \in Nat /\ MaxAttempts \in Nat /\ BackoffCap \in Nat
    BY JobsNames DEF JobsDlqTypes
  <1>2. CASE n <= MaxAttempts
    <2>1. n - 1 \in 0..MaxAttempts
      BY <1>1, <1>2
    <2>2. Backoff * 2^(n - 1) \in Nat
      BY <2>1 DEF Jobs!LimitsOK
    <2> DEFINE delay == Backoff * 2^(n - 1)
    <2>3. Jobs!NextRetry(n) = clock + Jobs!Least(delay, BackoffCap)
      BY <1>2 DEF Jobs!NextRetry
    <2>4. delay \in Nat
      BY <2>2
    <2> HIDE DEF delay
    <2>5. Jobs!Least(delay, BackoffCap) \in Nat
      BY <1>1, <2>4 DEF Jobs!Least
    <2> QED BY <1>1, <2>3, <2>5
  <1>3. CASE ~(n <= MaxAttempts)
    BY <1>1, <1>3 DEF Jobs!NextRetry
  <1> QED BY <1>2, <1>3

\* Whoever retries an entry has read a count.
LEMMA JobsRetryIs ==
  ASSUME Jobs!LimitsOK, JobsDlqTypes, NEW w \in Jobs!Who
  PROVE  /\ retry[w] # Jobs!NoRetry <=> retry[w].id \in Entries
         /\ retry[w] # Jobs!NoRetry => retry[w].attempt \in Nat /\ retry[w].attempt > 0
         /\ \A e \in Entries : w \in Jobs!Retrying(e) <=> retry[w].id = e
  BY JobsNames DEF JobsDlqTypes, Jobs!NoRetry, Jobs!Retrying, JobsRetry

\* An entry of the queue has its type, and none when it has no attempt.
LEMMA JobsLetterIs ==
  ASSUME JobsDlqTypes, NEW e \in Entries
  PROVE  /\ dlq[e] \in JobsLetter /\ dlq[e].attempt \in Nat /\ dlq[e].next \in Nat
         /\ dlq[e] = Jobs!NoEntry <=> dlq[e].attempt = 0
         /\ pass[e] \in Nat /\ bumps[e] \in Nat
  BY DEF JobsDlqTypes, JobsLetter, Jobs!NoEntry

\* An incremented entry is an entry with the attempts it was given.
LEMMA JobsIncrementIs ==
  ASSUME NEW row \in JobsLetter, NEW n \in Nat, Jobs!NextRetry(n) \in Nat
  PROVE  Jobs!Increment(row, n) \in JobsLetter /\ Jobs!Increment(row, n).attempt = n
  <1> DEFINE m == Jobs!NextRetry(n)
             y == [row EXCEPT !.attempt = n, !.next = m]
  <1>1. y = Jobs!Increment(row, n) /\ m \in Nat
    BY DEF Jobs!Increment
  <1> HIDE DEF m
  <1>2. y \in JobsLetter /\ y.attempt = n
    BY <1>1 DEF JobsLetter
  <1> QED BY <1>1, <1>2

\* As time passes, attempts and delays stay as they are.
LEMMA JobsTickKeeps == ASSUME Jobs!LimitsOK, JobsDlqInv, Jobs!Tick PROVE JobsDlqInv'
  <1>1. /\ clock < MaxClock /\ clock' = clock + 1 /\ clock \in Nat /\ clock' \in 0..MaxClock
        /\ UNCHANGED <<dlq, pass, retry, bumps, crossed>>
    BY JobsNames DEF Jobs!Tick, JobsDlqInv, JobsDlqTypes
  <1>2. JobsDlqTypes'
    BY <1>1 DEF JobsDlqInv, JobsDlqTypes
  <1>3. \A e \in Entries : dlq[e].next <= clock => dlq[e].next <= clock'
    <2>1. \A e \in Entries : dlq[e].next \in Nat
      BY JobsLetterIs DEF JobsDlqInv
    <2> QED BY <1>1, <2>1
  <1>4. JobsCopiesAgree'
    BY <1>1, <1>3 DEF JobsDlqInv, JobsCopiesAgree, Jobs!Retrying
  <1> QED BY <1>2, <1>4 DEF JobsDlqInv

\* A dead letter enters once, with its first attempt.
LEMMA JobsAddKeeps ==
  ASSUME Jobs!LimitsOK, JobsDlqInv, NEW e \in Entries, Jobs!dlq_add(e)
  PROVE  JobsDlqInv' /\ Jobs!BudgetStep
  <1> DEFINE x == [attempt |-> 1, next |-> clock]
  <1>1. /\ dlq[e] = Jobs!NoEntry /\ bumps[e] = 0 /\ dlq' = [dlq EXCEPT ![e] = x]
        /\ bumps' = [bumps EXCEPT ![e] = 1] /\ UNCHANGED <<clock, pass, retry, crossed>> /\ JobsDlqTypes
        /\ JobsCopiesAgree
    BY DEF Jobs!dlq_add, JobsDlqInv
  <1>2. x \in JobsLetter /\ x.attempt = 1 /\ x.next = clock /\ clock \in Nat /\ x # Jobs!NoEntry
    BY <1>1, JobsNames DEF JobsDlqTypes, JobsLetter, Jobs!NoEntry
  <1> HIDE DEF x
  <1>3. /\ dlq' \in [Entries -> JobsLetter] /\ bumps' \in [Entries -> Nat] /\ dlq'[e] = x /\ bumps'[e] = 1
        /\ \A d \in Entries \ {e} : dlq'[d] = dlq[d] /\ bumps'[d] = bumps[d]
    BY <1>1, <1>2 DEF JobsDlqTypes
  <1>4. JobsDlqTypes'
    BY <1>1, <1>2, <1>3 DEF JobsDlqTypes
  <1>5. pass[e] = 0 /\ Jobs!Retrying(e) = {}
    <2>1. pass[e] \in Nat
      BY <1>1, JobsLetterIs
    <2> QED BY <1>1, <2>1 DEF JobsCopiesAgree
  <1>6. JobsCopiesAgree'
    <2>1. \A d \in Entries : Jobs!Retrying(d)' = Jobs!Retrying(d)
      BY <1>1 DEF Jobs!Retrying
    <2>2. ASSUME NEW d \in Entries, d # e
          PROVE  (pass'[d] > 0 \/ Jobs!Retrying(d)' # {} \/ dlq'[d] # Jobs!NoEntry) => bumps'[d] > 0
      BY <1>1, <1>3, <2>1, <2>2 DEF JobsCopiesAgree
    <2>3. ASSUME NEW d \in Entries \ crossed, d # e
          PROVE /\ dlq'[d] # Jobs!NoEntry => dlq'[d].attempt = bumps'[d]
                /\ pass'[d] > 0 => /\ Jobs!Retrying(d)' = {}
                                   /\ dlq'[d] # Jobs!NoEntry => pass'[d] = dlq'[d].attempt /\ dlq'[d].next <= clock'
                /\ \A w \in Jobs!Retrying(d)' :
                     /\ Jobs!Retrying(d)' = {w}
                     /\ dlq'[d] # Jobs!NoEntry => retry'[w].attempt = dlq'[d].attempt
                     /\ dlq'[d] # Jobs!NoEntry /\ w = Jobs!Scheduler => dlq'[d].next <= clock'
      BY <1>1, <1>3, <2>1, <2>3 DEF JobsCopiesAgree
    <2> QED BY <1>1, <1>2, <1>3, <1>5, <2>1, <2>2, <2>3 DEF JobsCopiesAgree
  <1>7. Jobs!BudgetStep
    BY <1>1, <1>2, <1>3, <1>5, JobsNames, JobsRetryIs DEF Jobs!BudgetStep
  <1> QED BY <1>4, <1>6, <1>7 DEF JobsDlqInv

\* A pass lists the entries that are due, with the attempts they have.
LEMMA JobsPassReadKeeps ==
  ASSUME Jobs!LimitsOK, JobsDlqInv, Jobs!PassRead
  PROVE  JobsDlqInv' /\ Jobs!BudgetStep
  <1>1. /\ \A e \in Entries : pass[e] = 0
        /\ pass' = [e \in Entries |-> IF e \in Jobs!Ready THEN dlq[e].attempt ELSE 0]
        /\ crossed' = crossed \cup {e \in Jobs!Ready : Jobs!Retrying(e) # {}}
        /\ UNCHANGED <<clock, dlq, retry, bumps>> /\ JobsDlqTypes /\ JobsCopiesAgree
    BY DEF Jobs!PassRead, JobsDlqInv
  <1>2. \A e \in Jobs!Ready : e \in Entries /\ dlq[e] # Jobs!NoEntry /\ dlq[e].attempt > 0 /\ dlq[e].next <= clock
    BY <1>1 DEF Jobs!Ready, Jobs!Queued, Jobs!NoEntry
  <1>3. pass' \in [Entries -> Nat] /\ \A e \in Entries : pass'[e] = IF e \in Jobs!Ready THEN dlq[e].attempt ELSE 0
    BY <1>1, JobsLetterIs
  <1>4. JobsDlqTypes'
    BY <1>1, <1>2, <1>3 DEF JobsDlqTypes
  <1>5. \A e \in Entries : Jobs!Retrying(e)' = Jobs!Retrying(e)
    BY <1>1 DEF Jobs!Retrying
  <1>6. ASSUME NEW e \in Entries, pass'[e] > 0 PROVE e \in Jobs!Ready /\ pass'[e] = dlq[e].attempt
    BY <1>3, <1>6
  <1>7. JobsCopiesAgree'
    BY <1>1, <1>2, <1>5, <1>6 DEF JobsCopiesAgree
  <1>8. Jobs!BudgetStep
    BY <1>1, JobsLetterIs DEF Jobs!BudgetStep
  <1> QED BY <1>4, <1>7, <1>8 DEF JobsDlqInv

\* A pass gives an entry up by the attempts it listed.
LEMMA JobsPassDiscardKeeps ==
  ASSUME Jobs!LimitsOK, JobsDlqInv, NEW e \in Entries, Jobs!PassDiscard(e)
  PROVE  JobsDlqInv' /\ Jobs!BudgetStep
  <1>1. /\ pass[e] > 0 /\ pass[e] >= MaxAttempts /\ retry[Jobs!Scheduler] = Jobs!NoRetry
        /\ dlq' = [dlq EXCEPT ![e] = Jobs!NoEntry] /\ pass' = [pass EXCEPT ![e] = 0]
        /\ UNCHANGED <<clock, retry, bumps, crossed>> /\ JobsDlqTypes /\ JobsCopiesAgree
    BY DEF Jobs!PassDiscard, JobsDlqInv, Jobs!Exhausted
  <1>2. Jobs!NoEntry \in JobsLetter
    BY DEF Jobs!NoEntry, JobsLetter
  <1>3. /\ dlq' \in [Entries -> JobsLetter] /\ pass' \in [Entries -> Nat] /\ dlq'[e] = Jobs!NoEntry /\ pass'[e] = 0
        /\ \A d \in Entries \ {e} : dlq'[d] = dlq[d] /\ pass'[d] = pass[d]
    BY <1>1, <1>2 DEF JobsDlqTypes
  <1>4. JobsDlqTypes'
    BY <1>1, <1>3 DEF JobsDlqTypes
  <1>5. \A d \in Entries : Jobs!Retrying(d)' = Jobs!Retrying(d)
    BY <1>1 DEF Jobs!Retrying
  <1>6. JobsCopiesAgree'
    BY <1>1, <1>3, <1>5 DEF JobsCopiesAgree
  <1>7. Jobs!BudgetStep
    <2>1. \A d \in Entries : retry[Jobs!Scheduler].id # d
      BY <1>1, JobsNames DEF Jobs!NoRetry
    <2>2. ASSUME NEW d \in Entries \ crossed, pass[d] > 0, pass'[d] = 0, dlq[d] # Jobs!NoEntry
          PROVE  dlq[d].attempt >= MaxAttempts
      <3>1. d = e
        BY <1>3, <2>2, JobsLetterIs, <1>1
      <3> QED BY <1>1, <2>2, <3>1 DEF JobsCopiesAgree
    <2> QED BY <2>1, <2>2 DEF Jobs!BudgetStep
  <1> QED BY <1>4, <1>6, <1>7 DEF JobsDlqInv

\* An entry of the pass is read again for its increment, if it is still there.
LEMMA JobsPassRetryKeeps ==
  ASSUME Jobs!LimitsOK, JobsDlqInv, NEW e \in Entries, Jobs!PassRetry(e)
  PROVE  JobsDlqInv' /\ Jobs!BudgetStep
  <1> DEFINE x == [id |-> e, attempt |-> dlq[e].attempt]
  <1>1. /\ pass[e] > 0 /\ retry[Jobs!Scheduler] = Jobs!NoRetry /\ pass' = [pass EXCEPT ![e] = 0]
        /\ retry' = IF dlq[e] = Jobs!NoEntry THEN retry ELSE [retry EXCEPT ![Jobs!Scheduler] = x]
        /\ crossed' = IF Jobs!Retrying(e) # {} \/ dlq[e].attempt # pass[e] THEN crossed \cup {e} ELSE crossed
        /\ UNCHANGED <<clock, dlq, bumps>> /\ JobsDlqTypes /\ JobsCopiesAgree
    BY DEF Jobs!PassRetry, JobsDlqInv
  <1>2. /\ pass' \in [Entries -> Nat] /\ pass'[e] = 0 /\ \A d \in Entries \ {e} : pass'[d] = pass[d]
    BY <1>1 DEF JobsDlqTypes
  <1>3. crossed \subseteq crossed' /\ crossed' \subseteq Entries
        /\ (e \notin crossed' => Jobs!Retrying(e) = {} /\ dlq[e].attempt = pass[e])
        /\ \A d \in Entries \ {e} : d \in crossed' <=> d \in crossed
    BY <1>1 DEF JobsDlqTypes
  <1>4. Jobs!BudgetStep
    BY <1>1, JobsLetterIs, JobsNames DEF Jobs!BudgetStep, Jobs!NoRetry
  <1>5. CASE dlq[e] = Jobs!NoEntry
    <2>1. \A d \in Entries : Jobs!Retrying(d)' = Jobs!Retrying(d)
      BY <1>1, <1>5 DEF Jobs!Retrying
    <2>2. JobsDlqTypes'
      BY <1>1, <1>2, <1>3, <1>5 DEF JobsDlqTypes
    <2>3. JobsCopiesAgree'
      BY <1>1, <1>2, <1>3, <1>5, <2>1 DEF JobsCopiesAgree
    <2> QED BY <1>4, <2>2, <2>3 DEF JobsDlqInv
  <1>6. CASE dlq[e] # Jobs!NoEntry
    <2>1. dlq[e].attempt \in Nat /\ dlq[e].attempt > 0
      BY <1>1, <1>6, JobsLetterIs
    <2>2. x \in JobsRetry /\ x.id = e /\ x.attempt = dlq[e].attempt /\ Jobs!Scheduler \in Jobs!Who
      BY <2>1, JobsNames DEF JobsRetry
    <2> HIDE DEF x
    <2>3. /\ retry' \in [Jobs!Who -> JobsRetry] /\ retry'[Jobs!Scheduler] = x
          /\ \A w \in Jobs!Who \ {Jobs!Scheduler} : retry'[w] = retry[w]
      BY <1>1, <1>6, <2>2 DEF JobsDlqTypes
    <2>4. JobsDlqTypes'
      BY <1>1, <1>2, <1>3, <2>1, <2>2, <2>3 DEF JobsDlqTypes
    <2>5. Jobs!Retrying(e)' = Jobs!Retrying(e) \cup {Jobs!Scheduler}
      BY <1>1, <2>2, <2>3 DEF Jobs!Retrying, Jobs!NoRetry
    <2>6. \A d \in Entries \ {e} : Jobs!Retrying(d)' = Jobs!Retrying(d)
      <3>1. retry[Jobs!Scheduler].id = "none"
        BY <1>1 DEF Jobs!NoRetry
      <3> QED BY <2>2, <2>3, <3>1, JobsNames DEF Jobs!Retrying
    <2>7. ASSUME NEW d \in Entries \ {e}
          PROVE  /\ (pass'[d] > 0 \/ Jobs!Retrying(d)' # {} \/ dlq'[d] # Jobs!NoEntry) => bumps'[d] > 0
                 /\ d \notin crossed' =>
                      /\ dlq'[d] # Jobs!NoEntry => dlq'[d].attempt = bumps'[d]
                      /\ pass'[d] > 0 => /\ Jobs!Retrying(d)' = {}
                                         /\ dlq'[d] # Jobs!NoEntry => pass'[d] = dlq'[d].attempt /\ dlq'[d].next <= clock'
                      /\ \A w \in Jobs!Retrying(d)' :
                           /\ Jobs!Retrying(d)' = {w}
                           /\ dlq'[d] # Jobs!NoEntry => retry'[w].attempt = dlq'[d].attempt
                           /\ dlq'[d] # Jobs!NoEntry /\ w = Jobs!Scheduler => dlq'[d].next <= clock'
      <3>1. \A w \in Jobs!Retrying(d) : w \in Jobs!Who /\ w # Jobs!Scheduler
        BY <1>1, JobsNames DEF Jobs!Retrying, Jobs!NoRetry
      <3> QED BY <1>1, <1>2, <1>3, <2>3, <2>6, <3>1 DEF JobsCopiesAgree
    <2>8. bumps[e] > 0 /\ (e \notin crossed' => dlq[e].attempt = bumps[e] /\ dlq[e].next <= clock)
      BY <1>1, <1>3, <1>6 DEF JobsCopiesAgree
    <2>9. JobsCopiesAgree'
      BY <1>1, <1>2, <1>3, <2>2, <2>3, <2>5, <2>7, <2>8 DEF JobsCopiesAgree
    <2> QED BY <1>4, <2>4, <2>9 DEF JobsDlqInv
  <1> QED BY <1>5, <1>6

\* A caller's retry reads the attempts it will write back, due or not.
LEMMA JobsUserRetryKeeps ==
  ASSUME Jobs!LimitsOK, JobsDlqInv, NEW c \in Callers, NEW e \in Entries, Jobs!UserRetry(c, e)
  PROVE  JobsDlqInv' /\ Jobs!BudgetStep
  <1> DEFINE x == [id |-> e, attempt |-> dlq[e].attempt]
  <1>1. /\ retry[c] = Jobs!NoRetry /\ dlq[e] # Jobs!NoEntry /\ retry' = [retry EXCEPT ![c] = x]
        /\ crossed' = IF Jobs!Retrying(e) # {} \/ pass[e] > 0 THEN crossed \cup {e} ELSE crossed
        /\ UNCHANGED <<clock, dlq, pass, bumps>> /\ JobsDlqTypes /\ JobsCopiesAgree
    BY DEF Jobs!UserRetry, JobsDlqInv
  <1>2. crossed \subseteq crossed' /\ crossed' \subseteq Entries
        /\ (e \notin crossed' => Jobs!Retrying(e) = {} /\ ~(pass[e] > 0))
        /\ \A d \in Entries \ {e} : d \in crossed' <=> d \in crossed
    BY <1>1 DEF JobsDlqTypes
  <1>3. dlq[e].attempt \in Nat /\ dlq[e].attempt > 0
    BY <1>1, JobsLetterIs
  <1>4. x \in JobsRetry /\ x.id = e /\ x.attempt = dlq[e].attempt /\ c \in Jobs!Who /\ c # Jobs!Scheduler
    BY <1>3, JobsNames DEF JobsRetry
  <1> HIDE DEF x
  <1>5. retry' \in [Jobs!Who -> JobsRetry] /\ retry'[c] = x /\ \A w \in Jobs!Who \ {c} : retry'[w] = retry[w]
    BY <1>1, <1>4 DEF JobsDlqTypes
  <1>6. JobsDlqTypes'
    BY <1>1, <1>2, <1>3, <1>4, <1>5 DEF JobsDlqTypes
  <1>7. Jobs!Retrying(e)' = Jobs!Retrying(e) \cup {c}
    BY <1>1, <1>4, <1>5 DEF Jobs!Retrying, Jobs!NoRetry
  <1>8. \A d \in Entries \ {e} : Jobs!Retrying(d)' = Jobs!Retrying(d) /\ c \notin Jobs!Retrying(d)
    BY <1>1, <1>4, <1>5, JobsNames DEF Jobs!Retrying, Jobs!NoRetry
  <1>9. ASSUME NEW d \in Entries \ {e}
        PROVE  /\ (pass'[d] > 0 \/ Jobs!Retrying(d)' # {} \/ dlq'[d] # Jobs!NoEntry) => bumps'[d] > 0
               /\ d \notin crossed' =>
                    /\ dlq'[d] # Jobs!NoEntry => dlq'[d].attempt = bumps'[d]
                    /\ pass'[d] > 0 => /\ Jobs!Retrying(d)' = {}
                                       /\ dlq'[d] # Jobs!NoEntry => pass'[d] = dlq'[d].attempt /\ dlq'[d].next <= clock'
                    /\ \A w \in Jobs!Retrying(d)' :
                         /\ Jobs!Retrying(d)' = {w}
                         /\ dlq'[d] # Jobs!NoEntry => retry'[w].attempt = dlq'[d].attempt
                         /\ dlq'[d] # Jobs!NoEntry /\ w = Jobs!Scheduler => dlq'[d].next <= clock'
    <2>1. \A w \in Jobs!Retrying(d) : w \in Jobs!Who /\ w # c
      BY <1>8 DEF Jobs!Retrying
    <2> QED BY <1>1, <1>2, <1>5, <1>8, <2>1 DEF JobsCopiesAgree
  <1>10. bumps[e] > 0 /\ (e \notin crossed' => dlq[e].attempt = bumps[e])
    BY <1>1, <1>2 DEF JobsCopiesAgree
  <1>11. JobsCopiesAgree'
    BY <1>1, <1>2, <1>4, <1>5, <1>7, <1>9, <1>10 DEF JobsCopiesAgree
  <1>12. Jobs!BudgetStep
    BY <1>1, JobsLetterIs DEF Jobs!BudgetStep
  <1> QED BY <1>6, <1>11, <1>12 DEF JobsDlqInv

\* An increment is lost only under another that overlapped it.
LEMMA JobsRetryWriteKeeps ==
  ASSUME Jobs!LimitsOK, JobsDlqInv, NEW w \in Jobs!Who, Jobs!RetryWrite(w)
  PROVE  JobsDlqInv' /\ Jobs!BudgetStep
  <1>0. retry[w] # Jobs!NoRetry /\ JobsDlqTypes
    BY DEF Jobs!RetryWrite, JobsDlqInv
  <1>e. PICK e \in Entries : retry[w].id = e
    BY <1>0, JobsRetryIs
  <1> DEFINE n == retry[w].attempt + 1
             x == Jobs!Increment(dlq[e], n)
  <1>1. /\ retry[w] # Jobs!NoRetry /\ retry' = [retry EXCEPT ![w] = Jobs!NoRetry]
        /\ IF dlq[e] = Jobs!NoEntry THEN UNCHANGED <<dlq, bumps>>
           ELSE dlq' = [dlq EXCEPT ![e] = x] /\ bumps' = [bumps EXCEPT ![e] = @ + 1]
        /\ UNCHANGED <<clock, pass, crossed>> /\ JobsDlqTypes /\ JobsCopiesAgree
    BY <1>e DEF Jobs!RetryWrite, JobsDlqInv
  <1>2. n \in Nat /\ n >= 1 /\ n > 1 /\ w \in Jobs!Retrying(e) /\ retry[w].attempt \in Nat
    BY <1>e, <1>1, JobsRetryIs
  <1>3. Jobs!NextRetry(n) \in Nat
    BY <1>1, <1>2, JobsDelayIs
  <1>4. x \in JobsLetter /\ x.attempt = n /\ x # Jobs!NoEntry
    <2>1. dlq[e] \in JobsLetter
      BY <1>1, <1>2, JobsLetterIs
    <2>2. x.attempt = n /\ x \in JobsLetter
      BY <1>2, <1>3, <2>1, JobsIncrementIs
    <2> QED BY <1>2, <2>2 DEF Jobs!NoEntry
  <1>5. Jobs!NoRetry \in JobsRetry
    BY DEF Jobs!NoRetry, JobsRetry
  <1>6. retry' \in [Jobs!Who -> JobsRetry] /\ retry'[w] = Jobs!NoRetry /\ \A v \in Jobs!Who \ {w} : retry'[v] = retry[v]
    BY <1>1, <1>5 DEF JobsDlqTypes
  <1>7. Jobs!Retrying(e)' = Jobs!Retrying(e) \ {w} /\ \A d \in Entries \ {e} : Jobs!Retrying(d)' = Jobs!Retrying(d)
    <2>1. retry'[w].id = "none" /\ e # "none"
      BY <1>6, JobsNames DEF Jobs!NoRetry
    <2>2. \A d \in Entries : d # "none"
      BY JobsNames
    <2>3. retry[w].id = e
      BY <1>e
    <2>4. \A v \in Jobs!Who : retry'[v].id = e <=> retry[v].id = e /\ v # w
      BY <1>6, <2>1
    <2>5. \A d \in Entries \ {e} : \A v \in Jobs!Who : retry'[v].id = d <=> retry[v].id = d
      BY <1>6, <2>1, <2>2, <2>3
    <2> QED BY <2>4, <2>5 DEF Jobs!Retrying
  <1> HIDE DEF n, x
  <1>8. \A d \in Entries \ {e} : dlq'[d] = dlq[d] /\ bumps'[d] = bumps[d]
    BY <1>1, <1>2 DEF JobsDlqTypes
  <1>9. dlq[e] # Jobs!NoEntry => /\ dlq'[e] = x /\ bumps'[e] = bumps[e] + 1
                            /\ dlq' \in [Entries -> JobsLetter] /\ bumps' \in [Entries -> Nat]
    BY <1>1, <1>2, <1>4 DEF JobsDlqTypes
  <1>10. dlq[e] = Jobs!NoEntry => dlq' = dlq /\ bumps' = bumps
    BY <1>1
  <1>11. JobsDlqTypes'
    <2>1. CASE dlq[e] = Jobs!NoEntry
      BY <1>1, <1>6, <1>10, <2>1 DEF JobsDlqTypes
    <2>2. CASE dlq[e] # Jobs!NoEntry
      <3>1. \A d \in Entries : dlq'[d] = Jobs!NoEntry \/ dlq'[d].attempt > 0
        <4>1. dlq'[e].attempt > 0
          BY <1>2, <1>4, <1>9, <2>2
        <4> QED BY <1>1, <1>8, <4>1 DEF JobsDlqTypes
      <3> QED BY <1>1, <1>6, <1>9, <2>2, <3>1 DEF JobsDlqTypes
    <2> QED BY <2>1, <2>2
  <1>12. ASSUME NEW d \in Entries \ {e}
         PROVE  /\ (pass'[d] > 0 \/ Jobs!Retrying(d)' # {} \/ dlq'[d] # Jobs!NoEntry) => bumps'[d] > 0
                /\ d \notin crossed' =>
                     /\ dlq'[d] # Jobs!NoEntry => dlq'[d].attempt = bumps'[d]
                     /\ pass'[d] > 0 => /\ Jobs!Retrying(d)' = {}
                                        /\ dlq'[d] # Jobs!NoEntry => pass'[d] = dlq'[d].attempt /\ dlq'[d].next <= clock'
                     /\ \A v \in Jobs!Retrying(d)' :
                          /\ Jobs!Retrying(d)' = {v}
                          /\ dlq'[d] # Jobs!NoEntry => retry'[v].attempt = dlq'[d].attempt
                          /\ dlq'[d] # Jobs!NoEntry /\ v = Jobs!Scheduler => dlq'[d].next <= clock'
    <2>1. \A v \in Jobs!Retrying(d) : v \in Jobs!Who /\ v # w
      BY <1>e DEF Jobs!Retrying
    <2> QED BY <1>1, <1>6, <1>7, <1>8, <2>1 DEF JobsCopiesAgree
  <1>13. bumps[e] > 0 /\ bumps[e] \in Nat
    BY <1>1, <1>2, JobsLetterIs DEF JobsCopiesAgree
  <1>14. bumps'[e] > 0
    BY <1>9, <1>10, <1>13
  <1>15. ASSUME e \notin crossed
         PROVE  /\ ~(pass[e] > 0) /\ Jobs!Retrying(e)' = {}
                /\ dlq[e] # Jobs!NoEntry => dlq'[e].attempt = bumps'[e]
    <2>1. ~(pass[e] > 0) /\ Jobs!Retrying(e) = {w}
      BY <1>1, <1>2, <1>15 DEF JobsCopiesAgree
    <2>2. dlq[e] # Jobs!NoEntry => retry[w].attempt = dlq[e].attempt /\ dlq[e].attempt = bumps[e]
      BY <1>1, <1>2, <1>15 DEF JobsCopiesAgree
    <2> QED BY <1>4, <1>7, <1>9, <2>1, <2>2 DEF n
  <1>16. JobsCopiesAgree'
    <2>1. dlq[e] = Jobs!NoEntry => dlq'[e] = Jobs!NoEntry
      BY <1>10
    <2>2. UNCHANGED <<clock, pass, crossed>>
      BY <1>1
    <2>3. \A d \in Entries :
            (pass'[d] > 0 \/ Jobs!Retrying(d)' # {} \/ dlq'[d] # Jobs!NoEntry) => bumps'[d] > 0
      BY <1>12, <1>14
    <2>4. ASSUME NEW d \in Entries, d \notin crossed'
          PROVE  /\ dlq'[d] # Jobs!NoEntry => dlq'[d].attempt = bumps'[d]
                 /\ pass'[d] > 0 => /\ Jobs!Retrying(d)' = {}
                                    /\ dlq'[d] # Jobs!NoEntry => pass'[d] = dlq'[d].attempt /\ dlq'[d].next <= clock'
                 /\ \A v \in Jobs!Retrying(d)' :
                      /\ Jobs!Retrying(d)' = {v}
                      /\ dlq'[d] # Jobs!NoEntry => retry'[v].attempt = dlq'[d].attempt
                      /\ dlq'[d] # Jobs!NoEntry /\ v = Jobs!Scheduler => dlq'[d].next <= clock'
      <3>1. CASE d = e
        BY <1>15, <2>1, <2>2, <2>4, <3>1
      <3>2. CASE d # e
        BY <1>12, <2>4, <3>2
      <3> QED BY <3>1, <3>2
    <2> QED BY <2>3, <2>4 DEF JobsCopiesAgree
  <1>17. Jobs!BudgetStep
    <2>1. ASSUME NEW d \in Entries \ crossed, retry[Jobs!Scheduler].id = d, dlq'[d].attempt > dlq[d].attempt,
                 retry'[Jobs!Scheduler] = Jobs!NoRetry
          PROVE  dlq[d].next <= clock
      <3>1. d = e
        <4>1. dlq[d].attempt \in Nat
          BY <1>1, JobsLetterIs
        <4> QED BY <1>8, <2>1, <4>1
      <3>2. Jobs!Scheduler \in Jobs!Retrying(e)
        BY <2>1, <3>1, JobsNames DEF Jobs!Retrying
      <3>3. dlq[e] # Jobs!NoEntry
        <4>1. dlq[d].attempt \in Nat
          BY <1>1, JobsLetterIs
        <4> QED BY <1>10, <2>1, <3>1, <4>1
      <3> QED BY <1>1, <2>1, <3>1, <3>2, <3>3 DEF JobsCopiesAgree
    <2> QED BY <1>1, <2>1 DEF Jobs!BudgetStep
  <1> QED BY <1>11, <1>16, <1>17 DEF JobsDlqInv

\* A discarded entry is gone with its attempts.
LEMMA JobsDiscardKeeps ==
  ASSUME JobsDlqInv, NEW e \in Entries, Jobs!Discard(e)
  PROVE  JobsDlqInv' /\ Jobs!BudgetStep
  <1>1. /\ dlq' = [dlq EXCEPT ![e] = Jobs!NoEntry]
        /\ UNCHANGED <<clock, pass, retry, bumps, crossed>> /\ JobsDlqTypes /\ JobsCopiesAgree
    BY DEF Jobs!Discard, JobsDlqInv
  <1>2. /\ dlq' \in [Entries -> JobsLetter] /\ dlq'[e] = Jobs!NoEntry /\ \A d \in Entries \ {e} : dlq'[d] = dlq[d]
    BY <1>1 DEF JobsDlqTypes, Jobs!NoEntry, JobsLetter
  <1>3. JobsDlqTypes'
    BY <1>1, <1>2 DEF JobsDlqTypes
  <1>4. \A d \in Entries : Jobs!Retrying(d)' = Jobs!Retrying(d)
    BY <1>1 DEF Jobs!Retrying
  <1>5. JobsCopiesAgree'
    BY <1>1, <1>2, <1>4 DEF JobsCopiesAgree
  <1>6. Jobs!BudgetStep
    <2>1. \A d \in Entries : dlq'[d].attempt <= dlq[d].attempt
      <3>1. dlq'[e].attempt = 0 /\ dlq[e].attempt \in Nat
        BY <1>1, <1>2, JobsLetterIs DEF Jobs!NoEntry
      <3> QED BY <1>1, <1>2, <3>1, JobsLetterIs
    <2>2. \A d \in Entries : dlq'[d].attempt \in Nat /\ dlq[d].attempt \in Nat
      BY <1>1, <1>2, JobsLetterIs DEF JobsLetter
    <2> QED BY <1>1, <2>1, <2>2 DEF Jobs!BudgetStep
  <1> QED BY <1>3, <1>5, <1>6 DEF JobsDlqInv

\* What leaves the queue alone keeps what is said of it.
LEMMA JobsQueueStutters ==
  ASSUME JobsDlqInv, UNCHANGED <<clock, dlq, pass, retry, bumps, crossed>>
  PROVE  JobsDlqInv' /\ Jobs!BudgetStep
  <1>1. JobsDlqTypes' /\ JobsCopiesAgree'
    BY DEF JobsDlqInv, JobsDlqTypes, JobsCopiesAgree, Jobs!Retrying
  <1>2. \A e \in Entries : dlq[e].attempt \in Nat
    BY JobsLetterIs DEF JobsDlqInv
  <1>3. Jobs!BudgetStep
    BY <1>2 DEF Jobs!BudgetStep
  <1> QED BY <1>1, <1>3 DEF JobsDlqInv

-----------------------------------------------------------------------------
(* Rule files.                                                             *)

\* A set of one element at most has no two.
LEMMA JobsFewRows ==
  ASSUME NEW S, IsFiniteSet(S), Cardinality(S) <= 1, NEW x \in S, NEW y \in S
  PROVE  x = y
  <1>1. IsFiniteSet(S \ {x}) /\ Cardinality(S \ {x}) = Cardinality(S) - 1
    BY FS_RemoveElement
  <1>2. Cardinality(S) \in Nat /\ Cardinality(S \ {x}) \in Nat
    BY <1>1, FS_CardinalityType
  <1>3. Cardinality(S \ {x}) = 0
    BY <1>1, <1>2
  <1>4. S \ {x} = {}
    BY <1>1, <1>3, FS_EmptySet
  <1> QED BY <1>4

\* One call moves on.
LEMMA JobsCallMoves ==
  ASSUME JobsRuleTypes, NEW c \in Callers, NEW x \in JobsRuling, ruling' = [ruling EXCEPT ![c] = x]
  PROVE  /\ ruling' \in [Callers -> JobsRuling] /\ ruling'[c] = x /\ \A d \in Callers \ {c} : ruling'[d] = ruling[d]
         /\ \A f \in RuleFiles : Jobs!Handling(f)' =
              IF x.file = f \/ f \in x.todo THEN Jobs!Handling(f) \cup {c} ELSE Jobs!Handling(f) \ {c}
  <1>1. ruling' \in [Callers -> JobsRuling] /\ ruling'[c] = x /\ \A d \in Callers \ {c} : ruling'[d] = ruling[d]
    BY DEF JobsRuleTypes
  <1> QED BY <1>1 DEF Jobs!Handling

\* A call in hand, field by field.
LEMMA JobsCallIs ==
  ASSUME JobsRuleTypes, NEW c \in Callers
  PROVE  /\ ruling[c].pc \in {"idle", "next", "write", "delete"} /\ ruling[c].todo \subseteq RuleFiles
         /\ ruling[c].file \in RuleFiles \cup {"none"} /\ ruling[c].text \in Nat /\ ruling[c].row \in RowIds \cup {"none"}
         /\ ruling[c] = [pc |-> ruling[c].pc, todo |-> ruling[c].todo, file |-> ruling[c].file,
                       text |-> ruling[c].text, row |-> ruling[c].row]
  BY DEF JobsRuleTypes, JobsRuling

\* An ingest of the rule files starts with every file still to be read.
LEMMA JobsIngestKeeps ==
  ASSUME Jobs!LimitsOK, JobsRuleInv, NEW c \in Callers, Jobs!Ingest(c)
  PROVE  JobsRuleInv'
  <1> DEFINE x == [ruling[c] EXCEPT !.pc = "next", !.todo = Jobs!Listing]
  <1>1. /\ ruling[c] = Jobs!Idle /\ UNCHANGED <<tree, rules, doubled>> /\ JobsRuleTypes /\ JobsCallsFit /\ JobsSoleRow
        /\ JobsUndisturbed
        /\ met' = (met \ {f \in RuleFiles : tree[f] \notin {0, Jobs!Unreadable}}) \cup {f \in RuleFiles : Jobs!Handling(f) # {}}
    BY DEF Jobs!Ingest, JobsRuleInv
  <1>2. ruling' = [ruling EXCEPT ![c] = x]
    BY <1>1 DEF Jobs!Ingest, JobsRuleTypes
  <1>3. /\ x \in JobsRuling /\ x.pc = "next" /\ x.todo = Jobs!Listing /\ x.file = "none" /\ x.text = 0
        /\ x.row = "none"
    <2>1. Jobs!Listing \in SUBSET RuleFiles
      BY DEF Jobs!Listing
    <2>2. ruling[c] \in JobsRuling /\ ruling[c].file = "none" /\ ruling[c].text = 0 /\ ruling[c].row = "none"
      <3>1. ruling[c] \in JobsRuling
        BY <1>1 DEF JobsRuleTypes
      <3>2. Jobs!Idle.file = "none" /\ Jobs!Idle.text = 0 /\ Jobs!Idle.row = "none"
        BY DEF Jobs!Idle
      <3> QED BY <1>1, <3>1, <3>2
    <2> QED BY <2>1, <2>2 DEF JobsRuling
  <1> HIDE DEF x
  <1>4. /\ ruling' \in [Callers -> JobsRuling] /\ ruling'[c] = x /\ \A d \in Callers \ {c} : ruling'[d] = ruling[d]
        /\ \A f \in RuleFiles : f \in x.todo => Jobs!Handling(f)' = Jobs!Handling(f) \cup {c}
    <2>1. ruling' \in [Callers -> JobsRuling] /\ ruling'[c] = x /\ \A d \in Callers \ {c} : ruling'[d] = ruling[d]
      BY <1>1, <1>2, <1>3, JobsCallMoves
    <2> QED BY <2>1 DEF Jobs!Handling
  <1>5. JobsRuleTypes'
    BY <1>1, <1>4 DEF JobsRuleTypes
  <1>6. JobsCallsFit'
    BY <1>1, <1>3, <1>4 DEF JobsCallsFit
  <1>7. JobsSoleRow'
    BY <1>1 DEF JobsSoleRow, Jobs!RowsOf
  <1>8. ASSUME NEW f \in RuleFiles \ met'
        PROVE  /\ Jobs!Handling(f) = {} /\ tree[f] \notin {0, Jobs!Unreadable} /\ f \in Jobs!Listing /\ Jobs!Handling(f)' = {c}
               /\ ruling'[c].file # f /\ ruling'[c].pc # "delete"
    <2>1. Jobs!Handling(f) = {} /\ tree[f] \notin {0, Jobs!Unreadable}
      BY <1>1 DEF JobsUndisturbed
    <2>2. f \in Jobs!Listing
      BY <2>1 DEF Jobs!Listing
    <2> QED BY <1>3, <1>4, <2>1, <2>2, JobsNames
  <1>9. JobsUndisturbed'
    BY <1>1, <1>8 DEF JobsUndisturbed
  <1>10. Jobs!ServedRuleIsCurrent'
    BY <1>8 DEF Jobs!ServedRuleIsCurrent
  <1> QED BY <1>5, <1>6, <1>7, <1>9, <1>10 DEF JobsRuleInv

\* What a step keeps that leaves the files, the rows and the ghosts alone, and
\* the call in hand with the same undisturbed files.
LEMMA JobsCallsFrame ==
  ASSUME Jobs!LimitsOK, JobsRuleInv, NEW c \in Callers,
         NEW x \in JobsRuling, ruling' = [ruling EXCEPT ![c] = x],
         UNCHANGED <<tree, rules, doubled>>, met \subseteq met', met' \subseteq RuleFiles,
         \A f \in RuleFiles \ met' : (x.file = f \/ f \in x.todo) <=> c \in Jobs!Handling(f),
         \A f \in RuleFiles \ met' :
           x.file = f =>
                /\ x.pc # "delete" /\ x.text = tree[f] /\ (x.row = "none" => Jobs!RowsOf(f) = {})
                /\ x.row # "none" => x.row \in Jobs!RowsOf(f),
         \A f \in RuleFiles \ met' : f \in x.todo => x.pc # "delete"
  PROVE  JobsRuleTypes' /\ JobsSoleRow' /\ JobsUndisturbed' /\ Jobs!ServedRuleIsCurrent'
  <1>1. JobsRuleTypes /\ JobsSoleRow /\ JobsUndisturbed /\ Jobs!ServedRuleIsCurrent
    BY DEF JobsRuleInv
  <1>2. /\ ruling' \in [Callers -> JobsRuling] /\ ruling'[c] = x /\ \A d \in Callers \ {c} : ruling'[d] = ruling[d]
        /\ \A f \in RuleFiles : Jobs!Handling(f)' = IF x.file = f \/ f \in x.todo THEN Jobs!Handling(f) \cup {c}
                                           ELSE Jobs!Handling(f) \ {c}
    BY <1>1, JobsCallMoves
  <1>3. \A f \in RuleFiles : Jobs!RowsOf(f)' = Jobs!RowsOf(f)
    BY DEF Jobs!RowsOf
  <1>4. \A f \in RuleFiles \ met' : Jobs!Handling(f)' = Jobs!Handling(f)
    <2>1. ASSUME NEW f \in RuleFiles \ met', NEW d \in Callers
          PROVE  d \in Jobs!Handling(f)' <=> d \in Jobs!Handling(f)
      <3>1. CASE d = c
        BY <1>2, <3>1 DEF Jobs!Handling
      <3>2. CASE d # c
        BY <1>2, <3>2 DEF Jobs!Handling
      <3> QED BY <3>1, <3>2
    <2> QED BY <2>1 DEF Jobs!Handling
  <1>5. JobsRuleTypes' /\ JobsSoleRow'
    BY <1>1, <1>2, <1>3 DEF JobsRuleTypes, JobsSoleRow
  <1>6. JobsUndisturbed'
    <2>1. ASSUME NEW f \in RuleFiles \ met', NEW d \in Jobs!Handling(f)'
          PROVE /\ tree'[f] \notin {0, Jobs!Unreadable} /\ Jobs!Handling(f)' = {d} /\ ruling'[d].pc # "delete"
                /\ ruling'[d].file = f =>
                     /\ ruling'[d].text = tree'[f]
                     /\ ruling'[d].row = "none" => Jobs!RowsOf(f)' = {}
                     /\ ruling'[d].row # "none" => ruling'[d].row \in Jobs!RowsOf(f)'
      <3>1. d \in Jobs!Handling(f) /\ d \in Callers /\ f \in RuleFiles \ met
        BY <1>4, <2>1 DEF Jobs!Handling
      <3>2. CASE d = c
        BY <1>1, <1>2, <1>3, <1>4, <2>1, <3>1, <3>2 DEF JobsUndisturbed
      <3>3. CASE d # c
        BY <1>1, <1>2, <1>3, <1>4, <2>1, <3>1, <3>3 DEF JobsUndisturbed
      <3> QED BY <3>2, <3>3
    <2>2. \A f \in RuleFiles \ met' : tree'[f] \notin {0, Jobs!Unreadable}
      BY <1>1 DEF JobsUndisturbed
    <2> QED BY <2>1, <2>2 DEF JobsUndisturbed
  <1>7. Jobs!ServedRuleIsCurrent'
    BY <1>1, <1>3, <1>4 DEF Jobs!ServedRuleIsCurrent
  <1> QED BY <1>5, <1>6, <1>7

\* An ingest reads a file, then looks its row up.
LEMMA JobsReadRuleKeeps ==
  ASSUME Jobs!LimitsOK, JobsRuleInv, NEW c \in Callers, NEW f \in RuleFiles, Jobs!ReadRule(c, f)
  PROVE  JobsRuleInv'
  <1>1. /\ ruling[c].pc = "next" /\ f \in ruling[c].todo /\ UNCHANGED <<tree, rules, met, doubled>>
        /\ JobsRuleTypes /\ JobsCallsFit /\ JobsUndisturbed
    BY DEF Jobs!ReadRule, JobsRuleInv
  <1>2. /\ ruling[c] \in JobsRuling /\ ruling[c].file = "none" /\ c \in Jobs!Handling(f) /\ met \subseteq RuleFiles
        /\ \A g \in RuleFiles : g # "none"
    BY <1>1, JobsNames DEF JobsRuleTypes, JobsCallsFit, Jobs!Handling
  <1>3. CASE tree[f] \in {0, Jobs!Unreadable}
    <2> DEFINE x == [ruling[c] EXCEPT !.todo = @ \ {f}]
    <2>1. ruling' = [ruling EXCEPT ![c] = x]
      BY <1>1, <1>3 DEF Jobs!ReadRule, JobsRuleTypes
    <2>2. /\ x \in JobsRuling /\ x.pc = "next" /\ x.todo = ruling[c].todo \ {f} /\ x.file = "none"
      BY <1>1, <1>2 DEF JobsRuling
    <2> HIDE DEF x
    <2>3. f \in met
      BY <1>1, <1>3 DEF JobsUndisturbed
    <2>4. \A g \in RuleFiles \ met : (x.file = g \/ g \in x.todo) <=> c \in Jobs!Handling(g)
      BY <1>2, <2>2, <2>3 DEF Jobs!Handling
    <2>5. JobsRuleTypes' /\ JobsSoleRow' /\ JobsUndisturbed' /\ Jobs!ServedRuleIsCurrent'
      BY <1>1, <1>2, <2>1, <2>2, <2>4, JobsCallsFrame
    <2>6. ruling'[c] = x /\ \A d \in Callers \ {c} : ruling'[d] = ruling[d]
      BY <1>1, <2>1, <2>2, JobsCallMoves
    <2>7. JobsCallsFit'
      BY <1>1, <2>2, <2>6 DEF JobsCallsFit
    <2> QED BY <2>5, <2>7 DEF JobsRuleInv
  <1>4. CASE tree[f] \notin {0, Jobs!Unreadable}
    <2>1. PICK r \in IF Jobs!RowsOf(f) = {} THEN {"none"} ELSE Jobs!RowsOf(f) :
            ruling' = [ruling EXCEPT ![c] = [pc |-> "write", todo |-> @.todo \ {f}, file |-> f,
                                         text |-> tree[f], row |-> r]]
      BY <1>4 DEF Jobs!ReadRule
    <2> DEFINE x == [pc |-> "write", todo |-> ruling[c].todo \ {f}, file |-> f, text |-> tree[f], row |-> r]
    <2>2. ruling' = [ruling EXCEPT ![c] = x]
      BY <1>1, <2>1 DEF JobsRuleTypes
    <2>3. r \in RowIds \cup {"none"} /\ (r = "none" => Jobs!RowsOf(f) = {}) /\ (r # "none" => r \in Jobs!RowsOf(f))
      BY JobsNames DEF Jobs!RowsOf
    <2>4. tree[f] \in Nat
      BY <1>1 DEF JobsRuleTypes
    <2>5. /\ x \in JobsRuling /\ x.pc = "write" /\ x.todo = ruling[c].todo \ {f} /\ x.file = f
          /\ x.text = tree[f] /\ x.row = r
      BY <1>2, <2>3, <2>4 DEF JobsRuling
    <2> HIDE DEF x
    <2>6. \A g \in RuleFiles \ met : (x.file = g \/ g \in x.todo) <=> c \in Jobs!Handling(g)
      BY <1>2, <2>5 DEF Jobs!Handling
    <2>7. JobsRuleTypes' /\ JobsSoleRow' /\ JobsUndisturbed' /\ Jobs!ServedRuleIsCurrent'
      BY <1>1, <1>2, <2>2, <2>3, <2>5, <2>6, JobsCallsFrame
    <2>8. ruling'[c] = x /\ \A d \in Callers \ {c} : ruling'[d] = ruling[d]
      BY <1>1, <2>2, <2>5, JobsCallMoves
    <2>9. JobsCallsFit'
      <3>1. r # "none" => rules[r].file = f
        BY <2>3 DEF Jobs!RowsOf
      <3> QED BY <1>1, <1>4, <2>5, <2>8, <3>1 DEF JobsCallsFit
    <2> QED BY <2>7, <2>9 DEF JobsRuleInv
  <1> QED BY <1>3, <1>4

\* An ingest no other step disturbed leaves the rows as the disk has them.
LEMMA JobsIngestedKeeps ==
  ASSUME Jobs!LimitsOK, JobsRuleInv, NEW c \in Callers, Jobs!Ingested(c)
  PROVE  JobsRuleInv'
  <1>1. /\ ruling[c].pc = "next" /\ ruling[c].todo = {} /\ ruling' = [ruling EXCEPT ![c] = Jobs!Idle]
        /\ UNCHANGED <<tree, rules, met, doubled>> /\ JobsRuleTypes /\ JobsCallsFit
    BY DEF Jobs!Ingested, JobsRuleInv
  <1>2. /\ Jobs!Idle \in JobsRuling /\ Jobs!Idle.pc = "idle" /\ Jobs!Idle.todo = {} /\ Jobs!Idle.file = "none" /\ Jobs!Idle.row = "none"
        /\ \A f \in RuleFiles : f # "none"
    BY JobsNames DEF Jobs!Idle, JobsRuling
  <1>3. \A f \in RuleFiles : c \notin Jobs!Handling(f)
    BY <1>1, <1>2 DEF JobsCallsFit, Jobs!Handling
  <1>4. JobsRuleTypes' /\ JobsSoleRow' /\ JobsUndisturbed' /\ Jobs!ServedRuleIsCurrent'
    <2>1. met \subseteq met' /\ met' \subseteq RuleFiles
      BY <1>1 DEF JobsRuleTypes
    <2> QED BY <1>1, <1>2, <1>3, <2>1, JobsCallsFrame
  <1>5. ruling'[c] = Jobs!Idle /\ \A d \in Callers \ {c} : ruling'[d] = ruling[d]
    BY <1>1, <1>2, JobsCallMoves
  <1>6. JobsCallsFit'
    BY <1>1, <1>2, <1>5 DEF JobsCallsFit
  <1> QED BY <1>4, <1>6 DEF JobsRuleInv

\* A removal picks a row of its file and is on record for it.
LEMMA JobsRemoveKeeps ==
  ASSUME Jobs!LimitsOK, JobsRuleInv, NEW c \in Callers, NEW f \in RuleFiles, Jobs!Remove(c, f)
  PROVE  JobsRuleInv'
  <1>1. /\ ruling[c] = Jobs!Idle /\ met' = met \cup {f} /\ UNCHANGED <<tree, rules, doubled>>
        /\ JobsRuleTypes /\ JobsCallsFit
    BY DEF Jobs!Remove, JobsRuleInv
  <1>2. PICK r \in Jobs!RowsOf(f) :
          ruling' = [ruling EXCEPT ![c] = [@ EXCEPT !.pc = "delete", !.file = f, !.row = r]]
    BY DEF Jobs!Remove
  <1> DEFINE x == [Jobs!Idle EXCEPT !.pc = "delete", !.file = f, !.row = r]
  <1>3. ruling' = [ruling EXCEPT ![c] = x]
    BY <1>1, <1>2 DEF JobsRuleTypes
  <1>4. r \in RowIds /\ rules[r].file = f /\ r # "none"
    BY JobsNames DEF Jobs!RowsOf
  <1>5. x \in JobsRuling /\ x.pc = "delete" /\ x.todo = {} /\ x.file = f /\ x.row = r
    BY <1>4 DEF Jobs!Idle, JobsRuling
  <1> HIDE DEF x
  <1>6. \A g \in RuleFiles \ met' : (x.file = g \/ g \in x.todo) <=> c \in Jobs!Handling(g)
    BY <1>1, <1>5, JobsNames DEF Jobs!Handling, Jobs!Idle
  <1>7. JobsRuleTypes' /\ JobsSoleRow' /\ JobsUndisturbed' /\ Jobs!ServedRuleIsCurrent'
    <2>1. met \subseteq met' /\ met' \subseteq RuleFiles
      BY <1>1 DEF JobsRuleTypes
    <2> QED BY <1>1, <1>3, <1>5, <1>6, <2>1, JobsCallsFrame
  <1>8. ruling'[c] = x /\ \A d \in Callers \ {c} : ruling'[d] = ruling[d]
    BY <1>1, <1>3, <1>5, JobsCallMoves
  <1>9. JobsCallsFit'
    BY <1>1, <1>4, <1>5, <1>8 DEF JobsCallsFit
  <1> QED BY <1>7, <1>9 DEF JobsRuleInv

\* An edit is on record for the file it touches.
LEMMA JobsEditKeeps ==
  ASSUME JobsRuleInv, NEW f \in RuleFiles, NEW t \in {0, 2, Jobs!Unreadable}, Jobs!Edit(f, t)
  PROVE  JobsRuleInv'
  <1>1. /\ tree' = [tree EXCEPT ![f] = t] /\ met' = met \cup {f} /\ UNCHANGED <<rules, ruling, doubled>>
        /\ JobsRuleTypes /\ JobsCallsFit /\ JobsSoleRow /\ JobsUndisturbed /\ Jobs!ServedRuleIsCurrent
    BY DEF Jobs!Edit, JobsRuleInv
  <1>2. tree' \in [RuleFiles -> Nat] /\ \A g \in RuleFiles \ {f} : tree'[g] = tree[g]
    BY <1>1 DEF JobsRuleTypes, Jobs!Unreadable
  <1>3. \A g \in RuleFiles : Jobs!Handling(g)' = Jobs!Handling(g) /\ Jobs!RowsOf(g)' = Jobs!RowsOf(g)
    BY <1>1 DEF Jobs!Handling, Jobs!RowsOf
  <1>4. JobsRuleTypes' /\ JobsCallsFit' /\ JobsSoleRow'
    BY <1>1, <1>2, <1>3 DEF JobsRuleTypes, JobsCallsFit, JobsSoleRow
  <1>5. JobsUndisturbed' /\ Jobs!ServedRuleIsCurrent'
    BY <1>1, <1>2, <1>3 DEF JobsUndisturbed, Jobs!ServedRuleIsCurrent
  <1> QED BY <1>4, <1>5 DEF JobsRuleInv

\* update or add: the row is the file's, or fresh.
LEMMA JobsWriteRuleKeeps ==
  ASSUME Jobs!LimitsOK, JobsRuleInv, NEW c \in Callers, Jobs!WriteRule(c)
  PROVE  JobsRuleInv'
  <1>1. /\ ruling[c].pc = "write" /\ UNCHANGED <<tree, met>> /\ JobsRuleTypes /\ JobsCallsFit /\ JobsSoleRow
        /\ JobsUndisturbed /\ Jobs!ServedRuleIsCurrent
    BY DEF Jobs!WriteRule, JobsRuleInv
  <1>f. PICK f \in RuleFiles : f = ruling[c].file /\ f \notin ruling[c].todo /\ ruling[c].text # 0
    BY <1>1 DEF JobsCallsFit
  <1>t. PICK t \in RowIds :
          /\ t = Jobs!Target(c)
          /\ ruling[c].row # "none" => t = ruling[c].row /\ rules[t].file = f
          /\ ruling[c].row = "none" => rules[t] = Jobs!NoRule
    <2>1. CASE ruling[c].row # "none"
      <3>1. ruling[c].row \in RowIds
        BY <1>1, <2>1, JobsCallIs
      <3> QED BY <1>1, <1>f, <2>1, <3>1 DEF Jobs!Target, JobsCallsFit
    <2>2. CASE ruling[c].row = "none"
      <3>1. \E r \in RowIds : rules[r] = Jobs!NoRule
        BY <2>2 DEF Jobs!WriteRule
      <3> QED BY <2>2, <3>1 DEF Jobs!Target
    <2> QED BY <2>1, <2>2
  <1> DEFINE gone == ruling[c].row # "none" /\ rules[ruling[c].row].text = 0
             y == [file |-> f, text |-> ruling[c].text]
             x == [ruling[c] EXCEPT !.pc = "next", !.file = "none", !.text = 0, !.row = "none"]
  <1>2. /\ rules' = IF gone THEN rules ELSE [rules EXCEPT ![t] = y]
        /\ doubled' = IF ruling[c].row = "none" /\ Jobs!RowsOf(f) # {} THEN doubled \cup {f} ELSE doubled
    BY <1>f, <1>t DEF Jobs!WriteRule
  <1>3. ruling' = [ruling EXCEPT ![c] = x]
    BY <1>1 DEF Jobs!WriteRule, JobsRuleTypes
  <1>4. x \in JobsRuling /\ x.pc = "next" /\ x.file = "none" /\ x.todo = ruling[c].todo
    BY <1>1 DEF JobsRuleTypes, JobsRuling
  <1>5. y \in JobsRule /\ y.file = f /\ y.text = ruling[c].text /\ f # "none"
    <2>1. ruling[c].text \in Nat /\ f # "none"
      BY <1>1, JobsCallIs, JobsNames
    <2> QED BY <2>1 DEF JobsRule
  <1> HIDE DEF x, y
  <1>6. /\ ruling' \in [Callers -> JobsRuling] /\ ruling'[c] = x /\ \A d \in Callers \ {c} : ruling'[d] = ruling[d]
    BY <1>1, <1>3, <1>4, JobsCallMoves
  <1>7. /\ rules' \in [RowIds -> JobsRule] /\ \A r \in RowIds \ {t} : rules'[r] = rules[r]
        /\ ~gone => rules'[t] = y
        /\ gone => rules' = rules
    BY <1>1, <1>2, <1>5 DEF JobsRuleTypes
  <1>8. JobsRuleTypes'
    <2>1. doubled' \subseteq RuleFiles
      BY <1>1, <1>2 DEF JobsRuleTypes
    <2>2. \A r \in RowIds : rules'[r].file = "none" => rules'[r] = Jobs!NoRule
      BY <1>1, <1>5, <1>7 DEF JobsRuleTypes
    <2> QED BY <1>1, <1>6, <1>7, <2>1, <2>2 DEF JobsRuleTypes
  <1>9. \A r \in RowIds : rules[r].file # "none" => rules'[r].file = rules[r].file
    <2>1. rules[t].file # "none" => rules[t].file = f
      BY <1>t DEF Jobs!NoRule
    <2> QED BY <1>5, <1>7, <2>1
  <1>10. JobsCallsFit'
    <2>1. ASSUME NEW d \in Callers \ {c}, ruling[d].pc \in {"write", "delete"}, ruling[d].row # "none"
          PROVE  rules'[ruling[d].row].file = ruling[d].file
      <3>1. ruling[d].row \in RowIds /\ rules[ruling[d].row].file = ruling[d].file /\ ruling[d].file \in RuleFiles
        BY <1>1, <2>1, JobsCallIs DEF JobsCallsFit
      <3>2. rules[ruling[d].row].file # "none"
        BY <3>1, JobsNames
      <3> QED BY <1>9, <3>1, <3>2
    <2> QED BY <1>1, <1>4, <1>6, <2>1 DEF JobsCallsFit
  <1>11. \A g \in RuleFiles \ {f} : Jobs!RowsOf(g)' = Jobs!RowsOf(g) /\ \A r \in Jobs!RowsOf(g) : rules'[r] = rules[r]
    <2>1. rules[t].file \notin RuleFiles \ {f}
      BY <1>t, JobsNames DEF Jobs!NoRule
    <2> QED BY <1>5, <1>7, <2>1 DEF Jobs!RowsOf
  <1>12. ~gone => Jobs!RowsOf(f)' = Jobs!RowsOf(f) \cup {t}
    BY <1>5, <1>7, <1>f DEF Jobs!RowsOf
  <1>13. gone => Jobs!RowsOf(f)' = Jobs!RowsOf(f)
    BY <1>7 DEF Jobs!RowsOf
  <1>14. ruling[c].row # "none" /\ ~gone => t \in Jobs!RowsOf(f)
    BY <1>1, <1>t DEF Jobs!RowsOf
  <1>15. JobsSoleRow'
    <2>1. ASSUME NEW g \in RuleFiles, g \notin doubled' PROVE \A r, s \in Jobs!RowsOf(g)' : r = s
      <3>1. g \notin doubled /\ (g = f /\ ruling[c].row = "none" => Jobs!RowsOf(f) = {})
        BY <1>2, <2>1
      <3>2. \A r, s \in Jobs!RowsOf(g) : r = s
        BY <1>1, <3>1 DEF JobsSoleRow
      <3>3. CASE g # f
        BY <1>11, <3>2, <3>3
      <3>4. CASE g = f /\ gone
        BY <1>13, <3>2, <3>4
      <3>5. CASE g = f /\ ~gone /\ ruling[c].row = "none"
        BY <1>12, <3>1, <3>5
      <3>6. CASE g = f /\ ~gone /\ ruling[c].row # "none"
        BY <1>12, <1>14, <3>2, <3>6
      <3> QED BY <3>3, <3>4, <3>5, <3>6
    <2> QED BY <2>1 DEF JobsSoleRow
  <1>16. \A g \in RuleFiles \ {f} : Jobs!Handling(g)' = Jobs!Handling(g)
    <2>1. \A g \in RuleFiles : g # "none"
      BY JobsNames
    <2> QED BY <1>4, <1>6, <1>f, <2>1 DEF Jobs!Handling
  <1>17. ASSUME f \notin met
         PROVE  /\ Jobs!Handling(f)' = {} /\ tree[f] \notin {0, Jobs!Unreadable} /\ ruling[c].text = tree[f] /\ ~gone
                /\ ruling[c].row = "none" => Jobs!RowsOf(f) = {}
    <2>1. c \in Jobs!Handling(f)
      BY <1>f DEF Jobs!Handling
    <2>2. /\ Jobs!Handling(f) = {c} /\ tree[f] \notin {0, Jobs!Unreadable} /\ ruling[c].text = tree[f]
          /\ ruling[c].row = "none" => Jobs!RowsOf(f) = {}
          /\ ruling[c].row # "none" => ruling[c].row \in Jobs!RowsOf(f)
      BY <1>1, <1>f, <1>17, <2>1 DEF JobsUndisturbed
    <2>3. ~gone
      BY <2>2 DEF Jobs!RowsOf
    <2>4. Jobs!Handling(f)' = {}
      <3>1. \A d \in Callers \ {c} : d \notin Jobs!Handling(f)
        BY <2>2
      <3>2. x.file # f /\ f \notin x.todo
        BY <1>4, <1>5, <1>f
      <3> QED BY <1>6, <3>1, <3>2 DEF Jobs!Handling
    <2> QED BY <2>2, <2>3, <2>4
  <1>18. JobsUndisturbed'
    <2>1. ASSUME NEW g \in RuleFiles \ met, g # f, NEW d \in Jobs!Handling(g)'
          PROVE /\ tree[g] \notin {0, Jobs!Unreadable} /\ Jobs!Handling(g)' = {d} /\ ruling'[d].pc # "delete"
                /\ ruling'[d].file = g =>
                     /\ ruling'[d].text = tree[g]
                     /\ ruling'[d].row = "none" => Jobs!RowsOf(g)' = {}
                     /\ ruling'[d].row # "none" => ruling'[d].row \in Jobs!RowsOf(g)'
      <3>1. d \in Jobs!Handling(g) /\ d \in Callers /\ g # "none"
        BY <1>16, <2>1, JobsNames DEF Jobs!Handling
      <3>2. CASE d = c
        BY <1>1, <1>4, <1>6, <1>16, <2>1, <3>1, <3>2 DEF JobsUndisturbed
      <3>3. CASE d # c
        BY <1>1, <1>6, <1>11, <1>16, <2>1, <3>1, <3>3 DEF JobsUndisturbed
      <3> QED BY <3>2, <3>3
    <2>2. \A g \in RuleFiles \ met : tree[g] \notin {0, Jobs!Unreadable}
      BY <1>1 DEF JobsUndisturbed
    <2>3. \A g \in RuleFiles \ met : g = f => Jobs!Handling(g)' = {}
      BY <1>17
    <2> QED BY <1>1, <2>1, <2>2, <2>3 DEF JobsUndisturbed
  <1>19. Jobs!ServedRuleIsCurrent'
    <2>1. ASSUME NEW g \in RuleFiles, g \notin met, g \notin doubled', Jobs!Handling(g)' = {}, NEW r \in Jobs!RowsOf(g)'
          PROVE  rules'[r].text = tree[g]
      <3>1. g \notin doubled
        BY <1>2, <2>1
      <3>2. CASE g # f
        BY <1>1, <1>11, <1>16, <2>1, <3>1, <3>2 DEF Jobs!ServedRuleIsCurrent
      <3>3. CASE g = f
        <4>1. ~gone /\ ruling[c].text = tree[f] /\ (ruling[c].row = "none" => Jobs!RowsOf(f) = {})
          BY <1>17, <2>1, <3>3
        <4>2. \A s \in Jobs!RowsOf(f) : s = t
          BY <1>1, <1>14, <3>1, <3>3, <4>1 DEF JobsSoleRow
        <4>3. r = t
          BY <1>12, <2>1, <3>3, <4>1, <4>2
        <4> QED BY <1>5, <1>7, <3>3, <4>1, <4>3
      <3> QED BY <3>2, <3>3
    <2> QED BY <1>1, <2>1 DEF Jobs!ServedRuleIsCurrent
  <1> QED BY <1>8, <1>10, <1>15, <1>18, <1>19 DEF JobsRuleInv

\* A deleted row may leave its file with one row again.
LEMMA JobsDeleteKeeps ==
  ASSUME Jobs!LimitsOK, JobsRuleInv, NEW c \in Callers, Jobs!Delete(c)
  PROVE  JobsRuleInv'
  <1>1. /\ ruling[c].pc = "delete" /\ ruling' = [ruling EXCEPT ![c] = Jobs!Idle] /\ UNCHANGED <<tree, met>>
        /\ JobsRuleTypes /\ JobsCallsFit /\ JobsSoleRow /\ JobsUndisturbed /\ Jobs!ServedRuleIsCurrent
    BY DEF Jobs!Delete, JobsRuleInv
  <1>f. PICK f \in RuleFiles : f = ruling[c].file /\ ruling[c].todo = {}
    BY <1>1 DEF JobsCallsFit
  <1>t. PICK t \in RowIds : t = ruling[c].row /\ rules[t].file = f
    <2>1. ruling[c].row # "none" /\ ruling[c].row \in RowIds
      BY <1>1, JobsCallIs DEF JobsCallsFit
    <2> QED BY <1>1, <1>f, <2>1 DEF JobsCallsFit
  <1>2. /\ rules' = [rules EXCEPT ![t].text = 0]
        /\ doubled' = IF Cardinality(Jobs!RowsOf(f) \ {t}) <= 1 THEN doubled \ {f} ELSE doubled
    <2>1. doubled' = IF Jobs!Cardinality(Jobs!RowsOf(f) \ {t}) <= 1 THEN doubled \ {f} ELSE doubled
      BY <1>f, <1>t DEF Jobs!Delete
    <2>2. Jobs!Cardinality(Jobs!RowsOf(f) \ {t}) = Cardinality(Jobs!RowsOf(f) \ {t})
      BY JobsLibrary
    <2>3. rules' = [rules EXCEPT ![t].text = 0]
      BY <1>t DEF Jobs!Delete
    <2> QED BY <2>1, <2>2, <2>3
  <1>3. Jobs!Idle \in JobsRuling /\ Jobs!Idle.pc = "idle" /\ Jobs!Idle.file = "none" /\ Jobs!Idle.todo = {}
    BY DEF Jobs!Idle, JobsRuling
  <1>4. /\ ruling' \in [Callers -> JobsRuling] /\ ruling'[c] = Jobs!Idle /\ \A d \in Callers \ {c} : ruling'[d] = ruling[d]
    BY <1>1, <1>3, JobsCallMoves
  <1>5. /\ rules' \in [RowIds -> JobsRule] /\ \A r \in RowIds \ {t} : rules'[r] = rules[r]
        /\ rules'[t].file = f /\ rules'[t].text = 0
    <2>1. rules[t] \in JobsRule
      BY <1>1 DEF JobsRuleTypes
    <2>2. [rules[t] EXCEPT !.text = 0] \in JobsRule /\ [rules[t] EXCEPT !.text = 0].file = f
          /\ [rules[t] EXCEPT !.text = 0].text = 0
      BY <1>t, <2>1 DEF JobsRule
    <2> QED BY <1>1, <1>2, <2>2 DEF JobsRuleTypes
  <1>6. JobsRuleTypes'
    <2>1. f # "none"
      BY JobsNames
    <2>2. doubled' \subseteq RuleFiles
      BY <1>1, <1>2 DEF JobsRuleTypes
    <2> QED BY <1>1, <1>4, <1>5, <2>1, <2>2 DEF JobsRuleTypes
  <1>7. JobsCallsFit'
    <2>1. \A r \in RowIds : rules'[r].file = rules[r].file
      BY <1>5, <1>t
    <2>2. \A d \in Callers : ruling[d].row # "none" => ruling[d].row \in RowIds
      BY <1>1, JobsCallIs
    <2> QED BY <1>1, <1>3, <1>4, <2>1, <2>2 DEF JobsCallsFit
  <1>8. Jobs!RowsOf(f)' = Jobs!RowsOf(f) \ {t}
    BY <1>5 DEF Jobs!RowsOf
  <1>9. \A g \in RuleFiles \ {f} : Jobs!RowsOf(g)' = Jobs!RowsOf(g) /\ \A r \in Jobs!RowsOf(g) : rules'[r] = rules[r]
    BY <1>5, <1>t DEF Jobs!RowsOf
  <1>10. JobsSoleRow'
    <2>1. ASSUME NEW g \in RuleFiles, g \notin doubled' PROVE \A r, s \in Jobs!RowsOf(g)' : r = s
      <3>1. CASE g \notin doubled
        BY <1>1, <1>8, <1>9, <3>1 DEF JobsSoleRow
      <3>2. CASE g \in doubled
        <4>1. g = f /\ Cardinality(Jobs!RowsOf(f) \ {t}) <= 1
          BY <1>2, <2>1, <3>2
        <4>2. IsFiniteSet(Jobs!RowsOf(f) \ {t})
          <5>1. Jobs!RowsOf(f) \ {t} \in SUBSET RowIds
            BY DEF Jobs!RowsOf
          <5> QED BY <5>1, FS_Subset, JobsLibrary DEF Jobs!LimitsOK
        <4> QED BY <1>8, <4>1, <4>2, JobsFewRows, JobsLibrary
      <3> QED BY <3>1, <3>2
    <2> QED BY <2>1 DEF JobsSoleRow
  <1>11. f \in met
    <2>1. c \in Jobs!Handling(f)
      BY <1>f DEF Jobs!Handling
    <2> QED BY <1>1, <2>1 DEF JobsUndisturbed
  <1>12. \A g \in RuleFiles \ met : Jobs!Handling(g)' = Jobs!Handling(g) /\ c \notin Jobs!Handling(g)
    <2>1. \A g \in RuleFiles : g # "none"
      BY JobsNames
    <2> QED BY <1>3, <1>4, <1>f, <1>11, <2>1 DEF Jobs!Handling
  <1>13. JobsUndisturbed'
    <2>1. ASSUME NEW g \in RuleFiles \ met, NEW d \in Jobs!Handling(g)'
          PROVE /\ Jobs!Handling(g)' = {d} /\ ruling'[d].pc # "delete"
                /\ ruling'[d].file = g =>
                     /\ ruling'[d].text = tree[g]
                     /\ ruling'[d].row = "none" => Jobs!RowsOf(g)' = {}
                     /\ ruling'[d].row # "none" => ruling'[d].row \in Jobs!RowsOf(g)'
      <3>1. d \in Jobs!Handling(g) /\ d \in Callers \ {c} /\ g # f
        BY <1>11, <1>12, <2>1 DEF Jobs!Handling
      <3> QED BY <1>1, <1>4, <1>9, <1>12, <2>1, <3>1 DEF JobsUndisturbed
    <2>2. \A g \in RuleFiles \ met : tree[g] \notin {0, Jobs!Unreadable}
      BY <1>1 DEF JobsUndisturbed
    <2> QED BY <1>1, <2>1, <2>2 DEF JobsUndisturbed
  <1>14. Jobs!ServedRuleIsCurrent'
    <2>1. ASSUME NEW g \in RuleFiles, g \notin met, g \notin doubled', Jobs!Handling(g)' = {}, NEW r \in Jobs!RowsOf(g)'
          PROVE  rules'[r].text = tree[g]
      <3>1. g # f /\ g \notin doubled
        BY <1>2, <1>11, <2>1
      <3> QED BY <1>1, <1>9, <1>12, <2>1, <3>1 DEF Jobs!ServedRuleIsCurrent
    <2> QED BY <1>1, <2>1 DEF Jobs!ServedRuleIsCurrent
  <1> QED BY <1>6, <1>7, <1>10, <1>13, <1>14 DEF JobsRuleInv

\* What leaves the rule files alone keeps what is said of them.
LEMMA JobsRulesStutter ==
  ASSUME JobsRuleInv, UNCHANGED <<tree, rules, ruling, met, doubled>>
  PROVE  JobsRuleInv'
  BY DEF JobsRuleInv, JobsRuleTypes, JobsCallsFit, JobsSoleRow, JobsUndisturbed,
         Jobs!ServedRuleIsCurrent, Jobs!Handling, Jobs!RowsOf

-----------------------------------------------------------------------------
\* The queue is empty and no file is ingested at the start.
LEMMA JobsInitHolds == ASSUME Jobs!LimitsOK, Jobs!Init PROVE JobsIInv
  <1>1. /\ clock = 0 /\ dlq = [e \in Entries |-> Jobs!NoEntry] /\ pass = [e \in Entries |-> 0]
        /\ retry = [w \in Jobs!Who |-> Jobs!NoRetry] /\ bumps = [e \in Entries |-> 0] /\ crossed = {}
        /\ tree = [f \in RuleFiles |-> 1] /\ rules = [r \in RowIds |-> Jobs!NoRule]
        /\ ruling = [c \in Callers |-> Jobs!Idle] /\ met = {} /\ doubled = {}
    BY DEF Jobs!Init
  <1>2. Jobs!NoEntry \in JobsLetter /\ Jobs!NoRetry \in JobsRetry /\ Jobs!NoRule \in JobsRule /\ Jobs!Idle \in JobsRuling
    BY DEF Jobs!NoEntry, JobsLetter, Jobs!NoRetry, JobsRetry, Jobs!NoRule, JobsRule, Jobs!Idle,
           JobsRuling
  <1>3. JobsDlqTypes
    <2>1. 0 \in 0..MaxClock
      BY JobsNames
    <2> QED BY <1>1, <1>2, <2>1 DEF JobsDlqTypes
  <1>4. \A e \in Entries : Jobs!Retrying(e) = {}
    BY <1>1, JobsNames DEF Jobs!Retrying, Jobs!NoRetry
  <1>5. JobsCopiesAgree
    BY <1>1, <1>4 DEF JobsCopiesAgree
  <1>6. JobsRuleTypes
    BY <1>1, <1>2 DEF JobsRuleTypes
  <1>7. JobsCallsFit
    BY <1>1 DEF JobsCallsFit, Jobs!Idle
  <1>8. \A f \in RuleFiles : Jobs!RowsOf(f) = {} /\ Jobs!Handling(f) = {}
    BY <1>1, JobsNames DEF Jobs!RowsOf, Jobs!Handling, Jobs!NoRule, Jobs!Idle
  <1>9. JobsSoleRow /\ JobsUndisturbed /\ Jobs!ServedRuleIsCurrent
    BY <1>1, <1>8 DEF JobsSoleRow, JobsUndisturbed, Jobs!ServedRuleIsCurrent, Jobs!Unreadable
  <1> QED BY <1>3, <1>5, <1>6, <1>7, <1>9 DEF JobsIInv, JobsDlqInv, JobsRuleInv

\* Every step of the queue and of the ingests keeps the invariant.
LEMMA JobsNextKeeps ==
  ASSUME Jobs!LimitsOK, JobsIInv, [Jobs!Next]_Jobs!autoVars
  PROVE  JobsIInv' /\ [Jobs!BudgetStep]_Jobs!autoVars
  <1>1. JobsDlqInv /\ JobsRuleInv
    BY DEF JobsIInv
  <1>2. CASE Jobs!DlqNext
    <2>1. UNCHANGED <<tree, rules, ruling, met, doubled>>
      BY <1>2 DEF Jobs!DlqNext, Jobs!PassRead, Jobs!Tick, Jobs!dlq_add, Jobs!PassDiscard,
                  Jobs!PassRetry, Jobs!Discard, Jobs!UserRetry, Jobs!RetryWrite,
                  Jobs!ruled
    <2>2. CASE Jobs!Tick
      <3>1. Jobs!BudgetStep
        <4>1. UNCHANGED <<dlq, pass>> /\ \A e \in Entries : dlq[e].attempt \in Nat
          BY <1>1, <2>2, JobsLetterIs DEF Jobs!Tick, JobsDlqInv
        <4> QED BY <4>1 DEF Jobs!BudgetStep
      <3> QED BY <1>1, <2>1, <2>2, <3>1, JobsTickKeeps, JobsRulesStutter DEF JobsIInv
    <2>3. CASE ~Jobs!Tick
      <3>1. JobsDlqInv' /\ Jobs!BudgetStep
        BY <1>1, <1>2, <2>3, JobsAddKeeps, JobsPassReadKeeps, JobsPassDiscardKeeps,
           JobsPassRetryKeeps, JobsUserRetryKeeps,
           JobsRetryWriteKeeps, JobsDiscardKeeps DEF Jobs!DlqNext
      <3> QED BY <1>1, <2>1, <3>1, JobsRulesStutter DEF JobsIInv
    <2> QED BY <2>2, <2>3
  <1>3. CASE Jobs!RuleNext
    <2>1. UNCHANGED Jobs!queue
      BY <1>3 DEF Jobs!RuleNext, Jobs!Ingest, Jobs!WriteRule, Jobs!Ingested, Jobs!Delete,
                  Jobs!ReadRule, Jobs!Remove, Jobs!Edit
    <2>2. JobsRuleInv'
      BY <1>1, <1>3, JobsIngestKeeps, JobsWriteRuleKeeps, JobsIngestedKeeps, JobsDeleteKeeps,
         JobsReadRuleKeeps, JobsRemoveKeeps,
         JobsEditKeeps DEF Jobs!RuleNext
    <2> QED BY <1>1, <2>1, <2>2, JobsQueueStutters DEF JobsIInv, Jobs!queue
  <1>4. CASE UNCHANGED Jobs!autoVars
    BY <1>1, <1>4, JobsQueueStutters, JobsRulesStutter DEF JobsIInv, Jobs!autoVars, Jobs!queue,
       Jobs!ruled
  <1> QED BY <1>2, <1>3, <1>4 DEF Jobs!Next

\* The invariant gives what the automation promises.
LEMMA JobsProtects == ASSUME Jobs!LimitsOK, JobsIInv PROVE Jobs!AutomationSafe
  <1>1. JobsDlqTypes /\ JobsCopiesAgree /\ JobsRuleTypes /\ JobsSoleRow /\ Jobs!ServedRuleIsCurrent
    BY DEF JobsIInv, JobsDlqInv, JobsRuleInv
  <1>2. Jobs!TypeOK
    <2>1. \A c \in Callers : ruling[c].pc \in {"idle", "next", "write", "delete"}
      BY <1>1, JobsCallIs
    <2>2. \A e \in Entries : dlq[e].attempt \in Nat /\ dlq[e].next \in Nat /\ pass[e] \in Nat
      BY <1>1, JobsLetterIs
    <2> QED BY <1>1, <2>1, <2>2 DEF Jobs!TypeOK, JobsDlqTypes, JobsRuleTypes
  <1>3. Jobs!CountLossNeedsOverlap
    BY <1>1 DEF JobsCopiesAgree, Jobs!CountLossNeedsOverlap, Jobs!Queued, Jobs!NoEntry
  <1>4. Jobs!OneRowPerRule
    <2>1. ASSUME NEW f \in RuleFiles \ doubled PROVE Cardinality(Jobs!RowsOf(f)) <= 1
      <3>1. CASE Jobs!RowsOf(f) = {}
        <4>1. Cardinality(Jobs!RowsOf(f)) = 0
          BY <3>1, FS_EmptySet, JobsLibrary
        <4> QED BY <4>1
      <3>2. CASE Jobs!RowsOf(f) # {}
        <4>1. PICK r \in Jobs!RowsOf(f) : Jobs!RowsOf(f) = {r}
          BY <1>1, <3>2 DEF JobsSoleRow
        <4>2. Cardinality({r}) = 1
          BY FS_Singleton, JobsLibrary
        <4>3. Cardinality(Jobs!RowsOf(f)) = 1
          BY <4>1, <4>2, Zenon
        <4> QED BY <4>3
      <3> QED BY <3>1, <3>2
    <2>2. ASSUME NEW f \in RuleFiles \ doubled PROVE Jobs!Cardinality(Jobs!RowsOf(f)) <= 1
      <3>1. Jobs!Cardinality(Jobs!RowsOf(f)) = Cardinality(Jobs!RowsOf(f))
        BY JobsLibrary
      <3> QED BY <2>1, <2>2, <3>1
    <2> QED BY <2>2 DEF Jobs!OneRowPerRule
  <1> QED BY <1>1, <1>2, <1>3, <1>4 DEF Jobs!AutomationSafe

\* For any entries, attempts, delays, callers and files: an attempt is lost from
\* the count only when two of them, or one and the scheduler's pass, overlapped,
\* no entry is given up or retried early otherwise, a rule file has one row
\* unless two ingests added it at once, and the row is what is on disk once an
\* undisturbed ingest has passed (policy/dlq.py, watchers/path_scoped.py).
THEOREM AutomationSafety ==
  Jobs!LimitsOK => (Jobs!Spec => []Jobs!AutomationSafe /\ [][Jobs!BudgetStep]_Jobs!autoVars)
  <1> SUFFICES ASSUME Jobs!LimitsOK PROVE Jobs!Spec => []Jobs!AutomationSafe /\ [][Jobs!BudgetStep]_Jobs!autoVars
    OBVIOUS
  <1>1. Jobs!Init => JobsIInv
    BY JobsInitHolds
  <1>2. JobsIInv /\ [Jobs!Next]_Jobs!autoVars => JobsIInv' /\ [Jobs!BudgetStep]_Jobs!autoVars
    BY JobsNextKeeps
  <1>3. JobsIInv => Jobs!AutomationSafe
    BY JobsProtects
  <1> QED BY <1>1, <1>2, <1>3, PTL DEF Jobs!Spec

-----------------------------------------------------------------------------
(* The deployed pack: any files, schemas, versions, edits and kills.       *)

\* The instance's operators on finite sets are those of the standard modules.
LEMMA DeployLibrary ==
  /\ \A S : Deploy!Cardinality(S) = Cardinality(S)
  BY DEF Deploy!Cardinality, Cardinality, Deploy!IsFiniteSet, IsFiniteSet

DeployThings  == PackFiles \cup Schemas
DeployCommand == [kind : {"idle", "setup", "update", "uninstall"},
            phase : {"none", "files", "schemas", "manifest", "block", "mcp", "orphans"},
            todo : SUBSET DeployThings, torn : SUBSET DeployThings]
DeployFile     == [body : Deploy!Bodies, stamp : 0..MaxVersion, legacy : BOOLEAN]
DeployManifest == [stamp : 0..MaxVersion, legacy : 0..MaxVersion]
DeployBlock    == [ver : 0..MaxVersion, form : {"new", "legacy", "drifted"}]
DeployKeys     == {"vesma", "mnemos"}

DeployTypes ==
  /\ version \in Deploy!Versions /\ schema \in [Schemas -> Deploy!Bodies] /\ disk \in [PackFiles -> DeployFile]
  /\ \A f \in PackFiles : disk[f].body \in {Deploy!Absent, Deploy!Torn, Deploy!Opaque} => disk[f].stamp = Deploy!Unstamped
  /\ manifest \in DeployManifest /\ block \in DeployBlock /\ mcp \in [DeployKeys -> {"none", "ours", "foreign"}]
  /\ cmd \in DeployCommand /\ settled \in {"none", "setup", "update", "uninstall"}

DeployDoing(phases)   == cmd.kind \in {"setup", "update"} /\ cmd.phase \in phases
DeployUndoing(phases) == cmd.kind = "uninstall" /\ cmd.phase \in phases

\* Which phases a command has, and what it holds in hand in each.
DeployCmdFits ==
  /\ settled # "none" => cmd.kind = "idle"
  /\ cmd.kind = "idle" <=> cmd = Deploy!Idle
  /\ cmd.phase = "none" <=> cmd = Deploy!Idle
  /\ cmd.phase = "orphans" => cmd.kind = "update" /\ cmd.todo \subseteq PackFiles \ Deploy!Pack
  /\ DeployDoing({"mcp"}) => cmd.kind = "setup"
  /\ cmd.torn = {} \/ \E x \in DeployThings : cmd.torn = {x}
  /\ cmd.torn # {} => DeployDoing({"files", "schemas"})
  /\ DeployDoing({"files"}) => cmd.todo \subseteq Deploy!Pack /\ cmd.torn \subseteq Deploy!Pack
  /\ cmd.phase = "schemas" => cmd.todo \subseteq Schemas /\ cmd.torn \subseteq Schemas
  /\ cmd.phase \in {"manifest", "block", "mcp"} => cmd.todo = {}

DeployPlaced(f)  == disk[f].body = Deploy!Opaque \/ Deploy!FileIsCurrent(f)
DeployGone(f)    == disk[f].stamp = Deploy!Unstamped
DeployVouched    == manifest.stamp = version /\ manifest.legacy = 0
DeployUnvouched  == manifest.stamp = 0 /\ manifest.legacy = 0

\* What a deployment has done by each phase.
DeployDeployFits ==
  /\ DeployDoing({"files"}) => \A f \in Deploy!Pack \ (cmd.todo \cup cmd.torn) : DeployPlaced(f)
  /\ DeployDoing({"schemas", "manifest", "block", "mcp", "orphans"}) => \A f \in Deploy!Pack : DeployPlaced(f)
  /\ DeployDoing({"schemas"}) => \A s \in Schemas \ (cmd.todo \cup cmd.torn) : schema[s] = version
  /\ DeployDoing({"manifest", "block", "mcp", "orphans"}) => \A s \in Schemas : schema[s] = version
  /\ DeployDoing({"block", "mcp", "orphans"}) => DeployVouched
  /\ DeployDoing({"mcp", "orphans"}) => block = Deploy!NewBlock
  /\ DeployDoing({"orphans"}) => \A f \in PackFiles \ (Deploy!Pack \cup cmd.todo) : DeployGone(f)
  /\ settled \in {"setup", "update"} =>
       /\ \A f \in Deploy!Pack : DeployPlaced(f)
       /\ \A s \in Schemas : schema[s] = version
       /\ DeployVouched /\ block = Deploy!NewBlock
       /\ settled = "update" => \A f \in PackFiles \ Deploy!Pack : DeployGone(f)

\* And what an uninstall has.
DeployRemoveFits ==
  /\ DeployUndoing({"files"}) => \A f \in PackFiles \ cmd.todo : DeployGone(f)
  /\ DeployUndoing({"manifest", "schemas", "block", "mcp"}) => \A f \in PackFiles : DeployGone(f)
  /\ DeployUndoing({"schemas", "block", "mcp"}) => DeployUnvouched
  /\ DeployUndoing({"schemas"}) => \A s \in Schemas \ cmd.todo : schema[s] # version
  /\ DeployUndoing({"block", "mcp"}) => \A s \in Schemas : schema[s] # version
  /\ DeployUndoing({"mcp"}) => block.ver = 0
  /\ settled = "uninstall" =>
       /\ \A f \in PackFiles : DeployGone(f)
       /\ \A s \in Schemas : schema[s] # version
       /\ DeployUnvouched /\ block.ver = 0 /\ \A k \in DeployKeys : mcp[k] # "ours"

DeployIInv == DeployTypes /\ DeployCmdFits /\ DeployDeployFits /\ DeployRemoveFits

-----------------------------------------------------------------------------
(* Facts about the numbers, the commands and the files. *)

\* The bodies contain the versions and the other contents, all different.
LEMMA DeployNumbers ==
  ASSUME Deploy!LimitsOK, NEW v \in Deploy!Versions
  PROVE  /\ v \in 0..MaxVersion /\ v \in Deploy!Bodies /\ v # 0 /\ v # Deploy!User /\ v # Deploy!Opaque /\ v # Deploy!Torn
         /\ 0 \in 0..MaxVersion /\ 0 \in Deploy!Bodies /\ Deploy!User \in Deploy!Bodies /\ Deploy!Opaque \in Deploy!Bodies /\ Deploy!Torn \in Deploy!Bodies
         /\ Deploy!User # Deploy!Opaque /\ Deploy!User # Deploy!Torn /\ Deploy!Opaque # Deploy!Torn /\ Deploy!User # 0 /\ Deploy!Opaque # 0 /\ Deploy!Torn # 0
  BY DEF Deploy!LimitsOK, Deploy!Versions, Deploy!Bodies, Deploy!User, Deploy!Opaque, Deploy!Torn

\* The idle command.
LEMMA DeployIdleFields ==
  /\ Deploy!Idle.kind = "idle" /\ Deploy!Idle.phase = "none" /\ Deploy!Idle.todo = {} /\ Deploy!Idle.torn = {}
  /\ Deploy!Idle \in DeployCommand
  BY DEF Deploy!Idle, DeployCommand

\* A command is its four parts.
LEMMA DeployCommandIs ==
  ASSUME NEW c \in DeployCommand
  PROVE  /\ c.kind \in {"idle", "setup", "update", "uninstall"}
         /\ c.phase \in {"none", "files", "schemas", "manifest", "block", "mcp", "orphans"}
         /\ c.todo \subseteq DeployThings /\ c.torn \subseteq DeployThings
  BY DEF DeployCommand

\* The pack is a set of files.
LEMMA DeployPackFits ==
  ASSUME Deploy!LimitsOK, version \in Deploy!Versions
  PROVE  Deploy!Pack \subseteq PackFiles
  BY DEF Deploy!LimitsOK, Deploy!Pack

\* A command takes the files in hand.
LEMMA DeployStartKeeps ==
  ASSUME Deploy!LimitsOK, DeployIInv,
         NEW kind \in {"setup", "update", "uninstall"}, Deploy!Start(kind)
  PROVE  DeployIInv' /\ Deploy!SparesStep
  <1>i. DeployTypes /\ DeployCmdFits /\ DeployDeployFits /\ DeployRemoveFits
    BY DEF DeployIInv
  <1>u. version' = version /\ disk' = disk /\ schema' = schema /\ manifest' = manifest /\ block' = block /\ mcp' = mcp
    BY DEF Deploy!Start, Deploy!Between
  <1>p. Deploy!Pack' = Deploy!Pack /\ Deploy!Pack \subseteq PackFiles /\ Deploy!NewBlock' = Deploy!NewBlock
    BY <1>i, <1>u, DeployPackFits DEF Deploy!Pack, Deploy!NewBlock, DeployTypes
  <1>c. cmd = Deploy!Idle /\ settled' = "none"
        /\ cmd' \in DeployCommand /\ cmd'.kind = kind /\ cmd'.phase = "files" /\ cmd'.torn = {}
        /\ cmd'.todo = IF kind = "uninstall" THEN PackFiles ELSE Deploy!Pack
    BY <1>i, <1>p, DeployCommandIs, DeployIdleFields DEF Deploy!Start, Deploy!Between, DeployTypes,
       DeployCmdFits, DeployCommand, DeployThings, DeployDoing, DeployUndoing
  <1>t. DeployTypes'
    BY <1>i, <1>u, <1>c, <1>p, DeployIdleFields DEF DeployTypes
  <1>f. DeployCmdFits'
    BY <1>i, <1>u, <1>c, <1>p, DeployIdleFields, DeployCommandIs DEF DeployTypes, DeployCmdFits,
       DeployDoing, DeployThings
  <1>d. DeployDeployFits'
    BY <1>i, <1>u, <1>c, <1>p, DeployIdleFields DEF DeployCmdFits, DeployDeployFits, DeployDoing,
       DeployPlaced, DeployGone, DeployVouched, Deploy!FileIsCurrent
  <1>r. DeployRemoveFits'
    BY <1>i, <1>u, <1>c, <1>p, DeployIdleFields DEF DeployCmdFits, DeployRemoveFits, DeployUndoing,
       DeployGone, DeployUnvouched
  <1>s. Deploy!SparesStep
    BY <1>i, <1>u DEF Deploy!SparesStep, Deploy!Start
  <1> QED BY <1>t, <1>f, <1>d, <1>r, <1>s DEF DeployIInv

\* A current or an undecodable file is left, another is truncated.
LEMMA DeployDeployFileKeeps ==
  ASSUME Deploy!LimitsOK, DeployIInv, NEW f \in PackFiles, Deploy!DeployFile(f)
  PROVE  DeployIInv' /\ Deploy!SparesStep
  <1>i. DeployTypes /\ DeployCmdFits /\ DeployDeployFits /\ DeployRemoveFits
    BY DEF DeployIInv
  <1>u. version' = version /\ schema' = schema /\ manifest' = manifest /\ block' = block /\ mcp' = mcp /\ settled' = settled
    BY DEF Deploy!DeployFile, Deploy!Deploying
  <1>p. Deploy!Pack' = Deploy!Pack /\ Deploy!Pack \subseteq PackFiles /\ Deploy!NewBlock' = Deploy!NewBlock
    BY <1>i, <1>u, DeployPackFits DEF Deploy!Pack, Deploy!NewBlock, DeployTypes
  <1>c. /\ DeployDoing({"files"}) /\ f \in cmd.todo /\ cmd.torn = {}
        /\ cmd' \in DeployCommand /\ cmd'.kind = cmd.kind /\ cmd'.phase = cmd.phase /\ cmd'.todo = cmd.todo \ {f}
    <2>1. DeployDoing({"files"}) /\ f \in cmd.todo /\ cmd.torn = {} /\ cmd \in DeployCommand /\ f \in DeployThings
      BY <1>i DEF Deploy!DeployFile, Deploy!Deploying, DeployDoing, DeployTypes, DeployThings
    <2>2. \/ cmd' = [cmd EXCEPT !.todo = @ \ {f}]
          \/ cmd' = [cmd EXCEPT !.todo = @ \ {f}, !.torn = {f}]
      BY DEF Deploy!DeployFile
    <2> QED BY <2>1, <2>2, DeployCommandIs DEF DeployCommand
  <1>a. \/ disk' = disk /\ cmd'.torn = {} /\ DeployPlaced(f)
        \/ disk' = [disk EXCEPT ![f] = [Deploy!NoFile EXCEPT !.body = Deploy!Torn]] /\ cmd'.torn = {f}
    BY <1>i DEF Deploy!DeployFile, DeployPlaced, DeployTypes, DeployCommand
  <1>n. /\ [Deploy!NoFile EXCEPT !.body = Deploy!Torn] \in DeployFile /\ [Deploy!NoFile EXCEPT !.body = Deploy!Torn].stamp = Deploy!Unstamped
    BY <1>i, DeployNumbers DEF DeployTypes, Deploy!NoFile, DeployFile, Deploy!Unstamped
  <1>t. DeployTypes'
    BY <1>i, <1>u, <1>c, <1>a, <1>n DEF DeployTypes
  <1>f. DeployCmdFits'
    BY <1>i, <1>u, <1>c, <1>a, <1>p, DeployIdleFields, DeployCommandIs DEF DeployTypes,
       DeployCmdFits, DeployDoing, DeployThings
  <1>d. DeployDeployFits'
    <2>1. ASSUME NEW g \in Deploy!Pack, g \notin cmd'.todo, g \notin cmd'.torn
          PROVE  DeployPlaced(g)'
      <3>1. CASE g = f
        BY <1>u, <1>a, <2>1, <3>1 DEF DeployPlaced, Deploy!FileIsCurrent
      <3>2. CASE g # f
        <4>1. DeployPlaced(g)
          BY <1>i, <1>c, <2>1, <3>2 DEF DeployDeployFits, DeployDoing
        <4>2. disk'[g] = disk[g]
          BY <1>i, <1>a, <1>p, <2>1, <3>2 DEF DeployTypes
        <4> QED BY <1>u, <4>1, <4>2 DEF DeployPlaced, Deploy!FileIsCurrent
      <3> QED BY <3>1, <3>2
    <2>2. settled' = "none" /\ cmd'.phase = "files"
      BY <1>i, <1>u, <1>c DEF DeployCmdFits, DeployTypes, DeployDoing
    <2> QED BY <1>p, <2>1, <2>2 DEF DeployDeployFits, DeployDoing
  <1>r. DeployRemoveFits'
    BY <1>i, <1>u, <1>c, <1>a, <1>n, <1>p DEF DeployCmdFits, DeployRemoveFits, DeployUndoing,
                                              DeployDoing, DeployGone, DeployUnvouched, DeployTypes
  <1>s. Deploy!SparesStep
    BY <1>i, <1>u, <1>c, <1>a, <1>p DEF Deploy!SparesStep, DeployCmdFits, DeployDoing, DeployTypes
  <1> QED BY <1>t, <1>f, <1>d, <1>r, <1>s DEF DeployIInv

\* The version is written whole.
LEMMA DeployWriteFileKeeps ==
  ASSUME Deploy!LimitsOK, DeployIInv, NEW f \in PackFiles, Deploy!WriteFile(f)
  PROVE  DeployIInv' /\ Deploy!SparesStep
  <1>i. DeployTypes /\ DeployCmdFits /\ DeployDeployFits /\ DeployRemoveFits
    BY DEF DeployIInv
  <1>u. version' = version /\ schema' = schema /\ manifest' = manifest /\ block' = block /\ mcp' = mcp /\ settled' = settled
    BY DEF Deploy!WriteFile, Deploy!Deploying
  <1>p. Deploy!Pack' = Deploy!Pack /\ Deploy!Pack \subseteq PackFiles /\ Deploy!NewBlock' = Deploy!NewBlock
    BY <1>i, <1>u, DeployPackFits DEF Deploy!Pack, Deploy!NewBlock, DeployTypes
  <1>c. /\ DeployDoing({"files"}) /\ f \in cmd.torn
        /\ cmd' \in DeployCommand /\ cmd'.kind = cmd.kind /\ cmd'.phase = cmd.phase
        /\ cmd'.todo = cmd.todo /\ cmd'.torn = {}
    BY <1>i, <1>p, DeployCommandIs, DeployIdleFields DEF Deploy!WriteFile, Deploy!Deploying,
       DeployTypes, DeployCmdFits, DeployCommand, DeployThings, DeployDoing, DeployUndoing
  <1>a. disk' = [disk EXCEPT ![f] = [body |-> version, stamp |-> version, legacy |-> FALSE]]
    BY DEF Deploy!WriteFile
  <1>o. cmd.torn = {f} /\ f \in Deploy!Pack
    BY <1>i, <1>c DEF DeployCmdFits
  <1>n. [body |-> version, stamp |-> version, legacy |-> FALSE] \in DeployFile
    BY <1>i, DeployNumbers DEF DeployTypes, DeployFile
  <1>t. DeployTypes'
    BY <1>i, <1>u, <1>c, <1>a, <1>n, DeployNumbers DEF DeployTypes, Deploy!Absent
  <1>f. DeployCmdFits'
    BY <1>i, <1>u, <1>c, <1>p, DeployIdleFields, DeployCommandIs DEF DeployTypes, DeployCmdFits,
       DeployDoing, DeployThings
  <1>d. DeployDeployFits'
    BY <1>i, <1>u, <1>c, <1>a, <1>o, <1>p, DeployIdleFields DEF DeployCmdFits, DeployDeployFits,
       DeployDoing, DeployPlaced, DeployGone, DeployVouched, Deploy!FileIsCurrent, DeployTypes
  <1>r. DeployRemoveFits'
    BY <1>i, <1>u, <1>c, <1>a, <1>n, <1>p DEF DeployCmdFits, DeployRemoveFits, DeployUndoing,
                                              DeployDoing, DeployGone, DeployUnvouched, DeployTypes
  <1>s. Deploy!SparesStep
    BY <1>i, <1>u, <1>c, <1>a, <1>o, <1>p DEF Deploy!SparesStep, DeployCmdFits, DeployDoing,
                                              DeployTypes
  <1> QED BY <1>t, <1>f, <1>d, <1>r, <1>s DEF DeployIInv

\* A current schema is left, another is truncated.
LEMMA DeployDeploySchemaKeeps ==
  ASSUME Deploy!LimitsOK, DeployIInv, NEW s \in Schemas, Deploy!DeploySchema(s)
  PROVE  DeployIInv' /\ Deploy!SparesStep
  <1>i. DeployTypes /\ DeployCmdFits /\ DeployDeployFits /\ DeployRemoveFits
    BY DEF DeployIInv
  <1>u. version' = version /\ disk' = disk /\ manifest' = manifest /\ block' = block /\ mcp' = mcp /\ settled' = settled
    BY DEF Deploy!DeploySchema, Deploy!Deploying
  <1>p. Deploy!Pack' = Deploy!Pack /\ Deploy!Pack \subseteq PackFiles /\ Deploy!NewBlock' = Deploy!NewBlock
    BY <1>i, <1>u, DeployPackFits DEF Deploy!Pack, Deploy!NewBlock, DeployTypes
  <1>c. /\ DeployDoing({"schemas"}) /\ s \in cmd.todo /\ cmd.torn = {}
        /\ cmd' \in DeployCommand /\ cmd'.kind = cmd.kind /\ cmd'.phase = cmd.phase /\ cmd'.todo = cmd.todo \ {s}
    <2>1. DeployDoing({"schemas"}) /\ s \in cmd.todo /\ cmd.torn = {} /\ cmd \in DeployCommand /\ s \in DeployThings
      BY <1>i DEF Deploy!DeploySchema, Deploy!Deploying, DeployDoing, DeployTypes, DeployThings
    <2>2. \/ cmd' = [cmd EXCEPT !.todo = @ \ {s}]
          \/ cmd' = [cmd EXCEPT !.todo = @ \ {s}, !.torn = {s}]
      BY DEF Deploy!DeploySchema
    <2> QED BY <2>1, <2>2, DeployCommandIs DEF DeployCommand
  <1>a. \/ schema' = schema /\ cmd'.torn = {} /\ schema[s] = version
        \/ schema' = [schema EXCEPT ![s] = Deploy!Torn] /\ cmd'.torn = {s}
    BY <1>i DEF Deploy!DeploySchema, Deploy!SchemaIsCurrent, DeployTypes, DeployCommand
  <1>t. DeployTypes'
    BY <1>i, <1>u, <1>c, <1>a, DeployNumbers DEF DeployTypes
  <1>f. DeployCmdFits'
    BY <1>i, <1>u, <1>c, <1>a, <1>p, DeployIdleFields, DeployCommandIs DEF DeployTypes,
       DeployCmdFits, DeployDoing, DeployThings
  <1>d. DeployDeployFits'
    BY <1>i, <1>u, <1>c, <1>a, <1>p, DeployIdleFields DEF DeployCmdFits, DeployDeployFits,
       DeployDoing, DeployPlaced, DeployGone, DeployVouched, Deploy!FileIsCurrent, DeployTypes
  <1>r. DeployRemoveFits'
    BY <1>i, <1>u, <1>c, <1>a, <1>p DEF DeployCmdFits, DeployRemoveFits, DeployUndoing,
                                        DeployDoing, DeployGone, DeployUnvouched, DeployTypes
  <1>s. Deploy!SparesStep
    BY <1>i, <1>u, <1>c, <1>p DEF Deploy!SparesStep, DeployCmdFits, DeployDoing, DeployTypes
  <1> QED BY <1>t, <1>f, <1>d, <1>r, <1>s DEF DeployIInv

\* The schema of the version is written whole.
LEMMA DeployWriteSchemaKeeps ==
  ASSUME Deploy!LimitsOK, DeployIInv, NEW s \in Schemas, Deploy!WriteSchema(s)
  PROVE  DeployIInv' /\ Deploy!SparesStep
  <1>i. DeployTypes /\ DeployCmdFits /\ DeployDeployFits /\ DeployRemoveFits
    BY DEF DeployIInv
  <1>u. version' = version /\ disk' = disk /\ manifest' = manifest /\ block' = block /\ mcp' = mcp /\ settled' = settled
    BY DEF Deploy!WriteSchema, Deploy!Deploying
  <1>p. Deploy!Pack' = Deploy!Pack /\ Deploy!Pack \subseteq PackFiles /\ Deploy!NewBlock' = Deploy!NewBlock
    BY <1>i, <1>u, DeployPackFits DEF Deploy!Pack, Deploy!NewBlock, DeployTypes
  <1>c. /\ DeployDoing({"schemas"}) /\ s \in cmd.torn
        /\ cmd' \in DeployCommand /\ cmd'.kind = cmd.kind /\ cmd'.phase = cmd.phase
        /\ cmd'.todo = cmd.todo /\ cmd'.torn = {}
    BY <1>i, <1>p, DeployCommandIs, DeployIdleFields DEF Deploy!WriteSchema, Deploy!Deploying,
       DeployTypes, DeployCmdFits, DeployCommand, DeployThings, DeployDoing, DeployUndoing
  <1>a. schema' = [schema EXCEPT ![s] = version]
    BY DEF Deploy!WriteSchema
  <1>o. cmd.torn = {s}
    BY <1>i, <1>c DEF DeployCmdFits
  <1>t. DeployTypes'
    BY <1>i, <1>u, <1>c, <1>a, DeployNumbers DEF DeployTypes
  <1>f. DeployCmdFits'
    BY <1>i, <1>u, <1>c, <1>p, DeployIdleFields, DeployCommandIs DEF DeployTypes, DeployCmdFits,
       DeployDoing, DeployThings
  <1>d. DeployDeployFits'
    BY <1>i, <1>u, <1>c, <1>a, <1>o, <1>p, DeployIdleFields DEF DeployCmdFits, DeployDeployFits,
       DeployDoing, DeployPlaced, DeployGone, DeployVouched, Deploy!FileIsCurrent, DeployTypes
  <1>r. DeployRemoveFits'
    BY <1>i, <1>u, <1>c, <1>a, <1>p DEF DeployCmdFits, DeployRemoveFits, DeployUndoing,
                                        DeployDoing, DeployGone, DeployUnvouched, DeployTypes
  <1>s. Deploy!SparesStep
    BY <1>i, <1>u, <1>c, <1>p DEF Deploy!SparesStep, DeployCmdFits, DeployDoing, DeployTypes
  <1> QED BY <1>t, <1>f, <1>d, <1>r, <1>s DEF DeployIInv

\* A phase whose files are done gives way to the next one.
LEMMA DeployNextPhaseKeeps ==
  ASSUME Deploy!LimitsOK, DeployIInv, Deploy!NextPhase
  PROVE  DeployIInv' /\ Deploy!SparesStep
  <1>i. DeployTypes /\ DeployCmdFits /\ DeployDeployFits /\ DeployRemoveFits
    BY DEF DeployIInv
  <1>u. version' = version /\ disk' = disk /\ schema' = schema /\ manifest' = manifest /\ block' = block /\ mcp' = mcp
    BY DEF Deploy!NextPhase, Deploy!Goto, Deploy!Finish
  <1>p. Deploy!Pack' = Deploy!Pack /\ Deploy!Pack \subseteq PackFiles /\ Deploy!NewBlock' = Deploy!NewBlock
    BY <1>i, <1>u, DeployPackFits DEF Deploy!Pack, Deploy!NewBlock, DeployTypes
  <1>b. /\ cmd \in DeployCommand /\ cmd.todo = {} /\ cmd.torn = {} /\ Deploy!Idle.kind = "idle"
        /\ cmd.phase = "orphans" => cmd.kind = "update"
        /\ cmd.kind # "idle" /\ cmd.phase \in {"files", "schemas", "orphans"} /\ settled = "none"
    BY <1>i, DeployIdleFields DEF Deploy!NextPhase, DeployTypes, DeployCmdFits
  <1>a. \/ /\ DeployDoing({"files"}) /\ settled' = "none" /\ cmd' = [cmd EXCEPT !.phase = "schemas", !.todo = Schemas]
        \/ /\ DeployUndoing({"files"}) /\ settled' = "none" /\ cmd' = [cmd EXCEPT !.phase = "manifest", !.todo = {}]
        \/ /\ DeployDoing({"schemas"}) /\ settled' = "none" /\ cmd' = [cmd EXCEPT !.phase = "manifest", !.todo = {}]
        \/ /\ DeployUndoing({"schemas"}) /\ settled' = "none" /\ cmd' = [cmd EXCEPT !.phase = "block", !.todo = {}]
        \/ /\ DeployDoing({"orphans"}) /\ cmd.kind = "update" /\ settled' = "update" /\ cmd' = Deploy!Idle
    <2>1. CASE Deploy!Deploying("files")
      BY <1>b, <2>1 DEF Deploy!NextPhase, Deploy!Deploying, Deploy!Removing, Deploy!Goto,
                        DeployDoing
    <2>2. CASE Deploy!Removing("files")
      BY <1>b, <2>2 DEF Deploy!NextPhase, Deploy!Deploying, Deploy!Removing, Deploy!Goto,
                        DeployUndoing
    <2>3. CASE Deploy!Deploying("schemas")
      BY <1>b, <2>3 DEF Deploy!NextPhase, Deploy!Deploying, Deploy!Removing, Deploy!Goto,
                        DeployDoing
    <2>4. CASE Deploy!Removing("schemas")
      BY <1>b, <2>4 DEF Deploy!NextPhase, Deploy!Deploying, Deploy!Removing, Deploy!Goto,
                        DeployUndoing
    <2>5. CASE Deploy!Deploying("orphans")
      BY <1>b, <2>5 DEF Deploy!NextPhase, Deploy!Deploying, Deploy!Removing, Deploy!Finish,
                        DeployDoing
    <2> QED BY <1>b, <2>1, <2>2, <2>3, <2>4, <2>5, DeployCommandIs DEF Deploy!Deploying,
               Deploy!Removing
  <1>e. \/ /\ DeployDoing({"files"}) /\ settled' = "none" /\ cmd'.kind = cmd.kind /\ cmd'.phase = "schemas" /\ cmd'.todo = Schemas
        \/ /\ DeployUndoing({"files"}) /\ settled' = "none" /\ cmd'.kind = cmd.kind /\ cmd'.phase = "manifest" /\ cmd'.todo = {}
        \/ /\ DeployDoing({"schemas"}) /\ settled' = "none" /\ cmd'.kind = cmd.kind /\ cmd'.phase = "manifest" /\ cmd'.todo = {}
        \/ /\ DeployUndoing({"schemas"}) /\ settled' = "none" /\ cmd'.kind = cmd.kind /\ cmd'.phase = "block" /\ cmd'.todo = {}
        \/ /\ DeployDoing({"orphans"}) /\ cmd.kind = "update" /\ settled' = "update" /\ cmd' = Deploy!Idle
    BY <1>a, <1>b DEF DeployCommand
  <1>c. cmd' \in DeployCommand /\ cmd'.todo \subseteq DeployThings /\ cmd'.torn = {}
    BY <1>a, <1>b, DeployIdleFields, DeployCommandIs DEF DeployThings, DeployCommand
  <1>t. DeployTypes'
    BY <1>i, <1>u, <1>b, <1>e, <1>c, <1>p, DeployIdleFields DEF DeployTypes
  <1>f. DeployCmdFits'
    BY <1>i, <1>u, <1>b, <1>e, <1>c, <1>p, DeployIdleFields, DeployCommandIs DEF DeployTypes,
       DeployCmdFits, DeployDoing, DeployThings
  <1>d. DeployDeployFits'
    <2>1. CASE DeployDoing({"files"}) /\ settled' = "none" /\ cmd'.kind = cmd.kind /\ cmd'.phase = "schemas" /\ cmd'.todo = Schemas
      BY <1>i, <1>u, <1>b, <1>c, <1>p, <2>1 DEF DeployDoing, DeployUndoing, DeployCmdFits,
                                                DeployDeployFits, DeployDoing, DeployPlaced,
                                                DeployGone, DeployVouched, Deploy!FileIsCurrent
    <2>2. CASE DeployUndoing({"files"}) /\ settled' = "none" /\ cmd'.kind = cmd.kind /\ cmd'.phase = "manifest" /\ cmd'.todo = {}
      BY <1>i, <1>u, <1>b, <1>c, <1>p, <2>2 DEF DeployDoing, DeployUndoing, DeployCmdFits,
                                                DeployDeployFits, DeployDoing, DeployPlaced,
                                                DeployGone, DeployVouched, Deploy!FileIsCurrent
    <2>3. CASE DeployDoing({"schemas"}) /\ settled' = "none" /\ cmd'.kind = cmd.kind /\ cmd'.phase = "manifest" /\ cmd'.todo = {}
      BY <1>i, <1>u, <1>b, <1>c, <1>p, <2>3 DEF DeployDoing, DeployUndoing, DeployCmdFits,
                                                DeployDeployFits, DeployDoing, DeployPlaced,
                                                DeployGone, DeployVouched, Deploy!FileIsCurrent
    <2>4. CASE DeployUndoing({"schemas"}) /\ settled' = "none" /\ cmd'.kind = cmd.kind /\ cmd'.phase = "block" /\ cmd'.todo = {}
      BY <1>i, <1>u, <1>b, <1>c, <1>p, <2>4 DEF DeployDoing, DeployUndoing, DeployCmdFits,
                                                DeployDeployFits, DeployDoing, DeployPlaced,
                                                DeployGone, DeployVouched, Deploy!FileIsCurrent
    <2>5. CASE DeployDoing({"orphans"}) /\ cmd.kind = "update" /\ settled' = "update" /\ cmd' = Deploy!Idle
      BY <1>i, <1>u, <1>b, <1>c, <1>p, <2>5, DeployIdleFields DEF DeployDoing, DeployUndoing,
         DeployCmdFits, DeployDeployFits, DeployDoing, DeployPlaced, DeployGone, DeployVouched,
         Deploy!FileIsCurrent
    <2> QED BY <1>e, <2>1, <2>2, <2>3, <2>4, <2>5
  <1>r. DeployRemoveFits'
    <2>1. CASE DeployDoing({"files"}) /\ settled' = "none" /\ cmd'.kind = cmd.kind /\ cmd'.phase = "schemas" /\ cmd'.todo = Schemas
      BY <1>i, <1>u, <1>b, <1>c, <1>p, <2>1 DEF DeployDoing, DeployUndoing, DeployCmdFits,
                                                DeployRemoveFits, DeployUndoing, DeployGone,
                                                DeployUnvouched
    <2>2. CASE DeployUndoing({"files"}) /\ settled' = "none" /\ cmd'.kind = cmd.kind /\ cmd'.phase = "manifest" /\ cmd'.todo = {}
      BY <1>i, <1>u, <1>b, <1>c, <1>p, <2>2 DEF DeployDoing, DeployUndoing, DeployCmdFits,
                                                DeployRemoveFits, DeployUndoing, DeployGone,
                                                DeployUnvouched
    <2>3. CASE DeployDoing({"schemas"}) /\ settled' = "none" /\ cmd'.kind = cmd.kind /\ cmd'.phase = "manifest" /\ cmd'.todo = {}
      BY <1>i, <1>u, <1>b, <1>c, <1>p, <2>3 DEF DeployDoing, DeployUndoing, DeployCmdFits,
                                                DeployRemoveFits, DeployUndoing, DeployGone,
                                                DeployUnvouched
    <2>4. CASE DeployUndoing({"schemas"}) /\ settled' = "none" /\ cmd'.kind = cmd.kind /\ cmd'.phase = "block" /\ cmd'.todo = {}
      BY <1>i, <1>u, <1>b, <1>c, <1>p, <2>4 DEF DeployDoing, DeployUndoing, DeployCmdFits,
                                                DeployRemoveFits, DeployUndoing, DeployGone,
                                                DeployUnvouched
    <2>5. CASE DeployDoing({"orphans"}) /\ cmd.kind = "update" /\ settled' = "update" /\ cmd' = Deploy!Idle
      BY <1>i, <1>u, <1>b, <1>c, <1>p, <2>5, DeployIdleFields DEF DeployDoing, DeployUndoing,
         DeployCmdFits, DeployRemoveFits, DeployUndoing, DeployGone, DeployUnvouched
    <2> QED BY <1>e, <2>1, <2>2, <2>3, <2>4, <2>5
  <1>s. Deploy!SparesStep
    BY <1>i, <1>u DEF Deploy!SparesStep
  <1> QED BY <1>t, <1>f, <1>d, <1>r, <1>s DEF DeployIInv

\* The manifest of this version takes the place of what is there.
LEMMA DeployWriteManifestKeeps ==
  ASSUME Deploy!LimitsOK, DeployIInv, Deploy!WriteManifest
  PROVE  DeployIInv' /\ Deploy!SparesStep
  <1>i. DeployTypes /\ DeployCmdFits /\ DeployDeployFits /\ DeployRemoveFits
    BY DEF DeployIInv
  <1>u. version' = version /\ disk' = disk /\ schema' = schema /\ block' = block /\ mcp' = mcp /\ settled' = settled
    BY DEF Deploy!WriteManifest, Deploy!Deploying
  <1>p. Deploy!Pack' = Deploy!Pack /\ Deploy!Pack \subseteq PackFiles /\ Deploy!NewBlock' = Deploy!NewBlock
    BY <1>i, <1>u, DeployPackFits DEF Deploy!Pack, Deploy!NewBlock, DeployTypes
  <1>c. /\ DeployDoing({"manifest"}) /\ cmd' \in DeployCommand /\ cmd'.kind = cmd.kind /\ cmd'.todo = cmd.todo /\ cmd'.torn = cmd.torn
        /\ \/ cmd'.phase = "manifest"
           \/ cmd'.phase = "block" /\ DeployVouched'
    <2>1. DeployDoing({"manifest"}) /\ cmd \in DeployCommand /\ cmd.todo = {} /\ version \in 1..MaxVersion /\ manifest \in DeployManifest /\ version' = version
      BY <1>i, <1>u DEF Deploy!WriteManifest, Deploy!Deploying, DeployDoing, DeployTypes,
                        DeployCmdFits, Deploy!Versions
    <2>2. \/ cmd' = cmd
          \/ cmd' = [cmd EXCEPT !.phase = "block", !.todo = {}] /\ DeployVouched'
      BY <2>1 DEF Deploy!WriteManifest, Deploy!Goto, Deploy!ManifestStamp, DeployVouched,
                  DeployManifest, Deploy!LimitsOK
    <2> QED BY <2>1, <2>2, DeployCommandIs DEF DeployCommand, DeployDoing
  <1>m. manifest' \in DeployManifest
    BY <1>i, DeployNumbers DEF Deploy!WriteManifest, DeployTypes, DeployManifest
  <1>t. DeployTypes'
    BY <1>i, <1>u, <1>c, <1>m DEF DeployTypes
  <1>f. DeployCmdFits'
    BY <1>i, <1>u, <1>c, <1>p, DeployIdleFields, DeployCommandIs DEF DeployTypes, DeployCmdFits,
       DeployDoing, DeployThings
  <1>d. DeployDeployFits'
    BY <1>i, <1>u, <1>c, <1>p, DeployIdleFields DEF DeployCmdFits, DeployDeployFits, DeployDoing,
       DeployPlaced, DeployGone, Deploy!FileIsCurrent
  <1>r. DeployRemoveFits'
    BY <1>i, <1>u, <1>c, <1>p DEF DeployDoing, DeployCmdFits, DeployRemoveFits, DeployUndoing,
                                  DeployGone, DeployUnvouched
  <1>s. Deploy!SparesStep
    BY <1>i, <1>u DEF Deploy!SparesStep
  <1> QED BY <1>t, <1>f, <1>d, <1>r, <1>s DEF DeployIInv

\* The block is rendered anew.
LEMMA DeployDeployBlockKeeps ==
  ASSUME Deploy!LimitsOK, DeployIInv, Deploy!DeployBlock
  PROVE  DeployIInv' /\ Deploy!SparesStep
  <1>i. DeployTypes /\ DeployCmdFits /\ DeployDeployFits /\ DeployRemoveFits
    BY DEF DeployIInv
  <1>u. version' = version /\ disk' = disk /\ schema' = schema /\ manifest' = manifest /\ mcp' = mcp /\ settled' = settled
    BY DEF Deploy!DeployBlock, Deploy!Deploying, Deploy!Goto
  <1>p. Deploy!Pack' = Deploy!Pack /\ Deploy!Pack \subseteq PackFiles /\ Deploy!NewBlock' = Deploy!NewBlock
    BY <1>i, <1>u, DeployPackFits DEF Deploy!Pack, Deploy!NewBlock, DeployTypes
  <1>c. /\ DeployDoing({"block"}) /\ cmd' \in DeployCommand /\ cmd'.kind = cmd.kind /\ cmd'.torn = {} /\ cmd.torn = {}
        /\ cmd'.phase = (IF cmd.kind = "setup" THEN "mcp" ELSE "orphans")
        /\ cmd'.todo = (IF cmd.kind = "setup" THEN {} ELSE PackFiles \ Deploy!Pack)
        /\ block' = Deploy!NewBlock
    <2>1. DeployDoing({"block"}) /\ cmd \in DeployCommand /\ cmd.torn = {} /\ block' = Deploy!NewBlock
      BY <1>i DEF Deploy!DeployBlock, Deploy!Deploying, DeployDoing, DeployTypes, DeployCmdFits
    <2>2. CASE cmd.kind = "setup"
      <3>1. cmd' = [cmd EXCEPT !.phase = "mcp", !.todo = {}]
        BY <2>2 DEF Deploy!DeployBlock, Deploy!Goto
      <3> QED BY <2>1, <2>2, <3>1 DEF DeployCommand
    <2>3. CASE cmd.kind # "setup"
      <3>1. cmd' = [cmd EXCEPT !.phase = "orphans", !.todo = PackFiles \ Deploy!Pack]
        BY <2>3 DEF Deploy!DeployBlock, Deploy!Goto
      <3> QED BY <2>1, <2>3, <3>1 DEF DeployCommand, DeployThings
    <2> QED BY <2>2, <2>3
  <1>m. Deploy!NewBlock \in DeployBlock
    BY <1>i, DeployNumbers DEF DeployTypes, DeployBlock, Deploy!NewBlock
  <1>t. DeployTypes'
    BY <1>i, <1>u, <1>c, <1>m DEF DeployTypes
  <1>f. DeployCmdFits'
    BY <1>i, <1>u, <1>c, <1>p, DeployIdleFields, DeployCommandIs DEF DeployTypes, DeployCmdFits,
       DeployDoing, DeployThings
  <1>d. DeployDeployFits'
    BY <1>i, <1>u, <1>c, <1>p, DeployIdleFields DEF DeployCmdFits, DeployDeployFits, DeployDoing,
       DeployPlaced, DeployGone, DeployVouched, Deploy!FileIsCurrent
  <1>r. DeployRemoveFits'
    BY <1>i, <1>u, <1>c, <1>p DEF DeployDoing, DeployCmdFits, DeployRemoveFits, DeployUndoing,
                                  DeployGone, DeployUnvouched
  <1>s. Deploy!SparesStep
    BY <1>i, <1>u DEF Deploy!SparesStep
  <1> QED BY <1>t, <1>f, <1>d, <1>r, <1>s DEF DeployIInv

\* The server entry is ours: the setup is done.
LEMMA DeployRegisterMcpKeeps ==
  ASSUME Deploy!LimitsOK, DeployIInv, Deploy!RegisterMcp
  PROVE  DeployIInv' /\ Deploy!SparesStep
  <1>i. DeployTypes /\ DeployCmdFits /\ DeployDeployFits /\ DeployRemoveFits
    BY DEF DeployIInv
  <1>u. version' = version /\ disk' = disk /\ schema' = schema /\ manifest' = manifest /\ block' = block
    BY DEF Deploy!RegisterMcp, Deploy!Deploying, Deploy!Finish
  <1>p. Deploy!Pack' = Deploy!Pack /\ Deploy!Pack \subseteq PackFiles /\ Deploy!NewBlock' = Deploy!NewBlock
    BY <1>i, <1>u, DeployPackFits DEF Deploy!Pack, Deploy!NewBlock, DeployTypes
  <1>c. /\ DeployDoing({"mcp"}) /\ cmd.kind = "setup" /\ cmd' = Deploy!Idle /\ settled' = "setup"
    BY <1>i, <1>p, DeployCommandIs, DeployIdleFields DEF Deploy!RegisterMcp, Deploy!Deploying,
       Deploy!Finish, DeployTypes, DeployCmdFits, DeployCommand, DeployThings, DeployDoing,
       DeployUndoing
  <1>m. mcp' \in [DeployKeys -> {"none", "ours", "foreign"}]
    BY <1>i DEF Deploy!RegisterMcp, Deploy!register_mcp, DeployTypes, DeployKeys
  <1>t. DeployTypes'
    BY <1>i, <1>u, <1>c, <1>m, DeployIdleFields DEF DeployTypes
  <1>f. DeployCmdFits'
    BY <1>i, <1>u, <1>c, <1>p, DeployIdleFields, DeployCommandIs DEF DeployTypes, DeployCmdFits,
       DeployDoing, DeployThings
  <1>d. DeployDeployFits'
    BY <1>i, <1>u, <1>c, <1>p, DeployIdleFields DEF DeployCmdFits, DeployDeployFits, DeployDoing,
       DeployPlaced, DeployGone, DeployVouched, Deploy!FileIsCurrent
  <1>r. DeployRemoveFits'
    BY <1>i, <1>u, <1>c, <1>p, DeployIdleFields DEF DeployCmdFits, DeployRemoveFits, DeployUndoing,
       DeployGone, DeployUnvouched
  <1>s. Deploy!SparesStep
    BY <1>i, <1>u DEF Deploy!SparesStep
  <1> QED BY <1>t, <1>f, <1>d, <1>r, <1>s DEF DeployIInv

\* A stamped file the pack does not ship is removed.
LEMMA DeployRemoveOrphanKeeps ==
  ASSUME Deploy!LimitsOK, DeployIInv, NEW f \in PackFiles, Deploy!RemoveOrphan(f)
  PROVE  DeployIInv' /\ Deploy!SparesStep
  <1>i. DeployTypes /\ DeployCmdFits /\ DeployDeployFits /\ DeployRemoveFits
    BY DEF DeployIInv
  <1>u. version' = version /\ schema' = schema /\ manifest' = manifest /\ block' = block /\ mcp' = mcp /\ settled' = settled
    BY DEF Deploy!RemoveOrphan
  <1>p. Deploy!Pack' = Deploy!Pack /\ Deploy!Pack \subseteq PackFiles /\ Deploy!NewBlock' = Deploy!NewBlock
    BY <1>i, <1>u, DeployPackFits DEF Deploy!Pack, Deploy!NewBlock, DeployTypes
  <1>c. /\ DeployDoing({"orphans"}) /\ f \in cmd.todo
        /\ cmd' \in DeployCommand /\ cmd'.kind = cmd.kind /\ cmd'.phase = cmd.phase
        /\ cmd'.todo = cmd.todo \ {f} /\ cmd'.torn = cmd.torn
    <2>1. DeployDoing({"orphans"}) /\ f \in cmd.todo /\ cmd \in DeployCommand
      BY <1>i DEF Deploy!RemoveOrphan, Deploy!Deploying, Deploy!Removing, DeployDoing,
                  DeployUndoing, DeployTypes
    <2>2. cmd' = [cmd EXCEPT !.todo = @ \ {f}]
      BY DEF Deploy!RemoveOrphan
    <2> QED BY <2>1, <2>2, DeployCommandIs DEF DeployCommand
  <1>a. disk' = IF disk[f].stamp # Deploy!Unstamped THEN [disk EXCEPT ![f] = Deploy!NoFile] ELSE disk
    BY DEF Deploy!RemoveOrphan, Deploy!IsOrphan
  <1>n. Deploy!NoFile \in DeployFile /\ Deploy!NoFile.stamp = Deploy!Unstamped
    BY <1>i, DeployNumbers DEF DeployTypes, Deploy!NoFile, DeployFile, Deploy!Unstamped,
                               Deploy!Absent
  <1>g. /\ disk'[f].stamp = Deploy!Unstamped /\ \A g \in PackFiles : g # f => disk'[g] = disk[g]
        /\ \A g \in PackFiles : disk[g].stamp = Deploy!Unstamped => disk'[g] = disk[g]
    BY <1>i, <1>a, <1>n DEF DeployTypes
  <1>t. DeployTypes'
    BY <1>i, <1>u, <1>c, <1>a, <1>n DEF DeployTypes
  <1>f. DeployCmdFits'
    BY <1>i, <1>u, <1>c, <1>p, DeployIdleFields, DeployCommandIs DEF DeployTypes, DeployCmdFits,
       DeployDoing, DeployThings
  <1>d. DeployDeployFits'
    BY <1>i, <1>u, <1>c, <1>g, <1>p DEF DeployCmdFits, DeployDeployFits, DeployDoing, DeployPlaced,
                                        DeployGone, DeployVouched, Deploy!FileIsCurrent,
                                        DeployUndoing
  <1>r. DeployRemoveFits'
    BY <1>i, <1>u, <1>c, <1>g, <1>p DEF DeployCmdFits, DeployRemoveFits, DeployUndoing, DeployGone,
                                        DeployUnvouched, DeployDoing
  <1>s. Deploy!SparesStep
    BY <1>i, <1>u, <1>g DEF Deploy!SparesStep
  <1> QED BY <1>t, <1>f, <1>d, <1>r, <1>s DEF DeployIInv

\* A stamped file is removed.
LEMMA DeployUninstallFileKeeps ==
  ASSUME Deploy!LimitsOK, DeployIInv, NEW f \in PackFiles, Deploy!UninstallFile(f)
  PROVE  DeployIInv' /\ Deploy!SparesStep
  <1>i. DeployTypes /\ DeployCmdFits /\ DeployDeployFits /\ DeployRemoveFits
    BY DEF DeployIInv
  <1>u. version' = version /\ schema' = schema /\ manifest' = manifest /\ block' = block /\ mcp' = mcp /\ settled' = settled
    BY DEF Deploy!UninstallFile
  <1>p. Deploy!Pack' = Deploy!Pack /\ Deploy!Pack \subseteq PackFiles /\ Deploy!NewBlock' = Deploy!NewBlock
    BY <1>i, <1>u, DeployPackFits DEF Deploy!Pack, Deploy!NewBlock, DeployTypes
  <1>c. /\ DeployUndoing({"files"}) /\ f \in cmd.todo
        /\ cmd' \in DeployCommand /\ cmd'.kind = cmd.kind /\ cmd'.phase = cmd.phase
        /\ cmd'.todo = cmd.todo \ {f} /\ cmd'.torn = cmd.torn
    <2>1. DeployUndoing({"files"}) /\ f \in cmd.todo /\ cmd \in DeployCommand
      BY <1>i DEF Deploy!UninstallFile, Deploy!Deploying, Deploy!Removing, DeployDoing,
                  DeployUndoing, DeployTypes
    <2>2. cmd' = [cmd EXCEPT !.todo = @ \ {f}]
      BY DEF Deploy!UninstallFile
    <2> QED BY <2>1, <2>2, DeployCommandIs DEF DeployCommand
  <1>a. disk' = IF disk[f].stamp # Deploy!Unstamped THEN [disk EXCEPT ![f] = Deploy!NoFile] ELSE disk
    BY DEF Deploy!UninstallFile, Deploy!IsOrphan
  <1>n. Deploy!NoFile \in DeployFile /\ Deploy!NoFile.stamp = Deploy!Unstamped
    BY <1>i, DeployNumbers DEF DeployTypes, Deploy!NoFile, DeployFile, Deploy!Unstamped,
                               Deploy!Absent
  <1>g. /\ disk'[f].stamp = Deploy!Unstamped /\ \A g \in PackFiles : g # f => disk'[g] = disk[g]
        /\ \A g \in PackFiles : disk[g].stamp = Deploy!Unstamped => disk'[g] = disk[g]
    BY <1>i, <1>a, <1>n DEF DeployTypes
  <1>t. DeployTypes'
    BY <1>i, <1>u, <1>c, <1>a, <1>n DEF DeployTypes
  <1>f. DeployCmdFits'
    BY <1>i, <1>u, <1>c, <1>p, DeployIdleFields, DeployCommandIs DEF DeployTypes, DeployCmdFits,
       DeployDoing, DeployThings
  <1>d. DeployDeployFits'
    BY <1>i, <1>u, <1>c, <1>g, <1>p DEF DeployCmdFits, DeployDeployFits, DeployDoing, DeployPlaced,
                                        DeployGone, DeployVouched, Deploy!FileIsCurrent,
                                        DeployUndoing
  <1>r. DeployRemoveFits'
    BY <1>i, <1>u, <1>c, <1>g, <1>p DEF DeployCmdFits, DeployRemoveFits, DeployUndoing, DeployGone,
                                        DeployUnvouched, DeployDoing
  <1>s. Deploy!SparesStep
    BY <1>i, <1>u, <1>g DEF Deploy!SparesStep
  <1> QED BY <1>t, <1>f, <1>d, <1>r, <1>s DEF DeployIInv

\* Both manifests go, the current one first.
LEMMA DeployUninstallManifestKeeps ==
  ASSUME Deploy!LimitsOK, DeployIInv, Deploy!UninstallManifest
  PROVE  DeployIInv' /\ Deploy!SparesStep
  <1>i. DeployTypes /\ DeployCmdFits /\ DeployDeployFits /\ DeployRemoveFits
    BY DEF DeployIInv
  <1>u. version' = version /\ disk' = disk /\ schema' = schema /\ block' = block /\ mcp' = mcp /\ settled' = settled
    BY DEF Deploy!UninstallManifest, Deploy!Removing
  <1>p. Deploy!Pack' = Deploy!Pack /\ Deploy!Pack \subseteq PackFiles /\ Deploy!NewBlock' = Deploy!NewBlock
    BY <1>i, <1>u, DeployPackFits DEF Deploy!Pack, Deploy!NewBlock, DeployTypes
  <1>c. /\ DeployUndoing({"manifest"}) /\ cmd' \in DeployCommand /\ cmd'.kind = cmd.kind /\ cmd'.torn = cmd.torn
        /\ \/ cmd'.phase = "manifest" /\ cmd'.todo = cmd.todo
           \/ cmd'.phase = "schemas" /\ cmd'.todo = Schemas /\ DeployUnvouched'
    <2>1. DeployUndoing({"manifest"}) /\ cmd \in DeployCommand /\ manifest \in DeployManifest
      BY <1>i DEF Deploy!UninstallManifest, Deploy!Removing, DeployUndoing, DeployTypes
    <2>2. \/ cmd' = cmd
          \/ cmd' = [cmd EXCEPT !.phase = "schemas", !.todo = Schemas] /\ DeployUnvouched'
      BY <2>1 DEF Deploy!UninstallManifest, Deploy!Goto, DeployUnvouched, DeployManifest
    <2> QED BY <2>1, <2>2, DeployCommandIs DEF DeployCommand, DeployUndoing, DeployThings
  <1>m. manifest' \in DeployManifest
    BY <1>i, DeployNumbers DEF Deploy!UninstallManifest, DeployTypes, DeployManifest
  <1>t. DeployTypes'
    BY <1>i, <1>u, <1>c, <1>m DEF DeployTypes
  <1>f. DeployCmdFits'
    <2>1. cmd.torn = {} /\ cmd.todo = {} /\ settled = "none" /\ cmd.kind = "uninstall"
      BY <1>i, <1>c DEF DeployCmdFits, DeployDoing, DeployUndoing
    <2> QED BY <1>i, <1>u, <1>c, <1>p, <2>1, DeployIdleFields DEF DeployCmdFits, DeployDoing,
               DeployUndoing
  <1>d. DeployDeployFits'
    BY <1>i, <1>u, <1>c, <1>p, DeployIdleFields DEF DeployUndoing, DeployCmdFits, DeployDeployFits,
       DeployDoing, DeployPlaced, DeployGone, DeployVouched, Deploy!FileIsCurrent
  <1>r. DeployRemoveFits'
    BY <1>i, <1>u, <1>c, <1>p DEF DeployCmdFits, DeployRemoveFits, DeployUndoing, DeployGone
  <1>s. Deploy!SparesStep
    BY <1>i, <1>u DEF Deploy!SparesStep
  <1> QED BY <1>t, <1>f, <1>d, <1>r, <1>s DEF DeployIInv

\* A schema of the current pack is removed.
LEMMA DeployUninstallSchemaKeeps ==
  ASSUME Deploy!LimitsOK, DeployIInv, NEW s \in Schemas, Deploy!UninstallSchema(s)
  PROVE  DeployIInv' /\ Deploy!SparesStep
  <1>i. DeployTypes /\ DeployCmdFits /\ DeployDeployFits /\ DeployRemoveFits
    BY DEF DeployIInv
  <1>u. version' = version /\ disk' = disk /\ manifest' = manifest /\ block' = block /\ mcp' = mcp /\ settled' = settled
    BY DEF Deploy!UninstallSchema
  <1>p. Deploy!Pack' = Deploy!Pack /\ Deploy!Pack \subseteq PackFiles /\ Deploy!NewBlock' = Deploy!NewBlock
    BY <1>i, <1>u, DeployPackFits DEF Deploy!Pack, Deploy!NewBlock, DeployTypes
  <1>c. /\ DeployUndoing({"schemas"}) /\ s \in cmd.todo
        /\ cmd' \in DeployCommand /\ cmd'.kind = cmd.kind /\ cmd'.phase = cmd.phase
        /\ cmd'.todo = cmd.todo \ {s} /\ cmd'.torn = cmd.torn
    <2>1. DeployUndoing({"schemas"}) /\ s \in cmd.todo /\ cmd \in DeployCommand
      BY <1>i DEF Deploy!UninstallSchema, Deploy!Deploying, Deploy!Removing, DeployDoing,
                  DeployUndoing, DeployTypes
    <2>2. cmd' = [cmd EXCEPT !.todo = @ \ {s}]
      BY DEF Deploy!UninstallSchema
    <2> QED BY <2>1, <2>2, DeployCommandIs DEF DeployCommand
  <1>a. schema' = IF schema[s] = version THEN [schema EXCEPT ![s] = Deploy!Absent] ELSE schema
    BY DEF Deploy!UninstallSchema, Deploy!SchemaIsOurs
  <1>n. version # 0 /\ version # Deploy!User /\ 0 \in Deploy!Bodies
    BY <1>i, DeployNumbers DEF DeployTypes
  <1>g. /\ schema'[s] # version /\ \A t \in Schemas : t # s => schema'[t] = schema[t]
        /\ \A t \in Schemas : schema[t] = Deploy!User => schema'[t] = schema[t]
        /\ schema' \in [Schemas -> Deploy!Bodies]
    BY <1>i, <1>a, <1>n DEF DeployTypes, Deploy!Absent
  <1>t. DeployTypes'
    BY <1>i, <1>u, <1>c, <1>g DEF DeployTypes
  <1>f. DeployCmdFits'
    BY <1>i, <1>u, <1>c, <1>p, DeployIdleFields, DeployCommandIs DEF DeployTypes, DeployCmdFits,
       DeployDoing, DeployThings
  <1>d. DeployDeployFits'
    BY <1>i, <1>u, <1>c, <1>p DEF DeployCmdFits, DeployDeployFits, DeployDoing, DeployPlaced,
                                  DeployGone, DeployVouched, Deploy!FileIsCurrent, DeployUndoing
  <1>r. DeployRemoveFits'
    BY <1>i, <1>u, <1>c, <1>g, <1>p DEF DeployCmdFits, DeployRemoveFits, DeployUndoing, DeployGone,
                                        DeployUnvouched
  <1>s. Deploy!SparesStep
    BY <1>i, <1>u, <1>g DEF Deploy!SparesStep
  <1> QED BY <1>t, <1>f, <1>d, <1>r, <1>s DEF DeployIInv

\* The block is stripped.
LEMMA DeployUninstallBlockKeeps ==
  ASSUME Deploy!LimitsOK, DeployIInv, Deploy!UninstallBlock
  PROVE  DeployIInv' /\ Deploy!SparesStep
  <1>i. DeployTypes /\ DeployCmdFits /\ DeployDeployFits /\ DeployRemoveFits
    BY DEF DeployIInv
  <1>u. version' = version /\ disk' = disk /\ schema' = schema /\ manifest' = manifest /\ mcp' = mcp /\ settled' = settled
    BY DEF Deploy!UninstallBlock, Deploy!Removing
  <1>p. Deploy!Pack' = Deploy!Pack /\ Deploy!Pack \subseteq PackFiles /\ Deploy!NewBlock' = Deploy!NewBlock
    BY <1>i, <1>u, DeployPackFits DEF Deploy!Pack, Deploy!NewBlock, DeployTypes
  <1>c. /\ DeployUndoing({"block"}) /\ cmd' \in DeployCommand /\ cmd'.kind = cmd.kind /\ cmd'.torn = cmd.torn
        /\ cmd'.phase = "mcp" /\ cmd'.todo = {} /\ block' = Deploy!NoBlock
    <2>1. DeployUndoing({"block"}) /\ cmd \in DeployCommand /\ block' = Deploy!NoBlock
      BY <1>i DEF Deploy!UninstallBlock, Deploy!Removing, DeployUndoing, DeployTypes
    <2>2. cmd' = [cmd EXCEPT !.phase = "mcp", !.todo = {}]
      BY DEF Deploy!UninstallBlock, Deploy!Goto
    <2> QED BY <2>1, <2>2, DeployCommandIs DEF DeployCommand, DeployUndoing
  <1>m. Deploy!NoBlock \in DeployBlock /\ Deploy!NoBlock.ver = 0
    BY <1>i, DeployNumbers DEF DeployTypes, DeployBlock, Deploy!NoBlock
  <1>t. DeployTypes'
    BY <1>i, <1>u, <1>c, <1>m DEF DeployTypes
  <1>f. DeployCmdFits'
    BY <1>i, <1>u, <1>c, <1>p, DeployIdleFields, DeployCommandIs DEF DeployTypes, DeployCmdFits,
       DeployDoing, DeployUndoing, DeployThings
  <1>d. DeployDeployFits'
    BY <1>i, <1>u, <1>c, <1>p, DeployIdleFields DEF DeployUndoing, DeployCmdFits, DeployDeployFits,
       DeployDoing, DeployPlaced, DeployGone, DeployVouched, Deploy!FileIsCurrent
  <1>r. DeployRemoveFits'
    BY <1>i, <1>u, <1>c, <1>m, <1>p DEF DeployCmdFits, DeployRemoveFits, DeployUndoing, DeployGone,
                                        DeployUnvouched
  <1>s. Deploy!SparesStep
    BY <1>i, <1>u DEF Deploy!SparesStep
  <1> QED BY <1>t, <1>f, <1>d, <1>r, <1>s DEF DeployIInv

\* An entry of ours goes: the removal is done.
LEMMA DeployUnregisterMcpKeeps ==
  ASSUME Deploy!LimitsOK, DeployIInv, Deploy!UnregisterMcp
  PROVE  DeployIInv' /\ Deploy!SparesStep
  <1>i. DeployTypes /\ DeployCmdFits /\ DeployDeployFits /\ DeployRemoveFits
    BY DEF DeployIInv
  <1>u. version' = version /\ disk' = disk /\ schema' = schema /\ manifest' = manifest /\ block' = block
    BY DEF Deploy!UnregisterMcp, Deploy!Removing, Deploy!Finish
  <1>p. Deploy!Pack' = Deploy!Pack /\ Deploy!Pack \subseteq PackFiles /\ Deploy!NewBlock' = Deploy!NewBlock
    BY <1>i, <1>u, DeployPackFits DEF Deploy!Pack, Deploy!NewBlock, DeployTypes
  <1>c. /\ DeployUndoing({"mcp"}) /\ cmd' = Deploy!Idle /\ settled' = "uninstall"
    <2>1. DeployUndoing({"mcp"}) /\ cmd' = Deploy!Idle
      BY DEF Deploy!UnregisterMcp, Deploy!Removing, DeployUndoing, Deploy!Finish
    <2> QED BY <2>1 DEF Deploy!UnregisterMcp, Deploy!Removing, Deploy!Finish
  <1>m. mcp' \in [DeployKeys -> {"none", "ours", "foreign"}] /\ \A k \in DeployKeys : mcp'[k] # "ours"
    BY <1>i DEF Deploy!UnregisterMcp, Deploy!unregister_mcp, DeployTypes, DeployKeys
  <1>t. DeployTypes'
    BY <1>i, <1>u, <1>c, <1>m, DeployIdleFields DEF DeployTypes
  <1>f. DeployCmdFits'
    BY <1>i, <1>u, <1>c, <1>p, DeployIdleFields, DeployCommandIs DEF DeployTypes, DeployCmdFits,
       DeployDoing, DeployThings
  <1>d. DeployDeployFits'
    BY <1>i, <1>u, <1>c, <1>p, DeployIdleFields DEF DeployUndoing, DeployCmdFits, DeployDeployFits,
       DeployDoing, DeployPlaced, DeployGone, DeployVouched, Deploy!FileIsCurrent
  <1>r. DeployRemoveFits'
    BY <1>i, <1>u, <1>c, <1>m, <1>p, DeployIdleFields DEF DeployCmdFits, DeployRemoveFits,
       DeployUndoing, DeployGone, DeployUnvouched
  <1>s. Deploy!SparesStep
    BY <1>i, <1>u DEF Deploy!SparesStep
  <1> QED BY <1>t, <1>f, <1>d, <1>r, <1>s DEF DeployIInv

\* The command is killed.
LEMMA DeployCrashKeeps ==
  ASSUME Deploy!LimitsOK, DeployIInv, Deploy!Crash
  PROVE  DeployIInv' /\ Deploy!SparesStep
  <1>i. DeployTypes /\ DeployCmdFits /\ DeployDeployFits /\ DeployRemoveFits
    BY DEF DeployIInv
  <1>u. version' = version /\ disk' = disk /\ schema' = schema /\ manifest' = manifest /\ block' = block /\ mcp' = mcp /\ settled' = settled
    BY DEF Deploy!Crash, Deploy!Idle
  <1>p. Deploy!Pack' = Deploy!Pack /\ Deploy!Pack \subseteq PackFiles /\ Deploy!NewBlock' = Deploy!NewBlock
    BY <1>i, <1>u, DeployPackFits DEF Deploy!Pack, Deploy!NewBlock, DeployTypes
  <1>c. /\ cmd # Deploy!Idle /\ cmd' = Deploy!Idle
    BY DEF Deploy!Crash
  <1>t. DeployTypes'
    BY <1>i, <1>u, <1>c, DeployIdleFields DEF DeployTypes
  <1>f. DeployCmdFits'
    BY <1>i, <1>u, <1>c, <1>p, DeployIdleFields, DeployCommandIs DEF DeployTypes, DeployCmdFits,
       DeployDoing, DeployThings
  <1>d. DeployDeployFits'
    BY <1>i, <1>u, <1>c, <1>p, DeployIdleFields DEF DeployCmdFits, DeployDeployFits, DeployDoing,
       DeployPlaced, DeployGone, DeployVouched, Deploy!FileIsCurrent
  <1>r. DeployRemoveFits'
    BY <1>i, <1>u, <1>c, <1>p, DeployIdleFields DEF DeployCmdFits, DeployRemoveFits, DeployUndoing,
       DeployGone, DeployUnvouched
  <1>s. Deploy!SparesStep
    BY <1>i, <1>u DEF Deploy!SparesStep
  <1> QED BY <1>t, <1>f, <1>d, <1>r, <1>s DEF DeployIInv

\* The user changes a file.
LEMMA DeployEditFileKeeps ==
  ASSUME Deploy!LimitsOK, DeployIInv, NEW f \in PackFiles, Deploy!EditFile(f)
  PROVE  DeployIInv' /\ Deploy!SparesStep
  <1>i. DeployTypes /\ DeployCmdFits /\ DeployDeployFits /\ DeployRemoveFits
    BY DEF DeployIInv
  <1>u. version' = version /\ schema' = schema /\ manifest' = manifest /\ block' = block /\ mcp' = mcp
    BY DEF Deploy!EditFile, Deploy!Between
  <1>p. Deploy!Pack' = Deploy!Pack /\ Deploy!Pack \subseteq PackFiles /\ Deploy!NewBlock' = Deploy!NewBlock
    BY <1>i, <1>u, DeployPackFits DEF Deploy!Pack, Deploy!NewBlock, DeployTypes
  <1>c. cmd = Deploy!Idle /\ cmd' = cmd /\ settled' = "none"
    BY DEF Deploy!EditFile, Deploy!Between
  <1>m. PICK new \in {[Deploy!NoFile EXCEPT !.body = Deploy!User], [Deploy!NoFile EXCEPT !.body = Deploy!Opaque], Deploy!NoFile}
                \cup {d \in {[disk[f] EXCEPT !.body = Deploy!User]} : d.stamp # Deploy!Unstamped} : disk' = [disk EXCEPT ![f] = new]
    BY DEF Deploy!EditFile
  <1>n. new \in DeployFile /\ (new.body \in {Deploy!Absent, Deploy!Torn, Deploy!Opaque} => new.stamp = Deploy!Unstamped)
    <2>1. CASE new \in {[Deploy!NoFile EXCEPT !.body = Deploy!User], [Deploy!NoFile EXCEPT !.body = Deploy!Opaque], Deploy!NoFile}
      <3>1. PICK b \in {Deploy!User, Deploy!Opaque, Deploy!Absent} : new = [body |-> b, stamp |-> Deploy!Unstamped, legacy |-> FALSE]
        BY <2>1 DEF Deploy!NoFile
      <3>2. b \in Deploy!Bodies /\ 0 \in 0..MaxVersion
        BY <1>i, <3>1, DeployNumbers DEF DeployTypes, Deploy!Absent
      <3> QED BY <3>1, <3>2 DEF DeployFile, Deploy!Unstamped
    <2>2. CASE new = [disk[f] EXCEPT !.body = Deploy!User]
      <3>1. disk[f] \in DeployFile
        BY <1>i DEF DeployTypes
      <3> QED BY <1>i, <2>2, <3>1, DeployNumbers DEF DeployTypes, DeployFile, Deploy!Absent
    <2> QED BY <1>m, <2>1, <2>2
  <1>t. DeployTypes'
    BY <1>i, <1>u, <1>c, <1>m, <1>n DEF DeployTypes
  <1>f. DeployCmdFits'
    BY <1>i, <1>u, <1>c, DeployIdleFields DEF DeployCmdFits, DeployDoing
  <1>d. DeployDeployFits'
    BY <1>c, DeployIdleFields DEF DeployDeployFits, DeployDoing
  <1>r. DeployRemoveFits'
    BY <1>c, DeployIdleFields DEF DeployRemoveFits, DeployUndoing
  <1>s. Deploy!SparesStep
    BY <1>c DEF Deploy!SparesStep
  <1> QED BY <1>t, <1>f, <1>d, <1>r, <1>s DEF DeployIInv

\* The user changes a schema.
LEMMA DeployEditSchemaKeeps ==
  ASSUME Deploy!LimitsOK, DeployIInv, NEW s \in Schemas, Deploy!EditSchema(s)
  PROVE  DeployIInv' /\ Deploy!SparesStep
  <1>i. DeployTypes /\ DeployCmdFits /\ DeployDeployFits /\ DeployRemoveFits
    BY DEF DeployIInv
  <1>u. version' = version /\ disk' = disk /\ manifest' = manifest /\ block' = block /\ mcp' = mcp
    BY DEF Deploy!EditSchema, Deploy!Between
  <1>p. Deploy!Pack' = Deploy!Pack /\ Deploy!Pack \subseteq PackFiles /\ Deploy!NewBlock' = Deploy!NewBlock
    BY <1>i, <1>u, DeployPackFits DEF Deploy!Pack, Deploy!NewBlock, DeployTypes
  <1>c. cmd = Deploy!Idle /\ cmd' = cmd /\ settled' = "none"
    BY DEF Deploy!EditSchema, Deploy!Between
  <1>m. schema' \in [Schemas -> Deploy!Bodies]
    BY <1>i, DeployNumbers DEF Deploy!EditSchema, DeployTypes, Deploy!Absent
  <1>t. DeployTypes'
    BY <1>i, <1>u, <1>c, <1>m DEF DeployTypes
  <1>f. DeployCmdFits'
    BY <1>i, <1>u, <1>c, DeployIdleFields DEF DeployCmdFits, DeployDoing
  <1>d. DeployDeployFits'
    BY <1>c, DeployIdleFields DEF DeployDeployFits, DeployDoing
  <1>r. DeployRemoveFits'
    BY <1>c, DeployIdleFields DEF DeployRemoveFits, DeployUndoing
  <1>s. Deploy!SparesStep
    BY <1>c DEF Deploy!SparesStep
  <1> QED BY <1>t, <1>f, <1>d, <1>r, <1>s DEF DeployIInv

\* The user changes the block.
LEMMA DeployEditBlockKeeps ==
  ASSUME Deploy!LimitsOK, DeployIInv, Deploy!EditBlock
  PROVE  DeployIInv' /\ Deploy!SparesStep
  <1>i. DeployTypes /\ DeployCmdFits /\ DeployDeployFits /\ DeployRemoveFits
    BY DEF DeployIInv
  <1>u. version' = version /\ disk' = disk /\ schema' = schema /\ manifest' = manifest /\ mcp' = mcp
    BY DEF Deploy!EditBlock, Deploy!Between
  <1>p. Deploy!Pack' = Deploy!Pack /\ Deploy!Pack \subseteq PackFiles /\ Deploy!NewBlock' = Deploy!NewBlock
    BY <1>i, <1>u, DeployPackFits DEF Deploy!Pack, Deploy!NewBlock, DeployTypes
  <1>c. cmd = Deploy!Idle /\ cmd' = cmd /\ settled' = "none"
    BY DEF Deploy!EditBlock, Deploy!Between
  <1>m. block' \in DeployBlock
    BY <1>i, DeployNumbers DEF Deploy!EditBlock, DeployTypes, DeployBlock, Deploy!NoBlock
  <1>t. DeployTypes'
    BY <1>i, <1>u, <1>c, <1>m DEF DeployTypes
  <1>f. DeployCmdFits'
    BY <1>i, <1>u, <1>c, DeployIdleFields DEF DeployCmdFits, DeployDoing
  <1>d. DeployDeployFits'
    BY <1>c, DeployIdleFields DEF DeployDeployFits, DeployDoing
  <1>r. DeployRemoveFits'
    BY <1>c, DeployIdleFields DEF DeployRemoveFits, DeployUndoing
  <1>s. Deploy!SparesStep
    BY <1>c DEF Deploy!SparesStep
  <1> QED BY <1>t, <1>f, <1>d, <1>r, <1>s DEF DeployIInv

\* The user changes a server entry.
LEMMA DeployEditMcpKeeps ==
  ASSUME Deploy!LimitsOK, DeployIInv, NEW k \in DeployKeys, Deploy!EditMcp(k)
  PROVE  DeployIInv' /\ Deploy!SparesStep
  <1>i. DeployTypes /\ DeployCmdFits /\ DeployDeployFits /\ DeployRemoveFits
    BY DEF DeployIInv
  <1>u. version' = version /\ disk' = disk /\ schema' = schema /\ manifest' = manifest /\ block' = block
    BY DEF Deploy!EditMcp, Deploy!Between
  <1>p. Deploy!Pack' = Deploy!Pack /\ Deploy!Pack \subseteq PackFiles /\ Deploy!NewBlock' = Deploy!NewBlock
    BY <1>i, <1>u, DeployPackFits DEF Deploy!Pack, Deploy!NewBlock, DeployTypes
  <1>c. cmd = Deploy!Idle /\ cmd' = cmd /\ settled' = "none"
    BY DEF Deploy!EditMcp, Deploy!Between
  <1>m. mcp' \in [DeployKeys -> {"none", "ours", "foreign"}]
    BY <1>i DEF Deploy!EditMcp, DeployTypes, DeployKeys
  <1>t. DeployTypes'
    BY <1>i, <1>u, <1>c, <1>m DEF DeployTypes
  <1>f. DeployCmdFits'
    BY <1>i, <1>u, <1>c, DeployIdleFields DEF DeployCmdFits, DeployDoing
  <1>d. DeployDeployFits'
    BY <1>c, DeployIdleFields DEF DeployDeployFits, DeployDoing
  <1>r. DeployRemoveFits'
    BY <1>c, DeployIdleFields DEF DeployRemoveFits, DeployUndoing
  <1>s. Deploy!SparesStep
    BY <1>c DEF Deploy!SparesStep
  <1> QED BY <1>t, <1>f, <1>d, <1>r, <1>s DEF DeployIInv

\* The package is upgraded.
LEMMA DeployUpgradeKeeps ==
  ASSUME Deploy!LimitsOK, DeployIInv, Deploy!Upgrade
  PROVE  DeployIInv' /\ Deploy!SparesStep
  <1>i. DeployTypes /\ DeployCmdFits /\ DeployDeployFits /\ DeployRemoveFits
    BY DEF DeployIInv
  <1>u. disk' = disk /\ schema' = schema /\ manifest' = manifest /\ block' = block /\ mcp' = mcp
    BY DEF Deploy!Upgrade, Deploy!Between
  <1>c. cmd = Deploy!Idle /\ cmd' = cmd /\ settled' = "none"
    BY DEF Deploy!Upgrade, Deploy!Between
  <1>m. version' \in Deploy!Versions
    BY <1>i DEF Deploy!Upgrade, DeployTypes, Deploy!Versions, Deploy!LimitsOK
  <1>t. DeployTypes'
    BY <1>i, <1>u, <1>c, <1>m DEF DeployTypes
  <1>f. DeployCmdFits'
    BY <1>i, <1>u, <1>c, DeployIdleFields DEF DeployCmdFits, DeployDoing
  <1>d. DeployDeployFits'
    BY <1>c, DeployIdleFields DEF DeployDeployFits, DeployDoing
  <1>r. DeployRemoveFits'
    BY <1>c, DeployIdleFields DEF DeployRemoveFits, DeployUndoing
  <1>s. Deploy!SparesStep
    BY <1>c DEF Deploy!SparesStep
  <1> QED BY <1>t, <1>f, <1>d, <1>r, <1>s DEF DeployIInv

-----------------------------------------------------------------------------
(* The theorem. *)

\* A harness as the program finds it satisfies the invariant.
LEMMA DeployInitHolds ==
  ASSUME Deploy!LimitsOK, Deploy!Init
  PROVE  DeployIInv
  <1>1. version = 1 /\ version \in Deploy!Versions /\ cmd = Deploy!Idle /\ settled = "none"
    BY DEF Deploy!Init, Deploy!Versions, Deploy!LimitsOK
  <1>2. DeployTypes
    <2>1. 0 \in 0..MaxVersion /\ 1 \in 0..MaxVersion /\ 0 \in Deploy!Bodies /\ 1 \in Deploy!Bodies /\ 1 # Deploy!Torn /\ 1 # Deploy!Opaque
      BY <1>1, DeployNumbers
    <2>2. Deploy!NoFile \in DeployFile /\ Deploy!NoFile.stamp = Deploy!Unstamped /\ Deploy!NoBlock \in DeployBlock
      BY <2>1 DEF Deploy!NoFile, Deploy!NoBlock, DeployFile, DeployBlock, Deploy!Absent,
                  Deploy!Unstamped
    <2>3. [body |-> 1, stamp |-> 1, legacy |-> TRUE] \in DeployFile
      BY <2>1 DEF DeployFile
    <2>4. disk \in [PackFiles -> DeployFile] /\ \A f \in PackFiles : disk[f].body \in {Deploy!Absent, Deploy!Torn, Deploy!Opaque} => disk[f].stamp = Deploy!Unstamped
      <3>1. CASE disk = [f \in PackFiles |-> Deploy!NoFile]
        BY <2>2, <3>1
      <3>2. CASE disk = [f \in PackFiles |-> [body |-> 1, stamp |-> 1, legacy |-> TRUE]]
        BY <2>1, <2>3, <3>2 DEF Deploy!Absent
      <3> QED BY <3>1, <3>2 DEF Deploy!Init
    <2>5. schema \in [Schemas -> Deploy!Bodies] /\ manifest \in DeployManifest /\ block \in DeployBlock
      BY <2>1, <2>2 DEF Deploy!Init, Deploy!Absent, DeployManifest, DeployBlock
    <2>6. mcp \in [DeployKeys -> {"none", "ours", "foreign"}]
      BY DEF Deploy!Init, DeployKeys
    <2> QED BY <1>1, <2>4, <2>5, <2>6, DeployIdleFields DEF DeployTypes
  <1>3. DeployCmdFits
    BY <1>1, DeployIdleFields DEF DeployCmdFits, DeployDoing
  <1>4. DeployDeployFits /\ DeployRemoveFits
    BY <1>1, DeployIdleFields DEF DeployDeployFits, DeployRemoveFits, DeployDoing, DeployUndoing
  <1> QED BY <1>2, <1>3, <1>4 DEF DeployIInv

\* Every step keeps the invariant and spares what is the user's.
LEMMA DeployStepHolds ==
  ASSUME Deploy!LimitsOK, DeployIInv, [Deploy!Next]_Deploy!ivars
  PROVE  DeployIInv' /\ [Deploy!SparesStep]_Deploy!ivars
  <1>1. CASE UNCHANGED Deploy!ivars
    <2>1. DeployTypes'
      BY <1>1 DEF DeployIInv, Deploy!ivars, DeployTypes
    <2>2. DeployCmdFits'
      BY <1>1 DEF DeployIInv, Deploy!ivars, DeployCmdFits, DeployDoing, Deploy!Pack
    <2>3. DeployDeployFits'
      BY <1>1 DEF DeployIInv, Deploy!ivars, DeployDeployFits, DeployDoing, Deploy!Pack,
                  DeployPlaced, DeployGone, DeployVouched, Deploy!FileIsCurrent, Deploy!NewBlock
    <2>4. DeployRemoveFits'
      BY <1>1 DEF DeployIInv, Deploy!ivars, DeployRemoveFits, DeployUndoing, DeployGone,
                  DeployUnvouched
    <2> QED BY <1>1, <2>1, <2>2, <2>3, <2>4 DEF DeployIInv
  <1>2. CASE Deploy!Next
    <2>1. CASE \E kind \in {"setup", "update", "uninstall"} : Deploy!Start(kind)
      BY <2>1, DeployStartKeeps
    <2>2. CASE \E f \in PackFiles : Deploy!DeployFile(f) \/ Deploy!WriteFile(f) \/ Deploy!RemoveOrphan(f) \/ Deploy!UninstallFile(f) \/ Deploy!EditFile(f)
      BY <2>2, DeployDeployFileKeeps, DeployWriteFileKeeps, DeployRemoveOrphanKeeps,
         DeployUninstallFileKeeps, DeployEditFileKeeps
    <2>3. CASE \E s \in Schemas : Deploy!DeploySchema(s) \/ Deploy!WriteSchema(s) \/ Deploy!UninstallSchema(s) \/ Deploy!EditSchema(s)
      BY <2>3, DeployDeploySchemaKeeps, DeployWriteSchemaKeeps, DeployUninstallSchemaKeeps,
         DeployEditSchemaKeeps
    <2>4. CASE Deploy!NextPhase \/ Deploy!WriteManifest \/ Deploy!DeployBlock \/ Deploy!RegisterMcp
      BY <2>4, DeployNextPhaseKeeps, DeployWriteManifestKeeps, DeployDeployBlockKeeps,
         DeployRegisterMcpKeeps
    <2>5. CASE Deploy!UninstallManifest \/ Deploy!UninstallBlock \/ Deploy!UnregisterMcp
      BY <2>5, DeployUninstallManifestKeeps, DeployUninstallBlockKeeps, DeployUnregisterMcpKeeps
    <2>6. CASE \E k \in {"vesma", "mnemos"} : Deploy!EditMcp(k)
      BY <2>6, DeployEditMcpKeeps DEF DeployKeys
    <2>7. CASE Deploy!Crash \/ Deploy!EditBlock \/ Deploy!Upgrade
      BY <2>7, DeployCrashKeeps, DeployEditBlockKeeps, DeployUpgradeKeeps
    <2> QED BY <1>2, <2>1, <2>2, <2>3, <2>4, <2>5, <2>6, <2>7 DEF Deploy!Next
  <1> QED BY <1>1, <1>2

\* What is left of an undisturbed deployment is what verify calls current.
LEMMA DeployCurrentHolds ==
  ASSUME Deploy!LimitsOK, DeployIInv
  PROVE  Deploy!SettledIsCurrent
  <1>1. SUFFICES ASSUME settled \in {"setup", "update"}
                 PROVE  /\ \A f \in Deploy!Pack : disk[f].body # Deploy!Opaque => Deploy!verify_file(f) = "CURRENT" /\ disk[f].body = version
                        /\ \A s \in Schemas : Deploy!verify_schema(s) = "CURRENT"
                        /\ Deploy!verify_manifest = "CURRENT" /\ Deploy!verify_block = "CURRENT"
                        /\ settled = "update" => Deploy!OrphanFiles = {}
    BY DEF Deploy!SettledIsCurrent
  <1>2. /\ \A f \in Deploy!Pack : DeployPlaced(f)
        /\ \A s \in Schemas : schema[s] = version
        /\ DeployVouched /\ block = Deploy!NewBlock
        /\ settled = "update" => \A f \in PackFiles \ Deploy!Pack : DeployGone(f)
    BY <1>1 DEF DeployIInv, DeployDeployFits
  <1>3. version # 0 /\ Deploy!ManifestStamp = version
    BY <1>2, DeployNumbers DEF DeployIInv, DeployTypes, Deploy!ManifestStamp, DeployVouched
  <1>4. ASSUME NEW f \in Deploy!Pack, disk[f].body # Deploy!Opaque
        PROVE  Deploy!verify_file(f) = "CURRENT" /\ disk[f].body = version
    <2>1. disk[f] = [body |-> version, stamp |-> version, legacy |-> FALSE]
      BY <1>2, <1>4 DEF DeployPlaced, Deploy!FileIsCurrent
    <2>2. disk[f].body = version /\ disk[f].stamp = version /\ disk[f].legacy = FALSE
      BY <2>1
    <2> QED BY <1>3, <2>2 DEF Deploy!verify_file, Deploy!Absent, Deploy!Unstamped
  <1>5. ASSUME NEW s \in Schemas PROVE Deploy!verify_schema(s) = "CURRENT"
    BY <1>2, <1>3, <1>5 DEF Deploy!verify_schema, Deploy!Absent
  <1>6. Deploy!verify_manifest = "CURRENT"
    BY <1>2, <1>3 DEF Deploy!verify_manifest, DeployVouched
  <1>7. block.ver = version /\ block.form = "new"
    BY <1>2 DEF Deploy!NewBlock
  <1>8. Deploy!verify_block = "CURRENT"
    BY <1>3, <1>7 DEF Deploy!verify_block
  <1>9. settled = "update" => Deploy!OrphanFiles = {}
    BY <1>2 DEF Deploy!OrphanFiles, DeployGone
  <1> QED BY <1>4, <1>5, <1>6, <1>8, <1>9

\* And of an undisturbed removal nothing is left.
LEMMA DeployGoneHolds ==
  ASSUME Deploy!LimitsOK, DeployIInv
  PROVE  Deploy!SettledIsGone
  <1>1. SUFFICES ASSUME settled = "uninstall"
                 PROVE  /\ \A f \in PackFiles : disk[f].stamp = Deploy!Unstamped
                        /\ \A s \in Schemas : Deploy!verify_schema(s) # "CURRENT" /\ schema[s] # version
                        /\ Deploy!ManifestStamp = 0 /\ block.ver = 0 /\ \A k \in {"vesma", "mnemos"} : mcp[k] # "ours"
    BY DEF Deploy!SettledIsGone
  <1>2. /\ \A f \in PackFiles : DeployGone(f)
        /\ \A s \in Schemas : schema[s] # version
        /\ DeployUnvouched /\ block.ver = 0 /\ \A k \in DeployKeys : mcp[k] # "ours"
    BY <1>1 DEF DeployIInv, DeployRemoveFits
  <1>3. Deploy!ManifestStamp = 0
    BY <1>2 DEF Deploy!ManifestStamp, DeployUnvouched
  <1>4. ASSUME NEW s \in Schemas PROVE Deploy!verify_schema(s) # "CURRENT"
    BY <1>2, <1>4 DEF Deploy!verify_schema
  <1> QED BY <1>2, <1>3, <1>4 DEF DeployGone, DeployKeys

\* At most one file is being written.
LEMMA DeployTypesHold ==
  ASSUME Deploy!LimitsOK, DeployIInv
  PROVE  Deploy!TypeOK
  <1>1. Cardinality(cmd.torn) <= 1
    <2>1. CASE cmd.torn = {}
      BY <2>1, FS_EmptySet, DeployLibrary
    <2>2. CASE \E x \in DeployThings : cmd.torn = {x}
      BY <2>2, FS_Singleton, DeployLibrary
    <2> QED BY <2>1, <2>2 DEF DeployIInv, DeployCmdFits
  <1>2. DeployTypes /\ cmd \in DeployCommand
    BY DEF DeployIInv, DeployTypes
  <1> QED BY <1>1, <1>2, DeployCommandIs, DeployLibrary DEF Deploy!TypeOK, DeployTypes, DeployFile,
             DeployManifest, DeployBlock, DeployKeys

\* For any packs, versions, schemas, edits and kills: one undisturbed setup or update
\* leaves what verify calls current, an undisturbed uninstall leaves nothing of ours,
\* and no command touches what is the user's alone (SettledIsCurrent, SettledIsGone,
\* SparesStep).
THEOREM IntegrationSafety ==
  Deploy!LimitsOK => (Deploy!Spec => []Deploy!IntegrationSafe /\ [][Deploy!SparesStep]_Deploy!ivars)
  <1> SUFFICES ASSUME Deploy!LimitsOK
           PROVE  Deploy!Spec => []Deploy!IntegrationSafe /\ [][Deploy!SparesStep]_Deploy!ivars
    OBVIOUS
  <1>1. Deploy!Init => DeployIInv
    BY DeployInitHolds
  <1>2. DeployIInv /\ [Deploy!Next]_Deploy!ivars => DeployIInv'
    BY DeployStepHolds
  <1>3. DeployIInv /\ [Deploy!Next]_Deploy!ivars => [Deploy!SparesStep]_Deploy!ivars
    BY DeployStepHolds
  <1>4. DeployIInv => Deploy!IntegrationSafe
    BY DeployCurrentHolds, DeployGoneHolds, DeployTypesHold DEF Deploy!IntegrationSafe
  <1> QED BY <1>1, <1>2, <1>3, <1>4, PTL DEF Deploy!Spec

-----------------------------------------------------------------------------
(* The composition: a behaviour of MCSpec is one of every component.       *)

\* A step of the composition is a step of each component, or leaves it alone.
LEMMA SuiteSteps ==
  ASSUME [MCNext]_suite
  PROVE  /\ [Deploy!Next]_(Deploy!ivars) /\ [Update!Next]_(Update!uvars) /\ [Next]_xvars
         /\ [Jobs!Next]_(Jobs!autoVars)
  <1>1. \/ UNCHANGED suite
        \/ MCNext
    OBVIOUS
  <1>2. (UNCHANGED harness) \/ Deploy!Next
    BY <1>1 DEF suite, MCNext
  <1>3. (UNCHANGED <<checks, applies, timer>>) \/ Update!Next
    BY <1>1 DEF suite, MCNext, Update!Next, Update!CheckNext, applies, checks, timer
  <1>4. (UNCHANGED xvars) \/ Next
    BY <1>1 DEF suite, MCNext
  <1>5. (UNCHANGED jobs) \/ Jobs!Next
    BY <1>1 DEF suite, MCNext, Jobs!Next
  <1>6. /\ UNCHANGED harness => UNCHANGED Deploy!ivars
        /\ UNCHANGED <<checks, applies, timer>> => UNCHANGED Update!uvars
        /\ UNCHANGED jobs => UNCHANGED Jobs!autoVars
    BY DEF harness, checks, applies, timer, jobs, Deploy!ivars, Update!uvars, Update!cvars,
       Update!pvars, Update!tvars, Jobs!autoVars, Jobs!queue, Jobs!ruled
  <1> QED BY <1>2, <1>3, <1>4, <1>5, <1>6

\* A behaviour of the composition is one of every tool.
LEMMA SuiteBehaviours ==
  MCSpec => Deploy!Spec /\ Update!Spec /\ Spec /\ Jobs!Spec
  <1>1. MCInit => Deploy!Init /\ Update!Init /\ Init /\ Jobs!Init
    BY DEF MCInit
  <1>2. [MCNext]_suite => /\ [Deploy!Next]_(Deploy!ivars) /\ [Update!Next]_(Update!uvars) /\ [Next]_xvars
                          /\ [Jobs!Next]_(Jobs!autoVars)
    BY SuiteSteps
  <1> QED BY <1>1, <1>2, PTL DEF MCSpec, Deploy!Spec, Update!Spec, Spec, Jobs!Spec

\* What the integration commands promise holds in the composition.
THEOREM ToolsIntegration == MCSpec => []IntegrationSafe
  <1>1. Deploy!Spec => []Deploy!IntegrationSafe
    BY IntegrationSafety, ToolsAssumption, PTL
  <1>2. Deploy!IntegrationSafe => IntegrationSafe
    BY DEF IntegrationSafe
  <1> QED BY <1>1, <1>2, SuiteBehaviours, PTL

\* What the update commands promise holds in the composition.
THEOREM ToolsUpdates == MCSpec => []UpdatesSafe
  <1>1. Update!Spec => []Update!UpdatesSafe
    BY UpdateSafety, ToolsAssumption, PTL
  <1>2. Update!UpdatesSafe => UpdatesSafe
    BY DEF UpdatesSafe
  <1> QED BY <1>1, <1>2, SuiteBehaviours, PTL

\* What the queue and the rule files promise holds in the composition.
THEOREM ToolsAutomation == MCSpec => []AutomationSafe
  <1>1. Jobs!Spec => []Jobs!AutomationSafe
    BY AutomationSafety, ToolsAssumption, PTL
  <1>2. Jobs!AutomationSafe => AutomationSafe
    BY DEF AutomationSafe
  <1> QED BY <1>1, <1>2, SuiteBehaviours, PTL

\* No step of the composition touches what is the user's, pays twice for a dead
\* network, unschedules another box or gives up an entry early.
THEOREM ToolsStepsHold == MCSpec => ToolsSteps
  <1>1. Deploy!Spec => [][Deploy!SparesStep]_(Deploy!ivars)
    BY IntegrationSafety, ToolsAssumption, PTL
  <1>2. Update!Spec => [][Update!PaysStep /\ Update!SparesStep]_(Update!uvars)
    BY UpdateSafety, ToolsAssumption, PTL
  <1>3. Jobs!Spec => [][Jobs!BudgetStep]_(Jobs!autoVars)
    BY AutomationSafety, ToolsAssumption, PTL
  <1>4. UNCHANGED Deploy!ivars => Deploy!SparesStep
    BY DEF Deploy!ivars, Deploy!SparesStep
  <1>5. UNCHANGED Update!uvars => Update!PaysStep /\ Update!SparesStep
    BY DEF Update!uvars, Update!cvars, Update!tvars, Update!PaysStep, Update!SparesStep
  <1>6. UNCHANGED Jobs!autoVars => Jobs!BudgetStep
    <2>1. Jobs!NoRetry.id \notin Entries
      BY ToolsAssumption DEF Jobs!LimitsOK, Jobs!NoRetry
    <2> QED BY <2>1 DEF Jobs!autoVars, Jobs!queue, Jobs!BudgetStep
  <1>7. /\ [Deploy!SparesStep]_(Deploy!ivars) /\ [Update!PaysStep /\ Update!SparesStep]_(Update!uvars)
        /\ [Jobs!BudgetStep]_(Jobs!autoVars)
        => [/\ which = "deploy" => Deploy!SparesStep
            /\ which = "check" => Update!PaysStep
            /\ which = "timer" => Update!SparesStep
            /\ which = "dlq" => Jobs!BudgetStep]_suite
    BY <1>4, <1>5, <1>6
  <1> QED BY <1>1, <1>2, <1>3, <1>7, SuiteBehaviours, PTL DEF ToolsSteps
=============================================================================
