----------------------------- MODULE Migrations -----------------------------
(***************************************************************************)
(* Opening the store (sqlite_store.py, _get_conn and _run_migrations).     *)
(* Every process runs the schema script and the migrations on its first    *)
(* connection; nothing but SQLite's own transactions keeps two processes   *)
(* apart.  A process that is through writes rows of the new shape while    *)
(* another one may still be migrating.                                     *)
(***************************************************************************)
EXTENDS Naturals, Sequences, FiniteSets, SequencesExt

CONSTANTS
  Procs,
  Columns,    \* the columns an old memories table lacks
  Legacy,     \* rows written before the backfilled columns existed
  Hashes,     \* content hashes in the compressed-context cache
  Projects,
  Edges,      \* memory pairs that may be linked
  MaxWrites,  \* writes by processes that are through
  MaxCrashes

\* What the theorems assume of the bounds.
LimitsOK == MaxWrites \in Nat /\ MaxCrashes \in Nat

VARIABLES
  cols,       \* added columns
  flags,      \* backfills marked as done in the meta table
  unfilled,   \* backfill -> legacy rows it has not classified
  edgeShape, edges,    \* memory_edges: pair -> "none", "declared" or "minted"
  ccrShape, ccr,       \* ccr_cache in rowid order: <<project, hash>>
  triggers, fts,       \* the cache's FTS triggers and index
  proc,       \* process -> the step it is at and the columns it still adds
  overtaken,  \* tables rebuilt by a process whose look at the shape was old
  cut,        \* a crash fell between the rebuild of ccr_cache and its reindex
  failed,     \* processes whose connection attempt failed
  writes, crashes

mvars == <<cols, flags, unfilled, edgeShape, edges, ccrShape, ccr, triggers, fts, proc,
           overtaken, cut, failed, writes, crashes>>

Backfills == {"c10", "m3", "b1"}

\* The step after each one, when it does not branch.
After == [schema |-> "columns", columns |-> "alter", alter |-> "c10", c10 |-> "a1", a1 |-> "m3",
          a1_rebuild |-> "a1_schema", a1_schema |-> "a1_fts", a1_fts |-> "m3", m3 |-> "b1",
          b1 |-> "a0", a0 |-> "up", a0_rebuild |-> "up"]
FillStep == [c10 |-> "c10_fill", m3 |-> "m3_fill", b1 |-> "b1_fill"]
RebuildStep == [a1 |-> "a1_rebuild", a0 |-> "a0_rebuild"]

Off == [pc |-> "off", todo |-> {}]
At(p, pc) == proc' = [proc EXCEPT ![p].pc = pc]

Init ==
  /\ cols = {} /\ flags = {} /\ unfilled = [b \in Backfills |-> Legacy]
  /\ edgeShape = "old" /\ edges \in [Edges -> {"none", "declared"}]
  /\ ccrShape = "hash" /\ ccr \in {<<>>} \cup {<<<<q, h>>>> : q \in Projects, h \in Hashes}
  /\ triggers = TRUE /\ fts = ToSet(ccr)
  /\ proc = [p \in Procs |-> Off]
  /\ overtaken = {} /\ cut = FALSE /\ failed = {} /\ writes = 0 /\ crashes = 0

tables == <<edgeShape, edges, ccrShape, ccr>>
index == <<triggers, fts>>
ghosts == <<overtaken, cut, failed, writes, crashes>>

----------------------------------------------------------------------------

\* _get_conn: the connection is kept only when the whole bootstrap went
\* through, so the next call after a failure starts again.
Connect(p) ==
  /\ proc[p].pc = "off" /\ At(p, "schema") /\ failed' = failed \ {p}
  /\ UNCHANGED <<cols, flags, unfilled, tables, index, overtaken, cut, writes, crashes>>

\* executescript(_DB_SCHEMA): everything IF NOT EXISTS, so what comes back
\* on an old store is the triggers a rebuild dropped.
Schema(p) ==
  /\ proc[p].pc \in {"schema", "a1_schema"} /\ At(p, After[proc[p].pc])
  /\ triggers' = TRUE
  /\ UNCHANGED <<cols, flags, unfilled, tables, fts, ghosts>>

\* PRAGMA table_info once, then one ALTER per missing column.
LookColumns(p) ==
  /\ proc[p].pc = "columns"
  /\ proc' = [proc EXCEPT ![p] = [pc |-> "alter", todo |-> Columns \ cols]]
  /\ UNCHANGED <<cols, flags, unfilled, tables, index, ghosts>>

\* A column somebody else added meanwhile raises, and the connection with it.
AddColumn(p) ==
  /\ proc[p].pc = "alter" /\ proc[p].todo # {}
  /\ \E c \in proc[p].todo :
       IF c \in cols
       THEN /\ proc' = [proc EXCEPT ![p] = Off] /\ failed' = failed \cup {p} /\ UNCHANGED cols
       ELSE /\ cols' = cols \cup {c} /\ UNCHANGED failed
            /\ proc' = [proc EXCEPT ![p].todo = @ \ {c}]
  /\ UNCHANGED <<flags, unfilled, tables, index, overtaken, cut, writes, crashes>>

ColumnsDone(p) ==
  /\ proc[p].pc = "alter" /\ proc[p].todo = {} /\ At(p, "c10")
  /\ UNCHANGED <<cols, flags, unfilled, tables, index, ghosts>>

LookFlag(p, b) ==
  /\ proc[p].pc = b
  /\ At(p, IF b \in flags THEN After[b] ELSE FillStep[b])
  /\ UNCHANGED <<cols, flags, unfilled, tables, index, ghosts>>

\* Mutant: the flag is committed before the rows are.
Backfill_flagFirst(p, b) ==
  /\ proc[p].pc = FillStep[b]
  /\ \/ b \notin flags /\ flags' = flags \cup {b} /\ UNCHANGED <<unfilled, proc>>
     \/ b \in flags /\ unfilled' = [unfilled EXCEPT ![b] = {}] /\ At(p, After[b]) /\ UNCHANGED flags
  /\ UNCHANGED <<cols, tables, index, ghosts>>

\* The rows and the flag in one commit.
Backfill(p, b) ==
  /\ proc[p].pc = FillStep[b] /\ At(p, After[b])
  /\ flags' = flags \cup {b} /\ unfilled' = [unfilled EXCEPT ![b] = {}]
  /\ UNCHANGED <<cols, tables, index, ghosts>>

MigrateC10(p) == LookFlag(p, "c10") \/ Backfill(p, "c10")  \* rewrite_source and its session
MigrateM3(p)  == LookFlag(p, "m3") \/ Backfill(p, "m3")    \* rewrite_event_key
MigrateB1(p)  == LookFlag(p, "b1") \/ Backfill(p, "b1")    \* pipeline_state

\* The shape of ccr_cache and of memory_edges is read outside the transaction
\* that rebuilds the table.
LookShape(p, step) ==
  /\ proc[p].pc = step
  /\ At(p, IF (step = "a1" /\ ccrShape = "hash") \/ (step = "a0" /\ edgeShape = "old")
           THEN RebuildStep[step] ELSE After[step])
  /\ UNCHANGED <<cols, flags, unfilled, tables, index, ghosts>>

\* First writer wins: one row per hash, the earliest.
FirstPerHash(s) ==
  LET keep == {n \in 1..Len(s) : \A m \in 1..(n - 1) : s[m][2] # s[n][2]}
  IN [k \in 1..Cardinality(keep) |-> s[CHOOSE n \in keep : Cardinality({m \in keep : m <= n}) = k]]

\* _migrate_a1_ccr_composite_pk: create, copy, drop and rename in one
\* transaction; the triggers go with the dropped table.
RebuildCcr(p) ==
  /\ proc[p].pc = "a1_rebuild" /\ At(p, "a1_schema")
  /\ ccr' = FirstPerHash(ccr) /\ ccrShape' = "composite" /\ triggers' = FALSE
  /\ overtaken' = overtaken \cup (IF ccrShape = "composite" THEN {"ccr"} ELSE {})
  /\ UNCHANGED <<cols, flags, unfilled, edgeShape, edges, fts, cut, failed, writes, crashes>>

\* INSERT INTO ccr_cache_fts VALUES('rebuild').
Reindex(p) ==
  /\ proc[p].pc = "a1_fts" /\ At(p, "m3") /\ fts' = ToSet(ccr)
  /\ UNCHANGED <<cols, flags, unfilled, tables, triggers, ghosts>>

\* Every edge is copied with the column defaults.
CopiedEdges(es) == [e \in Edges |-> IF es[e] = "none" THEN "none" ELSE "declared"]

\* _migrate_a0_edges_kinds.
RebuildEdges(p) ==
  /\ proc[p].pc = "a0_rebuild" /\ At(p, "up")
  /\ edges' = CopiedEdges(edges) /\ edgeShape' = "new"
  /\ overtaken' = overtaken \cup (IF edgeShape = "new" THEN {"edges"} ELSE {})
  /\ UNCHANGED <<cols, flags, unfilled, ccrShape, ccr, index, cut, failed, writes, crashes>>

----------------------------------------------------------------------------
\* Writers that are through, and crashes.

Mint(p, e) ==
  /\ proc[p].pc = "up" /\ writes < MaxWrites /\ edges[e] = "none"
  /\ edges' = [edges EXCEPT ![e] = "minted"] /\ writes' = writes + 1
  /\ UNCHANGED <<cols, flags, unfilled, edgeShape, ccrShape, ccr, index, proc, overtaken, cut,
                 failed, crashes>>

\* A cached original; the trigger indexes it.
Store(p, q, h) ==
  /\ proc[p].pc = "up" /\ writes < MaxWrites /\ <<q, h>> \notin ToSet(ccr)
  /\ ccr' = Append(ccr, <<q, h>>) /\ writes' = writes + 1
  /\ fts' = IF triggers THEN fts \cup {<<q, h>>} ELSE fts
  /\ UNCHANGED <<cols, flags, unfilled, edgeShape, edges, ccrShape, triggers, proc, overtaken, cut,
                 failed, crashes>>

\* A process dies; what it had committed stays.
Crash(p) ==
  /\ proc[p].pc # "off" /\ crashes < MaxCrashes
  /\ proc' = [proc EXCEPT ![p] = Off] /\ crashes' = crashes + 1
  /\ cut' = (cut \/ proc[p].pc \in {"a1_schema", "a1_fts"})
  /\ UNCHANGED <<cols, flags, unfilled, tables, index, overtaken, failed, writes>>

Open(p) ==
  \/ Connect(p) \/ Schema(p) \/ LookColumns(p) \/ AddColumn(p) \/ ColumnsDone(p)
  \/ MigrateC10(p) \/ MigrateM3(p) \/ MigrateB1(p)
  \/ LookShape(p, "a1") \/ LookShape(p, "a0") \/ RebuildCcr(p) \/ Reindex(p) \/ RebuildEdges(p)

Next ==
  \E p \in Procs :
    \/ Open(p) \/ Crash(p)
    \/ \E e \in Edges : Mint(p, e)
    \/ \E q \in Projects, h \in Hashes : Store(p, q, h)

\* A connection attempt runs to its end, and a process that failed to connect
\* connects again.
Fairness == \A p \in Procs : WF_mvars(Open(p))
Spec == Init /\ [][Next]_mvars /\ Fairness

----------------------------------------------------------------------------
TypeOK ==
  /\ cols \subseteq Columns /\ flags \subseteq Backfills
  /\ unfilled \in [Backfills -> SUBSET Legacy]
  /\ edges \in [Edges -> {"none", "declared", "minted"}]
  /\ ToSet(ccr) \subseteq Projects \X Hashes
  /\ fts \subseteq Projects \X Hashes
  /\ failed \subseteq Procs /\ writes \in 0..MaxWrites /\ crashes \in 0..MaxCrashes

\* A flag in the meta table means its backfill is complete, so a process that
\* skips it on the flag alone reads no unclassified legacy row.
FlagMeansFilled == \A b \in flags : unfilled[b] = {}

\* A minted edge loses its weight, provenance and scope only when two
\* processes both saw the old shape (the look is outside the transaction).
MintedStep == \A e \in Edges : edges[e] # "none" /\ edges'[e] # edges[e] => "edges" \in overtaken'

\* A cached original disappears in a migration only when two processes both
\* saw the old key (the second rebuild keeps one row per hash over all
\* projects).
CachedStep == ToSet(ccr) \subseteq ToSet(ccr') \/ "ccr" \in overtaken'

\* Outside the window between the rebuild and the reindex every cached
\* original can be found by text, unless a crash fell into that window: no
\* later connection reindexes a table that already has the new key.
IndexCoversCache ==
  (\A p \in Procs : proc[p].pc \notin {"a1_schema", "a1_fts"}) /\ ~cut => ToSet(ccr) \subseteq fts

\* Every process gets its connection in the end: a duplicate column fails the
\* attempt, never the store.
EveryoneConnects == \A p \in Procs : <>[](proc[p].pc = "up")

\* What a connected process may rely on: the backfill behind a flag, and the
\* index behind the cache.
SchemaSafe ==
  /\ TypeOK /\ FlagMeansFilled /\ IndexCoversCache
=============================================================================
