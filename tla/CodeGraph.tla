------------------------------ MODULE CodeGraph ------------------------------
(***************************************************************************)
(* The project code graph: registration of roots, indexing, poisoning,     *)
(* deletion, the automatic path and the reads that issue file content.     *)
(*                                                                         *)
(* A root holds one file.  The file's key is its (mtime, size); a text     *)
(* stands for its hash, and either every text has a size of its own or all *)
(* have the same (sameSize).                                               *)
(* The graph store and the projects table are SQLite databases shared by   *)
(* the server process and by CLI processes; every statement commits alone  *)
(* and the per-project index lock is a lock of one process.                *)
(***************************************************************************)
EXTENDS Naturals, FiniteSets

CONSTANTS
  Threads,       \* threads of control that run the operations below
  ServerThreads, \* those of them inside the server process (they share locks)
  Schedulers,    \* the watch scheduler threads, one per process
  Projects,      \* project names
  Roots,         \* directories that hold a manifest and may be registered
  Texts,         \* texts a file may have
  SecretTexts,   \* texts the secrets detector hits
  OverLimit,     \* texts beyond index_max_source_mb
  Absent,        \* no row, no directory, no file, nothing read
  AutoCap,       \* auto_register_max_projects
  MaxOps,        \* bound on operations
  MaxEdits       \* bound on edits of files and crashes; also bounds mtimes

ASSUME CodeGraphAssumption ==
  /\ ServerThreads \subseteq Threads /\ Schedulers \subseteq Threads
  /\ SecretTexts \subseteq Texts /\ OverLimit \subseteq Texts
  /\ AutoCap \in Nat /\ MaxOps \in Nat /\ MaxEdits \in Nat
  /\ Absent \notin Texts \cup Roots \cup Projects \cup Nat

VARIABLES
  reg,        \* projects table: root (Absent: no path) and whether auto-made
  disk,       \* per root: Absent, or its file's text and mtime
  graph,      \* per project: the file record (and nodes) last published
  poisoned,   \* per project: whether the path is in the poisoned set
  suspended,  \* per project: the auto path is suspended
  throttle,   \* per project: an auto action ran within the minimum interval
  watched,    \* registrations of the watch scheduler
  holders,    \* per project: threads inside the index lock
  thread,     \* per thread: where it is and what it has read
  sameSize,   \* whether all texts have one size (fixed)
  issued,     \* ghost: what the last snippet showed and what backed it
  torn,       \* ghost: projects whose index died between publish and poisoning
  ops, edits

vars == <<reg, disk, graph, poisoned, suspended, throttle, watched, holders,
          thread, sameSize, issued, torn, ops, edits>>
tables == <<reg, graph, poisoned, suspended, throttle>>

File    == [text : Texts \cup {Absent}, mtime : Nat]
NoFile  == [text |-> Absent, mtime |-> 0]
Project == [root : Roots \cup {Absent}, auto : BOOLEAN]
Idle == [pc |-> "idle", op |-> "none", proj |-> Absent, root |-> Absent,
         file |-> NoFile, flag |-> FALSE]
Ops  == {"none", "register", "auto-register", "repoint", "index", "auto-first",
         "delete", "ghost-delete", "snippet"}
PCs  == {"idle", "save", "purge", "unsuspend", "deregister", "resolve", "probe",
         "lock", "read", "stat", "publish", "poison", "stamp", "suspend",
         "record", "serve"}

TypeOK ==
  /\ reg \in [Projects -> Project \cup {Absent}]
  /\ disk \in [Roots -> File \cup {Absent}]
  /\ graph \in [Projects -> File]
  /\ poisoned \in [Projects -> BOOLEAN]
  /\ suspended \in [Projects -> BOOLEAN]
  /\ throttle \in [Projects -> BOOLEAN]
  /\ watched \subseteq Projects
  /\ holders \in [Projects -> SUBSET Threads]
  /\ thread \in [Threads -> [pc : PCs, op : Ops, proj : Projects \cup {Absent},
                             root : Roots \cup {Absent}, file : File,
                             flag : BOOLEAN]]
  /\ sameSize \in BOOLEAN
  /\ issued \in [shown : Texts \cup {Absent}, record : Texts \cup {Absent}]
  /\ torn \subseteq Projects
  /\ ops \in Nat /\ edits \in Nat

Init ==
  /\ reg \in [Projects -> {Absent} \cup [root : Roots \cup {Absent}, auto : {FALSE}]]
  /\ \A p, q \in Projects :
       p # q /\ reg[p] # Absent /\ reg[p].root # Absent => reg[p] # reg[q]
  /\ disk = [r \in Roots |-> NoFile]
  /\ graph = [p \in Projects |-> NoFile]
  /\ poisoned = [p \in Projects |-> FALSE]
  /\ suspended = [p \in Projects |-> FALSE]
  /\ throttle = [p \in Projects |-> FALSE]
  /\ watched = {}
  /\ holders = [p \in Projects |-> {}]
  /\ thread = [t \in Threads |-> Idle]
  /\ sameSize \in BOOLEAN
  /\ issued = [shown |-> Absent, record |-> Absent]
  /\ torn = {}
  /\ ops = 0 /\ edits = 0

-----------------------------------------------------------------------------
Begins(t)        == thread[t] = Idle /\ ops < MaxOps /\ ops' = ops + 1
At(t, pc)        == thread[t].pc = pc
Goto(t, pc)      == thread' = [thread EXCEPT ![t].pc = pc]
Done(t)          == thread' = [thread EXCEPT ![t] = Idle]
\* The thread goes to pc for operation op on project p at root r.  The flag is
\* the row's auto mark in a registration, and a full index in an index.
Start(t, pc, op, p, r, flag) ==
  thread' = [thread EXCEPT ![t] = [pc |-> pc, op |-> op, proj |-> p, root |-> r,
                                   file |-> NoFile, flag |-> flag]]

Registered(p) == reg[p] # Absent
Rooted(p)     == Registered(p) /\ reg[p].root # Absent
\* _resolve_root: the registered root, if it is a directory.
Resolves(p)   == Rooted(p) /\ disk[reg[p].root] # Absent
find_project_by_root(r) == {p \in Projects : Rooted(p) /\ reg[p].root = r}
\* The registered root is missing on disk.
Ghost(p)      == Registered(p) /\ ~Resolves(p)

\* The record's (mtime, size) is the file's.
SameKey(record, file) ==
  /\ record.mtime = file.mtime
  /\ record.text # Absent /\ file.text # Absent
  /\ sameSize \/ record.text = file.text

\* Mutant: a removed file is no change.
Changed_keepsRemoved(record, file) == ~SameKey(record, file) /\ file.text # Absent

\* classify_files on one file: it is stale, new or removed.
Changed(record, file) ==
  /\ ~SameKey(record, file)
  /\ record.text # Absent \/ file.text # Absent

-----------------------------------------------------------------------------
(* Registration.                                                           *)

\* register_project: the checks.  A root known under another name and a
\* project already at this root are answered without a write; a project with
\* another root is refused.
Register(t, p, r) ==
  /\ Begins(t)
  /\ disk[r] # Absent
  /\ find_project_by_root(r) = {}
  /\ ~Rooted(p)
  /\ Start(t, "save", "register", p, r, Registered(p) /\ reg[p].auto)
  /\ UNCHANGED <<tables, sameSize, torn, disk, watched, holders, issued, edits>>

\* save_project of the row computed above; a repoint goes on to purge.
SaveProject(t) ==
  /\ At(t, "save")
  /\ reg' = [reg EXCEPT ![thread[t].proj] =
               [root |-> thread[t].root, auto |-> thread[t].flag]]
  /\ CASE thread[t].op = "register"      -> Done(t)
       [] thread[t].op = "auto-register" -> Goto(t, "probe")
       [] thread[t].op = "repoint"       -> Goto(t, "purge")
  /\ UNCHANGED <<sameSize, torn, disk, graph, poisoned, suspended, throttle, watched, holders,
                 issued, ops, edits>>

\* repoint_project: only a ghost may be pointed elsewhere, and never at a
\* root another project has.
Repoint(t, p, r) ==
  /\ Begins(t)
  /\ Registered(p) /\ disk[r] # Absent
  /\ find_project_by_root(r) \subseteq {p}
  /\ reg[p].root # r
  /\ Ghost(p)
  /\ Start(t, "save", "repoint", p, r, reg[p].auto)
  /\ UNCHANGED <<tables, sameSize, torn, disk, watched, holders, issued, edits>>

\* delete_graph_project (confirmed where the root is missing): purge, lift the
\* suspension, and drop the registration of a ghost.
DeleteGraph(t, p) ==
  /\ Begins(t)
  /\ Registered(p)
  /\ Start(t, "purge", IF Ghost(p) THEN "ghost-delete" ELSE "delete", p,
           Absent, FALSE)
  /\ UNCHANGED <<tables, sameSize, torn, disk, watched, holders, issued, edits>>

\* purge_project: nodes, records and the poisoned set, in one transaction.
Purge(t) ==
  /\ At(t, "purge")
  /\ graph' = [graph EXCEPT ![thread[t].proj] = NoFile]
  /\ poisoned' = [poisoned EXCEPT ![thread[t].proj] = FALSE]
  /\ Goto(t, "unsuspend")
  /\ UNCHANGED <<reg, sameSize, torn, disk, suspended, throttle, watched, holders, issued, ops,
                 edits>>

Unsuspend(t) ==
  /\ At(t, "unsuspend")
  /\ suspended' = [suspended EXCEPT ![thread[t].proj] = FALSE]
  /\ IF thread[t].op = "ghost-delete" THEN Goto(t, "deregister") ELSE Done(t)
  /\ UNCHANGED <<reg, sameSize, torn, disk, graph, poisoned, throttle, watched, holders, issued,
                 ops, edits>>

DeleteProject(t) ==
  /\ At(t, "deregister")
  /\ reg' = [reg EXCEPT ![thread[t].proj] = Absent]
  /\ Done(t)
  /\ UNCHANGED <<sameSize, torn, disk, graph, poisoned, suspended, throttle, watched, holders,
                 issued, ops, edits>>

-----------------------------------------------------------------------------
(* Indexing.                                                               *)

\* index_project: the root is resolved; a call may ask for a full index.
IndexProject(t, p, full) ==
  /\ Begins(t)
  /\ Resolves(p)
  /\ Start(t, "lock", "index", p, reg[p].root, full)
  /\ UNCHANGED <<tables, sameSize, torn, disk, watched, holders, issued, edits>>

OtherInProcess(t) == IF t \in ServerThreads THEN ServerThreads ELSE {t}

\* _lock_for(project).acquire(blocking=False): busy is reported as in-progress.
\* The records are read under the lock; an incremental call ends when the file
\* is unchanged.
AcquireLock(t) ==
  LET p == thread[t].proj
      f == disk[thread[t].root]
      busy == holders[p] \cap OtherInProcess(t) # {} IN
  /\ At(t, "lock")
  /\ IF busy \/ (f # Absent /\ SameKey(graph[p], f) /\ ~thread[t].flag)
       THEN Done(t) /\ UNCHANGED holders
       ELSE /\ holders' = [holders EXCEPT ![p] = @ \cup {t}]
            /\ Goto(t, "read")
  /\ UNCHANGED <<tables, sameSize, torn, disk, watched, issued, ops, edits>>

ReleaseTo(t, pc) ==
  /\ holders' = [holders EXCEPT ![thread[t].proj] = @ \ {t}]
  /\ IF pc = "idle" THEN Done(t) ELSE Goto(t, pc)

\* The failure exits of index_project: a caller that ran the first automatic
\* index suspends the auto path.
IndexFails(t) == ReleaseTo(t, IF thread[t].op = "auto-first" THEN "suspend" ELSE "idle")

\* FileSurface.collect, check_limits and the read of the file.  A limit breach
\* ends the call before any write; a root without the file is published empty.
ReadFile(t) ==
  LET f == disk[thread[t].root] IN
  /\ At(t, "read")
  /\ IF f # Absent /\ f.text \in OverLimit
       THEN IndexFails(t)
       ELSE /\ thread' = [thread EXCEPT
                 ![t].file = IF f = Absent THEN NoFile
                             ELSE [text |-> f.text, mtime |-> 0],
                 ![t].pc = IF f = Absent \/ f.text = Absent THEN "publish"
                           ELSE "stat"]
            /\ UNCHANGED holders
  /\ UNCHANGED <<tables, sameSize, torn, disk, watched, issued, ops, edits>>

\* _parse_all takes the mtime after the text was read; a file that vanished in
\* between makes os.stat raise and the whole index fail.
StatFile(t) ==
  LET f == disk[thread[t].root] IN
  /\ At(t, "stat")
  /\ IF f = Absent \/ f.text = Absent
       THEN IndexFails(t)
       ELSE /\ thread' = [thread EXCEPT ![t].pc = "publish",
                                        ![t].file.mtime = f.mtime]
            /\ UNCHANGED holders
  /\ UNCHANGED <<tables, sameSize, torn, disk, watched, issued, ops, edits>>

\* publish_project_graph: nodes and file records replaced in one transaction.
Publish(t) ==
  /\ At(t, "publish")
  /\ graph' = [graph EXCEPT ![thread[t].proj] = thread[t].file]
  /\ Goto(t, "poison")
  /\ UNCHANGED <<reg, sameSize, torn, disk, poisoned, suspended, throttle, watched, holders,
                 issued, ops, edits>>

\* add_poisoned_paths: a path once poisoned stays so.
AddPoisoned(t) ==
  /\ At(t, "poison")
  /\ poisoned' = [poisoned EXCEPT ![thread[t].proj] =
                    @ \/ thread[t].file.text \in SecretTexts]
  /\ ReleaseTo(t, "stamp")
  /\ UNCHANGED <<reg, sameSize, torn, disk, graph, suspended, throttle, watched, issued, ops,
                 edits>>

\* After a successful index the auto path is unlocked.
StampIndexed(t) ==
  /\ At(t, "stamp")
  /\ suspended' = [suspended EXCEPT ![thread[t].proj] = FALSE]
  /\ Done(t)
  /\ UNCHANGED <<reg, sameSize, torn, disk, graph, poisoned, throttle, watched, holders, issued,
                 ops, edits>>

-----------------------------------------------------------------------------
(* The automatic path: one hint of AutoIndexer._process.                   *)

AutoRegistered == {p \in Projects : Registered(p) /\ reg[p].auto}

\* An unknown project is registered from the hint's directory, or the project
\* that has the directory is used, or the cap ends it.
ProcessHint(t, p, r) ==
  LET known == IF Registered(p) THEN {p} ELSE find_project_by_root(r) IN
  /\ Begins(t)
  /\ Registered(p) \/ disk[r] # Absent
  /\ \/ \E q \in known : Start(t, "probe", "auto-register", q, Absent, TRUE)
     \/ /\ known = {}
        /\ Cardinality(AutoRegistered) < AutoCap
        /\ Start(t, "save", "auto-register", p, r, TRUE)
  /\ UNCHANGED <<tables, sameSize, torn, disk, watched, holders, issued, edits>>

\* watch_probe, suspension, throttle; then a first index or, if the file
\* changed, a reindex.
ProbeHint(t) ==
  LET p == thread[t].proj
      first == graph[p].text = Absent IN
  /\ At(t, "probe")
  /\ IF ~Resolves(p) \/ suspended[p] \/ throttle[p]
       THEN Done(t) /\ UNCHANGED throttle
       ELSE /\ throttle' = [throttle EXCEPT ![p] = TRUE]
            /\ IF first \/ Changed(graph[p], disk[reg[p].root])
                 THEN Start(t, "lock", IF first THEN "auto-first" ELSE "index", p,
                            reg[p].root, FALSE)
                 ELSE Done(t)
  /\ UNCHANGED <<reg, sameSize, torn, disk, graph, poisoned, suspended, watched, holders, issued,
                 ops, edits>>

SuspendAuto(t) ==
  /\ At(t, "suspend")
  /\ suspended' = [suspended EXCEPT ![thread[t].proj] = TRUE]
  /\ Done(t)
  /\ UNCHANGED <<reg, sameSize, torn, disk, graph, poisoned, throttle, watched, holders, issued,
                 ops, edits>>

\* auto_reindex_min_interval_sec elapses.
IntervalElapses(p) ==
  /\ throttle[p]
  /\ throttle' = [throttle EXCEPT ![p] = FALSE]
  /\ UNCHANGED <<reg, sameSize, torn, disk, graph, poisoned, suspended, watched, holders, thread,
                 issued, ops, edits>>

\* GraphWatchScheduler.register: only an indexed project is watched.
Watch(p) ==
  /\ Resolves(p) /\ graph[p].text # Absent /\ p \notin watched
  /\ ops < MaxOps /\ ops' = ops + 1
  /\ watched' = watched \cup {p}
  /\ UNCHANGED <<tables, sameSize, torn, disk, holders, thread, issued, edits>>

\* _poll_registration: a reindex, or the end of the watch when the root does
\* not resolve.
Poll(t, p) ==
  /\ thread[t] = Idle /\ p \in watched
  /\ IF Resolves(p)
       THEN /\ Changed(graph[p], disk[reg[p].root])
            /\ Start(t, "lock", "index", p, reg[p].root, FALSE)
            /\ UNCHANGED watched
       ELSE watched' = watched \ {p} /\ UNCHANGED thread
  /\ UNCHANGED <<tables, sameSize, torn, disk, holders, issued, ops, edits>>

-----------------------------------------------------------------------------
(* Reads that issue file content.                                          *)

\* get_code_snippet: poisoned paths are refused, then the file record is read.
Snippet(t, p) ==
  /\ Begins(t)
  /\ Resolves(p) /\ ~poisoned[p]
  /\ Start(t, "record", "snippet", p, reg[p].root, FALSE)
  /\ UNCHANGED <<tables, sameSize, torn, disk, watched, holders, issued, edits>>

SnippetRecord(t) ==
  LET p == thread[t].proj IN
  /\ At(t, "record")
  /\ IF graph[p].text = Absent
       THEN Done(t)
       ELSE thread' = [thread EXCEPT ![t].file = graph[p], ![t].pc = "serve"]
  /\ UNCHANGED <<tables, sameSize, torn, disk, watched, holders, issued, ops, edits>>

\* Mutant: the key alone decides.
HashMatches_skipped(record, file) == TRUE

\* The sha256 of the text read is the record's.
HashMatches(record, file) == record.text = file.text

\* stat, read, hash and the scan of the requested range.  The range may leave
\* the secret out.  Stat and read fall together here: the hash is compared
\* with the text that is shown.
SnippetServe(t) ==
  LET f == disk[thread[t].root] IN
  /\ At(t, "serve")
  /\ IF f # Absent /\ SameKey(thread[t].file, f) /\ HashMatches(thread[t].file, f)
       THEN issued' = [shown |-> f.text, record |-> thread[t].file.text]
       ELSE UNCHANGED issued
  /\ Done(t)
  /\ UNCHANGED <<tables, sameSize, torn, disk, watched, holders, ops, edits>>

-----------------------------------------------------------------------------
(* The file system and the processes.                                      *)

\* Somebody writes or removes the file: always a new mtime.
Edit(r, c) ==
  /\ disk[r] # Absent /\ disk[r].text # c /\ edits < MaxEdits
  /\ disk' = [disk EXCEPT ![r] = [text |-> c, mtime |-> edits + 1]]
  /\ edits' = edits + 1
  /\ UNCHANGED <<tables, sameSize, torn, watched, holders, thread, issued, ops>>

\* A tree is moved to another place, or removed.
Move(r, s) ==
  /\ disk[r] # Absent /\ edits < MaxEdits
  /\ \/ r # s /\ disk' = [disk EXCEPT ![s] = disk[r], ![r] = Absent]
     \/ r = s /\ disk' = [disk EXCEPT ![r] = Absent]
  /\ edits' = edits + 1
  /\ UNCHANGED <<tables, sameSize, torn, watched, holders, thread, issued, ops>>

\* A process dies between two statements; its locks and watches go with it.
Crash(t) ==
  /\ thread[t].pc # "idle" /\ edits < MaxEdits /\ edits' = edits + 1
  /\ LET dead == OtherInProcess(t) IN
     /\ thread' = [u \in Threads |-> IF u \in dead THEN Idle ELSE thread[u]]
     /\ holders' = [p \in Projects |-> holders[p] \ dead]
     /\ watched' = IF t \in ServerThreads THEN {} ELSE watched
     /\ torn' = torn \cup {thread[u].proj : u \in {v \in dead : At(v, "poison")}}
  /\ UNCHANGED <<tables, sameSize, disk, issued, ops>>

\* What a thread does on its own once an operation has begun.
Proceed(t) ==
  \/ SaveProject(t) \/ Purge(t) \/ Unsuspend(t) \/ DeleteProject(t)
  \/ AcquireLock(t) \/ ReadFile(t) \/ StatFile(t) \/ Publish(t) \/ AddPoisoned(t)
  \/ StampIndexed(t) \/ ProbeHint(t) \/ SuspendAuto(t)
  \/ SnippetRecord(t) \/ SnippetServe(t)

Next ==
  \/ \E t \in Threads : Proceed(t) \/ Crash(t)
  \/ \E t \in Threads, p \in Projects :
       \/ DeleteGraph(t, p) \/ Snippet(t, p)
       \/ \E full \in BOOLEAN : IndexProject(t, p, full)
       \/ t \in ServerThreads \cap Schedulers /\ Poll(t, p)
       \/ \E r \in Roots : \/ Register(t, p, r) \/ Repoint(t, p, r)
                           \/ t \in Schedulers /\ ProcessHint(t, p, r)
  \/ \E p \in Projects : IntervalElapses(p) \/ Watch(p)
  \/ \E r \in Roots : \/ \E c \in Texts \cup {Absent} : Edit(r, c)
                      \/ \E s \in Roots : Move(r, s)

\* Threads run, and the scheduler polls its registrations again and again.
Fairness ==
  /\ \A t \in Threads : WF_vars(Proceed(t))
  /\ \A p \in Projects : SF_vars(\E t \in ServerThreads \cap Schedulers : Poll(t, p))

Spec == Init /\ [][Next]_vars
LiveSpec == Spec /\ Fairness

-----------------------------------------------------------------------------
(* Properties.                                                             *)

\* get_code_snippet compares the hash of what it is about to show with the
\* record, so what was shown is what the graph was built from, even when an
\* edit kept the file's key or fell between the index's read and its stat.
SnippetMatchesRecord == issued.shown = issued.record

\* PG3: a published file that carries a secret is in the poisoned set, at the
\* latest when the index that published it has finished, whatever purges,
\* deletions and other indexes run in between: unless the process died right
\* after the publish, which nothing repairs (_index_serialized finds the
\* file unchanged and does not parse it again).
PoisonCoversRecord ==
  \A p \in Projects : graph[p].text \in SecretTexts =>
    \/ poisoned[p] \/ p \in torn
    \/ \E t \in Threads : /\ At(t, "poison") /\ thread[t].proj = p
                          /\ thread[t].file.text \in SecretTexts

\* The watch poll brings the graph of a watched project to the state of its
\* tree once edits stop, where every edit changes the size of the file.
WatchConverges ==
  ~sameSize => <>[](\A p \in watched :
     Resolves(p) /\ disk[reg[p].root].text \notin OverLimit
       => graph[p].text = disk[reg[p].root].text)

\* What the code graph promises at any moment: snippets that match their record,
\* and a poisoned set that covers every published secret.
GraphSafe ==
  /\ TypeOK /\ SnippetMatchesRecord /\ PoisonCoversRecord
=============================================================================
