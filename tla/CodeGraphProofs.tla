--------------------------- MODULE CodeGraphProofs ---------------------------
(***************************************************************************)
(* The code graph for any threads, projects, roots and texts.  A secret    *)
(* that was published is covered by the thread that is about to poison its *)
(* path, which other indexes, purges and deletions do not disturb; and in  *)
(* one process the project's lock keeps indexes from overlapping.          *)
(***************************************************************************)
EXTENDS CodeGraph, TLAPS

Control == [pc : PCs, op : Ops, proj : Projects \cup {Absent}, root : Roots \cup {Absent},
            file : File, flag : BOOLEAN]

\* What an operation knows when it reaches a statement.
Placed(c) ==
  /\ c.pc # "idle" => c.proj \in Projects
  /\ c.pc \in {"save", "lock", "read", "stat", "record", "serve"} => c.root \in Roots
  /\ c.pc = "save" => c.op \in {"register", "auto-register", "repoint"}

\* Where an index is while it holds the lock of its project.
Inside == {"read", "stat", "publish", "poison"}

\* The lock belongs to who is inside.
HeldInside ==
  \A p \in Projects, t \in Threads :
    t \in holders[p] <=> thread[t].pc \in Inside /\ thread[t].proj = p

\* Inside the server process at most one thread indexes a project.
OneIndexer ==
  \A p \in Projects : \A t, u \in ServerThreads : t \in holders[p] /\ u \in holders[p] => t = u

\* Types of what is not the threads' own.
Tables ==
  /\ reg \in [Projects -> Project \cup {Absent}]
  /\ graph \in [Projects -> File]
  /\ poisoned \in [Projects -> BOOLEAN]
  /\ suspended \in [Projects -> BOOLEAN]
  /\ throttle \in [Projects -> BOOLEAN]
World ==
  /\ disk \in [Roots -> File \cup {Absent}]
  /\ watched \subseteq Projects
  /\ sameSize \in BOOLEAN
  /\ issued \in [shown : Texts \cup {Absent}, record : Texts \cup {Absent}]
  /\ torn \subseteq Projects
  /\ ops \in Nat /\ edits \in Nat

IInv ==
  /\ Tables /\ World
  /\ holders \in [Projects -> SUBSET Threads]
  /\ thread \in [Threads -> Control] /\ \A t \in Threads : Placed(thread[t])
  /\ HeldInside /\ OneIndexer
  /\ SnippetMatchesRecord /\ PoisonCoversRecord

-----------------------------------------------------------------------------
(* The threads.                                                            *)

\* Thread t goes to c.
Moves(t, c) == thread' = [thread EXCEPT ![t] = c] /\ c \in Control /\ Placed(c)

\* A thread that takes a fitting control state leaves the others theirs, and every
\* thread stays placed.
LEMMA ThreadsMove ==
  ASSUME IInv, NEW t \in Threads, NEW c, Moves(t, c)
  PROVE  /\ thread' \in [Threads -> Control]
         /\ thread'[t] = c /\ \A u \in Threads \ {t} : thread'[u] = thread[u]
         /\ \A u \in Threads : Placed(thread[u])'
  <1>1. /\ thread' \in [Threads -> Control]
        /\ thread'[t] = c /\ \A u \in Threads \ {t} : thread'[u] = thread[u]
    BY DEF IInv, Moves
  <1>2. ASSUME NEW u \in Threads PROVE Placed(thread'[u])
    <2>1. CASE u = t
      BY <1>1, <2>1 DEF Moves
    <2>2. CASE u # t
      BY <1>1, <2>2 DEF IInv
    <2> QED BY <2>1, <2>2
  <1>3. \A u \in Threads : Placed(thread[u])'
    BY <1>2 DEF Placed
  <1> QED BY <1>1, <1>3

\* A thread between operations is placed, and no file means none.
LEMMA IdlePlaced == Idle \in Control /\ Placed(Idle) /\ Idle.pc = "idle" /\ NoFile \in File
  BY DEF Idle, Control, Placed, PCs, Ops, NoFile, File

\* The ways to go on.
LEMMA Ends ==
  ASSUME NEW t \in Threads, Done(t)
  PROVE  Moves(t, Idle)
  BY IdlePlaced DEF Done, Moves

\* An operation that goes on keeps the project and the file it works on.
LEMMA GoesOn ==
  ASSUME IInv, NEW t \in Threads, NEW pc \in PCs, Goto(t, pc),
         thread[t].pc # "idle", pc \notin {"save", "lock", "stat", "record", "serve"},
         pc = "read" => thread[t].pc = "lock"
  PROVE  \E c : Moves(t, c) /\ c.pc = pc /\ c.proj = thread[t].proj /\ c.file = thread[t].file
  <1> DEFINE c == [thread[t] EXCEPT !.pc = pc]
  <1>1. thread[t] \in Control /\ Placed(thread[t])
    BY DEF IInv
  <1>2. /\ c \in Control /\ c.pc = pc /\ c.proj = thread[t].proj /\ c.file = thread[t].file
        /\ c.root = thread[t].root
    BY <1>1 DEF Control
  <1>3. thread' = [thread EXCEPT ![t] = c]
    BY DEF Goto
  <1> HIDE DEF c
  <1>4. Placed(c)
    BY <1>1, <1>2 DEF Placed
  <1> QED BY <1>2, <1>3, <1>4 DEF Moves

\* The first step of an operation places its thread with the project and the root it
\* was given.
LEMMA Starts ==
  ASSUME NEW t \in Threads, NEW pc \in PCs, NEW op \in Ops, NEW p \in Projects,
         NEW r \in Roots \cup {Absent}, NEW flag \in BOOLEAN, Start(t, pc, op, p, r, flag),
         pc \in {"save", "lock", "read", "stat", "record", "serve"} => r \in Roots,
         pc = "save" => op \in {"register", "auto-register", "repoint"}
  PROVE  Moves(t, [pc |-> pc, op |-> op, proj |-> p, root |-> r, file |-> NoFile, flag |-> flag])
  BY IdlePlaced DEF Start, Moves, Control, Placed

-----------------------------------------------------------------------------
(* The locks.                                                              *)

\* A move that does not pass the lock.
LEMMA LocksKept ==
  ASSUME IInv, NEW t \in Threads, NEW c, Moves(t, c), holders' = holders,
         thread[t].pc \in Inside <=> c.pc \in Inside,
         c.pc \in Inside => c.proj = thread[t].proj
  PROVE  HeldInside' /\ OneIndexer'
  <1>1. thread'[t] = c /\ \A u \in Threads \ {t} : thread'[u] = thread[u]
    BY ThreadsMove
  <1>2. HeldInside'
    BY <1>1 DEF IInv, HeldInside
  <1> QED BY <1>2 DEF IInv, OneIndexer

\* The lock is taken when nobody in the process has it.
LEMMA LocksTaken ==
  ASSUME IInv, NEW t \in Threads, NEW c, Moves(t, c), NEW p \in Projects,
         holders' = [holders EXCEPT ![p] = @ \cup {t}], holders[p] \cap OtherInProcess(t) = {},
         thread[t].pc \notin Inside, c.pc \in Inside, c.proj = p
  PROVE  HeldInside' /\ OneIndexer'
  <1>1. thread'[t] = c /\ \A u \in Threads \ {t} : thread'[u] = thread[u]
    BY ThreadsMove
  <1>2. /\ holders'[p] = holders[p] \cup {t}
        /\ \A q \in Projects \ {p} : holders'[q] = holders[q]
    BY DEF IInv
  <1>3. HeldInside'
    <2>1. ASSUME NEW q \in Projects, NEW u \in Threads
          PROVE  u \in holders'[q] <=> thread'[u].pc \in Inside /\ thread'[u].proj = q
      <3>1. u \in holders[q] <=> thread[u].pc \in Inside /\ thread[u].proj = q
        BY DEF IInv, HeldInside
      <3> QED BY <1>1, <1>2, <3>1
    <2> QED BY <2>1 DEF HeldInside
  <1>4. OneIndexer'
    <2>1. ASSUME NEW q \in Projects, NEW u \in ServerThreads, NEW v \in ServerThreads,
                 u \in holders'[q], v \in holders'[q]
          PROVE  u = v
      <3>1. u \in holders[q] /\ v \in holders[q] => u = v
        BY DEF IInv, OneIndexer
      <3>2. q # p => u = v
        BY <1>2, <2>1, <3>1
      <3>3. t \in ServerThreads => u \notin holders[p] /\ v \notin holders[p]
        BY DEF OtherInProcess
      <3>4. q = p => u = v
        BY <1>2, <2>1, <3>1, <3>3
      <3> QED BY <3>2, <3>4
    <2> QED BY <2>1 DEF OneIndexer
  <1> QED BY <1>3, <1>4

\* The lock is given back.
LEMMA LocksLeft ==
  ASSUME IInv, NEW t \in Threads, NEW c, Moves(t, c),
         holders' = [holders EXCEPT ![thread[t].proj] = @ \ {t}],
         thread[t].pc \in Inside, c.pc \notin Inside
  PROVE  HeldInside' /\ OneIndexer'
  <1>1. thread'[t] = c /\ \A u \in Threads \ {t} : thread'[u] = thread[u]
    BY ThreadsMove
  <1> DEFINE p == thread[t].proj
  <1>2. p \in Projects
    BY DEF IInv, Placed, Inside
  <1>3. /\ holders'[p] = holders[p] \ {t}
        /\ \A q \in Projects \ {p} : holders'[q] = holders[q]
    BY <1>2 DEF IInv
  <1>4. HeldInside'
    <2>1. ASSUME NEW q \in Projects, NEW u \in Threads
          PROVE  u \in holders'[q] <=> thread'[u].pc \in Inside /\ thread'[u].proj = q
      <3>1. u \in holders[q] <=> thread[u].pc \in Inside /\ thread[u].proj = q
        BY DEF IInv, HeldInside
      <3> QED BY <1>1, <1>3, <3>1
    <2> QED BY <2>1 DEF HeldInside
  <1>5. \A q \in Projects : holders'[q] \subseteq holders[q]
    BY <1>2, <1>3
  <1>6. OneIndexer'
    BY <1>5 DEF IInv, OneIndexer
  <1> QED BY <1>4, <1>6

-----------------------------------------------------------------------------
(* The poisoned set.                                                       *)

\* A move of a thread that does not owe a poisoning.
LEMMA StillCovered ==
  ASSUME IInv, NEW t \in Threads, NEW c, Moves(t, c), thread[t].pc # "poison",
         UNCHANGED <<graph, poisoned, torn>>
  PROVE  PoisonCoversRecord'
  <1>1. \A u \in Threads \ {t} : thread'[u] = thread[u]
    BY ThreadsMove
  <1>2. ASSUME NEW p \in Projects, graph[p].text \in SecretTexts, ~poisoned[p], p \notin torn
        PROVE  \E u \in Threads : /\ thread'[u].pc = "poison" /\ thread'[u].proj = p
                                  /\ thread'[u].file.text \in SecretTexts
    <2>1. PICK u \in Threads : /\ thread[u].pc = "poison" /\ thread[u].proj = p
                               /\ thread[u].file.text \in SecretTexts
      BY <1>2 DEF IInv, PoisonCoversRecord, At
    <2>2. thread'[u] = thread[u]
      BY <1>1, <2>1
    <2> QED BY <2>1, <2>2
  <1> QED BY <1>2 DEF PoisonCoversRecord, At

\* Steps that touch neither the graph nor what was shown.
LEMMA QuietStep ==
  ASSUME IInv, NEW t \in Threads, NEW c, Moves(t, c), thread[t].pc # "poison",
         UNCHANGED <<graph, poisoned, torn, issued, disk, sameSize, edits>>,
         reg' \in [Projects -> Project \cup {Absent}], suspended' \in [Projects -> BOOLEAN],
         throttle' \in [Projects -> BOOLEAN], watched' \subseteq Projects, ops' \in Nat,
         holders' \in [Projects -> SUBSET Threads], HeldInside', OneIndexer'
  PROVE  IInv'
  <1>1. Tables' /\ World'
    BY DEF IInv, Tables, World
  <1>2. PoisonCoversRecord' /\ SnippetMatchesRecord'
    BY StillCovered DEF IInv, SnippetMatchesRecord
  <1> QED BY <1>1, <1>2, ThreadsMove DEF IInv

-----------------------------------------------------------------------------
(* One lemma per action: it keeps the invariant.                           *)

\* An operation begins.
LEMMA BeginStep ==
  ASSUME IInv, NEW t \in Threads, NEW pc \in {"save", "purge", "lock", "record", "probe"},
         NEW op \in Ops, NEW p \in Projects, NEW r \in Roots \cup {Absent}, NEW flag \in BOOLEAN,
         Start(t, pc, op, p, r, flag), thread[t] = Idle,
         pc \in {"save", "lock", "record"} => r \in Roots,
         pc = "save" => op \in {"register", "auto-register", "repoint"},
         UNCHANGED <<tables, sameSize, torn, disk, holders, issued, edits>>,
         watched' \subseteq Projects, ops' \in Nat
  PROVE  IInv'
  <1>1. PICK c : c = [pc |-> pc, op |-> op, proj |-> p, root |-> r, file |-> NoFile, flag |-> flag]
    OBVIOUS
  <1>7. /\ pc \in PCs
        /\ pc \in {"save", "lock", "read", "stat", "record", "serve"} => r \in Roots
    BY DEF PCs
  <1>2. Moves(t, [pc |-> pc, op |-> op, proj |-> p, root |-> r, file |-> NoFile, flag |-> flag])
    BY <1>7, Starts
  <1>8. Moves(t, c)
    BY <1>1, <1>2
  <1>3. c.pc \notin Inside /\ thread[t].pc \notin Inside /\ thread[t].pc # "poison"
    BY <1>1, IdlePlaced DEF Inside
  <1>4. HeldInside' /\ OneIndexer'
    BY <1>8, <1>3, LocksKept
  <1>5. UNCHANGED <<reg, graph, poisoned, suspended, throttle, torn, issued, disk, sameSize, edits, holders>>
    BY DEF tables
  <1>6. /\ reg' \in [Projects -> Project \cup {Absent}] /\ suspended' \in [Projects -> BOOLEAN]
        /\ throttle' \in [Projects -> BOOLEAN] /\ holders' \in [Projects -> SUBSET Threads]
    BY <1>5 DEF IInv, Tables
  <1> QED BY <1>8, <1>3, <1>4, <1>5, <1>6, QuietStep

\* What a guard says of the registered root.
LEMMA Resolved ==
  ASSUME IInv, NEW p \in Projects, Resolves(p)
  PROVE  reg[p] \in Project /\ reg[p].root \in Roots /\ disk[reg[p].root] \in File
  <1>1. reg[p] \in Project /\ reg[p].root \in Roots
    BY DEF IInv, Tables, Resolves, Rooted, Registered, Project
  <1>2. disk[reg[p].root] \in File
    BY <1>1 DEF IInv, World, Resolves
  <1> QED BY <1>1, <1>2

\* One operation is counted.
LEMMA Counted == ASSUME IInv, NEW t, Begins(t) PROVE ops' \in Nat /\ thread[t] = Idle
  BY DEF Begins, IInv, World

\* Operations that name a root.
LEMMA OperationsKeep ==
  ASSUME IInv, NEW t \in Threads, NEW p \in Projects, NEW r \in Roots,
         Register(t, p, r) \/ Repoint(t, p, r) \/ ProcessHint(t, p, r)
  PROVE  IInv'
  <1>1. Begins(t) /\ UNCHANGED <<tables, sameSize, torn, disk, watched, holders, issued, edits>>
    BY DEF Register, Repoint, ProcessHint
  <1>2. /\ ops' \in Nat /\ thread[t] = Idle /\ watched' \subseteq Projects
        /\ UNCHANGED <<tables, sameSize, torn, disk, holders, issued, edits>>
    BY <1>1, Counted DEF IInv, World
  <1>3. \A q \in Projects : Registered(q) => reg[q] \in Project /\ reg[q].auto \in BOOLEAN
    BY DEF IInv, Tables, Registered, Project
  <1>4. CASE Register(t, p, r)
    <2>1. (Registered(p) /\ reg[p].auto) \in BOOLEAN
      OBVIOUS
    <2> DEFINE flag == Registered(p) /\ reg[p].auto
    <2>2. flag \in BOOLEAN /\ Start(t, "save", "register", p, r, flag)
      BY <1>4, <2>1 DEF Register
    <2> HIDE DEF flag
    <2> QED BY <1>2, <2>2, BeginStep DEF Ops
  <1>5. CASE Repoint(t, p, r)
    <2>1. reg[p].auto \in BOOLEAN /\ Start(t, "save", "repoint", p, r, reg[p].auto)
      BY <1>3, <1>5 DEF Repoint
    <2> QED BY <1>2, <2>1, BeginStep DEF Ops
  <1>6. CASE ProcessHint(t, p, r)
    <2>1. CASE \E q \in Projects : Start(t, "probe", "auto-register", q, Absent, TRUE)
      BY <1>2, <2>1, BeginStep DEF Ops
    <2>2. CASE Start(t, "save", "auto-register", p, r, TRUE)
      BY <1>2, <2>2, BeginStep DEF Ops
    <2>3. (IF Registered(p) THEN {p} ELSE find_project_by_root(r)) \subseteq Projects
      BY DEF find_project_by_root
    <2> QED BY <1>6, <2>1, <2>2, <2>3 DEF ProcessHint
  <1> QED BY <1>4, <1>5, <1>6

\* Operations on a registered project.
LEMMA RegisteredOperationsKeep ==
  ASSUME IInv, NEW t \in Threads, NEW p \in Projects,
         \/ DeleteGraph(t, p) \/ Snippet(t, p)
         \/ \E full \in BOOLEAN : IndexProject(t, p, full)
  PROVE  IInv'
  <1>1. Begins(t) /\ UNCHANGED <<tables, sameSize, torn, disk, watched, holders, issued, edits>>
    BY DEF DeleteGraph, IndexProject, Snippet
  <1>2. /\ ops' \in Nat /\ thread[t] = Idle /\ watched' \subseteq Projects
        /\ UNCHANGED <<tables, sameSize, torn, disk, holders, issued, edits>>
    BY <1>1, Counted DEF IInv, World
  <1>3. CASE DeleteGraph(t, p)
    <2> DEFINE op == IF Ghost(p) THEN "ghost-delete" ELSE "delete"
    <2>1. op \in Ops /\ Start(t, "purge", op, p, Absent, FALSE)
      BY <1>3 DEF DeleteGraph, Ops
    <2> HIDE DEF op
    <2> QED BY <1>2, <2>1, BeginStep
  <1>4. ASSUME NEW full \in BOOLEAN, IndexProject(t, p, full)
        PROVE  IInv'
    <2>1. reg[p].root \in Roots /\ Start(t, "lock", "index", p, reg[p].root, full)
      BY <1>4, Resolved DEF IndexProject
    <2> QED BY <1>2, <2>1, BeginStep DEF Ops
  <1>5. CASE Snippet(t, p)
    <2>1. reg[p].root \in Roots /\ Start(t, "record", "snippet", p, reg[p].root, FALSE)
      BY <1>5, Resolved DEF Snippet
    <2> QED BY <1>2, <2>1, BeginStep DEF Ops
  <1> QED BY <1>3, <1>4, <1>5

\* A poll starts a reindex of a changed project, or ends the watch of one whose root is
\* gone.
LEMMA PollKeeps ==
  ASSUME IInv, NEW t \in Threads, NEW p \in Projects, Poll(t, p)
  PROVE  IInv'
  <1>1. /\ UNCHANGED <<tables, sameSize, torn, disk, holders, issued, edits>>
        /\ ops' \in Nat /\ thread[t] = Idle
    BY DEF Poll, IInv, World
  <1>2. CASE Resolves(p)
    <2>1. reg[p].root \in Roots /\ Start(t, "lock", "index", p, reg[p].root, FALSE)
          /\ watched' \subseteq Projects
      BY <1>2, Resolved DEF Poll, IInv, World
    <2> QED BY <1>1, <2>1, BeginStep DEF Ops
  <1>3. CASE ~Resolves(p)
    <2>1. /\ watched' \subseteq Projects
          /\ UNCHANGED <<reg, graph, poisoned, suspended, throttle, sameSize, torn, disk, holders,
                         issued, ops, edits, thread>>
      BY <1>3 DEF Poll, IInv, World, tables
    <2>2. Tables' /\ World'
      BY <2>1 DEF IInv, Tables, World
    <2> QED BY <2>1, <2>2 DEF IInv, HeldInside, OneIndexer, SnippetMatchesRecord, PoisonCoversRecord,
                              Placed, At
  <1> QED BY <1>2, <1>3

\* What a thread holds at a statement.
LEMMA Held ==
  ASSUME IInv, NEW t \in Threads
  PROVE  /\ thread[t] \in Control /\ Placed(thread[t]) /\ thread[t].file \in File
         /\ thread[t].pc # "idle" => thread[t].proj \in Projects
  BY DEF IInv, Control, Placed

\* Saving a project row keeps the roots it names on record.
LEMMA SaveProjectKeeps ==
  ASSUME IInv, NEW t \in Threads, SaveProject(t)
  PROVE  IInv'
  <1>1. /\ thread[t].pc = "save" /\ UNCHANGED <<sameSize, torn, disk, graph, poisoned, suspended,
                                      throttle, watched, holders, issued, ops, edits>>
        /\ reg' = [reg EXCEPT ![thread[t].proj] = [root |-> thread[t].root, auto |-> thread[t].flag]]
    BY DEF SaveProject, At
  <1>2. thread[t].op \in {"register", "auto-register", "repoint"}
    BY <1>1, Held DEF Placed
  <1>3. Done(t) \/ Goto(t, "probe") \/ Goto(t, "purge")
    <2>1. CASE thread[t].op = "register"
      BY <2>1 DEF SaveProject
    <2>2. CASE thread[t].op = "auto-register"
      BY <2>2 DEF SaveProject
    <2>3. CASE thread[t].op = "repoint"
      BY <2>3 DEF SaveProject
    <2> QED BY <1>2, <2>1, <2>2, <2>3
  <1>4. PICK c : Moves(t, c) /\ c.pc \in {"idle", "probe", "purge"}
    BY <1>1, <1>3, Ends, GoesOn, IdlePlaced DEF PCs
  <1>5. reg' \in [Projects -> Project \cup {Absent}]
    <2>1. [root |-> thread[t].root, auto |-> thread[t].flag] \in Project
      BY Held DEF Control, Project
    <2> QED BY <1>1, <2>1 DEF IInv, Tables
  <1>6. HeldInside' /\ OneIndexer'
    BY <1>1, <1>4, LocksKept DEF Inside
  <1>7. /\ suspended' \in [Projects -> BOOLEAN] /\ throttle' \in [Projects -> BOOLEAN]
        /\ watched' \subseteq Projects /\ ops' \in Nat /\ holders' \in [Projects -> SUBSET Threads]
    BY <1>1 DEF IInv, Tables, World
  <1> QED BY <1>1, <1>4, <1>5, <1>6, <1>7, QuietStep

\* A purge takes the index and the poisoned paths of a project together.
LEMMA PurgeKeeps ==
  ASSUME IInv, NEW t \in Threads, Purge(t)
  PROVE  IInv'
  <1> DEFINE p == thread[t].proj
  <1>1. /\ thread[t].pc = "purge" /\ p \in Projects
        /\ graph' = [graph EXCEPT ![p] = NoFile] /\ poisoned' = [poisoned EXCEPT ![p] = FALSE]
        /\ UNCHANGED <<reg, sameSize, torn, disk, suspended, throttle, watched, holders, issued, ops, edits>>
    BY Held DEF Purge, At
  <1>2. PICK c : Moves(t, c) /\ c.pc = "unsuspend"
    BY <1>1, GoesOn DEF Purge, PCs
  <1>3. HeldInside' /\ OneIndexer'
    BY <1>1, <1>2, LocksKept DEF Inside
  <1>4. Tables' /\ World'
    BY <1>1, IdlePlaced DEF IInv, Tables, World
  <1>5. PoisonCoversRecord'
    <2>1. ASSUME NEW q \in Projects, graph'[q].text \in SecretTexts, ~poisoned'[q], q \notin torn
          PROVE  \E u \in Threads : /\ thread'[u].pc = "poison" /\ thread'[u].proj = q
                                    /\ thread'[u].file.text \in SecretTexts
      <3>1. NoFile.text \notin SecretTexts
        BY CodeGraphAssumption DEF NoFile
      <3>2. q # p /\ graph'[q] = graph[q] /\ poisoned'[q] = poisoned[q]
        BY <1>1, <2>1, <3>1 DEF IInv, Tables
      <3>3. PICK u \in Threads : /\ thread[u].pc = "poison" /\ thread[u].proj = q
                                 /\ thread[u].file.text \in SecretTexts
        BY <2>1, <3>2 DEF IInv, PoisonCoversRecord, At
      <3>4. thread'[u] = thread[u]
        BY <1>1, <1>2, <3>3, ThreadsMove
      <3> QED BY <3>3, <3>4
    <2> QED BY <1>1, <2>1 DEF PoisonCoversRecord, At
  <1>6. holders' \in [Projects -> SUBSET Threads] /\ SnippetMatchesRecord'
    BY <1>1 DEF IInv, SnippetMatchesRecord
  <1> QED BY <1>2, <1>3, <1>4, <1>5, <1>6, ThreadsMove DEF IInv

\* The steps that set one flag of the automatic path and end, or drop the row.
LEMMA EndingsKeep ==
  ASSUME IInv, NEW t \in Threads,
         Unsuspend(t) \/ StampIndexed(t) \/ SuspendAuto(t) \/ DeleteProject(t)
  PROVE  IInv'
  <1>1. /\ thread[t].pc \in {"unsuspend", "stamp", "suspend", "deregister"}
        /\ UNCHANGED <<sameSize, torn, disk, graph, poisoned, throttle, watched, holders, issued,
                       ops, edits>>
        /\ reg' = reg \/ reg' = [reg EXCEPT ![thread[t].proj] = Absent]
        /\ \/ suspended' = suspended
           \/ \E v \in BOOLEAN : suspended' = [suspended EXCEPT ![thread[t].proj] = v]
        /\ Done(t) \/ Goto(t, "deregister")
    BY DEF Unsuspend, StampIndexed, SuspendAuto, DeleteProject, At
  <1>2. PICK c : Moves(t, c) /\ c.pc \in {"idle", "deregister"}
    BY <1>1, Ends, GoesOn, IdlePlaced DEF PCs
  <1>3. HeldInside' /\ OneIndexer'
    BY <1>1, <1>2, LocksKept DEF Inside
  <1>4. /\ reg' \in [Projects -> Project \cup {Absent}] /\ suspended' \in [Projects -> BOOLEAN]
    BY <1>1 DEF IInv, Tables
  <1>5. /\ throttle' \in [Projects -> BOOLEAN] /\ watched' \subseteq Projects
        /\ ops' \in Nat /\ holders' \in [Projects -> SUBSET Threads]
    BY <1>1 DEF IInv, Tables, World
  <1> QED BY <1>1, <1>2, <1>3, <1>4, <1>5, QuietStep

\* Who takes the project lock is the only one between reading files and poisoning them.
LEMMA AcquireLockKeeps ==
  ASSUME IInv, NEW t \in Threads, AcquireLock(t)
  PROVE  IInv'
  <1> DEFINE p == thread[t].proj
  <1>1. /\ thread[t].pc = "lock" /\ p \in Projects
        /\ UNCHANGED <<reg, graph, poisoned, suspended, throttle, sameSize, torn, disk, watched,
                       issued, ops, edits>>
    BY Held DEF AcquireLock, At, tables
  <1>2. /\ reg' \in [Projects -> Project \cup {Absent}] /\ suspended' \in [Projects -> BOOLEAN]
        /\ throttle' \in [Projects -> BOOLEAN] /\ watched' \subseteq Projects /\ ops' \in Nat
    BY <1>1 DEF IInv, Tables, World
  <1>3. CASE Done(t) /\ holders' = holders
    <2>1. Moves(t, Idle)
      BY <1>3, Ends
    <2>2. HeldInside' /\ OneIndexer'
      BY <1>1, <1>3, <2>1, LocksKept, IdlePlaced DEF Inside
    <2>3. holders' \in [Projects -> SUBSET Threads]
      BY <1>3 DEF IInv
    <2> QED BY <1>1, <1>2, <2>1, <2>2, <2>3, QuietStep
  <1>4. CASE /\ holders[p] \cap OtherInProcess(t) = {}
             /\ holders' = [holders EXCEPT ![p] = @ \cup {t}] /\ Goto(t, "read")
    <2>1. PICK c : Moves(t, c) /\ c.pc = "read" /\ c.proj = p
      BY <1>1, <1>4, GoesOn DEF PCs
    <2>2. HeldInside' /\ OneIndexer'
      BY <1>1, <1>4, <2>1, LocksTaken DEF Inside
    <2>3. holders' \in [Projects -> SUBSET Threads]
      BY <1>4 DEF IInv
    <2> QED BY <1>1, <1>2, <2>1, <2>2, <2>3, QuietStep
  <1> QED BY <1>3, <1>4 DEF AcquireLock

\* The exits of an index give the lock back.
LEMMA ReleaseKeeps ==
  ASSUME IInv, NEW t \in Threads, thread[t].pc \in Inside, NEW pc \in {"idle", "suspend", "stamp"},
         ReleaseTo(t, pc)
  PROVE  \E c : /\ Moves(t, c) /\ c.pc = pc
                /\ HeldInside' /\ OneIndexer' /\ holders' \in [Projects -> SUBSET Threads]
  <1>1. PICK c : Moves(t, c) /\ c.pc = pc
    <2>1. CASE pc = "idle"
      BY <2>1, Ends, IdlePlaced DEF ReleaseTo
    <2>2. CASE pc # "idle"
      BY <2>2, GoesOn DEF ReleaseTo, PCs, Inside
    <2> QED BY <2>1, <2>2
  <1>2. holders' = [holders EXCEPT ![thread[t].proj] = @ \ {t}]
    BY DEF ReleaseTo
  <1>3. HeldInside' /\ OneIndexer'
    BY <1>1, <1>2, LocksLeft DEF Inside
  <1>4. holders' \in [Projects -> SUBSET Threads]
    BY <1>2, Held DEF IInv, Inside
  <1> QED BY <1>1, <1>3, <1>4

\* A read or a stat of a file changes no graph.
LEMMA ReadingKeeps ==
  ASSUME IInv, NEW t \in Threads, ReadFile(t) \/ StatFile(t)
  PROVE  IInv'
  <1> DEFINE f == disk[thread[t].root]
  <1>1. /\ thread[t].pc \in {"read", "stat"}
        /\ UNCHANGED <<reg, graph, poisoned, suspended, throttle, sameSize, torn, disk, watched,
                       issued, ops, edits>>
    BY DEF ReadFile, StatFile, At, tables
  <1>2. /\ reg' \in [Projects -> Project \cup {Absent}] /\ suspended' \in [Projects -> BOOLEAN]
        /\ throttle' \in [Projects -> BOOLEAN] /\ watched' \subseteq Projects /\ ops' \in Nat
    BY <1>1 DEF IInv, Tables, World
  <1>3. thread[t].root \in Roots /\ f \in File \cup {Absent}
    BY <1>1, Held DEF IInv, World, Placed
  <1>4. CASE IndexFails(t)
    <2>1. PICK pc \in {"idle", "suspend"} : ReleaseTo(t, pc)
      BY <1>4 DEF IndexFails
    <2>2. PICK c : /\ Moves(t, c) /\ c.pc = pc
                   /\ HeldInside' /\ OneIndexer' /\ holders' \in [Projects -> SUBSET Threads]
      BY <1>1, <2>1, ReleaseKeeps DEF Inside
    <2> QED BY <1>1, <1>2, <2>2, QuietStep
  <1>5. CASE /\ holders' = holders
             /\ \E c \in Control : /\ thread' = [thread EXCEPT ![t] = c] /\ c.root = thread[t].root
                                   /\ c.proj = thread[t].proj /\ c.pc \in {"publish", "stat"}
    <2>1. PICK c \in Control : /\ thread' = [thread EXCEPT ![t] = c] /\ c.root = thread[t].root
                               /\ c.proj = thread[t].proj /\ c.pc \in {"publish", "stat"}
      BY <1>5
    <2>2. Moves(t, c)
      BY <1>1, <1>3, <2>1, Held DEF Moves, Placed
    <2>3. HeldInside' /\ OneIndexer' /\ holders' \in [Projects -> SUBSET Threads]
      BY <1>1, <1>5, <2>1, <2>2, LocksKept DEF Inside, IInv
    <2> QED BY <1>1, <1>2, <2>2, <2>3, QuietStep
  <1>6. CASE ReadFile(t) /\ ~IndexFails(t)
    <2> DEFINE read == IF f = Absent THEN NoFile ELSE [text |-> f.text, mtime |-> 0]
               pc   == IF f = Absent \/ f.text = Absent THEN "publish" ELSE "stat"
               c    == [thread[t] EXCEPT !.file = read, !.pc = pc]
    <2>1. read \in File /\ pc \in {"publish", "stat"}
      BY <1>3, IdlePlaced DEF File
    <2>2. thread' = [thread EXCEPT ![t].file = read, ![t].pc = pc] /\ holders' = holders
      BY <1>6 DEF ReadFile
    <2> HIDE DEF read, pc
    <2>3. thread' = [thread EXCEPT ![t] = c]
      BY <2>2
    <2>4. c \in Control /\ c.root = thread[t].root /\ c.proj = thread[t].proj /\ c.pc = pc
      BY <2>1, Held DEF Control, PCs
    <2> HIDE DEF c
    <2> QED BY <1>5, <2>1, <2>2, <2>3, <2>4
  <1>7. CASE StatFile(t) /\ ~IndexFails(t)
    <2> DEFINE read == [thread[t].file EXCEPT !.mtime = f.mtime]
               c    == [thread[t] EXCEPT !.pc = "publish", !.file = read]
    <2>1. f \in File
      BY <1>3, <1>7 DEF StatFile
    <2>2. read \in File
      BY <2>1, Held DEF File
    <2>3. thread' = [thread EXCEPT ![t].pc = "publish", ![t].file.mtime = f.mtime] /\ holders' = holders
      BY <1>7 DEF StatFile
    <2>4. thread' = [thread EXCEPT ![t] = c]
      BY <2>3
    <2> HIDE DEF read
    <2>5. c \in Control /\ c.root = thread[t].root /\ c.proj = thread[t].proj /\ c.pc = "publish"
      BY <2>2, Held DEF Control, PCs
    <2> HIDE DEF c
    <2> QED BY <1>5, <2>3, <2>4, <2>5
  <1> QED BY <1>4, <1>6, <1>7

\* publish_project_graph: the thread owes the poisoning of what it published.
LEMMA PublishKeeps ==
  ASSUME IInv, NEW t \in Threads, Publish(t)
  PROVE  IInv'
  <1> DEFINE p == thread[t].proj
  <1>1. /\ thread[t].pc = "publish" /\ p \in Projects /\ thread[t].file \in File
        /\ graph' = [graph EXCEPT ![p] = thread[t].file]
        /\ UNCHANGED <<reg, sameSize, torn, disk, poisoned, suspended, throttle, watched, holders,
                       issued, ops, edits>>
    BY Held DEF Publish, At
  <1>2. PICK c : Moves(t, c) /\ c.pc = "poison" /\ c.proj = p /\ c.file = thread[t].file
    BY <1>1, GoesOn DEF Publish, PCs
  <1>3. HeldInside' /\ OneIndexer'
    BY <1>1, <1>2, LocksKept DEF Inside
  <1>4. Tables' /\ World'
    BY <1>1 DEF IInv, Tables, World
  <1>5. PoisonCoversRecord'
    <2>1. ASSUME NEW q \in Projects, graph'[q].text \in SecretTexts, ~poisoned[q], q \notin torn
          PROVE  \E u \in Threads : /\ thread'[u].pc = "poison" /\ thread'[u].proj = q
                                    /\ thread'[u].file.text \in SecretTexts
      <3>1. thread'[t] = c
        BY <1>2, ThreadsMove
      <3>2. CASE q = p
        <4>1. graph'[q] = thread[t].file
          BY <1>1, <3>2 DEF IInv, Tables
        <4> QED BY <1>2, <2>1, <3>1, <3>2, <4>1
      <3>3. CASE q # p
        <4>1. graph'[q] = graph[q]
          BY <1>1, <3>3 DEF IInv, Tables
        <4>2. PICK u \in Threads : /\ thread[u].pc = "poison" /\ thread[u].proj = q
                                   /\ thread[u].file.text \in SecretTexts
          BY <2>1, <4>1 DEF IInv, PoisonCoversRecord, At
        <4>3. thread'[u] = thread[u]
          BY <1>1, <1>2, <4>2, ThreadsMove
        <4> QED BY <4>2, <4>3
      <3> QED BY <3>2, <3>3
    <2> QED BY <1>1, <2>1 DEF PoisonCoversRecord, At
  <1>6. holders' \in [Projects -> SUBSET Threads] /\ SnippetMatchesRecord'
    BY <1>1 DEF IInv, SnippetMatchesRecord
  <1> QED BY <1>2, <1>3, <1>4, <1>5, <1>6, ThreadsMove DEF IInv

\* add_poisoned_paths: what the thread owed is in the set.
LEMMA AddPoisonedKeeps ==
  ASSUME IInv, NEW t \in Threads, AddPoisoned(t)
  PROVE  IInv'
  <1> DEFINE p == thread[t].proj
             secret == thread[t].file.text \in SecretTexts
  <1>1. /\ thread[t].pc = "poison" /\ p \in Projects
        /\ poisoned' = [poisoned EXCEPT ![p] = @ \/ secret]
        /\ UNCHANGED <<reg, sameSize, torn, disk, graph, suspended, throttle, watched, issued, ops, edits>>
    BY Held DEF AddPoisoned, At
  <1>2. PICK c : /\ Moves(t, c) /\ c.pc = "stamp"
                 /\ HeldInside' /\ OneIndexer' /\ holders' \in [Projects -> SUBSET Threads]
    BY <1>1, ReleaseKeeps DEF AddPoisoned, Inside
  <1>3. poisoned' \in [Projects -> BOOLEAN]
    BY <1>1, Zenon DEF IInv, Tables
  <1>4. Tables' /\ World'
    BY <1>1, <1>3 DEF IInv, Tables, World
  <1>5. /\ \A q \in Projects : poisoned[q] => poisoned'[q]
        /\ secret => poisoned'[p]
    <2>1. poisoned \in [Projects -> BOOLEAN]
      BY DEF IInv, Tables
    <2>2. poisoned'[p] = (poisoned[p] \/ secret)
      BY <1>1, <2>1, Zenon
    <2>3. \A q \in Projects : q # p => poisoned'[q] = poisoned[q]
      BY <1>1, <2>1
    <2> HIDE DEF p, secret
    <2>4. ASSUME NEW q \in Projects, poisoned[q] PROVE poisoned'[q]
      <3>1. CASE q = p
        BY <2>2, <2>4, <3>1
      <3>2. CASE q # p
        BY <2>3, <2>4, <3>2
      <3> QED BY <3>1, <3>2
    <2>5. secret => poisoned'[p]
      BY <2>2
    <2> QED BY <2>4, <2>5
  <1>6. PoisonCoversRecord'
    <2>1. ASSUME NEW q \in Projects, graph[q].text \in SecretTexts, ~poisoned'[q], q \notin torn
          PROVE  \E u \in Threads : /\ thread'[u].pc = "poison" /\ thread'[u].proj = q
                                    /\ thread'[u].file.text \in SecretTexts
      <3>1. PICK u \in Threads : /\ thread[u].pc = "poison" /\ thread[u].proj = q
                                 /\ thread[u].file.text \in SecretTexts
        BY <1>5, <2>1 DEF IInv, PoisonCoversRecord, At
      <3>2. u # t
        BY <1>5, <2>1, <3>1
      <3>3. thread'[u] = thread[u]
        BY <1>2, <3>2, ThreadsMove
      <3> QED BY <3>1, <3>3
    <2> QED BY <1>1, <2>1 DEF PoisonCoversRecord, At
  <1>7. SnippetMatchesRecord'
    BY <1>1 DEF IInv, SnippetMatchesRecord
  <1> QED BY <1>2, <1>4, <1>6, <1>7, ThreadsMove DEF IInv

\* The probe for a root's new place only moves the thread on.
LEMMA ProbeHintKeeps ==
  ASSUME IInv, NEW t \in Threads, ProbeHint(t)
  PROVE  IInv'
  <1> DEFINE p == thread[t].proj
  <1>1. /\ thread[t].pc = "probe" /\ p \in Projects
        /\ throttle' = throttle \/ throttle' = [throttle EXCEPT ![p] = TRUE]
        /\ UNCHANGED <<reg, sameSize, torn, disk, graph, poisoned, suspended, watched, holders,
                       issued, ops, edits>>
    BY Held DEF ProbeHint, At
  <1>2. PICK c : Moves(t, c) /\ c.pc \in {"idle", "lock"}
    <2>1. CASE Done(t)
      BY <2>1, Ends, IdlePlaced
    <2>2. CASE Resolves(p) /\ \E op \in {"auto-first", "index"} : Start(t, "lock", op, p, reg[p].root, FALSE)
      <3>1. PICK op \in {"auto-first", "index"} : Start(t, "lock", op, p, reg[p].root, FALSE)
        BY <2>2
      <3>2. PICK c : c = [pc |-> "lock", op |-> op, proj |-> p, root |-> reg[p].root, file |-> NoFile,
                          flag |-> FALSE]
        OBVIOUS
      <3>3. reg[p].root \in Roots
        BY <1>1, <2>2, Resolved
      <3>4. Moves(t, c)
        <4>1. "lock" \in PCs /\ op \in Ops /\ p \in Projects
          BY <1>1 DEF PCs, Ops
        <4>2. Moves(t, [pc |-> "lock", op |-> op, proj |-> p, root |-> reg[p].root, file |-> NoFile,
                        flag |-> FALSE])
          BY <3>1, <3>3, <4>1, Starts
        <4> QED BY <3>2, <4>2
      <3> QED BY <3>2, <3>4
    <2> QED BY <2>1, <2>2 DEF ProbeHint
  <1>3. HeldInside' /\ OneIndexer'
    BY <1>1, <1>2, LocksKept DEF Inside
  <1>4. /\ throttle' \in [Projects -> BOOLEAN] /\ reg' \in [Projects -> Project \cup {Absent}]
        /\ suspended' \in [Projects -> BOOLEAN]
        /\ watched' \subseteq Projects /\ ops' \in Nat /\ holders' \in [Projects -> SUBSET Threads]
    BY <1>1 DEF IInv, Tables, World
  <1> QED BY <1>1, <1>2, <1>3, <1>4, QuietStep

\* Reading a file's record for a snippet only fills the thread's hand.
LEMMA SnippetRecordKeeps ==
  ASSUME IInv, NEW t \in Threads, SnippetRecord(t)
  PROVE  IInv'
  <1> DEFINE p == thread[t].proj
  <1>1. /\ thread[t].pc = "record" /\ p \in Projects /\ graph[p] \in File
        /\ UNCHANGED <<reg, sameSize, torn, disk, graph, poisoned, suspended, throttle, watched,
                       holders, issued, ops, edits>>
    BY Held DEF SnippetRecord, At, tables, IInv, Tables
  <1>2. PICK c : Moves(t, c) /\ c.pc \in {"idle", "serve"}
    <2>1. CASE Done(t)
      BY <2>1, Ends, IdlePlaced
    <2>2. CASE thread' = [thread EXCEPT ![t].file = graph[p], ![t].pc = "serve"]
      <3> DEFINE c == [thread[t] EXCEPT !.file = graph[p], !.pc = "serve"]
      <3>1. thread' = [thread EXCEPT ![t] = c]
        BY <2>2
      <3>2. /\ c \in Control /\ c.pc = "serve" /\ c.root = thread[t].root /\ c.proj = p
        BY <1>1, Held DEF Control, PCs
      <3> HIDE DEF c
      <3>3. Placed(c)
        BY <1>1, <3>2, Held DEF Placed
      <3> QED BY <3>1, <3>2, <3>3 DEF Moves
    <2> QED BY <2>1, <2>2 DEF SnippetRecord
  <1>3. HeldInside' /\ OneIndexer'
    BY <1>1, <1>2, LocksKept DEF Inside
  <1>4. /\ throttle' \in [Projects -> BOOLEAN] /\ reg' \in [Projects -> Project \cup {Absent}]
        /\ suspended' \in [Projects -> BOOLEAN]
        /\ watched' \subseteq Projects /\ ops' \in Nat /\ holders' \in [Projects -> SUBSET Threads]
    BY <1>1 DEF IInv, Tables, World
  <1> QED BY <1>1, <1>2, <1>3, <1>4, QuietStep

\* What is shown has the hash of the record.
LEMMA SnippetServeKeeps ==
  ASSUME IInv, NEW t \in Threads, SnippetServe(t)
  PROVE  IInv'
  <1> DEFINE f == disk[thread[t].root]
  <1>1. /\ thread[t].pc = "serve" /\ f \in File \cup {Absent} /\ thread[t].file \in File
        /\ UNCHANGED <<reg, sameSize, torn, disk, graph, poisoned, suspended, throttle, watched,
                       holders, ops, edits>>
    BY Held DEF SnippetServe, At, tables, IInv, World, Placed
  <1>2. Moves(t, Idle)
    BY Ends DEF SnippetServe
  <1>3. /\ issued' \in [shown : Texts \cup {Absent}, record : Texts \cup {Absent}]
        /\ SnippetMatchesRecord'
    <2>1. CASE issued' = issued
      BY <2>1 DEF IInv, World, SnippetMatchesRecord
    <2>2. CASE f # Absent /\ HashMatches(thread[t].file, f)
               /\ issued' = [shown |-> f.text, record |-> thread[t].file.text]
      <3>1. f.text \in Texts \cup {Absent} /\ thread[t].file.text = f.text
        BY <1>1, <2>2 DEF File, HashMatches
      <3> HIDE DEF f
      <3> QED BY <2>2, <3>1 DEF SnippetMatchesRecord
    <2> QED BY <2>1, <2>2 DEF SnippetServe
  <1>4. HeldInside' /\ OneIndexer'
    BY <1>1, <1>2, LocksKept, IdlePlaced DEF Inside
  <1>5. PoisonCoversRecord'
    BY <1>1, <1>2, StillCovered
  <1>6. Tables' /\ World' /\ holders' \in [Projects -> SUBSET Threads]
    BY <1>1, <1>3 DEF IInv, Tables, World
  <1> QED BY <1>2, <1>3, <1>4, <1>5, <1>6, ThreadsMove DEF IInv

\* Steps that no thread of the program takes: edits, moves, the clock, a watch.
LEMMA SurroundingsKeep ==
  ASSUME IInv, UNCHANGED <<graph, poisoned, torn, holders, thread, issued>>, Tables', World'
  PROVE  IInv'
  <1>1. PoisonCoversRecord' /\ SnippetMatchesRecord' /\ HeldInside' /\ OneIndexer'
    BY DEF IInv, PoisonCoversRecord, SnippetMatchesRecord, HeldInside, OneIndexer, At
  <1>2. \A t \in Threads : Placed(thread[t])'
    BY DEF IInv, Placed
  <1> QED BY <1>1, <1>2 DEF IInv

\* Edits, moves, intervals and watches leave every graph alone.
LEMMA WorldKeeps ==
  ASSUME IInv,
         \/ \E r \in Roots, c \in Texts \cup {Absent} : Edit(r, c)
         \/ \E r, s \in Roots : Move(r, s)
         \/ \E p \in Projects : IntervalElapses(p) \/ Watch(p)
         \/ UNCHANGED vars
  PROVE  IInv'
  <1>1. ASSUME NEW r \in Roots, NEW c \in Texts \cup {Absent}, Edit(r, c)
        PROVE  IInv'
    <2>1. [text |-> c, mtime |-> edits + 1] \in File
      BY DEF File, IInv, World
    <2>2. disk' \in [Roots -> File \cup {Absent}] /\ edits' \in Nat
      BY <1>1, <2>1 DEF Edit, IInv, World
    <2>3. Tables' /\ World'
      BY <1>1, <2>2 DEF Edit, IInv, Tables, World, tables
    <2> QED BY <1>1, <2>3, SurroundingsKeep DEF Edit, tables
  <1>2. ASSUME NEW r \in Roots, NEW s \in Roots, Move(r, s)
        PROVE  IInv'
    <2>1. disk' \in [Roots -> File \cup {Absent}] /\ edits' \in Nat
      BY <1>2 DEF Move, IInv, World
    <2>2. Tables' /\ World'
      BY <1>2, <2>1 DEF Move, IInv, Tables, World, tables
    <2> QED BY <1>2, <2>2, SurroundingsKeep DEF Move, tables
  <1>3. ASSUME NEW p \in Projects, IntervalElapses(p)
        PROVE  IInv'
    <2>1. Tables' /\ World'
      BY <1>3 DEF IntervalElapses, IInv, Tables, World
    <2> QED BY <1>3, <2>1, SurroundingsKeep DEF IntervalElapses
  <1>4. ASSUME NEW p \in Projects, Watch(p)
        PROVE  IInv'
    <2>1. Tables' /\ World'
      BY <1>4 DEF Watch, IInv, Tables, World, tables
    <2> QED BY <1>4, <2>1, SurroundingsKeep DEF Watch, tables
  <1>5. CASE UNCHANGED vars
    <2>1. Tables' /\ World'
      BY <1>5 DEF vars, IInv, Tables, World
    <2> QED BY <1>5, <2>1, SurroundingsKeep DEF vars
  <1> QED BY <1>1, <1>2, <1>3, <1>4, <1>5

\* A process dies: what it owed is torn, its locks are free.
LEMMA CrashKeeps ==
  ASSUME IInv, NEW t \in Threads, Crash(t)
  PROVE  IInv'
  <1> DEFINE dead == OtherInProcess(t)
  <1>1. /\ thread' = [u \in Threads |-> IF u \in dead THEN Idle ELSE thread[u]]
        /\ holders' = [p \in Projects |-> holders[p] \ dead]
        /\ watched' \subseteq watched /\ edits' = edits + 1
        /\ torn' = torn \cup {thread[u].proj : u \in {v \in dead : At(v, "poison")}}
        /\ UNCHANGED <<reg, graph, poisoned, suspended, throttle, sameSize, disk, issued, ops>>
    BY DEF Crash, tables
  <1>2. dead \subseteq Threads
    BY CodeGraphAssumption DEF OtherInProcess
  <1>3. thread' \in [Threads -> Control] /\ (\A u \in Threads : Placed(thread[u]))'
    <2>1. \A u \in Threads : thread'[u] = Idle \/ thread'[u] = thread[u]
      BY <1>1
    <2>2. thread' \in [Threads -> Control]
      BY <1>1, IdlePlaced DEF IInv
    <2>3. \A u \in Threads : Placed(thread'[u])
      BY <2>1, IdlePlaced DEF IInv
    <2> QED BY <2>2, <2>3 DEF Placed
  <1>4. torn' \subseteq Projects
    <2>1. \A v \in dead : At(v, "poison") => thread[v].proj \in Projects
      BY <1>2, Held DEF At
    <2> HIDE DEF dead
    <2> QED BY <1>1, <2>1 DEF IInv, World
  <1>5. Tables' /\ World' /\ holders' \in [Projects -> SUBSET Threads]
    BY <1>1, <1>4 DEF IInv, Tables, World
  <1>6. HeldInside' /\ OneIndexer'
    <2>1. \A u \in Threads : thread'[u] = IF u \in dead THEN Idle ELSE thread[u]
      BY <1>1
    <2>2. \A p \in Projects : holders'[p] = holders[p] \ dead
      BY <1>1
    <2>3. Idle.pc \notin Inside
      BY DEF Idle, Inside
    <2> HIDE DEF dead
    <2> QED BY <2>1, <2>2, <2>3 DEF IInv, HeldInside, OneIndexer
  <1>7. PoisonCoversRecord'
    <2>1. ASSUME NEW q \in Projects, graph[q].text \in SecretTexts, ~poisoned[q], q \notin torn'
          PROVE  \E u \in Threads : /\ thread'[u].pc = "poison" /\ thread'[u].proj = q
                                    /\ thread'[u].file.text \in SecretTexts
      <3>1. PICK u \in Threads : /\ thread[u].pc = "poison" /\ thread[u].proj = q
                                 /\ thread[u].file.text \in SecretTexts
        BY <1>1, <2>1 DEF IInv, PoisonCoversRecord, At
      <3>2. u \notin dead
        BY <1>1, <2>1, <3>1 DEF At
      <3>3. thread'[u] = thread[u]
        BY <1>1, <3>2
      <3> QED BY <3>1, <3>3
    <2> QED BY <1>1, <2>1 DEF PoisonCoversRecord, At
  <1>8. SnippetMatchesRecord'
    BY <1>1 DEF IInv, SnippetMatchesRecord
  <1> QED BY <1>3, <1>5, <1>6, <1>7, <1>8 DEF IInv

-----------------------------------------------------------------------------
(* The theorems.                                                           *)

\* Nothing is indexed, poisoned or under way at the start.
LEMMA Initially == Init => IInv
  <1> SUFFICES ASSUME Init PROVE IInv
    OBVIOUS
  <1>1. Tables /\ World
    BY DEF Init, Tables, World, Project, NoFile, File
  <1>2. /\ holders \in [Projects -> SUBSET Threads]
        /\ thread \in [Threads -> Control] /\ \A t \in Threads : thread[t] = Idle
    BY IdlePlaced DEF Init
  <1>3. \A t \in Threads : Placed(thread[t]) /\ thread[t].pc \notin Inside
    BY <1>2, IdlePlaced DEF Inside
  <1>4. HeldInside /\ OneIndexer
    BY <1>3 DEF Init, HeldInside, OneIndexer
  <1>5. SnippetMatchesRecord /\ PoisonCoversRecord
    BY CodeGraphAssumption DEF Init, SnippetMatchesRecord, PoisonCoversRecord, NoFile
  <1> QED BY <1>1, <1>2, <1>3, <1>4, <1>5 DEF IInv

\* Every step of a thread and of the world keeps the invariant.
LEMMA StepKeeps ==
  ASSUME IInv, [Next]_vars
  PROVE  IInv'
  <1>1. ASSUME NEW t \in Threads, Proceed(t)
        PROVE  IInv'
    BY <1>1, SaveProjectKeeps, PurgeKeeps, EndingsKeep, AcquireLockKeeps, ReadingKeeps, PublishKeeps,
       AddPoisonedKeeps, ProbeHintKeeps, SnippetRecordKeeps, SnippetServeKeeps DEF Proceed
  <1>2. ASSUME NEW t \in Threads, Crash(t)
        PROVE  IInv'
    BY <1>2, CrashKeeps
  <1>3. ASSUME NEW t \in Threads, NEW p \in Projects, NEW r \in Roots,
               Register(t, p, r) \/ Repoint(t, p, r) \/ ProcessHint(t, p, r)
        PROVE  IInv'
    BY <1>3, OperationsKeep
  <1>4. ASSUME NEW t \in Threads, NEW p \in Projects,
               \/ DeleteGraph(t, p) \/ Snippet(t, p)
               \/ \E full \in BOOLEAN : IndexProject(t, p, full)
        PROVE  IInv'
    BY <1>4, RegisteredOperationsKeep
  <1>5. ASSUME NEW t \in Threads, NEW p \in Projects, Poll(t, p)
        PROVE  IInv'
    BY <1>5, PollKeeps
  <1> QED BY <1>1, <1>2, <1>3, <1>4, <1>5, WorldKeeps DEF Next

\* What get_code_snippet shows is the text the graph was built from, and a
\* published secret is in the poisoned set, or about to be, or its index died
\* in between: for any threads of any processes, with edits, moves, purges,
\* repoints and crashes between any two statements.
THEOREM GraphSafety == Spec => []GraphSafe
  <1>1. Spec => []IInv
    BY Initially, StepKeeps, PTL DEF Spec
  <1>2. IInv => GraphSafe
    BY DEF IInv, Tables, World, Control, GraphSafe, TypeOK
  <1> QED BY <1>1, <1>2, PTL

\* _lock_for: in the server process no two threads are between the reading of
\* a project's files and the poisoning of its paths, and who is there holds
\* the lock.
THEOREM IndexesDoNotOverlap == Spec => [](HeldInside /\ OneIndexer)
  <1>1. Spec => []IInv
    BY Initially, StepKeeps, PTL DEF Spec
  <1>2. IInv => HeldInside /\ OneIndexer
    BY DEF IInv
  <1> QED BY <1>1, <1>2, PTL
=============================================================================
