-------------------------------- MODULE Vitals --------------------------------
(***************************************************************************)
(* The metrics sidecar: the fingerprint key that every process adopts or   *)
(* mints when it starts, the bootstrap of a thread's connection with the   *)
(* rebuild of a five-kind awareness_events table, and the writes of the    *)
(* pre_llm_call hook and of the heartbeat, which may fail but never fail   *)
(* their host.                                                             *)
(*                                                                         *)
(* SQLite gives the write lock to one connection; a statement that meets   *)
(* a taken lock fails after its 250 ms.  Statements of one call on other   *)
(* files or on a released lock are steps of their own.                     *)
(***************************************************************************)
EXTENDS Naturals, FiniteSets

CONSTANTS
  Procs,       \* processes that open the sidecar
  Threads,     \* their threads
  ProcOf,      \* the process of a thread
  None,        \* no thread
  MaxKeys,     \* keys ever minted
  MaxCalls, MaxFaults

\* What the bounds and names are.
LimitsOK ==
  /\ MaxKeys \in Nat \ {0} /\ MaxCalls \in Nat
  /\ ProcOf \in [Threads -> Procs] /\ None \notin Threads

VARIABLES
  file,        \* the .hkey file: its state and the key it holds
  start,       \* per process: its place in _load_or_create_key
  key,         \* per process: the key in memory, 0 for none
  shape,       \* the CHECK of awareness_events: five kinds, or six
  lock,        \* the connection that holds the write lock
  boot,        \* per process: the thread that holds _bootstrap_lock
  conn,        \* per thread: whether it has a connection
  work,        \* per thread: the call it makes
  open,        \* per thread: rows of its open transaction
  rows,        \* committed rows of assemble_metrics with their blocks
  events,      \* committed rows of awareness_events
  closed,      \* per process: close() was called
  answered,    \* ghost: calls that were given the id of their row
  cut,         \* ghost: calls a crash interrupted
  lostKey,     \* ghost: a key file was removed after it had been written
  hindered,    \* ghost: processes whose key load met a fault or another's half-written file
  minted, calls, faults

vitalsVars == <<file, start, key, shape, lock, boot, conn, work, open, rows, events, closed,
                answered, cut, lostKey, hindered, minted, calls, faults>>
keyVars  == <<file, start, key, lostKey, hindered, minted>>
dataVars == <<shape, lock, boot, conn, work, open, rows, events, closed, answered, cut, calls>>

Blocks   == 0..2                     \* blocks of an assembled context
Row      == [call : 1..MaxCalls, blocks : Blocks, want : Blocks, key : 0..MaxKeys]
Event    == [call : 1..MaxCalls, kind : {"old", "hint"}]
\* want: the blocks of the assembly; bad: its last block does not convert
Idle     == [pc |-> "idle", kind |-> "none", call |-> 0, want |-> 0, bad |-> FALSE]
Absent   == [state |-> "absent", key |-> 0]
Alive(p) == start[p] = "ready"

TypeOK ==
  /\ file \in [state : {"absent", "empty", "good"}, key : 0..MaxKeys]
  /\ start \in [Procs -> {"down", "check", "create", "reread", "write", "finish", "ready"}]
  /\ key \in [Procs -> 0..MaxKeys]
  /\ shape \in {"five", "six"}
  /\ lock \in Threads \cup {None}
  /\ boot \in [Procs -> Threads \cup {None}]
  /\ conn \in [Threads -> BOOLEAN]
  /\ work \in [Threads -> [pc : {"idle", "connect", "shape", "rebuild", "insert", "blocks",
                                 "commit", "tail"},
                           kind : {"none", "assemble", "old", "hint"}, call : 0..MaxCalls,
                           want : Blocks, bad : BOOLEAN]]
  /\ \A t \in Threads : open[t] \subseteq Row /\ (open[t] # {} => lock = t)
  /\ rows \subseteq Row
  /\ events \subseteq Event
  /\ closed \in [Procs -> BOOLEAN]

\* Nothing is on disk and no process is up.
Fresh ==
  /\ file = Absent
  /\ start = [p \in Procs |-> "down"]
  /\ key = [p \in Procs |-> 0]
  /\ minted = 0

\* An install in use: every process has loaded the key.
Running ==
  /\ file = [state |-> "good", key |-> 1]
  /\ start = [p \in Procs |-> "ready"]
  /\ key = [p \in Procs |-> 1]
  /\ minted = 1

Init ==
  /\ Fresh \/ Running
  /\ shape \in {"five", "six"}
  /\ lock = None
  /\ boot = [p \in Procs |-> None]
  /\ conn = [t \in Threads |-> FALSE]
  /\ work = [t \in Threads |-> Idle]
  /\ open = [t \in Threads |-> {}]
  /\ rows = {} /\ events = {} /\ answered = {} /\ cut = {} /\ hindered = {}
  /\ closed = [p \in Procs |-> FALSE]
  /\ lostKey = FALSE
  /\ calls = 0 /\ faults = 0

-----------------------------------------------------------------------------
(* _load_or_create_key.                                                    *)

Start(p) ==
  /\ start[p] = "down"
  /\ start' = [start EXCEPT ![p] = "check"]
  /\ key' = [key EXCEPT ![p] = 0]
  /\ UNCHANGED <<file, lostKey, hindered, minted>>

\* A file of the right length is the key; anything else goes on to the
\* exclusive create, which then fails.
CheckKey(p) ==
  /\ start[p] = "check"
  /\ IF file.state = "good"
     THEN key' = [key EXCEPT ![p] = file.key] /\ start' = [start EXCEPT ![p] = "ready"]
     ELSE UNCHANGED key /\ start' = [start EXCEPT ![p] = "create"]
  /\ UNCHANGED <<file, lostKey, hindered, minted>>

Exclusive == file.state # "absent"

\* O_CREAT | O_EXCL
CreateKey(p) ==
  /\ start[p] = "create"
  /\ IF Exclusive
     THEN start' = [start EXCEPT ![p] = "reread"] /\ UNCHANGED file
     ELSE start' = [start EXCEPT ![p] = "write"] /\ file' = [state |-> "empty", key |-> 0]
  /\ UNCHANGED <<key, lostKey, hindered, minted>>

\* The loser adopts the winner's key, if the winner has written it by now.
Adopted == file.key

RereadKey(p) ==
  /\ start[p] = "reread"
  /\ key' = [key EXCEPT ![p] = Adopted]
  /\ start' = [start EXCEPT ![p] = "ready"]
  /\ hindered' = IF file.state # "good" THEN hindered \cup {p} ELSE hindered
  /\ UNCHANGED <<file, lostKey, minted>>

WriteKey(p) ==
  /\ start[p] = "write" /\ minted < MaxKeys
  /\ minted' = minted + 1
  /\ file' = [state |-> "good", key |-> minted + 1]
  /\ start' = [start EXCEPT ![p] = "finish"]
  /\ UNCHANGED <<key, lostKey, hindered>>

\* chmod, then the file is read back.
FinishKey(p) ==
  /\ start[p] = "finish"
  /\ key' = [key EXCEPT ![p] = file.key]
  /\ start' = [start EXCEPT ![p] = "ready"]
  /\ UNCHANGED <<file, lostKey, hindered, minted>>

\* An OSError in a file this process created: the residue is unlinked.
KeyFault(p) ==
  /\ faults < MaxFaults
  /\ start[p] \in {"create", "write", "finish"}
  /\ file' = IF start[p] = "create" THEN file ELSE Absent
  /\ lostKey' = (lostKey \/ start[p] = "finish")
  /\ start' = [start EXCEPT ![p] = "ready"]
  /\ hindered' = hindered \cup {p}
  /\ UNCHANGED <<key, minted>>

\* The corrupt file is removed manually.
RemoveKey ==
  /\ file.state = "empty"
  /\ \A p \in Procs : start[p] # "write"
  /\ file' = Absent
  /\ UNCHANGED <<start, key, lostKey, hindered, minted>>

LoadKey(p) ==
  /\ Start(p) \/ CheckKey(p) \/ CreateKey(p) \/ RereadKey(p) \/ WriteKey(p) \/ FinishKey(p)
  /\ UNCHANGED faults

-----------------------------------------------------------------------------
(* A thread's connection.                                                  *)

Free(t) == lock \in {None, t}

\* Mutant: the open transaction stays open.
RolledBack_open(t) == open

RolledBack(t) == [open EXCEPT ![t] = {}]

\* What the caller does once the record was written or dropped.
After(kind) == IF kind = "assemble" THEN "tail" ELSE "idle"

\* The connection or the statement failed: the host gets None and goes on.
Fails(t) ==
  /\ work' = [work EXCEPT ![t].pc = After(work[t].kind)]
  /\ open' = RolledBack(t)
  /\ lock' = IF lock = t /\ open'[t] = {} THEN None ELSE lock
  /\ boot' = [boot EXCEPT ![ProcOf[t]] = IF @ = t THEN None ELSE @]
  /\ UNCHANGED <<shape, conn, rows, events, closed, answered, cut, calls>>

Call(t, kind, want, bad) ==
  /\ Alive(ProcOf[t]) /\ work[t].pc = "idle" /\ calls < MaxCalls
  /\ work' = [work EXCEPT ![t] = [pc |-> IF closed[ProcOf[t]] THEN After(kind)
                                         ELSE IF conn[t] THEN "insert" ELSE "connect",
                                  kind |-> kind, call |-> calls + 1, want |-> want, bad |-> bad]]
  /\ calls' = calls + 1
  /\ UNCHANGED <<shape, lock, boot, conn, open, rows, events, closed, answered, cut>>

\* pre_llm_call: the graph hint may fail and is forgotten, an assembly that
\* raises ends the call (no step here), the assembled result is recorded before
\* the awareness tail is composed.
PreLlmCall(t) == \E want \in Blocks, bad \in BOOLEAN : Call(t, "assemble", want, bad)

\* record_awareness_event after a heartbeat.
Heartbeat(t) == \E kind \in {"old", "hint"} : Call(t, kind, 0, FALSE)

\* The awareness section, or an error of it, whatever became of the record.
ComposeTail(t) ==
  /\ work[t].pc = "tail"
  /\ work' = [work EXCEPT ![t] = Idle]
  /\ UNCHANGED <<shape, lock, boot, conn, open, rows, events, closed, answered, cut, calls>>

\* The bootstrap lock of the process, and the CREATE ... IF NOT EXISTS statements.
Connect(t) ==
  /\ work[t].pc = "connect" /\ boot[ProcOf[t]] = None
  /\ Free(t)
  /\ boot' = [boot EXCEPT ![ProcOf[t]] = t]
  /\ work' = [work EXCEPT ![t].pc = "shape"]
  /\ UNCHANGED <<shape, lock, conn, open, rows, events, closed, answered, cut, calls>>

NeedsRebuild == shape = "five"

Connected(t) ==
  /\ conn' = [conn EXCEPT ![t] = TRUE]
  /\ boot' = [boot EXCEPT ![ProcOf[t]] = None]
  /\ work' = [work EXCEPT ![t].pc = "insert"]

\* The stored DDL is read outside the transaction of the rebuild.
ReadShape(t) ==
  /\ work[t].pc = "shape"
  /\ IF NeedsRebuild THEN work' = [work EXCEPT ![t].pc = "rebuild"] /\ UNCHANGED <<conn, boot>>
                     ELSE Connected(t)
  /\ UNCHANGED <<shape, lock, open, rows, events, closed, answered, cut, calls>>

Copied == events

\* BEGIN IMMEDIATE; create, copy, drop, rename; COMMIT - also when another
\* process has rebuilt the table since this one read its shape.
Rebuild(t) ==
  /\ work[t].pc = "rebuild" /\ Free(t)
  /\ shape' = "six"
  /\ events' = Copied
  /\ Connected(t)
  /\ UNCHANGED <<lock, open, rows, closed, answered, cut, calls>>

-----------------------------------------------------------------------------
(* The writes.                                                             *)

\* The CHECK of the table refuses a kind it does not list.
Refused(t) == work[t].kind = "hint" /\ shape = "five"

Insert(t) ==
  /\ work[t].pc = "insert" /\ Free(t) /\ ~Refused(t)
  /\ lock' = t
  /\ open' = IF work[t].kind # "assemble" THEN open
             ELSE [open EXCEPT ![t] = @ \cup {[call |-> work[t].call, blocks |-> 0,
                                               want |-> work[t].want, key |-> key[ProcOf[t]]]}]
  /\ work' = [work EXCEPT ![t].pc = IF work[t].kind = "assemble" /\ work[t].want > 0
                                    THEN "blocks" ELSE "commit"]
  /\ UNCHANGED <<shape, boot, conn, rows, events, closed, answered, cut, calls>>

Mine(t, r) == r.call = work[t].call

\* One turn of _record_blocks; a value that does not convert raises.
InsertBlock(t) ==
  /\ work[t].pc = "blocks"
  /\ \E r \in open[t] :
       /\ Mine(t, r)
       /\ ~(work[t].bad /\ r.blocks + 1 = r.want)
       /\ open' = [open EXCEPT ![t] = (@ \ {r}) \cup {[r EXCEPT !.blocks = @ + 1]}]
       /\ work' = [work EXCEPT ![t].pc = IF r.blocks + 1 = r.want THEN "commit" ELSE "blocks"]
  /\ UNCHANGED <<shape, lock, boot, conn, rows, events, closed, answered, cut, calls>>

\* The commit takes everything the connection's transaction holds.
Commit(t) ==
  /\ work[t].pc = "commit"
  /\ rows' = rows \cup open[t]
  /\ events' = IF work[t].kind = "assemble" THEN events
               ELSE events \cup {[call |-> work[t].call, kind |-> work[t].kind]}
  /\ open' = [open EXCEPT ![t] = {}]
  /\ lock' = None
  /\ answered' = answered \cup {work[t].call}
  /\ work' = [work EXCEPT ![t].pc = After(work[t].kind)]
  /\ UNCHANGED <<shape, boot, conn, closed, cut, calls>>

\* A statement that fails: the lock is taken, the CHECK refuses, a block does
\* not convert.
Abandon(t) ==
  /\ \/ work[t].pc \in {"connect", "rebuild", "insert"} /\ ~Free(t)
     \/ work[t].pc = "insert" /\ Refused(t)
     \/ work[t].pc = "blocks" /\ work[t].bad
  /\ Fails(t)

\* close() by a thread of the process: only its own connection is closed.
Close(t) ==
  /\ Alive(ProcOf[t]) /\ work[t].pc = "idle" /\ ~closed[ProcOf[t]]
  /\ closed' = [closed EXCEPT ![ProcOf[t]] = TRUE]
  /\ conn' = [conn EXCEPT ![t] = FALSE]
  /\ open' = RolledBack(t)
  /\ lock' = IF lock = t THEN None ELSE lock
  /\ UNCHANGED <<shape, boot, work, rows, events, answered, cut, calls>>

Record(t) ==
  \/ PreLlmCall(t) \/ Heartbeat(t) \/ ComposeTail(t) \/ Connect(t) \/ ReadShape(t) \/ Rebuild(t)
  \/ Insert(t) \/ InsertBlock(t) \/ Commit(t) \/ Abandon(t) \/ Close(t)

\* The process dies: its transactions roll back, its memory is gone.
Crash(p) ==
  /\ faults < MaxFaults /\ start[p] # "down"
  /\ start' = [start EXCEPT ![p] = "down"]
  /\ key' = [key EXCEPT ![p] = 0]
  /\ LET mine == {t \in Threads : ProcOf[t] = p}
     IN /\ open' = [t \in Threads |-> IF t \in mine THEN {} ELSE open[t]]
        /\ conn' = [t \in Threads |-> IF t \in mine THEN FALSE ELSE conn[t]]
        /\ work' = [t \in Threads |-> IF t \in mine THEN Idle ELSE work[t]]
        /\ lock' = IF lock \in mine THEN None ELSE lock
        /\ cut' = cut \cup {work[t].call : t \in mine}
  /\ boot' = [boot EXCEPT ![p] = None]
  /\ closed' = [closed EXCEPT ![p] = FALSE]
  /\ hindered' = hindered \ {p}
  /\ UNCHANGED <<file, shape, rows, events, answered, lostKey, minted, calls>>

KeyNext ==
  \/ \E p \in Procs : LoadKey(p) /\ UNCHANGED dataVars
  \/ \E p \in Procs : KeyFault(p) /\ faults' = faults + 1 /\ UNCHANGED dataVars
  \/ RemoveKey /\ UNCHANGED <<dataVars, faults>>

WriteNext == \E t \in Threads : Record(t) /\ UNCHANGED <<keyVars, faults>>

CrashNext == \E p \in Procs : Crash(p) /\ faults' = faults + 1

Next == KeyNext \/ WriteNext \/ CrashNext

Spec == Init /\ [][Next]_vitalsVars

-----------------------------------------------------------------------------
(* Properties.                                                             *)

\* No phantom and no torn telemetry: a row of the sidecar has all its blocks,
\* and its call was told so (or its process died after the commit).
RowIsAnswered == \A r \in rows : r.blocks = r.want /\ r.call \in answered \cup cut

\* Fingerprints of one install compare: two processes that hold a key hold the
\* same one, as long as no written key file was taken away again.
OneIdentity == \A p, q \in Procs : key[p] # 0 /\ key[q] # 0 /\ key[p] # key[q] => lostKey

\* A process runs without fingerprints only if its key load failed, or it lost
\* the race and read the winner's file before the key was in it.
KeylessIsExplained == \A p \in Procs : Alive(p) /\ key[p] = 0 => p \in hindered

\* Every connection in use finds the six-kind table, also when two processes
\* bootstrap at once: no conflict hint is refused by the CHECK.
HintFits == \A t \in Threads : conn[t] => shape = "six"

\* The rebuild, run once or twice, loses no event.
EventsStep == events \subseteq events'

\* What the sidecar promises: whole rows, one fingerprint key, and a table that
\* fits every connection in use.
VitalsSafe ==
  /\ TypeOK /\ RowIsAnswered /\ OneIdentity /\ KeylessIsExplained /\ HintFits
=============================================================================
