------------------------------ MODULE Workflow ------------------------------
(***************************************************************************)
(* The work lifecycle of one memory: MemoryManager.workflow_set, the       *)
(* transition table of workflow.py and the store functions it calls.       *)
(*                                                                         *)
(* A call of workflow_set issues five SQL statements, each committed on    *)
(* its own: existence check, rate-limit count, status read, status write,  *)
(* audit insert.  The MCP server, the REST server and the CLI are separate *)
(* processes over one database, so statements of different calls (and a    *)
(* delete of the memory) interleave.  Everything a call computes between   *)
(* two statements is local and is folded into the earlier statement.       *)
(***************************************************************************)
EXTENDS Naturals, Sequences, FiniteSets

CONSTANTS
  Callers,      \* threads of control that may be inside workflow_set
  Actors,       \* free-form actor ids (weak identity)
  None,         \* SQL NULL: no lock owner, no timestamp
  RateLimit,    \* workflow_rate_limit_per_minute
  RateWindow,   \* one minute, in clock ticks
  StaleAge,     \* workflow_stale_lock_threshold_hours, in clock ticks
  MayDelete,    \* whether another process may delete the memory
  MayCrash,     \* whether a process may be killed in mid-call
  MaxNow,       \* bound on the clock
  MaxCalls      \* bound on the number of calls

ASSUME WorkflowAssumption ==
  /\ RateLimit \in Nat /\ RateWindow \in Nat /\ StaleAge \in Nat
  /\ MaxNow \in Nat /\ MaxCalls \in Nat
  /\ MayDelete \in BOOLEAN /\ MayCrash \in BOOLEAN
  /\ IsFiniteSet(Callers) /\ Callers # {}
  /\ None \notin Actors /\ None \notin Nat

Unset == "unset"     \* a NULL workflow_status: legacy or freshly created row

WorkflowStatus ==
  {"open", "in-progress", "blocked", "resolved", "done", "withdrawn"}

TERMINAL_STATUSES == {"done", "withdrawn"}

\* Mutant: a blocked work may be done.
ALLOWED_TRANSITIONS_blockedToDone ==
  [s \in WorkflowStatus |->
     CASE s = "open"        -> {"in-progress", "withdrawn"}
       [] s = "in-progress" -> {"blocked", "done", "withdrawn"}
       [] s \in {"blocked", "resolved"} -> WorkflowStatus \ {"open", s}
       [] s \in TERMINAL_STATUSES -> {}]

ALLOWED_TRANSITIONS ==
  [s \in WorkflowStatus |->
     CASE s = "open"        -> {"in-progress", "withdrawn"}
       [] s = "in-progress" -> {"blocked", "done", "withdrawn"}
       [] s = "blocked"     -> {"resolved", "withdrawn"}
       [] s = "resolved"    -> {"in-progress", "done", "withdrawn"}
       [] s \in TERMINAL_STATUSES -> {}]

\* The edge test of validate_transition; an unset status follows open's edges.
transition_allowed(from, to) ==
  to \in ALLOWED_TRANSITIONS[IF from = Unset THEN "open" ELSE from]

\* The statuses in which somebody owns the work.
OwnedStatuses == {"in-progress", "blocked", "resolved"}

-----------------------------------------------------------------------------
VARIABLES
  \* columns of the memory's row
  exists, status, lockedBy, lockedAt,
  \* the audit table memory_workflow_history, oldest row first
  history,
  \* per caller: the call in progress
  req,
  \* the wall clock, and the number of calls begun
  now, calls,
  \* ghost: the status changes that really happened, oldest first
  trail

row  == <<exists, status, lockedBy, lockedAt>>
vars == <<exists, status, lockedBy, lockedAt, history, req, now, calls, trail>>

Idle == [pc |-> "idle"]

Owner == Actors \cup {None}
Time  == Nat \cup {None}

HistoryRow == [from : WorkflowStatus \cup {Unset}, to : WorkflowStatus,
               actor : Actors, force : BOOLEAN, at : Nat]

\* A status change of the row.
Change == [from : WorkflowStatus \cup {Unset}, to : WorkflowStatus]

Asked  == [pc : {"count", "read"}, actor : Actors, to : WorkflowStatus,
           force : BOOLEAN]

\* A decided transition: what the call is about to write.
Decided == [pc : {"write", "audit"}, actor : Actors, to : WorkflowStatus,
            force : BOOLEAN, from : WorkflowStatus \cup {Unset},
            newBy : Owner, newAt : Time, stale : BOOLEAN, at : Nat]

TypeOK ==
  /\ exists \in BOOLEAN
  /\ status \in WorkflowStatus \cup {Unset}
  /\ lockedBy \in Owner
  /\ lockedAt \in Time
  /\ history \in Seq(HistoryRow)
  /\ req \in [Callers -> {Idle} \cup Asked \cup Decided]
  /\ now \in Nat
  /\ calls \in Nat
  /\ trail \in Seq(Change)

-----------------------------------------------------------------------------
\* Audit rows at or after a moment (count_workflow_transitions_since).
count_workflow_transitions_since(since) ==
  Cardinality({i \in DOMAIN history : history[i].at >= since})

\* Mutant: the limit is compared one too late.
rate_limited_offByOne(recent) == recent > RateLimit
rate_limited(recent) == recent >= RateLimit

\* A lock older than the threshold is releasable by anybody.
lock_is_stale == lockedAt # None /\ now > lockedAt + StaleAge

\* Mutants: finished work keeps its owner; the two columns are swapped.
compute_lock_projection_noRelease(to, actor, takeover) ==
  IF to = "in-progress" \/ (to \in OwnedStatuses /\ takeover)
  THEN <<actor, now>> ELSE <<lockedBy, lockedAt>>
compute_lock_projection_swapped(to, actor, takeover) ==
  IF to = "in-progress" THEN <<now, actor>> ELSE <<None, None>>

\* The owner and the lock time that go with a target status.
compute_lock_projection(to, actor, takeover) ==
  IF to = "in-progress" \/ (to \in OwnedStatuses /\ takeover)
  THEN <<actor, now>>
  ELSE IF to \in OwnedStatuses THEN <<lockedBy, lockedAt>> ELSE <<None, None>>

-----------------------------------------------------------------------------
Init ==
  /\ exists = TRUE /\ status = Unset /\ lockedBy = None /\ lockedAt = None
  /\ history = <<>> /\ trail = <<>>
  /\ req = [c \in Callers |-> Idle]
  /\ now = 0 /\ calls = 0

\* The arguments are accepted and the memory is found.
Begin(c, actor, to, force) ==
  /\ req[c].pc = "idle"
  /\ exists
  /\ calls < MaxCalls
  /\ calls' = calls + 1
  /\ req' = [req EXCEPT ![c] =
               [pc |-> "count", actor |-> actor, to |-> to, force |-> force]]
  /\ UNCHANGED <<row, history, now, trail>>

\* Guardrail 5: a memory with RateLimit recent audit rows refuses the call.
CountRecent(c) ==
  /\ req[c].pc = "count"
  /\ LET since == IF now > RateWindow THEN now - RateWindow ELSE 0 IN
     req' = [req EXCEPT ![c] =
               IF rate_limited(count_workflow_transitions_since(since))
               THEN Idle ELSE [@ EXCEPT !.pc = "read"]]
  /\ UNCHANGED <<row, history, now, calls, trail>>

\* Mutant: the lock of another actor is not looked at.
MayProceed_noLockCheck(r) ==
  exists /\ status # r.to /\ transition_allowed(status, r.to)

\* A call may go ahead from what it read unless it repeats the current status,
\* takes a forbidden edge, or meets a lock that is neither stale nor forced.
MayProceed(r) ==
  /\ exists
  /\ status # r.to
  /\ transition_allowed(status, r.to)
  /\ lockedBy \in {None, r.actor} \/ lock_is_stale \/ r.force

\* The status read, with every guardrail and the new lock projection.
ReadAndDecide(c) ==
  /\ req[c].pc = "read"
  /\ LET r     == req[c]
         other == lockedBy \notin {None, r.actor}
         stale == other /\ lock_is_stale
         used  == other /\ ~lock_is_stale /\ r.force
         lock  == compute_lock_projection(r.to, r.actor, stale \/ used)
     IN req' = [req EXCEPT ![c] =
          IF MayProceed(r)
          THEN [pc |-> "write", actor |-> r.actor, to |-> r.to, force |-> used,
                from |-> status, newBy |-> lock[1], newAt |-> lock[2],
                stale |-> stale, at |-> now]
          ELSE Idle]
  /\ UNCHANGED <<row, history, now, calls, trail>>

\* set_workflow_status: an unconditional UPDATE of the three columns; on a
\* deleted row it matches nothing and the call goes on all the same.
SetWorkflowStatus(c) ==
  /\ req[c].pc = "write"
  /\ IF exists
     THEN /\ status' = req[c].to
          /\ lockedBy' = req[c].newBy
          /\ lockedAt' = req[c].newAt
          /\ trail' = Append(trail, [from |-> status, to |-> req[c].to])
     ELSE UNCHANGED <<status, lockedBy, lockedAt, trail>>
  /\ req' = [req EXCEPT ![c].pc = "audit"]
  /\ UNCHANGED <<exists, history, now, calls>>

\* add_workflow_history, and the call returns recorded=True.
AddWorkflowHistory(c) ==
  /\ req[c].pc = "audit"
  /\ history' = Append(history,
        [from |-> req[c].from, to |-> req[c].to, actor |-> req[c].actor,
         force |-> req[c].force, at |-> req[c].at])
  /\ req' = [req EXCEPT ![c] = Idle]
  /\ UNCHANGED <<row, now, calls, trail>>

\* A process dies (or its connection is lost) between two statements.
Crash(c) ==
  /\ MayCrash
  /\ req[c].pc # "idle"
  /\ req' = [req EXCEPT ![c] = Idle]
  /\ UNCHANGED <<row, history, now, calls, trail>>

\* The memory is deleted; its audit rows stay (the table has no foreign key).
DeleteMemory ==
  /\ MayDelete
  /\ exists
  /\ exists' = FALSE
  /\ UNCHANGED <<status, lockedBy, lockedAt, history, req, now, calls, trail>>

Tick ==
  /\ now < MaxNow
  /\ now' = now + 1
  /\ UNCHANGED <<row, history, req, calls, trail>>

Step(c) ==
  \/ \E a \in Actors, to \in WorkflowStatus, f \in BOOLEAN : Begin(c, a, to, f)
  \/ CountRecent(c)
  \/ ReadAndDecide(c)
  \/ SetWorkflowStatus(c)
  \/ AddWorkflowHistory(c)
  \/ Crash(c)

Next == (\E c \in Callers : Step(c)) \/ DeleteMemory \/ Tick

Spec == Init /\ [][Next]_vars

-----------------------------------------------------------------------------
(***************************************************************************)
(* What holds however calls interleave.                                    *)
(***************************************************************************)

\* workflow_set leaves a memory owned exactly while work on it is under way:
\* in every interleaving, crash or lost race, an owner is recorded iff the
\* status is in-progress, blocked or resolved, and a lock time iff an owner.
LockMatchesStatus ==
  /\ (status \in OwnedStatuses) <=> (lockedBy # None)
  /\ (lockedBy = None) <=> (lockedAt = None)

\* Guardrail 5 is checked before the audit row it counts is written, so
\* racing calls overshoot the limit; the overshoot never exceeds one row for
\* each other caller, in any window of RateWindow ticks.
RateOvershootBounded ==
  \A t \in 0..now :
    Cardinality({i \in DOMAIN history :
                   t <= history[i].at /\ history[i].at <= t + RateWindow})
      <= RateLimit + Cardinality(Callers) - 1

(***************************************************************************)
(* What holds of calls that do not race (one caller).                      *)
(***************************************************************************)

\* The promises in workflow.py's header, without its table: terminal statuses
\* are final, only started work is blocked, only blocked work is resolved, and
\* work is done from in-progress or resolved, never straight from blocked.
DocumentedEdgesOnly ==
  \A i \in DOMAIN trail :
    LET from == trail[i].from to == trail[i].to IN
    /\ from \notin TERMINAL_STATUSES
    /\ to = "blocked"  => from = "in-progress"
    /\ to = "resolved" => from = "blocked"
    /\ to = "done"     => from \in {"in-progress", "resolved"}

\* Guardrails 2 and 4: the lock passes from one actor to another only by a
\* stale-lock takeover or a force that the decided call carries.
LockPassesByRight ==
  \A a, b \in Actors :
    (lockedBy = a /\ lockedBy' = b /\ a # b)
      => \E c \in Callers : /\ req[c].pc = "write"
                            /\ req[c].stale \/ req[c].force
TakeoverIsJustified == [][LockPassesByRight]_vars

\* The audit log is the sequence of status changes that really happened, up
\* to the one whose audit row a call is about to insert.
AuditIsTrail ==
  LET audited == [i \in DOMAIN history |->
                    [from |-> history[i].from, to |-> history[i].to]]
      pending == {c \in Callers : req[c].pc = "audit"}
  IN IF pending = {} THEN trail = audited
     ELSE \E c \in pending :
            trail = Append(audited, [from |-> req[c].from, to |-> req[c].to])
=============================================================================
