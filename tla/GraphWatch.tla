------------------------------ MODULE GraphWatch ------------------------------
(***************************************************************************)
(* The watch scheduler of the code graph and the hint queue that feeds it. *)
(*                                                                         *)
(* One cooperative loop runs one-shot jobs and polls registrations.        *)
(* Producers add work under the scheduler's lock and start the loop when   *)
(* none owns it; stop sets a flag the loop reads in and outside the lock.  *)
(* The only job is the drain of the hint queue.  What a poll or a hint     *)
(* does to the graph is CodeGraph's.                                       *)
(***************************************************************************)
EXTENDS Naturals, FiniteSets

CONSTANTS
  Users,     \* threads that call the scheduler
  Loops,     \* identities of loop threads
  Projects,  \* graph keys
  None,      \* no thread in the slot
  RegCap,    \* watch_max_registrations
  QueueMax,  \* HINT_QUEUE_MAX
  MaxOps     \* bound on calls

ASSUME GraphWatchAssumption ==
  /\ None \notin Loops /\ IsFiniteSet(Users)
  /\ RegCap \in Nat /\ QueueMax \in Nat /\ MaxOps \in Nat

VARIABLES
  registrations, \* watched projects
  due,           \* those of them whose next_run has come
  jobs,          \* queued drain jobs
  slot,          \* self._thread
  loop,          \* per loop: its pc and what it took
  wake,          \* the wake event
  stopFlag,      \* the stop event
  closed,        \* close() was called
  queue,         \* hints queued
  drainPending,  \* a drain is announced
  user,          \* per user: pc
  stopped,       \* ghost: a stop has set the flag
  ops

vars == <<registrations, due, jobs, slot, loop, wake, stopFlag, closed, queue,
          drainPending, user, stopped, ops>>
sched == <<registrations, due, jobs, slot, wake, stopFlag, closed>>

Dead    == [pc |-> "dead", jobs |-> 0, due |-> {}]
LoopPCs == {"dead", "top", "take", "jobs", "drain", "polls", "decide", "sleep",
            "leaving"}
UserPCs == {"idle", "register", "flag", "submit", "wake", "stopAll"}

TypeOK ==
  /\ registrations \subseteq Projects /\ due \subseteq Projects
  /\ jobs \in 0..MaxOps /\ queue \in 0..QueueMax
  /\ slot \in Loops \cup {None}
  /\ loop \in [Loops -> [pc : LoopPCs, jobs : 0..MaxOps, due : SUBSET Projects]]
  /\ user \in [Users -> UserPCs]
  /\ wake \in BOOLEAN /\ stopFlag \in BOOLEAN /\ closed \in BOOLEAN
  /\ drainPending \in BOOLEAN /\ stopped \in BOOLEAN
  /\ Cardinality(registrations) <= RegCap
  /\ ops \in 0..MaxOps

Init ==
  /\ registrations = {} /\ due = {} /\ jobs = 0 /\ queue = 0
  /\ slot = None /\ loop = [l \in Loops |-> Dead]
  /\ wake = FALSE /\ stopFlag = FALSE /\ closed = FALSE
  /\ drainPending = FALSE /\ stopped = FALSE
  /\ user = [u \in Users |-> "idle"]
  /\ ops = 0

-----------------------------------------------------------------------------
(* Producers.                                                              *)

Alive(l) == l # None /\ loop[l].pc # "dead"

\* Mutant: the handle is not looked at.
ensure_thread_locked_always ==
  IF closed
    THEN UNCHANGED <<slot, loop, stopFlag>>
    ELSE /\ stopFlag' = FALSE
         /\ \E l \in Loops : /\ loop[l].pc = "dead"
                             /\ slot' = l
                             /\ loop' = [loop EXCEPT ![l].pc = "top"]

\* _ensure_thread_locked
ensure_thread_locked ==
  IF closed
    THEN UNCHANGED <<slot, loop, stopFlag>>
    ELSE /\ stopFlag' = FALSE
         /\ IF Alive(slot)
              THEN UNCHANGED <<slot, loop>>
              ELSE \E l \in Loops : /\ loop[l].pc = "dead"
                                    /\ slot' = l
                                    /\ loop' = [loop EXCEPT ![l].pc = "top"]

Call(u, pc) ==
  /\ user[u] = "idle" /\ ops < MaxOps
  /\ ops' = ops + 1
  /\ user' = [user EXCEPT ![u] = pc]
Step(u, from, to) == user[u] = from /\ user' = [user EXCEPT ![u] = to]

\* register: closed is read before the lock is taken.
Register(u) ==
  /\ ~closed /\ Call(u, "register")
  /\ UNCHANGED <<sched, loop, queue, drainPending, stopped>>

\* The critical section of register: one registration per project, a cap.
RegisterLocked(u, p) ==
  /\ Step(u, "register", "idle")
  /\ IF p \in registrations \/ Cardinality(registrations) >= RegCap
       THEN UNCHANGED <<registrations, slot, loop, stopFlag, wake>>
       ELSE /\ registrations' = registrations \cup {p}
            /\ ensure_thread_locked
            /\ wake' = TRUE
  /\ UNCHANGED <<due, jobs, closed, queue, drainPending, stopped, ops>>

\* hint: put_nowait; a full queue drops the hint.
Hint(u) ==
  /\ queue < QueueMax
  /\ Call(u, "flag")
  /\ queue' = queue + 1
  /\ UNCHANGED <<sched, loop, drainPending, stopped>>

\* A drain that is announced covers this hint.
AnnounceDrain(u) ==
  /\ Step(u, "flag", IF drainPending THEN "idle" ELSE "submit")
  /\ drainPending' = TRUE
  /\ UNCHANGED <<sched, loop, queue, stopped, ops>>

\* Mutant: nobody starts the thread.
Submit_noThread(u) ==
  /\ Step(u, "submit", "wake")
  /\ jobs' = jobs + 1
  /\ UNCHANGED <<registrations, due, slot, loop, wake, stopFlag, closed, queue,
                 drainPending, stopped, ops>>

\* submit: append and ensure the thread under the lock, wake after it.
Submit(u) ==
  /\ Step(u, "submit", "wake")
  /\ jobs' = jobs + 1
  /\ ensure_thread_locked
  /\ UNCHANGED <<registrations, due, wake, closed, queue, drainPending, stopped, ops>>

SetWake(u) ==
  /\ Step(u, "wake", "idle")
  /\ wake' = TRUE
  /\ UNCHANGED <<registrations, due, jobs, slot, loop, stopFlag, closed, queue,
                 drainPending, stopped, ops>>

\* The critical section of stop: keep is what stays registered, and a full
\* stop discards the jobs.  The flag is set when no work is left.
StopLocked(keep, keptJobs) ==
  /\ registrations' = keep
  /\ due' = due \cap keep
  /\ jobs' = keptJobs
  /\ stopFlag' = (stopFlag \/ (keep = {} /\ keptJobs = 0))
  /\ stopped' = (stopped \/ (keep = {} /\ keptJobs = 0))
  /\ wake' = TRUE

\* watch_stop(project)
StopOne(u, p) ==
  /\ user[u] = "idle" /\ ops < MaxOps /\ ops' = ops + 1
  /\ StopLocked(registrations \ {p}, jobs)
  /\ UNCHANGED <<slot, loop, closed, queue, drainPending, user>>

\* watch_stop() or the first half of close(); the join has no effect here.
StopAll(u) ==
  /\ \/ Call(u, "idle") \/ (Step(u, "stopAll", "idle") /\ UNCHANGED ops)
  /\ StopLocked({}, 0)
  /\ UNCHANGED <<slot, loop, closed, queue, drainPending>>

\* MemoryManager.close: the hint queue is emptied, the scheduler is closed,
\* then stopped.
Close(u) ==
  /\ Call(u, "stopAll")
  /\ closed' = TRUE /\ queue' = 0
  /\ UNCHANGED <<registrations, due, jobs, slot, loop, wake, stopFlag, drainPending,
                 stopped>>

-----------------------------------------------------------------------------
(* The loop.                                                               *)

AtLoop(l, pc) == loop[l].pc = pc
Goto(l, pc)   == loop' = [loop EXCEPT ![l].pc = pc]
Outside == UNCHANGED <<registrations, due, jobs, slot, stopFlag, closed, queue,
                       drainPending, user, stopped, ops>>

\* while not stop_flag: wake.clear().  The flag is read without the lock.
Top(l) ==
  /\ AtLoop(l, "top")
  /\ IF stopFlag THEN Goto(l, "leaving") /\ UNCHANGED wake
                 ELSE Goto(l, "take") /\ wake' = FALSE
  /\ Outside

\* Under the lock: all jobs, and the registrations that are due.
Take(l) ==
  /\ AtLoop(l, "take")
  /\ loop' = [loop EXCEPT ![l] = [pc |-> "jobs", jobs |-> jobs, due |-> due]]
  /\ jobs' = 0
  /\ UNCHANGED <<registrations, due, slot, wake, stopFlag, closed, queue,
                 drainPending, user, stopped, ops>>

\* The next job, unless the flag was set: then the loop returns at once.
NextJob(l) ==
  /\ AtLoop(l, "jobs")
  /\ IF loop[l].jobs = 0 THEN Goto(l, "polls") /\ UNCHANGED drainPending
     ELSE IF stopFlag THEN Goto(l, "leaving") /\ UNCHANGED drainPending
     ELSE /\ loop' = [loop EXCEPT ![l].jobs = @ - 1, ![l].pc = "drain"]
          /\ drainPending' = FALSE
  /\ UNCHANGED <<sched, queue, user, stopped, ops>>

\* _run_drain: the hints one by one; an exception of one is contained.
Drain(l) ==
  /\ AtLoop(l, "drain")
  /\ IF queue = 0 THEN Goto(l, "jobs") /\ UNCHANGED queue
                  ELSE queue' = queue - 1 /\ UNCHANGED loop
  /\ UNCHANGED <<sched, drainPending, user, stopped, ops>>

\* _poll_registration of what was taken: the run is done and the next one is
\* later; it failed and stays due; or the root is gone and the watch ends.
PollNext(l) ==
  /\ AtLoop(l, "polls")
  /\ IF loop[l].due = {} \/ stopFlag
       THEN /\ Goto(l, "decide")
            /\ UNCHANGED <<registrations, due, jobs, stopFlag, stopped, wake>>
       ELSE \E p \in loop[l].due :
              /\ loop' = [loop EXCEPT ![l].due = @ \ {p}]
              /\ \/ /\ due' = due \ {p}
                    /\ UNCHANGED <<registrations, jobs, stopFlag, stopped, wake>>
                 \/ UNCHANGED <<registrations, due, jobs, stopFlag, stopped, wake>>
                 \/ StopLocked(registrations \ {p}, jobs)
  /\ UNCHANGED <<slot, closed, queue, drainPending, user, ops>>

\* The locked exit: the slot is given up in the same critical section.
Decide(l) ==
  /\ AtLoop(l, "decide")
  /\ IF stopFlag \/ (registrations = {} /\ jobs = 0)
       THEN Goto(l, "leaving") /\ slot' = None
       ELSE Goto(l, IF jobs > 0 THEN "top" ELSE "sleep") /\ UNCHANGED slot
  /\ UNCHANGED <<registrations, due, jobs, wake, stopFlag, closed, queue, drainPending,
                 user, stopped, ops>>

\* wake.wait(timeout): woken, or the next registration is due.
Awake(l) ==
  /\ AtLoop(l, "sleep")
  /\ wake \/ due # {}
  /\ Goto(l, "top")
  /\ UNCHANGED <<sched, queue, drainPending, user, stopped, ops>>

\* finally: the slot is released if it is still this thread's.
Finally(l) ==
  /\ AtLoop(l, "leaving")
  /\ loop' = [loop EXCEPT ![l] = Dead]
  /\ slot' = IF slot = l THEN None ELSE slot
  /\ UNCHANGED <<registrations, due, jobs, wake, stopFlag, closed, queue, drainPending,
                 user, stopped, ops>>

\* The clock reaches a registration's next_run.
Elapse(p) ==
  /\ p \in registrations \ due
  /\ due' = due \cup {p}
  /\ UNCHANGED <<registrations, jobs, slot, loop, wake, stopFlag, closed, queue,
                 drainPending, user, stopped, ops>>

LoopStep(l) ==
  Top(l) \/ Take(l) \/ NextJob(l) \/ Drain(l) \/ PollNext(l) \/ Decide(l) \/ Awake(l)
  \/ Finally(l)
UserStep(u) ==
  AnnounceDrain(u) \/ Submit(u) \/ SetWake(u) \/ \E p \in Projects : RegisterLocked(u, p)

Next ==
  \/ \E l \in Loops : LoopStep(l)
  \/ \E u \in Users : \/ UserStep(u)
                      \/ Register(u) \/ Hint(u) \/ StopAll(u) \/ Close(u)
                      \/ \E p \in Projects : StopOne(u, p)
  \/ \E p \in Projects : Elapse(p)

\* Threads run, and time passes.
Fairness ==
  /\ \A l \in Loops : WF_vars(LoopStep(l))
  /\ \A u \in Users : WF_vars(UserStep(u))
  /\ \A p \in Projects : WF_vars(Elapse(p))

Spec == Init /\ [][Next]_vars /\ Fairness

-----------------------------------------------------------------------------
(* Properties.                                                             *)

Owns(l) == loop[l].pc \notin {"dead", "leaving"}

\* _ensure_thread_locked: at most one thread owns the loop, so jobs and polls
\* of the scheduler never run in parallel.
OneLoop == \A l, m \in Loops : Owns(l) /\ Owns(m) => l = m

\* _run_loop: "a registration or job that lands mid-poll or mid-sleep can never
\* lose its wake-up": a sleeping loop has no queued job, unless its submitter
\* is about to wake it.
NoLostWakeup ==
  \A l \in Loops : loop[l].pc = "sleep" /\ jobs > 0 =>
    wake \/ \E u \in Users : user[u] = "wake"

\* hint and _run_drain: a queued hint has an announced drain, a running one, or
\* a caller that has not come to the announcement yet, whatever is stopped.
HintIsCovered ==
  queue > 0 => \/ drainPending
               \/ \E l \in Loops : loop[l].pc = "drain"
               \/ \E u \in Users : user[u] = "flag"

\* As long as nothing has stopped the scheduler, queued hints are drained and
\* submitted jobs taken.
WorkIsServed ==
  /\ queue > 0 /\ ~stopped /\ ~closed ~> queue = 0 \/ stopped \/ closed
  /\ jobs > 0 /\ ~stopped /\ ~closed ~> jobs = 0 \/ stopped \/ closed

\* _run_loop's exit protocol: "A registration or job can therefore NEVER sit
\* unpolled".  The flag read at the top of the loop and between jobs is outside
\* the lock: work that arrives between that read and the finally finds the
\* handle alive, and no thread is left to serve it.
NeverUnpolled == (registrations # {} \/ jobs > 0) /\ ~closed => Alive(slot)

\* What the scheduler promises at any moment: one loop, no lost wake-up, and a
\* drain for every hint.
WatchSafe ==
  /\ TypeOK /\ OneLoop /\ NoLostWakeup /\ HintIsCovered
=============================================================================
