------------------------------ MODULE Processor ------------------------------
(***************************************************************************)
(* The background processor thread (manager.py, start_background_processor *)
(* to _maybe_run_vitals_retention) and the vitals ledger its last passes   *)
(* roll up and prune (metrics/ledger.py, metrics/sink.py).  Verb rows come *)
(* from every process, with or without a processor of its own.             *)
(***************************************************************************)
EXTENDS Naturals, FiniteSets, FiniteSetsExt

CONSTANTS
  Threads,
  Verbs,      \* identities of recorded verb calls
  CatchUp,    \* hours a rollup looks back at most (168)
  TTL,        \* hours a raw row is kept (720)
  MaxHour,
  MaxFaults,  \* passes that raise, per behaviour
  MaxStops

NoThread == "none"

\* A raw row is kept longer than a rollup looks back.
LimitsOK ==
  /\ CatchUp \in Nat /\ TTL \in Nat /\ CatchUp < TTL
  /\ MaxHour \in Nat \ {0} /\ NoThread \notin Threads

VARIABLES
  handle,     \* _processor_thread: a thread or NoThread
  event,      \* the thread whose stop event _processor_stop is, or NoThread
  signalled,  \* threads whose stop event is set
  loop,       \* thread -> the pass it is at
  timedOut,   \* a join gave up on a thread that was still running
  hour,
  rolledAt,   \* hour of the last rollup tick, 0 before the first
  prunedAt,
  verb,       \* call -> its hour stamp and whether it is committed
  raw,        \* committed calls still in verb_metrics
  hourly,     \* hour -> calls counted in verb_metrics_hourly
  late,       \* calls committed after the hour they are stamped with
  skipped,    \* calls in hours the catch-up passed over
  lost,       \* calls pruned before any rollup counted them
  faults, stops

tvars == <<handle, event, signalled, loop, timedOut, stops>>
lvars == <<hour, rolledAt, prunedAt, verb, raw, hourly, late, skipped, lost>>
pvars == <<tvars, lvars, faults>>

NoStamp == 0
Passes == {"check", "pipeline", "reclaim", "heal", "cleanup", "rollup", "retention", "wait"}
After == [pipeline |-> "reclaim", reclaim |-> "heal", heal |-> "cleanup", cleanup |-> "rollup",
          rollup |-> "retention", retention |-> "wait"]

Init ==
  /\ handle = NoThread /\ event = NoThread /\ signalled = {} /\ loop = [t \in Threads |-> "dead"]
  /\ timedOut = FALSE /\ stops = 0 /\ faults = 0
  /\ hour = 1 /\ rolledAt = 0 /\ prunedAt = 0
  /\ verb = [v \in Verbs |-> NoStamp] /\ raw = {} /\ hourly = [h \in 1..MaxHour |-> {}]
  /\ late = {} /\ skipped = {} /\ lost = {}

Alive(t) == loop[t] # "dead"

----------------------------------------------------------------------------
\* The thread.

\* A new stop event and a new thread, unless one is on record.
start_background_processor(t) ==
  /\ handle = NoThread /\ ~Alive(t) /\ t \notin signalled
  /\ handle' = t /\ event' = t /\ loop' = [loop EXCEPT ![t] = "check"]
  /\ UNCHANGED <<signalled, timedOut, stops, lvars, faults>>

\* stop_background_processor: the event is set and the thread is joined for
\* ten seconds; then both are forgotten, whether it ended or not.
Stop ==
  /\ handle # NoThread /\ event # NoThread /\ handle \notin signalled /\ stops < MaxStops
  /\ stops' = stops + 1 /\ signalled' = signalled \cup {event}
  /\ UNCHANGED <<handle, event, loop, timedOut, lvars, faults>>

Joined ==
  /\ handle # NoThread /\ handle \in signalled
  /\ timedOut' = (timedOut \/ Alive(handle))
  /\ handle' = NoThread /\ event' = NoThread
  /\ UNCHANGED <<signalled, loop, stops, lvars, faults>>

\* The loop reads the event of the manager, not its own: gone, the thread
\* dies on it; replaced by a later start, the thread goes on.
Check(t) ==
  /\ loop[t] \in {"check", "wait"}
  /\ loop' = [loop EXCEPT ![t] = IF event = NoThread \/ event \in signalled THEN "dead"
                                 ELSE IF @ = "wait" THEN "check" ELSE "pipeline"]
  /\ UNCHANGED <<handle, event, signalled, timedOut, stops, lvars, faults>>

GoOn(t) == loop' = [loop EXCEPT ![t] = After[@]]

\* The pipeline (when the queue is not empty), the reclaim, the heal and the
\* cache cleanup: the work is modelled elsewhere.
Pass(t) ==
  /\ loop[t] \in {"pipeline", "reclaim", "heal", "cleanup"} /\ GoOn(t)
  /\ UNCHANGED <<handle, event, signalled, timedOut, stops, lvars, faults>>

\* Mutant: an exception leaves the loop.
AfterFault_out(pass) == IF pass = "cleanup" THEN "rollup" ELSE "dead"

\* An exception of the first three passes ends the cycle, not the loop; the
\* cleanup swallows its own.
AfterFault(pass) == IF pass = "cleanup" THEN "rollup" ELSE "wait"

Fault(t) ==
  /\ loop[t] \in {"pipeline", "reclaim", "heal", "cleanup"} /\ faults < MaxFaults
  /\ faults' = faults + 1 /\ loop' = [loop EXCEPT ![t] = AfterFault(@)]
  /\ UNCHANGED <<handle, event, signalled, timedOut, stops, lvars>>

----------------------------------------------------------------------------
\* The ledger.

\* Retention follows the rollup of its cycle within the hour.
Tick == hour < MaxHour /\ hour' = hour + 1 /\ (\A t \in Threads : loop[t] # "retention")
        /\ UNCHANGED <<tvars, rolledAt, prunedAt, verb, raw, hourly, late, skipped, lost, faults>>

\* record_verb stamps the row, then waits for the database and commits.
Stamp(v) ==
  /\ verb[v] = NoStamp /\ verb' = [verb EXCEPT ![v] = hour]
  /\ UNCHANGED <<tvars, hour, rolledAt, prunedAt, raw, hourly, late, skipped, lost, faults>>

last_rolled_hour == Max({h \in 1..MaxHour : hourly[h] # {}} \cup {0})

Counted == UNION {hourly[h] : h \in 1..MaxHour}
Dropped == late \cup skipped \cup lost \cup Counted

\* A busy database makes the row late, or drops it with a warning.
Commit(v) ==
  /\ verb[v] # NoStamp /\ v \notin raw \cup Dropped /\ hour <= verb[v] + 1
  /\ raw' = raw \cup {v}
  /\ late' = IF verb[v] < hour THEN late \cup {v} ELSE late
  /\ UNCHANGED <<tvars, hour, rolledAt, prunedAt, verb, hourly, skipped, lost, faults>>

Minus(a, b) == IF a > b THEN a - b ELSE 0

\* The previous, complete hour.
LastToRoll == hour - 1

FirstToRoll == Max({last_rolled_hour + 1, Minus(LastToRoll, CatchUp), 1})

\* _maybe_run_vitals_rollup: each hour since the last rolled one in a commit
\* of its own; a failure keeps the hours before it.  At most once an hour.
RollupTick(t, upTo) ==
  /\ loop[t] = "rollup" /\ GoOn(t)
  /\ IF rolledAt > 0 /\ hour = rolledAt THEN upTo = 0 /\ UNCHANGED <<rolledAt, hourly, skipped, faults>>
     ELSE /\ upTo <= LastToRoll
          /\ upTo # LastToRoll => faults < MaxFaults
          /\ faults' = IF upTo # LastToRoll THEN faults + 1 ELSE faults
          /\ rolledAt' = hour
          /\ hourly' = [h \in 1..MaxHour |-> IF h \in FirstToRoll..upTo
                                             THEN {v \in raw : verb[v] = h} ELSE hourly[h]]
          /\ skipped' = skipped \cup {v \in raw \ (Counted \cup late) : verb[v] < FirstToRoll}
  /\ UNCHANGED <<handle, event, signalled, timedOut, stops, hour, prunedAt, verb, raw, late, lost>>

\* A raw row older than its retention.
Expired(v) == verb[v] + TTL < hour

\* _maybe_run_vitals_retention: deletes what is expired in one commit.
RetentionTick(t) ==
  /\ loop[t] = "retention" /\ GoOn(t)
  /\ LET gone == {v \in raw : Expired(v)} IN
     IF prunedAt = hour THEN UNCHANGED <<prunedAt, raw, lost>>
     ELSE prunedAt' = hour /\ raw' = raw \ gone /\ lost' = lost \cup (gone \ Counted)
  /\ UNCHANGED <<handle, event, signalled, timedOut, stops, hour, rolledAt, verb, hourly, late, skipped, faults>>

----------------------------------------------------------------------------
LoopStep(t) == Check(t) \/ Pass(t) \/ (\E u \in 0..MaxHour : RollupTick(t, u)) \/ RetentionTick(t)
Control == (\E t \in Threads : start_background_processor(t)) \/ Stop \/ Joined
Ledger == Tick \/ \E v \in Verbs : Stamp(v) \/ Commit(v)
Next == Control \/ Ledger \/ \E t \in Threads : LoopStep(t) \/ Fault(t)

\* A running thread runs, and a join ends after ten seconds.
Fairness == (\A t \in Threads : WF_pvars(LoopStep(t))) /\ WF_pvars(Joined)
Spec == Init /\ [][Next]_pvars /\ Fairness

----------------------------------------------------------------------------
TypeOK ==
  /\ handle \in Threads \cup {NoThread} /\ event \in Threads \cup {NoThread}
  /\ loop \in [Threads -> Passes \cup {"dead"}]
  /\ signalled \subseteq Threads /\ timedOut \in BOOLEAN
  /\ hour \in 1..MaxHour /\ rolledAt \in 0..MaxHour /\ prunedAt \in 0..MaxHour
  /\ verb \in [Verbs -> 0..MaxHour] /\ raw \subseteq Verbs
  /\ hourly \in [1..MaxHour -> SUBSET Verbs]

\* While a processor is on record and nobody asked it to stop, its loop is
\* alive: no failing pass ends it.
FaultKeepsLoop == handle # NoThread /\ handle \notin signalled => Alive(handle)

\* Two loops run only after a join that gave up on the first one.
SecondLoopNeedsTimeout ==
  Cardinality({t \in Threads : Alive(t)}) > 1 => timedOut

\* A stopped processor comes to rest, unless it is started again.
StopIsFinal ==
  (handle = NoThread) ~> (handle # NoThread \/ \A t \in Threads : ~Alive(t))

\* A call in a rolled hour is counted, unless its row was committed after that
\* hour (the next rollup starts past it) or lies in a gap the catch-up passed
\* over.
RolledHourIsComplete ==
  \A v \in raw : verb[v] <= last_rolled_hour => v \in Counted \cup late \cup skipped

\* A raw row that is pruned uncounted was late, or lay in a gap longer than
\* the catch-up; a failed rollup is made up for before its rows expire.
LossIsExplained == lost \subseteq late \cup skipped

\* What the background thread promises: faults do not end it, a second one needs
\* a join that gave up, and no call is left out of its hour unexplained.
ProcessorSafe ==
  /\ TypeOK /\ FaultKeepsLoop /\ SecondLoopNeedsTimeout /\ RolledHourIsComplete
  /\ LossIsExplained
=============================================================================
