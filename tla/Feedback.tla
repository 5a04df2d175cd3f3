------------------------------ MODULE Feedback ------------------------------
(***************************************************************************)
(* Search feedback and the per-project epochs (manager.py,                 *)
(* report_search_feedback and _bump_feedback_epoch; sqlite_store.py,       *)
(* edge_stats).  Several processes share the table.  A report walks its    *)
(* citations one commit at a time, then bumps an epoch that outside        *)
(* caches key on.  One project, one principal per process.                 *)
(***************************************************************************)
EXTENDS Naturals, Sequences, FiniteSets

CONSTANTS
  Reporters,   \* processes; each reports as the same principal
  Cited,       \* memory ids a report may cite
  Events,      \* logical report ids (a retry reuses one)
  RowCap,      \* EDGE_STATS_EVENTS_PER_PRINCIPAL_CAP
  MaxReports,  \* reports per behaviour
  MaxHides     \* rows that leave the context per behaviour

\* Finitely many processes, and room for a row.
LimitsOK == IsFiniteSet(Reporters) /\ RowCap \in Nat \ {0}

VARIABLES
  shown,     \* ids that are context-admissible
  stats,     \* edge_stats, oldest row first
  epoch,     \* meta feedback_epoch:<project>
  report,    \* per process: the report it is working on
  consumer,  \* an outside cache: the epoch and the table size it was built at
  appended,  \* rows ever inserted
  answered,  \* reports answered in full: [ev, ids]
  dropped,   \* <<ev, id>> a cap, a gate or a purge took away
  tainted,   \* a report died after an insert, or two bumps overlapped
  reports, hides

fvars == <<shown, stats, epoch, report, consumer, appended, answered, dropped, tainted,
           reports, hides>>

NoReport == [pc |-> "idle", ev |-> "none", ids |-> {}, todo |-> {}, cur |-> "none",
             captured |-> 0, read |-> 0]

Init ==
  /\ shown = Cited /\ stats = <<>> /\ epoch = 0
  /\ report = [p \in Reporters |-> NoReport]
  /\ consumer = [epoch |-> 0, size |-> 0] /\ appended = 0
  /\ answered = {} /\ dropped = {} /\ tainted = FALSE /\ reports = 0 /\ hides = 0

\* _derive_feedback_event_id: the row key of one citation of one report (the
\* kind and the principal are the same for every report here).
Key(ev, id) == <<ev, id>>

Keys == {stats[n].key : n \in DOMAIN stats}

\* report_search_feedback, up to its loop.
Report(p, ev, ids) ==
  /\ report[p].pc = "idle" /\ reports < MaxReports /\ reports' = reports + 1
  /\ report' = [report EXCEPT ![p] = [NoReport EXCEPT !.pc = "loop", !.ev = ev,
                                        !.ids = ids, !.todo = ids]]
  /\ UNCHANGED <<shown, stats, epoch, consumer, appended, answered, dropped, tainted, hides>>

\* _feedback_target_visible: a hidden citation is out of scope.
Judge(p, id) ==
  LET r == report[p] IN
  /\ r.pc = "loop" /\ id \in r.todo
  /\ IF id \in shown
       THEN /\ report' = [report EXCEPT ![p].pc = "count", ![p].cur = id, ![p].todo = @ \ {id}]
            /\ UNCHANGED dropped
       ELSE /\ report' = [report EXCEPT ![p].todo = @ \ {id}]
            /\ dropped' = dropped \cup {<<r.ev, id>>}
  /\ UNCHANGED <<shown, stats, epoch, consumer, appended, answered, tainted, reports, hides>>

\* The volume caps, read before the insert's transaction.
Full == Len(stats) >= RowCap

CheckCap(p) ==
  LET r == report[p] IN
  /\ r.pc = "count"
  /\ IF Full
       THEN /\ report' = [report EXCEPT ![p].pc = "loop", ![p].cur = "none"]
            /\ dropped' = dropped \cup {<<r.ev, r.cur>>}
       ELSE /\ report' = [report EXCEPT ![p].pc = "insert"]
            /\ UNCHANGED dropped
  /\ UNCHANGED <<shown, stats, epoch, consumer, appended, answered, tainted, reports, hides>>

\* Mutant: a plain INSERT into a table without the key.
IsDuplicate_never(key) == FALSE

\* INSERT OR IGNORE on the key.
IsDuplicate(key) == key \in Keys

RecordEvent(p) ==
  LET r == report[p]
      new == ~IsDuplicate(Key(r.ev, r.cur))
  IN
  /\ r.pc = "insert"
  /\ stats' = IF new THEN Append(stats, [key |-> Key(r.ev, r.cur), ev |-> r.ev, id |-> r.cur])
                     ELSE stats
  /\ appended' = IF new THEN appended + 1 ELSE appended
  /\ report' = [report EXCEPT ![p].pc = "loop", ![p].cur = "none",
                  ![p].captured = IF new THEN @ + 1 ELSE @]
  /\ UNCHANGED <<shown, epoch, consumer, answered, dropped, tainted, reports, hides>>

\* A store error ends the report early; it is counted and swallowed, and the
\* epoch is not touched.
StoreError(p) ==
  /\ report[p].pc \in {"count", "insert"}
  /\ tainted' = (tainted \/ report[p].captured > 0)
  /\ report' = [report EXCEPT ![p] = NoReport]
  /\ UNCHANGED <<shown, stats, epoch, consumer, appended, answered, dropped, reports, hides>>

\* The epoch is bumped only when rows were appended.
Bumps(r) == r.captured > 0

Unbumped == {p \in Reporters : report[p].captured > 0}

EndLoop(p) ==
  LET r == report[p] IN
  /\ r.pc = "loop" /\ r.todo = {}
  /\ answered' = answered \cup {[ev |-> r.ev, ids |-> r.ids]}
  /\ report' = [report EXCEPT ![p] = IF Bumps(r) THEN [@ EXCEPT !.pc = "get"] ELSE NoReport]
  /\ UNCHANGED <<shown, stats, epoch, consumer, appended, dropped, tainted, reports, hides>>

\* _bump_feedback_epoch: get_meta, then set_meta in a transaction of its own.
GetEpoch(p) ==
  /\ report[p].pc = "get"
  /\ report' = [report EXCEPT ![p].pc = "set", ![p].read = epoch]
  /\ UNCHANGED <<shown, stats, epoch, consumer, appended, answered, dropped, tainted, reports, hides>>

SetEpoch(p) ==
  /\ report[p].pc = "set"
  /\ epoch' = report[p].read + 1
  /\ tainted' = (tainted \/ epoch # report[p].read)
  /\ report' = [report EXCEPT ![p] = NoReport]
  /\ UNCHANGED <<shown, stats, consumer, appended, answered, dropped, reports, hides>>

\* A cache outside the repository rebuilds when the epoch is not its own.
Rebuild ==
  /\ consumer.epoch # epoch
  /\ consumer' = [epoch |-> epoch, size |-> appended]
  /\ UNCHANGED <<shown, stats, epoch, report, appended, answered, dropped, tainted, reports, hides>>

\* purge_edge_stats_oldest: the newest rows survive; one transaction.
Purge(keep) ==
  LET gone == SubSeq(stats, 1, Len(stats) - keep) IN
  /\ keep < Len(stats)
  /\ stats' = SubSeq(stats, Len(stats) - keep + 1, Len(stats))
  /\ dropped' = dropped \cup {<<gone[n].ev, gone[n].id>> : n \in DOMAIN gone}
  /\ UNCHANGED <<shown, epoch, report, consumer, appended, answered, tainted, reports, hides>>

\* A row is quarantined, archived or deleted.
Hide(id) ==
  /\ id \in shown /\ hides < MaxHides /\ hides' = hides + 1
  /\ shown' = shown \ {id}
  /\ UNCHANGED <<stats, epoch, report, consumer, appended, answered, dropped, tainted, reports>>

Next ==
  \/ \E p \in Reporters :
       \/ \E ev \in Events, ids \in SUBSET Cited \ {{}} : Report(p, ev, ids)
       \/ \E id \in Cited : Judge(p, id)
       \/ CheckCap(p) \/ RecordEvent(p) \/ StoreError(p) \/ EndLoop(p) \/ GetEpoch(p) \/ SetEpoch(p)
  \/ Rebuild
  \/ Purge(1)
  \/ \E id \in Cited : Hide(id)

Spec == Init /\ [][Next]_fvars

----------------------------------------------------------------------------
\* Every variable has its type.
TypeOK ==
  /\ shown \subseteq Cited /\ epoch \in Nat /\ appended \in Nat
  /\ \A n \in DOMAIN stats : stats[n].ev \in Events /\ stats[n].id \in Cited
  /\ \A p \in Reporters : report[p].todo \subseteq report[p].ids /\ report[p].ids \subseteq Cited

\* However often a report is retried, and by whichever process, a citation
\* weighs once (record_edge_stat_event, "no double weight").
CountedOnce ==
  \A m, n \in DOMAIN stats : stats[m].ev = stats[n].ev /\ stats[m].id = stats[n].id => m = n

\* A report that was answered in full left a row for every citation that no
\* gate, cap or purge took away.
AnsweredIsRecorded ==
  \A a \in answered : \A id \in a.ids :
    <<a.ev, id>> \in dropped \/ \E n \in DOMAIN stats : stats[n].ev = a.ev /\ stats[n].id = id

\* The cap is read outside the insert's transaction: every process may carry
\* the table one row past it, and none further.
CapOvershoot == Len(stats) <= RowCap + Cardinality(Reporters) - 1

\* A cache that holds the current epoch holds the current table, except while a
\* report has inserted rows it has not announced, and after a report that
\* failed half way or two bumps that overlapped.
EpochCoversAppends ==
  Unbumped = {} /\ ~tainted /\ consumer.epoch = epoch => consumer.size = appended

\* What the feedback table promises: a citation weighs once, an answered report is
\* in it, its cap gives by one row a reporter, and its epoch covers its rows.
FeedbackSafe ==
  /\ TypeOK /\ CountedOnce /\ AnsweredIsRecorded /\ CapOvershoot
  /\ EpochCoversAppends
=============================================================================
