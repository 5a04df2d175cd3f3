----------------------------- MODULE Automation -----------------------------
(***************************************************************************)
(* The dead-letter queue (policy/dlq.py, policy/scheduler.py and its table *)
(* in storage/sqlite_store.py) and the ingest of path-scoped rule files    *)
(* (watchers/path_scoped.py).  Both read a row, decide, and write it later *)
(* by id, so the scheduler and the REST server's calls interleave.  What   *)
(* add, update and delete do to the row of a rule is in Publication.       *)
(***************************************************************************)
EXTENDS Naturals, FiniteSets

CONSTANTS
  Entries,      \* ids of dead letters
  MaxAttempts,  \* max_attempts of an entry
  Backoff,      \* backoff_sec, in ticks
  BackoffCap,   \* one day
  Callers,      \* REST calls
  Files,        \* rule files
  RowIds,       \* memories made from rules (a bound)
  MaxTime, MaxCalls, MaxEdits  \* bounds

\* What the theorems assume of the names and limits; the prover has no rule for
\* powers, so that the delays are numbers is stated.
LimitsOK ==
  /\ MaxTime \in Nat /\ MaxAttempts \in Nat /\ BackoffCap \in Nat
  /\ \A n \in 0..MaxAttempts : Backoff * 2^n \in Nat
  /\ "scheduler" \notin Callers /\ "none" \notin Entries \cup Files \cup RowIds
  /\ IsFiniteSet(RowIds)

VARIABLES
  now,
  dlq,      \* id -> [attempt, next], attempt 0 if there is no such entry
  pass,     \* the scheduler's list: id -> attempt it read, 0 if not on it
  retry,    \* who -> [id, attempt]: the row dlq_increment_attempt has read
  applied,  \* ghost: id -> increments written
  crossed,  \* ghost: ids with two increments, or one and a pass, in flight at once
  disk,     \* file -> 0 absent, 1.. contents, Unreadable
  rules,    \* row -> [file, text], text 0 if it was deleted, NoRule if never used
  call,     \* caller -> the ingest or removal it is in
  met,      \* ghost: files a second call, an edit or a removal touched meanwhile
  doubled,  \* ghost: files two overlapping ingests added
  calls, edits

queue  == <<now, dlq, pass, retry, applied, crossed>>
ruled  == <<disk, rules, call, met, doubled, edits>>
autoVars == <<queue, ruled, calls>>

Scheduler  == "scheduler"
Who        == Callers \cup {Scheduler}
Unreadable == 9
NoEntry    == [attempt |-> 0, next |-> 0]
NoRetry    == [id |-> "none", attempt |-> 0]
NoRule     == [file |-> "none", text |-> 0]
Idle       == [pc |-> "idle", todo |-> {}, file |-> "none", text |-> 0, row |-> "none"]

Init ==
  /\ now = 0 /\ dlq = [e \in Entries |-> NoEntry] /\ pass = [e \in Entries |-> 0]
  /\ retry = [w \in Who |-> NoRetry] /\ applied = [e \in Entries |-> 0] /\ crossed = {}
  /\ disk = [f \in Files |-> 1] /\ rules = [r \in RowIds |-> NoRule]
  /\ call = [c \in Callers |-> Idle] /\ met = {} /\ doubled = {} /\ calls = 0 /\ edits = 0

----------------------------------------------------------------------------
\* The dead-letter queue.

Queued == {e \in Entries : dlq[e].attempt > 0}
Retrying(e) == {w \in Who : retry[w].id = e}

\* dlq_add: the first attempt has been made, the next is due at once.
dlq_add(e) ==
  /\ dlq[e] = NoEntry /\ applied[e] = 0 /\ calls < MaxCalls /\ calls' = calls + 1
  /\ dlq' = [dlq EXCEPT ![e] = [attempt |-> 1, next |-> now]]
  /\ applied' = [applied EXCEPT ![e] = 1]
  /\ UNCHANGED <<now, pass, retry, crossed, ruled>>

Ready == {e \in Queued : dlq[e].next <= now}

\* dlq_retry_scheduler lists the entries that are due.
PassRead ==
  /\ \A e \in Entries : pass[e] = 0
  /\ retry[Scheduler] = NoRetry /\ Ready # {}
  /\ pass' = [e \in Entries |-> IF e \in Ready THEN dlq[e].attempt ELSE 0]
  /\ crossed' = crossed \cup {e \in Ready : Retrying(e) # {}}
  /\ UNCHANGED <<now, dlq, retry, applied, ruled, calls>>

Exhausted(attempt) == attempt >= MaxAttempts

\* An entry of the list is discarded, by the count the list has ...
PassDiscard(e) ==
  /\ pass[e] > 0 /\ retry[Scheduler] = NoRetry /\ Exhausted(pass[e])
  /\ dlq' = [dlq EXCEPT ![e] = NoEntry] /\ pass' = [pass EXCEPT ![e] = 0]
  /\ UNCHANGED <<now, retry, applied, crossed, ruled, calls>>

\* ... or its row is read again for the increment, if it is still there.
PassRetry(e) ==
  /\ pass[e] > 0 /\ retry[Scheduler] = NoRetry /\ ~Exhausted(pass[e])
  /\ pass' = [pass EXCEPT ![e] = 0]
  /\ retry' = IF dlq[e] = NoEntry THEN retry
              ELSE [retry EXCEPT ![Scheduler] = [id |-> e, attempt |-> dlq[e].attempt]]
  /\ crossed' = IF Retrying(e) # {} \/ dlq[e].attempt # pass[e] THEN crossed \cup {e} ELSE crossed
  /\ UNCHANGED <<now, dlq, applied, ruled, calls>>

\* POST /dlq/{id}/retry reads the row, due or not.
UserRetry(c, e) ==
  /\ retry[c] = NoRetry /\ call[c] = Idle /\ calls < MaxCalls /\ calls' = calls + 1
  /\ dlq[e] # NoEntry
  /\ retry' = [retry EXCEPT ![c] = [id |-> e, attempt |-> dlq[e].attempt]]
  /\ crossed' = IF Retrying(e) # {} \/ pass[e] > 0 THEN crossed \cup {e} ELSE crossed
  /\ UNCHANGED <<now, dlq, pass, applied, ruled>>

Least(a, b) == IF a <= b THEN a ELSE b

\* Exponential backoff up to a day; past the last attempt the entry is due at
\* once, for the scheduler to discard.
NextRetry(attempt) ==
  IF attempt <= MaxAttempts THEN now + Least(Backoff * 2^(attempt - 1), BackoffCap) ELSE now

\* Mutant: the count is not written.
Increment_lost(row, attempt) == [row EXCEPT !.next = NextRetry(attempt)]

Increment(row, attempt) == [row EXCEPT !.attempt = attempt, !.next = NextRetry(attempt)]

\* The UPDATE by id: nothing if the entry was discarded.
RetryWrite(w) ==
  /\ retry[w] # NoRetry
  /\ LET e == retry[w].id n == retry[w].attempt + 1 IN
     IF dlq[e] = NoEntry THEN UNCHANGED <<dlq, applied>>
     ELSE /\ dlq' = [dlq EXCEPT ![e] = Increment(@, n)]
          /\ applied' = [applied EXCEPT ![e] = @ + 1]
  /\ retry' = [retry EXCEPT ![w] = NoRetry]
  /\ UNCHANGED <<now, pass, crossed, ruled, calls>>

\* DELETE /dlq/{id}.
Discard(e) ==
  /\ dlq[e] # NoEntry /\ calls < MaxCalls /\ calls' = calls + 1
  /\ dlq' = [dlq EXCEPT ![e] = NoEntry]
  /\ UNCHANGED <<now, pass, retry, applied, crossed, ruled>>

Tick ==
  /\ now < MaxTime /\ now' = now + 1
  /\ UNCHANGED <<dlq, pass, retry, applied, crossed, ruled, calls>>

DlqNext ==
  \/ PassRead \/ Tick
  \/ \E e \in Entries : dlq_add(e) \/ PassDiscard(e) \/ PassRetry(e) \/ Discard(e)
                        \/ \E c \in Callers : UserRetry(c, e)
  \/ \E w \in Who : RetryWrite(w)

----------------------------------------------------------------------------
\* Rule files.

RowsOf(f) == {r \in RowIds : rules[r].text # 0 /\ rules[r].file = f}
Handling(f) == {c \in Callers : call[c].file = f \/ f \in call[c].todo}

Listing == {f \in Files : disk[f] # 0}

\* ingest_path_scoped_rules lists the directory, sorted; here in any order.
Ingest(c) ==
  /\ call[c] = Idle /\ calls < MaxCalls /\ calls' = calls + 1
  /\ call' = [call EXCEPT ![c].pc = "next", ![c].todo = Listing]
  /\ met' = (met \ {f \in Files : disk[f] \notin {0, Unreadable}}) \cup {f \in Files : Handling(f) # {}}
  /\ UNCHANGED <<queue, disk, rules, doubled, edits>>

\* ingest_rule reads and parses the file, then looks its row up by the path (any
\* one, if there are several); an error is logged and the next file is taken.
ReadRule(c, f) ==
  /\ call[c].pc = "next" /\ f \in call[c].todo
  /\ IF disk[f] \in {0, Unreadable}
       THEN call' = [call EXCEPT ![c].todo = @ \ {f}]
       ELSE \E r \in IF RowsOf(f) = {} THEN {"none"} ELSE RowsOf(f) :
              call' = [call EXCEPT ![c] = [pc |-> "write", todo |-> @.todo \ {f}, file |-> f,
                                           text |-> disk[f], row |-> r]]
  /\ UNCHANGED <<queue, disk, rules, met, doubled, edits, calls>>

\* The row update writes, or a fresh one: no id is used twice.
Target(c) == IF call[c].row # "none" THEN call[c].row ELSE CHOOSE r \in RowIds : rules[r] = NoRule

\* update of the row found, which does nothing if it was deleted, or add.
WriteRule(c) ==
  /\ call[c].pc = "write" /\ (call[c].row = "none" => NoRule \in {rules[r] : r \in RowIds})
  /\ LET f == call[c].file
         gone == call[c].row # "none" /\ rules[call[c].row].text = 0 IN
     /\ rules' = IF gone THEN rules
                 ELSE [rules EXCEPT ![Target(c)] = [file |-> f, text |-> call[c].text]]
     /\ doubled' = IF call[c].row = "none" /\ RowsOf(f) # {} THEN doubled \cup {f} ELSE doubled
  /\ call' = [call EXCEPT ![c].pc = "next", ![c].file = "none", ![c].text = 0, ![c].row = "none"]
  /\ UNCHANGED <<queue, disk, met, edits, calls>>

Ingested(c) ==
  /\ call[c].pc = "next" /\ call[c].todo = {} /\ call' = [call EXCEPT ![c] = Idle]
  /\ UNCHANGED <<queue, disk, rules, met, doubled, edits, calls>>

\* remove_rule: look up, then delete that one row.
Remove(c, f) ==
  /\ call[c] = Idle /\ calls < MaxCalls /\ calls' = calls + 1 /\ RowsOf(f) # {}
  /\ \E r \in RowsOf(f) :
       call' = [call EXCEPT ![c] = [@ EXCEPT !.pc = "delete", !.file = f, !.row = r]]
  /\ met' = met \cup {f}
  /\ UNCHANGED <<queue, disk, rules, doubled, edits>>

Delete(c) ==
  /\ call[c].pc = "delete" /\ rules' = [rules EXCEPT ![call[c].row].text = 0]
  /\ call' = [call EXCEPT ![c] = Idle]
  /\ doubled' = IF Cardinality(RowsOf(call[c].file) \ {call[c].row}) <= 1
                  THEN doubled \ {call[c].file} ELSE doubled
  /\ UNCHANGED <<queue, disk, met, edits, calls>>

\* The file is written, broken or deleted; the store is not told.
Edit(f, text) ==
  /\ edits < MaxEdits /\ edits' = edits + 1 /\ disk[f] # text
  /\ disk' = [disk EXCEPT ![f] = text] /\ met' = met \cup {f}
  /\ UNCHANGED <<queue, rules, call, doubled, calls>>

RuleNext ==
  \/ \E c \in Callers : Ingest(c) \/ WriteRule(c) \/ Ingested(c) \/ Delete(c)
                        \/ \E f \in Files : ReadRule(c, f) \/ Remove(c, f)
  \/ \E f \in Files, t \in {0, 2, Unreadable} : Edit(f, t)

Next == DlqNext \/ RuleNext

Spec == Init /\ [][Next]_autoVars

----------------------------------------------------------------------------
\* Every variable has its type; a retry is of an entry that was there.
TypeOK ==
  /\ now \in 0..MaxTime /\ crossed \subseteq Entries /\ met \subseteq Files /\ doubled \subseteq Files
  /\ \A e \in Entries : dlq[e].attempt \in Nat /\ dlq[e].next \in Nat /\ pass[e] \in Nat
  /\ \A w \in Who : retry[w] # NoRetry => retry[w].id \in Entries /\ retry[w].attempt > 0
  /\ \A c \in Callers : call[c].pc \in {"idle", "next", "write", "delete"}

\* An attempt is lost from the count only when two increments of the entry, or
\* an increment and the scheduler's pass, overlapped (dlq_increment_attempt
\* reads the count and writes it back in two statements).
CountLossNeedsOverlap ==
  \A e \in Queued : dlq[e].attempt # applied[e] => e \in crossed

\* The scheduler gives up an entry only when its attempts are used up, and adds
\* one only when the entry is due, overlapping retries apart.
BudgetStep ==
  \A e \in Entries \ crossed :
    /\ pass[e] > 0 /\ pass'[e] = 0 /\ dlq[e] # NoEntry /\ dlq'[e] = NoEntry
         => dlq[e].attempt >= MaxAttempts
    /\ retry[Scheduler].id = e /\ dlq'[e].attempt > dlq[e].attempt /\ retry'[Scheduler] = NoRetry
         => dlq[e].next <= now

\* A rule file has one row, unless two ingests added it at once.
OneRowPerRule == \A f \in Files \ doubled : Cardinality(RowsOf(f)) <= 1

\* When nothing is in flight, a file an undisturbed ingest has passed since its
\* last edit or removal is served as it is on disk.
ServedRuleIsCurrent ==
  \A f \in Files \ (met \cup doubled) :
    Handling(f) = {} => \A r \in RowsOf(f) : rules[r].text = disk[f]

\* What the queue and the rule files promise: attempts counted, one row a rule,
\* served as it is on disk.
AutomationSafe ==
  /\ TypeOK /\ CountLossNeedsOverlap /\ OneRowPerRule /\ ServedRuleIsCurrent
=============================================================================
