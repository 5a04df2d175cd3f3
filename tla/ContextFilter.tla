---------------------------- MODULE ContextFilter ----------------------------
(***************************************************************************)
(* The context filter (filter/pipeline.py: dedup, noise, extract, compress *)
(* and tokens over the lines of a text) and its two callers in manager.py: *)
(* issue_context_filter, which echoes the result, and filter_all, which    *)
(* walks the store.  A line is a record [body, kind, pre, stamp]: what it  *)
(* says, what the patterns find in it, its first two words (0: fewer) and  *)
(* its timestamp.  How the result becomes the row's served projection is   *)
(* in Publication.                                                         *)
(***************************************************************************)
EXTENDS Naturals, Sequences, FiniteSets, SequencesExt

CONSTANTS
  Inputs,      \* the texts to filter, as sequences of lines
  Arrays,      \* JSON arrays, as sequences of BOOLEAN: is the item an anomaly
  Profiles,
  Budgets,     \* token budgets; 0 for none
  Around,      \* context lines on each side of a signal line
  LongLog,     \* a log longer than this is sampled ...
  Edge,        \* ... with so many lines kept at each end
  Stride,      \* ... and every Stride-th between
  ShortText,   \* a text shorter than this is not collapsed
  ArrayMin, ArrayEnd, AnomalyCap,   \* _sample_json_array
  Mems, PageLimit, MaxChanges

\* Head and tail of a sampled array never overlap.
ASSUME ArrayAssumption == ArrayMin > 2 * ArrayEnd

VARIABLES
  text,      \* the input
  cur,       \* the text between two stages
  stage, profile,
  array,     \* the JSON array being sampled
  lost,      \* lines the markers account for
  table,     \* ids, newest first
  row,       \* id -> [admissible, secret]
  walk,      \* filter_all
  filtered,  \* ids the walk has filtered
  shifted,   \* a row came or went during the walk
  issue,     \* issue_context_filter
  changes

stages == <<text, cur, stage, profile, lost, array>>
callers == <<table, row, walk, filtered, shifted, issue, changes>>
fvars == <<stages, callers>>

NoWalk == [pc |-> "idle", total |-> 0, offset |-> 0, seen |-> 0, page |-> <<>>, start |-> {}]
NoIssue == [pc |-> "idle", id |-> "none", secret |-> FALSE, hidden |-> FALSE]
Marker(n) == [body |-> "marker", kind |-> "marker", pre |-> 0, stamp |-> n]

Init ==
  /\ text = <<>> /\ cur = <<>> /\ stage = "idle" /\ profile = "none" /\ lost = 0 /\ array = <<>>
  /\ table = SetToSeq(Mems) /\ row = [m \in Mems |-> [admissible |-> TRUE, secret |-> FALSE]]
  /\ walk = NoWalk /\ filtered = {} /\ shifted = FALSE /\ issue = NoIssue /\ changes = 0

\* The elements of s at the places in keep, in order.
Keep(s, keep) ==
  [k \in 1..Cardinality(keep) |-> s[CHOOSE n \in keep : Cardinality({m \in keep : m <= n}) = k]]

----------------------------------------------------------------------------
\* The stages.

\* apply_filter: the profile is the caller's or detect_profile's guess.
Filter(t, p) ==
  /\ stage = "idle" /\ stage' = "dedup" /\ profile' = p /\ text' = t /\ cur' = t /\ lost' = 0
  /\ UNCHANGED <<array, callers>>

\* A line is a repeat of an earlier one, blank ones aside.
Repeats(s, n) ==
  /\ s[n].kind # "blank"
  /\ \E m \in 1..(n - 1) : s[m].kind # "blank" /\ s[m].body = s[n].body /\ s[m].stamp = s[n].stamp

_stage_dedup ==
  /\ stage = "dedup" /\ stage' = "noise"
  /\ cur' = Keep(cur, {n \in 1..Len(cur) : ~Repeats(cur, n)})
  /\ UNCHANGED <<text, profile, lost, array, callers>>

NoisyLine(l) == profile \in {"log", "terminal", "default"} /\ l.kind = "separator"
Unstamped(l) == IF profile \in {"log", "terminal"} THEN [l EXCEPT !.stamp = 0] ELSE l

\* Separators go, timestamps are stripped, and a run of blank lines becomes
\* one.
_stage_noise ==
  /\ stage = "noise" /\ stage' = "extract"
  /\ LET s == SelectSeq([n \in 1..Len(cur) |-> Unstamped(cur[n])], LAMBDA l : ~NoisyLine(l))
     IN cur' = Keep(s, {n \in 1..Len(s) : ~(n > 1 /\ s[n].kind = "blank" /\ s[n - 1].kind = "blank")})
  /\ UNCHANGED <<text, profile, lost, array, callers>>

Signals(s) == {n \in 1..Len(s) : s[n].kind = "signal"}

\* Mutant: the window before a signal starts one line late.
Window_short(s, n) == {m \in 1..Len(s) : m <= n + Around /\ m + Around > n + 1}

Window(s, n) == {m \in 1..Len(s) : m <= n + Around /\ m + Around >= n}

Sampled(s) ==
  {n \in 1..Len(s) : n <= Edge \/ n + Edge > Len(s) \/ (n - Edge - 1) % Stride = 0}

\* Signal lines with their context; without any, a long log is sampled.
_stage_extract ==
  /\ stage = "extract" /\ stage' = "compress"
  /\ cur' = IF profile \in {"docs", "web", "default"} THEN cur
            ELSE IF Signals(cur) # {} THEN Keep(cur, UNION {Window(cur, n) : n \in Signals(cur)})
            ELSE IF Len(cur) > LongLog /\ profile \in {"log", "terminal"} THEN Keep(cur, Sampled(cur))
            ELSE cur
  /\ UNCHANGED <<text, profile, lost, array, callers>>

\* The first place after n whose line does not share n's first two words.
RunEnd(s, n) ==
  CHOOSE m \in (n + 1)..(Len(s) + 1) :
    /\ m = Len(s) + 1 \/ s[m].pre # s[n].pre
    /\ \A k \in (n + 1)..(m - 1) : s[k].pre = s[n].pre

Collapses(s, n) == s[n].pre > 0 /\ n + 2 <= Len(s) /\ RunEnd(s, n) - n >= 3

\* A run of similar lines becomes one marker.
Collapsed(s) ==
  LET From[n \in 1..(Len(s) + 1)] ==
        IF n > Len(s) THEN <<>>
        ELSE IF Collapses(s, n) THEN <<Marker(RunEnd(s, n) - n)>> \o From[RunEnd(s, n)]
        ELSE <<s[n]>> \o From[n + 1]
  IN From[1]

\* An import block starts; its first line is kept.
NewBlock(st) == [st EXCEPT !.block = Len(st.out) + 1, !.dropped = 0]

\* The marker of a block goes behind its first line.
CloseBlock(st, end) ==
  [st EXCEPT !.block = 0,
     !.out = IF st.block = 0 \/ st.dropped = 0 THEN @
             ELSE IF end THEN Append(@, Marker(st.dropped)) ELSE InsertAt(@, st.block + 1, Marker(st.dropped))]

CodeLine(st, l) ==
  CASE l.kind = "blank" ->
         IF st.out # <<>> /\ Last(st.out).kind = "blank" THEN [st EXCEPT !.blanks = @ + 1]
         ELSE [st EXCEPT !.out = Append(@, l)]
    [] l.kind = "import" ->
         IF st.block > 0 THEN [st EXCEPT !.dropped = @ + 1]
         ELSE [NewBlock(st) EXCEPT !.out = Append(@, l)]
    [] OTHER -> LET c == CloseBlock(st, FALSE) IN [c EXCEPT !.out = Append(@, l)]

\* _compress_code: import blocks and runs of blank lines.
_compress_code(s) ==
  CloseBlock(FoldLeft(CodeLine, [out |-> <<>>, block |-> 0, dropped |-> 0, blanks |-> 0], s), TRUE)

_stage_compress ==
  /\ stage = "compress" /\ stage' = "tokens"
  /\ LET code == _compress_code(cur) IN
     /\ cur' = IF profile = "code" THEN code.out ELSE IF Len(cur) < ShortText THEN cur ELSE Collapsed(cur)
     /\ lost' = IF profile = "code" THEN code.blanks ELSE 0
  /\ UNCHANGED <<text, profile, array, callers>>

\* A line is a token; a budget keeps that many and adds a note.
_stage_tokens(budget) ==
  /\ stage = "tokens" /\ stage' = "done"
  /\ cur' = IF budget > 0 /\ Len(cur) > budget THEN Append(SubSeq(cur, 1, budget), Marker(0)) ELSE cur
  /\ UNCHANGED <<text, profile, lost, array, callers>>

\* Mutant: the tail is one item short.
Kept_short(a) ==
  {n \in 1..Len(a) : n <= ArrayEnd \/ n + ArrayEnd > Len(a) + 1
                     \/ (a[n] /\ Cardinality({m \in (ArrayEnd + 1)..n : a[m]}) <= AnomalyCap)}

\* _sample_json_array: both ends, and the first anomalies between.
Kept(a) ==
  {n \in 1..Len(a) : n <= ArrayEnd \/ n + ArrayEnd > Len(a)
                     \/ (a[n] /\ Cardinality({m \in (ArrayEnd + 1)..n : a[m]}) <= AnomalyCap)}

\* The count the marker of a sampled array states.
StatedDrop(a) ==
  LET middle == SubSeq(a, ArrayEnd + 1, Len(a) - ArrayEnd)
      odd == Cardinality({n \in 1..Len(middle) : middle[n]})
  IN Len(middle) - (IF odd > AnomalyCap THEN AnomalyCap ELSE odd)

\* _compress_json_arrays leaves a short array as it is.
Sample(a) ==
  /\ stage = "idle" /\ Len(a) >= ArrayMin /\ stage' = "sampled" /\ array' = a
  /\ UNCHANGED <<text, cur, profile, lost, callers>>

Restart ==
  /\ stage \in {"done", "sampled"} /\ stage' = "idle"
  /\ text' = <<>> /\ cur' = <<>> /\ profile' = "none" /\ lost' = 0 /\ array' = <<>>
  /\ UNCHANGED callers

----------------------------------------------------------------------------
\* filter_all.

BeginWalk ==
  /\ walk.pc = "idle" /\ filtered = {}
  /\ walk' = [NoWalk EXCEPT !.pc = "page", !.total = Len(table), !.start = ToSet(table)]
  /\ shifted' = FALSE
  /\ UNCHANGED <<stages, table, row, filtered, issue, changes>>

Page(offset) ==
  LET last == IF offset + PageLimit < Len(table) THEN offset + PageLimit ELSE Len(table)
  IN SubSeq(table, offset + 1, last)

NextOffset(page) == walk.offset + Len(page)

\* A page is read; a short one is the last.
NextPage ==
  /\ walk.pc = "page"
  /\ LET p == IF walk.offset < Len(table) THEN Page(walk.offset) ELSE <<>> IN
     walk' = [walk EXCEPT !.pc = IF p = <<>> \/ walk.seen >= walk.total THEN "done" ELSE "rows",
                          !.page = p, !.offset = NextOffset(p)]
  /\ UNCHANGED <<stages, table, row, filtered, shifted, issue, changes>>

FilterRow ==
  /\ walk.pc = "rows"
  /\ filtered' = IF Head(walk.page) \in ToSet(table) THEN filtered \cup {Head(walk.page)} ELSE filtered
  /\ walk' = [walk EXCEPT !.page = Tail(@), !.seen = @ + 1,
                          !.pc = IF Len(walk.page) > 1 THEN "rows" ELSE "page"]
  /\ UNCHANGED <<stages, table, row, shifted, issue, changes>>

----------------------------------------------------------------------------
\* issue_context_filter.

\* The status gate reads the row; the project scope is checked with it.
Issue(m) ==
  /\ issue.pc = "idle" /\ m \in ToSet(table)
  /\ issue' = IF row[m].admissible THEN [NoIssue EXCEPT !.pc = "apply", !.id = m] ELSE NoIssue
  /\ UNCHANGED <<stages, table, row, walk, filtered, shifted, changes>>

\* scan_issuance_item over the text that is returned.
Refused(r) == r.secret

\* apply_context_filter reads the row again; its result is scanned.
Apply ==
  /\ issue.pc = "apply"
  /\ LET r == row[issue.id] IN
     issue' = IF issue.id \in ToSet(table) /\ ~Refused(r)
              THEN [issue EXCEPT !.pc = "echo", !.secret = r.secret] ELSE NoIssue
  /\ UNCHANGED <<stages, table, row, walk, filtered, shifted, changes>>

Echo ==
  /\ issue.pc = "echo" /\ issue' = NoIssue
  /\ UNCHANGED <<stages, table, row, walk, filtered, shifted, changes>>

\* Another writer: a row is hidden, gets a secret, goes, or comes back in front.
Change(m, kind) ==
  /\ changes < MaxChanges /\ changes' = changes + 1
  /\ CASE kind = "hide" -> /\ row' = [row EXCEPT ![m].admissible = FALSE]
                           /\ issue' = [issue EXCEPT !.hidden = @ \/ issue.id = m]
                           /\ UNCHANGED <<table, shifted>>
       [] kind = "secret" -> row' = [row EXCEPT ![m].secret = TRUE] /\ UNCHANGED <<issue, table, shifted>>
       [] kind = "delete" -> /\ m \in ToSet(table) /\ table' = SelectSeq(table, LAMBDA x : x # m)
                             /\ shifted' = TRUE /\ UNCHANGED <<row, issue>>
       [] kind = "add" -> /\ m \notin ToSet(table) /\ table' = <<m>> \o table
                          /\ shifted' = TRUE /\ UNCHANGED <<row, issue>>
  /\ UNCHANGED <<stages, walk, filtered>>

StageNext ==
  \/ stage = "idle" /\ \E t \in Inputs, p \in Profiles : Filter(t, p)
  \/ _stage_dedup \/ _stage_noise \/ _stage_extract \/ _stage_compress \/ Restart
  \/ (\E b \in Budgets : _stage_tokens(b)) \/ (stage = "idle" /\ \E a \in Arrays : Sample(a))

CallerNext ==
  \/ BeginWalk \/ NextPage \/ FilterRow \/ Apply \/ Echo
  \/ \E m \in Mems : Issue(m) \/ (\E k \in {"hide", "secret", "delete", "add"} : Change(m, k))

Next == StageNext \/ CallerNext
Spec == Init /\ [][Next]_fvars

----------------------------------------------------------------------------
TypeOK ==
  /\ stage \in {"idle", "dedup", "noise", "extract", "compress", "tokens", "done", "sampled"}
  /\ Len(cur) <= Len(text) + 2 /\ lost \in 0..Len(text)
  /\ walk.pc \in {"idle", "page", "rows", "done"} /\ filtered \subseteq Mems
  /\ issue.pc \in {"idle", "apply", "echo"}

Bodies(s, kind) == {s[n].body : n \in {m \in 1..Len(s) : s[m].kind = kind}}

\* No signal line is lost before the compression: every error or warning of
\* the text comes out of the extraction, still behind the line before it.
SignalStep ==
  stage = "extract" /\ stage' = "compress" =>
    /\ Bodies(text, "signal") = Bodies(cur', "signal")
    /\ \A n \in Signals(cur) \ {1} :
         \E m \in Signals(cur') \ {1} : cur'[m] = cur[n] /\ cur'[m - 1] = cur[n - 1]

Plain(s) == SelectSeq(s, LAMBDA l : l.kind # "marker")
Stated(s) == FoldLeft(LAMBDA a, l : IF l.kind = "marker" THEN a + l.stamp ELSE a, 0, s)

\* The compression loses no line without saying so: the lines it keeps, the
\* ones its markers state and the blank ones it counts make up its input.
AccountStep ==
  stage = "compress" /\ stage' = "tokens" =>
    Len(Plain(cur')) + Stated(cur') + lost' = Len(cur)

\* A sampled array says how many items it left out.
ArrayAccounts == stage = "sampled" => Cardinality(Kept(array)) + StatedDrop(array) = Len(array)

\* A walk filters every row that was there when it began, unless a row came
\* or went under it.
WalkCovers == walk.pc = "done" /\ ~shifted => walk.start \subseteq filtered

\* The echoed text passed the scan although the row may have been edited
\* after the gate, and belongs to a row that was admissible when asked for.
EchoIsScanned ==
  issue.pc = "echo" => ~issue.secret /\ (row[issue.id].admissible \/ issue.hidden)

\* What the filter promises: arrays and walks account for everything, and what is
\* echoed was scanned.
FilterSafe ==
  /\ TypeOK /\ ArrayAccounts /\ WalkCovers /\ EchoIsScanned
=============================================================================
