----------------------------- MODULE ContextCache -----------------------------
(***************************************************************************)
(* The compressed-context cache: compress stores an original under its     *)
(* hash and hands out a marker, retrieve issues the original again, TTL    *)
(* cleanup and LRU eviction drop entries.                                  *)
(*                                                                         *)
(* A text stands for itself and for its hash.  A session-bound identity    *)
(* (agent, session) is an issuer.  Every SQL statement is a step of its    *)
(* own; the processes share the table.                                     *)
(***************************************************************************)
EXTENDS Naturals, FiniteSets, Sequences, SequencesExt

CONSTANTS
  Procs,            \* processes and threads that use the cache
  Projects,         \* project slugs
  Unscoped,         \* the empty slug: an entry, or a caller, without project
  Texts,            \* texts that reach min_size_chars
  SecretTexts,      \* texts the secrets detector hits
  Issuers,          \* identities of callers
  Nobody,           \* no identity (a NULL issuer)
  MaxEntries,       \* ccr.max_entries
  QuarantineLimit,  \* rows the quarantine lookup reads (limit=1000)
  Configs,          \* configurations: validate_markers, require_project_match,
                    \* retrieve_refuse_on_secret
  MaxOps            \* bound on calls

ASSUME CacheAssumption ==
  /\ IsFiniteSet(Procs)
  /\ Unscoped \notin Projects /\ Nobody \notin Issuers
  /\ Texts # {} /\ SecretTexts \subseteq Texts
  /\ MaxEntries \in Nat /\ QuarantineLimit \in Nat /\ MaxOps \in Nat
  /\ Configs \subseteq [strict : BOOLEAN, match : BOOLEAN, refuse : BOOLEAN]

VARIABLES
  cache,       \* the rows of ccr_cache
  rowid,       \* the next row's creation order
  quarantined, \* texts of quarantined memories, newest first
  config,      \* the configuration (fixed)
  proc,        \* per process: its pc, its call and what it has read
  compressed,  \* ghost: which issuer compressed what, where
  issued,      \* ghost: how often an original or its snippets were issued
  last,        \* ghost: the last issue
  ops

vars == <<cache, rowid, quarantined, config, proc, compressed, issued, last, ops>>
ghosts == <<compressed, issued, last>>

Scopes == Projects \cup {Unscoped}
Row    == [project : Scopes, text : Texts, issuer : Issuers \cup {Nobody},
           hit : BOOLEAN, count : Nat, id : Nat]
NoRow  == [project |-> Unscoped, text |-> CHOOSE t \in Texts : TRUE, issuer |-> Nobody,
           hit |-> FALSE, count |-> 0, id |-> 0]
Call   == [project : Scopes, text : Texts, who : Issuers \cup {Nobody}, query : BOOLEAN]
NoCall == [project |-> Unscoped, text |-> NoRow.text, who |-> Nobody, query |-> FALSE]
Idle   == [pc |-> "idle", call |-> NoCall, row |-> NoRow, excess |-> 0]
Shown  == {"nothing", "raw", "redacted", "retraction"}

TypeOK ==
  /\ cache \subseteq Row
  /\ \A r, s \in cache : r.project = s.project /\ r.text = s.text => r = s
  /\ rowid \in Nat
  /\ quarantined \in Seq(Texts)
  /\ config \in Configs
  /\ proc \in [Procs -> [pc : {"idle", "store", "count", "evict", "validate", "fetch",
                               "decide", "touch"},
                         call : Call, row : Row, excess : Nat]]
  /\ compressed \subseteq Issuers \X Scopes \X Texts
  /\ issued \in [Scopes \X Texts -> Nat]
  /\ last \in [text : Texts, project : Scopes, to : Issuers \cup {Nobody},
              stamped : BOOLEAN, how : Shown]

Init ==
  /\ cache = {} /\ rowid = 1 /\ quarantined = <<>>
  /\ config \in Configs
  /\ proc = [p \in Procs |-> Idle]
  /\ compressed = {} /\ issued = [e \in Scopes \X Texts |-> 0]
  /\ last = [text |-> NoRow.text, project |-> Unscoped, to |-> Nobody,
             stamped |-> FALSE, how |-> "nothing"]
  /\ ops = 0

-----------------------------------------------------------------------------
at(p, pc)   == proc[p].pc = pc
then(p, pc) == proc' = [proc EXCEPT ![p].pc = pc]
over(p)     == proc' = [proc EXCEPT ![p] = Idle]
Calls(p, pc, call) ==
  /\ proc[p] = Idle /\ ops < MaxOps
  /\ ops' = ops + 1
  /\ proc' = [proc EXCEPT ![p].pc = pc, ![p].call = call]

Lookup(project, text) == {r \in cache : r.project = project /\ r.text = text}
\* The unscoped lookup resolves to the first stored copy.
FirstStored(text) ==
  {r \in cache : r.text = text /\ \A s \in cache : s.text = text => r.id <= s.id}

\* ccr_get: the row a scope and a hash stand for (a set of at most one).
ccr_get(project, text) ==
  IF project = Unscoped THEN FirstStored(text) ELSE Lookup(project, text)

\* Mutant: the latest issuer takes the row over.
Upserted_takesOver(call, verdict) ==
  LET old == Lookup(call.project, call.text) IN
  IF old = {} THEN {[project |-> call.project, text |-> call.text, issuer |-> call.who,
                     hit |-> verdict, count |-> 0, id |-> rowid]}
              ELSE {[r EXCEPT !.hit = verdict, !.issuer = call.who] : r \in old}

\* ccr_store's UPSERT: a conflict refreshes the verdict only, so the first
\* writer keeps the row.
Upserted(call, verdict) ==
  LET old == Lookup(call.project, call.text) IN
  IF old = {} THEN {[project |-> call.project, text |-> call.text, issuer |-> call.who,
                     hit |-> verdict, count |-> 0, id |-> rowid]}
              ELSE {[r EXCEPT !.hit = verdict] : r \in old}

\* compress_content
Compress(p, call) ==
  /\ Calls(p, "store", call)
  /\ UNCHANGED <<cache, rowid, quarantined, config, ghosts>>

\* ccr_store: the scan at store time may fail, which leaves the verdict open.
Store(p) ==
  LET call == proc[p].call
      old  == Lookup(call.project, call.text) IN
  /\ at(p, "store")
  /\ \E verdict \in {FALSE, call.text \in SecretTexts} :
       cache' = (cache \ old) \cup Upserted(call, verdict)
  /\ rowid' = IF old = {} THEN rowid + 1 ELSE rowid
  /\ compressed' = IF call.who = Nobody THEN compressed
                   ELSE compressed \cup {<<call.who, call.project, call.text>>}
  /\ then(p, "count")
  /\ UNCHANGED <<quarantined, config, issued, last, ops>>

\* ccr_evict_lru: how many rows are above the limit.
Excess == IF Cardinality(cache) <= MaxEntries THEN 0 ELSE Cardinality(cache) - MaxEntries

\* The count and the delete are two statements.
CountEntries(p) ==
  /\ at(p, "count")
  /\ IF Excess = 0 THEN over(p)
     ELSE proc' = [proc EXCEPT ![p].pc = "evict", ![p].excess = Excess]
  /\ UNCHANGED <<cache, rowid, quarantined, config, ghosts, ops>>

\* ORDER BY retrieval_count, created_at
Before(r, s) == r.count < s.count \/ (r.count = s.count /\ r.id < s.id)
LeastUsed(n) == {r \in cache : Cardinality({s \in cache : Before(s, r)}) < n}

EvictLRU(p) ==
  /\ at(p, "evict")
  /\ cache' = cache \ LeastUsed(proc[p].excess)
  /\ over(p)
  /\ UNCHANGED <<rowid, quarantined, config, ghosts, ops>>

\* cleanup: the TTL statement, then the eviction.  Rows expire in the order
\* they were created in.
Cleanup(p) ==
  /\ Calls(p, "count", NoCall)
  /\ \E oldest \in 0..MaxOps : cache' = {r \in cache : r.id > oldest}
  /\ UNCHANGED <<rowid, quarantined, config, ghosts>>

-----------------------------------------------------------------------------
(* retrieve_content                                                        *)

\* A call that carries marker metadata names its caller.
MarkerShaped(call) == call.who # Nobody

Retrieve(p, call) ==
  /\ Calls(p, IF config.strict /\ MarkerShaped(call) THEN "validate" ELSE "fetch", call)
  /\ UNCHANGED <<cache, rowid, quarantined, config, ghosts>>

\* existence, integrity (the caller has the marker it claims), provenance
validate_marker(call) ==
  /\ call.project # Unscoped
  /\ \E r \in ccr_get(call.project, call.text) : r.issuer = call.who

Validate(p) ==
  /\ at(p, "validate")
  /\ IF validate_marker(proc[p].call) THEN then(p, "fetch") ELSE over(p)
  /\ UNCHANGED <<cache, rowid, quarantined, config, ghosts, ops>>

\* Mutant: the read counts as a retrieval.
Fetch_bumps(p) ==
  LET rows == ccr_get(proc[p].call.project, proc[p].call.text) IN
  /\ at(p, "fetch")
  /\ cache' = (cache \ rows) \cup {[r EXCEPT !.count = @ + 1] : r \in rows}
  /\ IF rows = {} THEN over(p)
     ELSE \E r \in rows : proc' = [proc EXCEPT ![p].pc = "decide", ![p].row = r]
  /\ UNCHANGED <<rowid, quarantined, config, ghosts, ops>>

\* The second read of the row; the counter stays as it is.
Fetch(p) ==
  LET rows == ccr_get(proc[p].call.project, proc[p].call.text) IN
  /\ at(p, "fetch")
  /\ IF rows = {} THEN over(p)
     ELSE \E r \in rows : proc' = [proc EXCEPT ![p].pc = "decide", ![p].row = r]
  /\ UNCHANGED <<cache, rowid, quarantined, config, ghosts, ops>>

\* _quarantine_retraction_for: the lookup reads a bounded list.
quarantine_retraction_for(text) ==
  text \in Range(SubSeq(quarantined, 1, IF Len(quarantined) < QuarantineLimit
                                          THEN Len(quarantined) ELSE QuarantineLimit))

\* A row stamped with an issuer needs marker metadata in strict mode; a scoped
\* row needs a scope when the configuration says so; rows with a hit have no
\* snippets.
Refuses(call, row) ==
  \/ config.strict /\ ~MarkerShaped(call) /\ row.issuer # Nobody
  \/ config.match /\ call.project = Unscoped /\ row.project # Unscoped
  \/ call.query /\ row.hit

\* What scan_issuance (or the snippet scan) makes of the text: nothing on a
\* scanner error; the snippets of a text with a secret may miss the secret.
Scans(call, row) ==
  {"nothing"} \cup
  (IF row.text \notin SecretTexts THEN {"raw"}
   ELSE IF config.refuse THEN {} ELSE {"redacted"})

Shows(call, row, how) ==
  last' = IF how = "nothing" THEN last
          ELSE [text |-> row.text, project |-> row.project, to |-> call.who,
                stamped |-> row.issuer # Nobody, how |-> how]

\* Everything between the read and the issue.
Decide(p) ==
  LET call == proc[p].call
      row  == proc[p].row IN
  /\ at(p, "decide")
  /\ IF quarantine_retraction_for(row.text)
       THEN /\ over(p)
            /\ Shows(call, row, IF call.query THEN "nothing" ELSE "retraction")
       ELSE \E how \in IF Refuses(call, row) THEN {"nothing"} ELSE Scans(call, row) :
              /\ Shows(call, row, how)
              /\ IF how = "nothing" THEN over(p) ELSE then(p, "touch")
  /\ UNCHANGED <<cache, rowid, quarantined, config, compressed, issued, ops>>

\* ccr_touch, after the decision: the row may be gone or a new one.
Touch(p) ==
  LET row == proc[p].row
      now == Lookup(row.project, row.text) IN
  /\ at(p, "touch")
  /\ cache' = (cache \ now) \cup {[r EXCEPT !.count = @ + 1] : r \in now}
  /\ issued' = [issued EXCEPT ![<<row.project, row.text>>] = @ + 1]
  /\ over(p)
  /\ UNCHANGED <<rowid, quarantined, config, compressed, last, ops>>

-----------------------------------------------------------------------------
\* A memory with this text is quarantined, or released.
Quarantine(t) ==
  /\ ops < MaxOps /\ ops' = ops + 1
  /\ t \notin Range(quarantined)
  /\ quarantined' = <<t>> \o quarantined
  /\ UNCHANGED <<cache, rowid, config, proc, ghosts>>

Next ==
  \/ \E p \in Procs :
       \/ \E call \in Call : Compress(p, [call EXCEPT !.query = FALSE]) \/ Retrieve(p, call)
       \/ Store(p) \/ CountEntries(p) \/ EvictLRU(p) \/ Cleanup(p)
       \/ Validate(p) \/ Fetch(p) \/ Decide(p) \/ Touch(p)
  \/ \E t \in Texts : Quarantine(t)

Spec == Init /\ [][Next]_vars

-----------------------------------------------------------------------------
(* Properties.                                                             *)

\* A2 ledger: as long as a row is in the cache its issuer does not change, so
\* a later caller that compresses the same text cannot take the marker over.
IssuerStep == \A r \in cache, s \in cache' : r.id = s.id => r.issuer = s.issuer

\* F4: a retrieval that was refused, denied or withheld does not count, so it
\* cannot keep a row from being evicted; the counter never exceeds the issues.
CountsOnlyIssues == \A r \in cache : r.count <= issued[r.project, r.text]

\* Strict mode: what a marker redeems was compressed in that project by the
\* caller itself, even if the row was evicted and stored again by somebody
\* else between the validation and the read.
IssuedToCompressor ==
  config.strict /\ last.how \in {"raw", "redacted"} /\ last.stamped =>
    <<last.to, last.project, last.text>> \in compressed

\* A cached original whose source is quarantined is withheld; with at most
\* QuarantineLimit rows in quarantine the bounded lookup misses none.
WithholdStep ==
  last' # last /\ last'.text \in Range(quarantined)
    /\ Len(quarantined) <= QuarantineLimit
  => last'.how = "retraction"

\* Every caller that stored a row evicts before it returns: the table exceeds
\* the limit by no more rows than there are callers on the way there.
CacheBounded ==
  Cardinality(cache) <=
    MaxEntries + Cardinality({p \in Procs : proc[p].pc \in {"count", "evict"}})

\* What the cache promises: it counts issues only, redeems a marker to who
\* compressed, and stays within its size.
CacheSafe ==
  /\ TypeOK /\ CountsOnlyIssues /\ IssuedToCompressor /\ CacheBounded
=============================================================================
