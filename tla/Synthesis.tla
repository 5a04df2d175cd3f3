------------------------------ MODULE Synthesis ------------------------------
(***************************************************************************)
(* A pipeline run over many rows (manager.py run_pipeline,                 *)
(* pipeline/cluster.py, pipeline/synthesize.py, pipeline/quality_gate.py): *)
(* raw rows are clustered, each cluster is synthesized into a draft that   *)
(* supersedes the earlier ones, the draft is gated and published, and what *)
(* is left raw or processing is promoted by itself.  A second runner (the  *)
(* processor beside a call) and edits of the rows interleave; the single   *)
(* row's life is in Publication.                                           *)
(***************************************************************************)
EXTENDS Naturals, FiniteSets, FiniteSetsExt

CONSTANTS
  Rows,
  Drafts,      \* identities of synthesized rows
  Runners,
  MaxEdits,    \* edits and quarantines per behaviour
  MaxRuns,
  MaxCrashes

VARIABLES
  row,        \* id -> [status, cluster, mark, quar, ver]
  draft,      \* id -> [status, cluster, key, mark]
  run,        \* runner -> its position, snapshots and the clusters to do
  everQuar,   \* rows that were ever quarantined
  putBack,    \* rows a save from an older read overwrote
  met,        \* clusters on which two runners, an edit or a crash met
  crashed,    \* rows and drafts a crash left half way
  edits, runs, crashes

svars == <<row, draft, run, everQuar, putBack, met, crashed, edits, runs, crashes>>

NoCluster == {}
Unused == [status |-> "none", cluster |-> NoCluster, key |-> {}, mark |-> FALSE]
Idle == [pc |-> "idle", snap |-> [i \in {} |-> 0], whole |-> FALSE, cluster |-> NoCluster,
         priors |-> {}, made |-> "none", queue |-> {}, at |-> "none", forced |-> FALSE]

Live(s) == s \in {"processed", "published"}
At(r, pc) == [run EXCEPT ![r].pc = pc]
Busy(i) == \E w \in Runners : run[w].at = i \/ run[w].made = i
Synthesizing(w) == run[w].pc \in {"synth", "save", "retire", "gate"}

Init ==
  /\ row \in [Rows -> [status : {"raw"}, cluster : {NoCluster}, mark : BOOLEAN, quar : {FALSE},
                       ver : {0}]]
  /\ draft = [d \in Drafts |-> Unused]
  /\ run = [w \in Runners |-> Idle]
  /\ everQuar = {} /\ putBack = {} /\ met = {} /\ crashed = {} /\ edits = 0 /\ runs = 0 /\ crashes = 0

rest == <<everQuar, crashed, edits, runs, crashes>>

----------------------------------------------------------------------------
\* Clustering.

\* The clusters with row i that are being synthesized.
InFlight(i) == {run[w].cluster : w \in {v \in Runners : Synthesizing(v) /\ i \in run[v].cluster}}

\* cluster_memories: the raw rows that are not quarantined are read once and
\* embedded; too few of them make no cluster.
Start(w) ==
  /\ run[w].pc = "idle" /\ runs < MaxRuns /\ runs' = runs + 1
  /\ LET ids == {i \in Rows : row[i].status = "raw" /\ ~row[i].quar} IN
     run' = [run EXCEPT ![w].pc = IF Cardinality(ids) < 2 THEN "singles" ELSE "claim",
                        ![w].whole = TRUE, ![w].snap = [i \in ids |-> row[i]]]
  /\ UNCHANGED <<row, draft, everQuar, putBack, met, crashed, edits, crashes>>

\* The greedy clusters of the read (here at most one): the id is a hash of the
\* centroid, so the same rows make the same cluster.
Claim(w, c) ==
  /\ run[w].pc = "claim" /\ c \subseteq DOMAIN run[w].snap
  /\ run' = IF Cardinality(c) < 2 THEN [run EXCEPT ![w].pc = "singles", ![w].snap = Idle.snap]
            ELSE [run EXCEPT ![w].pc = "members", ![w].queue = c, ![w].cluster = c]
  /\ UNCHANGED <<row, draft, putBack, met, rest>>

\* Each member is saved whole, from the read.
SaveMember(w) ==
  /\ run[w].pc = "members"
  /\ \E i \in run[w].queue :
       /\ row' = [row EXCEPT ![i] = [run[w].snap[i] EXCEPT !.status = "processing",
                                                          !.cluster = run[w].cluster]]
       /\ putBack' = IF row[i] = run[w].snap[i] THEN putBack ELSE putBack \cup {i}
       /\ met' = met \cup InFlight(i)
       /\ run' = IF run[w].queue = {i}
                 THEN [run EXCEPT ![w].pc = "synth", ![w].queue = {}, ![w].snap = Idle.snap]
                 ELSE [run EXCEPT ![w].queue = @ \ {i}]
  /\ UNCHANGED <<draft, rest>>

----------------------------------------------------------------------------
\* Synthesis.

\* A synthesize call of its own, forced or not.
Call(w, c, force) ==
  /\ run[w].pc = "idle" /\ runs < MaxRuns /\ runs' = runs + 1
  /\ \E i \in Rows : row[i].cluster = c /\ c # NoCluster
  /\ run' = [run EXCEPT ![w].pc = "synth", ![w].cluster = c, ![w].forced = force]
  /\ UNCHANGED <<row, draft, everQuar, putBack, met, crashed, edits, crashes>>

\* _input_set_hash: the text a row is embedded with, its tags included.
Key(sources) == {<<i, row[i].ver, row[i].mark>> : i \in sources}

Sources(c) == {i \in Rows : row[i].cluster = c /\ ~row[i].quar}

\* A processed draft over the same inputs is used again.
Cached(c) == {d \in Drafts : draft[d].cluster = c /\ draft[d].status = "processed"
                             /\ draft[d].key = Key(Sources(c))}

\* no-federate propagates from any member.
Inherits(sources) == \E i \in sources : row[i].mark

Others(w) == {v \in Runners \ {w} : Synthesizing(v) /\ run[v].cluster = run[w].cluster}

\* Mutant: only published drafts count as earlier ones.
Priors_published(c) == {d \in Drafts : draft[d].cluster = c /\ draft[d].status = "published"}

Priors(c) == {d \in Drafts : draft[d].cluster = c /\ Live(draft[d].status)}

\* The reads of synthesize_cluster.  The draft and its tags are built from
\* them; the save comes next.
Synthesize(w) ==
  /\ run[w].pc = "synth"
  /\ LET c == run[w].cluster
         s == Sources(c)
         new == CHOOSE d \in Drafts : draft[d] = Unused
     IN IF s = {} THEN run' = At(w, IF run[w].whole THEN "singles" ELSE "end") /\ UNCHANGED draft
        ELSE IF Cached(c) # {} /\ ~run[w].forced
        THEN /\ UNCHANGED draft
             /\ run' = [run EXCEPT ![w].pc = "gate", ![w].made = CHOOSE d \in Cached(c) : TRUE]
        ELSE /\ \E d \in Drafts : draft[d] = Unused
             /\ draft' = [draft EXCEPT ![new] = [status |-> "saving", cluster |-> c, key |-> Key(s),
                                                 mark |-> Inherits(s)]]
             /\ run' = [run EXCEPT ![w].pc = "save", ![w].made = new, ![w].priors = Priors(c)]
  /\ met' = IF Others(w) # {} THEN met \cup {run[w].cluster} ELSE met
  /\ UNCHANGED <<row, putBack, rest>>

SaveDraft(w) ==
  /\ run[w].pc = "save" /\ run' = At(w, "retire")
  /\ draft' = [draft EXCEPT ![run[w].made].status = "processed"]
  /\ UNCHANGED <<row, putBack, met, rest>>

\* Supersession: the live drafts of the read are archived, one save each.
Retire(w) ==
  /\ run[w].pc = "retire" /\ run[w].priors # {}
  /\ \E d \in run[w].priors :
       /\ draft' = [draft EXCEPT ![d].status = "archived"]
       /\ run' = [run EXCEPT ![w].priors = @ \ {d}]
  /\ UNCHANGED <<row, putBack, met, rest>>

Retired(w) ==
  /\ run[w].pc = "retire" /\ run[w].priors = {} /\ run' = At(w, "gate")
  /\ UNCHANGED <<row, draft, putBack, met, rest>>

\* evaluate_quality and publish: a draft that is no longer processed, or fails
\* a threshold, is left as it is.  A synthesize call ends here.
Gate(w, passes) ==
  /\ run[w].pc = "gate"
  /\ LET d == run[w].made
         goes == passes /\ draft[d].status = "processed" /\ run[w].whole
     IN draft' = IF goes THEN [draft EXCEPT ![d].status = "published"] ELSE draft
  /\ run' = [run EXCEPT ![w].pc = IF run[w].whole THEN "singles" ELSE "end", ![w].made = "none"]
  /\ UNCHANGED <<row, putBack, met, rest>>

----------------------------------------------------------------------------
\* Promotion of what is left.

\* list_all of the raw rows, less the ones this run has clustered; then
\* list_all of the processing ones, whose cluster is not asked about.
List(w) ==
  /\ run[w].pc \in {"singles", "rescue"} /\ run[w].queue = {} /\ run[w].at = "none"
  /\ LET q == IF run[w].pc = "singles" THEN {i \in Rows : row[i].status = "raw"} \ run[w].cluster
              ELSE {i \in Rows : row[i].status = "processing"}
     IN run' = [run EXCEPT ![w].queue = q,
                           ![w].pc = IF @ = "singles" THEN IF q = {} THEN "rescue" ELSE "promote"
                                     ELSE IF q = {} THEN "end" ELSE "unstick"]
  /\ UNCHANGED <<row, draft, putBack, met, rest>>

\* The status a row must still have, or processed.
From(pc) == IF pc = "promote" THEN {"raw", "processed"} ELSE {"processing", "processed"}

\* _promote_single_memory: the row becomes processed, then it is published.
Promote(w) ==
  /\ run[w].pc \in {"promote", "unstick"} /\ run[w].at = "none" /\ run[w].queue # {}
  /\ \E i \in run[w].queue :
       /\ row' = IF row[i].status \in From(run[w].pc) THEN [row EXCEPT ![i].status = "processed"] ELSE row
       /\ run' = [run EXCEPT ![w].queue = @ \ {i},
                             ![w].at = IF row[i].status \in From(run[w].pc) THEN i ELSE "none"]
  /\ UNCHANGED <<draft, putBack, met, rest>>

Publish(w) ==
  /\ run[w].at # "none" /\ run' = [run EXCEPT ![w].at = "none"]
  /\ row' = [row EXCEPT ![run[w].at].status = "published"]
  /\ UNCHANGED <<draft, putBack, met, rest>>

Promoted(w) ==
  /\ run[w].pc \in {"promote", "unstick"} /\ run[w].at = "none" /\ run[w].queue = {}
  /\ run' = At(w, IF run[w].pc = "promote" THEN "rescue" ELSE "end")
  /\ UNCHANGED <<row, draft, putBack, met, rest>>

End(w) ==
  /\ run[w].pc = "end" /\ run' = [run EXCEPT ![w] = Idle]
  /\ UNCHANGED <<row, draft, putBack, met, rest>>

----------------------------------------------------------------------------
\* Around the runs.

\* An update of the text, a no-federate tag added, or a quarantine.
Edit(i, kind) ==
  /\ edits < MaxEdits /\ edits' = edits + 1
  /\ row' = [row EXCEPT ![i].ver = IF kind = "text" THEN 1 ELSE @,
                        ![i].mark = @ \/ kind = "mark", ![i].quar = @ \/ kind = "quarantine"]
  /\ everQuar' = IF kind = "quarantine" THEN everQuar \cup {i} ELSE everQuar
  /\ met' = met \cup InFlight(i)
  /\ UNCHANGED <<draft, run, putBack, crashed, runs, crashes>>

\* The process of a runner dies.
Crash(w) ==
  /\ run[w].pc # "idle" /\ crashes < MaxCrashes /\ crashes' = crashes + 1
  /\ crashed' = crashed \cup ({run[w].at, run[w].made} \ {"none"})
  /\ met' = IF Synthesizing(w) THEN met \cup {run[w].cluster} ELSE met
  /\ draft' = [d \in Drafts |-> IF d = run[w].made /\ draft[d].status = "saving" THEN Unused ELSE draft[d]]
  /\ run' = [run EXCEPT ![w] = Idle]
  /\ UNCHANGED <<row, everQuar, putBack, edits, runs>>

Step(w) ==
  \/ (\E c \in SUBSET Rows : Claim(w, c)) \/ SaveMember(w)
  \/ Synthesize(w) \/ SaveDraft(w) \/ Retire(w) \/ Retired(w)
  \/ (\E p \in BOOLEAN : Gate(w, p)) \/ List(w) \/ Promote(w) \/ Publish(w) \/ Promoted(w) \/ End(w)

Next ==
  \/ \E w \in Runners : Start(w) \/ Step(w) \/ Crash(w)
       \/ (\E c \in SUBSET Rows, f \in BOOLEAN : Call(w, c, f))
  \/ \E i \in Rows, k \in {"text", "mark", "quarantine"} : Edit(i, k)

Spec == Init /\ [][Next]_svars

----------------------------------------------------------------------------
TypeOK ==
  /\ \A i \in Rows : row[i].status \in {"raw", "processing", "processed", "published"}
  /\ \A d \in Drafts : draft[d].status \in {"none", "saving", "processed", "published", "archived"}
  /\ everQuar \subseteq Rows /\ putBack \subseteq Rows /\ crashed \subseteq Rows \cup Drafts

Serving(c) == {d \in Drafts : draft[d].cluster = c /\ Live(draft[d].status)}
AtRest(c) == \A w \in Runners : ~(Synthesizing(w) /\ run[w].cluster = c)

\* One draft of a cluster is served at a time once its synthesis is over: a
\* new draft retires every earlier one, unless two syntheses of the cluster,
\* or a crash of one, met.
OneServedDraft ==
  \A c \in SUBSET Rows : AtRest(c) /\ c \notin met => Cardinality(Serving(c)) <= 1

\* A served draft says no more than its sources: at the gate it was made from
\* the texts and marks the rows have now, and carries no-federate when one of
\* them does (nothing edited them meanwhile).
DraftMatchesSources ==
  \A w \in Runners :
    run[w].pc = "gate" /\ run[w].cluster \notin met =>
      LET d == draft[run[w].made] s == {t[1] : t \in d.key} IN
      /\ d.key = Key(s) /\ d.mark = (\E i \in s : row[i].mark)
      /\ \A i \in s : ~row[i].quar

\* A quarantine is undone only by the save of a clustering that read the row
\* before it.
QuarantineLossNeedsOverlap ==
  \A i \in everQuar : ~row[i].quar => i \in putBack

\* A row is left in processed, out of every later run's sight, only by a
\* crash between its two saves, or by the save of an older read.
StrandedNeedsCrash ==
  \A i \in Rows : row[i].status = "processed" /\ ~Busy(i) => i \in crashed \cup putBack

\* A published row goes back only when a clustering saves an older read.
PublishedStep ==
  \A i \in Rows : row[i].status = "published" /\ row'[i].status # "published" => i \in putBack'

\* What the pipeline promises of a cluster: one served draft that agrees with its
\* sources, and no row lost to anything but an overlap or a crash.
SynthesisSafe ==
  /\ TypeOK /\ OneServedDraft /\ DraftMatchesSources /\ QuarantineLossNeedsOverlap
  /\ StrandedNeedsCrash
=============================================================================
