---------------------------- MODULE Publication ----------------------------
(***************************************************************************)
(* Optimistic publication of one memory: its row in the memories table,    *)
(* its vector, and every operation that moves it through the two           *)
(* orthogonal lifecycles, `status` (visibility) and `pipeline_state`       *)
(* (background refinement).                                                *)
(*                                                                         *)
(* Every operation of MemoryManager and of the pipeline reads a snapshot   *)
(* of the row and later writes it back, by one of two kinds of statement:  *)
(*   - save: the whole row from the snapshot (SqliteStore.save);           *)
(*   - update_fields and the claim/reclaim/retry statements: some columns. *)
(* Each statement commits alone and the two stores are two databases, so   *)
(* between two statements of one operation any statement of another may    *)
(* run.  One action below is one statement together with the local         *)
(* computation that follows it.                                            *)
(***************************************************************************)
EXTENDS Naturals, FiniteSets

CONSTANTS
  Procs,          \* processes and threads that run operations
  Texts,          \* texts users write
  Dangerous,      \* the texts the danger detectors fire on
  Contexts,       \* what the row's cluster mates may contribute to a digest
  DangerousContexts,
  None,           \* SQL NULL
  Ops,            \* operations that take part
  FlipTo,         \* statuses a user may ask for in an update
  Curated,        \* vesmaro.visibility = "curated" (else "immediate")
  AutoFilter,     \* auto_filter: add runs the context filter
  MaxAttempts,    \* REFINE_MAX_ATTEMPTS
  MaxOps,         \* bound on user operations
  MaxFaults,      \* bound on crashes and store errors
  MaxOverruns     \* bound on leases that expire under a live worker

Status == {"raw", "processing", "processed", "published", "archived"}
PipelineState == {"pending", "processing", "refined", "failed", "quarantined"}
AllOps == {"update", "promote", "publish", "cluster", "quarantine", "release",
           "sweep", "filter", "delete", "refine", "heal", "crash"}

ASSUME PublicationAssumption ==
  /\ Dangerous \subseteq Texts
  /\ DangerousContexts \subseteq Contexts
  /\ None \notin Texts \cup Contexts \cup PipelineState
  /\ Ops \subseteq AllOps
  /\ FlipTo \subseteq Status
  /\ Curated \in BOOLEAN /\ AutoFilter \in BOOLEAN
  /\ MaxAttempts \in Nat /\ MaxOps \in Nat /\ MaxFaults \in Nat
  /\ MaxOverruns \in Nat

-----------------------------------------------------------------------------
(***************************************************************************)
(* Texts.  A text is what a user wrote (ctx None), or a digest of the      *)
(* row's cluster in which the row itself contributes src (None when the    *)
(* row is not an admissible mate); filt marks the output of the context    *)
(* filter.  A digest shows the first 200 characters of its members; texts  *)
(* here are no longer than that, so it is dangerous when one of them is.   *)
(***************************************************************************)
Text == [src : Texts \cup {None}, ctx : Contexts \cup {None}, filt : BOOLEAN]
NoText == [src |-> None, ctx |-> None, filt |-> FALSE]

Written(t)      == [src |-> t, ctx |-> None, filt |-> FALSE]
Digest(t, c)    == [src |-> t, ctx |-> c, filt |-> FALSE]
Filtered(text)  == [text EXCEPT !.filt = TRUE]
IsClean(text)   == text.src \notin Dangerous /\ text.ctx \notin DangerousContexts

Row == [status : Status, ps : PipelineState \cup {None},
        reason : {"none", "born", "danger"}, clustered : BOOLEAN,
        content : Text, clean : Text, raw : Text,
        marker : Nat, swapKey : Text, retry : Nat, waiting : BOOLEAN,
        stale : BOOLEAN]

EmptyRow == [status |-> "raw", ps |-> None, reason |-> "none", clustered |-> FALSE,
             content |-> NoText, clean |-> NoText, raw |-> NoText,
             marker |-> 0, swapKey |-> NoText, retry |-> 0, waiting |-> FALSE,
             stale |-> FALSE]

\* The served projection: the filter's output when there is one.
effective_content(r) == IF r.clean # NoText THEN r.clean ELSE r.content

is_quarantined(r) == r.ps = "quarantined"

is_context_admissible(r) ==
  r.status \in {"published", "processed"} /\ ~is_quarantined(r)

-----------------------------------------------------------------------------
VARIABLES
  \* the memories table: does the row exist, and its columns
  exists, row,
  \* the vector store: the text the row's vector was cut from, or NoText
  vec,
  \* what the row's admissible cluster mates would contribute, or None when
  \* there are too few of them for a digest
  mates,
  \* per process: control state, snapshot of the row, text being handled
  proc,
  \* whether the memory has been added; user operations, faults and leases
  \* overrun so far
  born, ops, faults, overruns,
  \* ghosts: the last text a user stored; whether an edit went round the gate
  latest, exempted

vars == <<exists, row, vec, mates, proc, born, ops, faults, overruns, latest,
          exempted>>

Idle == [pc |-> "idle", snap |-> EmptyRow, text |-> NoText]

PCs == {"idle", "saveNew", "save", "saveDemoted", "autoFilter", "autoFilterSave",
        "autoReload", "sweepRelease", "sweepRefuse", "born", "embed", "unembed", "claim", "produce",
        "noop", "swap", "fail", "curate", "flip", "reread", "reload", "quarantine",
        "mark", "gate", "savePublished", "clear", "enqueue", "clusterSave",
        "filterSave", "release", "releaseClear", "deleteVec", "drop"}

TypeOK ==
  /\ exists \in BOOLEAN /\ born \in BOOLEAN /\ exempted \in BOOLEAN
  /\ row \in Row
  /\ vec \in Text
  /\ mates \in Contexts \cup {None}
  /\ proc \in [Procs -> [pc : PCs, snap : Row, text : Text]]
  /\ ops \in Nat /\ faults \in Nat /\ overruns \in Nat
  /\ latest \in Texts \cup {None}

at(p, pc) == proc[p].pc = pc
goto(p, pc, snap, text) ==
  proc' = [proc EXCEPT ![p] = [pc |-> pc, snap |-> snap, text |-> text]]
done(p) == proc' = [proc EXCEPT ![p] = Idle]
then(p, pc) == proc' = [proc EXCEPT ![p].pc = pc]

\* A user operation starts on an idle process and finds the row.
Starts(p, op) ==
  /\ op \in Ops /\ at(p, "idle") /\ exists /\ ops < MaxOps
  /\ ops' = ops + 1
  /\ UNCHANGED <<exists, row, vec, mates, born, faults, overruns, latest, exempted>>

\* A background task starts on an idle process and finds the row.
StartsTask(p, op) ==
  /\ op \in Ops /\ at(p, "idle") /\ exists
  /\ UNCHANGED <<exists, row, vec, mates, born, ops, faults, overruns, latest, exempted>>

\* The frame of the statements that go on with an operation.
OnlyRow    == UNCHANGED <<vec, mates, born, ops, faults, overruns, latest, exempted>>
OnlyLocal  == UNCHANGED <<exists, row>> /\ OnlyRow
OnlyFault  == /\ faults < MaxFaults
              /\ faults' = faults + 1
              /\ UNCHANGED <<exists, row, vec, mates, born, ops, overruns, latest, exempted>>

\* SqliteStore.save: the whole row; a row deleted meanwhile is inserted again.
save(r) == exists' = TRUE /\ row' = r

\* An UPDATE of some columns by id, which stamps updated_at; on a deleted row
\* it matches nothing.
update_fields(r) ==
  /\ row' = IF exists THEN [r EXCEPT !.stale = FALSE] ELSE row
  /\ UNCHANGED exists

\* The verdicts the danger gate may return: a detector error refuses clean
\* text too, a finding always refuses.
Verdicts(text) == IF IsClean(text) THEN {TRUE, FALSE} ELSE {FALSE}

-----------------------------------------------------------------------------
(***************************************************************************)
(* MemoryManager.add, update and delete.                                   *)
(***************************************************************************)

Init ==
  /\ exists = FALSE /\ row = EmptyRow /\ vec = NoText /\ mates = None
  /\ proc = [p \in Procs |-> Idle]
  /\ born = FALSE /\ ops = 0 /\ faults = 0 /\ overruns = 0
  /\ latest = None /\ exempted = FALSE

\* The initial visibility: an explicit status is kept unless the gate refuses
\* a direct publication; otherwise the visibility policy decides.
InitialRow(t, s, ok) ==
  [EmptyRow EXCEPT
     !.content = Written(t),
     !.status  = IF s # None
                 THEN IF s = "published" /\ ~ok THEN "raw" ELSE s
                 ELSE IF ~Curated /\ ok THEN "published" ELSE "raw",
     !.ps      = IF s = None /\ (Curated \/ ok) THEN "pending" ELSE None]

Add(p, t, s) ==
  /\ ~born /\ at(p, "idle")
  /\ born' = TRUE
  /\ \E ok \in Verdicts(Written(t)) :
       goto(p, "saveNew", InitialRow(t, s, ok), Written(t))
  /\ UNCHANGED <<exists, row, vec, mates, ops, faults, overruns, latest, exempted>>

\* What update makes of the row: t is the new content, s the status asked for
\* (None: not in the request), k whether a cluster id is assigned.
Edited(t, s, k) ==
  [row EXCEPT !.content   = IF t # None THEN Written(t) ELSE @,
              !.status    = IF s # None THEN s ELSE @,
              !.clustered = @ \/ k]

\* Mutant: content edits are not gated.
UpdateIsGated_flipOnly(t, s, k) == s = "published" /\ row.status # "published"

\* The updates the gate looks at: a flip into published, and a content edit
\* of a row that stays admissible.  Quarantined rows are exempt from the second.
UpdateIsGated(t, s, k) ==
  \/ s = "published" /\ row.status # "published"
  \/ t # None /\ is_context_admissible(Edited(t, s, k))

\* A refused edit of an admissible row is stored, but demoted to raw.
Demotes(t, ok) == ~ok /\ t # None /\ row.status \in {"published", "processed"}

\* A clean content edit sends a refined row, or an admissible row that was
\* never enrolled, back to the refine queue.
Requeues(r) == r.ps = "refined" \/ (r.ps = None /\ is_context_admissible(r))

AfterUpdate(t, s, k, ok) ==
  LET r == [Edited(t, s, k) EXCEPT
              !.status = IF ok THEN @
                         ELSE IF Demotes(t, ok) THEN "raw" ELSE row.status]
  IN [r EXCEPT !.ps    = IF t # None /\ ~Demotes(t, ok) /\ Requeues(r)
                         THEN "pending" ELSE @,
               !.clean = IF t # None THEN NoText ELSE @,
               !.stale = FALSE]

Update(p, t, s, k) ==
  /\ Starts(p, "update")
  /\ t # None \/ s # None \/ k
  /\ LET scanned == effective_content(
                      [Edited(t, s, k) EXCEPT !.clean = IF t # None THEN NoText ELSE @])
     IN \E ok \in IF UpdateIsGated(t, s, k) THEN Verdicts(scanned) ELSE {TRUE} :
          goto(p, IF Demotes(t, ok) THEN "saveDemoted" ELSE "save",
               AfterUpdate(t, s, k, ok), IF t # None THEN Written(t) ELSE NoText)

\* The vector follows the status of the row at hand.
EmbedIfPublished(p, r) ==
  IF r.status = "published" THEN goto(p, "embed", r, NoText) ELSE done(p)

\* The save at the end of add and update, and what follows it.
Save(p) ==
  /\ proc[p].pc \in {"saveNew", "save", "saveDemoted"}
  /\ save(proc[p].snap)
  /\ latest' = IF proc[p].text # NoText THEN proc[p].text.src ELSE latest
  /\ exempted' = \/ exempted
                 \/ /\ is_quarantined(proc[p].snap)
                    /\ ~IsClean(effective_content(proc[p].snap))
  /\ CASE at(p, "saveDemoted") -> goto(p, "unembed", EmptyRow, NoText)
       [] at(p, "saveNew") /\ AutoFilter -> then(p, "autoFilter")
       [] OTHER -> EmbedIfPublished(p, proc[p].snap)
  /\ UNCHANGED <<vec, mates, born, ops, faults, overruns>>

\* upsert_embedding: the vector is cut from the snapshot, then the row's
\* embedding_id is stamped.  A failure is logged and left to the sweeper.
Embed(p) ==
  /\ at(p, "embed")
  /\ done(p)
  /\ \/ /\ vec' = effective_content(proc[p].snap)
        /\ update_fields(row)
        /\ UNCHANGED <<mates, born, ops, faults, overruns, latest, exempted>>
     \/ OnlyFault

\* Removal of the vector after a demotion or a quarantine; a failure is
\* logged.  A refine cycle that carries an artifact goes on.
Unembed(p) ==
  /\ at(p, "unembed")
  /\ IF proc[p].text = NoText THEN done(p) ELSE then(p, "reread")
  /\ \/ /\ vec' = NoText
        /\ UNCHANGED <<exists, row, mates, born, ops, faults, overruns, latest, exempted>>
     \/ OnlyFault

\* delete: the vector first, then the row; an error of the vector store
\* leaves the row in place.
Delete(p) == Starts(p, "delete") /\ goto(p, "deleteVec", EmptyRow, NoText)

DeleteVector(p) ==
  /\ at(p, "deleteVec")
  /\ \/ /\ vec' = NoText
        /\ then(p, "drop")
        /\ UNCHANGED <<exists, row, mates, born, ops, faults, overruns, latest, exempted>>
     \/ OnlyFault /\ done(p)

Drop(p) ==
  /\ at(p, "drop")
  /\ exists' = FALSE
  /\ done(p)
  /\ UNCHANGED row /\ OnlyRow

-----------------------------------------------------------------------------
(***************************************************************************)
(* The refine cycle: pipeline/refine.py and its store functions.           *)
(***************************************************************************)

refine_intake_noCap(r) == r.ps = "pending" \/ (r.ps = "failed" /\ ~r.waiting)

\* Intake-eligible: pending, or failed with retries left and backoff elapsed.
refine_intake(r) ==
  \/ r.ps = "pending"
  \/ r.ps = "failed" /\ r.retry < MaxAttempts /\ ~r.waiting

\* refine_pending picks a row; refine_single snapshots it before the claim.
RefineRead(p) ==
  /\ StartsTask(p, "refine")
  /\ refine_intake(row)
  /\ goto(p, "claim", row, NoText)

\* claim_for_refinement: compare-and-set into processing.
Claim(p) ==
  /\ at(p, "claim")
  /\ IF exists /\ refine_intake(row)
     THEN update_fields([row EXCEPT !.ps = "processing"]) /\ then(p, "produce")
     ELSE UNCHANGED <<exists, row>> /\ done(p)
  /\ OnlyRow

\* _produce_refined_projection over the current cluster members, and the gate
\* on the artifact.  The row's own line comes from raw_content when there is one.
Artifact(p) ==
  LET own == IF row.raw # NoText THEN row.raw ELSE effective_content(row)
  IN IF ~proc[p].snap.clustered \/ mates = None THEN NoText
     ELSE Digest(IF exists /\ row.clustered /\ is_context_admissible(row)
                 THEN own.src ELSE None, mates)

Produce(p) ==
  /\ at(p, "produce")
  /\ \/ /\ Artifact(p) = NoText
        /\ then(p, "noop")
        /\ OnlyLocal
     \/ /\ Artifact(p) # NoText
        /\ \E ok \in Verdicts(Artifact(p)) :
             IF ok THEN goto(p, "swap", proc[p].snap, Artifact(p))
                   ELSE goto(p, "quarantine", EmptyRow, NoText)
        /\ OnlyLocal
     \/ OnlyFault /\ then(p, "fail")

\* Nothing to improve: only the lifecycle column moves.
Noop(p) ==
  /\ at(p, "noop")
  /\ update_fields([row EXCEPT !.ps = "refined"])
  /\ goto(p, "curate", EmptyRow, NoText)
  /\ OnlyRow

Swapped_noBump(snap, art) ==
  [row EXCEPT !.content = art, !.clean = NoText, !.ps = "refined", !.swapKey = art,
              !.raw = IF snap.raw = NoText THEN effective_content(snap) ELSE @]

Swapped_sourceless(snap, art) ==
  [row EXCEPT !.content = art, !.clean = NoText, !.ps = "refined", !.swapKey = art,
              !.marker  = IF art # effective_content(snap) THEN snap.marker + 1 ELSE @]

\* The columns the swap writes, from the snapshot taken before the claim.  The
\* same artifact again only moves the lifecycle.
Swapped(snap, art) ==
  IF snap.swapKey = art THEN [row EXCEPT !.ps = "refined"]
  ELSE [row EXCEPT
          !.content = art, !.clean = NoText, !.ps = "refined", !.swapKey = art,
          !.raw     = IF snap.raw = NoText THEN effective_content(snap) ELSE @,
          !.marker  = IF art # effective_content(snap) THEN snap.marker + 1 ELSE @]

Swap(p) ==
  /\ at(p, "swap")
  /\ \/ /\ update_fields(Swapped(proc[p].snap, proc[p].text))
        /\ goto(p, "curate", EmptyRow, proc[p].text)
        /\ OnlyRow
     \/ /\ proc[p].snap.swapKey # proc[p].text
        /\ OnlyFault /\ then(p, "fail")

\* record_refine_failure: the attempt number comes from the snapshot.
RecordFailure(p) ==
  /\ at(p, "fail")
  /\ LET attempt == proc[p].snap.retry + 1 IN
     update_fields([row EXCEPT !.ps = "failed", !.retry = attempt,
                               !.waiting = attempt < MaxAttempts])
  /\ done(p)
  /\ OnlyRow

\* Mutant: the curated flip does not wait for the gate.
Curate_ungated(p) ==
  /\ at(p, "curate")
  /\ IF Curated /\ exists /\ row.status = "raw" THEN then(p, "flip")
     ELSE IF proc[p].text = NoText THEN done(p) ELSE then(p, "reread")
  /\ OnlyLocal

\* _curated_publish: in curated mode a raw row meets the gate now.
Curate(p) ==
  /\ at(p, "curate")
  /\ IF Curated /\ exists /\ row.status = "raw"
     THEN \E ok \in Verdicts(effective_content(row)) :
            then(p, IF ok THEN "flip" ELSE "quarantine")
     ELSE IF proc[p].text = NoText THEN done(p) ELSE then(p, "reread")
  /\ OnlyLocal

Flip(p) ==
  /\ at(p, "flip")
  /\ update_fields([row EXCEPT !.status = "published"])
  /\ then(p, "reload")
  /\ OnlyRow

\* The row is read again to be embedded: after a flip if it still exists,
\* after a swap if it is published.
Reload(p) ==
  /\ proc[p].pc \in {"reload", "reread"}
  /\ IF exists /\ (at(p, "reload") \/ row.status = "published")
     THEN goto(p, "embed", row, NoText) ELSE done(p)
  /\ OnlyLocal

\* quarantine_entry: the state, then the vector.
QuarantineEntry(p) ==
  /\ proc[p].pc \in {"quarantine", "born"}
  /\ update_fields([row EXCEPT !.ps = "quarantined",
                      !.reason = IF at(p, "born") THEN "born" ELSE "danger"])
  /\ IF exists THEN then(p, "unembed") ELSE done(p)
  /\ OnlyRow

\* The lease of a processing row: updated_at falls behind the cutoff.  A
\* worker that is still alive has then overrun it.
Owns(p) == proc[p].pc \in {"produce", "noop", "swap", "fail"}

LeaseExpires ==
  /\ exists /\ row.ps = "processing" /\ ~row.stale
  /\ row' = [row EXCEPT !.stale = TRUE]
  /\ IF \E p \in Procs : Owns(p)
     THEN overruns < MaxOverruns /\ overruns' = overruns + 1
     ELSE UNCHANGED overruns
  /\ UNCHANGED <<exists, vec, mates, proc, born, ops, faults, latest, exempted>>

\* Mutant: only rows with a recorded failure are reclaimed.
Reclaim_afterFailure ==
  /\ exists /\ row.ps = "processing" /\ row.stale /\ row.retry > 0
  /\ update_fields([row EXCEPT !.ps = "pending"])
  /\ UNCHANGED <<proc>> /\ OnlyRow

\* reclaim_stale_processing: compare-and-set back to pending.
Reclaim ==
  /\ exists /\ row.ps = "processing" /\ row.stale
  /\ update_fields([row EXCEPT !.ps = "pending"])
  /\ UNCHANGED <<proc>> /\ OnlyRow

BackoffElapses ==
  /\ exists /\ row.waiting
  /\ row' = [row EXCEPT !.waiting = FALSE]
  /\ UNCHANGED <<exists, proc>> /\ OnlyRow

\* Mutant: the sweeper looks for missing vectors only.
Heal_missing(p) ==
  /\ StartsTask(p, "heal")
  /\ row.ps = "refined" /\ vec = NoText /\ vec # effective_content(row)
  /\ goto(p, "embed", row, NoText)

\* heal_stale_embeddings: a refined row whose vector was cut from other text.
Heal(p) ==
  /\ StartsTask(p, "heal")
  /\ row.ps = "refined" /\ vec # effective_content(row)
  /\ goto(p, "embed", row, NoText)

-----------------------------------------------------------------------------
(***************************************************************************)
(* The legacy flow (cluster, promote, publish) and the operator's tools.   *)
(***************************************************************************)

\* publish_memory after its status check: the gate, then the whole row.
PublishDecision(p) ==
  \E ok \in Verdicts(effective_content(row)) :
    IF ok THEN goto(p, "savePublished",
                    [row EXCEPT !.status = "published", !.stale = FALSE], NoText)
          ELSE done(p)

Publish(p) ==
  /\ Starts(p, "publish")
  /\ row.status = "processed"
  /\ PublishDecision(p)

\* _promote_single_memory: mark processed if it is not, then publish without
\* the quality gate (and so without the status check).
Promote(p) ==
  /\ Starts(p, "promote")
  /\ \/ /\ row.status \in {"raw", "processing"}
        /\ goto(p, "mark", [row EXCEPT !.status = "processed", !.stale = FALSE], NoText)
     \/ row.status = "processed" /\ goto(p, "gate", EmptyRow, NoText)

Mark(p) ==
  /\ at(p, "mark")
  /\ save(proc[p].snap)
  /\ goto(p, "gate", EmptyRow, NoText)
  /\ OnlyRow

GateRead(p) ==
  /\ at(p, "gate")
  /\ IF exists THEN PublishDecision(p) ELSE done(p)
  /\ OnlyLocal

\* Mutant: every publication starts a fresh cycle.
SavePublished_requeue(p) ==
  /\ at(p, "savePublished")
  /\ save(proc[p].snap)
  /\ then(p, "clear")
  /\ OnlyRow

\* A first publication enrols the row, a failed one starts a fresh cycle.
SavePublished(p) ==
  /\ at(p, "savePublished")
  /\ save(proc[p].snap)
  /\ then(p, CASE proc[p].snap.ps = None     -> "enqueue"
               [] proc[p].snap.ps = "failed" -> "clear"
               [] OTHER                      -> "embed")
  /\ OnlyRow

ClearRetry(p) ==
  /\ proc[p].pc \in {"clear", "releaseClear"}
  /\ update_fields([row EXCEPT !.retry = 0, !.waiting = FALSE])
  /\ IF at(p, "clear") THEN then(p, "enqueue") ELSE done(p)
  /\ OnlyRow

Enqueue(p) ==
  /\ at(p, "enqueue")
  /\ update_fields([row EXCEPT !.ps = "pending"])
  /\ then(p, "embed")
  /\ OnlyRow

\* cluster_raw_memories saves its snapshot with the cluster id; it does not
\* refresh updated_at.
Cluster(p) ==
  /\ Starts(p, "cluster")
  /\ row.status = "raw" /\ ~is_quarantined(row)
  /\ goto(p, "clusterSave",
          [row EXCEPT !.status = "processing", !.clustered = TRUE], NoText)

ClusterSave(p) ==
  /\ at(p, "clusterSave")
  /\ save(proc[p].snap)
  /\ done(p)
  /\ OnlyRow

\* apply_context_filter: the projection is rebuilt from raw_content if any.
FilterOutput == Filtered(IF row.raw # NoText THEN row.raw ELSE row.content)

Filter(p) ==
  /\ Starts(p, "filter")
  /\ goto(p, "filterSave", EmptyRow, FilterOutput)

FilterSave(p) ==
  /\ proc[p].pc \in {"filterSave", "autoFilterSave"}
  /\ update_fields([row EXCEPT !.clean = proc[p].text])
  /\ IF at(p, "filterSave") THEN done(p) ELSE then(p, "autoReload")
  /\ OnlyRow

\* The filter inside add; if it fails, or the row is gone, add goes on with
\* the object it has.
AutoFilterRead(p) ==
  /\ at(p, "autoFilter")
  /\ \/ /\ IF exists THEN goto(p, "autoFilterSave", proc[p].snap, FilterOutput)
                     ELSE EmbedIfPublished(p, proc[p].snap)
        /\ OnlyLocal
     \/ OnlyFault /\ EmbedIfPublished(p, proc[p].snap)

AutoReload(p) ==
  /\ at(p, "autoReload")
  /\ EmbedIfPublished(p, IF exists THEN row ELSE proc[p].snap)
  /\ OnlyLocal

\* ingest_document quarantines the chunk row it just added as raw.
IngestQuarantine(p) ==
  /\ Starts(p, "quarantine")
  /\ row.status = "raw" /\ row.ps = None
  /\ goto(p, "born", EmptyRow, NoText)

\* sweep_document_chunks: the chunk meets the gate; a clean one is released
\* and published by one UPDATE, which writes the metadata (the retry counter)
\* back as it was read; a refused one keeps its state.
Sweep(p) ==
  /\ Starts(p, "sweep")
  /\ is_quarantined(row) /\ row.reason = "born"
  /\ \E ok \in Verdicts(effective_content(row)) :
       goto(p, IF ok THEN "sweepRelease" ELSE "sweepRefuse", row, NoText)

SweepWrite(p) ==
  /\ proc[p].pc \in {"sweepRelease", "sweepRefuse"}
  /\ IF at(p, "sweepRelease")
     THEN /\ update_fields([row EXCEPT !.ps = None, !.status = "published",
                               !.reason = "none", !.retry = proc[p].snap.retry,
                               !.waiting = proc[p].snap.waiting])
          /\ IF exists THEN then(p, "reload") ELSE done(p)
     ELSE update_fields([row EXCEPT !.reason = "danger"]) /\ done(p)
  /\ OnlyRow

\* release_quarantine: back to failed with a fresh retry budget.
Release(p) ==
  /\ Starts(p, "release")
  /\ is_quarantined(row)
  /\ goto(p, "release", EmptyRow, NoText)

ReleaseWrite(p) ==
  /\ at(p, "release")
  /\ update_fields([row EXCEPT !.ps = "failed", !.reason = "none"])
  /\ IF exists THEN then(p, "releaseClear") ELSE done(p)
  /\ OnlyRow

-----------------------------------------------------------------------------
\* Other rows of the cluster come, go and change.
MatesChange ==
  /\ mates' \in (Contexts \cup {None}) \ {mates}
  /\ UNCHANGED <<exists, row, vec, proc, born, ops, faults, overruns, latest, exempted>>

\* A process dies between two statements.
Crash(p) ==
  /\ "crash" \in Ops /\ ~at(p, "idle")
  /\ done(p)
  /\ OnlyFault

UserOp(p) ==
  \/ \E t \in Texts, s \in FlipTo \cup {None} : Add(p, t, s)
  \/ \E t \in Texts \cup {None}, s \in FlipTo \cup {None}, k \in BOOLEAN :
       Update(p, t, s, k)
  \/ Publish(p) \/ Promote(p) \/ Cluster(p) \/ Filter(p)
  \/ IngestQuarantine(p) \/ Sweep(p) \/ Release(p) \/ Delete(p)

\* The next statement of an operation in progress.
Step(p) ==
  \/ Save(p) \/ Embed(p) \/ Unembed(p) \/ DeleteVector(p) \/ Drop(p)
  \/ Claim(p) \/ Produce(p) \/ Noop(p) \/ Swap(p) \/ RecordFailure(p)
  \/ Curate(p) \/ Flip(p) \/ Reload(p) \/ QuarantineEntry(p)
  \/ Mark(p) \/ GateRead(p) \/ SavePublished(p) \/ ClearRetry(p) \/ Enqueue(p)
  \/ ClusterSave(p) \/ FilterSave(p) \/ AutoFilterRead(p) \/ AutoReload(p)
  \/ SweepWrite(p) \/ ReleaseWrite(p)

Next ==
  \/ \E p \in Procs : UserOp(p) \/ RefineRead(p) \/ Heal(p) \/ Step(p) \/ Crash(p)
  \/ LeaseExpires \/ Reclaim \/ BackoffElapses \/ MatesChange

Spec == Init /\ [][Next]_vars

-----------------------------------------------------------------------------
(***************************************************************************)
(* Properties.                                                             *)
(***************************************************************************)
Quiet == \A p \in Procs : at(p, "idle")

\* Publication is gated (N1): whatever interleaves, the text a published row
\* serves has passed the danger gate, unless a refused text was stored into a
\* quarantined row, which update exempts from the gate.  This is about the
\* writers that check and write one snapshot: the immediate policy, without the
\* context filter and the document sweep, which check and write apart.
GateAndWriteTogether ==
  ~Curated /\ ~AutoFilter /\ Ops \cap {"filter", "sweep"} = {}

PublishedIsGated ==
  (GateAndWriteTogether /\ exists /\ row.status = "published" /\ ~exempted)
    => IsClean(effective_content(row))

\* The same for what issuance serves, with no exception.
VisibleIsGated ==
  (exists /\ row.status = "published" /\ ~is_quarantined(row))
    => IsClean(effective_content(row))

\* Quarantine is left only by release_quarantine, the document sweep or the
\* deletion of the row (models.PipelineState, quarantine_entry).
LeavesQuarantineOnlyByRelease ==
  (exists /\ is_quarantined(row) /\ exists' /\ ~is_quarantined(row'))
    => \E p \in Procs : proc[p].pc \in {"release", "sweepRelease"}
QuarantineIsTerminal == [][LeavesQuarantineOnlyByRelease]_vars

\* raw_content is never mutated after its first write (models.Memory).
SourceStays == (exists /\ row.raw # NoText /\ exists') => row'.raw = row.raw
SourceIsImmutable == [][SourceStays]_vars

\* Zero loss, as far as the swap keeps it: the last text a user stored can be
\* read from the row, as the content, the source or the filtered projection,
\* unless the source is an older text, which a swap after the first leaves alone.
LossNeedsOldSource ==
  exists =>
    \/ \E text \in {row.content, row.raw, row.clean} : text.ctx = None /\ text.src = latest
    \/ row.raw # NoText /\ row.raw.src # latest

\* The retry counter never passes the budget (REFINE_MAX_ATTEMPTS).
RetryWithinBudget == row.retry <= MaxAttempts

\* The claim is exclusive up to overrun leases: with no whole-row save in
\* play, crashes, failures, reclaims and racing claims never give the row to a
\* second worker; each lease that expires under a live worker admits one more.
ClaimIsExclusive == Cardinality({p \in Procs : Owns(p)}) <= 1 + overruns

\* Consumers detect a changed projection by marker_version: a swap that
\* changes the served text moves the marker.
SwapMovesMarker ==
  (exists /\ row'.swapKey # row.swapKey
     /\ effective_content(row') # effective_content(row))
    => row'.marker > row.marker
MarkerMovesWithSwap == [][SwapMovesMarker]_vars

\* A vector never outlives its row: delete removes it first, so a crash
\* between the two stores leaves a row without a vector, not the reverse.
NoOrphanVector == (Quiet /\ born /\ ~exists) => vec = NoText

\* pipeline_state follows the documented lifecycle.
Stage == IF ~exists THEN "absent" ELSE IF row.ps = None THEN "none" ELSE row.ps
Abstract == INSTANCE Lifecycle WITH stage <- Stage

\* The columns written by add, update, refine, publish, release and the
\* document sweep implement that lifecycle when operations do not race.
ImplementsLifecycle == Abstract!Spec

-----------------------------------------------------------------------------
(***************************************************************************)
(* Liveness.  Operations run to their end unless they crash, the processor *)
(* loop keeps starting the refine, reclaim and heal passes, and a dead     *)
(* worker's lease and a failed row's backoff run out.                      *)
(***************************************************************************)
Fairness ==
  /\ \A p \in Procs : WF_vars(Step(p))
  /\ WF_vars(\E p \in Procs : RefineRead(p))
  /\ WF_vars(\E p \in Procs : Heal(p))
  /\ WF_vars(LeaseExpires) /\ WF_vars(Reclaim) /\ WF_vars(BackoffElapses)

FairSpec == Spec /\ Fairness

\* Once users and faults leave the row alone, refinement comes to rest: the
\* row is not queued, not claimed, and not failed with retries left.
RefinementConverges ==
  <>[](exists => row.ps \notin {"pending", "processing"} /\ ~refine_intake(row))

\* The sweeper repairs every lost or overtaken vector write: in the end a
\* refined row's vector was cut from the text the row serves.
IndexConverges ==
  <>[]((exists /\ row.ps = "refined") => vec = effective_content(row))
=============================================================================
