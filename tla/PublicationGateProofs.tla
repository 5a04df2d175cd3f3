----------------------- MODULE PublicationGateProofs -----------------------
(***************************************************************************)
(* Publication under races: what holds for any number of processes, and    *)
(* what the shown text keeps when nothing races.  PublishedIsGated is not  *)
(* inductive, because the row is overwritten with copies read earlier: the *)
(* first invariant below says what every copy in flight still guarantees   *)
(* when it lands.  The two after it do the same for the retry counter and  *)
(* for the owners of the claim, the last one for the text that is shown.   *)
(***************************************************************************)
EXTENDS PublicationProofs, FiniteSetTheorems

ServesClean(r) == r.status = "published" => IsClean(effective_content(r))

\* Control states that check and write apart; GateAndWriteTogether excludes them.
Apart == {"flip", "autoFilter", "autoFilterSave", "autoReload", "sweepRelease",
          "sweepRefuse", "filterSave"}

\* Control states whose next statement may change what the row serves.
Writing == {"saveNew", "savePublished", "save", "saveDemoted", "mark",
            "clusterSave", "swap"}

\* What a process guarantees of the copy it is about to write; exempt tells
\* whether a refused text has been stored into a quarantined row.
CopyGated(c, exempt) ==
  /\ c.pc \notin Apart
  /\ c.pc \in {"saveNew", "savePublished"} => ServesClean(c.snap)
  /\ c.pc = "save" => ServesClean(c.snap) \/ is_quarantined(c.snap) \/ exempt
  /\ c.pc \in {"saveDemoted", "mark", "clusterSave"} => c.snap.status # "published"
  /\ c.pc = "swap" => IsClean(c.text)

GateInv ==
  /\ ~exempted => ServesClean(row)
  /\ \A q \in Procs : CopyGated(proc[q], exempted)

IInv == TypeOK /\ (GateAndWriteTogether => GateInv)

-----------------------------------------------------------------------------
\* A copy gains nothing and loses nothing while other processes move: only
\* the process that moves has to be looked at.
LEMMA CopiesStep ==
  ASSUME TypeOK, GateInv, NEW p \in Procs, exempted' \in BOOLEAN,
         exempted => exempted'
  PROVE  /\ done(p) => \A q \in Procs : CopyGated(proc'[q], exempted')
         /\ \A pc \in PCs \ (Apart \cup Writing) :
              then(p, pc) => \A q \in Procs : CopyGated(proc'[q], exempted')
         /\ \A pc \in PCs \ (Apart \cup Writing), snap \in Row, text \in Text :
              goto(p, pc, snap, text)
                => \A q \in Procs : CopyGated(proc'[q], exempted')
         /\ \A pc \in PCs, snap \in Row, text \in Text :
              CopyGated([pc |-> pc, snap |-> snap, text |-> text], exempted')
                /\ goto(p, pc, snap, text)
                => \A q \in Procs : CopyGated(proc'[q], exempted')
         /\ UNCHANGED proc => \A q \in Procs : CopyGated(proc'[q], exempted')
<1>1. proc \in [Procs -> Control]
  BY DEF TypeOK, Control
<1>2. \A q \in Procs : CopyGated(proc[q], exempted')
  BY DEF GateInv, CopyGated
<1>3. ASSUME NEW c, CopyGated(c, exempted'), proc' = [proc EXCEPT ![p] = c]
      PROVE  \A q \in Procs : CopyGated(proc'[q], exempted')
  BY <1>1, <1>2, <1>3
<1>4. \A c : c.pc \notin Apart \cup Writing => CopyGated(c, exempted')
  BY DEF CopyGated, Writing
<1>5. done(p) => \A q \in Procs : CopyGated(proc'[q], exempted')
  <2>1. CopyGated(Idle, exempted')
    BY <1>4 DEF Idle, Apart, Writing
  <2> QED BY <2>1, <1>3 DEF done
<1>6. ASSUME NEW pc \in PCs \ (Apart \cup Writing), then(p, pc)
      PROVE  \A q \in Procs : CopyGated(proc'[q], exempted')
  <2>1. proc' = [proc EXCEPT ![p] = [proc[p] EXCEPT !.pc = pc]]
    BY <1>6 DEF then
  <2>2. [proc[p] EXCEPT !.pc = pc].pc = pc
    BY <1>1 DEF Control
  <2> QED BY <1>3, <1>4, <2>1, <2>2
<1>7. ASSUME NEW pc \in PCs, NEW snap \in Row, NEW text \in Text,
             CopyGated([pc |-> pc, snap |-> snap, text |-> text], exempted'),
             goto(p, pc, snap, text)
      PROVE  \A q \in Procs : CopyGated(proc'[q], exempted')
  BY <1>3, <1>7 DEF goto
<1>8. ASSUME NEW pc \in PCs \ (Apart \cup Writing), NEW snap \in Row, NEW text \in Text,
             goto(p, pc, snap, text)
      PROVE  \A q \in Procs : CopyGated(proc'[q], exempted')
  <2>1. CopyGated([pc |-> pc, snap |-> snap, text |-> text], exempted')
    BY <1>4
  <2> QED BY <1>7, <1>8, <2>1
<1>9. UNCHANGED proc => \A q \in Procs : CopyGated(proc'[q], exempted')
  BY <1>2
<1> QED
  <2>1. \A pc \in PCs \ (Apart \cup Writing) :
          then(p, pc) => \A q \in Procs : CopyGated(proc'[q], exempted')
    BY <1>6
  <2>2. \A pc \in PCs \ (Apart \cup Writing), snap \in Row, text \in Text :
          goto(p, pc, snap, text) => \A q \in Procs : CopyGated(proc'[q], exempted')
    BY <1>8
  <2>3. \A pc \in PCs, snap \in Row, text \in Text :
          CopyGated([pc |-> pc, snap |-> snap, text |-> text], exempted')
            /\ goto(p, pc, snap, text)
            => \A q \in Procs : CopyGated(proc'[q], exempted')
    BY <1>7
  <2> QED BY <1>5, <1>9, <2>1, <2>2, <2>3

\* Columns other than status, content and clean_content serve nothing.
LEMMA ColumnsKeep ==
  ASSUME NEW r \in Row
  PROVE  /\ \A ps \in PipelineState : ServesClean(r) => ServesClean([r EXCEPT !.ps = ps])
         /\ \A n \in Nat, w \in BOOLEAN : ServesClean(r) =>
              /\ ServesClean([r EXCEPT !.retry = n, !.waiting = w])
              /\ ServesClean([r EXCEPT !.ps = "failed", !.retry = n, !.waiting = w])
         /\ ServesClean(r) =>
              /\ ServesClean([r EXCEPT !.waiting = FALSE])
              /\ ServesClean([r EXCEPT !.stale = TRUE])
              /\ ServesClean([r EXCEPT !.stale = FALSE])
              /\ ServesClean([r EXCEPT !.ps = "quarantined", !.reason = "born"])
              /\ ServesClean([r EXCEPT !.ps = "quarantined", !.reason = "danger"])
              /\ ServesClean([r EXCEPT !.ps = "failed", !.reason = "none"])
BY DEF ServesClean, effective_content, Row

\* An UPDATE of columns keeps the row gated when its new row is.
LEMMA UpdateKeeps ==
  ASSUME TypeOK, NEW r \in Row, update_fields(r),
         ~exempted => ServesClean(row), ~exempted => ServesClean(r)
  PROVE  ~exempted => ServesClean(row')
BY ColumnsKeep DEF TypeOK, update_fields

-----------------------------------------------------------------------------
\* The row an update writes, column by column.
LEMMA UpdateShape ==
  ASSUME TypeOK, PublicationAssumption,
         NEW t \in Texts \cup {None}, NEW s \in FlipTo \cup {None}, NEW k \in BOOLEAN,
         NEW ok \in BOOLEAN
  PROVE  LET e == Edited(t, s, k)
             r == AfterUpdate(t, s, k, ok)
         IN /\ row \in Row /\ e \in Row /\ r \in Row
            /\ e.status = IF s # None THEN s ELSE row.status
            /\ e.ps = row.ps /\ e.clean = row.clean
            /\ e.content = IF t # None THEN Written(t) ELSE row.content
            /\ r.status = IF ok THEN e.status ELSE IF Demotes(t, ok) THEN "raw" ELSE row.status
            /\ r.content = e.content
            /\ r.clean = IF t # None THEN NoText ELSE e.clean
            /\ e.ps = "quarantined" => r.ps = "quarantined"
            /\ effective_content([e EXCEPT !.clean = IF t # None THEN NoText ELSE @])
                 = effective_content(r)
<1> DEFINE e == Edited(t, s, k)
           r == AfterUpdate(t, s, k, ok)
<1>1. row \in Row /\ e \in Row /\ r \in Row
  BY EditedTypes DEF TypeOK
<1>2. /\ e.status = IF s # None THEN s ELSE row.status
      /\ e.ps = row.ps /\ e.clean = row.clean
      /\ e.content = IF t # None THEN Written(t) ELSE row.content
  BY <1>1 DEF Edited, Row
<1>3. /\ r.status = IF ok THEN e.status ELSE IF Demotes(t, ok) THEN "raw" ELSE row.status
      /\ r.content = e.content
      /\ r.clean = IF t # None THEN NoText ELSE e.clean
      /\ e.ps = "quarantined" => r.ps = "quarantined"
  <2> DEFINE d == [e EXCEPT !.status = IF ok THEN @
                              ELSE IF Demotes(t, ok) THEN "raw" ELSE row.status]
  <2>1. /\ d.status = IF ok THEN e.status ELSE IF Demotes(t, ok) THEN "raw" ELSE row.status
        /\ d.content = e.content /\ d.clean = e.clean /\ d.ps = e.ps
        /\ d \in Row
    BY <1>1 DEF Row, Status
  <2>2. r = [d EXCEPT !.ps    = IF t # None /\ ~Demotes(t, ok) /\ Requeues(d)
                                THEN "pending" ELSE @,
                      !.clean = IF t # None THEN NoText ELSE @,
                      !.stale = FALSE]
    BY DEF AfterUpdate
  <2>3. d.ps = "quarantined" => ~Requeues(d)
    BY PublicationAssumption DEF Requeues, PublicationAssumption, PipelineState
  <2> HIDE DEF d, e, r
  <2> QED BY <2>1, <2>2, <2>3 DEF Row
<1>4. effective_content([e EXCEPT !.clean = IF t # None THEN NoText ELSE @])
        = effective_content(r)
  <2>1. /\ [e EXCEPT !.clean = IF t # None THEN NoText ELSE @].clean = r.clean
        /\ [e EXCEPT !.clean = IF t # None THEN NoText ELSE @].content = r.content
    BY <1>1, <1>3 DEF Row
  <2> QED BY <2>1 DEF effective_content
<1> QED BY <1>1, <1>2, <1>3, <1>4

\* What update leaves published it has gated, or found published, or found
\* quarantined.
LEMMA UpdateGates ==
  ASSUME TypeOK, GateInv, PublicationAssumption,
         NEW t \in Texts \cup {None}, NEW s \in FlipTo \cup {None}, NEW k \in BOOLEAN,
         NEW ok \in BOOLEAN,
         UpdateIsGated(t, s, k) =>
           (ok => IsClean(effective_content(
                    [Edited(t, s, k) EXCEPT !.clean = IF t # None THEN NoText ELSE @]))),
         ~UpdateIsGated(t, s, k) => ok
  PROVE  LET r == AfterUpdate(t, s, k, ok) IN
         IF Demotes(t, ok) THEN r.status # "published"
         ELSE ServesClean(r) \/ is_quarantined(r) \/ exempted
<1> DEFINE e == Edited(t, s, k)
           r == AfterUpdate(t, s, k, ok)
<1>1. row \in Row /\ e \in Row /\ r \in Row
  BY UpdateShape
<1>2. /\ e.status = IF s # None THEN s ELSE row.status
      /\ e.ps = row.ps /\ e.clean = row.clean
      /\ e.content = IF t # None THEN Written(t) ELSE row.content
  BY UpdateShape
<1>3. /\ r.status = IF ok THEN e.status ELSE IF Demotes(t, ok) THEN "raw" ELSE row.status
      /\ r.content = e.content
      /\ r.clean = IF t # None THEN NoText ELSE e.clean
      /\ e.ps = "quarantined" => r.ps = "quarantined"
  BY UpdateShape
<1>4. effective_content([e EXCEPT !.clean = IF t # None THEN NoText ELSE @])
        = effective_content(r)
  BY UpdateShape
<1> HIDE DEF e, r
<1>5. CASE Demotes(t, ok)
  BY <1>3, <1>5 DEF Demotes, r
<1>6. CASE ~Demotes(t, ok)
  <2> SUFFICES ASSUME r.status = "published", ~exempted, ~is_quarantined(r)
               PROVE  IsClean(effective_content(r))
    BY <1>6 DEF ServesClean, r
  <2>1. CASE UpdateIsGated(t, s, k) /\ ok
    BY <1>4, <2>1 DEF e
  <2>2. CASE UpdateIsGated(t, s, k) /\ ~ok
    <3>1. row.status = "published" /\ t = None
      BY <1>3, <1>6, <2>2 DEF Demotes
    <3> QED BY <2>2, <3>1 DEF UpdateIsGated
  <2>3. CASE ~UpdateIsGated(t, s, k)
    <3>1. r.status = e.status
      BY <1>3, <2>3
    <3>2. t = None
      BY <1>2, <1>3, <2>3, <3>1
         DEF UpdateIsGated, is_context_admissible, is_quarantined, e
    <3>3. row.status = "published"
      BY <1>2, <2>3, <3>1 DEF UpdateIsGated
    <3>4. r.content = row.content /\ r.clean = row.clean
      BY <1>2, <1>3, <3>2
    <3> QED BY <3>3, <3>4 DEF GateInv, ServesClean, effective_content
  <2> QED BY <2>1, <2>2, <2>3
<1> QED BY <1>5, <1>6 DEF r

\* publish_memory writes the copy its gate admitted.
LEMMA DecisionGates ==
  ASSUME TypeOK, GateInv, NEW p \in Procs, PublishDecision(p), UNCHANGED exempted
  PROVE  \A q \in Procs : CopyGated(proc'[q], exempted')
<1> DEFINE r == [row EXCEPT !.status = "published", !.stale = FALSE]
<1>1. row \in Row /\ r \in Row /\ r.content = row.content /\ r.clean = row.clean
  BY DEF TypeOK, Row, Status
<1>2. effective_content(r) = effective_content(row)
  BY <1>1 DEF effective_content
<1>3. PICK ok \in Verdicts(effective_content(row)) :
        IF ok THEN goto(p, "savePublished", r, NoText) ELSE done(p)
  BY DEF PublishDecision
<1>4. ok \in BOOLEAN /\ (ok => IsClean(effective_content(row)))
  BY DEF Verdicts
<1> HIDE DEF r
<1>5. exempted' \in BOOLEAN /\ "savePublished" \in PCs
  BY DEF TypeOK, PCs
<1>6. CASE ok
  <2>1. CopyGated([pc |-> "savePublished", snap |-> r, text |-> NoText], exempted')
    BY <1>2, <1>4, <1>6 DEF CopyGated, Apart, ServesClean
  <2> QED BY <1>1, <1>3, <1>5, <1>6, <2>1, CopiesStep, TextTypes
<1>7. CASE ~ok
  BY <1>3, <1>5, <1>7, CopiesStep
<1> QED BY <1>6, <1>7

\* The first statement of every user operation keeps the gate invariant.
LEMMA GateUserOps ==
  ASSUME TypeOK, GateInv, PublicationAssumption, GateAndWriteTogether,
         NEW p \in Procs, UserOp(p)
  PROVE  GateInv'
<1>1. /\ row \in Row /\ exempted \in BOOLEAN
      /\ UNCHANGED <<row, exempted>>
  BY DEF TypeOK, UserOp, Add, Update, Publish, Promote, Cluster, Filter,
         IngestQuarantine, Sweep, Release, Delete, Starts
<1> SUFFICES \A q \in Procs : CopyGated(proc'[q], exempted')
  BY <1>1 DEF GateInv, ServesClean, effective_content, IsClean
<1>2. ASSUME NEW t \in Texts, NEW s \in FlipTo \cup {None}, Add(p, t, s)
      PROVE  \A q \in Procs : CopyGated(proc'[q], exempted')
  <2>1. PICK ok \in Verdicts(Written(t)) :
          goto(p, "saveNew", InitialRow(t, s, ok), Written(t))
    BY <1>2 DEF Add
  <2>2. ok \in BOOLEAN /\ (ok => IsClean(Written(t)))
    BY DEF Verdicts
  <2>3. /\ InitialRow(t, s, ok).status = "published" => ok
        /\ effective_content(InitialRow(t, s, ok)) = Written(t)
    <3>1. /\ InitialRow(t, s, ok).clean = NoText
          /\ InitialRow(t, s, ok).content = Written(t)
          /\ InitialRow(t, s, ok).status = "published" => ok
      BY DEF InitialRow, EmptyRow
    <3> QED BY <3>1 DEF effective_content
  <2>4. CopyGated([pc |-> "saveNew", snap |-> InitialRow(t, s, ok),
                   text |-> Written(t)], exempted')
    BY <2>2, <2>3 DEF CopyGated, Apart, ServesClean
  <2> QED BY <1>1, <2>1, <2>2, <2>4, CopiesStep, InitialRowTypes, TextTypes DEF PCs
<1>3. ASSUME NEW t \in Texts \cup {None}, NEW s \in FlipTo \cup {None},
             NEW k \in BOOLEAN, Update(p, t, s, k)
      PROVE  \A q \in Procs : CopyGated(proc'[q], exempted')
  <2> DEFINE r(ok)    == AfterUpdate(t, s, k, ok)
             next(ok) == IF Demotes(t, ok) THEN "saveDemoted" ELSE "save"
             text     == IF t # None THEN Written(t) ELSE NoText
  <2>1. PICK ok \in BOOLEAN :
          /\ goto(p, next(ok), r(ok), text)
          /\ UpdateIsGated(t, s, k) =>
               (ok => IsClean(effective_content(
                  [Edited(t, s, k) EXCEPT !.clean = IF t # None THEN NoText ELSE @])))
          /\ ~UpdateIsGated(t, s, k) => ok
    BY <1>3 DEF Update, Verdicts
  <2>2. IF Demotes(t, ok) THEN r(ok).status # "published"
        ELSE ServesClean(r(ok)) \/ is_quarantined(r(ok)) \/ exempted
    BY <2>1, UpdateGates
  <2>3. next(ok) \in PCs /\ r(ok) \in Row /\ text \in Text
    BY EditedTypes, TextTypes DEF PCs
  <2> HIDE DEF r, text
  <2>4. CopyGated([pc |-> next(ok), snap |-> r(ok), text |-> text], exempted')
    BY <1>1, <2>2 DEF CopyGated, Apart
  <2> QED BY <1>1, <2>1, <2>3, <2>4, CopiesStep
<1>4. CASE Publish(p)
  <2>1. PublishDecision(p)
    BY <1>4 DEF Publish
  <2> QED BY <1>1, <2>1, DecisionGates
<1>5. CASE Promote(p)
  <2> DEFINE r == [row EXCEPT !.status = "processed", !.stale = FALSE]
  <2>1. r \in Row /\ r.status = "processed"
    BY <1>1 DEF Row, Status
  <2>2. CopyGated([pc |-> "mark", snap |-> r, text |-> NoText], exempted')
    BY <2>1 DEF CopyGated, Apart
  <2>3. goto(p, "mark", r, NoText) \/ goto(p, "gate", EmptyRow, NoText)
    BY <1>5 DEF Promote
  <2>4. "mark" \in PCs /\ "gate" \in PCs \ (Apart \cup Writing)
    BY DEF PCs, Apart, Writing
  <2> HIDE DEF r
  <2> QED BY <1>1, <2>1, <2>2, <2>3, <2>4, CopiesStep, RowTypes, TextTypes
<1>6. CASE Cluster(p)
  <2> DEFINE r == [row EXCEPT !.status = "processing", !.clustered = TRUE]
  <2>1. r \in Row /\ r.status = "processing"
    BY <1>1 DEF Row, Status
  <2>2. CopyGated([pc |-> "clusterSave", snap |-> r, text |-> NoText], exempted')
    BY <2>1 DEF CopyGated, Apart
  <2>3. goto(p, "clusterSave", r, NoText) /\ "clusterSave" \in PCs
    BY <1>6 DEF Cluster, PCs
  <2> HIDE DEF r
  <2> QED BY <1>1, <2>1, <2>2, <2>3, CopiesStep, TextTypes
<1>7. CASE Filter(p) \/ Sweep(p)
  BY <1>7 DEF Filter, Sweep, Starts, GateAndWriteTogether
<1>8. CASE IngestQuarantine(p) \/ Release(p) \/ Delete(p)
  <2>1. {"born", "release", "deleteVec"} \subseteq PCs \ (Apart \cup Writing)
    BY DEF PCs, Apart, Writing
  <2> QED BY <1>1, <1>8, <2>1, CopiesStep, RowTypes, TextTypes
          DEF IngestQuarantine, Release, Delete
<1> QED BY <1>2, <1>3, <1>4, <1>5, <1>6, <1>7, <1>8 DEF UserOp

\* Control states the statements of an operation go on to without a copy.
LEMMA Onward ==
  {"embed", "unembed", "produce", "noop", "fail", "curate", "reread", "reload",
   "quarantine", "gate", "clear", "enqueue", "releaseClear", "drop", "claim"}
    \subseteq PCs \ (Apart \cup Writing)
BY DEF PCs, Apart, Writing

\* Every later statement of an operation keeps the gate invariant.
LEMMA GateSteps ==
  ASSUME TypeOK, GateInv, GateAndWriteTogether, NEW p \in Procs, Step(p)
  PROVE  GateInv'
<1>1. /\ row \in Row /\ exempted \in BOOLEAN
      /\ proc[p].snap \in Row /\ proc[p].text \in Text
      /\ proc[p].snap.retry \in Nat
      /\ ~exempted => ServesClean(row)
      /\ CopyGated(proc[p], exempted)
      /\ proc[p].pc \notin Apart
  BY ControlTypes DEF TypeOK, Control, Row, GateInv, CopyGated
<1>2. ASSUME UNCHANGED exempted, ~exempted => ServesClean(row'),
             \A q \in Procs : CopyGated(proc'[q], exempted')
      PROVE  GateInv'
  BY <1>2 DEF GateInv, ServesClean, effective_content, IsClean
<1>3. ASSUME UNCHANGED <<row, exempted>>, 
             \A q \in Procs : CopyGated(proc'[q], exempted')
      PROVE  GateInv'
  BY <1>1, <1>2, <1>3
<1>4. CASE Save(p)
  <2>1. row' = proc[p].snap
    BY <1>4 DEF Save, save
  <2>2. /\ exempted' \in BOOLEAN /\ (exempted => exempted')
        /\ is_quarantined(proc[p].snap) /\ ~IsClean(effective_content(proc[p].snap))
             => exempted'
    BY <1>1, <1>4 DEF Save
  <2>3. ~exempted' => ServesClean(proc[p].snap)
    BY <1>1, <1>4, <2>2 DEF Save, CopyGated, ServesClean
  <2>4. ~AutoFilter
    BY DEF GateAndWriteTogether
  <2>5. \A q \in Procs : CopyGated(proc'[q], exempted')
    BY <1>1, <1>4, <2>2, <2>4, CopiesStep, Onward, RowTypes, TextTypes
       DEF Save, EmbedIfPublished, at
  <2> QED BY <2>1, <2>3, <2>5 DEF GateInv, ServesClean, effective_content, IsClean
<1>5. CASE Embed(p)
  <2>1. UNCHANGED exempted /\ done(p)
    BY <1>5 DEF Embed, OnlyFault
  <2>2. \A q \in Procs : CopyGated(proc'[q], exempted')
    BY <1>1, <2>1, CopiesStep
  <2>3. ~exempted => ServesClean(row')
    BY <1>1, <1>5, UpdateKeeps DEF Embed, OnlyFault
  <2> QED BY <1>2, <2>1, <2>2, <2>3
<1>6. CASE Unembed(p) \/ DeleteVector(p) \/ Drop(p) \/ Curate(p) \/ Reload(p)
  <2>1. UNCHANGED <<row, exempted>>
    BY <1>6 DEF Unembed, DeleteVector, Drop, Curate, Reload, OnlyFault, OnlyRow, OnlyLocal
  <2>2. ~Curated
    BY DEF GateAndWriteTogether
  <2>3. \A q \in Procs : CopyGated(proc'[q], exempted')
    BY <1>1, <1>6, <2>1, <2>2, CopiesStep, Onward, RowTypes, TextTypes
       DEF Unembed, DeleteVector, Drop, Curate, Reload
  <2> QED BY <1>3, <2>1, <2>3
<1>7. CASE Claim(p)
  <2>1. UNCHANGED exempted
    BY <1>7 DEF Claim, OnlyRow
  <2>2. \A q \in Procs : CopyGated(proc'[q], exempted')
    BY <1>1, <1>7, <2>1, CopiesStep, Onward DEF Claim
  <2>3. ~exempted => ServesClean(row')
    BY <1>1, <1>7, UpdateKeeps, ColumnTypes, ColumnsKeep DEF Claim, PipelineState
  <2> QED BY <1>2, <2>1, <2>2, <2>3
<1>8. CASE Produce(p)
  <2>1. UNCHANGED <<row, exempted>>
    BY <1>8 DEF Produce, OnlyLocal, OnlyRow, OnlyFault
  <2>2. Artifact(p) \in Text
    BY ArtifactTypes
  <2>3. CASE goto(p, "swap", proc[p].snap, Artifact(p)) /\ IsClean(Artifact(p))
    <3>1. CopyGated([pc |-> "swap", snap |-> proc[p].snap, text |-> Artifact(p)], exempted')
      BY <2>3 DEF CopyGated, Apart
    <3>2. "swap" \in PCs
      BY DEF PCs
    <3> QED BY <1>1, <1>3, <2>1, <2>2, <2>3, <3>1, <3>2, CopiesStep
  <2>4. CASE \/ then(p, "noop") \/ then(p, "fail")
             \/ goto(p, "quarantine", EmptyRow, NoText)
    <3>1. \A q \in Procs : CopyGated(proc'[q], exempted')
      BY <1>1, <2>1, <2>4, CopiesStep, Onward, RowTypes, TextTypes
    <3> QED BY <1>3, <2>1, <3>1
  <2> QED BY <1>8, <2>3, <2>4 DEF Produce, Verdicts
<1>9. CASE Noop(p)
  <2>1. UNCHANGED exempted
    BY <1>9 DEF Noop, OnlyRow
  <2>2. \A q \in Procs : CopyGated(proc'[q], exempted')
    BY <1>1, <1>9, <2>1, CopiesStep, Onward, RowTypes, TextTypes DEF Noop
  <2>3. ~exempted => ServesClean(row')
    BY <1>1, <1>9, UpdateKeeps, ColumnTypes, ColumnsKeep DEF Noop, PipelineState
  <2> QED BY <1>2, <2>1, <2>2, <2>3
<1>10. CASE Swap(p)
  <2>1. UNCHANGED exempted
    BY <1>10 DEF Swap, OnlyRow, OnlyFault
  <2>2. \A q \in Procs : CopyGated(proc'[q], exempted')
    BY <1>1, <1>10, <2>1, CopiesStep, Onward, RowTypes DEF Swap
  <2>3. IsClean(proc[p].text)
    BY <1>1, <1>10 DEF Swap, CopyGated, at
  <2>4. ~exempted => ServesClean(Swapped(proc[p].snap, proc[p].text))
    <3>1. CASE proc[p].snap.swapKey = proc[p].text
      BY <1>1, <3>1, ColumnsKeep DEF Swapped, PipelineState
    <3>2. CASE proc[p].snap.swapKey # proc[p].text
      <4> DEFINE r == Swapped(proc[p].snap, proc[p].text)
      <4>1. r.content = proc[p].text /\ r.clean = NoText
        BY <1>1, <3>2 DEF Swapped, Row
      <4>2. effective_content(r) = proc[p].text
        BY <4>1 DEF effective_content
      <4> QED BY <2>3, <4>2 DEF ServesClean
    <3> QED BY <3>1, <3>2
  <2>5. ~exempted => ServesClean(row')
    BY <1>1, <1>10, <2>4, UpdateKeeps, SwappedTypes DEF Swap, OnlyFault
  <2> QED BY <1>2, <2>1, <2>2, <2>5
<1>11. CASE RecordFailure(p)
  <2>1. UNCHANGED exempted
    BY <1>11 DEF RecordFailure, OnlyRow
  <2>2. \A q \in Procs : CopyGated(proc'[q], exempted')
    BY <1>1, <1>11, <2>1, CopiesStep DEF RecordFailure
  <2> DEFINE n == proc[p].snap.retry + 1
             w == n < MaxAttempts
  <2>3. n \in Nat /\ w \in BOOLEAN
    BY <1>1, PublicationAssumption DEF PublicationAssumption
  <2>4. ~exempted => ServesClean(row')
    <3>1. update_fields([row EXCEPT !.ps = "failed", !.retry = n, !.waiting = w])
      BY <1>11 DEF RecordFailure
    <3> HIDE DEF n, w
    <3> QED BY <1>1, <2>3, <3>1, UpdateKeeps, ColumnTypes, ColumnsKeep
  <2> QED BY <1>2, <2>1, <2>2, <2>4
<1>12. CASE QuarantineEntry(p)
  <2>1. UNCHANGED exempted
    BY <1>12 DEF QuarantineEntry, OnlyRow
  <2>2. \A q \in Procs : CopyGated(proc'[q], exempted')
    BY <1>1, <1>12, <2>1, CopiesStep, Onward DEF QuarantineEntry
  <2>3. ~exempted => ServesClean(row')
    BY <1>1, <1>12, UpdateKeeps, ColumnTypes, ColumnsKeep DEF QuarantineEntry
  <2> QED BY <1>2, <2>1, <2>2, <2>3
<1>13. CASE Mark(p) \/ ClusterSave(p) \/ SavePublished(p)
  <2>1. UNCHANGED exempted /\ row' = proc[p].snap
    BY <1>13 DEF Mark, ClusterSave, SavePublished, save, OnlyRow
  <2>2. \A q \in Procs : CopyGated(proc'[q], exempted')
    BY <1>1, <1>13, <2>1, CopiesStep, Onward, RowTypes, TextTypes
       DEF Mark, ClusterSave, SavePublished
  <2>3. ServesClean(proc[p].snap)
    BY <1>1, <1>13 DEF Mark, ClusterSave, SavePublished, CopyGated, at, ServesClean
  <2>4. ~exempted => ServesClean(row')
    BY <2>1, <2>3
  <2> QED BY <1>2, <2>1, <2>2, <2>4
<1>14. CASE GateRead(p)
  <2>1. UNCHANGED <<row, exempted>>
    BY <1>14 DEF GateRead, OnlyLocal, OnlyRow
  <2>2. \A q \in Procs : CopyGated(proc'[q], exempted')
    BY <1>1, <1>14, <2>1, CopiesStep, DecisionGates DEF GateRead
  <2> QED BY <1>3, <2>1, <2>2
<1>15. CASE ClearRetry(p)
  <2>1. UNCHANGED exempted
    BY <1>15 DEF ClearRetry, OnlyRow
  <2>2. \A q \in Procs : CopyGated(proc'[q], exempted')
    BY <1>1, <1>15, <2>1, CopiesStep, Onward DEF ClearRetry
  <2>3. ~exempted => ServesClean(row')
    BY <1>1, <1>15, UpdateKeeps, ColumnTypes, ColumnsKeep DEF ClearRetry
  <2> QED BY <1>2, <2>1, <2>2, <2>3
<1>16. CASE Enqueue(p)
  <2>1. UNCHANGED exempted
    BY <1>16 DEF Enqueue, OnlyRow
  <2>2. \A q \in Procs : CopyGated(proc'[q], exempted')
    BY <1>1, <1>16, <2>1, CopiesStep, Onward DEF Enqueue
  <2>3. ~exempted => ServesClean(row')
    BY <1>1, <1>16, UpdateKeeps, ColumnTypes, ColumnsKeep DEF Enqueue, PipelineState
  <2> QED BY <1>2, <2>1, <2>2, <2>3
<1>17. CASE ReleaseWrite(p)
  <2>1. UNCHANGED exempted
    BY <1>17 DEF ReleaseWrite, OnlyRow
  <2>2. \A q \in Procs : CopyGated(proc'[q], exempted')
    BY <1>1, <1>17, <2>1, CopiesStep, Onward DEF ReleaseWrite
  <2>3. ~exempted => ServesClean(row')
    BY <1>1, <1>17, UpdateKeeps, ColumnTypes, ColumnsKeep DEF ReleaseWrite
  <2> QED BY <1>2, <2>1, <2>2, <2>3
<1>18. CASE Flip(p) \/ FilterSave(p) \/ AutoFilterRead(p) \/ AutoReload(p) \/ SweepWrite(p)
  BY <1>1, <1>18 DEF Flip, FilterSave, AutoFilterRead, AutoReload, SweepWrite, at, Apart
<1> QED
  BY <1>4, <1>5, <1>6, <1>7, <1>8, <1>9, <1>10, <1>11, <1>12, <1>13, <1>14, <1>15,
     <1>16, <1>17, <1>18 DEF Step

\* The gate invariant is preserved by every step of the system.
LEMMA GateStep ==
  TypeOK /\ GateInv /\ GateAndWriteTogether /\ [Next]_vars => GateInv'
<1> SUFFICES ASSUME TypeOK, GateInv, GateAndWriteTogether, [Next]_vars PROVE GateInv'
  OBVIOUS
<1>1. row \in Row /\ exempted \in BOOLEAN /\ (~exempted => ServesClean(row))
  BY DEF TypeOK, GateInv
<1>2. ASSUME UNCHANGED exempted, ~exempted => ServesClean(row'),
             \A q \in Procs : CopyGated(proc'[q], exempted')
      PROVE  GateInv'
  BY <1>2 DEF GateInv, ServesClean, effective_content, IsClean
<1>3. ASSUME UNCHANGED <<proc, exempted>>, ~exempted => ServesClean(row')
      PROVE  GateInv'
  BY <1>1, <1>2, <1>3 DEF GateInv
<1>4. CASE UNCHANGED vars
  BY <1>1, <1>3, <1>4 DEF vars
<1>5. ASSUME NEW p \in Procs, UserOp(p) PROVE GateInv'
  BY <1>5, GateUserOps, PublicationAssumption
<1>6. ASSUME NEW p \in Procs, Step(p) PROVE GateInv'
  BY <1>6, GateSteps
<1>7. ASSUME NEW p \in Procs, RefineRead(p) \/ Heal(p) \/ Crash(p) PROVE GateInv'
  <2>1. UNCHANGED <<row, exempted>>
    BY <1>7 DEF RefineRead, Heal, Crash, StartsTask, OnlyFault
  <2>2. \A q \in Procs : CopyGated(proc'[q], exempted')
    BY <1>1, <1>7, <2>1, CopiesStep, Onward, TextTypes DEF RefineRead, Heal, Crash
  <2> QED BY <1>1, <1>2, <2>1, <2>2
<1>8. CASE LeaseExpires \/ BackoffElapses
  <2>1. UNCHANGED <<proc, exempted>>
    BY <1>8 DEF LeaseExpires, BackoffElapses, OnlyRow
  <2>2. ~exempted => ServesClean(row')
    BY <1>1, <1>8, ColumnsKeep DEF LeaseExpires, BackoffElapses
  <2> QED BY <1>3, <2>1, <2>2
<1>9. CASE Reclaim
  <2>1. UNCHANGED <<proc, exempted>>
    BY <1>9 DEF Reclaim, OnlyRow
  <2>2. ~exempted => ServesClean(row')
    BY <1>1, <1>9, UpdateKeeps, ColumnTypes, ColumnsKeep DEF Reclaim, PipelineState
  <2> QED BY <1>3, <2>1, <2>2
<1>10. CASE MatesChange
  BY <1>1, <1>3, <1>10 DEF MatesChange
<1> QED BY <1>4, <1>5, <1>6, <1>7, <1>8, <1>9, <1>10 DEF Next

-----------------------------------------------------------------------------
\* Publication is gated: for any number of processes and operations, whatever
\* interleaves, crashes, is retried or re-inserted, the text of a published
\* row has passed the danger gate, unless a refused text was stored into a
\* quarantined row (immediate visibility, no context filter, no sweep).
THEOREM GatedPublication == Spec => []PublishedIsGated
<1>1. Init => IInv
  <2> SUFFICES ASSUME Init PROVE TypeOK /\ GateInv
    BY DEF IInv
  <2>1. \A q \in Procs : proc[q].pc = "idle"
    BY DEF Init, Idle
  <2>2. row.status = "raw"
    BY DEF Init, EmptyRow
  <2> QED BY <2>1, <2>2, InitTypes DEF GateInv, ServesClean, CopyGated, Apart
<1>2. IInv /\ [Next]_vars => IInv'
  BY TypeStep, GateStep, PublicationAssumption DEF IInv, GateAndWriteTogether
<1>3. IInv => PublishedIsGated
  BY DEF IInv, GateInv, PublishedIsGated, ServesClean
<1> QED BY <1>1, <1>2, <1>3, PTL DEF Spec

-----------------------------------------------------------------------------
(***************************************************************************)
(* The retry budget, for any number of processes.  Three operations put a  *)
(* row back into the queue from a copy or without its counter (update,     *)
(* publish and promote); without them the counter keeps to the budget      *)
(* whatever else races, also under overrun leases.                         *)
(***************************************************************************)
NoReenrolment == Ops \cap {"update", "publish", "promote"} = {} /\ MaxAttempts > 0

\* A queued or claimed row has an attempt left.
Budgeted(r) ==
  /\ r.retry <= MaxAttempts
  /\ r.ps \in {"pending", "processing"} => r.retry < MaxAttempts

\* The same of what a process will write.
Budgets(c) ==
  /\ c.pc \notin {"save", "saveDemoted", "mark", "gate", "savePublished", "clear", "enqueue"}
  /\ c.pc \in {"saveNew", "clusterSave"} => Budgeted(c.snap)
  /\ c.pc \in {"claim", "produce", "swap", "noop", "fail"} => c.snap.retry < MaxAttempts
  /\ c.pc = "sweepRelease" => c.snap.retry <= MaxAttempts

BudgetInv == TypeOK /\ Budgeted(row) /\ \A p \in Procs : Budgets(proc[p])

\* Process p moves to c, the others stay.
Moved(p, c) == proc'[p] = c /\ \A q \in Procs \ {p} : proc'[q] = proc[q]

\* Where the next statement of an operation leaves the processes.
LEMMA MovesTo ==
  ASSUME NEW p \in Procs, TypeOK
  PROVE  /\ done(p) => \E c : Moved(p, c) /\ c.pc = "idle"
         /\ \A pc : then(p, pc) => \E c : Moved(p, c) /\ c.pc = pc /\ c.snap = proc[p].snap
         /\ \A pc, snap, text : goto(p, pc, snap, text) =>
              \E c : Moved(p, c) /\ c.pc = pc /\ c.snap = snap
<1>1. proc \in [Procs -> Control]
  BY DEF TypeOK, Control
<1>2. ASSUME NEW c, proc' = [proc EXCEPT ![p] = c] PROVE Moved(p, c)
  BY <1>1, <1>2 DEF Moved
<1>3. ASSUME done(p) PROVE \E c : Moved(p, c) /\ c.pc = "idle"
  <2>1. PICK c : c = Idle
    OBVIOUS
  <2>2. Moved(p, c) /\ c.pc = "idle"
    BY <1>2, <1>3, <2>1 DEF done, Idle
  <2> QED BY <2>2
<1>4. ASSUME NEW pc, then(p, pc) PROVE \E c : Moved(p, c) /\ c.pc = pc /\ c.snap = proc[p].snap
  <2>1. PICK c : c = [proc[p] EXCEPT !.pc = pc]
    OBVIOUS
  <2>2. c.pc = pc /\ c.snap = proc[p].snap
    BY <1>1, <2>1 DEF Control
  <2>3. proc' = [proc EXCEPT ![p] = c]
    BY <1>4, <2>1 DEF then
  <2> QED BY <1>2, <2>2, <2>3
<1>5. ASSUME NEW pc, NEW snap, NEW text, goto(p, pc, snap, text)
      PROVE  \E c : Moved(p, c) /\ c.pc = pc /\ c.snap = snap
  <2>1. PICK c : c = [pc |-> pc, snap |-> snap, text |-> text]
    OBVIOUS
  <2>2. c.pc = pc /\ c.snap = snap
    BY <2>1
  <2>3. Moved(p, c)
    BY <1>2, <1>5, <2>1 DEF goto
  <2> QED BY <2>2, <2>3
<1> QED BY <1>3, <1>4, <1>5

\* A step of one process: what it writes, and what it will write.
LEMMA BudgetMoves ==
  ASSUME BudgetInv, TypeOK', NEW p \in Procs, NEW c, Moved(p, c), Budgets(c), Budgeted(row')
  PROVE  BudgetInv'
BY DEF BudgetInv, Moved

\* Control states without a bound on what they hold.
Unbudgeted == PCs \ {"save", "saveDemoted", "mark", "gate", "savePublished", "clear", "enqueue",
                     "saveNew", "clusterSave", "claim", "produce", "swap", "noop", "fail",
                     "sweepRelease"}

\* A process that writes some columns and holds nothing more.
LEMMA BudgetUpdates ==
  ASSUME BudgetInv, TypeOK', NEW p \in Procs, NEW c, Moved(p, c), c.pc \in Unbudgeted,
         NEW r \in Row, update_fields(r), Budgeted(r)
  PROVE  BudgetInv'
<1>1. Budgeted(row')
  <2>1. CASE exists
    BY <2>1 DEF update_fields, Budgeted, Row
  <2>2. CASE ~exists
    BY <2>2 DEF update_fields, BudgetInv
  <2> QED BY <2>1, <2>2
<1>2. Budgets(c)
  BY DEF Budgets, Unbudgeted
<1> QED BY <1>1, <1>2, BudgetMoves

\* A process that writes no column and holds nothing more.
LEMMA BudgetRests ==
  ASSUME BudgetInv, TypeOK', NEW p \in Procs, NEW c, Moved(p, c), c.pc \in Unbudgeted, row' = row
  PROVE  BudgetInv'
<1>1. Budgets(c) /\ Budgeted(row')
  BY DEF Budgets, Unbudgeted, BudgetInv
<1> QED BY <1>1, BudgetMoves

\* Some of those control states.
LEMMA UnbudgetedStates ==
  {"idle", "autoFilter", "autoFilterSave", "autoReload", "sweepRefuse", "born", "embed", "unembed",
   "curate", "flip", "reread", "reload", "quarantine", "filterSave", "release", "releaseClear",
   "deleteVec", "drop"} \subseteq Unbudgeted
BY DEF Unbudgeted, PCs

\* The starts of operations.
LEMMA BudgetStarts ==
  ASSUME BudgetInv, NoReenrolment, TypeOK', NEW p \in Procs, UserOp(p) \/ RefineRead(p) \/ Heal(p)
  PROVE  BudgetInv'
<1>1. TypeOK /\ row \in Row /\ row.retry \in Nat /\ MaxAttempts \in Nat /\ Budgeted(row)
  BY PublicationAssumption DEF BudgetInv, TypeOK, Row
<1>2. ASSUME NEW t \in Texts, NEW s \in FlipTo \cup {None}, Add(p, t, s) PROVE BudgetInv'
  <2>1. PICK ok \in BOOLEAN : goto(p, "saveNew", InitialRow(t, s, ok), Written(t))
    BY <1>2 DEF Add, Verdicts
  <2>2. PICK r : r = InitialRow(t, s, ok)
    OBVIOUS
  <2>3. r.retry = 0
    BY <2>2 DEF InitialRow, EmptyRow
  <2>4. PICK c : Moved(p, c) /\ c.pc = "saveNew" /\ c.snap = r
    BY <1>1, <2>1, <2>2, MovesTo
  <2>5. Budgeted(r)
    BY <1>1, <2>3 DEF Budgeted, NoReenrolment
  <2>6. Budgets(c) /\ row' = row
    BY <1>2, <2>4, <2>5 DEF Budgets, Add
  <2> QED BY <1>1, <2>4, <2>6, BudgetMoves
<1>3. ASSUME NEW t, NEW s, NEW k, Update(p, t, s, k) \/ Publish(p) \/ Promote(p) PROVE FALSE
  BY <1>3 DEF Update, Publish, Promote, Starts, NoReenrolment
<1>4. CASE Cluster(p)
  <2>1. PICK r : r = [row EXCEPT !.status = "processing", !.clustered = TRUE]
    OBVIOUS
  <2>2. r.retry = row.retry /\ r.ps = row.ps
    BY <1>1, <2>1 DEF Row
  <2>3. PICK c : Moved(p, c) /\ c.pc = "clusterSave" /\ c.snap = r
    BY <1>1, <1>4, <2>1, MovesTo DEF Cluster
  <2>4. Budgeted(r)
    BY <1>1, <2>2 DEF Budgeted
  <2>5. Budgets(c) /\ row' = row
    BY <1>4, <2>3, <2>4 DEF Budgets, Cluster, Starts
  <2> QED BY <1>1, <2>3, <2>5, BudgetMoves
<1>5. CASE Sweep(p)
  <2>1. PICK pc \in {"sweepRelease", "sweepRefuse"} : goto(p, pc, row, NoText)
    BY <1>5 DEF Sweep
  <2>2. PICK c : Moved(p, c) /\ c.pc = pc /\ c.snap = row
    BY <1>1, <2>1, MovesTo
  <2>3. Budgets(c) /\ row' = row
    BY <1>1, <1>5, <2>1, <2>2 DEF Budgets, Budgeted, Sweep, Starts
  <2> QED BY <1>1, <2>2, <2>3, BudgetMoves
<1>6. CASE RefineRead(p)
  <2>1. PICK c : Moved(p, c) /\ c.pc = "claim" /\ c.snap = row
    BY <1>1, <1>6, MovesTo DEF RefineRead
  <2>2. row.retry < MaxAttempts
    BY <1>1, <1>6 DEF RefineRead, refine_intake, Budgeted
  <2>3. Budgets(c) /\ row' = row
    BY <1>6, <2>1, <2>2 DEF Budgets, RefineRead, StartsTask
  <2> QED BY <1>1, <2>1, <2>3, BudgetMoves
<1>7. CASE Filter(p) \/ IngestQuarantine(p) \/ Release(p) \/ Delete(p) \/ Heal(p)
  <2>1. PICK pc \in {"filterSave", "born", "release", "deleteVec", "embed"} :
          \E snap, text : goto(p, pc, snap, text)
    BY <1>7 DEF Filter, IngestQuarantine, Release, Delete, Heal
  <2>2. PICK c : Moved(p, c) /\ c.pc = pc
    BY <1>1, <2>1, MovesTo
  <2>3. row' = row /\ pc \in Unbudgeted
    BY <1>7, <2>1, UnbudgetedStates DEF Filter, IngestQuarantine, Release, Delete, Heal, Starts, StartsTask
  <2> QED BY <2>2, <2>3, BudgetRests
<1> QED BY <1>2, <1>3, <1>4, <1>5, <1>6, <1>7 DEF UserOp

\* The statements that leave the row alone, and a crash.
LEMMA BudgetLocals ==
  ASSUME BudgetInv, NoReenrolment, TypeOK', NEW p \in Procs,
         Unembed(p) \/ DeleteVector(p) \/ Drop(p) \/ Produce(p) \/ Curate(p) \/ Reload(p)
           \/ AutoFilterRead(p) \/ AutoReload(p) \/ Crash(p)
  PROVE  BudgetInv'
<1>1. TypeOK /\ row \in Row /\ Budgeted(row) /\ Budgets(proc[p])
  BY DEF BudgetInv, TypeOK
<1>2. row' = row
  BY DEF Unembed, DeleteVector, Drop, Produce, Curate, Reload, AutoFilterRead, AutoReload, Crash,
         OnlyLocal, OnlyFault
<1>3. ASSUME NEW pc \in Unbudgeted, then(p, pc) \/ \E snap, text : goto(p, pc, snap, text)
      PROVE  BudgetInv'
  <2>1. PICK c : Moved(p, c) /\ c.pc = pc
    BY <1>1, <1>3, MovesTo
  <2> QED BY <1>2, <1>3, <2>1, BudgetRests
<1>4. done(p) => BudgetInv'
  <2>1. ASSUME done(p) PROVE BudgetInv'
    <3>1. PICK c : Moved(p, c) /\ c.pc = "idle"
      BY <1>1, <2>1, MovesTo
    <3> QED BY <1>2, <3>1, UnbudgetedStates, BudgetRests
  <2> QED BY <2>1
<1>5. CASE Unembed(p) \/ DeleteVector(p) \/ Drop(p) \/ Curate(p) \/ Crash(p)
  <2>1. done(p) \/ \E pc \in {"reread", "drop", "flip", "quarantine"} : then(p, pc)
    BY <1>5 DEF Unembed, DeleteVector, Drop, Curate, Crash
  <2> QED BY <1>3, <1>4, <2>1, UnbudgetedStates
<1>6. CASE Reload(p) \/ AutoFilterRead(p) \/ AutoReload(p)
  <2>1. \/ done(p)
        \/ \E pc \in {"embed", "autoFilterSave"} : \E snap, text : goto(p, pc, snap, text)
    BY <1>6 DEF Reload, AutoFilterRead, AutoReload, EmbedIfPublished
  <2> QED BY <1>3, <1>4, <2>1, UnbudgetedStates
<1>7. CASE Produce(p)
  <2>1. CASE goto(p, "quarantine", EmptyRow, NoText)
    BY <1>3, <2>1, UnbudgetedStates
  <2>2. CASE \/ \E pc \in {"noop", "fail"} : then(p, pc)
             \/ goto(p, "swap", proc[p].snap, Artifact(p))
    <3>1. PICK c : Moved(p, c) /\ c.pc \in {"noop", "fail", "swap"} /\ c.snap = proc[p].snap
      BY <1>1, <2>2, MovesTo
    <3>2. proc[p].snap.retry < MaxAttempts
      BY <1>1, <1>7 DEF Budgets, Produce, at
    <3>3. Budgets(c)
      BY <3>1, <3>2 DEF Budgets
    <3> QED BY <1>1, <1>2, <3>1, <3>3, BudgetMoves
  <2> QED BY <1>7, <2>1, <2>2 DEF Produce
<1> QED BY <1>5, <1>6, <1>7

\* The statements that write the row.
LEMMA BudgetWrites ==
  ASSUME BudgetInv, NoReenrolment, TypeOK', NEW p \in Procs,
         Save(p) \/ ClusterSave(p) \/ Embed(p) \/ Claim(p) \/ Noop(p) \/ Swap(p) \/ RecordFailure(p)
           \/ Flip(p) \/ QuarantineEntry(p) \/ ClearRetry(p) \/ FilterSave(p) \/ SweepWrite(p)
           \/ ReleaseWrite(p)
  PROVE  BudgetInv'
<1>1. /\ TypeOK /\ row \in Row /\ row.retry \in Nat /\ MaxAttempts \in Nat /\ MaxAttempts > 0
      /\ Budgeted(row) /\ Budgets(proc[p]) /\ proc[p] \in Control
      /\ proc[p].snap \in Row /\ proc[p].snap.retry \in Nat /\ proc[p].text \in Text
  BY PublicationAssumption DEF BudgetInv, TypeOK, Row, Control, NoReenrolment
<1>2. ASSUME NEW r \in Row, update_fields(r), Budgeted(r), NEW pc \in Unbudgeted,
             then(p, pc) \/ (pc = "idle" /\ done(p)) \/ \E snap, text : goto(p, pc, snap, text)
      PROVE  BudgetInv'
  <2>1. PICK c : Moved(p, c) /\ c.pc = pc
    BY <1>1, <1>2, MovesTo
  <2> QED BY <1>2, <2>1, BudgetUpdates
<1>3. CASE Save(p) \/ ClusterSave(p)
  <2>1. row' = proc[p].snap /\ proc[p].pc \in {"saveNew", "clusterSave"}
    BY <1>1, <1>3 DEF Save, ClusterSave, save, at, Budgets
  <2>2. Budgeted(row')
    BY <1>1, <2>1 DEF Budgets
  <2>3. \/ done(p) \/ \E pc \in {"autoFilter", "unembed", "embed"} :
                        then(p, pc) \/ \E snap, text : goto(p, pc, snap, text)
    BY <1>3 DEF Save, ClusterSave, EmbedIfPublished
  <2>4. PICK c : Moved(p, c) /\ c.pc \in {"idle", "autoFilter", "unembed", "embed"}
    BY <1>1, <2>3, MovesTo
  <2>5. Budgets(c)
    BY <2>4 DEF Budgets
  <2> QED BY <2>2, <2>4, <2>5, BudgetMoves
<1>4. CASE Embed(p)
  <2>1. CASE OnlyFault
    <3>1. PICK c : Moved(p, c) /\ c.pc = "idle"
      BY <1>1, <1>4, MovesTo DEF Embed
    <3> QED BY <2>1, <3>1, UnbudgetedStates, BudgetRests DEF OnlyFault
  <2>2. CASE update_fields(row)
    BY <1>1, <1>2, <1>4, <2>2, UnbudgetedStates DEF Embed
  <2> QED BY <1>4, <2>1, <2>2 DEF Embed
<1>5. CASE Claim(p)
  <2>1. CASE UNCHANGED <<exists, row>> /\ done(p)
    <3>1. PICK c : Moved(p, c) /\ c.pc = "idle"
      BY <1>1, <2>1, MovesTo
    <3> QED BY <2>1, <3>1, UnbudgetedStates, BudgetRests
  <2>2. CASE /\ exists /\ refine_intake(row) /\ then(p, "produce")
             /\ update_fields([row EXCEPT !.ps = "processing"])
    <3>1. PICK c : Moved(p, c) /\ c.pc = "produce" /\ c.snap = proc[p].snap
      BY <1>1, <2>2, MovesTo
    <3>2. row.retry < MaxAttempts
      BY <1>1, <2>2 DEF refine_intake, Budgeted
    <3>3. PICK r : r = [row EXCEPT !.ps = "processing"]
      OBVIOUS
    <3>4. row'.retry = row.retry
      BY <1>1, <2>2, <3>3 DEF update_fields, Row
    <3>5. Budgeted(row')
      BY <1>1, <3>2, <3>4 DEF Budgeted
    <3>6. Budgets(c)
      BY <1>1, <1>5, <3>1 DEF Budgets, Claim, at
    <3> QED BY <3>1, <3>5, <3>6, BudgetMoves
  <2> QED BY <1>5, <2>1, <2>2 DEF Claim
<1>6. CASE Noop(p)
  <2>1. PICK r : r = [row EXCEPT !.ps = "refined"]
    OBVIOUS
  <2>2. r \in Row /\ Budgeted(r)
    BY <1>1, <2>1 DEF Budgeted, Row, PipelineState
  <2>3. update_fields(r) /\ goto(p, "curate", EmptyRow, NoText)
    BY <1>6, <2>1 DEF Noop
  <2> QED BY <1>2, <2>2, <2>3, UnbudgetedStates
<1>7. CASE Swap(p)
  <2>1. CASE update_fields(Swapped(proc[p].snap, proc[p].text))
             /\ goto(p, "curate", EmptyRow, proc[p].text)
    <3>1. PICK r : r = Swapped(proc[p].snap, proc[p].text)
      OBVIOUS
    <3>2. r \in Row
      BY <1>1, <3>1, SwappedTypes
    <3>3. r.retry = row.retry /\ r.ps = "refined"
      BY <1>1, <3>1 DEF Swapped, Row
    <3>4. Budgeted(r)
      BY <1>1, <3>3 DEF Budgeted
    <3> QED BY <1>2, <2>1, <3>1, <3>2, <3>4, UnbudgetedStates
  <2>2. CASE OnlyFault /\ then(p, "fail")
    <3>1. PICK c : Moved(p, c) /\ c.pc = "fail" /\ c.snap = proc[p].snap
      BY <1>1, <2>2, MovesTo
    <3>2. Budgets(c) /\ Budgeted(row')
      BY <1>1, <1>7, <2>2, <3>1 DEF Budgets, Swap, at, OnlyFault
    <3> QED BY <3>1, <3>2, BudgetMoves
  <2> QED BY <1>7, <2>1, <2>2 DEF Swap
<1>8. CASE RecordFailure(p)
  <2>1. PICK n, w : n = proc[p].snap.retry + 1 /\ w = (n < MaxAttempts)
    OBVIOUS
  <2>2. proc[p].snap.retry < MaxAttempts
    BY <1>1, <1>8 DEF Budgets, RecordFailure, at
  <2>3. n \in Nat /\ n <= MaxAttempts /\ w \in BOOLEAN
    BY <1>1, <2>1, <2>2
  <2>4. PICK r : r = [row EXCEPT !.ps = "failed", !.retry = n, !.waiting = w]
    OBVIOUS
  <2>5. r \in Row /\ Budgeted(r)
    BY <1>1, <2>3, <2>4 DEF Budgeted, Row, PipelineState
  <2>6. update_fields(r) /\ done(p)
    BY <1>8, <2>1, <2>4 DEF RecordFailure
  <2> QED BY <1>2, <2>5, <2>6, UnbudgetedStates
<1>9. CASE Flip(p) \/ FilterSave(p) \/ QuarantineEntry(p) \/ ReleaseWrite(p)
  <2>1. PICK st, cl, ps, re, r :
          /\ r = [row EXCEPT !.status = st, !.clean = cl, !.ps = ps, !.reason = re]
          /\ st \in {row.status, "published"} /\ cl \in {row.clean, proc[p].text}
          /\ ps \in {row.ps, "quarantined", "failed"} /\ re \in {row.reason, "none", "born", "danger"}
          /\ update_fields(r)
    <3>1. CASE Flip(p)
      <4>1. [row EXCEPT !.status = "published"] =
              [row EXCEPT !.status = "published", !.clean = row.clean, !.ps = row.ps, !.reason = row.reason]
        BY <1>1 DEF Row
      <4> QED BY <3>1, <4>1 DEF Flip
    <3>2. CASE FilterSave(p)
      <4>1. [row EXCEPT !.clean = proc[p].text] =
              [row EXCEPT !.status = row.status, !.clean = proc[p].text, !.ps = row.ps, !.reason = row.reason]
        BY <1>1 DEF Row
      <4> QED BY <3>2, <4>1 DEF FilterSave
    <3>3. CASE QuarantineEntry(p)
      <4>1. PICK x \in {"born", "danger"} : update_fields([row EXCEPT !.ps = "quarantined", !.reason = x])
        BY <3>3 DEF QuarantineEntry
      <4>2. [row EXCEPT !.ps = "quarantined", !.reason = x] =
              [row EXCEPT !.status = row.status, !.clean = row.clean, !.ps = "quarantined", !.reason = x]
        BY <1>1 DEF Row
      <4> QED BY <4>1, <4>2
    <3>4. CASE ReleaseWrite(p)
      <4>1. [row EXCEPT !.ps = "failed", !.reason = "none"] =
              [row EXCEPT !.status = row.status, !.clean = row.clean, !.ps = "failed", !.reason = "none"]
        BY <1>1 DEF Row
      <4> QED BY <3>4, <4>1 DEF ReleaseWrite
    <3> QED BY <1>9, <3>1, <3>2, <3>3, <3>4
  <2>2. r \in Row /\ r.retry = row.retry /\ r.ps \in {row.ps, "quarantined", "failed"}
    BY <1>1, <2>1 DEF Row, Status, PipelineState
  <2>3. Budgeted(r)
    BY <1>1, <2>2 DEF Budgeted
  <2>4. done(p) \/ \E pc \in {"reload", "autoReload", "unembed", "releaseClear"} : then(p, pc)
    BY <1>9 DEF Flip, FilterSave, QuarantineEntry, ReleaseWrite
  <2> QED BY <1>2, <2>1, <2>2, <2>3, <2>4, UnbudgetedStates
<1>10. CASE ClearRetry(p)
  <2>1. PICK r : r = [row EXCEPT !.retry = 0, !.waiting = FALSE]
    OBVIOUS
  <2>2. r \in Row /\ r.retry = 0
    BY <1>1, <2>1 DEF Row
  <2>3. Budgeted(r)
    BY <1>1, <2>2 DEF Budgeted
  <2>4. update_fields(r) /\ done(p)
    BY <1>1, <1>10, <2>1 DEF ClearRetry, Budgets, at
  <2> QED BY <1>2, <2>2, <2>3, <2>4, UnbudgetedStates
<1>11. CASE SweepWrite(p)
  <2>1. CASE at(p, "sweepRelease")
    <3>1. PICK n, w : n = proc[p].snap.retry /\ w = proc[p].snap.waiting
      OBVIOUS
    <3>2. n \in Nat /\ n <= MaxAttempts /\ w \in BOOLEAN
      BY <1>1, <2>1, <3>1 DEF Budgets, at, Row
    <3>3. PICK r : r = [row EXCEPT !.ps = None, !.status = "published", !.reason = "none",
                                   !.retry = n, !.waiting = w]
      OBVIOUS
    <3>4. r \in Row /\ r.ps = None /\ r.retry = n
      BY <1>1, <3>2, <3>3 DEF Row, Status
    <3>5. Budgeted(r)
      BY <3>2, <3>4, PublicationAssumption DEF Budgeted, PipelineState
    <3>6. update_fields(r) /\ (then(p, "reload") \/ done(p))
      BY <1>11, <2>1, <3>1, <3>3 DEF SweepWrite
    <3> QED BY <1>2, <3>4, <3>5, <3>6, UnbudgetedStates
  <2>2. CASE ~at(p, "sweepRelease")
    <3>1. PICK r : r = [row EXCEPT !.reason = "danger"]
      OBVIOUS
    <3>2. r \in Row /\ Budgeted(r)
      BY <1>1, <3>1 DEF Row, Budgeted
    <3>3. update_fields(r) /\ done(p)
      BY <1>11, <2>2, <3>1 DEF SweepWrite
    <3> QED BY <1>2, <3>2, <3>3, UnbudgetedStates
  <2> QED BY <2>1, <2>2
<1> QED BY <1>3, <1>4, <1>5, <1>6, <1>7, <1>8, <1>9, <1>10, <1>11

\* Every step keeps the budget.
LEMMA BudgetStep ==
  ASSUME BudgetInv, NoReenrolment, [Next]_vars
  PROVE  BudgetInv'
<1>1. TypeOK' /\ TypeOK /\ row \in Row /\ Budgeted(row)
  BY TypeStep, PublicationAssumption DEF BudgetInv, TypeOK
<1>2. ASSUME NEW p \in Procs, UserOp(p) \/ RefineRead(p) \/ Heal(p) \/ Step(p) \/ Crash(p)
      PROVE  BudgetInv'
  <2>1. ~GateRead(p) /\ ~Mark(p) /\ ~SavePublished(p) /\ ~Enqueue(p)
    BY DEF BudgetInv, Budgets, GateRead, Mark, SavePublished, Enqueue, at
  <2> QED BY <1>1, <1>2, <2>1, BudgetStarts, BudgetLocals, BudgetWrites DEF Step
<1>3. ASSUME proc' = proc, row'.retry = row.retry,
             row'.ps = row.ps \/ (row.ps = "processing" /\ row'.ps = "pending")
      PROVE  BudgetInv'
  BY <1>1, <1>3 DEF BudgetInv, Budgeted
<1>4. CASE LeaseExpires \/ Reclaim \/ BackoffElapses
  BY <1>1, <1>3, <1>4 DEF LeaseExpires, Reclaim, BackoffElapses, update_fields, Row
<1>5. CASE MatesChange \/ UNCHANGED vars
  BY <1>3, <1>5 DEF MatesChange, vars
<1> QED BY <1>2, <1>4, <1>5 DEF Next

\* The retry counter never passes REFINE_MAX_ATTEMPTS, for any processes, with
\* crashes, overrun leases, reclaims, quarantines and releases in any order, as
\* long as nothing re-enrols the row.
THEOREM RetryBudget ==
  ASSUME NoReenrolment
  PROVE  Spec => []RetryWithinBudget
<1>1. Init => BudgetInv
  <2> SUFFICES ASSUME Init PROVE BudgetInv
    OBVIOUS
  <2>1. \A p \in Procs : Budgets(proc[p])
    BY DEF Init, Idle, Budgets
  <2>2. row.retry = 0
    BY DEF Init, EmptyRow
  <2> QED BY <2>1, <2>2, InitTypes, PublicationAssumption DEF BudgetInv, Budgeted, NoReenrolment
<1>2. BudgetInv /\ [Next]_vars => BudgetInv'
  BY BudgetStep
<1>3. BudgetInv => RetryWithinBudget
  BY DEF BudgetInv, Budgeted, RetryWithinBudget
<1> QED BY <1>1, <1>2, <1>3, PTL DEF Spec

-----------------------------------------------------------------------------
(***************************************************************************)
(* The claim, for any number of processes.  Whole-row saves bring an old   *)
(* pipeline_state back and a release opens a quarantined row; without them *)
(* at most one worker owns the row, and one more for every lease that ran  *)
(* out under its owner.                                                    *)
(***************************************************************************)
ColumnsOnly ==
  /\ IsFiniteSet(Procs)
  /\ Ops \cap {"update", "publish", "promote", "cluster", "release", "sweep"} = {}

\* Control states of the operations that are left out.
Overwriting == {"save", "saveDemoted", "mark", "gate", "savePublished", "clear", "enqueue",
                "clusterSave", "release", "releaseClear", "sweepRelease", "sweepRefuse"}

Owners == {p \in Procs : Owns(p)}

\* A worker may claim the row now, or once the lease is reclaimed.
Free == exists /\ row.ps # "quarantined" /\ (row.ps = "processing" => row.stale)

\* Nobody owns a row that is not inserted yet, and one process inserts it.
Inserting ==
  /\ ~born => ~exists /\ \A p \in Procs : proc[p].pc = "idle"
  /\ \A p \in Procs : proc[p].pc = "saveNew" =>
       /\ ~exists /\ Owners = {}
       /\ \A q \in Procs : proc[q].pc = "saveNew" => q = p

ClaimInv ==
  /\ TypeOK
  /\ \A p \in Procs : proc[p].pc \notin Overwriting
  /\ Inserting
  /\ Cardinality(Owners) <= overruns + (IF Free THEN 0 ELSE 1)

\* The owners are finitely many.
LEMMA OwnersAreFinite ==
  ASSUME ColumnsOnly
  PROVE  IsFiniteSet(Owners) /\ Cardinality(Owners) \in Nat
         /\ IsFiniteSet(Owners') /\ Cardinality(Owners') \in Nat
BY FS_Subset, FS_CardinalityType DEF ColumnsOnly, Owners

\* Moves that bring no insertion.
LEMMA InsertingMoves ==
  ASSUME Inserting, NEW p \in Procs, NEW c, Moved(p, c), c.pc # "saveNew", born',
         (Owners' \subseteq Owners /\ (exists' => exists)) \/ ~(\E q \in Procs \ {p} : proc[q].pc = "saveNew")
  PROVE  Inserting'
BY DEF Inserting, Moved, Owners

\* No new owner, and the row no more free than before.
LEMMA NoNewOwner ==
  ASSUME ColumnsOnly, ClaimInv, TypeOK', NEW p \in Procs, NEW c, Moved(p, c), born' = born, born,
         c.pc \notin Overwriting \cup {"saveNew"},
         c.pc \in {"produce", "noop", "swap", "fail"} => Owns(p),
         overruns' = overruns, Free' => Free, exists' => exists
  PROVE  ClaimInv'
<1>1. Owners' \subseteq Owners
  BY DEF Moved, Owners, Owns
<1>2. Cardinality(Owners') <= Cardinality(Owners)
  BY <1>1, OwnersAreFinite, FS_Subset
<1>3. Inserting'
  BY <1>1, InsertingMoves DEF ClaimInv
<1>4. overruns \in Nat
  BY DEF ClaimInv, TypeOK
<1>5. \A q \in Procs : proc'[q].pc \notin Overwriting
  BY DEF ClaimInv, Moved
<1> QED BY <1>2, <1>3, <1>4, <1>5, OwnersAreFinite DEF ClaimInv

\* An owner is done with the row, whatever it leaves there.
LEMMA OwnerLeaves ==
  ASSUME ColumnsOnly, ClaimInv, TypeOK', NEW p \in Procs, NEW c, Moved(p, c), born' = born, born,
         c.pc \notin Overwriting \cup {"saveNew", "produce", "noop", "swap", "fail"},
         Owns(p), overruns' = overruns, exists' => exists
  PROVE  ClaimInv'
<1>1. Owners' \subseteq Owners \ {p} /\ p \in Owners
  BY DEF Moved, Owners, Owns
<1>2. Cardinality(Owners') <= Cardinality(Owners \ {p}) /\ Cardinality(Owners \ {p}) = Cardinality(Owners) - 1
  BY <1>1, OwnersAreFinite, FS_Subset, FS_RemoveElement
<1>3. Inserting'
  BY <1>1, InsertingMoves DEF ClaimInv
<1>4. overruns \in Nat
  BY DEF ClaimInv, TypeOK
<1>5. \A q \in Procs : proc'[q].pc \notin Overwriting
  BY DEF ClaimInv, Moved
<1>6. Cardinality(Owners) <= overruns + 1
  BY <1>4, OwnersAreFinite DEF ClaimInv
<1>7. Cardinality(Owners') <= overruns' + (IF Free' THEN 0 ELSE 1)
  BY <1>2, <1>4, <1>6, OwnersAreFinite
<1> QED BY <1>3, <1>5, <1>7 DEF ClaimInv

\* An UPDATE that leaves pipeline_state alone, or quarantines the row, frees nothing.
LEMMA UpdateFreesNothing ==
  ASSUME TypeOK, NEW r \in Row, update_fields(r), r.ps \in {row.ps, "quarantined"}
  PROVE  Free' => Free
<1>1. CASE exists
  <2>1. row'.ps = r.ps /\ ~row'.stale
    BY <1>1 DEF update_fields, Row
  <2> QED BY <1>1, <2>1 DEF Free
<1>2. CASE ~exists
  BY <1>2 DEF update_fields, Free
<1> QED BY <1>1, <1>2

\* The control states an operation may go to that neither own nor overwrite.
Harmless == PCs \ (Overwriting \cup {"saveNew", "produce", "noop", "swap", "fail"})

\* Some of those control states.
LEMMA HarmlessStates ==
  {"idle", "autoFilter", "autoFilterSave", "autoReload", "born", "embed", "unembed", "claim",
   "curate", "flip", "reread", "reload", "quarantine", "filterSave", "deleteVec", "drop"}
    \subseteq Harmless
BY DEF Harmless, Overwriting, PCs

\* The starts of operations.
LEMMA ClaimStarts ==
  ASSUME ColumnsOnly, ClaimInv, TypeOK', NEW p \in Procs, UserOp(p) \/ RefineRead(p) \/ Heal(p)
  PROVE  ClaimInv'
<1>1. TypeOK /\ row \in Row /\ overruns \in Nat
  BY DEF ClaimInv, TypeOK
<1>2. ASSUME NEW t \in Texts, NEW s \in FlipTo \cup {None}, Add(p, t, s) PROVE ClaimInv'
  <2>1. PICK snap, text : goto(p, "saveNew", snap, text)
    BY <1>2 DEF Add
  <2>2. PICK c : Moved(p, c) /\ c.pc = "saveNew"
    BY <1>1, <2>1, MovesTo
  <2>3. /\ born' /\ UNCHANGED <<exists, row, overruns>>
        /\ \A q \in Procs : proc[q].pc = "idle"
    BY <1>2 DEF Add, ClaimInv, Inserting
  <2>9. ~exists
    BY <1>2 DEF Add, ClaimInv, Inserting
  <2>4. \A q \in Procs : proc'[q].pc = IF q = p THEN "saveNew" ELSE "idle"
    BY <2>2, <2>3 DEF Moved
  <2>5. Owners = {} /\ Owners' = {}
    BY <2>3, <2>4 DEF Owners, Owns
  <2>6. Inserting'
    BY <2>3, <2>4, <2>5, <2>9 DEF Inserting
  <2>7. \A q \in Procs : proc'[q].pc \notin Overwriting
    BY <2>4 DEF Overwriting
  <2>8. (Free <=> Free') /\ Cardinality(Owners') = Cardinality(Owners)
    BY <2>3, <2>5 DEF Free
  <2> QED BY <2>3, <2>6, <2>7, <2>8 DEF ClaimInv
<1>3. ASSUME NEW t, NEW s, NEW k,
             Update(p, t, s, k) \/ Publish(p) \/ Promote(p) \/ Cluster(p) \/ Sweep(p) \/ Release(p)
      PROVE  FALSE
  BY <1>3 DEF Update, Publish, Promote, Cluster, Sweep, Release, Starts, ColumnsOnly
<1>4. CASE Filter(p) \/ IngestQuarantine(p) \/ Delete(p) \/ RefineRead(p) \/ Heal(p)
  <2>1. PICK pc \in {"filterSave", "born", "deleteVec", "claim", "embed"} :
          \E snap, text : goto(p, pc, snap, text)
    BY <1>4 DEF Filter, IngestQuarantine, Delete, RefineRead, Heal
  <2>2. PICK c : Moved(p, c) /\ c.pc = pc
    BY <1>1, <2>1, MovesTo
  <2>3. UNCHANGED <<exists, row, born, overruns>>
    BY <1>4 DEF Filter, IngestQuarantine, Delete, RefineRead, Heal, Starts, StartsTask
  <2>4. c.pc \in Harmless
    BY <2>1, <2>2, HarmlessStates
  <2>5. CASE born
    BY <2>2, <2>3, <2>4, <2>5, NoNewOwner DEF Harmless, Free
  <2>6. CASE ~born
    <3>1. exists
      BY <1>4 DEF Filter, IngestQuarantine, Delete, RefineRead, Heal, Starts, StartsTask
    <3> QED BY <2>6, <3>1 DEF ClaimInv, Inserting
  <2> QED BY <2>5, <2>6
<1> QED BY <1>2, <1>3, <1>4 DEF UserOp

\* The statements that leave the row alone or drop it, and a crash.
LEMMA ClaimLocals ==
  ASSUME ColumnsOnly, ClaimInv, TypeOK', NEW p \in Procs,
         Unembed(p) \/ DeleteVector(p) \/ Drop(p) \/ Produce(p) \/ Curate(p) \/ Reload(p)
           \/ AutoFilterRead(p) \/ AutoReload(p) \/ Crash(p)
  PROVE  ClaimInv'
<1>1. TypeOK /\ row \in Row
  BY DEF ClaimInv, TypeOK
<1>2. /\ UNCHANGED <<row, overruns>> /\ born' = born /\ born
      /\ exists' = exists \/ exists' = FALSE
  <2>1. proc[p].pc # "idle"
    BY DEF Unembed, DeleteVector, Drop, Produce, Curate, Reload, AutoFilterRead, AutoReload, Crash, at
  <2>2. born
    BY <2>1 DEF ClaimInv, Inserting
  <2> QED BY <2>2 DEF Unembed, DeleteVector, Drop, Produce, Curate, Reload, AutoFilterRead, AutoReload,
                      Crash, OnlyLocal, OnlyFault, OnlyRow
<1>3. (Free' => Free) /\ (exists' => exists)
  BY <1>1, <1>2 DEF Free, ClaimInv, TypeOK
<1>4. ASSUME NEW c, Moved(p, c), c.pc \in Harmless PROVE ClaimInv'
  BY <1>2, <1>3, <1>4, NoNewOwner DEF Harmless
<1>5. CASE Unembed(p) \/ DeleteVector(p) \/ Drop(p) \/ Curate(p) \/ Crash(p)
  <2>1. done(p) \/ \E pc \in {"reread", "drop", "flip", "quarantine"} : then(p, pc)
    BY <1>5 DEF Unembed, DeleteVector, Drop, Curate, Crash
  <2>2. PICK c : Moved(p, c) /\ c.pc \in {"idle", "reread", "drop", "flip", "quarantine"}
    BY <1>1, <2>1, MovesTo
  <2> QED BY <1>4, <2>2, HarmlessStates
<1>6. CASE Reload(p) \/ AutoFilterRead(p) \/ AutoReload(p)
  <2>1. \/ done(p)
        \/ \E pc \in {"embed", "autoFilterSave"} : \E snap, text : goto(p, pc, snap, text)
    BY <1>6 DEF Reload, AutoFilterRead, AutoReload, EmbedIfPublished
  <2>2. PICK c : Moved(p, c) /\ c.pc \in {"idle", "embed", "autoFilterSave"}
    BY <1>1, <2>1, MovesTo
  <2> QED BY <1>4, <2>2, HarmlessStates
<1>7. CASE Produce(p)
  <2>1. \/ \E pc \in {"noop", "fail"} : then(p, pc)
        \/ \E pc \in {"swap", "quarantine"} : \E snap, text : goto(p, pc, snap, text)
    BY <1>7 DEF Produce
  <2>2. PICK c : Moved(p, c) /\ c.pc \in {"noop", "fail", "swap", "quarantine"}
    BY <1>1, <2>1, MovesTo
  <2>3. Owns(p)
    BY <1>7 DEF Produce, at, Owns
  <2>4. c.pc \notin Overwriting \cup {"saveNew"}
    BY <2>2 DEF Overwriting
  <2> QED BY <1>2, <1>3, <2>2, <2>3, <2>4, NoNewOwner
<1> QED BY <1>5, <1>6, <1>7

\* The statements of a cycle: the claim, and the four ways it ends.
LEMMA ClaimCycle ==
  ASSUME ColumnsOnly, ClaimInv, TypeOK', NEW p \in Procs,
         Claim(p) \/ Noop(p) \/ Swap(p) \/ RecordFailure(p)
  PROVE  ClaimInv'
<1>1. TypeOK /\ row \in Row /\ overruns \in Nat /\ overruns' = overruns /\ exists' = exists
  BY DEF ClaimInv, TypeOK, Claim, Noop, Swap, RecordFailure, OnlyRow, OnlyFault, update_fields
<1>2. born /\ born' = born
  <2>1. proc[p].pc # "idle"
    BY DEF Claim, Noop, Swap, RecordFailure, at
  <2> QED BY <2>1 DEF ClaimInv, Inserting, Claim, Noop, Swap, RecordFailure, OnlyRow, OnlyFault
<1>3. CASE Claim(p)
  <2>1. CASE UNCHANGED <<exists, row>> /\ done(p)
    <3>1. PICK c : Moved(p, c) /\ c.pc = "idle"
      BY <1>1, <2>1, MovesTo
    <3>2. c.pc \in Harmless
      BY <3>1, HarmlessStates
    <3> QED BY <1>1, <1>2, <2>1, <3>1, <3>2, NoNewOwner DEF Harmless, Free
  <2>2. CASE /\ exists /\ refine_intake(row) /\ then(p, "produce")
             /\ update_fields([row EXCEPT !.ps = "processing"])
    <3>1. PICK c : Moved(p, c) /\ c.pc = "produce"
      BY <1>1, <2>2, MovesTo
    <3>2. Free /\ ~Free'
      <4>1. row.ps \in {"pending", "failed"}
        BY <2>2 DEF refine_intake
      <4>2. row'.ps = "processing" /\ ~row'.stale
        BY <1>1, <2>2 DEF update_fields, Row
      <4> QED BY <2>2, <4>1, <4>2 DEF Free
    <3>3. Owners' \subseteq Owners \cup {p}
      BY <3>1 DEF Moved, Owners, Owns
    <3>4. /\ Cardinality(Owners') <= Cardinality(Owners \cup {p})
          /\ Cardinality(Owners \cup {p}) <= Cardinality(Owners) + 1
      <4>1. IsFiniteSet(Owners \cup {p})
        BY OwnersAreFinite, FS_AddElement
      <4>2. Cardinality(Owners') <= Cardinality(Owners \cup {p})
        BY <3>3, <4>1, FS_Subset
      <4>3. Cardinality(Owners \cup {p}) <= Cardinality(Owners) + 1
        <5>1. Cardinality(Owners) \in Nat
          BY OwnersAreFinite
        <5>2. Cardinality(Owners \cup {p}) \in {Cardinality(Owners), Cardinality(Owners) + 1}
          BY OwnersAreFinite, FS_AddElement
        <5> QED BY <5>1, <5>2
      <4> QED BY <4>2, <4>3
    <3>5. Cardinality(Owners \cup {p}) \in Nat
      BY OwnersAreFinite, FS_AddElement, FS_CardinalityType
    <3>6. Cardinality(Owners') <= overruns' + (IF Free' THEN 0 ELSE 1)
      BY <1>1, <3>2, <3>4, <3>5, OwnersAreFinite DEF ClaimInv
    <3>7. ~(\E q \in Procs : proc[q].pc = "saveNew")
      BY <2>2 DEF ClaimInv, Inserting
    <3>8. Inserting'
      BY <1>2, <3>1, <3>7, InsertingMoves DEF ClaimInv
    <3>9. \A q \in Procs : proc'[q].pc \notin Overwriting
      BY <3>1 DEF ClaimInv, Moved, Overwriting
    <3> QED BY <3>6, <3>8, <3>9 DEF ClaimInv
  <2> QED BY <1>3, <2>1, <2>2 DEF Claim
<1>4. CASE Noop(p) \/ Swap(p) \/ RecordFailure(p)
  <2>1. Owns(p)
    BY <1>4 DEF Noop, Swap, RecordFailure, at, Owns
  <2>2. CASE done(p) \/ \E snap, text : goto(p, "curate", snap, text)
    <3>1. PICK c : Moved(p, c) /\ c.pc \in {"idle", "curate"}
      BY <1>1, <2>2, MovesTo
    <3>2. c.pc \in Harmless
      BY <3>1, HarmlessStates
    <3> QED BY <1>1, <1>2, <2>1, <3>1, <3>2, OwnerLeaves DEF Harmless
  <2>3. CASE OnlyFault /\ then(p, "fail")
    <3>1. PICK c : Moved(p, c) /\ c.pc = "fail"
      BY <1>1, <2>3, MovesTo
    <3>2. Free' => Free
      BY <2>3 DEF Free, OnlyFault
    <3>3. c.pc \notin Overwriting \cup {"saveNew"}
      BY <3>1 DEF Overwriting
    <3> QED BY <1>1, <1>2, <2>1, <3>1, <3>2, <3>3, NoNewOwner
  <2> QED BY <1>4, <2>2, <2>3 DEF Noop, Swap, RecordFailure
<1> QED BY <1>3, <1>4

\* The other statements that write the row.
LEMMA ClaimWrites ==
  ASSUME ColumnsOnly, ClaimInv, TypeOK', NEW p \in Procs,
         Save(p) \/ Embed(p) \/ Flip(p) \/ QuarantineEntry(p) \/ FilterSave(p)
  PROVE  ClaimInv'
<1>1. /\ TypeOK /\ row \in Row /\ overruns \in Nat /\ overruns' = overruns
      /\ proc[p].snap \in Row /\ proc[p].text \in Text
  BY DEF ClaimInv, TypeOK, Save, Embed, Flip, QuarantineEntry, FilterSave, OnlyRow, OnlyFault
<1>2. born /\ born' = born
  <2>1. proc[p].pc # "idle"
    BY DEF Save, Embed, Flip, QuarantineEntry, FilterSave, at
  <2> QED BY <2>1 DEF ClaimInv, Inserting, Save, Embed, Flip, QuarantineEntry, FilterSave, OnlyRow, OnlyFault
<1>3. CASE Save(p)
  <2>1. proc[p].pc = "saveNew"
    BY <1>3 DEF Save, ClaimInv, Overwriting
  <2>2. Owners = {} /\ \A q \in Procs : proc[q].pc = "saveNew" => q = p
    BY <2>1 DEF ClaimInv, Inserting
  <2>3. \/ done(p) \/ \E pc \in {"autoFilter", "unembed", "embed"} :
                        then(p, pc) \/ \E snap, text : goto(p, pc, snap, text)
    BY <1>3 DEF Save, EmbedIfPublished
  <2>4. PICK c : Moved(p, c) /\ c.pc \in {"idle", "autoFilter", "unembed", "embed"}
    BY <1>1, <2>3, MovesTo
  <2>5. c.pc \in Harmless
    BY <2>4, HarmlessStates
  <2>6. Owners' = {}
    BY <2>2, <2>4 DEF Moved, Owners, Owns
  <2>7. Cardinality(Owners') <= overruns' + (IF Free' THEN 0 ELSE 1)
    BY <1>1, <2>6, FS_EmptySet
  <2>8. Inserting'
    BY <1>2, <2>2, <2>4, <2>5, <2>6, InsertingMoves DEF ClaimInv, Harmless
  <2>9. \A q \in Procs : proc'[q].pc \notin Overwriting
    BY <2>4, <2>5 DEF ClaimInv, Moved, Harmless
  <2> QED BY <2>7, <2>8, <2>9 DEF ClaimInv
<1>4. CASE Embed(p) \/ Flip(p) \/ QuarantineEntry(p) \/ FilterSave(p)
  <2>1. Free' => Free
    <3>1. CASE Embed(p)
      <4>1. CASE update_fields(row)
        BY <1>1, <4>1, UpdateFreesNothing
      <4>2. CASE OnlyFault
        BY <4>2 DEF OnlyFault, Free
      <4> QED BY <3>1, <4>1, <4>2 DEF Embed
    <3>2. CASE Flip(p)
      <4>1. PICK r : r = [row EXCEPT !.status = "published"]
        OBVIOUS
      <4>2. r \in Row /\ r.ps = row.ps /\ update_fields(r)
        BY <1>1, <3>2, <4>1 DEF Row, Status, Flip
      <4> QED BY <1>1, <4>2, UpdateFreesNothing
    <3>3. CASE QuarantineEntry(p)
      <4>1. PICK x \in {"born", "danger"} : update_fields([row EXCEPT !.ps = "quarantined", !.reason = x])
        BY <3>3 DEF QuarantineEntry
      <4>2. PICK r : r = [row EXCEPT !.ps = "quarantined", !.reason = x]
        OBVIOUS
      <4>3. r \in Row /\ r.ps = "quarantined" /\ update_fields(r)
        BY <1>1, <4>1, <4>2 DEF Row, PipelineState
      <4> QED BY <1>1, <4>3, UpdateFreesNothing
    <3>4. CASE FilterSave(p)
      <4>1. PICK r : r = [row EXCEPT !.clean = proc[p].text]
        OBVIOUS
      <4>2. r \in Row /\ r.ps = row.ps /\ update_fields(r)
        BY <1>1, <3>4, <4>1 DEF Row, FilterSave
      <4> QED BY <1>1, <4>2, UpdateFreesNothing
    <3> QED BY <1>4, <3>1, <3>2, <3>3, <3>4
  <2>2. done(p) \/ \E pc \in {"reload", "autoReload", "unembed"} : then(p, pc)
    BY <1>4 DEF Embed, Flip, QuarantineEntry, FilterSave
  <2>3. PICK c : Moved(p, c) /\ c.pc \in {"idle", "reload", "autoReload", "unembed"}
    BY <1>1, <2>2, MovesTo
  <2>4. c.pc \in Harmless
    BY <2>3, HarmlessStates
  <2>5. exists' = exists
    BY <1>4 DEF Embed, Flip, QuarantineEntry, FilterSave, update_fields, OnlyFault
  <2> QED BY <1>1, <1>2, <2>1, <2>3, <2>4, <2>5, NoNewOwner DEF Harmless
<1> QED BY <1>3, <1>4

\* Every step keeps the invariant.
LEMMA ClaimStep ==
  ASSUME ColumnsOnly, ClaimInv, [Next]_vars
  PROVE  ClaimInv'
<1>1. TypeOK' /\ TypeOK /\ row \in Row /\ overruns \in Nat
  BY TypeStep, PublicationAssumption DEF ClaimInv, TypeOK
<1>2. ASSUME NEW p \in Procs, UserOp(p) \/ RefineRead(p) \/ Heal(p) \/ Step(p) \/ Crash(p)
      PROVE  ClaimInv'
  <2>1. ~GateRead(p) /\ ~Mark(p) /\ ~SavePublished(p) /\ ~Enqueue(p) /\ ~ClusterSave(p)
        /\ ~ClearRetry(p) /\ ~SweepWrite(p) /\ ~ReleaseWrite(p)
    BY DEF ClaimInv, Overwriting, GateRead, Mark, SavePublished, Enqueue, ClusterSave, ClearRetry,
           SweepWrite, ReleaseWrite, at
  <2> QED BY <1>1, <1>2, <2>1, ClaimStarts, ClaimLocals, ClaimCycle, ClaimWrites DEF Step
<1>3. ASSUME proc' = proc, born' = born, exists' = exists,
             Cardinality(Owners) <= overruns' + (IF Free' THEN 0 ELSE 1)
      PROVE  ClaimInv'
  <2>1. Owners' = Owners
    BY <1>3 DEF Owners, Owns
  <2>2. Inserting'
    BY <1>3, <2>1 DEF ClaimInv, Inserting
  <2> QED BY <1>1, <1>3, <2>1, <2>2 DEF ClaimInv
<1>4. CASE LeaseExpires
  <2>1. proc' = proc /\ born' = born /\ exists' = exists /\ row.ps = "processing" /\ ~row.stale /\ exists
    BY <1>4 DEF LeaseExpires
  <2>2. CASE \E p \in Procs : Owns(p)
    <3>1. overruns' = overruns + 1
      BY <1>4, <2>2 DEF LeaseExpires
    <3>2. Cardinality(Owners) <= overruns + 1
      BY <1>1, OwnersAreFinite DEF ClaimInv
    <3>3. Cardinality(Owners) <= overruns' + (IF Free' THEN 0 ELSE 1)
      BY <1>1, <3>1, <3>2, OwnersAreFinite
    <3> QED BY <1>3, <2>1, <3>3
  <2>3. CASE ~ \E p \in Procs : Owns(p)
    <3>1. overruns' = overruns /\ Owners = {}
      BY <1>4, <2>3 DEF LeaseExpires, Owners
    <3>2. Cardinality(Owners) <= overruns' + (IF Free' THEN 0 ELSE 1)
      BY <1>1, <3>1, FS_EmptySet
    <3> QED BY <1>3, <2>1, <3>2
  <2> QED BY <2>2, <2>3
<1>5. CASE Reclaim
  <2>1. proc' = proc /\ born' = born /\ exists' = exists /\ overruns' = overruns /\ Free
    BY <1>5 DEF Reclaim, update_fields, OnlyRow, Free
  <2>2. Cardinality(Owners) <= overruns' + (IF Free' THEN 0 ELSE 1)
    BY <1>1, <2>1, OwnersAreFinite DEF ClaimInv
  <2> QED BY <1>3, <2>1, <2>2
<1>6. CASE BackoffElapses \/ MatesChange \/ UNCHANGED vars
  <2>1. proc' = proc /\ born' = born /\ exists' = exists /\ overruns' = overruns
    BY <1>6 DEF BackoffElapses, MatesChange, vars, OnlyRow
  <2>2. row'.ps = row.ps /\ row'.stale = row.stale
    BY <1>1, <1>6 DEF BackoffElapses, MatesChange, vars, Row
  <2>3. Free' <=> Free
    BY <2>1, <2>2 DEF Free
  <2>4. Cardinality(Owners) <= overruns' + (IF Free' THEN 0 ELSE 1)
    BY <2>1, <2>3 DEF ClaimInv
  <2> QED BY <1>3, <2>1, <2>4
<1> QED BY <1>2, <1>4, <1>5, <1>6 DEF Next

\* claim_for_refinement and reclaim_stale_processing give the row to one worker
\* at a time, and to one more for every lease that runs out under its owner, for
\* any number of processes, with crashes, store errors, quarantines, deletes and
\* filters between any two statements.
THEOREM ExclusiveClaim ==
  ASSUME ColumnsOnly
  PROVE  Spec => []ClaimIsExclusive
<1>1. Init => ClaimInv
  <2> SUFFICES ASSUME Init PROVE ClaimInv
    OBVIOUS
  <2>1. \A p \in Procs : proc[p].pc = "idle"
    BY DEF Init, Idle
  <2>2. Owners = {} /\ overruns = 0
    BY <2>1 DEF Owners, Owns, Init
  <2>3. Cardinality(Owners) <= overruns + (IF Free THEN 0 ELSE 1)
    BY <2>2, FS_EmptySet
  <2>4. Inserting
    BY <2>1 DEF Inserting, Init
  <2> QED BY <2>1, <2>3, <2>4, InitTypes DEF ClaimInv, Overwriting
<1>2. ClaimInv /\ [Next]_vars => ClaimInv'
  BY ClaimStep
<1>3. ClaimInv => ClaimIsExclusive
  <2> SUFFICES ASSUME ClaimInv PROVE ClaimIsExclusive
    OBVIOUS
  <2>1. overruns \in Nat /\ Cardinality(Owners) <= overruns + 1
    BY OwnersAreFinite DEF ClaimInv, TypeOK
  <2> QED BY <2>1, OwnersAreFinite DEF ClaimIsExclusive, Owners
<1> QED BY <1>1, <1>2, <1>3, PTL DEF Spec

-----------------------------------------------------------------------------
(***************************************************************************)
(* What issuance serves, without an exception for quarantined rows, when   *)
(* operations do not race: under either policy, as long as nothing takes a *)
(* row out of quarantine and the context filter does not rebuild the       *)
(* served text after its gate.                                             *)
(***************************************************************************)
Checked == ~AutoFilter /\ Ops \cap {"release", "sweep", "filter"} = {}

Shown(r) == r.status = "published" /\ ~is_quarantined(r) => IsClean(effective_content(r))

\* Control states of the operations that are left out.
LeftOut == {"autoFilter", "autoFilterSave", "autoReload", "filterSave", "release",
            "releaseClear", "sweepRelease", "sweepRefuse"}

\* The row is shown by right, and so is what the process at c will write.
Shows(ex, r, c) ==
  /\ c.pc \notin LeftOut
  /\ ex => Shown(r)
  /\ c.pc \in Saving \cup {"saveNew"} => Shown(c.snap)
  /\ c.pc = "swap" => IsClean(c.text)
  /\ c.pc = "flip" => IsClean(effective_content(r))

ShownInv(p) == SoloInv(p) /\ Shows(exists, row, proc[p])

\* Control states that promise nothing about a text.
Plain == PCs \ (LeftOut \cup Saving \cup {"saveNew", "swap", "flip"})

\* Some of those control states.
LEMMA PlainStates ==
  {"idle", "born", "embed", "unembed", "claim", "produce", "noop", "fail", "curate", "reread",
   "reload", "quarantine", "gate", "clear", "enqueue", "deleteVec", "drop"} \subseteq Plain
BY DEF Plain, PCs, LeftOut, Saving

\* A process that promises nothing.
LEMMA ShowsPlain ==
  ASSUME NEW ex, NEW r, NEW c, c.pc \in Plain, ex => Shown(r)
  PROVE  Shows(ex, r, c)
BY DEF Shows, Plain

\* An UPDATE that changes neither texts nor status and opens no quarantine.
LEMMA UpdateShown ==
  ASSUME NEW r \in Row, update_fields(r), exists => Shown(row),
         SameText(r, row), r.status = row.status, is_quarantined(row) => is_quarantined(r)
  PROVE  exists' => Shown(row')
<1>1. CASE exists
  <2>1. /\ row'.ps = r.ps /\ row'.status = r.status /\ row'.content = r.content
        /\ row'.clean = r.clean
    BY <1>1 DEF update_fields, Row
  <2> QED BY <1>1, <2>1 DEF Shown, SameText, effective_content, is_quarantined
<1>2. CASE ~exists
  BY <1>2 DEF update_fields
<1> QED BY <1>1, <1>2

\* What update writes is shown by right.
LEMMA UpdateShows ==
  ASSUME TypeOK, PublicationAssumption, Shown(row),
         NEW t \in Texts \cup {None}, NEW s \in FlipTo \cup {None}, NEW k \in BOOLEAN,
         NEW ok \in BOOLEAN,
         UpdateIsGated(t, s, k) =>
           (ok => IsClean(effective_content(
                    [Edited(t, s, k) EXCEPT !.clean = IF t # None THEN NoText ELSE @]))),
         ~UpdateIsGated(t, s, k) => ok
  PROVE  Shown(AfterUpdate(t, s, k, ok))
<1> DEFINE e == Edited(t, s, k)
           r == AfterUpdate(t, s, k, ok)
<1>1. /\ e.status = IF s # None THEN s ELSE row.status
      /\ e.ps = row.ps /\ e.clean = row.clean
      /\ e.content = IF t # None THEN Written(t) ELSE row.content
  BY UpdateShape
<1>2. /\ r.status = IF ok THEN e.status ELSE IF Demotes(t, ok) THEN "raw" ELSE row.status
      /\ r.content = e.content
      /\ r.clean = IF t # None THEN NoText ELSE e.clean
      /\ e.ps = "quarantined" => r.ps = "quarantined"
  BY UpdateShape
<1>3. effective_content([e EXCEPT !.clean = IF t # None THEN NoText ELSE @])
        = effective_content(r)
  BY UpdateShape
<1> HIDE DEF e, r
<1> SUFFICES ASSUME r.status = "published", ~is_quarantined(r)
             PROVE  IsClean(effective_content(r))
  BY DEF Shown, r
<1>4. CASE UpdateIsGated(t, s, k) /\ ok
  BY <1>3, <1>4 DEF e
<1>5. CASE UpdateIsGated(t, s, k) /\ ~ok
  <2>1. row.status = "published" /\ t = None
    BY <1>2, <1>5 DEF Demotes
  <2> QED BY <1>5, <2>1, <1>1, <1>2 DEF UpdateIsGated
<1>6. CASE ~UpdateIsGated(t, s, k)
  <2>1. r.status = e.status
    BY <1>2, <1>6
  <2>2. t = None
    BY <1>1, <1>2, <1>6, <2>1 DEF UpdateIsGated, is_context_admissible, is_quarantined, e
  <2>3. row.status = "published" /\ ~is_quarantined(row)
    BY <1>1, <1>2, <1>6, <2>1 DEF UpdateIsGated, is_quarantined
  <2>4. r.content = row.content /\ r.clean = row.clean
    BY <1>1, <1>2, <2>2
  <2> QED BY <2>3, <2>4 DEF Shown, effective_content
<1> QED BY <1>4, <1>5, <1>6

\* publish_memory writes the copy its gate admitted.
LEMMA DecisionShows ==
  ASSUME NEW p, Alone(p), TypeOK, exists => Shown(row), PublishDecision(p), UNCHANGED <<exists, row>>
  PROVE  Shows(exists', row', proc'[p])
<1>1. row \in Row
  BY DEF TypeOK
<1>2. CASE done(p)
  <2>1. PICK c : proc'[p] = c /\ c.pc = "idle"
    BY <1>2, LandsAt
  <2> QED BY <2>1, PlainStates, ShowsPlain
<1>3. CASE /\ goto(p, "savePublished", [row EXCEPT !.status = "published", !.stale = FALSE], NoText)
           /\ IsClean(effective_content(row))
  <2>1. PICK r : r = [row EXCEPT !.status = "published", !.stale = FALSE]
    OBVIOUS
  <2>2. PICK c : proc'[p] = c /\ c.pc = "savePublished" /\ c.snap = r
    BY <1>3, <2>1, LandsAt
  <2>3. r.content = row.content /\ r.clean = row.clean
    BY <1>1, <2>1 DEF Row
  <2>4. Shown(r)
    BY <1>3, <2>3 DEF Shown, effective_content
  <2> QED BY <2>2, <2>4 DEF Shows, LeftOut
<1> QED BY <1>2, <1>3 DEF PublishDecision, Verdicts

\* The starts of the user operations.
LEMMA ShownUserOps ==
  ASSUME NEW p, Alone(p), Checked, ShownInv(p), UserOp(p)
  PROVE  Shows(exists', row', proc'[p])
<1>1. TypeOK /\ row \in Row /\ (exists => Shown(row))
  BY DEF ShownInv, SoloInv, TypeOK, Shows
<1>2. ASSUME NEW t \in Texts, NEW s \in FlipTo \cup {None}, Add(p, t, s)
      PROVE  Shows(exists', row', proc'[p])
  <2>1. PICK ok \in BOOLEAN : /\ goto(p, "saveNew", InitialRow(t, s, ok), Written(t))
                              /\ ok => IsClean(Written(t))
    BY <1>2 DEF Add, Verdicts
  <2>2. PICK r : r = InitialRow(t, s, ok)
    OBVIOUS
  <2>3. PICK c : proc'[p] = c /\ c.pc = "saveNew" /\ c.snap = r
    BY <1>1, <2>1, <2>2, LandsAt
  <2>4. r.content = Written(t) /\ r.clean = NoText /\ (r.status = "published" => ok)
    BY <2>2 DEF InitialRow, EmptyRow
  <2>5. Shown(r)
    BY <2>1, <2>4 DEF Shown, effective_content
  <2>6. UNCHANGED <<exists, row>>
    BY <1>2 DEF Add
  <2> QED BY <1>1, <2>3, <2>5, <2>6 DEF Shows, LeftOut
<1>3. ASSUME NEW t \in Texts \cup {None}, NEW s \in FlipTo \cup {None}, NEW k \in BOOLEAN,
             Update(p, t, s, k)
      PROVE  Shows(exists', row', proc'[p])
  <2>1. PICK ok \in BOOLEAN :
          /\ goto(p, IF Demotes(t, ok) THEN "saveDemoted" ELSE "save",
                  AfterUpdate(t, s, k, ok), IF t # None THEN Written(t) ELSE NoText)
          /\ UpdateIsGated(t, s, k) =>
               (ok => IsClean(effective_content(
                        [Edited(t, s, k) EXCEPT !.clean = IF t # None THEN NoText ELSE @])))
          /\ ~UpdateIsGated(t, s, k) => ok
    BY <1>3 DEF Update, Verdicts
  <2>2. exists /\ UNCHANGED <<exists, row>>
    BY <1>3 DEF Update, Starts
  <2>3. Shown(AfterUpdate(t, s, k, ok))
    BY <1>1, <2>1, <2>2, UpdateShows, PublicationAssumption
  <2>4. PICK c : /\ proc'[p] = c /\ c.pc \in {"save", "saveDemoted"}
                 /\ c.snap = AfterUpdate(t, s, k, ok)
    BY <1>1, <2>1, LandsAt
  <2> QED BY <1>1, <2>2, <2>3, <2>4 DEF Shows, LeftOut
<1>4. CASE Publish(p)
  BY <1>1, <1>4, DecisionShows DEF Publish, Starts
<1>5. CASE Promote(p) \/ Cluster(p)
  <2>1. UNCHANGED <<exists, row>>
    BY <1>5 DEF Promote, Cluster, Starts
  <2>2. CASE goto(p, "gate", EmptyRow, NoText)
    <3>1. PICK c : proc'[p] = c /\ c.pc = "gate"
      BY <1>1, <2>2, LandsAt
    <3> QED BY <1>1, <2>1, <3>1, PlainStates, ShowsPlain
  <2>3. CASE \E pc \in {"mark", "clusterSave"} : \E r :
               goto(p, pc, r, NoText) /\ r.status # "published"
    <3>1. PICK c : /\ proc'[p] = c /\ c.pc \in {"mark", "clusterSave"}
                   /\ c.snap.status # "published"
      BY <1>1, <2>3, LandsAt
    <3> QED BY <1>1, <2>1, <3>1 DEF Shows, LeftOut, Shown
  <2>4. CASE Promote(p)
    <3>1. PICK r : r = [row EXCEPT !.status = "processed", !.stale = FALSE]
      OBVIOUS
    <3>2. r.status = "processed"
      BY <1>1, <3>1 DEF Row
    <3> QED BY <2>2, <2>3, <2>4, <3>1, <3>2 DEF Promote
  <2>5. CASE Cluster(p)
    <3>1. PICK r : r = [row EXCEPT !.status = "processing", !.clustered = TRUE]
      OBVIOUS
    <3>2. r.status = "processing"
      BY <1>1, <3>1 DEF Row
    <3> QED BY <2>3, <2>5, <3>1, <3>2 DEF Cluster
  <2> QED BY <1>5, <2>4, <2>5
<1>6. CASE IngestQuarantine(p) \/ Delete(p)
  <2>1. PICK c : proc'[p] = c /\ c.pc \in {"born", "deleteVec"}
    BY <1>1, <1>6, LandsAt DEF IngestQuarantine, Delete
  <2>2. UNCHANGED <<exists, row>>
    BY <1>6 DEF IngestQuarantine, Delete, Starts
  <2> QED BY <1>1, <2>1, <2>2, PlainStates, ShowsPlain
<1>7. ~Filter(p) /\ ~Sweep(p) /\ ~Release(p)
  BY DEF Filter, Sweep, Release, Starts, Checked
<1> QED BY <1>2, <1>3, <1>4, <1>5, <1>6, <1>7 DEF UserOp

\* The statements that leave the row alone, and what comes from outside.
LEMMA ShownLocals ==
  ASSUME NEW p, Alone(p), Checked, ShownInv(p),
         \/ Unembed(p) \/ DeleteVector(p) \/ Drop(p) \/ Produce(p) \/ Curate(p) \/ Reload(p)
         \/ GateRead(p) \/ RefineRead(p) \/ Heal(p) \/ Crash(p)
  PROVE  Shows(exists', row', proc'[p])
<1>1. TypeOK /\ row \in Row /\ (exists => Shown(row))
  BY DEF ShownInv, SoloInv, TypeOK, Shows
<1>2. row' = row /\ (exists' => exists)
  BY DEF Unembed, DeleteVector, Drop, Produce, Curate, Reload, GateRead, RefineRead, Heal, Crash,
         OnlyLocal, OnlyFault, StartsTask
<1>3. ASSUME NEW c, proc'[p] = c, c.pc \in Plain PROVE Shows(exists', row', proc'[p])
  BY <1>1, <1>2, <1>3, ShowsPlain
<1>4. CASE Unembed(p) \/ DeleteVector(p) \/ Drop(p) \/ Reload(p) \/ RefineRead(p) \/ Heal(p) \/ Crash(p)
  <2>1. \/ done(p) \/ \E pc \in {"reread", "drop"} : then(p, pc)
        \/ \E pc \in {"embed", "claim"} : \E snap, text : goto(p, pc, snap, text)
    BY <1>4 DEF Unembed, DeleteVector, Drop, Reload, RefineRead, Heal, Crash
  <2>2. PICK c : proc'[p] = c /\ c.pc \in {"idle", "reread", "drop", "embed", "claim"}
    BY <1>1, <2>1, LandsAt
  <2> QED BY <1>3, <2>2, PlainStates
<1>5. CASE Produce(p)
  <2>1. \/ \E pc \in {"noop", "fail"} : then(p, pc)
        \/ goto(p, "quarantine", EmptyRow, NoText)
        \/ IsClean(Artifact(p)) /\ goto(p, "swap", proc[p].snap, Artifact(p))
    BY <1>5 DEF Produce, Verdicts
  <2>2. CASE \/ \E pc \in {"noop", "fail"} : then(p, pc)
             \/ goto(p, "quarantine", EmptyRow, NoText)
    <3>1. PICK c : proc'[p] = c /\ c.pc \in {"noop", "fail", "quarantine"}
      BY <1>1, <2>2, LandsAt
    <3> QED BY <1>3, <3>1, PlainStates
  <2>3. CASE IsClean(Artifact(p)) /\ goto(p, "swap", proc[p].snap, Artifact(p))
    <3>1. PICK art : art = Artifact(p)
      OBVIOUS
    <3>2. PICK c : proc'[p] = c /\ c.pc = "swap" /\ c.text = art
      BY <1>1, <2>3, <3>1, LandsAt
    <3>3. IsClean(art)
      BY <2>3, <3>1
    <3> QED BY <1>1, <1>2, <3>2, <3>3 DEF Shows, LeftOut, Saving
  <2> QED BY <2>1, <2>2, <2>3
<1>6. CASE Curate(p)
  <2>1. \/ done(p) \/ \E pc \in {"quarantine", "reread"} : then(p, pc)
        \/ IsClean(effective_content(row)) /\ then(p, "flip")
    BY <1>6 DEF Curate, Verdicts
  <2>2. CASE done(p) \/ \E pc \in {"quarantine", "reread"} : then(p, pc)
    <3>1. PICK c : proc'[p] = c /\ c.pc \in {"idle", "quarantine", "reread"}
      BY <1>1, <2>2, LandsAt
    <3> QED BY <1>3, <3>1, PlainStates
  <2>3. CASE IsClean(effective_content(row)) /\ then(p, "flip")
    <3>1. PICK c : proc'[p] = c /\ c.pc = "flip"
      BY <1>1, <2>3, LandsAt
    <3> QED BY <1>1, <1>2, <2>3, <3>1 DEF Shows, LeftOut, Saving
  <2> QED BY <2>1, <2>2, <2>3
<1>7. CASE GateRead(p)
  <2>1. UNCHANGED <<exists, row>>
    BY <1>7 DEF GateRead, OnlyLocal
  <2>2. CASE PublishDecision(p)
    BY <1>1, <2>1, <2>2, DecisionShows
  <2>3. CASE done(p)
    <3>1. PICK c : proc'[p] = c /\ c.pc = "idle"
      BY <1>1, <2>3, LandsAt
    <3> QED BY <1>3, <3>1, PlainStates
  <2> QED BY <1>7, <2>2, <2>3 DEF GateRead
<1> QED BY <1>4, <1>5, <1>6, <1>7

\* The statements that write the row.
LEMMA ShownWrites ==
  ASSUME NEW p, Alone(p), Checked, ShownInv(p), Step(p),
         ~(\/ Unembed(p) \/ DeleteVector(p) \/ Drop(p) \/ Produce(p) \/ Curate(p) \/ Reload(p)
           \/ GateRead(p))
  PROVE  Shows(exists', row', proc'[p])
<1>1. /\ TypeOK /\ row \in Row /\ (exists => Shown(row)) /\ SoloInv(p)
      /\ proc[p] \in Control /\ proc[p].snap \in Row /\ proc[p].text \in Text
      /\ proc[p].snap.retry \in Nat
  BY Landing DEF ShownInv, SoloInv, TypeOK, Shows, Control, Row
<1>2. /\ proc[p].pc \notin LeftOut
      /\ proc[p].pc \in Saving \cup {"saveNew"} => Shown(proc[p].snap)
      /\ proc[p].pc = "swap" => IsClean(proc[p].text)
      /\ proc[p].pc = "flip" => IsClean(effective_content(row))
  BY DEF ShownInv, Shows
<1>3. ASSUME NEW r \in Row, update_fields(r), SameText(r, row), r.status = row.status,
             is_quarantined(row) => is_quarantined(r), NEW c, proc'[p] = c, c.pc \in Plain
      PROVE  Shows(exists', row', proc'[p])
  <2>1. exists' => Shown(row')
    BY <1>1, <1>3, UpdateShown
  <2> QED BY <1>3, <2>1, ShowsPlain
<1>4. CASE Save(p) \/ Mark(p) \/ SavePublished(p) \/ ClusterSave(p)
  <2>1. row' = proc[p].snap /\ proc[p].pc \in Saving \cup {"saveNew"}
    BY <1>4 DEF Save, Mark, SavePublished, ClusterSave, save, at, Saving
  <2>2. Shown(row')
    BY <1>2, <2>1
  <2>3. \/ done(p) \/ \E pc \in {"enqueue", "clear", "embed"} : then(p, pc)
        \/ \E pc \in {"unembed", "embed", "gate"} : \E snap, text : goto(p, pc, snap, text)
    BY <1>4 DEF Save, Mark, SavePublished, ClusterSave, EmbedIfPublished, Checked
  <2>4. PICK c : proc'[p] = c /\ c.pc \in {"idle", "enqueue", "clear", "embed", "unembed", "gate"}
    BY <1>1, <2>3, LandsAt
  <2> QED BY <2>2, <2>4, PlainStates, ShowsPlain
<1>5. CASE Embed(p)
  <2>1. PICK c : proc'[p] = c /\ c.pc = "idle"
    BY <1>1, <1>5, LandsAt DEF Embed
  <2>2. CASE OnlyFault
    BY <1>1, <2>1, <2>2, PlainStates, ShowsPlain DEF OnlyFault
  <2>3. CASE update_fields(row)
    BY <1>1, <1>3, <2>1, <2>3, PlainStates DEF SameText
  <2> QED BY <1>5, <2>2, <2>3 DEF Embed
<1>6. CASE Claim(p)
  <2>1. PICK c : proc'[p] = c /\ c.pc \in {"idle", "produce"}
    BY <1>1, <1>6, LandsAt DEF Claim
  <2>2. CASE UNCHANGED <<exists, row>>
    BY <1>1, <2>1, <2>2, PlainStates, ShowsPlain
  <2>3. CASE refine_intake(row) /\ update_fields([row EXCEPT !.ps = "processing"])
    <3>1. PICK r : r = [row EXCEPT !.ps = "processing"]
      OBVIOUS
    <3>2. r \in Row /\ SameText(r, row) /\ r.status = row.status
      BY <1>1, <3>1 DEF Row, SameText, PipelineState
    <3>3. ~is_quarantined(row)
      BY <2>3 DEF refine_intake, is_quarantined
    <3>4. c.pc \in Plain
      BY <2>1, PlainStates
    <3> QED BY <1>3, <2>1, <2>3, <3>1, <3>2, <3>3, <3>4
  <2> QED BY <1>6, <2>2, <2>3 DEF Claim
<1>7. CASE Noop(p) \/ Enqueue(p)
  <2>1. PICK x \in {"refined", "pending"} : update_fields([row EXCEPT !.ps = x])
    BY <1>7 DEF Noop, Enqueue
  <2>2. PICK r : r = [row EXCEPT !.ps = x]
    OBVIOUS
  <2>3. r \in Row /\ SameText(r, row) /\ r.status = row.status
    BY <1>1, <2>2 DEF Row, SameText, PipelineState
  <2>4. ~is_quarantined(row)
    BY <1>1, <1>7, PublicationAssumption
       DEF SoloInv, Staged, Noop, Enqueue, at, is_quarantined, PipelineState
  <2>5. PICK c : proc'[p] = c /\ c.pc \in {"curate", "embed"}
    BY <1>1, <1>7, LandsAt DEF Noop, Enqueue
  <2>6. c.pc \in Plain
    BY <2>5, PlainStates
  <2> QED BY <1>3, <2>1, <2>2, <2>3, <2>4, <2>5, <2>6
<1>8. CASE RecordFailure(p)
  <2>1. PICK n, w : n = proc[p].snap.retry + 1 /\ w = (n < MaxAttempts)
    OBVIOUS
  <2>2. n \in Nat /\ w \in BOOLEAN
    BY <1>1, <2>1
  <2>3. PICK r : r = [row EXCEPT !.ps = "failed", !.retry = n, !.waiting = w]
    OBVIOUS
  <2>4. r \in Row /\ SameText(r, row) /\ r.status = row.status
    BY <1>1, <2>2, <2>3 DEF Row, SameText, PipelineState
  <2>5. ~is_quarantined(row) /\ update_fields(r)
    BY <1>1, <1>8, <2>1, <2>3 DEF SoloInv, Staged, RecordFailure, at, is_quarantined
  <2>6. PICK c : proc'[p] = c /\ c.pc = "idle"
    BY <1>1, <1>8, LandsAt DEF RecordFailure
  <2> QED BY <1>3, <2>4, <2>5, <2>6, PlainStates
<1>9. CASE QuarantineEntry(p)
  <2>1. PICK x \in {"born", "danger"} : update_fields([row EXCEPT !.ps = "quarantined", !.reason = x])
    BY <1>9 DEF QuarantineEntry
  <2>2. PICK r : r = [row EXCEPT !.ps = "quarantined", !.reason = x]
    OBVIOUS
  <2>3. r \in Row /\ SameText(r, row) /\ r.status = row.status /\ is_quarantined(r)
    BY <1>1, <2>2 DEF Row, SameText, PipelineState, is_quarantined
  <2>4. PICK c : proc'[p] = c /\ c.pc \in {"unembed", "idle"}
    BY <1>1, <1>9, LandsAt DEF QuarantineEntry
  <2>5. c.pc \in Plain
    BY <2>4, PlainStates
  <2> QED BY <1>3, <2>1, <2>2, <2>3, <2>4, <2>5
<1>10. CASE ClearRetry(p)
  <2>1. PICK r : r = [row EXCEPT !.retry = 0, !.waiting = FALSE]
    OBVIOUS
  <2>2. /\ r \in Row /\ SameText(r, row) /\ r.status = row.status
        /\ is_quarantined(row) => is_quarantined(r)
    BY <1>1, <2>1 DEF Row, SameText, is_quarantined
  <2>3. update_fields(r)
    BY <1>10, <2>1 DEF ClearRetry
  <2>4. PICK c : proc'[p] = c /\ c.pc \in {"enqueue", "idle"}
    BY <1>1, <1>10, LandsAt DEF ClearRetry
  <2>5. c.pc \in Plain
    BY <2>4, PlainStates
  <2> QED BY <1>3, <2>2, <2>3, <2>4, <2>5
<1>11. CASE Swap(p)
  <2>1. PICK snap, art : snap = proc[p].snap /\ art = proc[p].text
    OBVIOUS
  <2>2. IsClean(art) /\ row.ps = "processing"
    BY <1>1, <1>2, <1>11, <2>1 DEF Swap, at, SoloInv, Staged
  <2>3. CASE OnlyFault /\ then(p, "fail")
    <3>1. PICK c : proc'[p] = c /\ c.pc = "fail"
      BY <1>1, <2>3, LandsAt
    <3> QED BY <1>1, <2>3, <3>1, PlainStates, ShowsPlain DEF OnlyFault
  <2>4. CASE update_fields(Swapped(snap, art)) /\ goto(p, "curate", EmptyRow, art)
    <3>1. PICK c : proc'[p] = c /\ c.pc = "curate"
      BY <1>1, <2>4, LandsAt
    <3>2. CASE snap.swapKey = art
      <4>1. PICK r : r = [row EXCEPT !.ps = "refined"]
        OBVIOUS
      <4>2. r \in Row /\ SameText(r, row) /\ r.status = row.status /\ update_fields(r)
        BY <1>1, <2>4, <3>2, <4>1 DEF Row, SameText, PipelineState, Swapped
      <4> QED BY <1>3, <2>2, <3>1, <4>2, PlainStates DEF is_quarantined
    <3>3. CASE snap.swapKey # art
      <4>1. PICK src, n : /\ src = IF snap.raw = NoText THEN effective_content(snap) ELSE row.raw
                          /\ n = IF art # effective_content(snap) THEN snap.marker + 1 ELSE row.marker
        OBVIOUS
      <4>2. PICK r : r = [row EXCEPT !.content = art, !.clean = NoText, !.ps = "refined",
                                     !.swapKey = art, !.raw = src, !.marker = n]
        OBVIOUS
      <4>3. update_fields(r)
        BY <2>4, <3>3, <4>1, <4>2 DEF Swapped
      <4>4. exists' => row'.content = art /\ row'.clean = NoText
        BY <1>1, <4>2, <4>3 DEF update_fields, Row
      <4>5. exists' => Shown(row')
        BY <2>2, <4>4 DEF Shown, effective_content
      <4> QED BY <3>1, <4>5, PlainStates, ShowsPlain
    <3> QED BY <3>2, <3>3
  <2> QED BY <1>11, <2>1, <2>3, <2>4 DEF Swap
<1>12. CASE Flip(p)
  <2>1. PICK c : proc'[p] = c /\ c.pc = "reload"
    BY <1>1, <1>12, LandsAt DEF Flip
  <2>2. exists' => row'.content = row.content /\ row'.clean = row.clean
    BY <1>1, <1>12 DEF Flip, update_fields, Row
  <2>3. exists' => Shown(row')
    BY <1>2, <1>12, <2>2 DEF Shown, effective_content, Flip, at
  <2> QED BY <2>1, <2>3, PlainStates, ShowsPlain
<1>13. ~FilterSave(p) /\ ~AutoFilterRead(p) /\ ~AutoReload(p) /\ ~SweepWrite(p) /\ ~ReleaseWrite(p)
  BY <1>2 DEF FilterSave, AutoFilterRead, AutoReload, SweepWrite, ReleaseWrite, at, LeftOut
<1> QED BY <1>4, <1>5, <1>6, <1>7, <1>8, <1>9, <1>10, <1>11, <1>12, <1>13 DEF Step

\* The steps of the environment.
LEMMA ShownOutside ==
  ASSUME NEW p, Alone(p), ShownInv(p),
         LeaseExpires \/ Reclaim \/ BackoffElapses \/ MatesChange \/ UNCHANGED vars
  PROVE  Shows(exists', row', proc'[p])
<1>1. row \in Row
  BY DEF ShownInv, SoloInv, TypeOK
<1>2. proc' = proc /\ exists' = exists
  BY DEF LeaseExpires, Reclaim, BackoffElapses, MatesChange, vars, update_fields
<1>3. /\ row'.status = row.status /\ row'.content = row.content /\ row'.clean = row.clean
      /\ is_quarantined(row) => is_quarantined(row')
  BY <1>1 DEF LeaseExpires, Reclaim, BackoffElapses, MatesChange, vars, update_fields, Row,
              is_quarantined
<1>4. effective_content(row') = effective_content(row)
  BY <1>3 DEF effective_content
<1>5. Shown(row) => Shown(row')
  BY <1>3, <1>4 DEF Shown
<1> QED BY <1>2, <1>4, <1>5 DEF ShownInv, Shows

\* Under either visibility policy, with crashes, store errors and reclaims
\* between any two statements of operations that do not race: the text of a row
\* that is published and not quarantined has passed the danger gate.
THEOREM SerialGate ==
  ASSUME NEW CONSTANT p, Alone(p), Checked
  PROVE  Spec => []VisibleIsGated
<1>1. Init => ShownInv(p)
  <2> SUFFICES ASSUME Init PROVE ShownInv(p)
    OBVIOUS
  <2>1. proc[p] = Idle /\ ~exists
    BY DEF Init, Alone
  <2> QED BY <2>1, SoloInit DEF ShownInv, Shows, Idle, LeftOut, Saving
<1>2. ShownInv(p) /\ [Next]_vars => ShownInv(p)'
  <2> SUFFICES ASSUME ShownInv(p), [Next]_vars PROVE ShownInv(p)'
    OBVIOUS
  <2>1. SoloInv(p)'
    BY SoloNext DEF ShownInv
  <2>2. \/ UserOp(p) \/ RefineRead(p) \/ Heal(p) \/ Step(p) \/ Crash(p)
        \/ LeaseExpires \/ Reclaim \/ BackoffElapses \/ MatesChange \/ UNCHANGED vars
    BY DEF Next, Alone
  <2>3. Shows(exists', row', proc'[p])
    BY <2>2, ShownUserOps, ShownLocals, ShownWrites, ShownOutside
  <2> QED BY <2>1, <2>3 DEF ShownInv
<1>3. ShownInv(p) => VisibleIsGated
  BY DEF ShownInv, Shows, Shown, VisibleIsGated
<1> QED BY <1>1, <1>2, <1>3, PTL DEF Spec
=============================================================================
