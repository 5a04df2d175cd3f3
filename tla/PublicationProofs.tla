------------------------- MODULE PublicationProofs -------------------------
(***************************************************************************)
(* Proofs about Publication: type correctness, and what operations keep    *)
(* that do not race.                                                       *)
(***************************************************************************)
EXTENDS Publication, TLAPS

Control == [pc : PCs, snap : Row, text : Text]

\* The constructors of texts yield texts.
LEMMA TextTypes ==
  /\ NoText \in Text
  /\ \A t \in Texts : Written(t) \in Text
  /\ \A t \in Texts \cup {None}, c \in Contexts \cup {None} : Digest(t, c) \in Text
  /\ \A x \in Text : Filtered(x) \in Text
BY DEF NoText, Written, Digest, Filtered, Text

\* The empty row is a row, and what a row serves is a text.
LEMMA RowTypes ==
  /\ EmptyRow \in Row
  /\ \A r \in Row : effective_content(r) \in Text
BY TextTypes DEF EmptyRow, Row, effective_content, Status, PipelineState

\* goto, then and done keep the processes well typed.
LEMMA ControlTypes ==
  ASSUME TypeOK, NEW p \in Procs
  PROVE  /\ proc[p] \in Control
         /\ \A pc \in PCs : then(p, pc) => proc' \in [Procs -> Control]
         /\ \A pc \in PCs, snap \in Row, text \in Text :
              goto(p, pc, snap, text) => proc' \in [Procs -> Control]
         /\ done(p) => proc' \in [Procs -> Control]
<1>1. proc \in [Procs -> Control]
  BY DEF TypeOK, Control
<1>2. Idle \in Control
  BY RowTypes, TextTypes DEF Idle, Control, PCs
<1>3. \A pc \in PCs : [proc[p] EXCEPT !.pc = pc] \in Control
  BY <1>1 DEF Control
<1>4. \A pc \in PCs, snap \in Row, text \in Text :
        [pc |-> pc, snap |-> snap, text |-> text] \in Control
  BY DEF Control
<1>5. \A c \in Control : [proc EXCEPT ![p] = c] \in [Procs -> Control]
  BY <1>1
<1>6. ASSUME NEW pc \in PCs, then(p, pc) PROVE proc' \in [Procs -> Control]
  <2>1. proc' = [proc EXCEPT ![p] = [proc[p] EXCEPT !.pc = pc]]
    BY <1>6 DEF then
  <2> QED BY <2>1, <1>3, <1>5
<1>7. ASSUME NEW pc \in PCs, NEW snap \in Row, NEW text \in Text,
             goto(p, pc, snap, text)
      PROVE  proc' \in [Procs -> Control]
  BY <1>7, <1>4, <1>5 DEF goto
<1>8. done(p) => proc' \in [Procs -> Control]
  BY <1>2, <1>5 DEF done
<1> QED BY <1>1, <1>6, <1>7, <1>8

\* An UPDATE of columns (update_fields) keeps the row well typed.
LEMMA UpdateTypes ==
  ASSUME TypeOK, NEW r \in Row, update_fields(r)
  PROVE  row' \in Row /\ exists' \in BOOLEAN
BY DEF TypeOK, update_fields, Row

-----------------------------------------------------------------------------
(***************************************************************************)
(* Frames: what is left to show of a step that keeps the other variables.  *)
(***************************************************************************)
LEMMA FrameTypes ==
  ASSUME TypeOK, proc' \in [Procs -> Control]
  PROVE  /\ OnlyRow /\ exists' \in BOOLEAN /\ row' \in Row => TypeOK'
         /\ OnlyLocal => TypeOK'
         /\ OnlyFault => TypeOK'
         /\ \A p \in Procs, op \in AllOps : Starts(p, op) => TypeOK'
         /\ \A p \in Procs, op \in AllOps : StartsTask(p, op) => TypeOK'
BY DEF TypeOK, Control, OnlyRow, OnlyLocal, OnlyFault, Starts, StartsTask

\* The initial state is well typed.
LEMMA InitTypes == Init => TypeOK
<1> SUFFICES ASSUME Init PROVE TypeOK
  OBVIOUS
<1>1. Idle \in Control
  BY RowTypes, TextTypes DEF Idle, Control, PCs
<1> QED BY <1>1, RowTypes, TextTypes DEF Init, TypeOK, Control

\* Rows made by the operations.
LEMMA EditedTypes ==
  ASSUME TypeOK, PublicationAssumption,
         NEW t \in Texts \cup {None}, NEW s \in FlipTo \cup {None}, NEW k \in BOOLEAN
  PROVE  /\ Edited(t, s, k) \in Row
         /\ \A ok \in BOOLEAN : AfterUpdate(t, s, k, ok) \in Row
<1>1. Edited(t, s, k) \in Row
  BY TextTypes DEF TypeOK, PublicationAssumption, Edited, Row
<1>2. ASSUME NEW ok \in BOOLEAN PROVE AfterUpdate(t, s, k, ok) \in Row
  <2> DEFINE r == [Edited(t, s, k) EXCEPT
                     !.status = IF ok THEN @
                                ELSE IF Demotes(t, ok) THEN "raw" ELSE row.status]
  <2>1. r \in Row
    BY <1>1 DEF TypeOK, Row, Status
  <2> HIDE DEF r
  <2>2. [r EXCEPT !.ps    = IF t # None /\ ~Demotes(t, ok) /\ Requeues(r)
                            THEN "pending" ELSE @,
                  !.clean = IF t # None THEN NoText ELSE @,
                  !.stale = FALSE] \in Row
    BY <2>1, TextTypes DEF Row, PipelineState
  <2> QED BY <2>2 DEF AfterUpdate, r
<1> QED BY <1>1, <1>2

\* add builds a row.
LEMMA InitialRowTypes ==
  ASSUME PublicationAssumption,
         NEW t \in Texts, NEW s \in FlipTo \cup {None}, NEW ok \in BOOLEAN
  PROVE  InitialRow(t, s, ok) \in Row
BY RowTypes, TextTypes
   DEF PublicationAssumption, InitialRow, Row, Status, PipelineState

\* The swap of the refine cycle builds a row.
LEMMA SwappedTypes ==
  ASSUME TypeOK, NEW snap \in Row, NEW art \in Text
  PROVE  Swapped(snap, art) \in Row
<1>1. [row EXCEPT !.ps = "refined"] \in Row
  BY DEF TypeOK, Row, PipelineState
<1>2. ASSUME NEW raw \in Text, NEW marker \in Nat
      PROVE  [row EXCEPT !.content = art, !.clean = NoText, !.ps = "refined",
                         !.swapKey = art, !.raw = raw, !.marker = marker] \in Row
  BY TextTypes DEF TypeOK, Row, PipelineState
<1>3. /\ (IF snap.raw = NoText THEN effective_content(snap) ELSE row.raw) \in Text
      /\ (IF art # effective_content(snap) THEN snap.marker + 1 ELSE row.marker) \in Nat
  BY RowTypes DEF TypeOK, Row
<1> QED BY <1>1, <1>2, <1>3 DEF Swapped

\* The digest of the refine cycle is a text.
LEMMA ArtifactTypes ==
  ASSUME TypeOK, NEW p \in Procs
  PROVE  Artifact(p) \in Text
<1>1. /\ row.raw \in Text /\ effective_content(row) \in Text
      /\ mates \in Contexts \cup {None}
  BY RowTypes DEF TypeOK, Row
<1>2. \A x \in Text : x.src \in Texts \cup {None}
  BY DEF Text
<1> QED BY <1>1, <1>2, TextTypes DEF Artifact

-----------------------------------------------------------------------------
\* The first statement of every user operation keeps the types.
LEMMA TypeUserOps ==
  ASSUME TypeOK, PublicationAssumption, NEW p \in Procs, UserOp(p)
  PROVE  TypeOK'
<1>1. /\ row \in Row /\ proc[p] \in Control /\ proc[p].snap \in Row /\ proc[p].text \in Text
  BY ControlTypes DEF TypeOK, Control
<1>2. ASSUME NEW t \in Texts, NEW s \in FlipTo \cup {None}, Add(p, t, s)
      PROVE  TypeOK'
  <2>1. PICK ok \in Verdicts(Written(t)) :
          goto(p, "saveNew", InitialRow(t, s, ok), Written(t))
    BY <1>2 DEF Add
  <2>2. ok \in BOOLEAN
    BY DEF Verdicts
  <2>3. proc' \in [Procs -> Control]
    BY <2>1, <2>2, ControlTypes, InitialRowTypes, TextTypes DEF PCs
  <2> QED BY <1>2, <2>3 DEF Add, TypeOK, Control
<1>3. ASSUME NEW t \in Texts \cup {None}, NEW s \in FlipTo \cup {None},
             NEW k \in BOOLEAN, Update(p, t, s, k)
      PROVE  TypeOK'
  <2>1. PICK ok \in BOOLEAN :
          goto(p, IF Demotes(t, ok) THEN "saveDemoted" ELSE "save",
               AfterUpdate(t, s, k, ok), IF t # None THEN Written(t) ELSE NoText)
    BY <1>3 DEF Update, Verdicts
  <2>2. proc' \in [Procs -> Control]
    <3>1. (IF t # None THEN Written(t) ELSE NoText) \in Text
      BY TextTypes
    <3>2. (IF Demotes(t, ok) THEN "saveDemoted" ELSE "save") \in PCs
      BY DEF PCs
    <3> QED BY <2>1, <3>1, <3>2, ControlTypes, EditedTypes
  <2> QED BY <1>3, <2>2, FrameTypes DEF Update, AllOps
<1>4. CASE Publish(p)
  <2>1. proc' \in [Procs -> Control]
    <3>1. [row EXCEPT !.status = "published", !.stale = FALSE] \in Row
      BY <1>1 DEF Row, Status
    <3> QED BY <1>4, <3>1, ControlTypes, TextTypes DEF Publish, PublishDecision, PCs
  <2> QED BY <1>4, <2>1, FrameTypes DEF Publish, AllOps
<1>5. CASE Promote(p)
  <2>1. proc' \in [Procs -> Control]
    <3>1. [row EXCEPT !.status = "processed", !.stale = FALSE] \in Row
      BY <1>1 DEF Row, Status
    <3> QED BY <1>5, <3>1, ControlTypes, TextTypes, RowTypes DEF Promote, PCs
  <2> QED BY <1>5, <2>1, FrameTypes DEF Promote, AllOps
<1>6. CASE Cluster(p)
  <2>1. proc' \in [Procs -> Control]
    <3>1. [row EXCEPT !.status = "processing", !.clustered = TRUE] \in Row
      BY <1>1 DEF Row, Status
    <3> QED BY <1>6, <3>1, ControlTypes, TextTypes DEF Cluster, PCs
  <2> QED BY <1>6, <2>1, FrameTypes DEF Cluster, AllOps
<1>7. CASE Filter(p)
  <2>1. proc' \in [Procs -> Control]
    <3>1. FilterOutput \in Text
      BY <1>1, TextTypes DEF FilterOutput, Row
    <3> QED BY <1>7, <3>1, ControlTypes, RowTypes DEF Filter, PCs
  <2> QED BY <1>7, <2>1, FrameTypes DEF Filter, AllOps
<1>8. CASE IngestQuarantine(p) \/ Release(p) \/ Delete(p)
  <2>1. proc' \in [Procs -> Control]
    BY <1>8, ControlTypes, RowTypes, TextTypes DEF IngestQuarantine, Release, Delete, PCs
  <2> QED BY <1>8, <2>1, FrameTypes DEF IngestQuarantine, Release, Delete, AllOps
<1>9. CASE Sweep(p)
  <2>1. proc' \in [Procs -> Control]
    BY <1>1, <1>9, ControlTypes, TextTypes DEF Sweep, PCs
  <2> QED BY <1>9, <2>1, FrameTypes DEF Sweep, AllOps
<1> QED BY <1>2, <1>3, <1>4, <1>5, <1>6, <1>7, <1>8, <1>9 DEF UserOp

\* The columns that the statements of Step and of the sweeper write.
LEMMA ColumnTypes ==
  ASSUME NEW r \in Row
  PROVE  /\ \A ps \in PipelineState : [r EXCEPT !.ps = ps] \in Row
         /\ \A n \in Nat, w \in BOOLEAN :
              /\ [r EXCEPT !.retry = n, !.waiting = w] \in Row
              /\ [r EXCEPT !.ps = "failed", !.retry = n, !.waiting = w] \in Row
         /\ [r EXCEPT !.status = "published"] \in Row
         /\ [r EXCEPT !.waiting = FALSE] \in Row
         /\ [r EXCEPT !.stale = TRUE] \in Row
         /\ [r EXCEPT !.reason = "danger"] \in Row
         /\ [r EXCEPT !.ps = "quarantined", !.reason = "born"] \in Row
         /\ [r EXCEPT !.ps = "quarantined", !.reason = "danger"] \in Row
         /\ [r EXCEPT !.ps = "failed", !.reason = "none"] \in Row
         /\ \A n \in Nat, w \in BOOLEAN :
              [r EXCEPT !.ps = None, !.status = "published", !.reason = "none",
                        !.retry = n, !.waiting = w] \in Row
         /\ \A x \in Text : [r EXCEPT !.clean = x] \in Row
<1>1. \A ps \in PipelineState : [r EXCEPT !.ps = ps] \in Row
  BY DEF Row
<1>2. \A n \in Nat, w \in BOOLEAN :
        /\ [r EXCEPT !.retry = n, !.waiting = w] \in Row
        /\ [r EXCEPT !.ps = "failed", !.retry = n, !.waiting = w] \in Row
  BY DEF Row, PipelineState
<1>3. /\ [r EXCEPT !.status = "published"] \in Row
      /\ [r EXCEPT !.waiting = FALSE] \in Row
      /\ [r EXCEPT !.stale = TRUE] \in Row
      /\ [r EXCEPT !.reason = "danger"] \in Row
  BY DEF Row, Status
<1>4. /\ [r EXCEPT !.ps = "quarantined", !.reason = "born"] \in Row
      /\ [r EXCEPT !.ps = "quarantined", !.reason = "danger"] \in Row
      /\ [r EXCEPT !.ps = "failed", !.reason = "none"] \in Row
      /\ \A n \in Nat, w \in BOOLEAN :
           [r EXCEPT !.ps = None, !.status = "published", !.reason = "none",
                     !.retry = n, !.waiting = w] \in Row
  BY DEF Row, PipelineState, Status
<1>5. \A x \in Text : [r EXCEPT !.clean = x] \in Row
  BY DEF Row
<1> QED BY <1>1, <1>2, <1>3, <1>4, <1>5

\* Every later statement of an operation keeps the types.
LEMMA TypeSteps ==
  ASSUME TypeOK, PublicationAssumption, NEW p \in Procs, Step(p)
  PROVE  TypeOK'
<1>1. /\ row \in Row /\ proc[p] \in Control /\ proc[p].snap \in Row /\ proc[p].text \in Text
      /\ proc[p].snap.retry \in Nat /\ proc[p].snap.waiting \in BOOLEAN
      /\ exists \in BOOLEAN
      /\ proc[p].text.src \in Texts \cup {None}
  BY ControlTypes DEF TypeOK, Control, Row, Text
<1>2. /\ {"failed", "pending", "processing", "refined"} \subseteq PipelineState
      /\ \A r \in Row : EmbedIfPublished(p, r) => proc' \in [Procs -> Control]
      /\ PublishDecision(p) => proc' \in [Procs -> Control]
  <2>1. {"failed", "pending", "processing", "refined"} \subseteq PipelineState
    BY DEF PipelineState
  <2>2. \A r \in Row : EmbedIfPublished(p, r) => proc' \in [Procs -> Control]
    BY ControlTypes, TextTypes DEF EmbedIfPublished, PCs
  <2>3. [row EXCEPT !.status = "published", !.stale = FALSE] \in Row
    BY <1>1 DEF Row, Status
  <2>4. PublishDecision(p) => proc' \in [Procs -> Control]
    BY <2>3, ControlTypes, TextTypes DEF PublishDecision, PCs
  <2> QED BY <2>1, <2>2, <2>4
<1>3. CASE Save(p)
  <2>1. proc' \in [Procs -> Control]
    BY <1>3, <1>1, <1>2, ControlTypes, RowTypes, TextTypes DEF Save, PCs
  <2>2. exists' \in BOOLEAN /\ row' \in Row
    BY <1>3, <1>1 DEF Save, save
  <2>3. latest' \in Texts \cup {None} /\ exempted' \in BOOLEAN
    BY <1>3, <1>1 DEF Save, TypeOK
  <2> QED BY <1>3, <2>1, <2>2, <2>3 DEF Save, TypeOK, Control
<1>4. CASE Embed(p)
  <2>1. proc' \in [Procs -> Control]
    BY <1>4, ControlTypes DEF Embed
  <2>2. CASE OnlyFault
    BY <2>1, <2>2, FrameTypes
  <2>3. CASE /\ vec' = effective_content(proc[p].snap)
             /\ update_fields(row)
             /\ UNCHANGED <<mates, born, ops, faults, overruns, latest, exempted>>
    BY <1>1, <2>1, <2>3, RowTypes, UpdateTypes DEF TypeOK, Control
  <2> QED BY <1>4, <2>2, <2>3 DEF Embed
<1>5. CASE Unembed(p) \/ DeleteVector(p)
  <2>1. proc' \in [Procs -> Control]
    BY <1>5, ControlTypes DEF Unembed, DeleteVector, PCs
  <2>2. CASE OnlyFault
    BY <2>1, <2>2, FrameTypes
  <2>3. CASE vec' = NoText /\ UNCHANGED <<exists, row, mates, born, ops, faults,
                                         overruns, latest, exempted>>
    BY <2>1, <2>3, TextTypes DEF TypeOK, Control
  <2> QED BY <1>5, <2>2, <2>3 DEF Unembed, DeleteVector
<1>6. CASE Drop(p)
  <2>1. proc' \in [Procs -> Control]
    BY <1>6, ControlTypes DEF Drop
  <2> QED BY <1>1, <1>6, <2>1, FrameTypes DEF Drop
<1>7. CASE Claim(p)
  <2>1. proc' \in [Procs -> Control]
    BY <1>7, ControlTypes DEF Claim, PCs
  <2>2. exists' \in BOOLEAN /\ row' \in Row
    BY <1>1, <1>2, <1>7, ColumnTypes, UpdateTypes DEF Claim
  <2> QED BY <1>7, <2>1, <2>2, FrameTypes DEF Claim
<1>8. CASE Produce(p)
  <2>1. proc' \in [Procs -> Control]
    BY <1>1, <1>8, ControlTypes, ArtifactTypes, RowTypes, TextTypes DEF Produce, PCs
  <2> QED BY <1>8, <2>1, FrameTypes DEF Produce
<1>9. CASE Noop(p)
  <2>1. proc' \in [Procs -> Control]
    BY <1>9, ControlTypes, RowTypes, TextTypes DEF Noop, PCs
  <2>2. exists' \in BOOLEAN /\ row' \in Row
    BY <1>1, <1>2, <1>9, ColumnTypes, UpdateTypes DEF Noop
  <2> QED BY <1>9, <2>1, <2>2, FrameTypes DEF Noop
<1>10. CASE Swap(p)
  <2>1. proc' \in [Procs -> Control]
    BY <1>1, <1>10, ControlTypes, RowTypes DEF Swap, PCs
  <2>2. CASE OnlyFault
    BY <2>1, <2>2, FrameTypes
  <2>3. CASE update_fields(Swapped(proc[p].snap, proc[p].text)) /\ OnlyRow
    BY <1>1, <2>1, <2>3, SwappedTypes, UpdateTypes, FrameTypes
  <2> QED BY <1>10, <2>2, <2>3 DEF Swap
<1>11. CASE RecordFailure(p)
  <2>1. proc' \in [Procs -> Control]
    BY <1>11, ControlTypes DEF RecordFailure
  <2> DEFINE n == proc[p].snap.retry + 1
             w == n < MaxAttempts
  <2>2. n \in Nat /\ w \in BOOLEAN
    BY <1>1 DEF PublicationAssumption
  <2>3. exists' \in BOOLEAN /\ row' \in Row
    <3>1. update_fields([row EXCEPT !.ps = "failed", !.retry = n, !.waiting = w])
      BY <1>11 DEF RecordFailure
    <3> HIDE DEF n, w
    <3> QED BY <1>1, <2>2, <3>1, ColumnTypes, UpdateTypes
  <2> QED BY <1>11, <2>1, <2>3, FrameTypes DEF RecordFailure
<1>12. CASE Curate(p)
  <2>1. proc' \in [Procs -> Control]
    BY <1>12, ControlTypes DEF Curate, PCs
  <2> QED BY <1>12, <2>1, FrameTypes DEF Curate
<1>13. CASE Flip(p)
  <2>1. proc' \in [Procs -> Control]
    BY <1>13, ControlTypes DEF Flip, PCs
  <2>2. exists' \in BOOLEAN /\ row' \in Row
    BY <1>1, <1>13, ColumnTypes, UpdateTypes DEF Flip
  <2> QED BY <1>13, <2>1, <2>2, FrameTypes DEF Flip
<1>14. CASE Reload(p)
  <2>1. proc' \in [Procs -> Control]
    BY <1>1, <1>14, ControlTypes, TextTypes DEF Reload, PCs
  <2> QED BY <1>14, <2>1, FrameTypes DEF Reload
<1>15. CASE QuarantineEntry(p)
  <2>1. proc' \in [Procs -> Control]
    BY <1>15, ControlTypes DEF QuarantineEntry, PCs
  <2>2. exists' \in BOOLEAN /\ row' \in Row
    BY <1>1, <1>15, ColumnTypes, UpdateTypes DEF QuarantineEntry
  <2> QED BY <1>15, <2>1, <2>2, FrameTypes DEF QuarantineEntry
<1>16. CASE Mark(p) \/ ClusterSave(p) \/ SavePublished(p)
  <2>1. proc' \in [Procs -> Control]
    BY <1>16, ControlTypes, RowTypes, TextTypes DEF Mark, ClusterSave, SavePublished, PCs
  <2>2. exists' \in BOOLEAN /\ row' \in Row
    BY <1>1, <1>16 DEF Mark, ClusterSave, SavePublished, save
  <2> QED BY <1>16, <2>1, <2>2, FrameTypes DEF Mark, ClusterSave, SavePublished
<1>17. CASE GateRead(p)
  <2>1. proc' \in [Procs -> Control]
    BY <1>2, <1>17, ControlTypes DEF GateRead
  <2> QED BY <1>17, <2>1, FrameTypes DEF GateRead
<1>18. CASE ClearRetry(p)
  <2>1. proc' \in [Procs -> Control]
    BY <1>18, ControlTypes DEF ClearRetry, PCs
  <2>2. exists' \in BOOLEAN /\ row' \in Row
    BY <1>1, <1>18, ColumnTypes, UpdateTypes DEF ClearRetry
  <2> QED BY <1>18, <2>1, <2>2, FrameTypes DEF ClearRetry
<1>19. CASE Enqueue(p)
  <2>1. proc' \in [Procs -> Control]
    BY <1>19, ControlTypes DEF Enqueue, PCs
  <2>2. exists' \in BOOLEAN /\ row' \in Row
    BY <1>1, <1>2, <1>19, ColumnTypes, UpdateTypes DEF Enqueue
  <2> QED BY <1>19, <2>1, <2>2, FrameTypes DEF Enqueue
<1>20. CASE FilterSave(p)
  <2>1. proc' \in [Procs -> Control]
    BY <1>20, ControlTypes DEF FilterSave, PCs
  <2>2. exists' \in BOOLEAN /\ row' \in Row
    BY <1>1, <1>20, ColumnTypes, UpdateTypes DEF FilterSave
  <2> QED BY <1>20, <2>1, <2>2, FrameTypes DEF FilterSave
<1>21. CASE AutoFilterRead(p)
  <2>1. FilterOutput \in Text
    BY <1>1, TextTypes DEF FilterOutput, Row
  <2>2. proc' \in [Procs -> Control]
    BY <1>1, <1>2, <1>21, <2>1, ControlTypes DEF AutoFilterRead, PCs
  <2> QED BY <1>21, <2>2, FrameTypes DEF AutoFilterRead
<1>22. CASE AutoReload(p)
  <2>1. proc' \in [Procs -> Control]
    BY <1>1, <1>2, <1>22 DEF AutoReload
  <2> QED BY <1>22, <2>1, FrameTypes DEF AutoReload
<1>23. CASE SweepWrite(p)
  <2>1. proc' \in [Procs -> Control]
    BY <1>23, ControlTypes DEF SweepWrite, PCs
  <2>2. exists' \in BOOLEAN /\ row' \in Row
    BY <1>1, <1>23, ColumnTypes, UpdateTypes DEF SweepWrite
  <2> QED BY <1>23, <2>1, <2>2, FrameTypes DEF SweepWrite
<1>24. CASE ReleaseWrite(p)
  <2>1. proc' \in [Procs -> Control]
    BY <1>24, ControlTypes DEF ReleaseWrite, PCs
  <2>2. exists' \in BOOLEAN /\ row' \in Row
    BY <1>1, <1>24, ColumnTypes, UpdateTypes DEF ReleaseWrite
  <2> QED BY <1>24, <2>1, <2>2, FrameTypes DEF ReleaseWrite
<1> QED
  BY <1>3, <1>4, <1>5, <1>6, <1>7, <1>8, <1>9, <1>10, <1>11, <1>12, <1>13, <1>14,
     <1>15, <1>16, <1>17, <1>18, <1>19, <1>20, <1>21, <1>22, <1>23, <1>24 DEF Step

\* Every step of the system keeps the types.
LEMMA TypeStep == PublicationAssumption /\ TypeOK /\ [Next]_vars => TypeOK'
<1> SUFFICES ASSUME PublicationAssumption, TypeOK, [Next]_vars PROVE TypeOK'
  OBVIOUS
<1>1. row \in Row /\ proc \in [Procs -> Control]
  BY DEF TypeOK, Control
<1>2. CASE UNCHANGED vars
  BY <1>2 DEF TypeOK, vars
<1>3. ASSUME NEW p \in Procs, UserOp(p) PROVE TypeOK'
  BY <1>3, TypeUserOps
<1>4. ASSUME NEW p \in Procs, Step(p) PROVE TypeOK'
  BY <1>4, TypeSteps
<1>5. ASSUME NEW p \in Procs, RefineRead(p) \/ Heal(p) PROVE TypeOK'
  <2>1. proc' \in [Procs -> Control]
    BY <1>1, <1>5, ControlTypes, TextTypes DEF RefineRead, Heal, PCs
  <2> QED BY <1>5, <2>1, FrameTypes DEF RefineRead, Heal, AllOps
<1>6. ASSUME NEW p \in Procs, Crash(p) PROVE TypeOK'
  BY <1>6, ControlTypes, FrameTypes DEF Crash
<1>7. CASE LeaseExpires
  <2>1. row' \in Row
    BY <1>1, <1>7, ColumnTypes DEF LeaseExpires
  <2>2. overruns' \in Nat
    BY <1>7 DEF LeaseExpires, TypeOK
  <2> QED BY <1>7, <2>1, <2>2 DEF LeaseExpires, TypeOK
<1>8. CASE Reclaim
  <2>1. exists' \in BOOLEAN /\ row' \in Row
    BY <1>1, <1>8, ColumnTypes, UpdateTypes DEF Reclaim, PipelineState
  <2> QED BY <1>1, <1>8, <2>1, FrameTypes DEF Reclaim
<1>9. CASE BackoffElapses
  <2>1. row' \in Row
    BY <1>1, <1>9, ColumnTypes DEF BackoffElapses
  <2> QED BY <1>1, <1>9, <2>1, FrameTypes DEF BackoffElapses, TypeOK
<1>10. CASE MatesChange
  BY <1>10 DEF MatesChange, TypeOK
<1> QED BY <1>2, <1>3, <1>4, <1>5, <1>6, <1>7, <1>8, <1>9, <1>10 DEF Next

\* The columns of the row, the vector and every process keep their types in
\* all interleavings, for any number of processes, texts and operations.
THEOREM TypeCorrect == Spec => []TypeOK
<1>1. Init => TypeOK
  BY InitTypes
<1>2. TypeOK /\ [Next]_vars => TypeOK'
  BY TypeStep, PublicationAssumption
<1> QED BY <1>1, <1>2, PTL DEF Spec

-----------------------------------------------------------------------------
(***************************************************************************)
(* Operations that do not race: one process, whose leases do not run out   *)
(* under it.  The lifecycle, the source payload, the marker and the last   *)
(* text a user stored are then what the code documents; each of them fails *)
(* with a second process.  Crashes, store errors, reclaims and backoffs    *)
(* still come between any two statements.                                  *)
(***************************************************************************)
Alone(p) == Procs = {p} /\ MaxOverruns = 0

\* Control states whose next statement saves the whole row.
Saving == {"save", "saveDemoted", "mark", "savePublished", "clusterSave"}

\* Control states of a refine cycle that still use the snapshot.
Cycle == {"claim", "produce", "swap"}

\* A pipeline state a copy may bring back over a: the copy's operation enrolled
\* the row, or the row was reclaimed behind the copy.
MayLand(a, b) ==
  \/ a = b
  \/ a \in {None, "refined"} /\ b = "pending"
  \/ a = "pending" /\ b = "processing"

\* The text l can be read from r, or its source is another text.
KeptIn(r, l) ==
  /\ r.raw # NoText => r.raw.ctx = None
  /\ r.raw = NoText => /\ r.content.ctx = None /\ r.content.src = l
                       /\ r.clean # NoText => r.clean.ctx = None /\ r.clean.src = l

\* Where the row is while the process is at c.
Present(ex, v, b, c) ==
  /\ ~b => ~ex /\ c.pc = "idle"
  /\ c.pc \notin {"idle", "saveNew"} => ex
  /\ c.pc = "saveNew" => ~ex
  /\ ~ex \/ c.pc = "drop" => v = NoText

\* What the lifecycle column is while the process is at c.
Staged(r, c) ==
  /\ c.pc = "saveNew" => c.snap.ps \in {None, "pending"}
  /\ c.pc \in Saving => MayLand(r.ps, c.snap.ps)
  /\ c.pc \in {"produce", "noop", "swap", "fail"} => r.ps = "processing" /\ ~r.stale
  /\ c.pc \in {"clear", "enqueue"} => r.ps \in {None, "failed"}
  /\ c.pc \in {"release", "sweepRelease"} => r.ps = "quarantined"

\* What a snapshot still agrees on with the row.
Agrees(r, c) ==
  /\ c.pc \in Saving \cup Cycle =>
       c.snap.raw = r.raw /\ c.snap.marker = r.marker /\ c.snap.swapKey = r.swapKey
  /\ c.pc \in Cycle => c.snap.content = r.content /\ c.snap.clean = r.clean

\* The last text a user stored is kept, in the row and in what will be saved.
Keeps(ex, r, l, c) ==
  /\ ex => l # None /\ KeptIn(r, l)
  /\ c.pc = "saveNew" => c.text # NoText
  /\ c.pc \in {"saveNew", "save", "saveDemoted"} /\ c.text # NoText =>
       c.text.src # None /\ KeptIn(c.snap, c.text.src)
  /\ c.pc \in {"save", "saveDemoted"} /\ c.text = NoText => KeptIn(c.snap, l)
  /\ c.pc \in {"mark", "savePublished", "clusterSave"} => KeptIn(c.snap, l)
  /\ c.pc \in {"filterSave", "autoFilterSave"} =>
       c.text.ctx = None /\ (r.raw = NoText => c.text.src = l)

SoloInv(p) ==
  /\ TypeOK
  /\ Present(exists, vec, born, proc[p])
  /\ Staged(row, proc[p])
  /\ Agrees(row, proc[p])
  /\ Keeps(exists, row, latest, proc[p])

\* What no step does.
SoloStep ==
  /\ Abstract!Next \/ UNCHANGED Stage
  /\ LeavesQuarantineOnlyByRelease /\ SourceStays /\ SwapMovesMarker

\* The invariant holds at first.
LEMMA SoloInit == ASSUME NEW p, Alone(p), Init PROVE SoloInv(p)
<1>1. TypeOK
  BY InitTypes
<1>2. proc[p] = Idle
  BY DEF Init, Alone
<1> QED BY <1>1, <1>2 DEF Init, SoloInv, Idle, Present, Staged, Agrees, Keeps, Saving, Cycle

\* Where goto, then and done leave the process.
LEMMA Landing ==
  ASSUME NEW p, Alone(p), TypeOK
  PROVE  /\ p \in Procs /\ proc[p] \in Control /\ row \in Row
         /\ \A pc, snap, text : goto(p, pc, snap, text) =>
              proc'[p] = [pc |-> pc, snap |-> snap, text |-> text]
         /\ \A pc : then(p, pc) =>
              proc'[p] = [pc |-> pc, snap |-> proc[p].snap, text |-> proc[p].text]
         /\ done(p) => proc'[p] = Idle
<1>1. p \in Procs /\ proc \in [Procs -> Control] /\ row \in Row
  BY DEF Alone, TypeOK, Control
<1>2. \A pc : [proc[p] EXCEPT !.pc = pc] = [pc |-> pc, snap |-> proc[p].snap, text |-> proc[p].text]
  BY <1>1 DEF Control
<1>3. ASSUME NEW pc, then(p, pc)
      PROVE  proc'[p] = [pc |-> pc, snap |-> proc[p].snap, text |-> proc[p].text]
  <2>1. proc' = [proc EXCEPT ![p] = [proc[p] EXCEPT !.pc = pc]]
    BY <1>3 DEF then
  <2> QED BY <1>1, <1>2, <2>1
<1> QED BY <1>1, <1>3 DEF goto, done

\* Control states that hold nothing of the row.
Resting == PCs \ (Saving \cup Cycle \cup {"idle", "saveNew", "noop", "fail", "clear", "enqueue",
                                          "release", "sweepRelease", "filterSave",
                                          "autoFilterSave", "drop"})

\* A step that leaves these columns alone breaks no promise.
LEMMA QuietStep ==
  ASSUME exists' = exists, row'.ps = row.ps, row'.raw = row.raw, row'.swapKey = row.swapKey
  PROVE  SoloStep
BY DEF SoloStep, Stage, LeavesQuarantineOnlyByRelease, is_quarantined, SourceStays,
       SwapMovesMarker

\* A step that leaves the row and the stores alone needs its new control state only.
LEMMA SoloLocal ==
  ASSUME NEW p, Alone(p), SoloInv(p), TypeOK', born', NEW c, proc'[p] = c,
         UNCHANGED <<exists, row, vec, latest>>,
         Present(exists, vec, TRUE, c), Staged(row, c), Agrees(row, c), Keeps(exists, row, latest, c)
  PROVE  SoloInv(p)' /\ SoloStep
<1>1. SoloStep
  BY QuietStep
<1>2. SoloInv(p)'
  BY DEF SoloInv, Present
<1> QED BY <1>1, <1>2

\* A process that holds nothing fits any row that is there.
LEMMA RestingFits ==
  ASSUME NEW p, SoloInv(p), NEW c, c.pc \in Resting \cup {"idle"}, c.pc # "idle" => exists
  PROVE  /\ Present(exists, vec, TRUE, c) /\ Staged(row, c) /\ Agrees(row, c)
         /\ Keeps(exists, row, latest, c)
BY DEF SoloInv, Resting, Present, Staged, Agrees, Keeps, Saving, Cycle, PCs

\* What an update with the new text t writes over the row it read.
Rewrites(r, t) ==
  /\ r.raw = row.raw /\ r.marker = row.marker /\ r.swapKey = row.swapKey
  /\ r.content = IF t # None THEN Written(t) ELSE row.content
  /\ r.clean = IF t # None THEN NoText ELSE row.clean
  /\ MayLand(row.ps, r.ps)

\* update does that.
LEMMA UpdateColumns ==
  ASSUME TypeOK, NEW t \in Texts \cup {None}, NEW s \in FlipTo \cup {None}, NEW k \in BOOLEAN,
         NEW ok \in BOOLEAN
  PROVE  Rewrites(AfterUpdate(t, s, k, ok), t)
<1>0. PICK r : r = AfterUpdate(t, s, k, ok)
  OBVIOUS
<1>1. row \in Row
  BY DEF TypeOK
<1>2. PICK q : q = [Edited(t, s, k) EXCEPT
                      !.status = IF ok THEN @ ELSE IF Demotes(t, ok) THEN "raw" ELSE row.status]
  OBVIOUS
<1>3. /\ q.raw = row.raw /\ q.marker = row.marker /\ q.swapKey = row.swapKey /\ q.ps = row.ps
      /\ q.content = (IF t # None THEN Written(t) ELSE row.content) /\ q.clean = row.clean
      /\ q = [q EXCEPT !.status = q.status]
  BY <1>1, <1>2 DEF Edited, Row
<1>4. r = [q EXCEPT !.ps    = IF t # None /\ ~Demotes(t, ok) /\ Requeues(q) THEN "pending" ELSE @,
                    !.clean = IF t # None THEN NoText ELSE @,
                    !.stale = FALSE]
  BY <1>0, <1>2 DEF AfterUpdate
<1>5. q.ps = row.ps /\ Requeues(q) => q.ps \in {None, "refined"}
  BY <1>3 DEF Requeues
<1>6. DOMAIN q = DOMAIN row /\ DOMAIN row = {"status", "ps", "reason", "clustered", "content", "clean", "raw",
        "marker", "swapKey", "retry", "waiting", "stale"}
  BY <1>1, <1>2 DEF Edited, Row
<1>7. /\ r.raw = q.raw /\ r.marker = q.marker /\ r.swapKey = q.swapKey /\ r.content = q.content
      /\ r.clean = (IF t # None THEN NoText ELSE q.clean)
      /\ r.ps = IF t # None /\ ~Demotes(t, ok) /\ Requeues(q) THEN "pending" ELSE q.ps
  BY <1>4, <1>6
<1> QED BY <1>0, <1>3, <1>5, <1>7 DEF MayLand, Rewrites

\* The starts of the user operations.
LEMMA SoloUserOps ==
  ASSUME NEW p, Alone(p), SoloInv(p), UserOp(p)
  PROVE  SoloInv(p)' /\ SoloStep
<1>1. TypeOK /\ TypeOK' /\ p \in Procs /\ row \in Row /\ proc[p] \in Control
  BY TypeUserOps, PublicationAssumption, Landing DEF SoloInv, Alone
<1>2. ASSUME NEW t \in Texts, NEW s \in FlipTo \cup {None}, Add(p, t, s)
      PROVE  SoloInv(p)' /\ SoloStep
  <2>1. PICK ok \in BOOLEAN : goto(p, "saveNew", InitialRow(t, s, ok), Written(t))
    BY <1>2 DEF Add, Verdicts
  <2>2. PICK r : r = InitialRow(t, s, ok)
    OBVIOUS
  <2>3. PICK c : c = [pc |-> "saveNew", snap |-> r, text |-> Written(t)]
    OBVIOUS
  <2>4. proc'[p] = c
    BY <1>1, <2>1, <2>2, <2>3, Landing
  <2>5. /\ r.ps \in {None, "pending"} /\ r.content = Written(t) /\ r.clean = NoText /\ r.raw = NoText
    BY <2>2 DEF InitialRow, EmptyRow
  <2>6. Written(t).src = t /\ Written(t).ctx = None /\ t # None /\ Written(t) # NoText
    BY PublicationAssumption DEF Written, NoText
  <2>7. c.pc = "saveNew" /\ c.snap = r /\ c.text = Written(t)
    BY <2>3
  <2>8. ~exists /\ vec = NoText
    BY <1>2 DEF SoloInv, Present, Add
  <2>9. /\ Present(exists, vec, TRUE, c) /\ Staged(row, c) /\ Agrees(row, c)
        /\ Keeps(exists, row, latest, c)
    BY <2>5, <2>6, <2>7, <2>8 DEF Present, Staged, Agrees, Keeps, KeptIn, Saving, Cycle
  <2>10. UNCHANGED <<exists, row, vec, latest>> /\ born'
    BY <1>2 DEF Add
  <2> QED BY <1>1, <2>4, <2>9, <2>10, SoloLocal
<1>3. ASSUME NEW op, Starts(p, op)
      PROVE  /\ UNCHANGED <<exists, row, vec, latest>> /\ born' /\ exists /\ latest # None
             /\ KeptIn(row, latest)
  BY <1>3 DEF Starts, SoloInv, Present, Keeps
<1>4. ASSUME NEW t \in Texts \cup {None}, NEW s \in FlipTo \cup {None},
             NEW k \in BOOLEAN, Update(p, t, s, k)
      PROVE  SoloInv(p)' /\ SoloStep
  <2>1. PICK ok \in BOOLEAN :
          goto(p, IF Demotes(t, ok) THEN "saveDemoted" ELSE "save",
               AfterUpdate(t, s, k, ok), IF t # None THEN Written(t) ELSE NoText)
    BY <1>4 DEF Update, Verdicts
  <2>2. PICK r : r = AfterUpdate(t, s, k, ok)
    OBVIOUS
  <2>3. PICK pc, text :
          /\ pc \in {"save", "saveDemoted"}
          /\ text = IF t # None THEN Written(t) ELSE NoText
          /\ goto(p, pc, r, text)
    BY <2>1, <2>2
  <2>4. PICK c : c = [pc |-> pc, snap |-> r, text |-> text]
    OBVIOUS
  <2>5. proc'[p] = c /\ c.pc = pc /\ c.snap = r /\ c.text = text
    BY <1>1, <2>3, <2>4, Landing
  <2>6. /\ r.raw = row.raw /\ r.marker = row.marker /\ r.swapKey = row.swapKey
        /\ r.content = IF t # None THEN Written(t) ELSE row.content
        /\ r.clean = IF t # None THEN NoText ELSE row.clean
        /\ MayLand(row.ps, r.ps)
    <3>1. Rewrites(AfterUpdate(t, s, k, ok), t)
      BY <1>1, <2>1, UpdateColumns
    <3> QED BY <2>2, <3>1 DEF Rewrites
  <2>7. t # None => Written(t).src = t /\ Written(t).ctx = None /\ Written(t) # NoText
    BY DEF Written, NoText
  <2>8. UNCHANGED <<exists, row, vec, latest>> /\ born' /\ exists /\ latest # None /\ KeptIn(row, latest)
    BY <1>3, <1>4 DEF Update
  <2>9. KeptIn(r, IF t # None THEN t ELSE latest)
    BY <2>6, <2>7, <2>8 DEF KeptIn
  <2>10. /\ Present(exists, vec, TRUE, c) /\ Staged(row, c) /\ Agrees(row, c)
    BY <2>3, <2>5, <2>6, <2>8 DEF Present, Staged, Agrees, Saving, Cycle
  <2>11. Keeps(exists, row, latest, c)
    BY <2>3, <2>5, <2>7, <2>8, <2>9 DEF Keeps
  <2> QED BY <1>1, <2>5, <2>8, <2>10, <2>11, SoloLocal
<1>5. CASE Publish(p) \/ Promote(p) \/ Cluster(p)
  <2>1. UNCHANGED <<exists, row, vec, latest>> /\ born' /\ exists /\ latest # None /\ KeptIn(row, latest)
    BY <1>3, <1>5 DEF Publish, Promote, Cluster
  <2>2. ASSUME NEW r, NEW pc \in {"savePublished", "mark", "clusterSave"}, goto(p, pc, r, NoText),
               r.ps = row.ps, r.raw = row.raw, r.marker = row.marker, r.swapKey = row.swapKey,
               r.content = row.content, r.clean = row.clean
        PROVE  SoloInv(p)' /\ SoloStep
    <3>1. PICK c : c = [pc |-> pc, snap |-> r, text |-> NoText]
      OBVIOUS
    <3>2. proc'[p] = c /\ c.pc = pc /\ c.snap = r /\ c.text = NoText
      BY <1>1, <2>2, <3>1, Landing
    <3>3. /\ Present(exists, vec, TRUE, c) /\ Staged(row, c) /\ Agrees(row, c)
          /\ Keeps(exists, row, latest, c)
      BY <2>1, <2>2, <3>2 DEF Present, Staged, Agrees, Keeps, KeptIn, MayLand, Saving, Cycle
    <3> QED BY <1>1, <2>1, <3>2, <3>3, SoloLocal
  <2>3. ASSUME NEW c, proc'[p] = c, c.pc \in Resting \cup {"idle"} PROVE SoloInv(p)' /\ SoloStep
    BY <1>1, <2>1, <2>3, RestingFits, SoloLocal
  <2>4. PublishDecision(p) => SoloInv(p)' /\ SoloStep
    <3>1. CASE done(p)
      BY <1>1, <2>3, <3>1, Landing DEF Idle
    <3>2. CASE goto(p, "savePublished", [row EXCEPT !.status = "published", !.stale = FALSE], NoText)
      BY <1>1, <2>2, <3>2 DEF Row
    <3> QED BY <3>1, <3>2 DEF PublishDecision
  <2>5. CASE Promote(p)
    <3>1. CASE goto(p, "mark", [row EXCEPT !.status = "processed", !.stale = FALSE], NoText)
      <4>1. PICK r : r = [row EXCEPT !.status = "processed", !.stale = FALSE]
        OBVIOUS
      <4>2. /\ r.ps = row.ps /\ r.raw = row.raw /\ r.marker = row.marker /\ r.swapKey = row.swapKey
            /\ r.content = row.content /\ r.clean = row.clean
        BY <1>1, <4>1 DEF Row
      <4> QED BY <2>2, <3>1, <4>1, <4>2
    <3>2. CASE goto(p, "gate", EmptyRow, NoText)
      <4>1. PICK c : c = [pc |-> "gate", snap |-> EmptyRow, text |-> NoText]
        OBVIOUS
      <4>2. proc'[p] = c /\ c.pc = "gate"
        BY <1>1, <3>2, <4>1, Landing
      <4>3. "gate" \in Resting
        BY DEF Resting, PCs, Saving, Cycle
      <4> QED BY <2>3, <4>2, <4>3
    <3> QED BY <2>5, <3>1, <3>2 DEF Promote
  <2>6. CASE Cluster(p)
    BY <1>1, <2>2, <2>6 DEF Cluster, Row
  <2> QED BY <1>5, <2>4, <2>5, <2>6 DEF Publish
<1>6. CASE Filter(p)
  <2>1. UNCHANGED <<exists, row, vec, latest>> /\ born' /\ exists /\ latest # None /\ KeptIn(row, latest)
    BY <1>3, <1>6 DEF Filter
  <2>2. PICK text : text = FilterOutput
    OBVIOUS
  <2>3. PICK c : c = [pc |-> "filterSave", snap |-> EmptyRow, text |-> text]
    OBVIOUS
  <2>4. proc'[p] = c /\ c.pc = "filterSave" /\ c.text = text
    BY <1>1, <1>6, <2>2, <2>3, Landing DEF Filter
  <2>5. text.ctx = None /\ (row.raw = NoText => text.src = latest)
    BY <1>1, <2>1, <2>2 DEF FilterOutput, Filtered, KeptIn, Row, Text
  <2>6. /\ Present(exists, vec, TRUE, c) /\ Staged(row, c) /\ Agrees(row, c)
        /\ Keeps(exists, row, latest, c)
    BY <2>1, <2>4, <2>5 DEF Present, Staged, Agrees, Keeps, Saving, Cycle
  <2> QED BY <1>1, <2>1, <2>4, <2>6, SoloLocal
<1>7. CASE IngestQuarantine(p) \/ Sweep(p) \/ Release(p) \/ Delete(p)
  <2>1. UNCHANGED <<exists, row, vec, latest>> /\ born' /\ exists /\ latest # None /\ KeptIn(row, latest)
    BY <1>3, <1>7 DEF IngestQuarantine, Sweep, Release, Delete
  <2>2. PICK c : /\ proc'[p] = c /\ c.pc \in {"born", "sweepRelease", "sweepRefuse", "release", "deleteVec"}
                 /\ c.pc \in {"sweepRelease", "release"} => row.ps = "quarantined"
    <3>1. PICK pc, snap : /\ goto(p, pc, snap, NoText)
                          /\ pc \in {"born", "sweepRelease", "sweepRefuse", "release", "deleteVec"}
                          /\ pc \in {"sweepRelease", "release"} => row.ps = "quarantined"
      BY <1>7 DEF IngestQuarantine, Sweep, Release, Delete, is_quarantined
    <3>2. PICK c : c = [pc |-> pc, snap |-> snap, text |-> NoText]
      OBVIOUS
    <3>3. proc'[p] = c /\ c.pc = pc
      BY <1>1, <3>1, <3>2, Landing
    <3> QED BY <3>1, <3>3
  <2>3. /\ Present(exists, vec, TRUE, c) /\ Staged(row, c) /\ Agrees(row, c)
        /\ Keeps(exists, row, latest, c)
    BY <2>1, <2>2 DEF Present, Staged, Agrees, Keeps, Saving, Cycle
  <2> QED BY <1>1, <2>1, <2>2, <2>3, SoloLocal
<1> QED BY <1>2, <1>4, <1>5, <1>6, <1>7 DEF UserOp

-----------------------------------------------------------------------------
\* Two rows with the same texts.
SameText(r, s) ==
  /\ r.raw = s.raw /\ r.marker = s.marker /\ r.swapKey = s.swapKey
  /\ r.content = s.content /\ r.clean = s.clean

\* The moves of the lifecycle column.
Moves(a, b) ==
  \/ a = b
  \/ a \in {None, "refined", "failed"} /\ b = "pending"
  \/ a \in {"pending", "failed"} /\ b = "processing"
  \/ a = "processing" /\ b \in {"refined", "failed", "pending"}
  \/ a # "quarantined" /\ b = "quarantined"
  \/ a = "quarantined" /\ b \in {None, "failed"}

\* They are the moves of Lifecycle.
LEMMA MovesAreSteps ==
  ASSUME TypeOK, exists, exists', Moves(row.ps, row'.ps)
  PROVE  Abstract!Next \/ UNCHANGED Stage
<1>1. row.ps \in PipelineState \cup {None} /\ None \notin PipelineState
  BY PublicationAssumption DEF TypeOK, Row
<1>2. Stage = (IF row.ps = None THEN "none" ELSE row.ps)
      /\ Stage' = (IF row'.ps = None THEN "none" ELSE row'.ps)
  BY DEF Stage
<1>3. Stage \notin {"absent"}
  BY <1>1, <1>2 DEF PipelineState
<1> QED BY <1>1, <1>2, <1>3 DEF Moves, PipelineState, Abstract!Next, Abstract!Create, Abstract!Enrol,
             Abstract!Claim, Abstract!Finish, Abstract!Quarantine, Abstract!Release

\* A control state that holds nothing of the row.
LEMMA AtRest ==
  ASSUME NEW ex, NEW r, NEW v, NEW l, NEW c, c.pc \in Resting \cup {"idle"},
         c.pc # "idle" => ex, ~ex => v = NoText, ex => l # None /\ KeptIn(r, l)
  PROVE  Present(ex, v, TRUE, c) /\ Staged(r, c) /\ Agrees(r, c) /\ Keeps(ex, r, l, c)
BY DEF Resting, Present, Staged, Agrees, Keeps, Saving, Cycle, PCs

\* A step of the process that keeps the texts of the row.
LEMMA SoloGoes ==
  ASSUME NEW p, Alone(p), SoloInv(p), TypeOK', born', NEW c, proc'[p] = c,
         Present(exists', vec', TRUE, c), Staged(row', c), Agrees(row', c),
         Keeps(exists', row', latest', c),
         exists, exists', SameText(row', row), Moves(row.ps, row'.ps),
         row.ps = "quarantined" /\ row'.ps # "quarantined" => proc[p].pc \in {"release", "sweepRelease"}
  PROVE  SoloInv(p)' /\ SoloStep
<1>1. SoloInv(p)'
  BY DEF SoloInv, Present
<1>2. Abstract!Next \/ UNCHANGED Stage
  BY MovesAreSteps DEF SoloInv
<1>3. LeavesQuarantineOnlyByRelease
  BY DEF LeavesQuarantineOnlyByRelease, is_quarantined, Alone
<1>4. SourceStays /\ SwapMovesMarker
  BY DEF SourceStays, SwapMovesMarker, SameText
<1> QED BY <1>1, <1>2, <1>3, <1>4 DEF SoloStep

\* An UPDATE of columns that are not text, after which the process holds nothing.
LEMMA SoloUpdates ==
  ASSUME NEW p, Alone(p), SoloInv(p), TypeOK', proc[p].pc \notin {"idle", "saveNew"},
         NEW r, update_fields(r), SameText(r, row), r \in Row, Moves(row.ps, r.ps),
         row.ps = "quarantined" /\ r.ps # "quarantined" => proc[p].pc \in {"release", "sweepRelease"},
         UNCHANGED <<born, latest>>,
         NEW c, proc'[p] = c, c.pc \in Resting \cup {"idle"}
  PROVE  SoloInv(p)' /\ SoloStep
<1>1. exists /\ exists' /\ born /\ born' /\ latest # None /\ KeptIn(row, latest)
  BY DEF SoloInv, Present, Keeps, update_fields
<1>2. row'.ps = r.ps /\ SameText(row', row)
  BY <1>1 DEF update_fields, SameText, Row
<1>3. KeptIn(row', latest)
  BY <1>1, <1>2 DEF KeptIn, SameText
<1>4. /\ Present(exists', vec', TRUE, c) /\ Staged(row', c) /\ Agrees(row', c)
      /\ Keeps(exists', row', latest', c)
  BY <1>1, <1>3, AtRest
<1> QED BY <1>1, <1>2, <1>4, SoloGoes

\* A process that goes on with the row and the stores as they are.
LEMMA SoloRests ==
  ASSUME NEW p, Alone(p), SoloInv(p), TypeOK', UNCHANGED <<exists, row, born, latest>>,
         vec' \in {vec, NoText},
         proc[p].pc # "idle",
         NEW c, proc'[p] = c, c.pc \in Resting \cup {"idle"}, c.pc # "idle" => exists
  PROVE  SoloInv(p)' /\ SoloStep
<1>1. SoloStep
  BY QuietStep
<1>2. born /\ (~exists => vec' = NoText) /\ (exists => latest # None /\ KeptIn(row, latest))
  BY DEF SoloInv, Present, Keeps
<1>3. /\ Present(exists, vec', TRUE, c) /\ Staged(row, c) /\ Agrees(row, c)
      /\ Keeps(exists, row, latest, c)
  BY <1>2, AtRest
<1> QED BY <1>1, <1>2, <1>3 DEF SoloInv, Present

\* The whole row is saved, over what the snapshot agrees on with the row.
LEMMA SoloSaves ==
  ASSUME NEW p, Alone(p), SoloInv(p), TypeOK', proc[p].pc \in Saving, save(proc[p].snap),
         UNCHANGED <<vec, born>>, latest' # None, KeptIn(proc[p].snap, latest'),
         NEW c, proc'[p] = c,
         \/ c.pc \in Resting \cup {"idle"}
         \/ c.pc \in {"clear", "enqueue"} /\ proc[p].snap.ps \in {None, "failed"}
  PROVE  SoloInv(p)' /\ SoloStep
<1>1. exists /\ born /\ exists' /\ row' = proc[p].snap /\ row \in Row /\ row' \in Row
  BY DEF SoloInv, Present, save, Saving, TypeOK
<1>2. MayLand(row.ps, row'.ps)
  BY <1>1 DEF SoloInv, Staged
<1>3. row'.raw = row.raw /\ row'.marker = row.marker /\ row'.swapKey = row.swapKey
  BY <1>1 DEF SoloInv, Agrees
<1>4. Moves(row.ps, row'.ps) /\ (row.ps = "quarantined" => row'.ps = "quarantined")
  BY <1>2, PublicationAssumption DEF MayLand, Moves, PipelineState
<1>5. SoloStep
  <2>1. Abstract!Next \/ UNCHANGED Stage
    BY <1>1, <1>4, MovesAreSteps DEF SoloInv
  <2> QED BY <1>3, <1>4, <2>1 DEF SoloStep, LeavesQuarantineOnlyByRelease, is_quarantined,
             SourceStays, SwapMovesMarker
<1>6. /\ Present(TRUE, vec', TRUE, c) /\ Staged(row', c) /\ Agrees(row', c)
      /\ Keeps(TRUE, row', latest', c)
  <2>1. CASE c.pc \in Resting \cup {"idle"}
    BY <1>1, <2>1, AtRest
  <2>2. CASE c.pc \in {"clear", "enqueue"} /\ proc[p].snap.ps \in {None, "failed"}
    BY <1>1, <2>2 DEF Present, Staged, Agrees, Keeps, Saving, Cycle
  <2> QED BY <2>1, <2>2
<1> QED BY <1>1, <1>5, <1>6 DEF SoloInv, Present

\* Where the next statement of an operation leaves the process.
LEMMA LandsAt ==
  ASSUME NEW p, Alone(p), TypeOK
  PROVE  /\ done(p) => \E c : proc'[p] = c /\ c.pc = "idle"
         /\ \A pc : then(p, pc) =>
              \E c : proc'[p] = c /\ c.pc = pc /\ c.snap = proc[p].snap /\ c.text = proc[p].text
         /\ \A pc, snap, text : goto(p, pc, snap, text) =>
              \E c : proc'[p] = c /\ c.pc = pc /\ c.snap = snap /\ c.text = text
<1>1. ASSUME done(p) PROVE \E c : proc'[p] = c /\ c.pc = "idle"
  BY <1>1, Landing DEF Idle
<1>2. ASSUME NEW pc, then(p, pc)
      PROVE  \E c : proc'[p] = c /\ c.pc = pc /\ c.snap = proc[p].snap /\ c.text = proc[p].text
  <2>1. PICK c : c = [pc |-> pc, snap |-> proc[p].snap, text |-> proc[p].text]
    OBVIOUS
  <2>2. proc'[p] = c
    BY <1>2, <2>1, Landing
  <2> QED BY <2>1, <2>2
<1>3. ASSUME NEW pc, NEW snap, NEW text, goto(p, pc, snap, text)
      PROVE  \E c : proc'[p] = c /\ c.pc = pc /\ c.snap = snap /\ c.text = text
  <2>1. PICK c : c = [pc |-> pc, snap |-> snap, text |-> text]
    OBVIOUS
  <2>2. proc'[p] = c
    BY <1>3, <2>1, Landing
  <2> QED BY <2>1, <2>2
<1> QED BY <1>1, <1>2, <1>3

\* Some of the states that hold nothing.
LEMMA RestingStates ==
  {"unembed", "autoFilter", "embed", "reread", "reload", "curate", "flip", "quarantine", "gate",
   "releaseClear", "autoReload", "born", "deleteVec", "sweepRefuse"} \subseteq Resting
BY DEF Resting, PCs, Saving, Cycle

\* The statements that leave the row alone.
LEMMA SoloLocalSteps ==
  ASSUME NEW p, Alone(p), SoloInv(p), TypeOK',
         Unembed(p) \/ DeleteVector(p) \/ Produce(p) \/ Curate(p) \/ Reload(p) \/ GateRead(p)
           \/ AutoFilterRead(p) \/ AutoReload(p)
  PROVE  SoloInv(p)' /\ SoloStep
<1>1. TypeOK /\ p \in Procs /\ row \in Row /\ proc[p] \in Control
  BY Landing DEF SoloInv
<1>2. ASSUME proc[p].pc \notin {"idle", "saveNew"}
      PROVE  exists /\ born /\ latest # None /\ KeptIn(row, latest)
  BY <1>2 DEF SoloInv, Present, Keeps
<1>3. ASSUME NEW r, proc[p].pc \notin {"idle", "saveNew"}, EmbedIfPublished(p, r),
             UNCHANGED <<exists, row, vec, born, latest>>
      PROVE  SoloInv(p)' /\ SoloStep
  <2>1. PICK c : proc'[p] = c /\ c.pc \in {"idle", "embed"}
    BY <1>1, <1>3, LandsAt DEF EmbedIfPublished
  <2> QED BY <1>2, <1>3, <2>1, RestingStates, SoloRests
<1>4. CASE Unembed(p)
  <2>1. PICK c : proc'[p] = c /\ c.pc \in {"idle", "reread"}
    BY <1>1, <1>4, LandsAt DEF Unembed
  <2>2. UNCHANGED <<exists, row, born, latest>> /\ vec' \in {vec, NoText} /\ proc[p].pc = "unembed"
    BY <1>4 DEF Unembed, at, OnlyFault
  <2> QED BY <1>2, <2>1, <2>2, RestingStates, SoloRests
<1>5. CASE DeleteVector(p)
  <2>1. UNCHANGED <<exists, row, born, latest>> /\ vec' \in {vec, NoText} /\ proc[p].pc = "deleteVec"
    BY <1>5 DEF DeleteVector, at, OnlyFault
  <2>2. CASE done(p)
    <3>1. PICK c : proc'[p] = c /\ c.pc = "idle"
      BY <1>1, <2>2, LandsAt
    <3> QED BY <1>2, <2>1, <3>1, SoloRests
  <2>3. CASE vec' = NoText /\ then(p, "drop")
    <3>1. PICK c : proc'[p] = c /\ c.pc = "drop"
      BY <1>1, <2>3, LandsAt
    <3>2. /\ Present(exists', vec', TRUE, c) /\ Staged(row', c) /\ Agrees(row', c)
          /\ Keeps(exists', row', latest', c)
      BY <1>2, <2>1, <2>3, <3>1 DEF Present, Staged, Agrees, Keeps, Saving, Cycle
    <3>3. SoloStep
      BY <2>1, QuietStep
    <3> QED BY <1>2, <2>1, <3>1, <3>2, <3>3 DEF SoloInv, Present
  <2> QED BY <1>5, <2>2, <2>3 DEF DeleteVector
<1>6. CASE Produce(p)
  <2>1. UNCHANGED <<exists, row, vec, born, latest>> /\ proc[p].pc = "produce"
    BY <1>6 DEF Produce, at, OnlyLocal, OnlyRow, OnlyFault
  <2>2. CASE then(p, "noop") \/ then(p, "fail")
    <3>1. PICK c : proc'[p] = c /\ c.pc \in {"noop", "fail"}
      BY <1>1, <2>2, LandsAt
    <3>2. /\ Present(exists, vec, TRUE, c) /\ Staged(row, c) /\ Agrees(row, c)
          /\ Keeps(exists, row, latest, c)
      BY <1>2, <2>1, <3>1 DEF SoloInv, Present, Staged, Agrees, Keeps, Saving, Cycle
    <3> QED BY <1>2, <2>1, <3>1, <3>2, SoloLocal
  <2>3. CASE goto(p, "swap", proc[p].snap, Artifact(p))
    <3>1. PICK c : proc'[p] = c /\ c.pc = "swap" /\ c.snap = proc[p].snap
      BY <1>1, <2>3, LandsAt
    <3>2. /\ Present(exists, vec, TRUE, c) /\ Staged(row, c) /\ Agrees(row, c)
          /\ Keeps(exists, row, latest, c)
      BY <1>2, <2>1, <3>1 DEF SoloInv, Present, Staged, Agrees, Keeps, Saving, Cycle
    <3> QED BY <1>2, <2>1, <3>1, <3>2, SoloLocal
  <2>4. CASE goto(p, "quarantine", EmptyRow, NoText)
    <3>1. PICK c : proc'[p] = c /\ c.pc = "quarantine"
      BY <1>1, <2>4, LandsAt
    <3> QED BY <1>2, <2>1, <3>1, RestingStates, SoloRests
  <2> QED BY <1>6, <2>2, <2>3, <2>4 DEF Produce
<1>7. CASE Curate(p)
  <2>1. UNCHANGED <<exists, row, vec, born, latest>> /\ proc[p].pc = "curate"
    BY <1>7 DEF Curate, at, OnlyLocal, OnlyRow
  <2>2. done(p) \/ \E pc \in {"flip", "quarantine", "reread"} : then(p, pc)
    BY <1>7 DEF Curate
  <2>3. PICK c : proc'[p] = c /\ c.pc \in {"idle", "flip", "quarantine", "reread"}
    BY <1>1, <2>2, LandsAt
  <2> QED BY <1>2, <2>1, <2>3, RestingStates, SoloRests
<1>8. CASE Reload(p)
  <2>1. UNCHANGED <<exists, row, vec, born, latest>> /\ proc[p].pc \in {"reload", "reread"}
    BY <1>8 DEF Reload, OnlyLocal, OnlyRow
  <2>2. PICK c : proc'[p] = c /\ c.pc \in {"idle", "embed"}
    BY <1>1, <1>8, LandsAt DEF Reload
  <2> QED BY <1>2, <2>1, <2>2, RestingStates, SoloRests
<1>9. CASE GateRead(p)
  <2>1. UNCHANGED <<exists, row, vec, born, latest>> /\ proc[p].pc = "gate"
    BY <1>9 DEF GateRead, at, OnlyLocal, OnlyRow
  <2>2. CASE done(p)
    <3>1. PICK c : proc'[p] = c /\ c.pc = "idle"
      BY <1>1, <2>2, LandsAt
    <3> QED BY <1>2, <2>1, <3>1, SoloRests
  <2>3. CASE goto(p, "savePublished", [row EXCEPT !.status = "published", !.stale = FALSE], NoText)
    <3>1. PICK r : r = [row EXCEPT !.status = "published", !.stale = FALSE]
      OBVIOUS
    <3>2. PICK c : proc'[p] = c /\ c.pc = "savePublished" /\ c.snap = r
      BY <1>1, <2>3, <3>1, LandsAt
    <3>3. SameText(r, row) /\ r.ps = row.ps
      BY <1>1, <3>1 DEF SameText, Row
    <3>4. KeptIn(r, latest)
      BY <1>2, <2>1, <3>3 DEF KeptIn, SameText
    <3>5. /\ Present(exists, vec, TRUE, c) /\ Staged(row, c) /\ Agrees(row, c)
          /\ Keeps(exists, row, latest, c)
      BY <1>2, <2>1, <3>2, <3>3, <3>4
         DEF Present, Staged, Agrees, Keeps, MayLand, SameText, Saving, Cycle
    <3> QED BY <1>2, <2>1, <3>2, <3>5, SoloLocal
  <2> QED BY <1>9, <2>2, <2>3 DEF GateRead, PublishDecision
<1>10. CASE AutoFilterRead(p)
  <2>1. UNCHANGED <<exists, row, vec, born, latest>> /\ proc[p].pc = "autoFilter"
    BY <1>10 DEF AutoFilterRead, at, OnlyLocal, OnlyRow, OnlyFault
  <2>2. CASE EmbedIfPublished(p, proc[p].snap)
    BY <1>3, <2>1, <2>2
  <2>3. CASE goto(p, "autoFilterSave", proc[p].snap, FilterOutput)
    <3>1. PICK text : text = FilterOutput
      OBVIOUS
    <3>2. PICK c : proc'[p] = c /\ c.pc = "autoFilterSave" /\ c.text = text
      BY <1>1, <2>3, <3>1, LandsAt
    <3>3. text.ctx = None /\ (row.raw = NoText => text.src = latest)
      BY <1>1, <1>2, <2>1, <3>1 DEF FilterOutput, Filtered, KeptIn, Row, Text
    <3>4. /\ Present(exists, vec, TRUE, c) /\ Staged(row, c) /\ Agrees(row, c)
          /\ Keeps(exists, row, latest, c)
      BY <1>2, <2>1, <3>2, <3>3 DEF Present, Staged, Agrees, Keeps, Saving, Cycle
    <3> QED BY <1>2, <2>1, <3>2, <3>4, SoloLocal
  <2> QED BY <1>10, <2>2, <2>3 DEF AutoFilterRead
<1>11. CASE AutoReload(p)
  <2>1. UNCHANGED <<exists, row, vec, born, latest>> /\ proc[p].pc = "autoReload"
    BY <1>11 DEF AutoReload, at, OnlyLocal, OnlyRow
  <2> QED BY <1>3, <1>11, <2>1 DEF AutoReload
<1> QED BY <1>4, <1>5, <1>6, <1>7, <1>8, <1>9, <1>10, <1>11

\* The statements that save the whole row.
LEMMA SoloWholeRow ==
  ASSUME NEW p, Alone(p), SoloInv(p), TypeOK',
         Save(p) \/ Mark(p) \/ SavePublished(p) \/ ClusterSave(p)
  PROVE  SoloInv(p)' /\ SoloStep
<1>1. TypeOK /\ p \in Procs /\ row \in Row /\ proc[p] \in Control
  BY Landing DEF SoloInv
<1>2. ASSUME proc[p].pc \in Saving
      PROVE  exists /\ born /\ latest # None
  BY <1>2 DEF SoloInv, Present, Keeps, Saving
<1>3. CASE Save(p)
  <2>1. /\ save(proc[p].snap) /\ UNCHANGED <<vec, born>>
        /\ proc[p].pc \in {"saveNew", "save", "saveDemoted"}
        /\ latest' = IF proc[p].text # NoText THEN proc[p].text.src ELSE latest
    BY <1>3 DEF Save
  <2>2. PICK c : proc'[p] = c /\ c.pc \in {"unembed", "autoFilter", "embed", "idle"}
    <3>1. \/ done(p) \/ then(p, "autoFilter")
          \/ \E pc \in {"unembed", "embed"} : \E r : goto(p, pc, r, NoText)
      BY <1>3 DEF Save, EmbedIfPublished
    <3> QED BY <1>1, <3>1, LandsAt
  <2>3. c.pc \in Resting \cup {"idle"}
    BY <2>2, RestingStates
  <2>4. latest' # None /\ KeptIn(proc[p].snap, latest')
    BY <1>2, <2>1 DEF SoloInv, Keeps, Saving
  <2>5. CASE proc[p].pc \in {"save", "saveDemoted"}
    <3>1. proc[p].pc \in Saving
      BY <2>5 DEF Saving
    <3> QED BY <2>1, <2>2, <2>3, <2>4, <3>1, SoloSaves
  <2>6. CASE proc[p].pc = "saveNew"
    <3>1. ~exists /\ born /\ exists' /\ row' = proc[p].snap /\ row'.ps \in {None, "pending"}
      BY <2>1, <2>6 DEF SoloInv, Present, Staged, save
    <3>2. Stage = "absent" /\ Stage' \in {"none", "pending"}
      BY <3>1, PublicationAssumption DEF Stage, PipelineState
    <3>3. SoloStep
      BY <3>1, <3>2 DEF SoloStep, Abstract!Next, Abstract!Create, LeavesQuarantineOnlyByRelease,
                        SourceStays, SwapMovesMarker
    <3>4. /\ Present(exists', vec', TRUE, c) /\ Staged(row', c) /\ Agrees(row', c)
          /\ Keeps(exists', row', latest', c)
      BY <2>3, <2>4, <3>1, AtRest
    <3> QED BY <2>1, <2>2, <3>1, <3>3, <3>4 DEF SoloInv, Present
  <2> QED BY <2>1, <2>5, <2>6
<1>4. CASE Mark(p) \/ ClusterSave(p)
  <2>1. /\ save(proc[p].snap) /\ UNCHANGED <<vec, born, latest>>
        /\ proc[p].pc \in {"mark", "clusterSave"}
    BY <1>4 DEF Mark, ClusterSave, at, OnlyRow
  <2>2. PICK c : proc'[p] = c /\ c.pc \in {"gate", "idle"}
    BY <1>1, <1>4, LandsAt DEF Mark, ClusterSave
  <2>3. c.pc \in Resting \cup {"idle"} /\ proc[p].pc \in Saving
    BY <2>1, <2>2, RestingStates DEF Saving
  <2>4. latest' # None /\ KeptIn(proc[p].snap, latest')
    BY <1>2, <2>1, <2>3 DEF SoloInv, Keeps
  <2> QED BY <2>1, <2>2, <2>3, <2>4, SoloSaves
<1>5. CASE SavePublished(p)
  <2>1. /\ save(proc[p].snap) /\ UNCHANGED <<vec, born, latest>> /\ proc[p].pc = "savePublished"
    BY <1>5 DEF SavePublished, at, OnlyRow
  <2>2. PICK pc : /\ then(p, pc) /\ pc \in {"enqueue", "clear", "embed"}
                  /\ pc # "embed" => proc[p].snap.ps \in {None, "failed"}
    BY <1>5 DEF SavePublished
  <2>3. PICK c : proc'[p] = c /\ c.pc = pc
    BY <1>1, <2>2, LandsAt
  <2>4. \/ c.pc \in Resting \cup {"idle"}
        \/ c.pc \in {"clear", "enqueue"} /\ proc[p].snap.ps \in {None, "failed"}
    BY <2>2, <2>3, RestingStates
  <2>5. proc[p].pc \in Saving
    BY <2>1 DEF Saving
  <2>6. latest' # None /\ KeptIn(proc[p].snap, latest')
    BY <1>2, <2>1, <2>5 DEF SoloInv, Keeps
  <2> QED BY <2>1, <2>3, <2>4, <2>5, <2>6, SoloSaves
<1> QED BY <1>3, <1>4, <1>5

\* The statements that update columns other than the texts.
LEMMA SoloColumns ==
  ASSUME NEW p, Alone(p), SoloInv(p), TypeOK',
         Embed(p) \/ Claim(p) \/ Noop(p) \/ RecordFailure(p) \/ Flip(p) \/ QuarantineEntry(p)
           \/ ClearRetry(p) \/ Enqueue(p) \/ SweepWrite(p) \/ ReleaseWrite(p)
  PROVE  SoloInv(p)' /\ SoloStep
<1>1. TypeOK /\ p \in Procs /\ row \in Row /\ proc[p] \in Control
  BY Landing DEF SoloInv
<1>2. ASSUME proc[p].pc \notin {"idle", "saveNew"}
      PROVE  exists /\ born /\ latest # None /\ KeptIn(row, latest)
  BY <1>2 DEF SoloInv, Present, Keeps
<1>3. row.ps \in PipelineState \cup {None} /\ None \notin PipelineState
      /\ proc[p].snap.retry \in Nat /\ proc[p].snap.waiting \in BOOLEAN /\ row.reason \in {"none", "born", "danger"}
  BY <1>1, PublicationAssumption DEF Row, Control
<1>4. CASE Embed(p)
  <2>1. PICK c : proc'[p] = c /\ c.pc = "idle"
    BY <1>1, <1>4, LandsAt DEF Embed
  <2>2. CASE OnlyFault
    BY <1>4, <2>1, <2>2, SoloRests DEF OnlyFault, Embed, at
  <2>3. CASE update_fields(row) /\ UNCHANGED <<born, latest>>
    <3>1. SameText(row, row) /\ Moves(row.ps, row.ps)
      BY DEF SameText, Moves
    <3>2. proc[p].pc \notin {"idle", "saveNew"}
      BY <1>4 DEF Embed, at
    <3> QED BY <1>1, <2>1, <2>3, <3>1, <3>2, SoloUpdates
  <2> QED BY <1>4, <2>2, <2>3 DEF Embed
<1>5. CASE Claim(p)
  <2>1. UNCHANGED <<vec, born, latest>> /\ proc[p].pc = "claim"
    BY <1>5 DEF Claim, at, OnlyRow
  <2>2. CASE UNCHANGED <<exists, row>> /\ done(p)
    <3>1. PICK c : proc'[p] = c /\ c.pc = "idle"
      BY <1>1, <2>2, LandsAt
    <3> QED BY <2>1, <2>2, <3>1, SoloRests
  <2>3. CASE /\ refine_intake(row) /\ then(p, "produce")
             /\ update_fields([row EXCEPT !.ps = "processing"])
    <3>1. PICK c : proc'[p] = c /\ c.pc = "produce" /\ c.snap = proc[p].snap
      BY <1>1, <2>3, LandsAt
    <3>2. PICK r : r = [row EXCEPT !.ps = "processing"]
      OBVIOUS
    <3>3. exists' /\ row'.ps = "processing" /\ ~row'.stale /\ SameText(row', row)
      BY <1>1, <1>2, <2>1, <2>3, <3>2 DEF update_fields, SameText, Row
    <3>4. row.ps \in {"pending", "failed"}
      BY <2>3 DEF refine_intake
    <3>5. Moves(row.ps, row'.ps)
      BY <3>3, <3>4 DEF Moves
    <3>6. KeptIn(row', latest)
      BY <1>2, <2>1, <3>3 DEF KeptIn, SameText
    <3>7. Agrees(row', c)
      BY <2>1, <3>1, <3>3 DEF SoloInv, Agrees, SameText, Saving, Cycle
    <3>8. /\ Present(exists', vec', TRUE, c) /\ Staged(row', c)
          /\ Keeps(exists', row', latest', c)
      BY <1>2, <2>1, <3>1, <3>3, <3>6 DEF Present, Staged, Keeps, Saving
    <3> QED BY <1>2, <2>1, <3>1, <3>3, <3>4, <3>5, <3>7, <3>8, SoloGoes
  <2> QED BY <1>5, <2>2, <2>3 DEF Claim
<1>6. CASE Noop(p)
  <2>1. UNCHANGED <<born, latest>> /\ proc[p].pc = "noop"
    BY <1>6 DEF Noop, at, OnlyRow
  <2>2. PICK c : proc'[p] = c /\ c.pc = "curate"
    BY <1>1, <1>6, LandsAt DEF Noop
  <2>3. PICK r : r = [row EXCEPT !.ps = "refined"]
    OBVIOUS
  <2>4. SameText(r, row) /\ r \in Row /\ r.ps = "refined"
    BY <1>1, <2>3 DEF SameText, Row, PipelineState
  <2>5. row.ps = "processing" /\ Moves(row.ps, r.ps)
    BY <2>1, <2>4 DEF SoloInv, Staged, Moves
  <2>6. update_fields(r)
    BY <1>6, <2>3 DEF Noop
  <2> QED BY <1>1, <2>1, <2>2, <2>4, <2>5, <2>6, RestingStates, SoloUpdates
<1>7. CASE RecordFailure(p)
  <2>1. UNCHANGED <<born, latest>> /\ proc[p].pc = "fail"
    BY <1>7 DEF RecordFailure, at, OnlyRow
  <2>2. PICK c : proc'[p] = c /\ c.pc = "idle"
    BY <1>1, <1>7, LandsAt DEF RecordFailure
  <2>3. PICK n, w : n = proc[p].snap.retry + 1 /\ w = (n < MaxAttempts)
    OBVIOUS
  <2>4. n \in Nat /\ w \in BOOLEAN
    BY <1>3, <2>3
  <2>5. PICK r : r = [row EXCEPT !.ps = "failed", !.retry = n, !.waiting = w]
    OBVIOUS
  <2>6. SameText(r, row) /\ r \in Row /\ r.ps = "failed"
    BY <1>1, <2>4, <2>5 DEF SameText, Row, PipelineState
  <2>7. row.ps = "processing" /\ Moves(row.ps, r.ps)
    BY <2>1, <2>6 DEF SoloInv, Staged, Moves
  <2>8. update_fields(r)
    BY <1>7, <2>3, <2>5 DEF RecordFailure
  <2> QED BY <1>1, <2>1, <2>2, <2>6, <2>7, <2>8, SoloUpdates
<1>8. CASE Flip(p)
  <2>1. UNCHANGED <<born, latest>> /\ proc[p].pc = "flip"
    BY <1>8 DEF Flip, at, OnlyRow
  <2>2. PICK c : proc'[p] = c /\ c.pc = "reload"
    BY <1>1, <1>8, LandsAt DEF Flip
  <2>3. PICK r : r = [row EXCEPT !.status = "published"]
    OBVIOUS
  <2>4. SameText(r, row) /\ r \in Row /\ r.ps = row.ps
    BY <1>1, <2>3 DEF SameText, Row, Status
  <2>5. update_fields(r) /\ Moves(row.ps, r.ps)
    BY <1>8, <2>3, <2>4 DEF Flip, Moves
  <2> QED BY <1>1, <2>1, <2>2, <2>4, <2>5, RestingStates, SoloUpdates
<1>9. CASE QuarantineEntry(p)
  <2>1. UNCHANGED <<born, latest>> /\ proc[p].pc \in {"quarantine", "born"}
    BY <1>9 DEF QuarantineEntry, OnlyRow
  <2>2. PICK c : proc'[p] = c /\ c.pc \in {"unembed", "idle"}
    BY <1>1, <1>9, LandsAt DEF QuarantineEntry
  <2>3. PICK x : x = IF at(p, "born") THEN "born" ELSE "danger"
    OBVIOUS
  <2>4. PICK r : r = [row EXCEPT !.ps = "quarantined", !.reason = x]
    OBVIOUS
  <2>5. SameText(r, row) /\ r \in Row /\ r.ps = "quarantined"
    BY <1>1, <2>3, <2>4 DEF SameText, Row, PipelineState
  <2>6. update_fields(r) /\ Moves(row.ps, r.ps)
    BY <1>9, <2>3, <2>4, <2>5 DEF QuarantineEntry, Moves
  <2>7. c.pc \in Resting \cup {"idle"}
    BY <2>2, RestingStates
  <2> QED BY <1>1, <2>1, <2>2, <2>5, <2>6, <2>7, SoloUpdates
<1>10. CASE ClearRetry(p)
  <2>1. UNCHANGED <<vec, born, latest>> /\ proc[p].pc \in {"clear", "releaseClear"}
    BY <1>10 DEF ClearRetry, OnlyRow
  <2>2. PICK r : r = [row EXCEPT !.retry = 0, !.waiting = FALSE]
    OBVIOUS
  <2>3. SameText(r, row) /\ r \in Row /\ r.ps = row.ps
    BY <1>1, <2>2 DEF SameText, Row
  <2>4. update_fields(r) /\ Moves(row.ps, r.ps)
    BY <1>10, <2>2, <2>3 DEF ClearRetry, Moves
  <2>5. CASE done(p)
    <3>1. PICK c : proc'[p] = c /\ c.pc = "idle"
      BY <1>1, <2>5, LandsAt
    <3> QED BY <1>1, <2>1, <2>3, <2>4, <3>1, SoloUpdates
  <2>6. CASE at(p, "clear") /\ then(p, "enqueue")
    <3>1. PICK c : proc'[p] = c /\ c.pc = "enqueue"
      BY <1>1, <2>6, LandsAt
    <3>2. exists /\ exists' /\ row'.ps = row.ps /\ SameText(row', row)
      BY <1>2, <2>1, <2>3, <2>4 DEF update_fields, SameText, Row
    <3>3. row.ps \in {None, "failed"}
      BY <2>6 DEF SoloInv, Staged, at
    <3>4. KeptIn(row', latest) /\ born /\ latest # None
      BY <1>2, <2>1, <3>2 DEF KeptIn, SameText
    <3>5. /\ Present(exists', vec', TRUE, c) /\ Staged(row', c) /\ Agrees(row', c)
          /\ Keeps(exists', row', latest', c)
      BY <2>1, <3>1, <3>2, <3>3, <3>4 DEF Present, Staged, Agrees, Keeps, Saving, Cycle
    <3>6. Moves(row.ps, row'.ps)
      BY <3>2 DEF Moves
    <3> QED BY <2>1, <3>1, <3>2, <3>4, <3>5, <3>6, SoloGoes
  <2> QED BY <1>10, <2>5, <2>6 DEF ClearRetry
<1>11. CASE Enqueue(p)
  <2>1. UNCHANGED <<born, latest>> /\ proc[p].pc = "enqueue"
    BY <1>11 DEF Enqueue, at, OnlyRow
  <2>2. PICK c : proc'[p] = c /\ c.pc = "embed"
    BY <1>1, <1>11, LandsAt DEF Enqueue
  <2>3. PICK r : r = [row EXCEPT !.ps = "pending"]
    OBVIOUS
  <2>4. SameText(r, row) /\ r \in Row /\ r.ps = "pending"
    BY <1>1, <2>3 DEF SameText, Row, PipelineState
  <2>5. row.ps \in {None, "failed"}
    BY <2>1 DEF SoloInv, Staged
  <2>6. Moves(row.ps, r.ps) /\ row.ps # "quarantined"
    BY <1>3, <2>4, <2>5 DEF Moves, PipelineState
  <2>7. update_fields(r)
    BY <1>11, <2>3 DEF Enqueue
  <2> QED BY <1>1, <2>1, <2>2, <2>4, <2>6, <2>7, RestingStates, SoloUpdates
<1>12. CASE SweepWrite(p)
  <2>1. UNCHANGED <<born, latest>> /\ proc[p].pc \in {"sweepRelease", "sweepRefuse"}
    BY <1>12 DEF SweepWrite, OnlyRow
  <2>2. CASE at(p, "sweepRelease")
    <3>1. PICK c : proc'[p] = c /\ c.pc \in {"reload", "idle"}
      BY <1>1, <1>12, <2>2, LandsAt DEF SweepWrite
    <3>2. PICK n, w : n = proc[p].snap.retry /\ w = proc[p].snap.waiting
      OBVIOUS
    <3>3. PICK r : r = [row EXCEPT !.ps = None, !.status = "published", !.reason = "none",
                                   !.retry = n, !.waiting = w]
      OBVIOUS
    <3>4. SameText(r, row) /\ r \in Row /\ r.ps = None
      BY <1>1, <1>3, <3>2, <3>3 DEF SameText, Row, Status
    <3>5. row.ps = "quarantined" /\ Moves(row.ps, r.ps)
      BY <2>2, <3>4 DEF SoloInv, Staged, Moves, at
    <3>6. update_fields(r)
      BY <1>12, <2>2, <3>2, <3>3 DEF SweepWrite
    <3>7. c.pc \in Resting \cup {"idle"} /\ proc[p].pc = "sweepRelease"
      BY <2>2, <3>1, RestingStates DEF at
    <3> QED BY <1>1, <2>1, <3>1, <3>4, <3>5, <3>6, <3>7, SoloUpdates
  <2>3. CASE ~at(p, "sweepRelease")
    <3>1. PICK c : proc'[p] = c /\ c.pc = "idle"
      BY <1>1, <1>12, <2>3, LandsAt DEF SweepWrite
    <3>2. PICK r : r = [row EXCEPT !.reason = "danger"]
      OBVIOUS
    <3>3. SameText(r, row) /\ r \in Row /\ r.ps = row.ps
      BY <1>1, <3>2 DEF SameText, Row
    <3>4. update_fields(r) /\ Moves(row.ps, r.ps)
      BY <1>12, <2>3, <3>2, <3>3 DEF SweepWrite, Moves
    <3> QED BY <1>1, <2>1, <3>1, <3>3, <3>4, SoloUpdates
  <2> QED BY <2>2, <2>3
<1>13. CASE ReleaseWrite(p)
  <2>1. UNCHANGED <<born, latest>> /\ proc[p].pc = "release"
    BY <1>13 DEF ReleaseWrite, at, OnlyRow
  <2>2. PICK c : proc'[p] = c /\ c.pc \in {"releaseClear", "idle"}
    BY <1>1, <1>13, LandsAt DEF ReleaseWrite
  <2>3. PICK r : r = [row EXCEPT !.ps = "failed", !.reason = "none"]
    OBVIOUS
  <2>4. SameText(r, row) /\ r \in Row /\ r.ps = "failed"
    BY <1>1, <2>3 DEF SameText, Row, PipelineState
  <2>5. row.ps = "quarantined" /\ Moves(row.ps, r.ps)
    BY <2>1, <2>4 DEF SoloInv, Staged, Moves
  <2>6. update_fields(r)
    BY <1>13, <2>3 DEF ReleaseWrite
  <2>7. c.pc \in Resting \cup {"idle"}
    BY <2>2, RestingStates
  <2> QED BY <1>1, <2>1, <2>2, <2>4, <2>5, <2>6, <2>7, SoloUpdates
<1> QED BY <1>4, <1>5, <1>6, <1>7, <1>8, <1>9, <1>10, <1>11, <1>12, <1>13

\* The statements that write a text: the filter's output, and the swap.
LEMMA SoloTexts ==
  ASSUME NEW p, Alone(p), SoloInv(p), TypeOK', FilterSave(p) \/ Swap(p)
  PROVE  SoloInv(p)' /\ SoloStep
<1>1. TypeOK /\ p \in Procs /\ row \in Row /\ proc[p] \in Control
  BY Landing DEF SoloInv
<1>2. exists /\ born /\ latest # None /\ KeptIn(row, latest)
  BY DEF SoloInv, Present, Keeps, FilterSave, Swap, at
<1>3. CASE FilterSave(p)
  <2>1. UNCHANGED <<vec, born, latest>> /\ proc[p].pc \in {"filterSave", "autoFilterSave"}
    BY <1>3 DEF FilterSave, OnlyRow
  <2>2. PICK c : proc'[p] = c /\ c.pc \in {"idle", "autoReload"}
    BY <1>1, <1>3, LandsAt DEF FilterSave
  <2>3. PICK x : x = proc[p].text
    OBVIOUS
  <2>4. x.ctx = None /\ (row.raw = NoText => x.src = latest)
    BY <2>1, <2>3 DEF SoloInv, Keeps
  <2>5. /\ exists' /\ row'.ps = row.ps /\ row'.raw = row.raw /\ row'.swapKey = row.swapKey
        /\ row'.content = row.content /\ row'.clean = x
    BY <1>1, <1>2, <1>3, <2>3 DEF FilterSave, update_fields, Row
  <2>6. KeptIn(row', latest')
    BY <1>2, <2>1, <2>4, <2>5 DEF KeptIn
  <2>7. c.pc \in Resting \cup {"idle"}
    BY <2>2, RestingStates
  <2>8. /\ Present(exists', vec', TRUE, c) /\ Staged(row', c) /\ Agrees(row', c)
        /\ Keeps(exists', row', latest', c)
    BY <1>2, <2>1, <2>5, <2>6, <2>7, AtRest
  <2>9. SoloStep
    BY <1>2, <2>5, QuietStep
  <2> QED BY <1>2, <2>1, <2>2, <2>8, <2>9 DEF SoloInv, Present
<1>4. CASE Swap(p)
  <2>1. PICK snap, art : snap = proc[p].snap /\ art = proc[p].text
    OBVIOUS
  <2>2. /\ proc[p].pc = "swap" /\ row.ps = "processing" /\ ~row.stale
        /\ snap.raw = row.raw /\ snap.marker = row.marker /\ snap.swapKey = row.swapKey
        /\ snap.content = row.content /\ snap.clean = row.clean
    BY <1>4, <2>1 DEF SoloInv, Staged, Agrees, Swap, at, Cycle
  <2>3. CASE OnlyFault /\ then(p, "fail")
    <3>1. PICK c : proc'[p] = c /\ c.pc = "fail"
      BY <1>1, <2>3, LandsAt
    <3>2. UNCHANGED <<exists, row, vec, born, latest>>
      BY <2>3 DEF OnlyFault
    <3>3. /\ Present(exists, vec, TRUE, c) /\ Staged(row, c) /\ Agrees(row, c)
          /\ Keeps(exists, row, latest, c)
      BY <1>2, <2>2, <3>1 DEF Present, Staged, Agrees, Keeps, Saving, Cycle
    <3> QED BY <1>2, <3>1, <3>2, <3>3, SoloLocal
  <2>4. CASE update_fields(Swapped(snap, art)) /\ goto(p, "curate", EmptyRow, art) /\ OnlyRow
    <3>1. PICK c : proc'[p] = c /\ c.pc = "curate"
      BY <1>1, <2>4, LandsAt
    <3>2. UNCHANGED <<vec, born, latest>>
      BY <2>4 DEF OnlyRow
    <3>3. CASE snap.swapKey = art
      <4>1. PICK r : r = [row EXCEPT !.ps = "refined"]
        OBVIOUS
      <4>2. SameText(r, row) /\ r \in Row /\ r.ps = "refined"
        BY <1>1, <4>1 DEF SameText, Row, PipelineState
      <4>3. update_fields(r) /\ Moves(row.ps, r.ps)
        BY <2>2, <2>4, <3>3, <4>1, <4>2 DEF Swapped, Moves
      <4> QED BY <1>1, <2>2, <3>1, <3>2, <4>2, <4>3, RestingStates, SoloUpdates
    <3>4. CASE snap.swapKey # art
      <4>1. PICK src, n : /\ src = IF snap.raw = NoText THEN effective_content(snap) ELSE row.raw
                          /\ n = IF art # effective_content(snap) THEN snap.marker + 1 ELSE row.marker
        OBVIOUS
      <4>2. PICK r : r = [row EXCEPT !.content = art, !.clean = NoText, !.ps = "refined",
                                     !.swapKey = art, !.raw = src, !.marker = n]
        OBVIOUS
      <4>3. update_fields(r)
        BY <2>4, <3>4, <4>1, <4>2 DEF Swapped
      <4>4. /\ exists' /\ row'.ps = "refined" /\ row'.content = art /\ row'.clean = NoText
            /\ row'.raw = src /\ row'.marker = n
        BY <1>1, <1>2, <4>2, <4>3 DEF update_fields, Row
      <4>5. effective_content(snap) = effective_content(row) /\ effective_content(row') = art
        BY <2>2, <4>4 DEF effective_content
      <4>6. row.raw # NoText => src = row.raw /\ src.ctx = None
        BY <1>2, <2>2, <4>1 DEF KeptIn
      <4>7. row.raw = NoText => src = effective_content(row) /\ src.ctx = None /\ src.src = latest
        BY <1>2, <2>2, <4>1, <4>5 DEF KeptIn, effective_content
      <4>8. NoText.src = None
        BY DEF NoText
      <4>9. src # NoText /\ src.ctx = None
        BY <1>2, <4>6, <4>7, <4>8
      <4>10. KeptIn(row', latest')
        BY <4>4, <4>9 DEF KeptIn
      <4>11. art # effective_content(row) => row'.marker > row.marker
        <5>1. row.marker \in Nat
          BY <1>1 DEF Row
        <5>2. art # effective_content(row) => n = row.marker + 1
          BY <2>2, <4>1, <4>5
        <5> QED BY <4>4, <5>1, <5>2
      <4>12. /\ Present(exists', vec', TRUE, c) /\ Staged(row', c) /\ Agrees(row', c)
             /\ Keeps(exists', row', latest', c)
        BY <1>2, <3>1, <3>2, <4>4, <4>10, RestingStates, AtRest
      <4>13. Moves(row.ps, row'.ps)
        BY <2>2, <4>4 DEF Moves
      <4>14. Abstract!Next \/ UNCHANGED Stage
        BY <1>1, <1>2, <4>4, <4>13, MovesAreSteps
      <4>15. SoloStep
        BY <2>2, <4>4, <4>5, <4>6, <4>11, <4>14
           DEF SoloStep, LeavesQuarantineOnlyByRelease, is_quarantined, SourceStays, SwapMovesMarker
      <4> QED BY <1>2, <3>1, <3>2, <4>12, <4>15 DEF SoloInv, Present
    <3> QED BY <3>3, <3>4
  <2> QED BY <1>4, <2>1, <2>3, <2>4 DEF Swap
<1> QED BY <1>3, <1>4

\* The deletion of the row.
LEMMA SoloDrop ==
  ASSUME NEW p, Alone(p), SoloInv(p), TypeOK', Drop(p)
  PROVE  SoloInv(p)' /\ SoloStep
<1>1. /\ proc[p].pc = "drop" /\ exists /\ born /\ vec = NoText /\ ~exists'
      /\ UNCHANGED <<row, vec, born, latest>>
  BY DEF Drop, at, OnlyRow, SoloInv, Present
<1>2. PICK c : proc'[p] = c /\ c.pc = "idle"
  BY LandsAt DEF Drop, SoloInv
<1>3. /\ Present(exists', vec', TRUE, c) /\ Staged(row', c) /\ Agrees(row', c)
      /\ Keeps(exists', row', latest', c)
  BY <1>1, <1>2, AtRest
<1>4. Stage # "absent" /\ Stage' = "absent"
  BY <1>1 DEF Stage, SoloInv, TypeOK, Row, PipelineState
<1>5. SoloStep
  BY <1>1, <1>4 DEF SoloStep, Abstract!Next, Abstract!Remove, LeavesQuarantineOnlyByRelease,
                    SourceStays, SwapMovesMarker
<1> QED BY <1>1, <1>2, <1>3, <1>5 DEF SoloInv, Present

\* The starts of the background tasks, and a crash.
LEMMA SoloTasks ==
  ASSUME NEW p, Alone(p), SoloInv(p), TypeOK', RefineRead(p) \/ Heal(p) \/ Crash(p)
  PROVE  SoloInv(p)' /\ SoloStep
<1>1. TypeOK /\ p \in Procs /\ row \in Row /\ proc[p] \in Control
  BY Landing DEF SoloInv
<1>2. CASE RefineRead(p)
  <2>1. UNCHANGED <<exists, row, vec, born, latest>> /\ exists
    BY <1>2 DEF RefineRead, StartsTask
  <2>2. PICK c : proc'[p] = c /\ c.pc = "claim" /\ c.snap = row
    BY <1>1, <1>2, LandsAt DEF RefineRead
  <2>3. born /\ latest # None /\ KeptIn(row, latest)
    BY <2>1 DEF SoloInv, Present, Keeps
  <2>4. /\ Present(exists, vec, TRUE, c) /\ Staged(row, c) /\ Agrees(row, c)
        /\ Keeps(exists, row, latest, c)
    BY <2>1, <2>2, <2>3 DEF Present, Staged, Agrees, Keeps, Saving, Cycle
  <2> QED BY <2>1, <2>2, <2>3, <2>4, SoloLocal
<1>3. CASE Heal(p)
  <2>1. UNCHANGED <<exists, row, vec, born, latest>> /\ exists
    BY <1>3 DEF Heal, StartsTask
  <2>2. PICK c : proc'[p] = c /\ c.pc = "embed"
    BY <1>1, <1>3, LandsAt DEF Heal
  <2>3. born
    BY <2>1 DEF SoloInv, Present
  <2>4. /\ Present(exists, vec, TRUE, c) /\ Staged(row, c) /\ Agrees(row, c)
        /\ Keeps(exists, row, latest, c)
    BY <2>1, <2>2, RestingStates, RestingFits
  <2> QED BY <2>1, <2>2, <2>3, <2>4, SoloLocal
<1>4. CASE Crash(p)
  <2>1. UNCHANGED <<exists, row, vec, born, latest>> /\ proc[p].pc # "idle"
    BY <1>4 DEF Crash, OnlyFault, at
  <2>2. PICK c : proc'[p] = c /\ c.pc = "idle"
    BY <1>1, <1>4, LandsAt DEF Crash
  <2> QED BY <2>1, <2>2, SoloRests
<1> QED BY <1>2, <1>3, <1>4

\* The steps of the environment.
LEMMA SoloOutside ==
  ASSUME NEW p, Alone(p), SoloInv(p), TypeOK',
         LeaseExpires \/ Reclaim \/ BackoffElapses \/ MatesChange \/ UNCHANGED vars
  PROVE  SoloInv(p)' /\ SoloStep
<1>1. TypeOK /\ p \in Procs /\ row \in Row /\ proc[p] \in Control
  BY Landing DEF SoloInv
<1>2. ASSUME UNCHANGED <<exists, vec, proc, born, latest>>, SameText(row', row), row'.ps = row.ps,
             Owns(p) => row'.stale = row.stale
      PROVE  SoloInv(p)' /\ SoloStep
  <2>1. SoloStep
    BY <1>2, QuietStep DEF SameText
  <2>2. PICK c : c = proc[p]
    OBVIOUS
  <2>3. Present(exists, vec, born, c) /\ Staged(row, c) /\ Agrees(row, c) /\ Keeps(exists, row, latest, c)
    BY <2>2 DEF SoloInv
  <2>4. Staged(row', c) /\ Agrees(row', c)
    BY <1>2, <2>2, <2>3 DEF Staged, Agrees, SameText, Owns
  <2>5. KeptIn(row, latest) => KeptIn(row', latest)
    BY <1>2 DEF KeptIn, SameText
  <2>6. Keeps(exists, row', latest, c)
    BY <1>2, <2>3, <2>5 DEF Keeps, SameText
  <2> QED BY <1>2, <2>1, <2>2, <2>3, <2>4, <2>6 DEF SoloInv
<1>3. CASE LeaseExpires
  <2>1. ~Owns(p)
    <3>1. ASSUME Owns(p) PROVE overruns < 0
      BY <1>1, <1>3, <3>1 DEF LeaseExpires, Alone
    <3>2. overruns \in Nat
      BY <1>1 DEF TypeOK
    <3> QED BY <3>1, <3>2
  <2>2. UNCHANGED <<exists, vec, proc, born, latest>> /\ SameText(row', row) /\ row'.ps = row.ps
    BY <1>1, <1>3 DEF LeaseExpires, SameText, Row
  <2> QED BY <1>2, <2>1, <2>2
<1>4. CASE BackoffElapses
  <2>1. UNCHANGED <<exists, vec, proc, born, latest>> /\ SameText(row', row) /\ row'.ps = row.ps
        /\ row'.stale = row.stale
    BY <1>1, <1>4 DEF BackoffElapses, OnlyRow, SameText, Row
  <2> QED BY <1>2, <2>1
<1>5. CASE MatesChange \/ UNCHANGED vars
  <2>1. UNCHANGED <<exists, vec, proc, born, latest, row>>
    BY <1>5 DEF MatesChange, vars
  <2> QED BY <1>2, <2>1 DEF SameText
<1>6. CASE Reclaim
  <2>1. /\ UNCHANGED <<exists, vec, proc, born, latest>> /\ exists
        /\ row.ps = "processing" /\ row.stale /\ SameText(row', row) /\ row'.ps = "pending"
    BY <1>1, <1>6 DEF Reclaim, update_fields, OnlyRow, SameText, Row
  <2>2. PICK c : c = proc[p]
    OBVIOUS
  <2>3. Present(exists, vec, born, c) /\ Staged(row, c) /\ Agrees(row, c) /\ Keeps(exists, row, latest, c)
    BY <2>2 DEF SoloInv
  <2>4. c.pc \in Saving => MayLand(row'.ps, c.snap.ps)
    BY <2>1, <2>3, PublicationAssumption DEF Staged, MayLand, PipelineState
  <2>5. Staged(row', c) /\ Agrees(row', c)
    BY <2>1, <2>3, <2>4, PublicationAssumption DEF Staged, Agrees, SameText, PipelineState
  <2>6. KeptIn(row, latest) => KeptIn(row', latest)
    BY <2>1 DEF KeptIn, SameText
  <2>7. Keeps(exists, row', latest, c)
    BY <2>1, <2>3, <2>6 DEF Keeps, SameText
  <2>8. born /\ Present(exists, vec, TRUE, c)
    BY <2>1, <2>3 DEF Present
  <2>9. Moves(row.ps, row'.ps) /\ row.ps # "quarantined"
    BY <2>1 DEF Moves
  <2> QED BY <2>1, <2>2, <2>5, <2>7, <2>8, <2>9, SoloGoes
<1> QED BY <1>3, <1>4, <1>5, <1>6

\* Every step of an operation that does not race keeps the invariant.
LEMMA SoloNext ==
  ASSUME NEW p, Alone(p), SoloInv(p), [Next]_vars
  PROVE  SoloInv(p)' /\ SoloStep
<1>1. TypeOK'
  BY TypeStep, PublicationAssumption DEF SoloInv
<1>2. CASE LeaseExpires \/ Reclaim \/ BackoffElapses \/ MatesChange \/ UNCHANGED vars
  BY <1>1, <1>2, SoloOutside
<1>3. CASE UserOp(p)
  BY <1>3, SoloUserOps
<1>4. CASE RefineRead(p) \/ Heal(p) \/ Crash(p)
  BY <1>1, <1>4, SoloTasks
<1>5. CASE Step(p)
  <2>1. \/ Unembed(p) \/ DeleteVector(p) \/ Produce(p) \/ Curate(p) \/ Reload(p) \/ GateRead(p)
           \/ AutoFilterRead(p) \/ AutoReload(p)
        \/ Save(p) \/ Mark(p) \/ SavePublished(p) \/ ClusterSave(p)
        \/ Embed(p) \/ Claim(p) \/ Noop(p) \/ RecordFailure(p) \/ Flip(p) \/ QuarantineEntry(p)
           \/ ClearRetry(p) \/ Enqueue(p) \/ SweepWrite(p) \/ ReleaseWrite(p)
        \/ FilterSave(p) \/ Swap(p) \/ Drop(p)
    BY <1>5 DEF Step
  <2> QED BY <1>1, <2>1, SoloLocalSteps, SoloWholeRow, SoloColumns, SoloTexts, SoloDrop
<1>6. \/ UserOp(p) \/ RefineRead(p) \/ Heal(p) \/ Step(p) \/ Crash(p)
      \/ LeaseExpires \/ Reclaim \/ BackoffElapses \/ MatesChange \/ UNCHANGED vars
  BY DEF Next, Alone
<1> QED BY <1>2, <1>3, <1>4, <1>5, <1>6

\* pipeline_state follows the documented lifecycle (ImplementsLifecycle) when
\* operations do not race: every statement of add, update, refine, publish,
\* release and the document sweep is a step of Lifecycle or leaves the stage
\* alone, with crashes, store errors, reclaims and backoffs anywhere between.
THEOREM LifecycleRefinement ==
  ASSUME NEW CONSTANT p, Alone(p)
  PROVE  Spec => ImplementsLifecycle
<1>1. Init => SoloInv(p)
  BY SoloInit
<1>2. SoloInv(p) /\ [Next]_vars => SoloInv(p)' /\ [Abstract!Next]_Stage
  BY SoloNext DEF SoloStep
<1>3. Init => Abstract!Init
  BY DEF Init, Stage, Abstract!Init
<1> QED BY <1>1, <1>2, <1>3, PTL DEF Spec, ImplementsLifecycle, Abstract!Spec

\* What one process at a time keeps: no vector outlives its row, and the last
\* text a user stored is in the row unless an older source took its place.
THEOREM SerialSafety ==
  ASSUME NEW CONSTANT p, Alone(p)
  PROVE  Spec => [](NoOrphanVector /\ LossNeedsOldSource)
<1>1. Init => SoloInv(p)
  BY SoloInit
<1>2. SoloInv(p) /\ [Next]_vars => SoloInv(p)'
  BY SoloNext
<1>3. SoloInv(p) => NoOrphanVector /\ LossNeedsOldSource
  <2> SUFFICES ASSUME SoloInv(p) PROVE NoOrphanVector /\ LossNeedsOldSource
    OBVIOUS
  <2>1. NoOrphanVector
    BY DEF SoloInv, Present, NoOrphanVector
  <2>2. LossNeedsOldSource
    BY DEF SoloInv, Keeps, KeptIn, LossNeedsOldSource
  <2> QED BY <2>1, <2>2
<1> QED BY <1>1, <1>2, <1>3, PTL DEF Spec

\* What no statement does while operations do not race: take a row out of
\* quarantine other than by a release, change the source payload once it is
\* there, or swap the served text without moving the marker.
THEOREM SerialStepsSafety ==
  ASSUME NEW CONSTANT p, Alone(p)
  PROVE  Spec => QuarantineIsTerminal /\ SourceIsImmutable /\ MarkerMovesWithSwap
<1>1. Init => SoloInv(p)
  BY SoloInit
<1>2. SoloInv(p) /\ [Next]_vars =>
        /\ SoloInv(p)' /\ [LeavesQuarantineOnlyByRelease]_vars /\ [SourceStays]_vars
        /\ [SwapMovesMarker]_vars
  BY SoloNext DEF SoloStep
<1> QED BY <1>1, <1>2, PTL DEF Spec, QuarantineIsTerminal, SourceIsImmutable, MarkerMovesWithSwap
=============================================================================
