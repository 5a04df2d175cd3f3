----------------------------- MODULE Lifecycle -----------------------------
(***************************************************************************)
(* What the refinement lifecycle promises: the pipeline_state of one       *)
(* memory as PipelineState and the refine module document it, with no      *)
(* stores, no snapshots and no processes.                                  *)
(***************************************************************************)
VARIABLE stage      \* "absent", "none" (SQL NULL), or a pipeline state

Init == stage = "absent"

\* A memory is created outside the refinement queue or inside it.
Create == stage = "absent" /\ stage' \in {"none", "pending"}

\* A first publication or an edit enrols the row; an edit of a refined row or
\* a re-publication of a failed one starts a new cycle.
Enrol == stage \in {"none", "refined", "failed"} /\ stage' = "pending"

\* A worker takes a waiting row; it ends refined or failed, or, when the
\* worker dies, back in the queue.
Claim  == stage \in {"pending", "failed"} /\ stage' = "processing"
Finish == stage = "processing" /\ stage' \in {"refined", "failed", "pending"}

\* The danger lane: entered from anywhere, left only by a release.
Quarantine == stage \notin {"absent", "quarantined"} /\ stage' = "quarantined"
Release    == stage = "quarantined" /\ stage' \in {"failed", "none"}

Remove == stage # "absent" /\ stage' = "absent"

Next == Create \/ Enrol \/ Claim \/ Finish \/ Quarantine \/ Release \/ Remove

Spec == Init /\ [][Next]_stage
=============================================================================
