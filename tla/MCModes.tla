------------------------------ MODULE MCModes ------------------------------
(***************************************************************************)
(* Publication and Workflow for TLC under the settings that need bounds of *)
(* their own: one process with every operation (serial), the curated       *)
(* policy (curated), refine workers alone (workers), racing processes that *)
(* come to rest under the immediate policy (live), and workflow calls that *)
(* do not race (workflow).  A behaviour keeps the mode it starts in; the   *)
(* module that does not run rests in its initial state.                    *)
(***************************************************************************)
EXTENDS Naturals, FiniteSets

CONSTANTS None, Texts, Dangerous

VARIABLES mode, exists, row, vec, mates, proc, born, ops, faults, overruns, latest,
          exempted, found, status, lockedBy, lockedAt, history, req, now, calls, trail

pub  == <<exists, row, vec, mates, proc, born, ops, faults, overruns, latest, exempted>>
wf   == <<found, status, lockedBy, lockedAt, history, req, now, calls, trail>>
suite == <<mode, pub, wf>>

AllOps == {"update", "promote", "publish", "cluster", "quarantine", "release",
           "sweep", "filter", "delete", "refine", "heal", "crash"}

LiveProcs == {"p1", "p2"}

Serial == INSTANCE Publication WITH
  Procs <- {"p1"}, Contexts <- {"x1"}, DangerousContexts <- {}, Ops <- AllOps,
  FlipTo <- {"published", "raw"}, Curated <- FALSE, AutoFilter <- TRUE,
  MaxAttempts <- 2, MaxOps <- 3, MaxFaults <- 2, MaxOverruns <- 0
Curation == INSTANCE Publication WITH
  Procs <- {"p1"}, Contexts <- {"x1", "x2"}, DangerousContexts <- {"x2"},
  Ops <- AllOps \ {"release", "sweep", "filter"},
  FlipTo <- {"published", "raw"}, Curated <- TRUE, AutoFilter <- FALSE,
  MaxAttempts <- 2, MaxOps <- 3, MaxFaults <- 2, MaxOverruns <- 0
Workers == INSTANCE Publication WITH
  Procs <- {"p1", "p2", "p3"}, Texts <- Texts \ Dangerous, Dangerous <- {},
  Contexts <- {"x1"}, DangerousContexts <- {},
  Ops <- {"refine", "heal", "crash"}, FlipTo <- {}, Curated <- FALSE, AutoFilter <- FALSE,
  MaxAttempts <- 2, MaxOps <- 0, MaxFaults <- 3, MaxOverruns <- 1
Live == INSTANCE Publication WITH
  Procs <- LiveProcs, Texts <- Texts \ Dangerous, Dangerous <- {},
  Contexts <- {"x1"}, DangerousContexts <- {},
  Ops <- AllOps,
  FlipTo <- {"published"}, Curated <- FALSE, AutoFilter <- FALSE,
  MaxAttempts <- 2, MaxOps <- 1, MaxFaults <- 2, MaxOverruns <- 0
Calls == INSTANCE Workflow WITH
  Callers <- {"c1"}, Actors <- {"a1", "a2"}, RateLimit <- 9, RateWindow <- 1,
  StaleAge <- 1, MayDelete <- FALSE, MayCrash <- FALSE, MaxNow <- 2, MaxCalls <- 5,
  exists <- found

Init ==
  /\ Calls!Init
  /\ \/ mode = "serial"  /\ Serial!Init
     \/ mode = "curated" /\ Curation!Init
     \/ mode = "workers" /\ Workers!Init
     \/ mode = "live"    /\ Live!Init
     \/ mode = "workflow" /\ Workers!Init

Next ==
  /\ \/ mode = "serial"   /\ Serial!Next   /\ UNCHANGED wf
     \/ mode = "curated"  /\ Curation!Next /\ UNCHANGED wf
     \/ mode = "workers"  /\ Workers!Next  /\ UNCHANGED wf
     \/ mode = "live"     /\ Live!Next     /\ UNCHANGED wf
     \/ mode = "workflow" /\ Calls!Next    /\ UNCHANGED pub
  /\ UNCHANGED mode

\* Publication.Fairness, for the behaviours of the live mode.
Living(A) == mode = "live" /\ A /\ UNCHANGED <<mode, wf>>
Fairness ==
  /\ \A p \in LiveProcs : WF_suite(Living(Live!Step(p)))
  /\ WF_suite(Living(\E p \in LiveProcs : Live!RefineRead(p)))
  /\ WF_suite(Living(\E p \in LiveProcs : Live!Heal(p)))
  /\ WF_suite(Living(Live!LeaseExpires))
  /\ WF_suite(Living(Live!Reclaim))
  /\ WF_suite(Living(Live!BackoffElapses))

Spec == Init /\ [][Next]_suite /\ Fairness

-----------------------------------------------------------------------------
\* Operations that do not race implement the documented lifecycle.
Abstract == INSTANCE Lifecycle WITH
  stage <- IF mode = "serial" THEN Serial!Stage ELSE "absent"
ImplementsLifecycle == Abstract!Spec

\* What no step may do as long as operations do not race: leave quarantine but by
\* release, change the source payload, swap the served text under the same marker
\* (Publication), or take a lock over that is neither stale nor its own (Workflow).
SerialSteps ==
  [][/\ mode = "serial" =>
          Serial!LeavesQuarantineOnlyByRelease /\ Serial!SourceStays /\ Serial!SwapMovesMarker
     /\ mode = "workflow" => Calls!LockPassesByRight]_suite

\* Publication's RefinementConverges and IndexConverges under the immediate
\* policy: refinement comes to rest, and the vector follows the served text.
ImmediateConverges ==
  <>[](mode = "live" /\ exists =>
         /\ row.ps \notin {"pending", "processing"}
         /\ ~Live!refine_intake(row)
         /\ row.ps = "refined" => vec = Live!effective_content(row))

\* What holds in each mode: no orphan vector and no lost text without races, the
\* gate before everything issuance serves under the curated policy, the retry
\* budget and the exclusive claim of racing workers (Publication), the transition
\* table and the audit trail of calls that do not race (Workflow).
ModesSafe ==
  /\ mode = "serial" => Serial!TypeOK /\ Serial!NoOrphanVector /\ Serial!LossNeedsOldSource
  /\ mode = "curated" => Curation!TypeOK /\ Curation!VisibleIsGated
  /\ mode = "live" => Live!TypeOK
  /\ mode = "workers" => Workers!TypeOK /\ Workers!RetryWithinBudget /\ Workers!ClaimIsExclusive
  /\ Calls!TypeOK /\ Calls!DocumentedEdgesOnly /\ Calls!AuditIsTrail
=============================================================================
