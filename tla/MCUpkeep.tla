------------------------------ MODULE MCUpkeep ------------------------------
(***************************************************************************)
(* What runs without being asked, for TLC: one of the code graph's watch   *)
(* scheduler, the federation meta poller, the schema migrations of         *)
(* processes that open the store, and the background processor (its        *)
(* threads, or its ledger passes) runs; the others rest in their initial   *)
(* states.  The constants stay parameters: UpkeepProofs proves for all of  *)
(* them what TLC checks here.                                              *)
(***************************************************************************)
EXTENDS GraphWatch

CONSTANTS
  Ids, Senders, Server, Scoped, Blocked, MaxTs, PageLimit, MaxPages, MaxUpserts,
  MaxFaults,                                                     \* FederationIndex
  Procs, Columns, Legacy, Hashes, Realms, Edges, MaxWrites, MaxCrashes,  \* Migrations
  Threads, Verbs, CatchUp, TTL, MaxHour, MaxErrors, MaxStops     \* Processor

VARIABLES
  which,
  index, page, mirror, since, poll, late, upserts, faults,
  cols, flags, unfilled, edgeShape, edges, ccrShape, ccr, triggers, fts, proc, overtaken,
  cut, refused, writes, crashes,
  handle, event, signalled, threads, timedOut, hour, rolledAt, prunedAt, verb, raw, hourly,
  tardy, skipped, lost, errors, stops

meta      == <<index, page, mirror, since, poll, late, upserts, faults>>
schema    == <<cols, flags, unfilled, edgeShape, edges, ccrShape, ccr, triggers, fts, proc,
               overtaken, cut, refused, writes, crashes>>
processor == <<handle, event, signalled, threads, timedOut, hour, rolledAt, prunedAt, verb,
               raw, hourly, tardy, skipped, lost, errors, stops>>
suite     == <<vars, meta, schema, processor, which>>

Meta == INSTANCE FederationIndex
Schema == INSTANCE Migrations WITH Projects <- Realms, failed <- refused
Background == INSTANCE Processor WITH
  loop <- threads, late <- tardy, faults <- errors, MaxFaults <- MaxErrors

\* What the theorems assume of page size, hours and bounds; some thread runs.
ASSUME UpkeepAssumption ==
  Meta!PagesOK /\ Background!LimitsOK /\ Schema!LimitsOK /\ Threads # {}

\* What rests rests in one initial state.
MCInit ==
  /\ which \in {"watch", "meta", "schema", "threads", "ledger"}
  /\ Init /\ Meta!Init /\ Schema!Init /\ Background!Init
  /\ which # "schema" => ccr = <<>> /\ \A e \in Edges : edges[e] = "none"

Threading ==
  Background!Control \/ \E t \in Threads : Background!LoopStep(t) \/ Background!Fault(t)

\* One thread is enough for the passes over the ledger.
Keeper == CHOOSE t \in Threads : TRUE
Bookkeeping ==
  \/ Background!start_background_processor(Keeper) \/ Background!Ledger
  \/ Background!LoopStep(Keeper) \/ Background!Fault(Keeper)

MCNext ==
  /\ \/ which = "watch"   /\ Next        /\ UNCHANGED <<meta, schema, processor>>
     \/ which = "meta"    /\ Meta!Next   /\ UNCHANGED <<vars, schema, processor>>
     \/ which = "schema"  /\ Schema!Next /\ UNCHANGED <<vars, meta, processor>>
     \/ which = "threads" /\ Threading   /\ UNCHANGED <<vars, meta, schema>>
     \/ which = "ledger"  /\ Bookkeeping /\ UNCHANGED <<vars, meta, schema>>
  /\ UNCHANGED which

\* The fairness of the module that runs.
Watching(A)    == which = "watch" /\ A /\ UNCHANGED <<meta, schema, processor, which>>
Processing(A)  == which = "threads" /\ A /\ UNCHANGED <<vars, meta, schema, which>>
MCFairness ==
  /\ \A l \in Loops : WF_suite(Watching(LoopStep(l)))
  /\ \A u \in Users : WF_suite(Watching(UserStep(u)))
  /\ \A p \in Projects : WF_suite(Watching(Elapse(p)))
  /\ WF_suite(which = "meta" /\ Meta!Tick /\ UNCHANGED <<vars, schema, processor, which>>)
  /\ \A p \in Procs :
       WF_suite(which = "schema" /\ Schema!Open(p) /\ UNCHANGED <<vars, meta, processor, which>>)
  /\ \A t \in Threads : WF_suite(Processing(Background!LoopStep(t)))
  /\ WF_suite(Processing(Background!Joined))

MCSpec == MCInit /\ [][MCNext]_suite /\ MCFairness

-----------------------------------------------------------------------------
\* What the poller mirrored (FederationIndex).
MirrorSafe == Meta!MirrorSafe
\* Flags, and the full-text index of the cache (Migrations).
SchemaSafe == Schema!SchemaSafe
\* The loops and the hours they roll up (Processor).
ProcessorSafe == Background!ProcessorSafe

\* What no step of the unasked work may do: change or re-attribute a row of
\* another origin (FederationIndex), drop a minted edge or a cached original in a
\* rebuild nobody overtook (Migrations).
UpkeepSteps ==
  [][/\ which = "meta" => Meta!OriginStep
     /\ which = "schema" => Schema!MintedStep /\ Schema!CachedStep]_suite

\* What the unasked work comes to in the end: hints and jobs are served
\* (GraphWatch), every row the peer may see is mirrored (FederationIndex), every
\* process connects (Migrations), and a stopped processor rests (Processor).
UpkeepServes ==
  /\ WorkIsServed /\ Meta!EventuallyMirrored
  /\ which = "schema" => Schema!EveryoneConnects
  /\ which = "threads" => Background!StopIsFinal
=============================================================================
