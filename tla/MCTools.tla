------------------------------ MODULE MCTools ------------------------------
(***************************************************************************)
(* The command line's tools and the automation for TLC: one of the         *)
(* integration commands, the update checks, the applied updates, the       *)
(* update timer, the exports and imports, the dead-letter queue and the    *)
(* rule files runs; the others rest in one initial state.  The constants   *)
(* stay parameters, so that what TLC checks is proved for all of them.     *)
(***************************************************************************)
EXTENDS Portability, TLC

CONSTANTS
  PackFiles, Schemas, PackOf, MaxVersion, MaxEdits, MaxCrashes,        \* Integration
  Procs, Dists, First, TTL, NegTTL, Boxes, MaxTime, MaxApplies,        \* Updates
  Entries, MaxAttempts, Backoff, BackoffCap, Callers, RuleFiles, RowIds, MaxClock,
  MaxCalls, MaxChanges                                                 \* Automation

VARIABLES
  which,
  version, disk, schema, manifest, block, mcp, format, cmd, settled, edits, crashes,
  now, release, installed, cache, call, answer, failedAt, raced, partial, apply, history,
  applied, overlapped, service, units, enabled,
  clock, dlq, pass, retry, bumps, crossed, tree, rules, ruling, met, doubled, calls, changes

harness == <<version, disk, schema, manifest, block, mcp, format, cmd, settled, edits, crashes>>
checks  == <<now, release, cache, call, answer, failedAt, raced, partial>>
applies == <<installed, apply, history, applied, overlapped>>
timer   == <<service, units, enabled>>
jobs    == <<clock, dlq, pass, retry, bumps, crossed, tree, rules, ruling, met, doubled, calls,
             changes>>
suite   == <<harness, checks, applies, timer, xvars, jobs, which>>

\* The rows of a file from elsewhere, and those the server writes.
R(s, t) == [status |-> s, text |-> t]
MCForeign == {R("published", "clean"), R("published", "danger"), R("raw", "odd")}
MCLocal   == {R("raw", "clean"), R("published", "private")}

\* The first version ships a file that the second does not.
MCPackOf == [v \in 1..2 |-> IF v = 1 THEN {"a", "b"} ELSE {"a"}]

Deploy == INSTANCE Integration WITH Files <- PackFiles
Update == INSTANCE Updates
Jobs == INSTANCE Automation WITH
  Files <- RuleFiles, MaxTime <- MaxClock, MaxEdits <- MaxChanges,
  now <- clock, applied <- bumps, disk <- tree, call <- ruling, edits <- changes

\* What the theorems about the components assume of their constants.
ASSUME ToolsAssumption == Deploy!LimitsOK /\ Update!LimitsOK /\ Jobs!LimitsOK

MCInit ==
  /\ which \in {"deploy", "check", "apply", "timer", "port", "dlq", "rules"}
  /\ Deploy!Init /\ Update!Init /\ Init /\ Jobs!Init
  /\ which # "deploy" => version = 1 /\ format = "json" /\ manifest.legacy = 0
  /\ \E d \in Dists : release[d] = 1
  /\ which # "check" => \A d, e \in Dists : release[d] = release[e]
  /\ which # "port" => store = Nothing

MCNext ==
  /\ \/ /\ which = "deploy" /\ Deploy!Next
        /\ UNCHANGED <<checks, applies, timer, xvars, jobs>>
     \/ /\ \/ which = "check" /\ Update!CheckNext
           \/ which = "apply" /\ (Update!ApplyNext \/ Update!Tick)
           \/ which = "timer" /\ Update!TimerNext
        /\ UNCHANGED <<harness, xvars, jobs>>
     \/ /\ which = "port" /\ Next
        /\ UNCHANGED <<harness, checks, applies, timer, jobs>>
     \/ /\ \/ which = "dlq" /\ Jobs!DlqNext
           \/ which = "rules" /\ Jobs!RuleNext
        /\ UNCHANGED <<harness, checks, applies, timer, xvars>>
  /\ UNCHANGED which

MCSpec == MCInit /\ [][MCNext]_suite

Symmetry == Permutations(Procs)

-----------------------------------------------------------------------------
\* The deployed pack (Integration).
IntegrationSafe == which = "deploy" => Deploy!IntegrationSafe
\* Update checks and applies (Updates).
UpdatesSafe == which \in {"check", "apply", "timer"} => Update!UpdatesSafe
\* The dead-letter queue and the rule files (Automation).
AutomationSafe == which \in {"dlq", "rules"} => Jobs!AutomationSafe

\* What no step of a command may do: touch a file that is the user's
\* (Integration), retry a dead network within its window or unschedule another box
\* (Updates), give up an entry with attempts left (Automation).
ToolsSteps ==
  [][/\ which = "deploy" => Deploy!SparesStep
     /\ which = "check" => Update!PaysStep
     /\ which = "timer" => Update!SparesStep
     /\ which = "dlq" => Jobs!BudgetStep]_suite
=============================================================================
