------------------------------ MODULE MCServer ------------------------------
(***************************************************************************)
(* Who calls the server and what a call remembers, for TLC: one of the     *)
(* agent tokens, the REST logins, the session store, the awareness cursor, *)
(* the search feedback, the hooks (session starts, or queries against the  *)
(* limiter) and the metrics sidecar (its key, or its writes) runs; the     *)
(* others rest in their initial states.  The constants of the components   *)
(* stay parameters.                                                        *)
(***************************************************************************)
EXTENDS AgentTokens

CONSTANTS
  Tokens, LoginThreshold, TotpThreshold, MaxAttempts, LockoutTicks, ChallengeTicks,
  SessionTicks, SessionCap, MaxLoginTime, MaxSessions, MaxFailures,      \* RestAuth
  Stores, Names, Messages, Owners, Contents, MaxTurns, MaxSaves,         \* Sessions
  Reporters, Cited, Events, RowCap, MaxReports, MaxHides,                \* Feedback
  Rows, Kinds, Composers, Chats, FeedLimit, FeedWindow, MaxFeedTime,     \* Awareness
  Callers, MaxRows, Secret, RowLimit, Overfetch, RateLimit, RateWindow, Sizes, MaxChars,
  MaxMinute, MaxStarts, MaxQueries, MaxRetires,                          \* Hooks
  Hosts, Recorders, HostOf, Nobody, MaxKeys, MaxCalls, MaxBreaks         \* Vitals

VARIABLES
  which,
  enrolled, revoked, disabled, fail, totpFail, lastStep, challenge, logins, verified, now,
  sessions, turns, bound, checkpoints, op, returned, saves,
  stamp, visible, cursor, call, rendered, excused, raced, basis, time,
  shown, stats, epoch, report, consumer, appended, answered, dropped, tainted, reports, hides,
  status, refuse, hook, ledger, stored, minute, admitted, calls, retires,
  file, start, key, shape, lock, boot, conn, work, open, rows, events, closed, recorded, cut,
  lostKey, hindered, minted, made, breaks

auth     == <<enrolled, revoked, disabled, fail, totpFail, lastStep, challenge, logins,
              verified, now>>
session  == <<sessions, turns, bound, checkpoints, op, returned, saves>>
aware    == <<stamp, visible, cursor, call, rendered, excused, raced, basis, time>>
feedback == <<shown, stats, epoch, report, consumer, appended, answered, dropped, tainted,
              reports, hides>>
hooks    == <<status, refuse, hook, ledger, stored, minute, admitted, calls, retires>>
vitals   == <<file, start, key, shape, lock, boot, conn, work, open, rows, events, closed,
              recorded, cut, lostKey, hindered, minted, made, breaks>>
suite    == <<tvars, auth, session, aware, feedback, hooks, vitals, which>>

Rest == INSTANCE RestAuth WITH MaxTime <- MaxLoginTime, sessions <- logins
Store == INSTANCE Sessions WITH Procs <- Stores, Agents <- Owners, answered <- returned
Feed == INSTANCE Feedback
Aware == INSTANCE Awareness WITH
  Threads <- Composers, Sessions <- Chats, Window <- FeedWindow, MaxTime <- MaxFeedTime,
  shown <- rendered, now <- time
Hook == INSTANCE Hooks WITH
  Threads <- Callers, Window <- RateWindow, MaxTime <- MaxMinute, MaxSessions <- MaxStarts,
  call <- hook, now <- minute
Sidecar == INSTANCE Vitals WITH
  Procs <- Hosts, Threads <- Recorders, ProcOf <- HostOf, None <- Nobody,
  MaxFaults <- MaxBreaks, answered <- recorded, calls <- made, faults <- breaks

\* One row of a peer's among the agent's own; two threads of one process, one of another.
MCKinds  == [r \in Rows |-> IF r = "r1" THEN "peer" ELSE "own"]
MCHostOf == [t \in Recorders |-> IF t = "u" THEN "q" ELSE "p"]

\* What the theorems assume of the limits and names.
ASSUME ServerAssumption ==
  /\ Rest!LimitsOK /\ Store!NamesOK /\ Feed!LimitsOK
  /\ Aware!LimitsOK /\ Hook!LimitsOK /\ Sidecar!LimitsOK

\* What rests rests in one initial state.
MCInit ==
  /\ which \in {"tokens", "rest", "sessions", "aware", "feedback", "start", "query", "key",
                "write"}
  /\ Init /\ Rest!Init /\ Store!Init /\ Aware!Init /\ Feed!Init /\ Hook!Init /\ Sidecar!Init
  /\ which # "tokens" => keyFile = "old"
  /\ which # "rest" => enrolled = {}
  /\ which # "start" => ~refuse
  /\ IF which = "key" THEN Sidecar!Fresh ELSE Sidecar!Running
  /\ which # "write" => shape = "six"

MCNext ==
  /\ \/ /\ which = "tokens" /\ Next
        /\ UNCHANGED <<auth, session, aware, feedback, hooks, vitals>>
     \/ /\ which = "rest" /\ Rest!Next
        /\ UNCHANGED <<tvars, session, aware, feedback, hooks, vitals>>
     \/ /\ which = "sessions" /\ Store!Next
        /\ UNCHANGED <<tvars, auth, aware, feedback, hooks, vitals>>
     \/ /\ which = "aware" /\ Aware!Next
        /\ UNCHANGED <<tvars, auth, session, feedback, hooks, vitals>>
     \/ /\ which = "feedback" /\ Feed!Next
        /\ UNCHANGED <<tvars, auth, session, aware, hooks, vitals>>
     \/ /\ \/ which = "start" /\ Hook!SessionNext
           \/ which = "query" /\ Hook!QueryNext
        /\ UNCHANGED <<tvars, auth, session, aware, feedback, vitals>>
     \/ /\ \/ which = "key" /\ (Sidecar!KeyNext \/ Sidecar!CrashNext)
           \/ which = "write" /\ Sidecar!Next
        /\ UNCHANGED <<tvars, auth, session, aware, feedback, hooks>>
  /\ UNCHANGED which

MCSpec == MCInit /\ [][MCNext]_suite

-----------------------------------------------------------------------------
\* Lockouts, TOTP steps and sessions (RestAuth).
LoginsSafe == which = "rest" => Rest!LoginsSafe
\* Turns and checkpoints (Sessions).
SessionsSafe == which = "sessions" => Store!SessionsSafe
\* What a session is shown (Awareness), and what its hooks answer (Hooks).
HooksSafe ==
  /\ which = "aware" => Aware!FeedSafe
  /\ which \in {"start", "query"} => Hook!HooksSafe
\* Reported citations (Feedback).
FeedbackSafe == which = "feedback" => Feed!FeedbackSafe
\* The metrics sidecar (Vitals).
VitalsSafe == which \in {"key", "write"} => Sidecar!VitalsSafe

\* What no step of a caller may do: lift a lock within its window (RestAuth),
\* refuse a query the limit has room for (Hooks), lose an event to the rebuild
\* (Vitals).
ServerSteps ==
  [][/\ which = "rest" => Rest!LockoutStep
     /\ which = "query" => Hook!RefusalStep
     /\ which \in {"key", "write"} => Sidecar!EventsStep]_suite
=============================================================================
