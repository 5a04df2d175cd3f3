--------------------------- MODULE ContextAssembly ---------------------------
(***************************************************************************)
(* assemble_context: recall -> ccr -> filter -> scan -> align -> budget.    *)
(* The recall reads the store twice (the search, then the governance        *)
(* lanes); every later stage works on the snapshots it took.  Memories are  *)
(* retagged and withdrawn meanwhile.  An async result waits in a bounded    *)
(* registry until its session fetches it.                                   *)
(***************************************************************************)
EXTENDS Naturals, FiniteSets, Sequences, SequencesExt

CONSTANTS
  Callers,    \* threads that assemble
  Sessions,
  Mems,       \* memories of the project
  Shape,      \* per memory: score, tokens, expanded (tokens once its marker is
              \* expanded, 0 without marker), code, pinned (applyTo)
  Requests,   \* the option sets callers use
  Budget,     \* tokens of a call
  AsyncCap,   \* ASYNC_REGISTRY_CAP
  MaxCalls, MaxEnv

\* What the theorem assumes of the registry.
LimitsOK == AsyncCap \in Nat

VARIABLES
  tags,       \* governance tags per memory
  admissible, \* memories that context may show
  redeemable, \* memories whose marker can be redeemed
  mode,       \* "plain", "lanes" or "boost": the leg of the configuration
  registry,   \* async results, oldest first
  caller,     \* per thread: its pc, call, candidates
  done,       \* the last result handed out
  touched,    \* ghost: memories changed since the oldest running call began
  calls, env

avars == <<tags, admissible, redeemable, mode, registry, caller, done, touched, calls, env>>

Tags    == {"rule", "decision"}
Options == [session : Sessions, file : BOOLEAN, type : {"any", "code", "prose"},
            lens : BOOLEAN, async : BOOLEAN, expand : BOOLEAN]
NoCall  == [session |-> CHOOSE s \in Sessions : TRUE, file |-> FALSE, type |-> "any",
            lens |-> FALSE, async |-> FALSE, expand |-> FALSE]
Lanes   == {"rules", "decisions", "knowledge"}
Cand    == [m : Mems, lane : Lanes, score : Nat, tokens : Nat]
Idle    == [pc |-> "idle", call |-> NoCall, found |-> <<>>, cands |-> <<>>]
NoResult == [session |-> NoCall.session, blocks |-> <<>>, left |-> Budget, unfit |-> {},
             sync |-> TRUE, lanes |-> FALSE, id |-> 0]

TypeOK ==
  /\ tags \in [Mems -> SUBSET Tags]
  /\ admissible \subseteq Mems /\ redeemable \subseteq Mems /\ touched \subseteq Mems
  /\ mode \in {"plain", "lanes", "boost"}
  /\ \A t \in Callers :
       /\ caller[t].pc \in {"idle", "search", "lanes", "expand", "deliver"}
       /\ caller[t].call \in Options
       /\ caller[t].found \in Seq([m : Mems, tags : SUBSET Tags])
       /\ caller[t].cands \in Seq(Cand)
  /\ Len(registry) <= AsyncCap
  /\ done.blocks \in Seq(Cand) /\ done.left \in 0..Budget

Init ==
  /\ tags \in [Mems -> {{}, {"rule"}}]
  /\ admissible = Mems /\ redeemable = {m \in Mems : Shape[m].expanded > 0}
  /\ mode \in {"plain", "lanes", "boost"}
  /\ registry = <<>> /\ caller = [t \in Callers |-> Idle]
  /\ done = NoResult /\ touched = {}
  /\ calls = 0 /\ env = 0

-----------------------------------------------------------------------------
StableSort(s, Key(_)) ==
  LET before(i, j) == Key(s[i]) < Key(s[j]) \/ (Key(s[i]) = Key(s[j]) /\ i < j)
      order == SetToSortSeq(DOMAIN s, before)
  IN  [i \in DOMAIN s |-> s[order[i]]]
\* The order of search results: the best score first.
MaxScore == 100
Worse(c) == MaxScore - c.score
Ranked(ms) == LET by(m, n) == Shape[m].score > Shape[n].score IN SetToSortSeq(ms, by)

Assemble(t, call) ==
  /\ caller[t] = Idle /\ calls < MaxCalls /\ calls' = calls + 1
  /\ caller' = [caller EXCEPT ![t].pc = "search", ![t].call = call]
  /\ touched' = IF \A u \in Callers : caller[u] = Idle THEN {} ELSE touched
  /\ done' = NoResult
  /\ UNCHANGED <<tags, admissible, redeemable, mode, registry, env>>

\* is_context_admissible over the store
Admissible == admissible

\* The first read: mgr.search
Search(t) ==
  /\ caller[t].pc = "search"
  /\ caller' = [caller EXCEPT ![t].pc = "lanes",
                  ![t].found = [i \in 1..Cardinality(Admissible) |->
                    [m |-> Ranked(Admissible)[i], tags |-> tags[Ranked(Admissible)[i]]]]]
  /\ UNCHANGED <<tags, admissible, redeemable, mode, registry, done, touched, calls, env>>

Wanted(call, m) ==
  /\ call.type # "any" => (call.type = "code") = Shape[m].code
Candidate(m, lane, score) == [m |-> m, lane |-> lane, score |-> score, tokens |-> Shape[m].tokens]
Laned(ms, lane) == [i \in 1..Cardinality(ms) |-> Candidate(Ranked(ms)[i], lane, 1)]

\* The second read: rules, then decisions, each memory once.
governance_lanes_recall ==
  LET under(tag) == {m \in Admissible : tag \in tags[m]}
  IN  Laned(under("rule"), "rules") \o Laned(under("decision") \ under("rule"), "decisions")

\* The knowledge leg, over the search's snapshot.
Knowledge(found) ==
  LET kept == IF mode = "lanes" THEN SelectSeq(found, LAMBDA r : r.tags = {}) ELSE found
  IN  [i \in DOMAIN kept |->
        Candidate(kept[i].m, "knowledge",
          Shape[kept[i].m].score * (IF mode = "boost" /\ kept[i].tags # {} THEN 10 ELSE 1))]

applyto_partition(cands) ==
  SelectSeq(cands, LAMBDA c : Shape[c.m].pinned)
    \o SelectSeq(cands, LAMBDA c : ~Shape[c.m].pinned)
InLane(cands, lane) == SelectSeq(cands, LAMBDA c : c.lane = lane)

\* _recall_stage after its two reads: type filter, boost, lens, applyTo.
Recalled(call, found) ==
  LET both   == (IF mode = "lanes" THEN governance_lanes_recall ELSE <<>>) \o Knowledge(found)
      typed  == SelectSeq(both, LAMBDA c : Wanted(call, c.m))
      ranked == IF mode = "boost" THEN StableSort(typed, Worse) ELSE typed
      seen   == IF call.lens THEN SelectSeq(ranked, LAMBDA c : Shape[c.m].code) ELSE ranked
  IN  IF ~call.file THEN seen
      ELSE IF mode # "lanes" THEN applyto_partition(seen)
      ELSE applyto_partition(InLane(seen, "rules"))
             \o applyto_partition(InLane(seen, "decisions"))
             \o applyto_partition(InLane(seen, "knowledge"))

RecallLanes(t) ==
  /\ caller[t].pc = "lanes"
  /\ caller' = [caller EXCEPT ![t].pc = "expand",
                  ![t].cands = Recalled(caller[t].call, caller[t].found)]
  /\ UNCHANGED <<tags, admissible, redeemable, mode, registry, done, touched, calls, env>>

\* _ccr_stage: an expansion that alone exceeds the budget is not used.
Expanded(c) ==
  IF c.m \in redeemable /\ Shape[c.m].expanded <= Budget
  THEN [c EXCEPT !.tokens = Shape[c.m].expanded] ELSE c

ExpandMarkers(t) ==
  LET cands == caller[t].cands IN
  /\ caller[t].pc = "expand"
  /\ caller' = [caller EXCEPT ![t].pc = "deliver",
                  ![t].cands = IF caller[t].call.expand
                               THEN [i \in DOMAIN cands |-> Expanded(cands[i])] ELSE cands]
  /\ UNCHANGED <<tags, admissible, redeemable, mode, registry, done, touched, calls, env>>

lane_sort_key(lane) == CASE lane = "rules" -> 0 [] lane = "decisions" -> 1 [] OTHER -> 2
LaneThenScore(c) == lane_sort_key(c.lane) * (MaxScore + 1) + Worse(c)

\* Mutant: the first block that does not fit ends the packing.
Pack_stops(cands) ==
  LET take(acc, c) == IF acc.unfit = {} /\ c.tokens <= acc.left
                      THEN [acc EXCEPT !.blocks = Append(@, c), !.left = @ - c.tokens]
                      ELSE [acc EXCEPT !.unfit = @ \cup {c}]
  IN  FoldLeft(take, [blocks |-> <<>>, left |-> Budget, unfit |-> {}], cands)

\* _budget_stage: greedy in order, a block that does not fit is skipped.
Pack(cands) ==
  LET take(acc, c) == IF c.tokens <= acc.left
                      THEN [acc EXCEPT !.blocks = Append(@, c), !.left = @ - c.tokens]
                      ELSE [acc EXCEPT !.unfit = @ \cup {c}]
  IN  FoldLeft(take, [blocks |-> <<>>, left |-> Budget, unfit |-> {}], cands)

\* _scan_stage drops what the scanner refuses (its text, or an error of the
\* scanner), then the budget.
Blocks(cands, refused) ==
  LET clean == SelectSeq(cands, LAMBDA c : c.m \notin refused)
  IN  Pack(IF mode = "lanes" THEN StableSort(clean, LaneThenScore) ELSE clean)

\* _store_async_result: the registry keeps the newest.
Stored(result) ==
  LET all == Append(registry, result)
  IN  IF Len(all) > AsyncCap THEN Tail(all) ELSE all

Deliver(t, refused) ==
  LET call == caller[t].call
      b    == Blocks(caller[t].cands, refused)
      result == [session |-> call.session, blocks |-> b.blocks, left |-> b.left,
                 unfit |-> b.unfit, sync |-> ~call.async, lanes |-> mode = "lanes",
                 id |-> calls] IN
  /\ caller[t].pc = "deliver"
  /\ IF call.async THEN registry' = Stored(result) /\ UNCHANGED done
                   ELSE done' = result /\ UNCHANGED registry
  /\ caller' = [caller EXCEPT ![t] = Idle]
  /\ UNCHANGED <<tags, admissible, redeemable, mode, touched, calls, env>>

\* _fetch_async_result: once, and only for the session that asked for it.
FetchAsync(i, session) ==
  /\ env < MaxEnv /\ env' = env + 1
  /\ IF registry[i].session = session
       THEN done' = registry[i] /\ registry' = RemoveAt(registry, i)
       ELSE UNCHANGED <<done, registry>>
  /\ UNCHANGED <<tags, admissible, redeemable, mode, caller, touched, calls>>

\* The memory is retagged; or leaves the admissible statuses.
Retag(m, to) ==
  /\ env < MaxEnv /\ env' = env + 1
  /\ tags' = [tags EXCEPT ![m] = to] /\ touched' = touched \cup {m}
  /\ UNCHANGED <<admissible, redeemable, mode, registry, caller, done, calls>>
Withdraw(m) ==
  /\ env < MaxEnv /\ env' = env + 1
  /\ m \in admissible
  /\ admissible' = admissible \ {m} /\ redeemable' = redeemable \ {m}
  /\ touched' = touched \cup {m}
  /\ UNCHANGED <<tags, mode, registry, caller, done, calls>>

Next ==
  \/ \E t \in Callers :
       \/ \E call \in Requests : Assemble(t, call)
       \/ Search(t) \/ RecallLanes(t) \/ ExpandMarkers(t)
       \/ \E refused \in {{}} \cup {{m} : m \in Mems} : Deliver(t, refused)
  \/ \E i \in DOMAIN registry, s \in Sessions : FetchAsync(i, s)
  \/ \E m \in Mems : Withdraw(m) \/ \E to \in SUBSET Tags : Retag(m, to)

Spec == Init /\ [][Next]_avars

-----------------------------------------------------------------------------
(* Properties.                                                             *)

\* The budget stage (ADR-0018): what is left is never overdrawn, and no block
\* that was skipped would still fit, because the stage goes on after a misfit.
BudgetIsMaximal ==
  /\ done.left + FoldLeft(LAMBDA n, c : n + c.tokens, 0, done.blocks) = Budget
  /\ \A c \in done.unfit : c.tokens > done.left

\* ADR-0025: with lanes the blocks are rules, then decisions, then knowledge,
\* whatever the pins, the lens and the budget did to the candidates.
LanesStayInOrder ==
  done.lanes => \A i, j \in DOMAIN done.blocks :
    i < j => /\ done.blocks[j].lane = "rules" => done.blocks[i].lane = "rules"
             /\ done.blocks[i].lane = "knowledge" => done.blocks[j].lane = "knowledge"

\* The lanes and the search are two reads: no memory shows up twice unless it
\* was retagged while the call ran.
EachMemoryOnce ==
  \A t \in Callers : \A i, j \in DOMAIN caller[t].cands :
    i # j /\ caller[t].cands[i].m = caller[t].cands[j].m => caller[t].cands[i].m \in touched

\* The context gate: a candidate is admissible, or was withdrawn after its
\* call had begun.
GateHoldsInCall ==
  \A t \in Callers : \A i \in DOMAIN caller[t].cands :
    caller[t].cands[i].m \in admissible \cup touched

\* CWE-863: a stored result leaves the registry by its own session's fetch, or
\* pushed out by a newer one; a stranger's attempt leaves it in place.
HandleStep ==
  \A i \in DOMAIN registry :
    \/ registry[i] \in Range(registry')
    \/ done' = registry[i]
    \/ i = 1 /\ Len(registry) = AsyncCap /\ Len(registry') = AsyncCap

\* What an assembled context promises: a budget used up, lanes in order, each
\* memory once, and nothing that was inadmissible all through the call.
AssemblySafe ==
  /\ TypeOK /\ BudgetIsMaximal /\ LanesStayInOrder /\ EachMemoryOnce
  /\ GateHoldsInCall
=============================================================================
