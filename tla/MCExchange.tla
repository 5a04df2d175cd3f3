----------------------------- MODULE MCExchange -----------------------------
(***************************************************************************)
(* What is given to agents and peers, for TLC: one of the context cache,   *)
(* context assembly, context rewrite, the federation pull and the mesh     *)
(* server (its export walk, or its imports and fetches) runs; the others   *)
(* rest in their initial states.                                           *)
(***************************************************************************)
EXTENDS ContextCache

CONSTANTS
  \* context assembly
  Drafters, Sessions, Mems, Shape, Requests, Budget, AsyncCap, MaxCalls, MaxEnv,
  \* context rewrite
  Workers, Events, SessionOf, TargetOf, NoTarget, SessionLimit, ProjectLimit,
  MaxDeliveries, MaxFaults,
  \* the federation pull
  Threads, Topics, Realms, Allowed, Records, ProjectOf, TypesOk, Refusing, RateLimit,
  MaxPulls, MaxFailures,
  \* the mesh server
  Corpora, Named, Grants, PageLimit, MaxRowid, FedIds, OriginOf, Barred, Handlers, MaxMoves

VARIABLES
  which,
  tags, admissible, redeemable, mode, registry, caller, delivery, touched, calls, env,
  memories, targets, edges, worker, acked, overlapped, nextId, faults,
  noFederate, window, log, req, client, lostLog, shipped, posted, clock, failures,
  rows, delivered, cursor, answer, reused, walker, up, socket, tcp, crashed, copies,
  imp, state, job, moves

assembly == <<tags, admissible, redeemable, mode, registry, caller, delivery, touched, calls, env>>
rewrite  == <<memories, targets, edges, worker, acked, overlapped, nextId, faults>>
pull     == <<noFederate, window, log, req, client, lostLog, shipped, posted, clock, failures>>
mesh     == <<rows, delivered, cursor, answer, reused, walker, up, socket, tcp, crashed,
              copies, imp, state, job, moves>>
suite    == <<vars, assembly, rewrite, pull, mesh, which>>

\* A strict and a lax configuration of the cache.
MCConfigs == {[strict |-> TRUE, match |-> TRUE, refuse |-> FALSE],
              [strict |-> FALSE, match |-> FALSE, refuse |-> TRUE]}
Symmetry == Permutations(Procs) \cup Permutations(Issuers)

\* Memories whose sizes make the budget skip one and go on, and one request per
\* option that changes the control flow.
ShapeOf(score, tokens, expanded, code, pinned) ==
  [score |-> score, tokens |-> tokens, expanded |-> expanded, code |-> code, pinned |-> pinned]
MCShape ==
  [m \in Mems |-> CASE m = "a" -> ShapeOf(3, 2, 4, TRUE, FALSE)
                    [] m = "b" -> ShapeOf(2, 3, 0, FALSE, TRUE)
                    [] m = "c" -> ShapeOf(1, 1, 6, TRUE, TRUE)]
Plain == [session |-> "s1", file |-> FALSE, type |-> "any", lens |-> FALSE,
          async |-> FALSE, expand |-> FALSE]
MCRequests ==
  {Plain, [Plain EXCEPT !.file = TRUE, !.expand = TRUE],
   [Plain EXCEPT !.type = "code", !.file = TRUE], [Plain EXCEPT !.lens = TRUE],
   [Plain EXCEPT !.type = "prose"]}
  \cup {[Plain EXCEPT !.async = TRUE, !.session = s] : s \in Sessions}

\* Two events of one session, one of them without a target, and one of another.
MCSessionOf == [e \in Events |-> IF e = "e3" THEN "s2" ELSE "s1"]
MCTargetOf  == [e \in Events |-> IF e = "e2" THEN NoTarget ELSE "old"]
\* Records of the allowed project; foreign records of two origins.
MCProjectOf == [r \in Records |-> "p1"]
MCOriginOf  == [f \in FedIds |-> IF f = "f1" THEN "a" ELSE "b"]

Assembly == INSTANCE ContextAssembly WITH Callers <- Drafters, done <- delivery
Rewrite  == INSTANCE ContextRewrite
Pull     == INSTANCE FederationPull WITH
  Projects <- Realms, MaxFaults <- MaxFailures, faults <- failures
Mesh     == INSTANCE MeshExport WITH
  Projects <- Corpora, Allowed <- Named, MaxEnv <- MaxMoves, caller <- walker, env <- moves

\* The theorems' hypotheses on the components hold of these.
ASSUME ExchangeAssumption ==
  Assembly!LimitsOK /\ Rewrite!LimitsOK /\ Pull!LimitsOK /\ Mesh!LimitsOK

\* What rests rests in one initial state.
MCInit ==
  /\ which \in {"cache", "assembly", "rewrite", "pull", "walk", "import"}
  /\ Init /\ Assembly!Init /\ Rewrite!Init /\ Pull!Init /\ Mesh!Init
  /\ which # "cache" => config = CHOOSE c \in Configs : TRUE
  /\ which # "assembly" => mode = "plain" /\ tags = [m \in Mems |-> {}]
  /\ which # "walk" => walker = CHOOSE c \in Mesh!Callers : TRUE

MCNext ==
  /\ \/ which = "cache"    /\ Next          /\ UNCHANGED <<assembly, rewrite, pull, mesh>>
     \/ which = "assembly" /\ Assembly!Next /\ UNCHANGED <<vars, rewrite, pull, mesh>>
     \/ which = "rewrite"  /\ Rewrite!Next  /\ UNCHANGED <<vars, assembly, pull, mesh>>
     \/ which = "pull"     /\ Pull!Next     /\ UNCHANGED <<vars, assembly, rewrite, mesh>>
     \/ /\ \/ which = "walk" /\ Mesh!WalkNext
           \/ which = "import" /\ Mesh!ImportNext
           \/ which \in {"walk", "import"} /\ Mesh!ServerNext
        /\ UNCHANGED <<vars, assembly, rewrite, pull>>
  /\ UNCHANGED which

MCSpec == MCInit /\ [][MCNext]_suite

-----------------------------------------------------------------------------
\* The assembled context (ContextAssembly).
AssemblySafe == Assembly!AssemblySafe
\* Rewrites and their receipts (ContextRewrite).
RewriteSafe == Rewrite!RewriteSafe
\* What peers pull, walk, send and fetch (FederationPull, MeshExport).
FederationSafe == Pull!PullSafe /\ Mesh!MeshSafe

\* What no step towards a reader may do: pass a marker to another issuer, or issue
\* an original whose source is quarantined (ContextCache); lose a stored result to
\* a stranger's fetch (ContextAssembly); ship a no-federate record (FederationPull).
ExchangeSteps ==
  [][/\ which = "cache" => IssuerStep /\ WithholdStep
     /\ which = "assembly" => Assembly!HandleStep
     /\ which = "pull" => Pull!NoFederateStep]_suite
=============================================================================
