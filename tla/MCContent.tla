----------------------------- MODULE MCContent -----------------------------
(***************************************************************************)
(* What happens to the rows' content, for TLC: one of the context filter   *)
(* (its stages, or its callers), document ingestion, the multi-row         *)
(* pipeline, the bulk tag commands and retrieval (searches, or mints of    *)
(* edges) runs; the others rest in one initial state.                      *)
(***************************************************************************)
EXTENDS ContextFilter, TLC

CONSTANT Twins  \* two interchangeable processes

VARIABLES
  which,
  chunks, vectors, version, ing, disturbed, orphaned, early, ingests, faults,
  item, draft, run, everQuar, putBack, met, crashed, touches, runs, crashes,
  rows, order, scan, call, raced, stripped, edits, commands,
  shown, edges, graph, search, since, mint, crossed, moves

docs   == <<chunks, vectors, version, ing, disturbed, orphaned, early, ingests, faults>>
pipe   == <<item, draft, run, everQuar, putBack, met, crashed, touches, runs, crashes>>
tagged == <<rows, order, scan, call, raced, stripped, edits, commands>>
found  == <<shown, edges, graph, search, since, mint, crossed, moves>>
suite  == <<fvars, docs, pipe, tagged, found, which>>

-----------------------------------------------------------------------------
\* The texts and arrays to filter.
Ln(b, k, p, s) == [body |-> b, kind |-> k, pre |-> p, stamp |-> s]
Prose == {Ln("a", "plain", 1, 1), Ln("a", "plain", 1, 2), Ln("e", "signal", 2, 0),
          Ln("f", "signal", 2, 0), Ln("g", "plain", 2, 0)}
Code == {Ln("i", "import", 0, 0), Ln("j", "import", 0, 0), Ln("k", "import", 0, 0),
         Ln("c", "plain", 1, 0)}
Blanks == {Ln("", "blank", 0, 0), Ln("-", "separator", 0, 0)}
MCInputs ==
  [1..2 -> Prose \cup Code \cup Blanks] \cup [1..4 -> Prose] \cup [1..4 -> Code \cup Blanks]
MCArrays == UNION {[1..n -> BOOLEAN] : n \in 5..7}

\* The rows and the commands of the tag tools.
T(p, s) == <<p, s>>
Tagged(tags, p, secret) == [tags |-> tags, project |-> p, secret |-> secret]
Base == {T("project", "p"), T("agent", "a")}
Secret == Base \cup {T("mnemos", "no-federate")}
MCRows ==
  {Tagged(Secret, "p", TRUE), Tagged(Secret, "p", FALSE),
   Tagged(Base \cup {T("gcw", "rule"), T("gcw", "odd")}, "p", FALSE),
   Tagged({T("project", "P"), T("mnemos", "rule")}, "P", FALSE),
   Tagged({T("agent", "a"), T("mnemos", "rule")}, "p", FALSE)}
Cmd(k) == [kind |-> k, from |-> "none", to |-> "none", subs |-> {}, tags |-> {},
           legacy |-> FALSE, dry |-> FALSE, scope |-> "none"]
MCCommands ==
  {[Cmd("rename") EXCEPT !.from = "gcw", !.to = "mnemos"],
   [Cmd("rename") EXCEPT !.from = "gcw", !.to = "mnemos", !.legacy = TRUE],
   [Cmd("rename") EXCEPT !.from = "mnemos", !.to = "x", !.subs = {"rule"}],
   [Cmd("remove") EXCEPT !.tags = {T("mnemos", "no-federate")}],
   [Cmd("remove") EXCEPT !.tags = {T("gcw", "none")}, !.legacy = TRUE],
   [Cmd("add") EXCEPT !.tags = {T("project", "q")}, !.scope = "p"],
   [Cmd("add") EXCEPT !.tags = {T("mnemos", "odd")}, !.dry = TRUE],
   [Cmd("add") EXCEPT !.tags = {T("mnemos", "odd")}],
   Cmd("normalize"), Cmd("audit")}

Docs == INSTANCE Documents WITH
  Ingesters <- Twins, ChunkCap <- 2, MaxRows <- 5, MaxIngests <- 2, MaxFaults <- 1,
  Texts <- {<<"clean">>, <<"danger", "clean">>, <<"error", "clean", "clean">>}, rows <- chunks
Pipe == INSTANCE Synthesis WITH
  Rows <- {"a", "b"}, Drafts <- {"d", "e", "f"}, Runners <- Twins, MaxEdits <- 1, MaxRuns <- 2,
  MaxCrashes <- 1, row <- item, edits <- touches
Tool == INSTANCE Tags WITH
  Ids <- {"x", "y", "z"}, Rows0 <- MCRows, Commands <- MCCommands,
  Subtypes <- {"rule", "legacy", "no-federate"}, PageSize <- 1, MaxEdits <- 1, MaxRuns <- 1,
  runs <- commands
Find == INSTANCE Retrieval WITH
  Mems <- {"a", "b", "c"}, Home <- [i \in {"a", "b", "c"} |-> IF i = "c" THEN "q" ELSE "p"],
  Projects <- {"p"}, Writers <- Twins, Limits <- {1, 3}, MaxMoves <- 2,
  Edges0 <- {<<"a", "b", "supersedes">>, <<"b", "c", "relates_to">>, <<"a", "c", "relates_to">>},
  row <- shown, walk <- graph

-----------------------------------------------------------------------------
MCInit ==
  /\ which \in {"stages", "callers", "docs", "pipe", "tags", "search", "mint"}
  /\ Init /\ Docs!Init /\ Pipe!Init /\ Tool!Init /\ Find!Init
  /\ ~item["b"].mark /\ (which # "pipe" => ~item["a"].mark)
  /\ which # "tags" => rows = [i \in {"x", "y", "z"} |-> Tagged(Secret, "p", TRUE)]
  /\ which # "search" => edges = {} /\ ~graph
  /\ which \notin {"search", "mint"} => shown = [i \in {"a", "b", "c"} |-> "shown"]

\* A pipeline run meets one disturbance, an edit or a crash.
MCNext ==
  /\ \/ /\ \/ which = "stages" /\ StageNext
           \/ which = "callers" /\ CallerNext
        /\ UNCHANGED <<docs, pipe, tagged, found>>
     \/ /\ which = "docs" /\ Docs!Next
        /\ UNCHANGED <<fvars, pipe, tagged, found>>
     \/ /\ which = "pipe" /\ Pipe!Next /\ touches' + crashes' <= 1
        /\ UNCHANGED <<fvars, docs, tagged, found>>
     \/ /\ which = "tags" /\ Tool!Next
        /\ UNCHANGED <<fvars, docs, pipe, found>>
     \/ /\ \/ which = "search" /\ (Find!Search \/ Find!Moves)
           \/ /\ which = "mint"
              /\ \/ Find!Mint \/ Find!Supersessions
                 \/ \E i \in DOMAIN shown : Find!Move(i, "hidden")
        /\ UNCHANGED <<fvars, docs, pipe, tagged>>
  /\ UNCHANGED which

MCSpec == MCInit /\ [][MCNext]_suite

Symmetry == Permutations(Twins)

-----------------------------------------------------------------------------
\* Ingested documents (Documents).
DocumentsSafe == which = "docs" => Docs!DocumentsSafe
\* Clusters and their drafts (Synthesis).
SynthesisSafe == which = "pipe" => Pipe!SynthesisSafe
\* The tag commands (Tags).
TagsSafe == which = "tags" => Tool!TagsSafe
\* Search pages and minted edges (Retrieval).
RetrievalSafe == which \in {"search", "mint"} => Find!RetrievalSafe

\* What no step over the texts may do: drop a signal line, or any line unsaid
\* (ContextFilter); lift the operator's quarantine of a chunk (Documents); put a
\* published row back (Synthesis); break the tag contract of a row (Tags).
ContentSteps ==
  [][/\ which = "stages" => SignalStep /\ AccountStep
     /\ which = "docs" => Docs!OperatorStep
     /\ which = "pipe" => Pipe!PublishedStep
     /\ which = "tags" => Tool!ContractStep]_suite
=============================================================================
