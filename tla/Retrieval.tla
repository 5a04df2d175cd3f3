----------------------------- MODULE Retrieval -----------------------------
(***************************************************************************)
(* Hybrid search with its graph leg, and the edges it walks (manager.py,   *)
(* search, _search_core, _collect_walk_candidates, _mint_relates_to_edges).*)
(* A search reads the full-text leg, the vector leg and the graph leg one  *)
(* after the other, while rows come and go and two writers mint edges.     *)
(***************************************************************************)
EXTENDS Naturals, Sequences, FiniteSets, SequencesExt

CONSTANTS
  Mems,       \* memory ids
  Home,       \* id -> project
  Projects,
  Writers,    \* processes that add memories
  Limits,     \* page sizes asked for
  Edges0,     \* edges a store may start with
  MaxMoves    \* status changes per behaviour

VARIABLES
  row,      \* id -> "shown", "hidden" (raw, archived or quarantined) or "gone"
  edges,    \* memory_edges: <<from, to, kind>>
  walk,     \* the graph_walk setting
  search,   \* the running search
  since,    \* ids that were shown, in scope, at some moment of that search
  mint,     \* per writer: the mint it is working on
  crossed,  \* pairs whose two mints overlapped
  moves

rvars == <<row, edges, walk, search, since, mint, crossed, moves>>

NoProject == "none"
NoSearch == [pc |-> "idle", scope |-> NoProject, limit |-> 0, fts |-> {}, found |-> {},
             page |-> <<>>, fallback |-> FALSE]
NoMint == [pc |-> "idle", of |-> "none", incoming |-> {}, todo |-> {}]

InScope(i, scope) == scope = NoProject \/ Home[i] = scope
Admissible(i, scope) == row[i] = "shown" /\ InScope(i, scope)
Seen(scope) == {i \in Mems : Admissible(i, scope)}

Init ==
  /\ row \in [Mems -> {"shown", "hidden"}] /\ walk \in BOOLEAN
  /\ edges \in SUBSET Edges0 /\ search = NoSearch /\ since = {} /\ mint = [w \in Writers |-> NoMint]
  /\ crossed = {} /\ moves = 0

----------------------------------------------------------------------------
\* Search.

\* search: the page size and the project scope.
Ask(scope, limit) ==
  /\ search.pc = "idle"
  /\ search' = [NoSearch EXCEPT !.pc = "fts", !.scope = scope, !.limit = limit]
  /\ since' = Seen(scope)
  /\ UNCHANGED <<row, edges, walk, mint, crossed, moves>>

\* The statement: whatever the query matches (any set), of the scope and status.
fts_search(match, scope) == match \cap Seen(scope)

\* The full-text leg: one statement, then the status gate.
FtsLeg(match) ==
  /\ search.pc = "fts"
  /\ search' = [search EXCEPT !.pc = "vector", !.fts = fts_search(match, search.scope)]
  /\ UNCHANGED <<row, edges, walk, since, mint, crossed, moves>>

\* A neighbour of the vector index is read back and gated unless the
\* full-text leg already holds it.
Resolved(near) == search.fts \cup (near \cap Seen(search.scope))

VectorLeg(near) ==
  /\ search.pc = "vector"
  /\ search' = [search EXCEPT !.pc = "page", !.found = Resolved(near)]
  /\ UNCHANGED <<row, edges, walk, since, mint, crossed, moves>>

\* _walk_quota: the slots of a page reserved for the graph.
_walk_quota(limit) ==
  IF limit < 3 THEN 0
  ELSE LET fifth == (limit + 4) \div 5 half == limit \div 2
       IN IF fifth < half THEN fifth ELSE half

Adjacent(i, kinds) ==
  {j \in Mems : j # i /\ \E k \in kinds : <<i, j, k>> \in edges \/ <<j, i, k>> \in edges}

\* _collect_walk_candidates: neighbours of the fused page, then their
\* relates_to neighbours, none of them fused.
Walked(page, found) ==
  LET one == UNION {Adjacent(page[n], {"supersedes", "relates_to"}) : n \in DOMAIN page} \ found
      two == UNION {Adjacent(i, {"relates_to"}) : i \in one}
  IN (one \cup two) \ found

\* The flag-off graph leg sees supersedes neighbours of the page only.
Neighbours(page, found) ==
  UNION {Adjacent(page[n], {"supersedes"}) : n \in DOMAIN page} \ found

\* Mutant: the walk is not gated by status.
Passes_any(ids) == {i \in ids : row[i] # "gone" /\ InScope(i, search.scope)}

\* The gates every graph-sourced row passes.
Passes(ids) == {i \in ids : Admissible(i, search.scope)}

Take(n, s) == SubSeq(s, 1, IF n < Len(s) THEN n ELSE Len(s))

\* The fused rows leave the quota free when the walk is on.
Fill(limit) == IF walk THEN limit - _walk_quota(limit) ELSE limit

\* The page: fused rows, then graph rows, then, with the walk on, fused rows
\* again up to the limit.  Without it up to `limit` graph rows are appended to
\* a page that is not full.
Compose(fused, graph, limit) ==
  LET top == Take(Fill(limit), fused)
      rest == SubSeq(fused, Len(top) + 1, Len(fused))
      walked == Take(_walk_quota(limit), graph)
      both == top \o walked
  IN IF walk THEN both \o Take(IF Len(both) < limit THEN limit - Len(both) ELSE 0, rest)
     ELSE IF Len(top) < limit THEN top \o Take(2 * limit - Len(top), graph) ELSE top

\* The graph leg and the page.  The order of each part is any ranking.
Page ==
  /\ search.pc = "page"
  /\ \E fused \in SetToSeqs(search.found) :
       LET top == Take(Fill(search.limit), fused)
           near == Passes(IF walk THEN Walked(top, search.found) ELSE Neighbours(top, search.found))
       IN \E graph \in SetToSeqs(near) :
            search' = [search EXCEPT !.pc = "answer", !.page = Compose(fused, graph, search.limit)]
  /\ UNCHANGED <<row, edges, walk, since, mint, crossed, moves>>

\* An empty scoped page is asked again without the scope, once.
Fallback ==
  /\ search.pc = "answer" /\ search.page = <<>> /\ search.scope # NoProject
  /\ search' = [search EXCEPT !.pc = "fts", !.scope = NoProject, !.fallback = TRUE]
  /\ since' = since \cup Seen(NoProject)
  /\ UNCHANGED <<row, edges, walk, mint, crossed, moves>>

Answer ==
  /\ search.pc = "answer" /\ (search.page # <<>> \/ search.scope = NoProject)
  /\ search' = NoSearch /\ since' = {}
  /\ UNCHANGED <<row, edges, walk, mint, crossed, moves>>

----------------------------------------------------------------------------
\* Edges.

\* select_auto_dedupe_candidates: other admissible memories of the project.
Linkable(i, near) == {j \in near \ {i} : row[j] = "shown" /\ Home[j] = Home[i]}

\* _mint_relates_to_edges, first half: the near neighbours that may be linked,
\* and the edges that already point at this memory.
MintRead(w, i, near) ==
  /\ mint[w].pc = "idle" /\ row[i] = "shown"
  /\ mint' = [mint EXCEPT ![w] = [pc |-> "mint", of |-> i,
                 incoming |-> {j \in Mems : <<j, i, "relates_to">> \in edges},
                 todo |-> Linkable(i, near)]]
  /\ UNCHANGED <<row, edges, walk, search, since, crossed, moves>>

\* INSERT OR IGNORE on (from, to, kind).
add_edge(i, j, kind) == edges \cup {<<i, j, kind>>}

\* A pair that already has the opposite edge is skipped.
Reversed(w, j) == j \in mint[w].incoming

\* The edge itself.
MintEdge(w, j) ==
  LET i == mint[w].of IN
  /\ mint[w].pc = "mint" /\ j \in mint[w].todo
  /\ edges' = IF Reversed(w, j) THEN edges ELSE add_edge(i, j, "relates_to")
  /\ crossed' = crossed \cup
       {{i, j} : v \in {v \in Writers \ {w} : mint[v].of = j}}
  /\ mint' = [mint EXCEPT ![w].todo = @ \ {j}]
  /\ UNCHANGED <<row, walk, search, since, moves>>

MintEnd(w) ==
  /\ mint[w].pc = "mint" /\ mint[w].todo = {}
  /\ mint' = [mint EXCEPT ![w] = NoMint]
  /\ UNCHANGED <<row, edges, walk, search, since, crossed, moves>>

\* add_memory_edge: a declared supersession.
Supersede(i, j) ==
  /\ i # j /\ <<i, j, "supersedes">> \notin edges /\ moves < MaxMoves /\ moves' = moves + 1
  /\ edges' = add_edge(i, j, "supersedes")
  /\ UNCHANGED <<row, walk, search, since, mint, crossed>>

\* A row is published, hidden or deleted; its edges stay.
Move(i, to) ==
  /\ row[i] # to /\ row[i] # "gone" /\ moves < MaxMoves /\ moves' = moves + 1
  /\ row' = [row EXCEPT ![i] = to]
  /\ since' = IF search.pc # "idle" /\ to = "shown" /\ InScope(i, search.scope)
                THEN since \cup {i} ELSE since
  /\ UNCHANGED <<edges, walk, search, mint, crossed>>

Search ==
  \/ \E scope \in Projects \cup {NoProject}, limit \in Limits : Ask(scope, limit)
  \/ \E ids \in SUBSET Mems : FtsLeg(ids) \/ VectorLeg(ids)
  \/ Page \/ Fallback \/ Answer

Mint ==
  \E w \in Writers :
    \/ \E i \in Mems, near \in SUBSET Mems : MintRead(w, i, near)
    \/ \E j \in Mems : MintEdge(w, j)
    \/ MintEnd(w)

Moves == \E i \in Mems, to \in {"shown", "hidden", "gone"} : Move(i, to)

Supersessions == \E i, j \in Mems : Supersede(i, j)

Next == Search \/ Mint \/ Supersessions \/ Moves

Spec == Init /\ [][Next]_rvars

----------------------------------------------------------------------------
\* Every variable has its type.
TypeOK ==
  /\ \A i \in Mems : row[i] \in {"shown", "hidden", "gone"}
  /\ edges \subseteq Mems \X Mems \X {"supersedes", "relates_to"}
  /\ search.fts \subseteq search.found \/ search.pc \in {"fts", "vector"}

\* Whatever leg found it, a row on the page was admissible and in the page's
\* scope at some moment of the search (the gates of _search_core).
PageWasAdmissible ==
  search.pc = "answer" =>
    \A n \in DOMAIN search.page : search.page[n] \in since /\ InScope(search.page[n], search.scope)

\* The page shows no row twice, and keeps to the limit when the walk is on;
\* without the walk the graph may add as many again.
PageIsBounded ==
  search.pc = "answer" =>
    /\ IsInjective(search.page)
    /\ Len(search.page) <= IF walk THEN search.limit ELSE 2 * search.limit

\* With the walk on a page is full whenever enough fused rows exist: the quota
\* the graph did not use goes back to them.
QuotaIsReturned ==
  search.pc = "answer" /\ walk /\ Cardinality(search.found) >= search.limit
    => Len(search.page) = search.limit

\* Two memories are linked both ways only when their mints overlapped.
PairMintedOnce ==
  \A i, j \in Mems :
    <<i, j, "relates_to">> \in edges /\ <<j, i, "relates_to">> \in edges => {i, j} \in crossed

\* What a search promises: an admissible, bounded page with no place wasted; and
\* what minting promises: one edge a pair.
RetrievalSafe ==
  /\ TypeOK /\ PageWasAdmissible /\ PageIsBounded /\ QuotaIsReturned
  /\ PairMintedOnce
=============================================================================
