------------------------------ MODULE MeshExport ------------------------------
(***************************************************************************)
(* The core API a mesh node calls: it walks the corpus page by page behind  *)
(* a rowid cursor (ListMemories), reads one record (ReadMemory), writes     *)
(* records of other nodes into this one (WriteMemory, and the lazy fetch    *)
(* that imports what the mirror index announced), and the life of the       *)
(* server's two legs.  Pages are one SELECT; an import looks for a          *)
(* duplicate and adds in two statements, and handlers overlap.              *)
(***************************************************************************)
EXTENDS Naturals, FiniteSets, FiniteSetsExt

CONSTANTS
  Projects,   \* projects of the corpus
  Allowed,    \* the projects the peer's ACL names
  Grants,     \* project grants of the agent's token, {} when it has none
  PageLimit,  \* records of a page
  MaxRowid,   \* bound: rows the corpus reaches
  FedIds,     \* federation ids of foreign records
  OriginOf,   \* FedIds -> peers: the origin the mirror index names
  Barred,     \* foreign records the ACL or moderation keeps out
  Handlers,   \* imports in flight at a time
  MaxEnv      \* bound: deletions, retags, restarts

\* What the theorem assumes of the pages, the records and the handlers.
LimitsOK ==
  /\ PageLimit \in Nat /\ MaxRowid \in Nat
  /\ IsFiniteSet(FedIds) /\ FedIds # {} /\ IsFiniteSet(Handlers)

Callers == {"node", "agent"}

VARIABLES
  rows,       \* rowid -> [project, nofed, refused], the memories table
  delivered,  \* ghost: rowids the walk was handed, with how often
  cursor,     \* the walker's last non-empty cursor
  answer,     \* the last page: [ids, more]
  reused,     \* ghost: rows inserted under a rowid the walk had passed, or retagged after
  caller,     \* who walks
  up, socket, tcp, crashed,  \* the server: running, its socket file, its TCP port
  copies,     \* local copies of each foreign record
  imp,        \* per handler: the import it is in
  state,      \* the mirror index: FedIds -> {"available", "tombstoned"}
  job,        \* the lazy fetch: plan, what is left of it, its counters
  env

mvars == <<rows, delivered, cursor, answer, reused, caller, up, socket, tcp, crashed,
           copies, imp, state, job, env>>
walkVars   == <<rows, delivered, cursor, answer, reused, caller>>
serverVars == <<up, socket, tcp, crashed>>
importVars == <<copies, imp, state, job>>

Row   == [project : Projects, nofed : BOOLEAN, refused : BOOLEAN]
Idle  == [pc |-> "idle", rec |-> CHOOSE f \in FedIds : TRUE, dup |-> FALSE, by |-> "rpc"]
NoJob == [pc |-> "idle", todo |-> {}, got |-> {}, asked |-> 0, skipped |-> 0, fetched |-> 0,
          notFound |-> 0, errors |-> 0, imported |-> 0, duplicates |-> 0, gated |-> 0]
Counters == {"asked", "skipped", "fetched", "notFound", "errors", "imported", "duplicates",
             "gated"}

TypeOK ==
  /\ DOMAIN rows \subseteq 1..MaxRowid /\ \A r \in DOMAIN rows : rows[r] \in Row
  /\ delivered \in [1..MaxRowid -> 0..2]
  /\ cursor \in 0..MaxRowid
  /\ answer.ids \subseteq 1..MaxRowid /\ answer.more \in BOOLEAN
  /\ up \in BOOLEAN /\ socket \in BOOLEAN /\ tcp \in BOOLEAN
  /\ copies \in [FedIds -> Nat]
  /\ \A h \in Handlers : imp[h].pc \in {"idle", "found"} /\ imp[h].rec \in FedIds
  /\ state \in [FedIds -> {"available", "tombstoned"}]
  /\ job.pc \in {"idle", "confirm", "fetch", "done"} /\ job.todo \subseteq FedIds
  /\ \A c \in Counters : job[c] \in 0..Cardinality(FedIds)

Init ==
  /\ rows = <<>> /\ delivered = [r \in 1..MaxRowid |-> 0]
  /\ cursor = 0 /\ answer = [ids |-> {}, more |-> TRUE] /\ reused = {}
  /\ caller \in Callers
  /\ up = FALSE /\ socket = FALSE /\ tcp = FALSE /\ crashed = FALSE
  /\ copies = [f \in FedIds |-> 0] /\ imp = [h \in Handlers |-> Idle]
  /\ state = [f \in FedIds |-> "available"] /\ job = NoJob /\ env = 0

-----------------------------------------------------------------------------
(* The corpus. *)

\* SQLite gives a row one more than the greatest rowid in the table: a rowid
\* comes back once the rows above it are deleted.
NextRowid == 1 + Max({0} \cup DOMAIN rows)

AddRow(row) ==
  /\ NextRowid <= MaxRowid
  /\ rows' = [r \in DOMAIN rows \cup {NextRowid} |-> IF r = NextRowid THEN row ELSE rows[r]]
  /\ delivered' = [delivered EXCEPT ![NextRowid] = 0]
  /\ reused' = IF NextRowid <= cursor THEN reused \cup {NextRowid} ELSE reused \ {NextRowid}
  /\ UNCHANGED <<cursor, answer, caller, env, serverVars, importVars>>

DeleteRow(r) ==
  /\ env < MaxEnv /\ env' = env + 1
  /\ r \in DOMAIN rows
  /\ rows' = [s \in DOMAIN rows \ {r} |-> rows[s]]
  /\ reused' = reused \ {r}
  /\ UNCHANGED <<delivered, cursor, answer, caller, serverVars, importVars>>

\* remove_no_federate, or a tag added later
Retag(r) ==
  /\ env < MaxEnv /\ env' = env + 1
  /\ r \in DOMAIN rows
  /\ rows' = [rows EXCEPT ![r].nofed = ~rows[r].nofed]
  /\ reused' = IF r <= cursor THEN reused \cup {r} ELSE reused
  /\ UNCHANGED <<delivered, cursor, answer, caller, serverVars, importVars>>

-----------------------------------------------------------------------------
(* The walk. *)

\* _allowed_projects_for_peer and _narrow_by_agent_scope: a token without
\* project grants does not narrow.
EffectiveProjects(c) == IF c = "agent" /\ Grants # {} THEN Allowed \cap Grants ELSE Allowed

\* _check_acl and the gate after it: nothing allowed means refused.
Permitted(c) == EffectiveProjects(c) # {}

\* The filters of the loop body; moderation refuses a record by its content.
Exportable(r) == ~rows[r].nofed /\ ~rows[r].refused

\* list_all_for_mesh with limit page_limit + 1, by rowid
list_all_for_mesh(after, c) ==
  LET of == {r \in DOMAIN rows : r > after /\ rows[r].project \in EffectiveProjects(c)}
  IN  {r \in of : Cardinality({q \in of : q < r}) <= PageLimit}

\* The loop: the page is full when the row after page_limit delivered ones is
\* reached, and only then is there "more"; a filtered row takes a place of the
\* fetched window.
Page(window) ==
  LET first == {r \in window : \E q \in window : r < q}
      full  == Cardinality(window) > PageLimit /\ \A r \in first : Exportable(r)
  IN  [ids |-> {r \in (IF full THEN first ELSE window) : Exportable(r)}, more |-> full]

\* _mint_cursor(last_delivered_rowid): empty when the page delivered nothing
MintCursor(window, ids) == IF ids = {} THEN 0 ELSE CHOOSE r \in ids : \A s \in ids : s <= r

\* The walker keeps its cursor when it is handed an empty one.
ListMemories ==
  /\ up /\ Permitted(caller)
  /\ LET window == list_all_for_mesh(cursor, caller)
         page   == Page(window)
         minted == MintCursor(window, page.ids)
     IN  /\ answer' = page
         /\ cursor' = IF minted = 0 THEN cursor ELSE minted
         /\ delivered' = [r \in 1..MaxRowid |->
                            IF r \in page.ids /\ delivered[r] < 2 THEN delivered[r] + 1
                            ELSE delivered[r]]
  /\ UNCHANGED <<rows, reused, caller, env, serverVars, importVars>>

-----------------------------------------------------------------------------
(* The server. *)

\* _abort_failed_start: both legs down and the socket file removed
AbortFailedStart == socket' = FALSE /\ tcp' = FALSE /\ crashed' = FALSE

\* start: a stale socket is removed first; an unusable TCP leg takes the whole
\* start down.
Start(tcpOk) ==
  /\ ~up
  /\ up' = tcpOk
  /\ IF tcpOk THEN socket' = TRUE /\ tcp' = TRUE /\ crashed' = FALSE ELSE AbortFailedStart
  /\ UNCHANGED <<walkVars, importVars, env>>

Stop ==
  /\ up /\ env < MaxEnv /\ env' = env + 1
  /\ up' = FALSE /\ socket' = FALSE /\ tcp' = FALSE /\ UNCHANGED crashed
  /\ UNCHANGED <<walkVars, importVars>>

\* The process dies: its socket file stays, its imports are gone.
Crash ==
  /\ up /\ env < MaxEnv /\ env' = env + 1
  /\ up' = FALSE /\ tcp' = FALSE /\ crashed' = TRUE
  /\ imp' = [h \in Handlers |-> IF imp[h].by = "rpc" THEN Idle ELSE imp[h]]
  /\ UNCHANGED <<walkVars, socket, copies, state, job>>

-----------------------------------------------------------------------------
(* Imports: WriteMemory and the lazy fetch share import_compact_record. *)

find_federated_duplicate(f) == copies[f] > 0

\* The ACL and then the duplicate lookup.
Lookup(h, f, by) ==
  imp' = [imp EXCEPT ![h] = [pc |-> "found", rec |-> f, by |-> by,
                             dup |-> find_federated_duplicate(f)]]

WriteMemory(h, f) ==
  /\ up /\ imp[h].pc = "idle" /\ f \notin Barred
  /\ Lookup(h, f, "rpc")
  /\ UNCHANGED <<copies, state, job, walkVars, serverVars, env>>

\* A duplicate is touched, anything else is added.  The fetch counts it.  Copies
\* are counted up to one more than ImportsBounded allows.
FinishImport(h) ==
  /\ imp[h].pc = "found"
  /\ copies[imp[h].rec] < 1 + Cardinality(Handlers)
  /\ copies' = IF imp[h].dup THEN copies ELSE [copies EXCEPT ![imp[h].rec] = @ + 1]
  /\ imp' = [imp EXCEPT ![h] = Idle]
  /\ job' = IF imp[h].by = "rpc" THEN job
            ELSE IF imp[h].dup THEN [job EXCEPT !.duplicates = @ + 1]
            ELSE [job EXCEPT !.imported = @ + 1]
  /\ UNCHANGED <<state, walkVars, serverVars, env>>

\* The origin announces a tombstone between two polls.
Tombstone(f) ==
  /\ env < MaxEnv /\ env' = env + 1
  /\ state' = [state EXCEPT ![f] = "tombstoned"]
  /\ UNCHANGED <<copies, imp, job, walkVars, serverVars>>

-----------------------------------------------------------------------------
(* run_fetch *)

\* resolve_fetch_plan: tombstoned ids are skipped, then the operator confirms.
ResolvePlan(ids) ==
  /\ job.pc = "idle"
  /\ LET fetch == {f \in ids : state[f] = "available"} IN
       job' = [NoJob EXCEPT !.pc = IF fetch = {} THEN "done" ELSE "confirm", !.todo = fetch,
                            !.asked = Cardinality(ids),
                            !.skipped = Cardinality(ids \ fetch)]
  /\ UNCHANGED <<copies, imp, state, walkVars, serverVars, env>>

Confirm(yes) ==
  /\ job.pc = "confirm"
  /\ job' = IF yes THEN [job EXCEPT !.pc = "fetch"] ELSE NoJob
  /\ UNCHANGED <<copies, imp, state, walkVars, serverVars, env>>

Group(p) == {f \in job.todo : OriginOf[f] = p}

\* FetchPeerError: the ids of the group count as errors, the next group follows.
FetchFails(p) ==
  /\ job' = [job EXCEPT !.errors = @ + Cardinality(Group(p)), !.todo = @ \ Group(p)]

\* The envelope holds records for some ids; the rest are not found, said or not.
FetchAnswers(p, records) ==
  /\ records \subseteq Group(p)
  /\ job' = [job EXCEPT !.todo = @ \ Group(p), !.got = records,
                        !.fetched = @ + Cardinality(records),
                        !.notFound = @ + Cardinality(Group(p) \ records)]

FetchFromPeer(p) ==
  /\ job.pc = "fetch" /\ job.got = {} /\ Group(p) # {}
  /\ \A h \in Handlers : imp[h].by # "fetch"
  /\ FetchFails(p) \/ \E records \in SUBSET FedIds : FetchAnswers(p, records)
  /\ UNCHANGED <<copies, imp, state, walkVars, serverVars, env>>

\* One record of the answer after the other; an import that raises is an error,
\* one the ACL or moderation bars is gated.
ImportFetched(h, f) ==
  /\ job.pc = "fetch" /\ f \in job.got
  /\ \A g \in Handlers : imp[g].by # "fetch"
  /\ \/ /\ f \in Barred /\ job' = [job EXCEPT !.got = @ \ {f}, !.gated = @ + 1]
        /\ UNCHANGED imp
     \/ /\ f \notin Barred /\ imp[h].pc = "idle" /\ Lookup(h, f, "fetch")
        /\ job' = [job EXCEPT !.got = @ \ {f}]
     \/ /\ job' = [job EXCEPT !.got = @ \ {f}, !.errors = @ + 1] /\ UNCHANGED imp
  /\ UNCHANGED <<copies, state, walkVars, serverVars, env>>

FetchDone ==
  /\ job.pc = "fetch" /\ job.todo = {} /\ job.got = {}
  /\ \A h \in Handlers : imp[h].by # "fetch"
  /\ job' = [job EXCEPT !.pc = "done"]
  /\ UNCHANGED <<copies, imp, state, walkVars, serverVars, env>>

-----------------------------------------------------------------------------
WalkNext ==
  \/ \E row \in Row : AddRow(row)
  \/ \E r \in 1..MaxRowid : DeleteRow(r) \/ Retag(r)
  \/ ListMemories
ServerNext == (\E ok \in BOOLEAN : Start(ok)) \/ Stop \/ Crash
ImportNext ==
  \/ \E h \in Handlers : FinishImport(h) \/ \E f \in FedIds : WriteMemory(h, f) \/ ImportFetched(h, f)
  \/ \E f \in FedIds : Tombstone(f)
  \/ \E ids \in SUBSET FedIds : ResolvePlan(ids)
  \/ \E yes \in BOOLEAN : Confirm(yes)
  \/ \E f \in FedIds : FetchFromPeer(OriginOf[f])
  \/ FetchDone

Next == WalkNext \/ ServerNext \/ ImportNext

Spec == Init /\ [][Next]_mvars

-----------------------------------------------------------------------------
\* The walk loses nothing behind its cursor: a row at or before it that the
\* caller may have was delivered, unless it appeared there after the cursor had
\* passed (a reused rowid, a tag removed later).  Hazard: filtered rows and the
\* extra row of the window against the cursor that is minted.
CursorCovers ==
  \A r \in DOMAIN rows :
    r <= cursor /\ Exportable(r) /\ rows[r].project \in EffectiveProjects(caller) /\ r \notin reused
      => delivered[r] > 0

\* No row is delivered twice in a walk, however pages, filters and new rows fall.
DeliveredOnce == \A r \in 1..MaxRowid : delivered[r] <= 1

\* A server that is not running leaves no socket behind unless its process died,
\* so the next start binds both legs or none.
NoHalfStart == ~up => ~tcp /\ (socket => crashed)

\* A re-sent record is imported once; overlapping handlers that looked before any
\* of them added may add one copy each, never more.
ImportsBounded ==
  \A f \in FedIds : copies[f] + Cardinality({h \in Handlers : imp[h].pc = "found" /\ imp[h].rec = f
                                                              /\ ~imp[h].dup})
                    <= Cardinality(Handlers)

\* A finished fetch accounts for every id it was asked for, and every record it
\* got was imported, a duplicate, gated or an error, whichever peers failed.
FetchAccountsForAll ==
  job.pc = "done" =>
    job.skipped + job.notFound + job.errors + job.imported + job.duplicates + job.gated = job.asked

\* What the mesh promises: a walk without gap or repeat, a start of both legs or
\* none, and imports and fetches that add up.
MeshSafe ==
  /\ TypeOK /\ CursorCovers /\ DeliveredOnce /\ NoHalfStart /\ ImportsBounded
  /\ FetchAccountsForAll
=============================================================================
