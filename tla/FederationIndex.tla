---------------------------- MODULE FederationIndex ----------------------------
(***************************************************************************)
(* The federation metadata index: a serving node takes entries in from its  *)
(* senders (UpsertIndexEntries), serves them in pages by rowid              *)
(* (SyncMetadata), and a polling node mirrors them behind a watermark       *)
(* (MetaPoller).  The two statements of a page are steps of their own, and  *)
(* so are the poller's import and its watermark; either process may die.    *)
(***************************************************************************)
EXTENDS Naturals, FiniteSets

CONSTANTS
  Ids,         \* entry ids
  Senders,     \* authenticated senders of the serving node
  Server,      \* the serving node: the sender of its own rows
  Scoped,      \* ids in the poller's allowed projects
  Blocked,     \* ids the poller's gates refuse (its blocklist, no-federate)
  MaxTs,       \* timestamps are 1..MaxTs
  PageLimit,   \* page size
  MaxPages,    \* META_POLL_MAX_PAGES
  MaxUpserts, MaxFaults

\* A page holds at least one row, a tick reads a bounded number of pages.
PagesOK == PageLimit \in Nat \ {0} /\ MaxPages \in Nat

VARIABLES
  index,     \* the server's rows, by id: rowid, origin, ts (the version
             \* of its content, a tombstone included)
  page,      \* the page being built: rows, whether it has more, its watermark
  mirror,    \* the poller's rows
  since,     \* the persisted watermark (federation_poll_state)
  poll,      \* the poller: pc, its watermark, pages read in this tick
  late,      \* ghost: ids inserted between the two statements of an empty page
  upserts, faults

ivars == <<index, page, mirror, since, poll, late, upserts, faults>>

Row     == [rowid : Nat, origin : Senders, ts : 1..MaxTs]
NoPage  == [rows |-> [i \in {} |-> 0], more |-> FALSE, rev |-> 0]
Resting == [pc |-> "rest", since |-> 0, pages |-> 0]

TypeOK ==
  /\ DOMAIN index \subseteq Ids /\ \A i \in DOMAIN index : index[i] \in Row
  /\ DOMAIN mirror \subseteq DOMAIN index /\ \A i \in DOMAIN mirror : mirror[i] \in Row
  /\ since \in Nat
  /\ poll.pc \in {"rest", "list", "head", "import", "mark"} /\ poll.pages \in 0..MaxPages
  /\ DOMAIN page.rows \subseteq Ids

Init ==
  /\ index = [i \in {} |-> 0] /\ mirror = [i \in {} |-> 0]
  /\ page = NoPage /\ since = 0 /\ poll = Resting
  /\ late = {} /\ upserts = 0 /\ faults = 0

-----------------------------------------------------------------------------
Put(f, i, row) == [j \in DOMAIN f \cup {i} |-> IF j = i THEN row ELSE f[j]]
index_head(idx) == IF DOMAIN idx = {} THEN 0
             ELSE CHOOSE n \in {idx[i].rowid : i \in DOMAIN idx} :
                    \A i \in DOMAIN idx : idx[i].rowid <= n

\* Mutant: anybody may update a row.
Gated_anySender(idx, i, sender) == FALSE
\* The origin-mutation guard of the conflict path.
Gated(idx, i, sender) == i \in DOMAIN idx /\ idx[i].origin # sender

\* upsert_index_entries for one entry: insert, or last-writer-wins by
\* timestamp.  The origin and the rowid of a row never change.
upsert_entry(idx, i, sender, entry) ==
  IF Gated(idx, i, sender) THEN idx
  ELSE IF i \notin DOMAIN idx
    THEN Put(idx, i, [rowid |-> index_head(idx) + 1, origin |-> entry.origin,
                      ts |-> entry.ts])
  ELSE IF entry.ts >= idx[i].ts
    THEN Put(idx, i, [idx[i] EXCEPT !.ts = entry.ts])
  ELSE idx

\* UpsertIndexEntries: an origin of "self" is re-stamped to the sender; a new id
\* may name another origin (transit).
UpsertIndexEntries(sender, i, origin, ts) ==
  /\ upserts < MaxUpserts /\ upserts' = upserts + 1
  /\ index' = upsert_entry(index, i, sender, [origin |-> origin, ts |-> ts])
  /\ late' = IF poll.pc = "head" /\ i \notin DOMAIN index THEN late \cup {i} ELSE late
  /\ UNCHANGED <<page, mirror, since, poll, faults>>

-----------------------------------------------------------------------------
(* One tick of the poller.                                                 *)

StartPoll ==
  /\ poll.pc = "rest"
  /\ poll' = [pc |-> "list", since |-> since, pages |-> 0]
  /\ UNCHANGED <<index, page, mirror, since, late, upserts, faults>>

\* list_index: the rows of the peer's projects after a rowid
Undelivered(rev) == {i \in DOMAIN index \cap Scoped : index[i].rowid > rev}
FirstRows(ids, n) ==
  {i \in ids : Cardinality({j \in ids : index[j].rowid < index[i].rowid}) < n}

\* build_metadata_sync_response up to the empty page
ListPage ==
  LET all  == Undelivered(poll.since)
      rows == FirstRows(all, PageLimit)
      last == CHOOSE i \in rows : \A j \in rows : index[j].rowid <= index[i].rowid IN
  /\ poll.pc = "list"
  /\ IF all = {} THEN /\ poll' = [poll EXCEPT !.pc = "head"]
                      /\ page' = [NoPage EXCEPT !.rev = poll.since]
     ELSE /\ poll' = [poll EXCEPT !.pc = "import"]
          /\ page' = [rows |-> [i \in rows |-> index[i]], more |-> all # rows,
                       rev |-> index[last].rowid]
  /\ UNCHANGED <<index, mirror, since, late, upserts, faults>>

\* index_head over the allowed projects: where an empty page parks.
ParkAtHead ==
  LET mine == [i \in DOMAIN index \cap Scoped |-> index[i]] IN
  /\ poll.pc = "head"
  /\ page' = [page EXCEPT !.rev = IF index_head(mine) > @ THEN index_head(mine) ELSE @]
  /\ poll' = [poll EXCEPT !.pc = "import"]
  /\ UNCHANGED <<index, mirror, since, late, upserts, faults>>

\* The handler; a peer the ACL does not know is refused, which is a page that fails.
SyncMetadata == ListPage \/ ParkAtHead

\* The poller's import: the sender is the server, and the server's own rows
\* (a sender that is the server itself) arrive as "self".
Import ==
  LET new == DOMAIN page.rows \ Blocked IN
  /\ poll.pc = "import"
  /\ mirror' = [i \in DOMAIN mirror \cup new |->
                  IF i \in new THEN upsert_entry(mirror, i, Server, page.rows[i])[i]
                  ELSE mirror[i]]
  /\ poll' = [poll EXCEPT !.pc = "mark"]
  /\ UNCHANGED <<index, page, since, late, upserts, faults>>

\* Mutant: the watermark is written before the page is imported.
MarkPollOk_ahead(rev) == rev + 1
MarkPollOk(rev) == rev

\* mark_poll_ok after the import, then the next page or the end of the tick.
Mark ==
  LET rev == IF page.rev > poll.since THEN page.rev ELSE poll.since IN
  /\ poll.pc = "mark"
  /\ since' = MarkPollOk(rev)
  /\ poll' = IF page.more /\ poll.pages + 1 < MaxPages
             THEN [pc |-> "list", since |-> rev, pages |-> poll.pages + 1]
             ELSE Resting
  /\ page' = NoPage
  /\ UNCHANGED <<index, mirror, late, upserts, faults>>

Interrupted ==
  /\ faults < MaxFaults /\ faults' = faults + 1
  /\ poll' = Resting /\ page' = NoPage
  /\ UNCHANGED <<index, mirror, since, late, upserts>>

\* The page fails (timeout, exit code, malformed): mark_poll_error leaves the
\* watermark where the last mark put it.
PollFails == poll.pc \in {"list", "head"} /\ Interrupted

\* stop() gives up its grace time and kills the call in flight, or the process
\* dies, wherever the tick is; the next start polls at once.
Stop == poll.pc # "rest" /\ Interrupted

Tick == StartPoll \/ SyncMetadata \/ Import \/ Mark
Feed == \E s \in Senders, o \in Senders, i \in Ids, ts \in 1..MaxTs :
          UpsertIndexEntries(s, i, o, ts)
Next == Feed \/ Tick \/ PollFails \/ Stop

Spec == Init /\ [][Next]_ivars
\* The poll loop ticks for ever; a tick that fails is followed by another.
LiveSpec == Spec /\ WF_ivars(Tick)

-----------------------------------------------------------------------------
(* Properties.                                                             *)

\* The step is an entry for i that came from the origin of i.
ByOrigin(i) == \E o \in Senders, ts \in 1..MaxTs : UpsertIndexEntries(index[i].origin, i, o, ts)

\* CWE-284: a row is changed only by a message of its origin, and no step
\* re-attributes it, on either node; its time never goes back (LWW).
OriginStep ==
  /\ \A i \in DOMAIN index : /\ i \in DOMAIN index' /\ index'[i].origin = index[i].origin
                             /\ index'[i].ts >= index[i].ts
                             /\ index'[i] # index[i] => ByOrigin(i)
  /\ \A i \in DOMAIN mirror : i \in DOMAIN mirror' /\ mirror'[i].origin = mirror[i].origin
       /\ (mirror[i].origin # Server => mirror'[i] = mirror[i])
OnlyOriginMutates == [][OriginStep]_ivars

\* The watermark never runs ahead of the mirror: whatever row it has passed is
\* in the mirror, except what came between the two statements of a page.
WatermarkCovers ==
  \A i \in (DOMAIN index \cap Scoped) \ (Blocked \cup late) :
    index[i].rowid <= since => i \in DOMAIN mirror

\* What the mirror promises at any moment.
MirrorSafe == TypeOK /\ WatermarkCovers

\* Every row the peer may see is mirrored in the end, whatever ticks failed.
EventuallyMirrored ==
  \A i \in Scoped \ Blocked :
    (i \in DOMAIN index) ~> (i \in DOMAIN mirror \/ i \in late)

=============================================================================
