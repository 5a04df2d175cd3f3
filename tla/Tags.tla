-------------------------------- MODULE Tags --------------------------------
(***************************************************************************)
(* The bulk tag commands (manager.py tags_rename, tags_remove, tags_add,   *)
(* cli/main.py tags normalize and tags audit) beside single-row writers    *)
(* (update, remove_no_federate).  A bulk command walks the store by LIMIT  *)
(* and OFFSET and writes each row's whole tag list back from the page it   *)
(* read; a tag is a pair <<prefix, subtype>>.                              *)
(***************************************************************************)
EXTENDS Naturals, Sequences, FiniteSets, SequencesExt

CONSTANTS
  Ids,
  Rows0,      \* the rows a store may start with, as records [tags, project, secret]
  Commands,   \* bulk commands: [kind, from, to, subs, tags, legacy, dry, scope]
  Subtypes,   \* VESMARO_TAG_SUBTYPES
  PageSize,
  MaxEdits,   \* single-row calls per behaviour
  MaxRuns     \* bulk commands per behaviour

VARIABLES
  rows,      \* id -> row
  order,     \* the ids of the table, newest first
  scan,      \* the running bulk command
  call,      \* the running single-row call
  raced,     \* rows written from a snapshot another writer had overtaken
  stripped,  \* rows whose marker a bulk command itself took away
  edits, runs

tvars == <<rows, order, scan, call, raced, stripped, edits, runs>>

Marker == <<"mnemos", "no-federate">>
NoScope == "none"
NoCommand == [kind |-> "none", from |-> "none", to |-> "none", subs |-> {}, tags |-> {},
              legacy |-> FALSE, dry |-> FALSE, scope |-> NoScope]
NoScan == [pc |-> "idle", cmd |-> NoCommand, offset |-> 0, page |-> <<>>, seen |-> {}, start |-> {},
           stale |-> {}, left |-> FALSE, met |-> FALSE]
NoCall == [kind |-> "idle", id |-> "none", tags |-> {}, secret |-> FALSE, stale |-> FALSE]

Of(tags, prefix) == {t \in tags : t[1] = prefix}
Lower(sub) == IF sub = "P" THEN "p" ELSE sub
NoDupes(tags) == \A p \in {"project", "agent", "task"} : Cardinality(Of(tags, p)) <= 1

\* gcw: with a known subtype is an alias of mnemos:.
Migrated(tags) == {IF t[1] = "gcw" /\ t[2] \in Subtypes THEN <<"mnemos", t[2]>> ELSE t : t \in tags}

\* validate_tag_contract, strict: lax mode refuses only ambiguous sets.
Clean(tags) ==
  LET m == Migrated(tags) IN
  /\ NoDupes(m)
  /\ \A p \in {"project", "agent"} : Of(m, p) # {}
  /\ \A t \in Of(m, "project") : t[2] = Lower(t[2])
  /\ Of(m, "mnemos") # {} /\ \A t \in Of(m, "mnemos") : t[2] \in Subtypes

validate_tag_contract(tags, strict) == IF strict THEN Clean(tags) ELSE NoDupes(Migrated(tags))

----------------------------------------------------------------------------
\* What each command makes of a row's tags.

\* A tag under the old prefix moves to the new one; an unknown subtype stays
\* or becomes legacy.
RenameTag(c, t) ==
  IF t[1] # c.from \/ (c.subs # {} /\ t[2] \notin c.subs) THEN {t}
  ELSE IF t[2] \in Subtypes THEN {<<c.to, t[2]>>}
  ELSE IF c.legacy THEN {<<c.to, "legacy">>} ELSE {t}

tags_rename(c, tags) == UNION {RenameTag(c, t) : t \in tags}
\* With `legacy` the command reads its tags as prefixes.
tags_remove(c, tags) == {t \in tags : ~ \E m \in c.tags : t = m \/ (c.legacy /\ t[1] = m[1])}
tags_add(c, tags) == tags \cup c.tags

tags_normalize(tags) == {IF t[1] \in {"project", "agent"} THEN <<t[1], Lower(t[2])>> ELSE t : t \in tags}

\* The missing ones of the three required tags are added.
_audit_heal_tags(tags, project) ==
  tags \cup (IF Of(tags, "project") = {} THEN {<<"project", Lower(project)>>} ELSE {})
       \cup (IF Of(tags, "agent") = {} THEN {<<"agent", "user">>} ELSE {})
       \cup (IF Of(tags, "mnemos") = {} THEN {<<"mnemos", "legacy">>} ELSE {})

NewTags(c, tags, project) ==
  CASE c.kind = "rename" -> tags_rename(c, tags)
    [] c.kind = "remove" -> tags_remove(c, tags)
    [] c.kind = "add" -> tags_add(c, tags)
    [] c.kind = "normalize" -> tags_normalize(tags)
    [] c.kind = "audit" -> _audit_heal_tags(tags, project)

\* _commit_tags: rename is checked in lax mode (and the patched list thrown
\* away), remove and add in strict mode; normalize and audit check nothing.
Accepted(c, tags) ==
  c.kind \in {"normalize", "audit"} \/ validate_tag_contract(tags, c.kind \in {"remove", "add"})

\* The project column follows the project tag; an audit writes only the tags.
Column(c, tags, project, now) ==
  IF c.kind = "audit" THEN now
  ELSE IF Of(tags, "project") = {} THEN project
  ELSE (CHOOSE t \in Of(tags, "project") : TRUE)[2]

\* A row that a run of the command would still change.
ToDo(c, i) ==
  LET new == NewTags(c, rows[i].tags, rows[i].project)
  IN new # rows[i].tags /\ Accepted(c, new)

----------------------------------------------------------------------------
\* The walk.

InScope(i, c) == c.scope = NoScope \/ rows[i].project = c.scope
Listing(c) == SelectSeq(order, LAMBDA i : InScope(i, c))
Listed(c) == ToSet(Listing(c))

Init ==
  /\ rows \in [Ids -> Rows0]
  /\ order = SetToSeq(Ids)
  /\ scan = NoScan /\ call = NoCall /\ raced = {} /\ stripped = {} /\ edits = 0 /\ runs = 0

Begin(c) ==
  /\ scan.pc = "idle" /\ runs < MaxRuns
  /\ scan' = [NoScan EXCEPT !.pc = "page", !.cmd = c, !.start = Listed(c),
                            !.met = call.kind # "idle"]
  /\ runs' = runs + 1
  /\ UNCHANGED <<rows, order, call, raced, stripped, edits>>

\* At most PageSize elements after the first `skip`.
Slice(s, skip) == SubSeq(s, skip + 1, IF skip + PageSize < Len(s) THEN skip + PageSize ELSE Len(s))

\* SQLiteStore.list_all: one page of the rows in scope, newest first.
list_all(c, offset) == Slice(Listing(c), offset)

\* An audit reads the whole table in one statement.
NextPage ==
  /\ scan.pc = "page"
  /\ LET c == scan.cmd
         ids == IF c.kind # "audit" THEN list_all(c, scan.offset)
                ELSE IF scan.offset = 0 THEN order ELSE <<>>
         page == [n \in 1..Len(ids) |-> [id |-> ids[n], tags |-> rows[ids[n]].tags,
                                         project |-> rows[ids[n]].project]]
     IN scan' = [scan EXCEPT !.pc = IF ids = <<>> THEN "done" ELSE "rows",
                             !.offset = @ + Len(ids), !.page = page, !.stale = {}]
  /\ UNCHANGED <<rows, order, call, raced, stripped, edits, runs>>

\* A write of row i: the other writer's snapshot of it is stale from now on.
CommitRow ==
  /\ scan.pc = "rows"
  /\ LET c == scan.cmd
         s == Head(scan.page)
         new == NewTags(c, s.tags, s.project)
         writes == /\ new # s.tags /\ Accepted(c, new) /\ ~c.dry
                   /\ s.id \in ToSet(order)
         col == Column(c, new, s.project, rows[s.id].project)
     IN /\ rows' = IF writes THEN [rows EXCEPT ![s.id].tags = new, ![s.id].project = col]
                   ELSE rows
        /\ raced' = IF writes /\ s.id \in scan.stale THEN raced \cup {s.id} ELSE raced
        /\ stripped' = IF writes /\ Marker \in s.tags \ new THEN stripped \cup {s.id} ELSE stripped
        /\ call' = [call EXCEPT !.stale = @ \/ (writes /\ call.id = s.id)]
        /\ scan' = [scan EXCEPT !.pc = IF Len(scan.page) = 1 THEN "page" ELSE "rows",
                                !.page = Tail(@), !.seen = @ \cup {s.id},
                                !.left = @ \/ (writes /\ InScope(s.id, c)
                                               /\ c.scope \notin {NoScope, col})]
  /\ UNCHANGED <<order, edits, runs>>

Finish ==
  /\ scan.pc = "done" /\ scan' = NoScan
  /\ UNCHANGED <<rows, order, call, raced, stripped, edits, runs>>

----------------------------------------------------------------------------
\* Single-row writers.

\* update and remove_no_federate both start from a read of the row; an update
\* brings new content, with or without a secret.
Read(kind, i, secret) ==
  /\ call.kind = "idle" /\ edits < MaxEdits /\ i \in ToSet(order)
  /\ kind = "release" => Marker \in rows[i].tags /\ secret = rows[i].secret
  /\ call' = [kind |-> kind, id |-> i, tags |-> rows[i].tags, secret |-> secret, stale |-> FALSE]
  /\ scan' = [scan EXCEPT !.met = scan.pc # "idle"]
  /\ edits' = edits + 1
  /\ UNCHANGED <<rows, order, raced, stripped, runs>>

_scan_and_tag(tags, secret) == IF secret THEN tags \cup {Marker} ELSE tags

\* Mutant: the marker goes without a second look at the content.
Released_unchecked(tags, secret) == tags \ {Marker}

\* remove_no_federate, confirmed: the marker goes and comes back if the
\* content still holds a secret.
Released(tags, secret) == _scan_and_tag(tags \ {Marker}, secret)

Write ==
  /\ call.kind # "idle"
  /\ LET i == call.id
         new == IF call.kind = "edit" THEN _scan_and_tag(call.tags, call.secret)
                ELSE Released(call.tags, call.secret)
         writes == i \in ToSet(order)
     IN /\ rows' = IF writes THEN [rows EXCEPT ![i].tags = new, ![i].secret =
                                     IF call.kind = "edit" THEN call.secret ELSE @] ELSE rows
        /\ raced' = IF writes /\ call.stale THEN raced \cup {i} ELSE raced
        /\ scan' = [scan EXCEPT !.stale = IF writes THEN @ \cup {i} ELSE @]
  /\ call' = NoCall
  /\ UNCHANGED <<order, stripped, edits, runs>>

\* The rows in front of the offset.
Passed == LET l == Listing(scan.cmd)
          IN {l[n] : n \in 1..(IF scan.offset < Len(l) THEN scan.offset ELSE Len(l))}

\* A row is deleted: every later row moves one place up in the listing.
Delete(i) ==
  /\ edits < MaxEdits /\ i \in ToSet(order) /\ call.id # i
  /\ order' = SelectSeq(order, LAMBDA j : j # i)
  /\ scan' = [scan EXCEPT !.left = @ \/ (scan.pc # "idle" /\ i \in Passed)]
  /\ edits' = edits + 1
  /\ UNCHANGED <<rows, call, raced, stripped, runs>>

Bulk == (\E c \in Commands : Begin(c)) \/ NextPage \/ CommitRow \/ Finish
Single == (\E k \in {"edit", "release"}, i \in Ids, s \in BOOLEAN : Read(k, i, s)) \/ Write
          \/ (\E i \in Ids : Delete(i))
Next == Bulk \/ Single
Spec == Init /\ [][Next]_tvars

----------------------------------------------------------------------------
TypeOK ==
  /\ \A i \in Ids : rows[i].secret \in BOOLEAN
  /\ ToSet(order) \subseteq Ids
  /\ scan.pc \in {"idle", "page", "rows", "done"} /\ scan.offset \in 0..Cardinality(Ids)
  /\ call.kind \in {"idle", "edit", "release"}
  /\ raced \subseteq Ids /\ stripped \subseteq Ids

\* A row with a secret in its content loses its no-federate marker only to a
\* bulk command that names it, or to a tag list written from an overtaken
\* snapshot (_commit_tags, update and remove_no_federate all write whole lists).
MarkerLossNeedsOverlap ==
  \A i \in ToSet(order) :
    rows[i].secret /\ Marker \notin rows[i].tags => i \in raced \cup stripped

\* When no row left the listing in front of its offset, a bulk command has looked at every
\* row that was there at its start (offset += len(batch) over list_all).
ScanCovers ==
  scan.pc = "done" /\ ~scan.left => scan.start \cap Listed(scan.cmd) \subseteq scan.seen

\* A finished bulk command leaves nothing for a second run with the same
\* arguments, unless a row moved or a single-row call ran meanwhile (the
\* reports of rename, remove, add, normalize and audit are all documented as
\* idempotent).
SecondRunChangesNothing ==
  scan.pc = "done" /\ ~scan.left /\ ~scan.met /\ ~scan.cmd.dry
    => \A i \in Listed(scan.cmd) : ~ToDo(scan.cmd, i)

\* Tags that meet the contract keep meeting it.  Only three writes can break
\* them: a rename out of the mnemos namespace, remove_no_federate of a row
\* whose marker is its only category, and a list written from an overtaken
\* snapshot.
ContractStep ==
  \A i \in Ids : Clean(rows[i].tags) /\ rows'[i].tags # rows[i].tags =>
    \/ Clean(rows'[i].tags) \/ i \in raced'
    \/ scan.cmd.kind = "rename" /\ scan.cmd.to \notin {"mnemos", "gcw"}
    \/ call.kind = "release" /\ call.id = i /\ Of(rows[i].tags, "mnemos") = {Marker}

\* What the tag commands promise: the marker stays, every row is reached, and a
\* second run finds nothing to do.
TagsSafe ==
  /\ TypeOK /\ MarkerLossNeedsOverlap /\ ScanCovers /\ SecondRunChangesNothing
=============================================================================
