---------------------------- MODULE ContextRewrite ----------------------------
(***************************************************************************)
(* on_context_rewrite: at-least-once delivery of a rewrite event.  Lookup  *)
(* by event key, the two rate limits, the supersedes pre-flight, the add   *)
(* and the edge are statements of their own; deliveries overlap and a      *)
(* process may die between any two of them.                                *)
(***************************************************************************)
EXTENDS Naturals, FiniteSets

CONSTANTS
  Workers,        \* request handlers
  Events,         \* distinct rewrite events (their keys)
  SessionOf,      \* the session of an event
  TargetOf,       \* the memory it supersedes, or NoTarget
  NoTarget,
  SessionLimit,   \* context_rewrite_rate_limit_per_minute, 0 disables
  ProjectLimit,   \* context_rewrite_project_rate_limit_per_minute, 0 disables
  MaxDeliveries, MaxFaults

\* What the theorem assumes of the handlers, events and limits.
LimitsOK ==
  /\ IsFiniteSet(Workers) /\ Events # {}
  /\ SessionLimit \in Nat /\ MaxDeliveries \in Nat

VARIABLES
  memories,  \* stored originals: id -> [event, fresh] (fresh: in the last minute)
  targets,   \* superseded memories that exist
  edges,     \* supersedes edges <<id, target>>
  worker,    \* per handler: pc, event, the memory it found or stored
  acked,     \* ghost: deliveries that returned a receipt, with their memory
  overlapped,\* ghost: events two handlers had in hand at once
  nextId, faults

rvars == <<memories, targets, edges, worker, acked, overlapped, nextId, faults>>

Idle == [pc |-> "idle", event |-> CHOOSE e \in Events : TRUE, id |-> 0]
Stages == {"idle", "lookup", "session", "project", "target", "add", "link"}

TypeOK ==
  /\ DOMAIN memories \subseteq 1..MaxDeliveries
  /\ \A i \in DOMAIN memories : memories[i] \in [event : Events, fresh : BOOLEAN]
  /\ edges \subseteq (1..MaxDeliveries) \X {TargetOf[e] : e \in Events}
  /\ worker \in [Workers -> [pc : Stages, event : Events, id : 0..MaxDeliveries]]

Init ==
  /\ memories = [i \in {} |-> 0] /\ edges = {}
  /\ targets = {TargetOf[e] : e \in Events} \ {NoTarget}
  /\ worker = [w \in Workers |-> Idle]
  /\ acked = {} /\ overlapped = {}
  /\ nextId = 0 /\ faults = 0

-----------------------------------------------------------------------------
at(w, pc) == worker[w].pc = pc
go(w, pc) == worker' = [worker EXCEPT ![w].pc = pc]
return(w) == worker' = [worker EXCEPT ![w] = Idle]
Fresh(es) == Cardinality({i \in DOMAIN memories : memories[i].fresh /\ memories[i].event \in es})
SameSession(e) == {f \in Events : SessionOf[f] = SessionOf[e]}
Limited(limit, count) == limit > 0 /\ count >= limit
InFlight(e) == {w \in Workers : worker[w].pc # "idle" /\ worker[w].event = e}

\* A delivery, or the re-delivery, of an event (deliveries are numbered).
Deliver(w, e) ==
  /\ at(w, "idle") /\ nextId < MaxDeliveries /\ nextId' = nextId + 1
  /\ worker' = [worker EXCEPT ![w] = [pc |-> "lookup", event |-> e, id |-> 0]]
  /\ overlapped' = IF InFlight(e) # {} THEN overlapped \cup {e} ELSE overlapped
  /\ UNCHANGED <<memories, targets, edges, acked, faults>>

\* Mutant: a duplicate is stored again.
Known_never(e) == {}
\* get_memory_id_by_rewrite_event_key
Known(e) == {i \in DOMAIN memories : memories[i].event = e}

Receipt(w, id) == acked' = acked \cup {<<worker[w].event, id>>}

\* The dedupe path links too, so a retry repairs a lost edge.
AfterDedupe(w, id) ==
  IF TargetOf[worker[w].event] = NoTarget THEN return(w) /\ Receipt(w, id)
  ELSE worker' = [worker EXCEPT ![w].pc = "link", ![w].id = id] /\ UNCHANGED acked

Lookup(w) ==
  /\ at(w, "lookup")
  /\ IF Known(worker[w].event) # {}
       THEN \E id \in Known(worker[w].event) : AfterDedupe(w, id)
       ELSE go(w, "session") /\ UNCHANGED acked
  /\ UNCHANGED <<memories, targets, edges, overlapped, nextId, faults>>

CheckSession(w) ==
  /\ at(w, "session")
  /\ IF Limited(SessionLimit, Fresh(SameSession(worker[w].event)))
       THEN return(w) ELSE go(w, "project")
  /\ UNCHANGED <<memories, targets, edges, acked, overlapped, nextId, faults>>

CheckProject(w) ==
  /\ at(w, "project")
  /\ IF Limited(ProjectLimit, Fresh(Events)) THEN return(w) ELSE go(w, "target")
  /\ UNCHANGED <<memories, targets, edges, acked, overlapped, nextId, faults>>

CheckTarget(w) ==
  /\ at(w, "target")
  /\ IF TargetOf[worker[w].event] \in targets \cup {NoTarget} THEN go(w, "add") ELSE return(w)
  /\ UNCHANGED <<memories, targets, edges, acked, overlapped, nextId, faults>>

Add(w) ==
  LET e  == worker[w].event
      id == CHOOSE i \in 1..MaxDeliveries : i \notin DOMAIN memories /\
              \A j \in 1..MaxDeliveries : j < i => j \in DOMAIN memories IN
  /\ at(w, "add")
  /\ memories' = [i \in DOMAIN memories \cup {id} |->
                    IF i = id THEN [event |-> e, fresh |-> TRUE] ELSE memories[i]]
  /\ IF TargetOf[e] = NoTarget THEN return(w) /\ Receipt(w, id)
     ELSE worker' = [worker EXCEPT ![w].pc = "link", ![w].id = id] /\ UNCHANGED acked
  /\ UNCHANGED <<targets, edges, overlapped, nextId, faults>>

\* _link_supersedes: the foreign keys refuse an edge whose ends are gone; the
\* caller gets an error and the memory stays.
Link(w) ==
  LET id == worker[w].id
      to == TargetOf[worker[w].event] IN
  /\ at(w, "link")
  /\ IF id \in DOMAIN memories /\ to \in targets
       THEN edges' = edges \cup {<<id, to>>} /\ Receipt(w, id)
       ELSE UNCHANGED <<edges, acked>>
  /\ return(w)
  /\ UNCHANGED <<memories, targets, overlapped, nextId, faults>>

-----------------------------------------------------------------------------
Fault == faults < MaxFaults /\ faults' = faults + 1

\* The handler dies; the harness may deliver the event again.
Crash(w) ==
  /\ Fault /\ ~at(w, "idle")
  /\ return(w)
  /\ UNCHANGED <<memories, targets, edges, acked, overlapped, nextId>>

\* The superseded memory is deleted, and its edges with it (ON DELETE CASCADE).
DeleteTarget(m) ==
  /\ Fault /\ m \in targets
  /\ targets' = targets \ {m}
  /\ edges' = {x \in edges : x[2] # m}
  /\ UNCHANGED <<memories, worker, acked, overlapped, nextId>>

\* The minute ends.
Minute ==
  /\ Fault
  /\ memories' = [i \in DOMAIN memories |-> [memories[i] EXCEPT !.fresh = FALSE]]
  /\ UNCHANGED <<targets, edges, worker, acked, overlapped, nextId>>

Next ==
  \/ \E w \in Workers :
       \/ \E e \in Events : Deliver(w, e)
       \/ Lookup(w) \/ CheckSession(w) \/ CheckProject(w) \/ CheckTarget(w)
       \/ Add(w) \/ Link(w) \/ Crash(w)
  \/ \E m \in targets : DeleteTarget(m)
  \/ Minute

Spec == Init /\ [][Next]_rvars

-----------------------------------------------------------------------------
(* Properties.                                                             *)

\* "re-delivery of the same rewrite event performs no duplicate writes": true
\* of deliveries one after the other, crashes in between included.
RedeliveryStoresOnce ==
  \A e \in Events \ overlapped :
    Cardinality({i \in DOMAIN memories : memories[i].event = e}) <= 1

\* A receipt is a promise: the stored original has its edge for as long as
\* both ends exist, whichever delivery of the event got through.
ReceiptMeansLinked ==
  \A r \in acked :
    TargetOf[r[1]] \in targets => <<r[2], TargetOf[r[1]]>> \in edges

\* The limits count before they store: together the handlers exceed the
\* limit of a session by one less than there are handlers.
RewriteOvershootBounded ==
  SessionLimit > 0 =>
    \A e \in Events : Fresh(SameSession(e)) <= SessionLimit + Cardinality(Workers) - 1

\* What a rewrite promises: one original an event, a link behind every receipt,
\* and limits that racing handlers overshoot by one each at most.
RewriteSafe ==
  /\ TypeOK /\ RedeliveryStoresOnce /\ ReceiptMeansLinked /\ RewriteOvershootBounded
=============================================================================
