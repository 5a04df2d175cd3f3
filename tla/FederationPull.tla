---------------------------- MODULE FederationPull ----------------------------
(***************************************************************************)
(* A pull between two nodes: the client asks, the server gates the request  *)
(* (peer and token, rate limit, ACL), looks into its access log, searches,  *)
(* moderates, appends to the log and answers; the answer may be lost.       *)
(* Requests of a peer overlap: the handler threads share the limiter (under *)
(* its lock) and the log (append under its lock, read without).             *)
(***************************************************************************)
EXTENDS Naturals, FiniteSets, Sequences, SequencesExt

CONSTANTS
  Threads,      \* requests in flight at a time
  Topics,
  Projects,     \* project scopes a request may name
  Allowed,      \* the scopes of the peer's ACL
  Records,      \* memories of the server
  ProjectOf,    \* the project of a record
  TypesOk,      \* records whose type the peer may get
  Refusing,     \* records moderation refuses
  RateLimit,    \* rate_limit_per_minute
  MaxPulls, MaxFaults

\* There is something to ask for, and finitely many threads answer.
LimitsOK ==
  /\ Topics # {} /\ Projects # {} /\ RateLimit \in Nat /\ MaxPulls \in Nat
  /\ IsFiniteSet(Threads)

VARIABLES
  noFederate, \* records tagged mnemos:no-federate
  window,     \* requests the limiter counted in the last minute
  log,        \* the access log, in append order
  req,        \* per thread: its request and how far it is
  client,     \* what the client made of the last answer
  lostLog,    \* ghost: requests whose append failed
  shipped,    \* ghost: per request, the records handed out
  posted,     \* ghost: per request, the length of the log when it came
  clock, faults

pvars == <<noFederate, window, log, req, client, lostLog, shipped, posted, clock, faults>>

Codes == {"EXHAUSTIVE", "ALREADY_EXHAUSTED", "PARTIAL", "REFUSED"}
Entry == [topic : Topics, scope : Projects, ts : 1..MaxPulls, code : Codes,
          ids : SUBSET Records]
Free  == [pc |-> "free", topic |-> CHOOSE t \in Topics : TRUE,
          scope |-> CHOOSE p \in Projects : TRUE, ts |-> 0, code |-> "REFUSED", ids |-> {}]

TypeOK ==
  /\ noFederate \subseteq Records
  /\ window \in 0..MaxPulls
  /\ log \in Seq(Entry)
  /\ req \in [Threads -> [pc : {"free", "limit", "acl", "query", "search", "log", "answer"},
                          topic : Topics, scope : Projects, ts : 0..MaxPulls,
                          code : Codes, ids : SUBSET Records]]
  /\ client \in [action : {"none", "use", "noop", "fallback"}, ids : SUBSET Records]
  /\ clock \in 0..MaxPulls

Init ==
  /\ noFederate = {} /\ window = 0 /\ log = <<>>
  /\ req = [t \in Threads |-> Free]
  /\ client = [action |-> "none", ids |-> {}]
  /\ lostLog = {} /\ shipped = [n \in 1..MaxPulls |-> {}]
  /\ posted = [n \in 1..MaxPulls |-> 0]
  /\ clock = 0 /\ faults = 0

-----------------------------------------------------------------------------
at(t, pc) == req[t].pc = pc
go(t, pc) == req' = [req EXCEPT ![t].pc = pc]
\* What is left to do once the outcome is known: log it, then answer.
Decide(t, code, ids) == req' = [req EXCEPT ![t].pc = "log", ![t].code = code, ![t].ids = ids]

\* pull_from_peer posts; a peer or a token the server does not know is answered
\* 403 without a trace and is not modelled further.
Post(t, topic, scope) ==
  /\ at(t, "free") /\ clock < MaxPulls /\ clock' = clock + 1
  /\ req' = [req EXCEPT ![t] = [Free EXCEPT !.pc = "limit", !.topic = topic,
                                            !.scope = scope, !.ts = clock + 1]]
  /\ posted' = [posted EXCEPT ![clock + 1] = Len(log)]
  /\ UNCHANGED <<noFederate, window, log, client, lostLog, shipped, faults>>

\* RateLimitBucket.check
UnderLimit == window < RateLimit

\* RateLimiter.check, under the lock: a refusal is not counted.
RateCheck(t) ==
  /\ at(t, "limit")
  /\ IF UnderLimit
       THEN window' = window + 1 /\ go(t, "acl")
       ELSE Decide(t, "REFUSED", {}) /\ UNCHANGED window
  /\ UNCHANGED <<noFederate, log, client, lostLog, shipped, posted, clock, faults>>

CheckAcl(t) ==
  /\ at(t, "acl")
  /\ IF req[t].scope \in Allowed THEN go(t, "query") ELSE Decide(t, "REFUSED", {})
  /\ UNCHANGED <<noFederate, window, log, client, lostLog, shipped, posted, clock, faults>>

\* FederationAccessLog.query: the entry with the greatest time of request, the
\* project scope is not compared.
LastEntry(topic) ==
  LET of == {i \in DOMAIN log : log[i].topic = topic}
  IN  {log[i] : i \in {i \in of : \A j \in of : log[j].ts <= log[i].ts}}

Exhausted(topic) == \E e \in LastEntry(topic) : e.code = "EXHAUSTIVE"

QueryLog(t) ==
  /\ at(t, "query")
  /\ IF Exhausted(req[t].topic) THEN Decide(t, "ALREADY_EXHAUSTED", {}) ELSE go(t, "search")
  /\ UNCHANGED <<noFederate, window, log, client, lostLog, shipped, posted, clock, faults>>

\* search, the no-federate layer and the type filter
Candidates(scope) ==
  {r \in Records : ProjectOf[r] = scope /\ r \notin noFederate /\ r \in TypesOk}

\* _select_trigger_code
select_trigger_code(candidates, records) ==
  IF candidates = records THEN "EXHAUSTIVE"
  ELSE IF records = {} THEN "REFUSED" ELSE "PARTIAL"

Search(t) ==
  LET found == Candidates(req[t].scope)
      clean == found \ Refusing IN
  /\ at(t, "search")
  /\ Decide(t, select_trigger_code(found, clean), clean)
  /\ UNCHANGED <<noFederate, window, log, client, lostLog, shipped, posted, clock, faults>>

\* Mutant: the answer is sent first, the entry written when there is time.
LogAccess_skips(t) ==
  /\ at(t, "log")
  /\ UNCHANGED <<log, lostLog, faults>>
  /\ go(t, "answer")
  /\ UNCHANGED <<noFederate, window, client, shipped, posted, clock>>

\* _log_access: an OSError is swallowed and the request goes on.
LogAccess(t) ==
  /\ at(t, "log")
  /\ \/ /\ log' = Append(log, [topic |-> req[t].topic, scope |-> req[t].scope,
                               ts |-> req[t].ts, code |-> req[t].code, ids |-> req[t].ids])
        /\ UNCHANGED <<lostLog, faults>>
     \/ /\ faults < MaxFaults /\ faults' = faults + 1
        /\ lostLog' = lostLog \cup {req[t].ts}
        /\ UNCHANGED log
  /\ go(t, "answer")
  /\ UNCHANGED <<noFederate, window, client, shipped, posted, clock>>

\* handle_share_finding / _parse_ok / _fallback on the client
Outcome(code, ids) ==
  [action |-> CASE code = "ALREADY_EXHAUSTED" -> "noop"
                [] code \in {"EXHAUSTIVE", "PARTIAL"} -> "use"
                [] OTHER -> "fallback",
   ids |-> ids]

\* The answer arrives, or the client gave up after its timeout.
Answer(t) ==
  /\ at(t, "answer")
  /\ shipped' = [shipped EXCEPT ![req[t].ts] = req[t].ids]
  /\ \/ client' = Outcome(req[t].code, req[t].ids) /\ UNCHANGED faults
     \/ /\ faults < MaxFaults /\ faults' = faults + 1
        /\ client' = [action |-> "fallback", ids |-> {}]
  /\ req' = [req EXCEPT ![t] = Free]
  /\ UNCHANGED <<noFederate, window, log, lostLog, posted, clock>>

\* A record is tagged or untagged; the minute passes.
Tag(r) ==
  /\ faults < MaxFaults /\ faults' = faults + 1
  /\ noFederate' = IF r \in noFederate THEN noFederate \ {r} ELSE noFederate \cup {r}
  /\ UNCHANGED <<window, log, req, client, lostLog, shipped, posted, clock>>
Minute ==
  /\ window > 0 /\ window' = 0
  /\ UNCHANGED <<noFederate, log, req, client, lostLog, shipped, posted, clock, faults>>

Next ==
  \/ \E t \in Threads :
       \/ \E topic \in Topics, scope \in Projects : Post(t, topic, scope)
       \/ RateCheck(t) \/ CheckAcl(t) \/ QueryLog(t) \/ Search(t) \/ LogAccess(t) \/ Answer(t)
  \/ \E r \in Records : Tag(r)
  \/ Minute

Spec == Init /\ [][Next]_pvars

-----------------------------------------------------------------------------
(* Properties.                                                             *)

\* Contract section 10: what left this node is on record, with the answer's
\* records, before the peer has it; only a failed append leaves a hole.
ShippedIsLogged ==
  \A n \in 1..MaxPulls : shipped[n] # {} /\ n \notin lostLog =>
    \E i \in DOMAIN log : log[i].ts = n /\ log[i].ids = shipped[n]

\* Anti-correlation: a pull that comes after a full answer on its topic was
\* logged is answered in full again only after some other entry on the topic.
NoBackToBackAnswer ==
  \A i, j \in DOMAIN log :
    /\ i <= posted[log[j].ts] /\ log[i].topic = log[j].topic
    /\ log[i].code = "EXHAUSTIVE" /\ log[j].code = "EXHAUSTIVE"
    => \E k \in DOMAIN log \ {i, j} : log[k].topic = log[i].topic /\ log[k].ts >= log[i].ts

\* The limiter counts and admits under one lock: in a window no more requests
\* get past it than the limit, however many threads ask.
AdmittedWithinLimit == window <= RateLimit

\* A tag set while the request runs is too late only for the search that is
\* already done: a search never returns what carries no-federate then.
NoFederateStep ==
  \A t \in Threads : at(t, "search") /\ req'[t].pc = "log"
    => req'[t].ids \cap noFederate = {}

\* What an answered pull promises: it is logged, it does not repeat, and it is
\* within the rate.
PullSafe ==
  /\ TypeOK /\ ShippedIsLogged /\ NoBackToBackAnswer /\ AdmittedWithinLimit
=============================================================================
