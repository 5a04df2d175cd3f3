------------------------------- MODULE Updates -------------------------------
(***************************************************************************)
(* vesma update: the check against the package index with its disk cache,   *)
(* the apply path with its history file, and the weekly timer's units,      *)
(* which the host and the boxes on it share.  Server start, timer and shell *)
(* are processes; the cache and the history are files each of them reads    *)
(* whole and writes whole.  Every alias has version 1, and 2 from the time  *)
(* it is published.                                                         *)
(***************************************************************************)
EXTENDS Naturals, FiniteSets, FiniteSetsExt

CONSTANTS
  Procs,
  Dists,        \* CANDIDATE_DISTS
  First,        \* the one detect_installed_dist prefers
  TTL, NegTTL,  \* CACHE_TTL, NEGATIVE_CACHE_TTL
  Boxes,        \* distroboxes that share the host's units
  MaxTime, MaxApplies  \* bounds

\* What the theorems assume of the lifetimes and bounds.
LimitsOK ==
  /\ TTL \in Nat \ {0} /\ NegTTL \in Nat /\ MaxTime \in Nat /\ MaxApplies \in Nat
  /\ First \in Dists /\ IsFiniteSet(Procs)

Host == "host"
Never == MaxTime + 1
NoEntry == [dist |-> First, latest |-> 0, ok |-> FALSE, at |-> Never]

VARIABLES
  now,
  release,    \* dist -> when its version 2 appears on the index
  installed,  \* dist -> installed version, 0 if it is not
  cache,      \* update-check.json: [own, family]
  call,       \* process -> the check it is in
  answer,     \* ghost: the answer the last step gave
  failedAt,   \* ghost: when a check last failed to fetch
  raced,      \* ghost: a cache write overlapped another call
  partial,    \* ghost: aliases the cached family answer could not ask
  apply,      \* process -> the update it applies
  history,    \* update-history.json
  applied,    \* ghost: applies that ended
  overlapped, \* ghost: applies whose history update overlapped another's
  service,    \* ExecStart lines of the service unit, or none
  units,      \* unit files present
  enabled     \* the timer, in the host's user manager

cvars == <<now, release, cache, call, answer, failedAt, raced, partial>>
pvars == <<installed, apply, history, applied, overlapped>>
tvars == <<service, units, enabled>>
uvars == <<cvars, pvars, tvars>>

Idle == [pc |-> "idle"]
NoAnswer == [kind |-> "none", latest |-> 0, stale |-> TRUE, dist |-> First, moment |-> 0]

TypeOK ==
  /\ now \in 0..MaxTime /\ installed \in [Dists -> 0..2]
  /\ cache.own.latest \in 0..2 /\ cache.family.latest \in 0..2
  /\ cache.own.at \in 0..Never /\ cache.family.at \in 0..Never
  /\ cache.own.ok => cache.own.latest # 0
  /\ \A p \in Procs : call[p].pc \in {"idle", "fetch", "family"}
  /\ \A p \in Procs : apply[p].pc \in {"idle", "pip", "append"}
  /\ history \subseteq 1..MaxApplies /\ applied \subseteq 1..MaxApplies
  /\ service \subseteq Boxes \cup {Host} /\ (enabled => units)

Init ==
  /\ now = 0 /\ release \in [Dists -> {1, Never}]
  /\ installed = [d \in Dists |-> IF d = First THEN 1 ELSE 0]
  /\ cache = [own |-> NoEntry, family |-> NoEntry]
  /\ call = [p \in Procs |-> Idle] /\ answer = NoAnswer /\ failedAt = Never
  /\ raced = FALSE /\ partial = {}
  /\ apply = [p \in Procs |-> Idle] /\ history = {} /\ applied = {} /\ overlapped = {}
  /\ service = {} /\ units = FALSE /\ enabled = FALSE

-----------------------------------------------------------------------------
(* The check. *)

\* What the index says of a dist at a time.
Published(d, t) == IF release[d] <= t THEN 2 ELSE 1
detect_installed_dist == IF installed[First] # 0 THEN First
                         ELSE CHOOSE d \in Dists : installed[d] # 0

_cache_fresh(e) == e.at # Never /\ now < e.at + (IF e.ok THEN TTL ELSE NegTTL)

\* A fresh entry answers; a positive one only if it is not older than what is
\* installed, which means a self-upgrade came after it.
Cached(d) == /\ _cache_fresh(cache.own)
             /\ cache.own.ok => installed[d] <= cache.own.latest

Busy == {p \in Procs : call[p] # Idle}
Reply(kind, latest, stale, dist, moment) ==
  answer' = [kind |-> kind, latest |-> latest, stale |-> stale, dist |-> dist, moment |-> moment]

CheckRead(p) ==
  /\ call[p] = Idle
  /\ LET d == detect_installed_dist IN
       IF Cached(d)
         THEN Reply("check", cache.own.latest, ~cache.own.ok, cache.own.dist, now) /\ UNCHANGED call
         ELSE call' = [call EXCEPT ![p] = [pc |-> "fetch", dist |-> d, old |-> cache.own,
                                           moment |-> now]] /\ answer' = NoAnswer
  /\ UNCHANGED <<now, release, cache, failedAt, raced, partial, pvars, tvars>>

\* the previous latest, as a negative entry of this moment
AfterFailure(old, d, moment) == [dist |-> d, latest |-> old.latest, ok |-> FALSE, at |-> moment]

\* It writes its own entry and nothing else, so the family's is gone.
_write_cache(entry) == cache' = [own |-> entry, family |-> NoEntry]

\* The GET, or its timeout, and _write_cache, with the time the call began.
CheckFetch(p, reached) ==
  /\ call[p].pc = "fetch"
  /\ LET c == call[p]
         entry == IF reached
                    THEN [dist |-> c.dist, latest |-> Published(c.dist, now), ok |-> TRUE,
                          at |-> c.moment]
                    ELSE AfterFailure(c.old, c.dist, c.moment) IN
       /\ _write_cache(entry)
       /\ Reply("check", entry.latest, ~reached, c.dist, c.moment)
       /\ failedAt' = IF reached THEN failedAt ELSE c.moment
  /\ raced' = (raced \/ Busy # {p})
  /\ call' = [call EXCEPT ![p] = Idle]
  /\ UNCHANGED <<now, release, partial, pvars, tvars>>

\* family_latest: a fresh answer, or the dists still to be asked; the entry of the
\* check, while it is fresh, answers for its dist.
FamilyRead(p) ==
  /\ call[p] = Idle
  /\ IF _cache_fresh(cache.family)
       THEN Reply("family", cache.family.latest, ~cache.family.ok, First, now) /\ UNCHANGED call
       ELSE /\ answer' = NoAnswer
            /\ LET reuse == cache.own.ok /\ _cache_fresh(cache.own) IN
               call' = [call EXCEPT ![p] =
                 [pc |-> "family", snap |-> cache.own, moment |-> now,
                  got |-> IF reuse THEN {cache.own.latest} ELSE {},
                  todo |-> IF reuse THEN Dists \ {cache.own.dist} ELSE Dists]]
  /\ UNCHANGED <<now, release, cache, failedAt, raced, partial, pvars, tvars>>

\* Mutant: the first alias that answered is the family's latest.
Best_lowest(got) == Min(got)
Best(got) == Max(got)

\* The aliases are asked, one failing does not sink the family, and the payload read
\* at the start is written back under the new family entry.
FamilyFetch(p, failing) ==
  /\ call[p].pc = "family" /\ failing \subseteq call[p].todo
  /\ LET c == call[p]
         got == c.got \cup {Published(d, now) : d \in c.todo \ failing}
         best == IF got = {} THEN 0 ELSE Best(got) IN
       /\ cache' = [own |-> c.snap,
                    family |-> [dist |-> First, latest |-> best, ok |-> got # {}, at |-> c.moment]]
       /\ Reply("family", best, got = {}, First, c.moment)
       /\ partial' = failing
  /\ raced' = (raced \/ Busy # {p})
  /\ call' = [call EXCEPT ![p] = Idle]
  /\ UNCHANGED <<now, release, failedAt, pvars, tvars>>

Tick ==
  /\ now < MaxTime /\ now' = now + 1
  /\ answer' = NoAnswer
  /\ UNCHANGED <<release, cache, call, failedAt, raced, partial, pvars, tvars>>

-----------------------------------------------------------------------------
(* Applying. *)

ApplyNo == 1 + Cardinality(applied) + Cardinality({p \in Procs : apply[p] # Idle})

\* _run_user_update: the latest, or the version pinned by --to (a rollback); an
\* index that cannot be reached ends it.
ApplyStart(p, to) ==
  /\ apply[p] = Idle /\ ApplyNo <= MaxApplies
  /\ LET d == detect_installed_dist IN
       apply' = [apply EXCEPT ![p] = [pc |-> "pip", id |-> ApplyNo, dist |-> d,
                                      target |-> IF to = 0 THEN Published(d, now) ELSE to]]
  /\ UNCHANGED <<installed, history, applied, overlapped, cvars, tvars>>

\* pip ran, or failed, and the history was read
RunPip(p, ok) ==
  /\ apply[p].pc = "pip"
  /\ installed' = IF ok THEN [installed EXCEPT ![apply[p].dist] = apply[p].target] ELSE installed
  /\ apply' = [apply EXCEPT ![p] = [pc |-> "append", id |-> @.id, snap |-> history]]
  /\ overlapped' = LET others == {q \in Procs \ {p} : apply[q].pc = "append"} IN
       IF others = {} THEN overlapped
       ELSE overlapped \cup {apply[p].id} \cup {apply[q].id : q \in others}
  /\ UNCHANGED <<history, applied, cvars, tvars>>

_append_history(snap, id) == snap \cup {id}

AppendHistory(p) ==
  /\ apply[p].pc = "append"
  /\ history' = _append_history(apply[p].snap, apply[p].id)
  /\ applied' = applied \cup {apply[p].id}
  /\ apply' = [apply EXCEPT ![p] = Idle]
  /\ UNCHANGED <<installed, overlapped, cvars, tvars>>

-----------------------------------------------------------------------------
(* The timer. *)

\* daemon-reload and enable, when the user manager can be reached
Enable(reached) == enabled' = (enabled \/ reached)

\* The host writes both units anew, with its own line.
InstallHost(reached) ==
  /\ service' = {Host} /\ units' = TRUE /\ Enable(reached)
  /\ UNCHANGED <<cvars, pvars>>

\* A box, with --force, adds its line to the host's service.
InstallBox(b, reached) ==
  /\ service' = IF units THEN service \cup {b} ELSE {b}
  /\ units' = TRUE /\ Enable(reached)
  /\ UNCHANGED <<cvars, pvars>>

UninstallHost ==
  /\ service' = {} /\ units' = FALSE /\ enabled' = FALSE
  /\ UNCHANGED <<cvars, pvars>>

\* the other boxes' lines; the host's own is not one of them
OthersLeft(b) == (service \ {b}) \cap Boxes

UninstallBox(b) ==
  /\ b \in service
  /\ IF OthersLeft(b) # {}
       THEN service' = service \ {b} /\ UNCHANGED <<units, enabled>>
       ELSE service' = {} /\ units' = FALSE /\ enabled' = FALSE
  /\ UNCHANGED <<cvars, pvars>>

CheckNext ==
  \/ \E p \in Procs : \/ CheckRead(p) \/ \E reached \in BOOLEAN : CheckFetch(p, reached)
                      \/ FamilyRead(p) \/ \E failing \in SUBSET Dists : FamilyFetch(p, failing)
  \/ Tick
ApplyNext ==
  \E p \in Procs : \/ \E to \in {0, 1} : ApplyStart(p, to)
                   \/ \E ok \in BOOLEAN : RunPip(p, ok)
                   \/ AppendHistory(p)
TimerNext ==
  \/ \E reached \in BOOLEAN : InstallHost(reached) \/ \E b \in Boxes : InstallBox(b, reached)
  \/ UninstallHost \/ \E b \in Boxes : UninstallBox(b)

Next == CheckNext \/ ApplyNext \/ TimerNext
Spec == Init /\ [][Next]_uvars

-----------------------------------------------------------------------------
Ago(t, n) == IF t < n THEN 0 ELSE t - n

\* An answer not marked stale is never older than its lifetime: it is at least what
\* the index said of the dist it was asked about then; the family's, which may rest
\* on a check's entry at the end of its own lifetime, is at most two old, for the
\* aliases that could be asked.
AnswersAreFresh ==
  ~answer.stale =>
    /\ answer.kind = "check" =>
         answer.latest >= Published(answer.dist, Ago(answer.moment, TTL - 1))
    /\ answer.kind = "family" =>
         \A d \in Dists \ partial :
           answer.latest >= Published(d, Ago(answer.moment, 2 * (TTL - 1)))

\* A dead network costs one timeout per negative lifetime, overlapping calls apart.
PaysStep ==
  failedAt' # failedAt /\ ~raced /\ Cardinality(Busy) = 1 /\ failedAt # Never =>
    failedAt' >= failedAt + NegTTL

\* Every apply that ended is on record, unless it overlapped another's record.
HistoryKeepsAll == \A a \in applied : a \in history \/ a \in overlapped

\* Uninstalling one box never unschedules another one.
SparesStep == \A b \in Boxes : UninstallBox(b) => (service \ {b}) \cap Boxes \subseteq service'

\* What the update commands promise: fresh answers and a full history.
UpdatesSafe ==
  /\ TypeOK /\ AnswersAreFresh /\ HistoryKeepsAll
=============================================================================
