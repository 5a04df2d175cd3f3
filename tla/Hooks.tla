-------------------------------- MODULE Hooks --------------------------------
(***************************************************************************)
(* The harness hooks and the query limiter they share with the pre-flight  *)
(* verb.  on_session_start recalls the newest checkpoints, scans each one  *)
(* and adds a presence section; pre_flight answers the awareness picture;  *)
(* both ask the limiter first.  post_tool_call compresses a tool output.   *)
(*                                                                         *)
(* Checkpoints are numbered by creation time.  A caller reads the clock,   *)
(* then waits for the limiter's mutex: the stamps of the ledger need not   *)
(* be in order.  The heartbeat's limiter is the same code on a ledger of   *)
(* its own.                                                                *)
(***************************************************************************)
EXTENDS Naturals, FiniteSets, Sequences, SequencesExt

CONSTANTS
  Threads,       \* request threads
  Agents,        \* callers (of one project): the keys of the limiter
  MaxRows,       \* checkpoints ever saved
  Secret,        \* the checkpoints whose text holds a secret
  RowLimit,      \* the limit a caller passes
  Overfetch,     \* recall_context reads limit * 3 rows
  RateLimit,     \* awareness_picture_rate_limit_per_minute
  Window,        \* one minute, in ticks
  Sizes,         \* lengths of tool outputs
  MaxChars,      \* hooks.max_output_chars (0 switches the cap off)
  MaxTime, MaxSessions, MaxQueries, MaxRetires

\* What the limits are.
LimitsOK ==
  /\ Agents # {} /\ MaxRows \in Nat /\ RowLimit \in Nat /\ Overfetch \in Nat \ {0}
  /\ RateLimit \in Nat /\ Window \in Nat /\ Sizes \subseteq Nat /\ MaxChars \in Nat
  /\ MaxTime \in Nat

VARIABLES
  status,      \* per checkpoint: not yet saved, live, archived or quarantined
  refuse,      \* ccr.retrieve_refuse_on_secret (fixed)
  call,        \* per thread: the call it serves
  ledger,      \* per agent: the stamps of its admitted queries
  stored,      \* tool outputs in the compressed-context cache, with their issuer
  now,
  admitted,    \* ghost: per agent, when a query was really admitted, and its stamp
  calls, retires

hookVars == <<status, refuse, call, ledger, stored, now, admitted, calls, retires>>

Checkpoints == 1..MaxRows
Item        == [row : Checkpoints, text : {"clean", "secret", "redacted"}]
\* read: rows still to scan; issued: rows of the answer; stamp: now_dt;
\* retired: checkpoints that stopped being live while the call was served
Idle == [pc |-> "idle", agent |-> CHOOSE a \in Agents : TRUE, read |-> {}, issued |-> {},
         stamp |-> 0, retired |-> {}]

TypeOK ==
  /\ status \in [Checkpoints -> {"absent", "live", "archived", "quarantined"}]
  /\ refuse \in BOOLEAN
  /\ call \in [Threads -> [pc : {"idle", "scan", "stamp", "admit", "composed", "limited"},
                           agent : Agents, read : SUBSET Checkpoints, issued : SUBSET Item,
                           stamp : 0..MaxTime, retired : SUBSET Checkpoints]]
  /\ \A a \in Agents : ledger[a] \in Seq(0..MaxTime) /\ Len(ledger[a]) <= RateLimit
  /\ stored \subseteq {s \in Sizes : MaxChars = 0 \/ s <= MaxChars} \X Agents
  /\ now \in 0..MaxTime
  /\ \A a \in Agents : admitted[a] \in Seq([at : 0..MaxTime, stamp : 0..MaxTime])

Init ==
  /\ status = [r \in Checkpoints |-> "absent"]
  /\ refuse \in BOOLEAN
  /\ call = [t \in Threads |-> Idle]
  /\ ledger = [a \in Agents |-> <<>>]
  /\ stored = {}
  /\ now = 0
  /\ admitted = [a \in Agents |-> <<>>]
  /\ calls = 0
  /\ retires = 0

-----------------------------------------------------------------------------
(* Recall.                                                                 *)

\* ORDER BY created_at DESC LIMIT n
Newest(S, n) == {r \in S : Cardinality({q \in S : q > r}) < n}
Present      == {r \in Checkpoints : status[r] # "absent"}
Live         == {r \in Checkpoints : status[r] = "live"}

\* The recency leg: a page of three times the limit, without the archived and
\* the quarantined rows, trimmed to the limit.
recall_context(limit) == Newest(Newest(Present, Overfetch * limit) \cap Live, limit)

\* scan_issuance: a secret is redacted, or the item is refused.
Issue(r) ==
  IF r \notin Secret THEN {[row |-> r, text |-> "clean"]}
  ELSE IF refuse THEN {} ELSE {[row |-> r, text |-> "redacted"]}

OnSessionStart(t) ==
  /\ call[t].pc = "idle" /\ calls < MaxSessions
  /\ \E a \in Agents, include \in BOOLEAN :
       LET read == recall_context(RowLimit)
           next == IF read # {} THEN "scan" ELSE IF include THEN "stamp" ELSE "composed"
       IN call' = [call EXCEPT ![t] = [Idle EXCEPT !.pc = next, !.agent = a, !.read = read]]
  /\ calls' = calls + 1
  /\ UNCHANGED <<status, refuse, ledger, stored, now, admitted, retires>>

\* One turn of the loop over the recalled rows, newest first; a scanner that
\* raises refuses the item.
ScanItem(t) ==
  /\ call[t].pc = "scan"
  /\ LET r    == CHOOSE r \in call[t].read : \A q \in call[t].read : q <= r
         rest == call[t].read \ {r}
     IN \E items \in {Issue(r), {}}, next \in {"stamp", "composed"} :
          call' = [call EXCEPT ![t].read = rest,
                               ![t].issued = @ \cup items,
                               ![t].pc = IF rest = {} THEN next ELSE "scan"]
  /\ UNCHANGED <<status, refuse, ledger, stored, now, admitted, calls, retires>>

-----------------------------------------------------------------------------
(* The limiter.                                                            *)

PreFlight(t) ==
  /\ call[t].pc = "idle" /\ calls < MaxQueries
  /\ \E a \in Agents : call' = [call EXCEPT ![t] = [Idle EXCEPT !.pc = "stamp", !.agent = a]]
  /\ calls' = calls + 1
  /\ UNCHANGED <<status, refuse, ledger, stored, now, admitted, retires>>

\* now_dt = datetime.now(UTC), outside the mutex.
ReadClock(t) ==
  /\ call[t].pc = "stamp"
  /\ call' = [call EXCEPT ![t].pc = "admit", ![t].stamp = now]
  /\ UNCHANGED <<status, refuse, ledger, stored, now, admitted, calls, retires>>

\* stamps[0] <= now_dt - 1 minute is what leaves the ledger.
InWindow(s, stamp) == s + Window > stamp

\* Only the head is looked at: everything before the first stamp in the window goes.
Pruned(stamps, stamp) ==
  LET kept == {i \in DOMAIN stamps : InWindow(stamps[i], stamp)}
  IN IF kept = {} THEN <<>>
     ELSE SubSeq(stamps, CHOOSE i \in kept : \A j \in kept : i <= j, Len(stamps))

\* A refused query consumes no quota.
Charged(stamps, stamp) == IF Len(stamps) >= RateLimit THEN stamps ELSE Append(stamps, stamp)

\* _picture_rate_refused under the mutex; the refused call answers the
\* rate-limited line, the admitted one composes its (read-only) sections.
Admit(t) ==
  /\ call[t].pc = "admit"
  /\ LET a      == call[t].agent
         stamp  == call[t].stamp
         stamps == Pruned(ledger[a], stamp)
         over   == RateLimit > 0 /\ Len(stamps) >= RateLimit
     IN /\ ledger' = IF RateLimit = 0 THEN ledger
                     ELSE [ledger EXCEPT ![a] = Charged(stamps, stamp)]
        /\ admitted' = IF over THEN admitted
                       ELSE [admitted EXCEPT ![a] = Append(@, [at |-> now, stamp |-> stamp])]
        /\ call' = [call EXCEPT ![t].pc = IF over THEN "limited" ELSE "composed"]
  /\ UNCHANGED <<status, refuse, stored, now, calls, retires>>

Return(t) ==
  /\ call[t].pc \in {"composed", "limited"}
  /\ call' = [call EXCEPT ![t] = Idle]
  /\ UNCHANGED <<status, refuse, ledger, stored, now, admitted, calls, retires>>

-----------------------------------------------------------------------------
(* Tool outputs.                                                           *)

WithinCap(size) == MaxChars = 0 \/ size <= MaxChars

\* An output over the cap is rejected before any write, whatever auto_compress
\* says; a compressed one is always stored under its caller's identity.
PostToolCall ==
  /\ calls < MaxSessions
  /\ \E a \in Agents, size \in Sizes, enabled \in BOOLEAN :
       /\ WithinCap(size) /\ enabled
       /\ stored' = stored \cup {<<size, a>>}
  /\ calls' = calls + 1
  /\ UNCHANGED <<status, refuse, call, ledger, now, admitted, retires>>

-----------------------------------------------------------------------------
(* Everyone else.                                                          *)

Save ==
  /\ \E r \in Checkpoints :
       /\ Present = 1..(r - 1)
       /\ status' = [status EXCEPT ![r] = "live"]
  /\ UNCHANGED <<refuse, call, ledger, stored, now, admitted, calls, retires>>

Retire ==
  /\ retires < MaxRetires
  /\ \E r \in Live, s \in {"archived", "quarantined"} :
       /\ status' = [status EXCEPT ![r] = s]
       /\ call' = [t \in Threads |-> [call[t] EXCEPT !.retired =
                     IF call[t].pc = "idle" THEN {} ELSE @ \cup {r}]]
  /\ retires' = retires + 1
  /\ UNCHANGED <<refuse, ledger, stored, now, admitted, calls>>

Tick ==
  /\ now < MaxTime
  /\ now' = now + 1
  /\ UNCHANGED <<status, refuse, call, ledger, stored, admitted, calls, retires>>

SessionNext ==
  \/ \E t \in Threads : OnSessionStart(t) \/ ScanItem(t) \/ ReadClock(t) \/ Admit(t) \/ Return(t)
  \/ Save \/ Retire \/ PostToolCall

QueryNext ==
  \/ \E t \in Threads : PreFlight(t) \/ ReadClock(t) \/ Admit(t) \/ Return(t)
  \/ Tick

Next == SessionNext \/ QueryNext

Spec == Init /\ [][Next]_hookVars

-----------------------------------------------------------------------------
(* Properties.                                                             *)

\* Queries whose clock was read in the same tick they were admitted stay within
\* the limit in every window: a late caller can add itself to a window that has
\* been pruned, but it never makes room for anyone else.
PromptWithinLimit ==
  RateLimit > 0 =>
    \A a \in Agents : \A i \in DOMAIN admitted[a] :
      LET end == admitted[a][i].at
      IN Cardinality({j \in DOMAIN admitted[a] :
                        /\ admitted[a][j].at = admitted[a][j].stamp
                        /\ admitted[a][j].at <= end
                        /\ admitted[a][j].at + Window > end}) <= RateLimit

\* A query is refused only if as many queries of the same agent as the limit
\* allows were really admitted since its window opened; stale stamps behind a
\* newer head and refused queries never lock a live poller out.
RefusalStep ==
  \A t \in Threads :
    call[t].pc = "admit" /\ call'[t].pc = "limited" =>
      LET a == call[t].agent
      IN Cardinality({j \in DOMAIN admitted[a] :
                        admitted[a][j].at + Window > call[t].stamp}) >= RateLimit

\* recall_context returns the newest live checkpoints, unless more retired ones
\* than the over-fetch leaves room for are newer than a missing one.
RecallIsComplete ==
  \A r \in Newest(Live, RowLimit) \ recall_context(RowLimit) :
    Cardinality({q \in Present \ Live : q > r}) > (Overfetch - 1) * RowLimit

\* A session start hands out no raw secret, and a checkpoint that is not live any
\* more only if it was retired after this very call had recalled it.
IssuedIsServable ==
  \A t \in Threads : \A i \in call[t].issued :
    /\ i.row \in Secret => i.text = "redacted"
    /\ status[i.row] # "live" => i.row \in call[t].retired

\* What the hooks promise: the query limit, a complete recall, and no raw secret.
HooksSafe ==
  /\ TypeOK /\ PromptWithinLimit /\ RecallIsComplete /\ IssuedIsServable
=============================================================================
