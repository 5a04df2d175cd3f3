------------------------------ MODULE Awareness ------------------------------
(***************************************************************************)
(* Peer awareness: what changed in a project since a cursor, composed for   *)
(* the next model call of a session, or as the heartbeat that rides on tool *)
(* calls and whose cursor all sessions of an agent share.  A row carries    *)
(* the time it was made, not the time it was committed; composing reads the *)
(* cursor, the feed, and writes the cursor in separate statements.  Rows    *)
(* are stamped at even times; the microsecond a cursor adds to what it      *)
(* consumed puts it at the odd time after, however often a quiet call adds  *)
(* one more.                                                                *)
(***************************************************************************)
EXTENDS Naturals, FiniteSets, FiniteSetsExt

CONSTANTS
  Rows,        \* rows that may be written
  Kinds,       \* Rows -> {"peer", "own", "excluded"}
  Threads,     \* calls in flight
  Sessions,    \* sessions of the agent
  FeedLimit,   \* DELTA_FEED_LIMIT
  Window,      \* DELTA_MAX_WINDOW_SEC, odd: a window opens between two stamps
  MaxTime      \* bound

\* What the clock and the bounds are: rows are stamped at even times.
LimitsOK ==
  /\ Window \in Nat /\ Window % 2 = 1
  /\ MaxTime \in Nat /\ MaxTime % 2 = 0 /\ MaxTime >= 2

Heart == "heartbeat"
Keys  == Sessions \cup {Heart}   \* one cursor each, in the meta table

VARIABLES
  stamp,    \* row -> created_at (even), 0 while it does not exist
  visible,  \* rows committed
  cursor,   \* key -> just after the consumed high-water mark (odd), 0 while absent
  call,     \* thread -> the composition it is in
  shown,    \* ghost: key -> row -> how often it was rendered
  excused,  \* ghost: key -> rows its cursor may have passed unseen
  raced,    \* ghost: keys whose cursor went back to an older value
  basis,    \* ghost: abstentions: <<session, row, consumed, shown by then>>
  now

avars == <<stamp, visible, cursor, call, shown, excused, raced, basis, now>>

Idle == [pc |-> "idle", key |-> Heart, read |-> 0, since |-> 0, high |-> 0, feed |-> {}]

TypeOK ==
  /\ stamp \in [Rows -> 0..MaxTime] /\ visible \subseteq Rows
  /\ cursor \in [Keys -> 0..(MaxTime + 1)]
  /\ \A t \in Threads : call[t].pc \in {"idle", "probe", "delta", "write"} /\ call[t].key \in Keys
  /\ shown \in [Keys -> [Rows -> 0..2]]
  /\ now \in 2..MaxTime

Init ==
  /\ stamp = [r \in Rows |-> 0] /\ visible = {}
  /\ cursor = [k \in Keys |-> 0] /\ call = [t \in Threads |-> Idle]
  /\ shown = [k \in Keys |-> [r \in Rows |-> 0]] /\ excused = [k \in Keys |-> {}]
  /\ raced = {} /\ basis = {} /\ now = 2

-----------------------------------------------------------------------------
(* Writers. *)

\* A memory is built with its created_at ...
Stamp(r) ==
  /\ stamp[r] = 0 /\ stamp' = [stamp EXCEPT ![r] = now]
  /\ UNCHANGED <<visible, cursor, call, shown, excused, raced, basis, now>>

\* ... and committed later, behind a row that is there already or not.
Commit(r) ==
  /\ stamp[r] # 0 /\ r \notin visible
  /\ visible' = visible \cup {r}
  /\ excused' = [k \in Keys |->
       IF stamp[r] + Window < now \/ \E q \in visible : stamp[q] >= stamp[r]
         THEN excused[k] \cup {r} ELSE excused[k]]
  /\ UNCHANGED <<stamp, cursor, call, shown, raced, basis, now>>

Tick ==
  /\ now < MaxTime /\ now' = now + 2
  /\ UNCHANGED <<stamp, visible, cursor, call, shown, excused, raced, basis>>

-----------------------------------------------------------------------------
(* Composing. *)

\* _resolve_since: clamped into the recency window
ResolveSince(k) == Max({cursor[k], IF now > Window THEN now - Window ELSE 0})

Begin(t, k, pc) ==
  /\ call[t].pc = "idle"
  /\ call' = [call EXCEPT ![t] = [Idle EXCEPT !.pc = pc, !.key = k, !.read = cursor[k],
                                              !.since = ResolveSince(k)]]
  /\ UNCHANGED <<stamp, visible, cursor, shown, excused, raced, basis, now>>

\* Up to the cursor read; a call over the rate limit ends before it and changes nothing.
compose_pre_llm_awareness(t, s) == Begin(t, s, "delta")

\* The heartbeat has a cursor of its own and asks first whether there are rows at all.
compose_heartbeat(t) == Begin(t, Heart, "probe")

\* compares strictly, where the feed is inclusive
exists_since(since) == \E r \in visible : stamp[r] > since

\* Nothing beyond the cursor, or a probe that fails: the calm line or none, and
\* the cursor stays.
Probe(t) ==
  /\ call[t].pc = "probe"
  /\ \/ exists_since(call[t].since) /\ call' = [call EXCEPT ![t].pc = "delta"]
     \/ call' = [call EXCEPT ![t] = Idle]
  /\ UNCHANGED <<stamp, visible, cursor, shown, excused, raced, basis, now>>

\* list_recent: the newest rows of the window, FeedLimit of them at most
IsFeed(feed, since) ==
  LET of == {r \in visible : stamp[r] >= since} IN
  /\ feed \subseteq of
  /\ Cardinality(feed) = Min({Cardinality(of), FeedLimit})
  /\ \A r \in feed, q \in of \ feed : stamp[q] <= stamp[r]

\* Mutant: the call's own time is taken for what it consumed.
HighWater_now(feed, since) == now
\* project_delta: over the whole feed, rows it does not render included
HighWater(feed, since) == Max({since} \cup {stamp[r] : r \in feed})

\* is_delta_excluded and exclude_agent
Rendered(feed) == {r \in feed : Kinds[r] = "peer"}

ProjectDelta(t) ==
  /\ call[t].pc = "delta"
  /\ \E feed \in SUBSET visible :
       /\ IsFeed(feed, call[t].since)
       /\ call' = [call EXCEPT ![t].pc = "write", ![t].feed = feed,
                               ![t].high = HighWater(feed, call[t].since)]
       /\ excused' = [excused EXCEPT ![call[t].key] =
            @ \cup {r \in visible : stamp[r] < call[t].since /\ stamp[r] >= call[t].read}
              \cup {r \in visible \ feed : stamp[r] >= call[t].since}]
  /\ UNCHANGED <<stamp, visible, cursor, shown, raced, basis, now>>

\* one microsecond on, because the feed is inclusive
NewCursor(high) == IF high % 2 = 0 THEN high + 1 ELSE high

\* set_meta under the key's own name
write_awareness_cursor(k, c) == cursor' = [cursor EXCEPT ![k] = c]

\* The section is rendered and the cursor written.
WriteCursor(t) ==
  /\ call[t].pc = "write"
  /\ LET k == call[t].key IN
       /\ write_awareness_cursor(k, NewCursor(call[t].high))
       /\ raced' = IF cursor[k] # call[t].read THEN raced \cup {k} ELSE raced
       /\ shown' = [shown EXCEPT ![k] = [r \in Rows |->
            IF r \in Rendered(call[t].feed) /\ @[r] < 2 THEN @[r] + 1 ELSE @[r]]]
  /\ call' = [call EXCEPT ![t] = Idle]
  /\ UNCHANGED <<stamp, visible, excused, basis, now>>

\* the cursor of the session stands at or past the row
Consumed(s, r) == cursor[s] # 0 /\ stamp[r] <= cursor[s]

\* record_abstention: the basis is a peer's checkpoint within the window, and the
\* trace says whether the session's cursor had consumed it.
RecordAbstention(s, r) ==
  /\ Kinds[r] = "peer" /\ r \in visible /\ stamp[r] + Window >= now
  /\ ~\E b \in basis : b[1] = s /\ b[2] = r
  /\ basis' = basis \cup {<<s, r, Consumed(s, r), shown[s][r] > 0>>}
  /\ UNCHANGED <<stamp, visible, cursor, call, shown, excused, raced, now>>

Next ==
  \/ \E r \in Rows : Stamp(r) \/ Commit(r) \/ \E s \in Sessions : RecordAbstention(s, r)
  \/ \E t \in Threads : compose_heartbeat(t) \/ Probe(t) \/ ProjectDelta(t) \/ WriteCursor(t)
                        \/ \E s \in Sessions : compose_pre_llm_awareness(t, s)
  \/ Tick

Spec == Init /\ [][Next]_avars

-----------------------------------------------------------------------------
\* A cursor passes nothing unseen: a peer's row behind it was rendered under it,
\* unless it was committed behind rows already there, fell out of the recency
\* window or was cut by the feed limit.
PassesOnlyExcused ==
  \A k \in Keys, r \in visible :
    Kinds[r] = "peer" /\ stamp[r] < cursor[k] => shown[k][r] > 0 \/ r \in excused[k]

\* A row is rendered again under a cursor only after two calls raced for it: a
\* quiet store yields an empty delta, never the boundary row once more.
RepeatNeedsRace == \A k \in Keys : k \in raced \/ \A r \in Rows : shown[k][r] <= 1

\* An abstention never denies what its session was shown: a basis the trace calls
\* not consumed had not been rendered to it, races apart.
AbstentionHonest == \A b \in basis : b[4] /\ b[1] \notin raced => b[3]

\* What a cursor promises its session: nothing unseen is passed, nothing is shown
\* twice, and an abstention tells the truth.
FeedSafe ==
  /\ TypeOK /\ PassesOnlyExcused /\ RepeatNeedsRace /\ AbstentionHonest
=============================================================================
