------------------------------ MODULE Sessions ------------------------------
(***************************************************************************)
(* Sessions: the turns of a session, appended under a per-session number    *)
(* and at most once per message id, and the checkpoints an agent saves in a *)
(* session it alone is bound to.  Processes share the database; their       *)
(* SELECTs run outside the transaction their INSERT opens, so what they     *)
(* read may be stale when they write.                                       *)
(***************************************************************************)
EXTENDS Naturals, FiniteSets, FiniteSetsExt

CONSTANTS
  Procs,      \* processes on the database
  Names,      \* session ids
  Messages,   \* message ids; a turn may also come without one
  Agents,
  Contents,   \* checkpoint contents, as their dedup key tells them apart
  MaxTurns,   \* bound: turns of a session
  MaxSaves    \* bound: checkpoint calls

NoMsg == "none"
NoOne == "nobody"

\* No agent carries the name that stands for an unbound session.
NamesOK == NoOne \notin Agents /\ MaxTurns \in Nat

VARIABLES
  sessions,    \* session rows
  turns,       \* turn rows
  bound,       \* session -> agent it is bound to
  checkpoints, \* checkpoint memories
  op,          \* process -> the call it is in
  answered,    \* ghost: <<message, turn>> pairs some call returned
  saves        \* checkpoint calls made

svars == <<sessions, turns, bound, checkpoints, op, answered, saves>>

Turn == [sess : Names, step : 1..MaxTurns, msg : Messages \cup {NoMsg}]
Idle == [pc |-> "idle"]

TypeOK ==
  /\ sessions \subseteq Names /\ turns \subseteq Turn
  /\ bound \in [Names -> Agents \cup {NoOne}]
  /\ \A c \in checkpoints :
       c.by \in Procs /\ c.sess \in Names /\ c.agent \in Agents /\ c.content \in Contents
  /\ \A p \in Procs : op[p].pc \in {"idle", "number", "insert", "dedup", "add"}
  /\ \A a \in answered : a[1] \in Messages /\ a[2] \in Turn

Init ==
  /\ sessions = {} /\ turns = {} /\ bound = [s \in Names |-> NoOne]
  /\ checkpoints = {} /\ op = [p \in Procs |-> Idle] /\ answered = {} /\ saves = 0

-----------------------------------------------------------------------------
(* Turns. *)

CreateSession(s) ==
  /\ s \notin sessions /\ sessions' = sessions \cup {s}
  /\ UNCHANGED <<turns, bound, checkpoints, op, answered, saves>>

Of(m) == {t \in turns : m # NoMsg /\ t.msg = m}

\* A call ends, returning turn t when it has a message id.
Answer(p, m, t) ==
  /\ op' = [op EXCEPT ![p] = Idle]
  /\ answered' = IF m = NoMsg THEN answered ELSE answered \cup {<<m, t>>}

\* create_turn up to the idempotency SELECT: an existing turn is returned untouched
LookupMessage(p, s, m) ==
  /\ op[p] = Idle /\ s \in sessions
  /\ IF Of(m) # {}
       THEN \E t \in Of(m) : Answer(p, m, t)
       ELSE /\ op' = [op EXCEPT ![p] = [pc |-> "number", sess |-> s, msg |-> m]]
            /\ UNCHANGED answered
  /\ UNCHANGED <<sessions, turns, bound, checkpoints, saves>>

\* Mutant: the turns are counted over every session.
NextStep_global(s) == Max({0} \cup {t.step : t \in turns}) + 1
\* COALESCE(MAX(step_number), 0) + 1
NextStep(s) == Max({0} \cup {t.step : t \in {u \in turns : u.sess = s}}) + 1

NumberTurn(p) ==
  /\ op[p].pc = "number" /\ NextStep(op[p].sess) <= MaxTurns
  /\ op' = [op EXCEPT ![p] = [pc |-> "insert", step |-> NextStep(op[p].sess),
                              sess |-> op[p].sess, msg |-> op[p].msg]]
  /\ UNCHANGED <<sessions, turns, bound, checkpoints, answered, saves>>

\* UNIQUE(session_id, turn_id) and UNIQUE(message_id)
Conflicts(t) ==
  \/ \E u \in turns : u.sess = t.sess /\ u.step = t.step
  \/ Of(t.msg) # {}

\* The INSERT: on a conflict the canonical row of the message is returned, or the
\* error when the number alone was taken.
InsertTurn(p) ==
  /\ op[p].pc = "insert"
  /\ LET t == [sess |-> op[p].sess, step |-> op[p].step, msg |-> op[p].msg] IN
       IF ~Conflicts(t)
         THEN turns' = turns \cup {t} /\ Answer(p, t.msg, t)
         ELSE /\ UNCHANGED turns
              /\ IF Of(t.msg) # {}
                   THEN \E u \in Of(t.msg) : Answer(p, t.msg, u)
                   ELSE op' = [op EXCEPT ![p] = Idle] /\ UNCHANGED answered
  /\ UNCHANGED <<sessions, bound, checkpoints, saves>>

-----------------------------------------------------------------------------
(* Checkpoints. *)

\* INSERT OR IGNORE: the first agent to save in a session keeps it
bind_session_agent(s, a) == [bound EXCEPT ![s] = IF @ = NoOne THEN a ELSE @]

\* save_checkpoint up to the binding: another agent's session is refused
BindSession(p, s, a, c) ==
  /\ op[p] = Idle /\ saves < MaxSaves
  /\ saves' = saves + 1
  /\ bound' = bind_session_agent(s, a)
  /\ op' = IF bound'[s] # a THEN op
           ELSE [op EXCEPT ![p] = [pc |-> "dedup", sess |-> s, agent |-> a, content |-> c]]
  /\ UNCHANGED <<sessions, turns, checkpoints, answered>>

find_checkpoint_by_dedup_key(o) ==
  {k \in checkpoints : k.agent = o.agent /\ k.content = o.content}

FindDuplicate(p) ==
  /\ op[p].pc = "dedup"
  /\ op' = [op EXCEPT ![p] =
       IF find_checkpoint_by_dedup_key(op[p]) # {} THEN Idle ELSE [@ EXCEPT !.pc = "add"]]
  /\ UNCHANGED <<sessions, turns, bound, checkpoints, answered, saves>>

\* The checkpoint memory is added under the bound agent's stamp.
AddCheckpoint(p) ==
  /\ op[p].pc = "add"
  /\ checkpoints' = checkpoints \cup
       {[id |-> Cardinality(checkpoints), by |-> p, sess |-> op[p].sess,
         agent |-> op[p].agent, content |-> op[p].content]}
  /\ op' = [op EXCEPT ![p] = Idle]
  /\ UNCHANGED <<sessions, turns, bound, answered, saves>>

Next ==
  \/ \E s \in Names : CreateSession(s)
  \/ \E p \in Procs :
       \/ \E s \in Names, m \in Messages \cup {NoMsg} : LookupMessage(p, s, m)
       \/ NumberTurn(p) \/ InsertTurn(p) \/ FindDuplicate(p) \/ AddCheckpoint(p)
       \/ \E s \in Names, a \in Agents, c \in Contents : BindSession(p, s, a, c)

Spec == Init /\ [][Next]_svars

-----------------------------------------------------------------------------
\* The turns of a session are numbered 1 to n with no gap and no repeat, although
\* every writer numbers from a read of its own.
TurnsAreGapless ==
  \A s \in Names :
    LET of == {t \in turns : t.sess = s} IN {t.step : t \in of} = 1..Cardinality(of)

\* A message is one turn, and every call that returned a turn for it returned that
\* one, whichever of two racing deliveries wrote it.
MessageIsOneTurn ==
  /\ \A a, b \in answered : a[1] = b[1] => a = b
  /\ \A a \in answered : a[2] \in turns /\ a[2].msg = a[1]

\* All checkpoints of a session are by one agent, racing first saves included.
SessionHasOneAgent == \A k, l \in checkpoints : k.sess = l.sess => k.agent = l.agent

\* Repeated content adds no checkpoint of its own: only saves that overlapped the
\* first one can, so a process never stores the same content twice.
DuplicatesNeedOverlap ==
  \A k, l \in checkpoints :
    k.agent = l.agent /\ k.content = l.content /\ k.by = l.by => k = l

\* What the session store promises to racing writers: gapless turns, one turn a
\* message, one agent a session, and no checkpoint twice without an overlap.
SessionsSafe ==
  /\ TypeOK /\ TurnsAreGapless /\ MessageIsOneTurn /\ SessionHasOneAgent
  /\ DuplicatesNeedOverlap
=============================================================================
