----------------------------- MODULE AgentTokens -----------------------------
(***************************************************************************)
(* Agent tokens: the signing key each process loads or mints on first use,  *)
(* the registry of issued tokens, rotation with a grace window, revocation, *)
(* and the gate the mesh server runs on every data request.  Each statement *)
(* of the store commits on its own; the command line and the server are     *)
(* separate processes on the same files.                                    *)
(***************************************************************************)
EXTENDS Naturals, FiniteSets, FiniteSetsExt

CONSTANTS
  Procs,      \* processes that open the key: commands and the server
  Server,     \* the one that validates
  Agents, Nodes,
  Grace,      \* grace windows a rotation may ask for, in ticks
  Lifetimes,  \* the lifetimes asked for, MAX_TTL_HOURS at most
  MaxTTL,     \* MAX_TTL_HOURS
  MaxTokens, FreshTokens, MaxTime, MaxFaults  \* bounds; a fault is a crash or a revocation

\* A rotation's grace (an hour at most) is within the longest lifetime.
ASSUME AgentTokensAssumption ==
  /\ Server \in Procs /\ "none" \notin Procs
  /\ MaxTTL \in Nat /\ MaxTime \in Nat /\ MaxTokens \in Nat /\ FreshTokens \in 0..MaxTokens
  /\ Lifetimes \subseteq 1..MaxTTL /\ Grace \subseteq 0..MaxTTL

VARIABLES
  keyFile,    \* the key under the final path: none, an old one, or the one a process minted
  fresh,      \* the installation began without a key
  proc,       \* per process: what it is doing, its key, its rotation
  tokens,     \* jti -> row of agent_tokens (jtis are 1, 2, ... in issue order)
  clock,
  deadline,   \* ghost: jti -> the time its last finished rotation gave it, or Never
  revokedAll, \* ghost: agent -> number of tokens when it was last revoked as a whole
  dead,       \* ghost: agents whose rotation died half way
  faults

tvars == <<keyFile, fresh, proc, tokens, clock, deadline, revokedAll, dead, faults>>

NoKey == "none"
Never == MaxTime + MaxTTL + 1
None  == Never
Free  == [pc |-> "free", key |-> NoKey, clean |-> FALSE, agent |-> "", snap |-> {},
          todo |-> {}, until |-> 0, moment |-> 0]
Jtis  == DOMAIN tokens
TokenBound == IF fresh THEN FreshTokens ELSE MaxTokens

TypeOK ==
  /\ keyFile \in {NoKey, "old"} \cup Procs /\ clock \in 0..MaxTime
  /\ \A p \in Procs : proc[p].pc \in {"free", "minted", "replaced", "ready", "grace", "issue"}
  /\ \A p \in Procs : proc[p].todo \subseteq proc[p].snap /\ proc[p].snap \subseteq Jtis
  /\ Jtis = 1..Cardinality(Jtis)
  /\ \A j \in Jtis : /\ tokens[j].iat < tokens[j].exp /\ tokens[j].exp <= tokens[j].iat + MaxTTL
                     /\ tokens[j].agent \in Agents /\ tokens[j].aud \in Nodes

Init ==
  /\ keyFile \in {NoKey, "old"} /\ fresh = (keyFile = NoKey) /\ proc = [p \in Procs |-> Free]
  /\ tokens = [j \in {} |-> 0] /\ clock = 0
  /\ deadline = [j \in 1..MaxTokens |-> Never] /\ revokedAll = [a \in Agents |-> 0]
  /\ dead = {} /\ faults = 0

-----------------------------------------------------------------------------
(* The signing key. *)

\* load_or_create_signing_key: the file is there and is read, or a key is
\* generated into a temporary of this process, which names it.
OpenKey(p) ==
  /\ proc[p].pc = "free"
  /\ proc' = [proc EXCEPT ![p] =
       IF keyFile # NoKey
         THEN [Free EXCEPT !.pc = "ready", !.key = keyFile,
                           !.clean = \A q \in Procs : proc[q].pc # "minted"]
         ELSE [Free EXCEPT !.pc = "minted"]]
  /\ UNCHANGED <<keyFile, fresh, tokens, clock, deadline, revokedAll, dead, faults>>

\* os.replace: the temporary carries the process id, so the last writer wins.
ReplaceKey(p) ==
  /\ proc[p].pc = "minted"
  /\ keyFile' = p
  /\ proc' = [proc EXCEPT ![p].pc = "replaced"]
  /\ UNCHANGED <<fresh, tokens, clock, deadline, revokedAll, dead, faults>>

\* _load_signing_key(path): what is on disk by now
KeyAfterReplace(p) == keyFile

LoadKey(p) ==
  /\ proc[p].pc = "replaced"
  /\ proc' = [proc EXCEPT ![p].pc = "ready", ![p].key = KeyAfterReplace(p),
                          ![p].clean = \A q \in Procs : proc[q].pc # "minted"]
  /\ UNCHANGED <<keyFile, fresh, tokens, clock, deadline, revokedAll, dead, faults>>

-----------------------------------------------------------------------------
(* Issue, rotate, revoke. *)

\* register: the row of a token signed with p's key
Registered(p, agent, aud, iat, ttl) ==
  LET j == 1 + Cardinality(Jtis) IN
  [k \in Jtis \cup {j} |->
     IF k # j THEN tokens[k]
     ELSE [agent |-> agent, aud |-> aud, iat |-> iat, exp |-> iat + ttl,
           revoked |-> FALSE, grace |-> None, key |-> proc[p].key]]

Issue(p, agent, aud, ttl) ==
  /\ proc[p].pc = "ready" /\ p # Server /\ Cardinality(Jtis) < TokenBound
  /\ tokens' = Registered(p, agent, aud, clock, ttl)
  /\ proc' = [proc EXCEPT ![p] = Free]
  /\ UNCHANGED <<keyFile, fresh, clock, deadline, revokedAll, dead, faults>>

Live(agent, now) == {j \in Jtis : tokens[j].agent = agent /\ ~tokens[j].revoked
                                  /\ tokens[j].exp > now /\ tokens[j].grace = None}

\* Mutant: only the newest live token is graced.
ToGrace_newest(live) == {Max(live)}
\* rotate_agent_token graces every live row of its snapshot
ToGrace(live) == live

\* The snapshot of live rows; without a live token there is nothing to rotate.
RotateRead(p, agent, grace) ==
  /\ proc[p].pc = "ready" /\ p # Server /\ Live(agent, clock) # {}
  /\ proc' = [proc EXCEPT ![p].pc = "grace", ![p].agent = agent,
                          ![p].snap = Live(agent, clock), ![p].todo = ToGrace(Live(agent, clock)),
                          ![p].until = clock + grace, ![p].moment = clock]
  /\ UNCHANGED <<keyFile, fresh, tokens, clock, deadline, revokedAll, dead, faults>>

\* set_grace, one row at a time from the newest, a revoked row is left alone
RotateGrace(p, j) ==
  /\ proc[p].pc = "grace" /\ proc[p].todo # {} /\ j = Max(proc[p].todo)
  /\ tokens' = IF tokens[j].revoked THEN tokens ELSE [tokens EXCEPT ![j].grace = proc[p].until]
  /\ proc' = [proc EXCEPT ![p].todo = @ \ {j},
                          ![p].pc = IF proc[p].todo = {j} THEN "issue" ELSE "grace"]
  /\ UNCHANGED <<keyFile, fresh, clock, deadline, revokedAll, dead, faults>>

\* the row the snapshot showed first: the newest
Successors(p) == {Max(proc[p].snap)}

\* issue_agent_token with the aud, scope and lifetime of the newest live row
RotateIssue(p) ==
  /\ proc[p].pc = "issue" /\ Cardinality(Jtis) < TokenBound
  /\ LET cur == Successors(p) IN
       tokens' = IF cur = {} THEN tokens
                 ELSE LET t == tokens[Max(cur)]
                      IN  Registered(p, t.agent, t.aud, proc[p].moment, t.exp - t.iat)
  /\ deadline' = [j \in 1..MaxTokens |->
       IF j \notin proc[p].snap THEN deadline[j]
       ELSE IF deadline[j] = Never THEN proc[p].until ELSE Max({deadline[j], proc[p].until})]
  /\ proc' = [proc EXCEPT ![p] = Free]
  /\ UNCHANGED <<keyFile, fresh, clock, revokedAll, dead, faults>>

\* revoke --jti
RevokeJti(j) ==
  /\ faults < MaxFaults /\ faults' = faults + 1
  /\ j \in Jtis /\ ~tokens[j].revoked
  /\ tokens' = [tokens EXCEPT ![j].revoked = TRUE]
  /\ UNCHANGED <<keyFile, fresh, proc, clock, deadline, revokedAll, dead>>

RevokedBy(agent) == {j \in Jtis : tokens[j].agent = agent}

\* revoke --agent
RevokeAgent(agent) ==
  /\ faults < MaxFaults /\ faults' = faults + 1
  /\ \E j \in Jtis : tokens[j].agent = agent /\ ~tokens[j].revoked
  /\ tokens' = [j \in Jtis |-> IF j \in RevokedBy(agent)
                                 THEN [tokens[j] EXCEPT !.revoked = TRUE] ELSE tokens[j]]
  /\ revokedAll' = [revokedAll EXCEPT ![agent] = Cardinality(Jtis)]
  /\ UNCHANGED <<keyFile, fresh, proc, clock, deadline, dead>>

-----------------------------------------------------------------------------
\* decode_agent_token: the envelope is whole and signed with the server's key.
decode_agent_token(j) == proc[Server].pc = "ready" /\ tokens[j].key = proc[Server].key

\* validate_agent_token in its order: signature, lifetime, node, registry,
\* revocation, grace
Valid(j, node) ==
  /\ decode_agent_token(j)
  /\ tokens[j].iat <= clock /\ clock < tokens[j].exp
  /\ tokens[j].aud = node
  /\ ~tokens[j].revoked
  /\ tokens[j].grace = None \/ clock < tokens[j].grace

\* _agent_data_gate: the claimed agent must be the token's subject.  The scope of
\* a token is copied by rotation and is not told apart here.
Gate(j, node, claimed) == Valid(j, node) /\ tokens[j].agent = claimed

Tick ==
  /\ clock < MaxTime /\ clock' = clock + 1
  /\ UNCHANGED <<keyFile, fresh, proc, tokens, deadline, revokedAll, dead, faults>>

\* A process dies: what it committed stays, its rotation is never finished.
Crash(p) ==
  /\ faults < MaxFaults /\ faults' = faults + 1
  /\ proc[p].pc # "free"
  /\ proc' = [proc EXCEPT ![p] = Free]
  /\ dead' = IF proc[p].pc \in {"grace", "issue"} THEN dead \cup {proc[p].agent} ELSE dead
  /\ UNCHANGED <<keyFile, fresh, tokens, clock, deadline, revokedAll>>

Next ==
  \/ \E p \in Procs : OpenKey(p) \/ ReplaceKey(p) \/ LoadKey(p) \/ RotateIssue(p) \/ Crash(p)
  \/ \E p \in Procs, a \in Agents, n \in Nodes, ttl \in Lifetimes :
       Issue(p, a, n, ttl)
  \/ \E p \in Procs, a \in Agents, g \in Grace : RotateRead(p, a, g)
  \/ \E p \in Procs, j \in 1..MaxTokens : RotateGrace(p, j)
  \/ \E j \in 1..MaxTokens : RevokeJti(j)
  \/ \E a \in Agents : RevokeAgent(a)
  \/ Tick

Spec == Init /\ [][Next]_tvars

-----------------------------------------------------------------------------
Usable(j) == \E n \in Nodes, a \in Agents : Gate(j, n, a)

\* Rotation retires: once a rotation is finished, none of the tokens it found live
\* is usable past the grace window it gave (the longest of the overlapping ones).
\* An overlapping rotation that is still running, or died, may have written a
\* later end over it.
RotationRetires ==
  \A j \in Jtis : Usable(j) =>
    \/ clock < deadline[j]
    \/ tokens[j].agent \in dead
    \/ \E p \in Procs : proc[p].pc \in {"grace", "issue"} /\ j \in proc[p].snap

\* Revoking an agent leaves nothing of what it held: a usable token was registered
\* after the last revocation of its agent as a whole.
RevocationIsTotal == \A j \in Jtis : Usable(j) => j > revokedAll[tokens[j].agent]

\* A rotation never strands its agent: a token in its grace window has a
\* successor, or the rotation that graced it still runs or died.
GracedHasSuccessor ==
  \A j \in Jtis : tokens[j].grace # None =>
    \/ \E k \in Jtis : k > j /\ tokens[k].agent = tokens[j].agent
    \/ \E p \in Procs : proc[p].pc \in {"grace", "issue"} /\ proc[p].agent = tokens[j].agent
    \/ tokens[j].agent \in dead

\* Processes that opened the key while none was between generating and replacing
\* it hold the same key: what one signs the other verifies.
SettledKeysAgree ==
  \A p, q \in Procs :
    /\ proc[p].clean /\ proc[q].clean /\ \A r \in Procs : proc[r].pc # "minted"
    => proc[p].key = proc[q].key

\* What the token commands promise: revoked and rotated tokens end, a rotated
\* agent keeps a token, and settled processes share one key.
TokensSafe ==
  /\ TypeOK /\ RotationRetires /\ RevocationIsTotal /\ GracedHasSuccessor
  /\ SettledKeysAgree
=============================================================================
