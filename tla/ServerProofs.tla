-------------------------- MODULE ServerProofs --------------------------
(***************************************************************************)
(* Who calls the server: the agent tokens, the REST logins, the session    *)
(* store, search feedback, the awareness cursors, the hooks and the        *)
(* metrics sidecar, each for any values of its constants, and the suite    *)
(* that composes them.  They share no state; all but the tokens are        *)
(* instances with names of their own.                                      *)
(*                                                                         *)
(* RotationRetires is about finished rotations and is kept by what the     *)
(* unfinished ones have written: a grace time in a row is the one a        *)
(* running rotation gave it, or no later than the deadline of the finished *)
(* ones, or the rotation died.  Keys agree because a key file that is      *)
(* there is never replaced by a process that has not minted yet.           *)
(*                                                                         *)
(* None of the promises of the session store is inductive.  A stale number *)
(* is harmless because it is never above the next free one; the answers    *)
(* agree because the message ids of the turns are unique; a checkpoint's   *)
(* agent is the one its session is bound to; and a process about to add a  *)
(* checkpoint has none of that content yet.                                *)
(*                                                                         *)
(* The feedback table passes its cap by the reporters that found room and  *)
(* have not inserted yet, so the invariant counts them in; a citation that *)
(* is passed over is one whose event is on record.                         *)
(*                                                                         *)
(* A cursor stands only at a time no row can be committed before without   *)
(* an excuse, and so does the place a composition is about to put it; what *)
(* was rendered is behind the cursor unless two compositions raced.        *)
(*                                                                         *)
(* The limiter's ledger is the end of the list of stamps it has admitted,  *)
(* and what went out of it has left the window, however late the stamps    *)
(* came in.  Of the sidecar, one process at most is between creating the   *)
(* key file and writing it; the rows of a transaction are those of the     *)
(* call that holds the write lock.                                         *)
(***************************************************************************)
EXTENDS MCServer, FiniteSetTheorems, SequenceTheorems, WellFoundedInduction, TLAPS

Keys == {NoKey, "old"} \cup Procs
PCs == {"free", "minted", "replaced", "ready", "grace", "issue"}
Token == [agent : Agents, aud : Nodes, iat : Nat, exp : Nat, revoked : BOOLEAN,
          grace : 0..Never, key : Keys]
Proc == [pc : PCs, key : Keys, clean : BOOLEAN, agent : Agents \cup {""}, snap : SUBSET Nat,
         todo : SUBSET Nat, until : 0..(Never - 1), moment : Nat]

Rotating(p) == proc[p].pc \in {"grace", "issue"}

Shapes ==
  /\ keyFile \in Keys /\ clock \in 0..MaxTime /\ fresh \in BOOLEAN
  /\ proc \in [Procs -> Proc]
  /\ tokens \in [Jtis -> Token]
  /\ \E n \in 0..MaxTokens : Jtis = 1..n
  /\ deadline \in [1..MaxTokens -> 0..Never] /\ revokedAll \in [Agents -> 0..MaxTokens]

\* Lifetimes are within their maximum.
Lifetime == \A j \in Jtis : tokens[j].iat < tokens[j].exp /\ tokens[j].exp <= tokens[j].iat + MaxTTL

\* What a running rotation has read and written.
InStep(r) ==
  /\ r.todo \subseteq r.snap /\ r.snap \subseteq Jtis
  /\ r.pc \in {"grace", "issue"} =>
       /\ r.snap # {}
       /\ \A j \in r.snap : tokens[j].agent = r.agent
       /\ \A j \in r.snap \ r.todo : tokens[j].revoked \/ tokens[j].grace # None
  /\ r.pc = "issue" => r.todo = {}

RotationInStep == \A p \in Procs : InStep(proc[p])

\* A grace time is the one a running rotation gives, or of a dead one, or within
\* the deadline.
Explained(j) ==
  \/ tokens[j].revoked \/ tokens[j].grace = None
  \/ \E p \in Procs : Rotating(p) /\ j \in proc[p].snap /\ tokens[j].grace = proc[p].until
  \/ tokens[j].agent \in dead
  \/ deadline[j] # Never /\ tokens[j].grace <= deadline[j]

GraceIsExplained == \A j \in Jtis : Explained(j)

\* The body of GracedHasSuccessor.
Succeeded(j) ==
  \/ tokens[j].grace = None
  \/ \E k \in Jtis : k > j /\ tokens[k].agent = tokens[j].agent
  \/ \E p \in Procs : Rotating(p) /\ proc[p].agent = tokens[j].agent
  \/ tokens[j].agent \in dead

\* A finished rotation left no row without a grace time.
DeadlineMeansGrace ==
  \A j \in 1..MaxTokens : deadline[j] # Never =>
    j \in Jtis /\ (tokens[j].revoked \/ tokens[j].grace # None)

\* What was there when an agent was revoked is revoked.
RevokedAsWhole ==
  /\ \A a \in Agents : revokedAll[a] <= Cardinality(Jtis)
  /\ \A j \in Jtis : j <= revokedAll[tokens[j].agent] => tokens[j].revoked

\* A key file is there for good, and a clean process holds it.
KeyIsSettled ==
  /\ \A p \in Procs : proc[p].pc = "replaced" => keyFile # NoKey
  /\ \A p \in Procs : proc[p].clean =>
       proc[p].key = keyFile /\ keyFile # NoKey /\ \A r \in Procs : proc[r].pc # "minted"

IInv ==
  /\ Shapes /\ Lifetime /\ RotationInStep /\ GraceIsExplained /\ DeadlineMeansGrace
  /\ RevokedAsWhole /\ (\A j \in Jtis : Succeeded(j)) /\ KeyIsSettled

-----------------------------------------------------------------------------
\* A bounded set of numbers that is not empty has a Max.
LEMMA MaxIsIn ==
  ASSUME NEW n \in Nat, NEW S \in SUBSET (0..n), S # {}
  PROVE  Max(S) \in S /\ \A x \in S : x <= Max(S)
  <1> DEFINE T == {n - x : x \in S}
  <1>1. \A x \in S : n - x \in Nat /\ x \in Nat
    OBVIOUS
  <1>2. T \subseteq Nat /\ T # {}
    BY <1>1
  <1>3. PICK y \in T : \A z \in T : ~(<<z, y>> \in OpToRel(<, Nat))
    BY <1>2, NatLessThanWellFounded, WFMin
  <1>4. PICK m \in S : y = n - m
    OBVIOUS
  <1>5. ASSUME NEW x \in S PROVE m >= x
    <2>1. n - x \in T /\ n - x \in Nat /\ y \in Nat
      BY <1>1, <1>2
    <2>2. ~(n - x < y)
      BY <1>3, <2>1 DEF OpToRel
    <2> QED BY <1>1, <1>4, <2>2
  <1>6. Max(S) \in S /\ \A x \in S : Max(S) >= x
    BY <1>5 DEF Max
  <1> QED BY <1>1, <1>6

\* The latest time is before Never, and a grace added to a time stays before it.
LEMMA Numbers ==
  /\ None = Never /\ Never \in Nat /\ MaxTime < Never
  /\ \A c \in 0..MaxTime, g \in Grace : c + g \in 0..(Never - 1)
  BY AgentTokensAssumption DEF None, Never

\* The number of issued tokens.
LEMMA Count ==
  ASSUME Shapes
  PROVE  Cardinality(Jtis) \in 0..MaxTokens /\ Jtis = 1..Cardinality(Jtis)
  <1>1. PICK n \in 0..MaxTokens : Jtis = 1..n
    BY DEF Shapes
  <1>2. Cardinality(1..n) = n
    BY AgentTokensAssumption, FS_Interval
  <1> QED BY <1>1, <1>2

\* The promises, from the invariant.
LEMMA Promises == ASSUME IInv PROVE TokensSafe
  <1>1. TypeOK
    <2>1. Jtis = 1..Cardinality(Jtis)
      BY Count DEF IInv
    <2> QED BY <2>1 DEF IInv, Shapes, Lifetime, RotationInStep, InStep, TypeOK, Proc, PCs, Token,
                        Keys
  <1>2. RotationRetires
    <2>1. SUFFICES ASSUME NEW j \in Jtis, Usable(j)
                   PROVE  \/ clock < deadline[j]
                          \/ tokens[j].agent \in dead
                          \/ \E p \in Procs : Rotating(p) /\ j \in proc[p].snap
      BY DEF RotationRetires, Rotating
    <2>2. ~tokens[j].revoked /\ (tokens[j].grace = None \/ clock < tokens[j].grace)
      BY <2>1 DEF Usable, Gate, Valid
    <2>3. j \in 1..MaxTokens /\ deadline[j] \in 0..Never /\ clock \in 0..MaxTime
            /\ tokens[j].grace \in 0..Never
      BY AgentTokensAssumption DEF IInv, Shapes, Token
    <2>4. CASE deadline[j] = Never
      BY <2>3, <2>4, Numbers, AgentTokensAssumption
    <2>5. CASE deadline[j] # Never
      <3>1. tokens[j].grace # None /\ clock < tokens[j].grace
        BY <2>2, <2>3, <2>5 DEF IInv, DeadlineMeansGrace
      <3>2. \/ \E p \in Procs : Rotating(p) /\ j \in proc[p].snap
            \/ tokens[j].agent \in dead
            \/ tokens[j].grace <= deadline[j]
        BY <2>2, <3>1 DEF IInv, GraceIsExplained, Explained
      <3>3. tokens[j].grace <= deadline[j] => clock < deadline[j]
        BY <2>3, <3>1, Numbers
      <3> QED BY <3>2, <3>3
    <2> QED BY <2>4, <2>5
  <1>3. RevocationIsTotal
    <2>1. SUFFICES ASSUME NEW j \in Jtis, Usable(j) PROVE j > revokedAll[tokens[j].agent]
      BY DEF RevocationIsTotal
    <2>2. ~tokens[j].revoked
      BY <2>1 DEF Usable, Gate, Valid
    <2>3. ~(j <= revokedAll[tokens[j].agent])
      BY <2>2 DEF IInv, RevokedAsWhole
    <2>4. j \in Nat /\ revokedAll[tokens[j].agent] \in Nat
      BY AgentTokensAssumption DEF IInv, Shapes, Token
    <2> QED BY <2>3, <2>4
  <1>4. SettledKeysAgree
    BY DEF IInv, KeyIsSettled, SettledKeysAgree
  <1>5. GracedHasSuccessor
    BY DEF IInv, Succeeded, GracedHasSuccessor, Rotating
  <1> QED BY <1>1, <1>2, <1>3, <1>4, <1>5 DEF TokensSafe

\* A process between operations holds no snapshot and no work.
LEMMA FreeIsProc == Free \in Proc /\ Free.pc = "free" /\ ~Free.clean /\ Free.snap = {} /\ Free.todo = {}
  <1>1. 0 \in 0..(Never - 1)
    BY Numbers, AgentTokensAssumption DEF Never
  <1> QED BY <1>1 DEF Free, Proc, PCs, Keys

\* No key and no token exist at the start.
LEMMA InitOK == ASSUME Init PROVE IInv
  <1>1. Jtis = {} /\ Jtis = 1..0 /\ Cardinality(Jtis) = 0
    BY FS_EmptySet DEF Init, Jtis
  <1>2. \A p \in Procs : proc[p] = Free
    BY DEF Init
  <1>3. Shapes
    <2>1. keyFile \in Keys /\ clock \in 0..MaxTime /\ fresh \in BOOLEAN /\ proc \in [Procs -> Proc]
      BY FreeIsProc, AgentTokensAssumption DEF Init, Keys
    <2>2. tokens \in [Jtis -> Token]
      BY <1>1 DEF Init
    <2>3. 0 \in 0..MaxTokens /\ Never \in 0..Never
      BY Numbers, AgentTokensAssumption
    <2>4. deadline \in [1..MaxTokens -> 0..Never] /\ revokedAll \in [Agents -> 0..MaxTokens]
      BY <2>3 DEF Init
    <2> QED BY <1>1, <2>1, <2>2, <2>3, <2>4 DEF Shapes
  <1>4. Lifetime /\ GraceIsExplained /\ \A j \in Jtis : Succeeded(j)
    BY <1>1 DEF Lifetime, GraceIsExplained
  <1>5. RotationInStep /\ KeyIsSettled
    BY <1>2, FreeIsProc DEF RotationInStep, InStep, KeyIsSettled
  <1>6. DeadlineMeansGrace
    BY DEF Init, DeadlineMeansGrace
  <1>7. RevokedAsWhole
    BY <1>1 DEF Init, RevokedAsWhole
  <1> QED BY <1>3, <1>4, <1>5, <1>6, <1>7 DEF IInv

-----------------------------------------------------------------------------
(* The key. *)

\* What one process's step does to proc.
LEMMA ProcAfter ==
  ASSUME IInv, NEW p \in Procs, NEW r \in Proc, proc' = [proc EXCEPT ![p] = r]
  PROVE  proc' \in [Procs -> Proc] /\ proc'[p] = r /\ \A q \in Procs : q # p => proc'[q] = proc[q]
  BY DEF IInv, Shapes

\* A process that does not rotate moves, into a rotation or not; no row changes.
LEMMA ProcStep ==
  ASSUME IInv, NEW p \in Procs, NEW r \in Proc, proc' = [proc EXCEPT ![p] = r],
         ~Rotating(p), InStep(r), keyFile' \in Keys, KeyIsSettled',
         UNCHANGED <<fresh, tokens, clock, deadline, revokedAll, dead>>
  PROVE  IInv'
  <1>1. proc' \in [Procs -> Proc] /\ proc'[p] = r /\ \A q \in Procs : q # p => proc'[q] = proc[q]
    BY ProcAfter
  <1>2. Jtis' = Jtis
    BY DEF Jtis
  <1>3. \A q \in Procs : Rotating(q) => Rotating(q)' /\ proc'[q] = proc[q]
    BY <1>1 DEF Rotating
  <1>4. Shapes'
    BY <1>1, <1>2 DEF IInv, Shapes
  <1>5. Lifetime' /\ DeadlineMeansGrace' /\ RevokedAsWhole'
    BY <1>2 DEF IInv, Lifetime, DeadlineMeansGrace, RevokedAsWhole
  <1>6. RotationInStep'
    <2>1. ASSUME NEW q \in Procs PROVE InStep(proc'[q])
      BY <1>1 DEF IInv, RotationInStep
    <2> QED BY <1>2, <2>1 DEF RotationInStep, InStep
  <1>7. \A j \in Jtis : Explained(j)'
    <2>1. ASSUME NEW j \in Jtis PROVE Explained(j)'
      BY <1>3 DEF IInv, GraceIsExplained, Explained
    <2> QED BY <2>1
  <1>8. \A j \in Jtis : Succeeded(j)'
    <2>1. ASSUME NEW j \in Jtis PROVE Succeeded(j)'
      BY <1>2, <1>3 DEF IInv, Succeeded
    <2> QED BY <2>1
  <1> QED BY <1>2, <1>4, <1>5, <1>6, <1>7, <1>8 DEF IInv, GraceIsExplained

\* A process reads the key file, or mints a key of its own.
LEMMA OpenOK == ASSUME IInv, NEW p \in Procs, OpenKey(p) PROVE IInv'
  <1>1. proc[p].pc = "free" /\ UNCHANGED <<keyFile, fresh, tokens, clock, deadline, revokedAll, dead>>
    BY DEF OpenKey
  <1> DEFINE calm == \A q \in Procs : proc[q].pc # "minted"
             r == IF keyFile # NoKey
                    THEN [Free EXCEPT !.pc = "ready", !.key = keyFile, !.clean = calm]
                    ELSE [Free EXCEPT !.pc = "minted"]
  <1>2. proc' = [proc EXCEPT ![p] = r]
    BY DEF OpenKey
  <1>3. calm \in BOOLEAN /\ keyFile \in Keys
    BY DEF IInv, Shapes
  <1>4. /\ r \in Proc /\ r.snap = {} /\ r.todo = {}
        /\ keyFile # NoKey => r.pc = "ready" /\ r.key = keyFile /\ r.clean = calm
        /\ keyFile = NoKey => r.pc = "minted" /\ ~r.clean
    <2> HIDE DEF calm
    <2> QED BY <1>3, FreeIsProc DEF Free, Proc, PCs
  <1> HIDE DEF r
  <1>5. proc' \in [Procs -> Proc] /\ proc'[p] = r /\ \A q \in Procs : q # p => proc'[q] = proc[q]
    BY <1>2, <1>4, ProcAfter
  <1>6. KeyIsSettled'
    <2>1. ASSUME NEW q \in Procs, proc'[q].pc = "replaced" PROVE keyFile # NoKey
      BY <1>4, <1>5, <2>1 DEF IInv, KeyIsSettled
    <2>2. ASSUME NEW q \in Procs, proc'[q].clean
          PROVE  proc'[q].key = keyFile /\ keyFile # NoKey /\ \A x \in Procs : proc'[x].pc # "minted"
      <3>1. keyFile # NoKey
        BY <1>4, <1>5, <2>2 DEF IInv, KeyIsSettled
      <3>2. calm
        BY <1>4, <1>5, <2>2, <3>1 DEF IInv, KeyIsSettled
      <3> QED BY <1>4, <1>5, <2>2, <3>1, <3>2 DEF IInv, KeyIsSettled
    <2> QED BY <1>1, <2>1, <2>2 DEF KeyIsSettled
  <1>7. InStep(r) /\ ~Rotating(p)
    BY <1>1, <1>4 DEF Rotating, InStep
  <1> QED BY <1>1, <1>2, <1>3, <1>4, <1>6, <1>7, ProcStep

\* The key in the file is the last writer's.
LEMMA ReplaceOK == ASSUME IInv, NEW p \in Procs, ReplaceKey(p) PROVE IInv'
  <1>1. /\ proc[p].pc = "minted" /\ keyFile' = p
        /\ UNCHANGED <<fresh, tokens, clock, deadline, revokedAll, dead>>
    BY DEF ReplaceKey
  <1> DEFINE r == [proc[p] EXCEPT !.pc = "replaced"]
  <1>2. proc' = [proc EXCEPT ![p] = r]
    BY DEF ReplaceKey
  <1>3. proc[p] \in Proc
    BY DEF IInv, Shapes
  <1>4. /\ r \in Proc /\ r.pc = "replaced" /\ r.clean = proc[p].clean
        /\ r.snap = proc[p].snap /\ r.todo = proc[p].todo
    BY <1>3 DEF Proc, PCs
  <1> HIDE DEF r
  <1>5. proc' \in [Procs -> Proc] /\ proc'[p] = r /\ \A q \in Procs : q # p => proc'[q] = proc[q]
    BY <1>2, <1>4, ProcAfter
  \* while a process has minted, none is clean
  <1>6. \A q \in Procs : ~proc'[q].clean
    BY <1>1, <1>4, <1>5 DEF IInv, KeyIsSettled
  <1>7. keyFile' # NoKey /\ keyFile' \in Keys
    BY <1>1, AgentTokensAssumption DEF NoKey, Keys
  <1>8. KeyIsSettled'
    BY <1>6, <1>7 DEF KeyIsSettled
  <1>9. r.todo \subseteq r.snap /\ r.snap \subseteq Jtis
    BY <1>4 DEF IInv, RotationInStep, InStep
  <1>10. InStep(r) /\ ~Rotating(p)
    BY <1>1, <1>4, <1>9 DEF Rotating, InStep
  <1> QED BY <1>1, <1>2, <1>4, <1>7, <1>8, <1>9, <1>10, ProcStep

\* A process settles on the key that is in the file when it reads it back.
LEMMA LoadOK == ASSUME IInv, NEW p \in Procs, LoadKey(p) PROVE IInv'
  <1>1. proc[p].pc = "replaced" /\ UNCHANGED <<keyFile, fresh, tokens, clock, deadline, revokedAll, dead>>
    BY DEF LoadKey
  <1> DEFINE calm == \A q \in Procs : proc[q].pc # "minted"
             r == [proc[p] EXCEPT !.pc = "ready", !.key = keyFile, !.clean = calm]
  <1>2. proc' = [proc EXCEPT ![p] = r]
    BY DEF LoadKey, KeyAfterReplace
  <1>3. proc[p] \in Proc /\ calm \in BOOLEAN /\ keyFile \in Keys /\ keyFile # NoKey
    BY <1>1 DEF IInv, Shapes, KeyIsSettled
  <1>4. /\ r \in Proc /\ r.pc = "ready" /\ r.clean = calm /\ r.key = keyFile
        /\ r.snap = proc[p].snap /\ r.todo = proc[p].todo
    <2> HIDE DEF calm
    <2> QED BY <1>3 DEF Proc, PCs
  <1> HIDE DEF r
  <1>5. proc' \in [Procs -> Proc] /\ proc'[p] = r /\ \A q \in Procs : q # p => proc'[q] = proc[q]
    BY <1>2, <1>4, ProcAfter
  <1>6. KeyIsSettled'
    <2>1. ASSUME NEW q \in Procs, proc'[q].clean
          PROVE  proc'[q].key = keyFile /\ \A x \in Procs : proc'[x].pc # "minted"
      <3>1. calm
        BY <1>4, <1>5, <2>1 DEF IInv, KeyIsSettled
      <3> QED BY <1>4, <1>5, <2>1, <3>1 DEF IInv, KeyIsSettled
    <2> QED BY <1>1, <1>3, <2>1 DEF KeyIsSettled
  <1>7. r.todo \subseteq r.snap /\ r.snap \subseteq Jtis
    BY <1>4 DEF IInv, RotationInStep, InStep
  <1>8. InStep(r) /\ ~Rotating(p)
    BY <1>1, <1>4, <1>7 DEF Rotating, InStep
  <1> QED BY <1>1, <1>2, <1>3, <1>4, <1>6, <1>7, <1>8, ProcStep

-----------------------------------------------------------------------------
(* The registry. *)

Young(r) == r \in Token /\ r.grace = None /\ ~r.revoked
              /\ r.iat < r.exp /\ r.exp <= r.iat + MaxTTL

\* One past the last number is new, in bounds and later than the others.
LEMMA NextNumber ==
  ASSUME NEW n \in Nat, NEW m \in Nat, n < m
  PROVE  /\ n + 1 \in 1..m /\ n + 1 \in 0..m /\ n + 1 \notin 1..n
         /\ (1..n) \cup {n + 1} = 1..(n + 1) /\ \A j \in 1..n : j < n + 1
  OBVIOUS

\* A token is registered under the next jti and changes no other row.
LEMMA Grown ==
  ASSUME IInv, NEW n, n = Cardinality(Jtis), n < TokenBound, NEW r, Young(r),
         tokens' = [k \in Jtis \cup {n + 1} |-> IF k # n + 1 THEN tokens[k] ELSE r],
         UNCHANGED <<fresh, revokedAll>>
  PROVE  /\ n \in Nat /\ n + 1 \notin Jtis /\ n + 1 \in 1..MaxTokens
         /\ tokens' \in [Jtis' -> Token] /\ (\E m \in 0..MaxTokens : Jtis' = 1..m)
         /\ Jtis' = Jtis \cup {n + 1} /\ tokens'[n + 1] = r
         /\ \A j \in Jtis : j < n + 1 /\ tokens'[j] = tokens[j]
         /\ Lifetime' /\ RevokedAsWhole'
  <1>1. n \in 0..MaxTokens /\ Jtis = 1..n
    BY Count DEF IInv
  <1>2. n < MaxTokens /\ n \in Nat /\ n + 1 \in 1..MaxTokens /\ n + 1 \notin Jtis
    <2>1. n \in Nat /\ MaxTokens \in Nat /\ FreshTokens \in Nat /\ FreshTokens <= MaxTokens
      BY <1>1, AgentTokensAssumption
    <2>2. n < FreshTokens \/ n < MaxTokens
      BY DEF TokenBound
    <2>3. n < MaxTokens
      BY <2>1, <2>2
    <2> QED BY <1>1, <2>1, <2>3, NextNumber
  <1>3. Jtis' = Jtis \cup {n + 1}
    BY DEF Jtis
  <1>4. Jtis' = 1..(n + 1) /\ n + 1 \in 0..MaxTokens
    <2>1. (1..n) \cup {n + 1} = 1..(n + 1) /\ n + 1 \in 0..MaxTokens
      BY <1>2, AgentTokensAssumption, NextNumber
    <2> QED BY <1>1, <1>3, <2>1, Zenon
  <1>5. tokens'[n + 1] = r /\ \A j \in Jtis : j < n + 1 /\ tokens'[j] = tokens[j]
    <2>1. \A j \in Jtis : j < n + 1
      <3>1. \A j \in 1..n : j < n + 1
        BY <1>2, AgentTokensAssumption, NextNumber
      <3> QED BY <1>1, <3>1, Zenon
    <2>2. \A j \in Jtis : tokens'[j] = tokens[j]
      BY <1>2
    <2> QED BY <2>1, <2>2
  <1>6. tokens' \in [Jtis' -> Token]
    <2>1. tokens \in [Jtis -> Token] /\ r \in Token
      BY DEF IInv, Shapes, Young
    <2> QED BY <1>3, <2>1
  <1>7. Lifetime'
    <2>1. ASSUME NEW j \in Jtis'
          PROVE  tokens'[j].iat < tokens'[j].exp /\ tokens'[j].exp <= tokens'[j].iat + MaxTTL
      <3>1. CASE j \in Jtis
        BY <1>5, <3>1 DEF IInv, Lifetime
      <3>2. CASE j = n + 1
        BY <1>5, <3>2 DEF Young
      <3> QED BY <1>3, <3>1, <3>2
    <2> QED BY <2>1 DEF Lifetime
  <1>8. RevokedAsWhole'
    <2>1. Cardinality(Jtis') = n + 1
      BY <1>2, <1>4, FS_Interval
    <2>2. \A a \in Agents : revokedAll[a] <= n /\ revokedAll[a] \in Nat
      BY AgentTokensAssumption DEF IInv, Shapes, RevokedAsWhole
    <2>3. ASSUME NEW j \in Jtis', j <= revokedAll[tokens'[j].agent] PROVE tokens'[j].revoked
      <3>1. CASE j \in Jtis
        BY <1>5, <2>3, <3>1 DEF IInv, RevokedAsWhole
      <3>2. CASE j = n + 1
        <4>1. tokens'[j].agent \in Agents
          BY <1>5, <3>2 DEF Young, Token
        <4> QED BY <1>2, <2>2, <2>3, <3>2, <4>1
      <3> QED BY <1>3, <3>1, <3>2
    <2>4. \A a \in Agents : revokedAll[a] <= n + 1
      BY <1>2, <2>2
    <2> QED BY <2>1, <2>3, <2>4 DEF RevokedAsWhole
  <1> QED BY <1>2, <1>3, <1>4, <1>5, <1>6, <1>7, <1>8

\* A process that ends is clean of nothing and rotates nothing.
LEMMA FreedKeys ==
  ASSUME IInv, NEW p \in Procs, proc' = [proc EXCEPT ![p] = Free], keyFile' = keyFile
  PROVE  KeyIsSettled'
  <1>1. proc' \in [Procs -> Proc] /\ proc'[p] = Free /\ \A q \in Procs : q # p => proc'[q] = proc[q]
    BY FreeIsProc, ProcAfter
  <1>2. ASSUME NEW q \in Procs, proc'[q].clean
        PROVE  proc'[q].key = keyFile /\ keyFile # NoKey /\ \A x \in Procs : proc'[x].pc # "minted"
    BY <1>1, <1>2, FreeIsProc DEF IInv, KeyIsSettled
  <1>3. ASSUME NEW q \in Procs, proc'[q].pc = "replaced" PROVE keyFile # NoKey
    BY <1>1, <1>3, FreeIsProc DEF IInv, KeyIsSettled
  <1> QED BY <1>2, <1>3 DEF KeyIsSettled

\* A process ends while rows are added and none changes: the others stay in step.
LEMMA OthersInStep ==
  ASSUME IInv, NEW p \in Procs, proc'[p] = Free, \A q \in Procs : q # p => proc'[q] = proc[q],
         Jtis \subseteq Jtis', \A j \in Jtis : tokens'[j] = tokens[j]
  PROVE  RotationInStep'
  <1>1. ASSUME NEW q \in Procs, NEW r, r = proc[q] PROVE InStep(r)'
    <2>1. InStep(r)
      BY <1>1 DEF IInv, RotationInStep
    <2> QED BY <2>1 DEF InStep
  <1>2. InStep(proc[p])'
    BY FreeIsProc DEF InStep
  <1>3. ASSUME NEW q \in Procs, q # p PROVE InStep(proc[q])'
    <2>1. PICK r : r = proc[q]
      OBVIOUS
    <2>2. InStep(r)' /\ proc'[q] = r
      BY <1>1, <1>3, <2>1
    <2> QED BY <2>2 DEF InStep
  <1> QED BY <1>2, <1>3 DEF RotationInStep

\* An issued token takes a fresh row and ends with its lifetime.
LEMMA IssueOK ==
  ASSUME IInv, NEW p \in Procs, NEW a \in Agents, NEW d \in Nodes, NEW ttl \in Lifetimes,
         Issue(p, a, d, ttl)
  PROVE  IInv'
  <1>1. /\ proc[p].pc = "ready" /\ Cardinality(Jtis) < TokenBound
        /\ proc' = [proc EXCEPT ![p] = Free]
        /\ UNCHANGED <<keyFile, fresh, clock, deadline, revokedAll, dead>>
    BY DEF Issue
  <1>2. PICK n : n = Cardinality(Jtis)
    OBVIOUS
  <1>3. PICK r : r = [agent |-> a, aud |-> d, iat |-> clock, exp |-> clock + ttl,
                      revoked |-> FALSE, grace |-> None, key |-> proc[p].key]
    OBVIOUS
  <1>4. Young(r)
    <2>1. ttl \in 1..MaxTTL /\ MaxTTL \in Nat /\ None \in 0..Never
      BY AgentTokensAssumption, Numbers
    <2>2. clock \in Nat /\ proc[p].key \in Keys
      <3>1. clock \in 0..MaxTime /\ MaxTime \in Nat
        BY AgentTokensAssumption DEF IInv, Shapes
      <3>2. proc[p] \in Proc
        BY DEF IInv, Shapes
      <3>3. clock \in Nat
        BY <3>1
      <3>4. proc[p].key \in Keys
        BY <3>2 DEF Proc
      <3> QED BY <3>3, <3>4
    <2>3. clock + ttl \in Nat /\ clock < clock + ttl /\ clock + ttl <= clock + MaxTTL
      BY <2>1, <2>2
    <2> QED BY <1>3, <2>1, <2>2, <2>3 DEF Young, Token
  <1>5. tokens' = [k \in Jtis \cup {n + 1} |-> IF k # n + 1 THEN tokens[k] ELSE r]
    <2>1. n \in Nat
      BY <1>2, AgentTokensAssumption, Count DEF IInv
    <2>2. 1 + n = n + 1
      BY <2>1
    <2> QED BY <1>2, <1>3, <2>2 DEF Issue, Registered
  <1>6. /\ n \in Nat /\ n + 1 \notin Jtis /\ n + 1 \in 1..MaxTokens
        /\ tokens' \in [Jtis' -> Token] /\ (\E m \in 0..MaxTokens : Jtis' = 1..m)
        /\ Jtis' = Jtis \cup {n + 1} /\ tokens'[n + 1] = r
        /\ \A j \in Jtis : j < n + 1 /\ tokens'[j] = tokens[j]
        /\ Lifetime' /\ RevokedAsWhole'
    BY <1>1, <1>2, <1>4, <1>5, Grown
  <1>7. proc' \in [Procs -> Proc] /\ proc'[p] = Free /\ \A q \in Procs : q # p => proc'[q] = proc[q]
    BY <1>1, FreeIsProc, ProcAfter
  <1>8. \A q \in Procs : Rotating(q) => Rotating(q)' /\ proc'[q] = proc[q]
    BY <1>1, <1>7, FreeIsProc DEF Rotating
  <1>9. Shapes'
    BY <1>1, <1>6, <1>7 DEF IInv, Shapes
  <1>10. RotationInStep'
    BY <1>6, <1>7, OthersInStep
  <1>11. GraceIsExplained'
    <2>1. ASSUME NEW j \in Jtis PROVE Explained(j)'
      BY <1>1, <1>6, <1>8 DEF IInv, GraceIsExplained, Explained
    <2>2. Explained(n + 1)'
      BY <1>4, <1>6 DEF Young, Explained
    <2> QED BY <1>6, <2>1, <2>2 DEF GraceIsExplained
  <1>12. DeadlineMeansGrace'
    BY <1>1, <1>6 DEF IInv, DeadlineMeansGrace
  <1>13. \A j \in Jtis' : Succeeded(j)'
    <2>1. ASSUME NEW j \in Jtis PROVE Succeeded(j)'
      BY <1>1, <1>6, <1>8 DEF IInv, Succeeded
    <2>2. Succeeded(n + 1)'
      BY <1>4, <1>6 DEF Young, Succeeded
    <2> QED BY <1>6, <2>1, <2>2
  <1> QED BY <1>1, <1>6, <1>9, <1>10, <1>11, <1>12, <1>13, FreedKeys DEF IInv

-----------------------------------------------------------------------------
(* Rotation and revocation. *)

\* A rotation takes a snapshot of the agent's live rows.
LEMMA RotateReadOK ==
  ASSUME IInv, NEW p \in Procs, NEW a \in Agents, NEW g \in Grace, RotateRead(p, a, g)
  PROVE  IInv'
  <1>1. /\ proc[p].pc = "ready" /\ Live(a, clock) # {}
        /\ UNCHANGED <<keyFile, fresh, tokens, clock, deadline, revokedAll, dead>>
    BY DEF RotateRead
  <1>2. PICK live : live = Live(a, clock)
    OBVIOUS
  <1> DEFINE r == [proc[p] EXCEPT !.pc = "grace", !.agent = a, !.snap = live, !.todo = live,
                                  !.until = clock + g, !.moment = clock]
  <1>3. proc' = [proc EXCEPT ![p] = r]
    BY <1>2 DEF RotateRead, ToGrace
  <1>4. live \subseteq Jtis /\ live # {} /\ \A j \in live : tokens[j].agent = a
    BY <1>1, <1>2 DEF Live
  <1>5. live \in SUBSET Nat
    <2>1. Jtis \subseteq Nat
      BY Count DEF IInv
    <2> QED BY <1>4, <2>1
  <1>6. clock + g \in 0..(Never - 1) /\ clock \in Nat
    <2>1. clock \in 0..MaxTime /\ MaxTime \in Nat
      BY AgentTokensAssumption DEF IInv, Shapes
    <2> QED BY <2>1, Numbers
  <1>7. proc[p] \in Proc
    BY DEF IInv, Shapes
  <1>8. /\ r \in Proc /\ r.pc = "grace" /\ r.agent = a /\ r.snap = live /\ r.todo = live
        /\ r.key = proc[p].key /\ r.clean = proc[p].clean
    BY <1>5, <1>6, <1>7 DEF Proc, PCs
  <1> HIDE DEF r
  <1>9. InStep(r) /\ ~Rotating(p)
    BY <1>1, <1>4, <1>8 DEF Rotating, InStep
  <1>10. KeyIsSettled'
    <2>1. proc' \in [Procs -> Proc] /\ proc'[p] = r /\ \A q \in Procs : q # p => proc'[q] = proc[q]
      BY <1>3, <1>8, ProcAfter
    <2>2. ASSUME NEW q \in Procs
          PROVE  /\ proc'[q].clean = proc[q].clean /\ proc'[q].key = proc[q].key
                 /\ proc'[q].pc = "minted" => proc[q].pc = "minted"
                 /\ proc'[q].pc = "replaced" => proc[q].pc = "replaced"
      BY <1>8, <2>1
    <2> QED BY <1>1, <2>2 DEF IInv, KeyIsSettled
  <1>11. keyFile' \in Keys
    BY <1>1 DEF IInv, Shapes
  <1> QED BY <1>1, <1>3, <1>8, <1>9, <1>10, <1>11, ProcStep

\* What no statement takes from a row that stays.
Kept(j) ==
  /\ tokens'[j].agent = tokens[j].agent
  /\ tokens'[j].iat = tokens[j].iat /\ tokens'[j].exp = tokens[j].exp
  /\ tokens[j].revoked => tokens'[j].revoked
  /\ tokens[j].grace # None => tokens'[j].grace # None

\* A step that keeps what was said of each row keeps the lifetimes and the graces.
LEMMA RowsKept ==
  ASSUME IInv, tokens' \in [Jtis -> Token], \A j \in Jtis : Kept(j), deadline' = deadline
  PROVE  /\ Jtis' = Jtis /\ Lifetime' /\ DeadlineMeansGrace'
         /\ \A r : InStep(r) => InStep(r)'
  <1>1. Jtis' = Jtis
    BY DEF Jtis
  <1>2. Lifetime' /\ DeadlineMeansGrace'
    BY <1>1 DEF IInv, Lifetime, DeadlineMeansGrace, Kept
  <1>3. ASSUME NEW r, InStep(r) PROVE InStep(r)'
    BY <1>1, <1>3 DEF InStep, Kept
  <1> QED BY <1>1, <1>2, <1>3

\* The step of a revocation: rows are revoked, nothing else changes in them.
LEMMA RevokeStep ==
  ASSUME IInv, tokens' \in [Jtis -> Token], \A j \in Jtis : Kept(j),
         \A j \in Jtis : tokens'[j].grace = tokens[j].grace,
         UNCHANGED <<keyFile, fresh, proc, clock, deadline, dead>>,
         revokedAll' \in [Agents -> 0..MaxTokens], RevokedAsWhole'
  PROVE  IInv'
  <1>1. /\ Jtis' = Jtis /\ Lifetime' /\ DeadlineMeansGrace'
        /\ \A r : InStep(r) => InStep(r)'
    BY RowsKept
  <1>2. Shapes'
    BY <1>1 DEF IInv, Shapes
  <1>3. RotationInStep'
    <2>1. ASSUME NEW q \in Procs PROVE InStep(proc[q])'
      <3>1. PICK r : r = proc[q]
        OBVIOUS
      <3>2. InStep(r)'
        BY <1>1, <3>1 DEF IInv, RotationInStep
      <3>3. proc'[q] = r
        BY <3>1
      <3> QED BY <3>2, <3>3 DEF InStep
    <2> QED BY <2>1 DEF RotationInStep
  <1>4. \A q \in Procs : Rotating(q)' <=> Rotating(q)
    BY DEF Rotating
  <1>5. ASSUME NEW j \in Jtis PROVE Explained(j)'
    BY <1>4 DEF IInv, GraceIsExplained, Explained, Kept
  <1>6. ASSUME NEW j \in Jtis PROVE Succeeded(j)'
    BY <1>1, <1>4 DEF IInv, Succeeded, Kept
  <1>7. KeyIsSettled'
    BY DEF IInv, KeyIsSettled
  <1> QED BY <1>1, <1>2, <1>3, <1>5, <1>6, <1>7 DEF IInv, GraceIsExplained

\* A revocation by id marks one row.
LEMMA RevokeJtiOK == ASSUME IInv, NEW i, RevokeJti(i) PROVE IInv'
  <1>1. /\ i \in Jtis /\ tokens' = [tokens EXCEPT ![i].revoked = TRUE]
        /\ UNCHANGED <<keyFile, fresh, proc, clock, deadline, revokedAll, dead>>
    BY DEF RevokeJti
  <1>2. tokens \in [Jtis -> Token]
    BY DEF IInv, Shapes
  <1>3. tokens' \in [Jtis -> Token]
    BY <1>1, <1>2 DEF Token
  <1>4. ASSUME NEW j \in Jtis PROVE Kept(j) /\ tokens'[j].grace = tokens[j].grace
    BY <1>1, <1>2 DEF Kept, Token
  <1>5. Jtis' = Jtis
    BY <1>3 DEF Jtis
  <1>6. RevokedAsWhole'
    BY <1>1, <1>4, <1>5 DEF IInv, RevokedAsWhole, Kept
  <1>7. revokedAll' \in [Agents -> 0..MaxTokens]
    BY <1>1 DEF IInv, Shapes
  <1> QED BY <1>1, <1>3, <1>4, <1>6, <1>7, RevokeStep

\* A revocation by agent marks every row the agent has then.
LEMMA RevokeAgentOK == ASSUME IInv, NEW a \in Agents, RevokeAgent(a) PROVE IInv'
  <1>1. UNCHANGED <<keyFile, fresh, proc, clock, deadline, dead>>
    BY DEF RevokeAgent
  <1>2. tokens \in [Jtis -> Token]
    BY DEF IInv, Shapes
  <1>3. ASSUME NEW j \in Jtis
        PROVE  /\ tokens'[j] \in Token /\ Kept(j) /\ tokens'[j].grace = tokens[j].grace
               /\ tokens[j].agent = a => tokens'[j].revoked
    <2>1. tokens'[j] = IF tokens[j].agent = a THEN [tokens[j] EXCEPT !.revoked = TRUE] ELSE tokens[j]
      BY DEF RevokeAgent, RevokedBy
    <2>2. tokens[j] \in Token
      BY <1>2
    <2> QED BY <2>1, <2>2 DEF Kept, Token
  <1>4. tokens' \in [Jtis -> Token]
    BY <1>3 DEF RevokeAgent
  <1>5. Jtis' = Jtis
    BY <1>4 DEF Jtis
  <1>6. PICK n : n = Cardinality(Jtis)
    OBVIOUS
  <1>7. n \in 0..MaxTokens /\ Jtis = 1..n /\ n \in Nat
    BY <1>6, Count, AgentTokensAssumption DEF IInv
  <1>8. revokedAll' = [revokedAll EXCEPT ![a] = n] /\ revokedAll \in [Agents -> 0..MaxTokens]
    BY <1>6 DEF RevokeAgent, IInv, Shapes
  <1>9. revokedAll' \in [Agents -> 0..MaxTokens]
    BY <1>7, <1>8
  <1>10. RevokedAsWhole'
    <2>1. ASSUME NEW b \in Agents PROVE revokedAll'[b] <= n
      <3>1. revokedAll[b] <= n
        BY <1>6 DEF IInv, RevokedAsWhole
      <3>2. revokedAll'[b] = n \/ revokedAll'[b] = revokedAll[b]
        BY <1>8
      <3> QED BY <1>7, <3>1, <3>2
    <2>2. ASSUME NEW j \in Jtis, j <= revokedAll'[tokens[j].agent] PROVE tokens'[j].revoked
      <3>1. CASE tokens[j].agent = a
        BY <1>3, <3>1
      <3>2. CASE tokens[j].agent # a
        <4>1. revokedAll'[tokens[j].agent] = revokedAll[tokens[j].agent]
          BY <1>2, <1>8, <3>2 DEF Token
        <4> QED BY <1>3, <2>2, <4>1 DEF IInv, RevokedAsWhole, Kept
      <3> QED BY <3>1, <3>2
    <2>3. \A j \in Jtis : tokens'[j].agent = tokens[j].agent
      BY <1>3 DEF Kept
    <2> QED BY <1>5, <1>6, <2>1, <2>2, <2>3 DEF RevokedAsWhole
  <1> QED BY <1>1, <1>3, <1>4, <1>9, <1>10, RevokeStep

\* A listed row that is not revoked gets the grace of its rotation.
LEMMA RotateGraceOK == ASSUME IInv, NEW p \in Procs, NEW i, RotateGrace(p, i) PROVE IInv'
  <1>1. /\ proc[p].pc = "grace" /\ proc[p].todo # {} /\ i = Max(proc[p].todo)
        /\ UNCHANGED <<keyFile, fresh, clock, deadline, revokedAll, dead>>
    BY DEF RotateGrace
  <1>2. InStep(proc[p]) /\ proc[p] \in Proc /\ tokens \in [Jtis -> Token]
    BY DEF IInv, RotationInStep, Shapes
  <1>3. i \in proc[p].todo /\ i \in proc[p].snap /\ i \in Jtis
    <2>1. PICK n \in 0..MaxTokens : Jtis = 1..n
      BY DEF IInv, Shapes
    <2>2. proc[p].todo \subseteq Jtis /\ proc[p].todo \subseteq proc[p].snap
      BY <1>2 DEF InStep
    <2>3. n \in Nat /\ 1..n \subseteq 0..n
      BY AgentTokensAssumption
    <2>4. proc[p].todo \in SUBSET (0..n)
      BY <2>1, <2>2, <2>3
    <2>5. i \in proc[p].todo
      BY <1>1, <2>3, <2>4, MaxIsIn
    <2> QED BY <2>2, <2>5
  <1>0. PICK r : r = [proc[p] EXCEPT !.todo = @ \ {i},
                                     !.pc = IF proc[p].todo = {i} THEN "issue" ELSE "grace"]
    OBVIOUS
  <1>4. proc' = [proc EXCEPT ![p] = r]
    BY <1>0 DEF RotateGrace
  <1>5. /\ r \in Proc /\ r.pc \in {"grace", "issue"} /\ r.agent = proc[p].agent
        /\ r.snap = proc[p].snap /\ r.until = proc[p].until /\ r.todo = proc[p].todo \ {i}
        /\ r.key = proc[p].key /\ r.clean = proc[p].clean /\ (r.pc = "issue" => r.todo = {})
    BY <1>0, <1>2 DEF Proc, PCs
  <1>6. proc' \in [Procs -> Proc] /\ proc'[p] = r /\ \A q \in Procs : q # p => proc'[q] = proc[q]
    BY <1>4, <1>5, ProcAfter
  <1>7. proc[p].until \in 0..Never /\ proc[p].until # None
    <2>1. proc[p].until \in 0..(Never - 1)
      BY <1>2 DEF Proc
    <2> QED BY <2>1, Numbers
  <1>8. tokens' = IF tokens[i].revoked THEN tokens ELSE [tokens EXCEPT ![i].grace = proc[p].until]
    BY DEF RotateGrace
  <1>9. tokens' \in [Jtis -> Token]
    BY <1>2, <1>3, <1>7, <1>8 DEF Token
  <1>10. ASSUME NEW j \in Jtis
         PROVE  /\ Kept(j) /\ (tokens'[j].revoked => tokens[j].revoked)
                /\ j # i => tokens'[j] = tokens[j]
    BY <1>2, <1>3, <1>7, <1>8 DEF Kept, Token
  <1>11. tokens'[i].revoked \/ (tokens'[i].grace = proc[p].until /\ tokens'[i].grace # None)
    BY <1>2, <1>3, <1>7, <1>8 DEF Token
  <1>12. /\ Jtis' = Jtis /\ Lifetime' /\ DeadlineMeansGrace'
         /\ \A x : InStep(x) => InStep(x)'
    BY <1>1, <1>9, <1>10, RowsKept
  <1>13. \A q \in Procs : /\ Rotating(q) => Rotating(q)'
                          /\ proc'[q].agent = proc[q].agent /\ proc'[q].snap = proc[q].snap
                          /\ proc'[q].until = proc[q].until
    BY <1>5, <1>6 DEF Rotating
  <1>14. Shapes'
    BY <1>1, <1>6, <1>9, <1>12 DEF IInv, Shapes
  <1>15. RotationInStep'
    <2>1. InStep(r)'
      <3>1. r.todo \subseteq r.snap /\ r.snap \subseteq Jtis' /\ r.snap # {}
        BY <1>1, <1>2, <1>5, <1>12 DEF InStep
      <3>2. \A j \in r.snap : tokens'[j].agent = r.agent
        BY <1>1, <1>2, <1>5, <1>10 DEF InStep, Kept
      <3>3. ASSUME NEW j \in r.snap \ r.todo PROVE tokens'[j].revoked \/ tokens'[j].grace # None
        <4>1. CASE j = i
          BY <1>11, <4>1
        <4>2. CASE j # i
          BY <1>1, <1>2, <1>5, <1>10, <4>2 DEF InStep
        <4> QED BY <4>1, <4>2
      <3> QED BY <1>5, <3>1, <3>2, <3>3 DEF InStep
    <2>2. ASSUME NEW q \in Procs PROVE InStep(proc[q])'
      <3>1. PICK x : x = proc'[q]
        OBVIOUS
      <3>2. InStep(x)'
        BY <1>6, <1>12, <2>1, <3>1 DEF IInv, RotationInStep
      <3> QED BY <3>1, <3>2 DEF InStep
    <2> QED BY <2>2 DEF RotationInStep
  <1>16. ASSUME NEW j \in Jtis PROVE Explained(j)'
    <2>1. CASE j = i
      <3>1. Rotating(p)' /\ i \in proc'[p].snap /\ proc'[p].until = proc[p].until
        BY <1>1, <1>3, <1>13 DEF Rotating
      <3> QED BY <1>11, <2>1, <3>1 DEF Explained
    <2>2. CASE j # i
      BY <1>1, <1>10, <1>13, <2>2 DEF IInv, GraceIsExplained, Explained
    <2> QED BY <2>1, <2>2
  <1>17. ASSUME NEW j \in Jtis PROVE Succeeded(j)'
    <2>1. CASE j = i
      <3>1. Rotating(p)' /\ proc'[p].agent = tokens'[i].agent
        BY <1>1, <1>2, <1>3, <1>10, <1>13 DEF Rotating, InStep, Kept
      <3> QED BY <2>1, <3>1 DEF Succeeded
    <2>2. CASE j # i
      BY <1>1, <1>10, <1>12, <1>13, <2>2 DEF IInv, Succeeded, Kept
    <2> QED BY <2>1, <2>2
  <1>18. RevokedAsWhole'
    BY <1>1, <1>10, <1>12 DEF IInv, RevokedAsWhole, Kept
  <1>19. KeyIsSettled'
    <2>1. ASSUME NEW q \in Procs
          PROVE  /\ proc'[q].clean = proc[q].clean /\ proc'[q].key = proc[q].key
                 /\ proc'[q].pc = "minted" => proc[q].pc = "minted"
                 /\ proc'[q].pc = "replaced" => proc[q].pc = "replaced"
      BY <1>5, <1>6
    <2> QED BY <1>1, <2>1 DEF IInv, KeyIsSettled
  <1> QED BY <1>12, <1>14, <1>15, <1>16, <1>17, <1>18, <1>19 DEF IInv, GraceIsExplained

\* The deadline a finished rotation writes: the later of the two.
Later(d, u) == IF d = Never THEN u ELSE Max({d, u})

\* The later of a deadline and a time bounds both.
LEMMA LaterIsLater ==
  ASSUME NEW d \in 0..Never, NEW u \in 0..(Never - 1)
  PROVE  /\ Later(d, u) \in 0..Never /\ Later(d, u) # Never /\ u <= Later(d, u)
         /\ d # Never => d <= Later(d, u)
  <1>1. Never \in Nat /\ u \in Nat /\ u < Never /\ {d, u} \in SUBSET (0..Never)
    BY Numbers
  <1>2. Max({d, u}) \in {d, u} /\ d <= Max({d, u}) /\ u <= Max({d, u})
    BY <1>1, MaxIsIn
  <1> QED BY <1>1, <1>2 DEF Later

\* A rotation ends with a successor, unless no row is left to take after.
LEMMA RotateIssueOK == ASSUME IInv, NEW p \in Procs, RotateIssue(p) PROVE IInv'
  <1>1. /\ proc[p].pc = "issue" /\ Cardinality(Jtis) < TokenBound
        /\ proc' = [proc EXCEPT ![p] = Free]
        /\ UNCHANGED <<keyFile, fresh, clock, revokedAll, dead>>
    BY DEF RotateIssue
  <1>2. PICK n : n = Cardinality(Jtis)
    OBVIOUS
  <1>3. PICK snap : snap = proc[p].snap
    OBVIOUS
  <1>4. proc[p] \in Proc /\ tokens \in [Jtis -> Token] /\ n \in Nat /\ Jtis = 1..n
    <2>1. n \in 0..MaxTokens /\ Jtis = 1..n
      BY <1>2, Count DEF IInv
    <2>2. n \in Nat
      BY <2>1, AgentTokensAssumption
    <2> QED BY <2>1, <2>2 DEF IInv, Shapes
  <1>5. /\ snap # {} /\ snap \subseteq Jtis /\ \A j \in snap : tokens[j].agent = proc[p].agent
        /\ \A j \in snap : tokens[j].revoked \/ tokens[j].grace # None
    BY <1>1, <1>3 DEF IInv, RotationInStep, InStep
  <1>6. PICK m \in snap : m = Max(snap) /\ Max({m}) = m
    <2>1. 1..n \subseteq 0..n
      BY <1>4
    <2>2. snap \in SUBSET (0..n)
      BY <1>4, <1>5, <2>1
    <2>3. PICK m : m = Max(snap)
      OBVIOUS
    <2>4. m \in snap
      BY <1>4, <1>5, <2>2, <2>3, MaxIsIn
    <2>5. {m} \in SUBSET (0..n) /\ {m} # {}
      BY <2>2, <2>4
    <2>6. Max({m}) \in {m}
      BY <1>4, <2>5, MaxIsIn
    <2> QED BY <2>3, <2>4, <2>6
  <1>7. PICK r : r = [agent |-> tokens[m].agent, aud |-> tokens[m].aud, iat |-> proc[p].moment,
                      exp |-> proc[p].moment + (tokens[m].exp - tokens[m].iat),
                      revoked |-> FALSE, grace |-> None, key |-> proc[p].key]
    OBVIOUS
  <1>8. Young(r) /\ r.agent = proc[p].agent
    <2>1. tokens[m] \in Token /\ m \in Jtis
      BY <1>4, <1>5
    <2>2. tokens[m].iat < tokens[m].exp /\ tokens[m].exp <= tokens[m].iat + MaxTTL
      BY <2>1 DEF IInv, Lifetime
    <2>3. tokens[m].iat \in Nat /\ tokens[m].exp \in Nat /\ proc[p].moment \in Nat /\ MaxTTL \in Nat
      BY <1>4, <2>1, AgentTokensAssumption DEF Token, Proc
    <2>4. PICK e : e = proc[p].moment + (tokens[m].exp - tokens[m].iat)
      OBVIOUS
    <2>5. e \in Nat /\ proc[p].moment < e /\ e <= proc[p].moment + MaxTTL
      BY <2>2, <2>3, <2>4
    <2>6. None \in 0..Never
      BY Numbers
    <2>7. tokens[m].agent \in Agents /\ tokens[m].aud \in Nodes /\ proc[p].key \in Keys
      BY <1>4, <2>1 DEF Token, Proc
    <2>8. r \in Token
      BY <1>7, <2>3, <2>4, <2>5, <2>6, <2>7 DEF Token
    <2> QED BY <1>5, <1>6, <1>7, <2>4, <2>5, <2>8 DEF Young
  <1>9. tokens' = [k \in Jtis \cup {n + 1} |-> IF k # n + 1 THEN tokens[k] ELSE r]
    <2>1. 1 + n = n + 1
      BY <1>4
    <2>2. Successors(p) = {m} /\ Successors(p) # {}
      BY <1>3, <1>6 DEF Successors
    <2>3. tokens' = Registered(p, tokens[m].agent, tokens[m].aud, proc[p].moment,
                               tokens[m].exp - tokens[m].iat)
      BY <1>6, <2>2 DEF RotateIssue
    <2> QED BY <1>2, <1>7, <2>1, <2>3 DEF Registered
  <1>10. /\ n \in Nat /\ n + 1 \notin Jtis /\ n + 1 \in 1..MaxTokens
         /\ tokens' \in [Jtis' -> Token] /\ (\E x \in 0..MaxTokens : Jtis' = 1..x)
         /\ Jtis' = Jtis \cup {n + 1} /\ tokens'[n + 1] = r
         /\ \A j \in Jtis : j < n + 1 /\ tokens'[j] = tokens[j]
         /\ Lifetime' /\ RevokedAsWhole'
    BY <1>1, <1>2, <1>8, <1>9, Grown
  <1>11. proc' \in [Procs -> Proc] /\ proc'[p] = Free /\ \A q \in Procs : q # p => proc'[q] = proc[q]
    BY <1>1, FreeIsProc, ProcAfter
  <1>12. \A q \in Procs : q # p /\ Rotating(q) => Rotating(q)' /\ proc'[q] = proc[q]
    BY <1>11 DEF Rotating
  <1>13. PICK u \in 0..(Never - 1) : u = proc[p].until
    BY <1>4 DEF Proc
  <1>14. deadline' = [j \in 1..MaxTokens |-> IF j \notin snap THEN deadline[j] ELSE Later(deadline[j], u)]
    BY <1>3, <1>13 DEF RotateIssue, Later
  <1>15. ASSUME NEW j \in 1..MaxTokens
         PROVE  /\ deadline'[j] \in 0..Never
                /\ j \notin snap => deadline'[j] = deadline[j]
                /\ j \in snap => deadline'[j] # Never /\ u <= deadline'[j]
                /\ deadline[j] # Never => deadline'[j] # Never /\ deadline[j] <= deadline'[j]
    <2>1. deadline[j] \in 0..Never /\ Never \in Nat
      BY Numbers DEF IInv, Shapes
    <2>2. deadline[j] <= deadline[j]
      BY <2>1
    <2>3. /\ Later(deadline[j], u) \in 0..Never /\ Later(deadline[j], u) # Never
          /\ u <= Later(deadline[j], u)
          /\ deadline[j] # Never => deadline[j] <= Later(deadline[j], u)
      BY <2>1, LaterIsLater
    <2>4. deadline'[j] = IF j \notin snap THEN deadline[j] ELSE Later(deadline[j], u)
      BY <1>14
    <2> QED BY <2>1, <2>2, <2>3, <2>4, Zenon
  <1>16. Shapes'
    <2>1. deadline' \in [1..MaxTokens -> 0..Never]
      BY <1>14, <1>15
    <2> QED BY <1>1, <1>10, <1>11, <2>1 DEF IInv, Shapes
  <1>17. RotationInStep'
    BY <1>10, <1>11, OthersInStep
  <1>18. GraceIsExplained'
    <2>1. ASSUME NEW j \in Jtis PROVE Explained(j)'
      <3>1. j \in 1..MaxTokens /\ tokens'[j] = tokens[j]
        BY <1>10, AgentTokensAssumption DEF IInv, Shapes
      <3>2. CASE \E q \in Procs : q # p /\ Rotating(q) /\ j \in proc[q].snap /\ tokens[j].grace = proc[q].until
        BY <1>12, <3>1, <3>2 DEF Explained
      <3>3. CASE j \in snap /\ tokens[j].grace = u
        BY <1>15, <3>1, <3>3 DEF Explained
      <3>4. CASE deadline[j] # Never /\ tokens[j].grace <= deadline[j]
        <4>1. deadline'[j] # Never /\ deadline[j] <= deadline'[j]
          BY <1>15, <3>1, <3>4
        <4>2. deadline[j] \in 0..Never /\ deadline'[j] \in 0..Never /\ tokens[j].grace \in 0..Never
          BY <1>4, <1>15, <3>1 DEF IInv, Shapes, Token
        <4>3. tokens[j].grace <= deadline'[j]
          BY <3>4, <4>1, <4>2, Numbers
        <4> QED BY <3>1, <4>1, <4>3 DEF Explained
      <3>5. CASE tokens[j].revoked \/ tokens[j].grace = None \/ tokens[j].agent \in dead
        BY <1>1, <3>1, <3>5 DEF Explained
      <3> QED BY <1>3, <1>13, <3>2, <3>3, <3>4, <3>5 DEF IInv, GraceIsExplained, Explained
    <2>2. Explained(n + 1)'
      BY <1>8, <1>10 DEF Young, Explained
    <2> QED BY <1>10, <2>1, <2>2 DEF GraceIsExplained
  <1>19. DeadlineMeansGrace'
    <2>1. ASSUME NEW j \in 1..MaxTokens, deadline'[j] # Never
          PROVE  j \in Jtis /\ (tokens[j].revoked \/ tokens[j].grace # None)
      BY <1>5, <1>15, <2>1 DEF IInv, DeadlineMeansGrace
    <2> QED BY <1>10, <2>1 DEF DeadlineMeansGrace
  <1>20. \A j \in Jtis' : Succeeded(j)'
    <2>1. ASSUME NEW j \in Jtis PROVE Succeeded(j)'
      <3>1. CASE proc[p].agent = tokens[j].agent
        <4>1. n + 1 > j /\ n + 1 \in Jtis' /\ tokens'[n + 1].agent = tokens'[j].agent
          BY <1>4, <1>8, <1>10, <3>1
        <4> QED BY <4>1 DEF Succeeded
      <3>2. CASE proc[p].agent # tokens[j].agent
        BY <1>1, <1>10, <1>12, <3>2 DEF IInv, Succeeded
      <3> QED BY <3>1, <3>2
    <2>2. Succeeded(n + 1)'
      BY <1>8, <1>10 DEF Young, Succeeded
    <2> QED BY <1>10, <2>1, <2>2
  <1>21. KeyIsSettled'
    BY <1>1, FreedKeys
  <1> QED BY <1>10, <1>16, <1>17, <1>18, <1>19, <1>20, <1>21 DEF IInv

-----------------------------------------------------------------------------
\* As time passes, ends and deadlines stay where they are.
LEMMA TickOK == ASSUME IInv, Tick PROVE IInv'
  <1>1. clock' = clock + 1 /\ clock < MaxTime /\ Jtis' = Jtis
        /\ UNCHANGED <<keyFile, fresh, proc, tokens, deadline, revokedAll, dead>>
    BY DEF Tick, Jtis
  <1>2. clock \in 0..MaxTime /\ MaxTime \in Nat
    BY AgentTokensAssumption DEF IInv, Shapes
  <1>3. clock' \in 0..MaxTime
    BY <1>1, <1>2
  <1>4. Shapes'
    BY <1>1, <1>3 DEF IInv, Shapes
  <1>5. Lifetime' /\ DeadlineMeansGrace' /\ RevokedAsWhole' /\ KeyIsSettled' /\ RotationInStep'
    BY <1>1 DEF IInv, Lifetime, DeadlineMeansGrace, RevokedAsWhole, KeyIsSettled, RotationInStep,
                InStep
  <1>6. GraceIsExplained' /\ \A j \in Jtis' : Succeeded(j)'
    BY <1>1 DEF IInv, GraceIsExplained, Explained, Succeeded, Rotating
  <1> QED BY <1>4, <1>5, <1>6 DEF IInv

\* A crash ends an operation between two statements, and the rows stay.
LEMMA CrashOK == ASSUME IInv, NEW p \in Procs, Crash(p) PROVE IInv'
  <1>1. /\ proc' = [proc EXCEPT ![p] = Free] /\ dead \subseteq dead'
        /\ Rotating(p) => proc[p].agent \in dead'
        /\ UNCHANGED <<keyFile, fresh, tokens, clock, deadline, revokedAll>>
    BY DEF Crash, Rotating
  <1>2. Jtis' = Jtis
    BY <1>1 DEF Jtis
  <1>3. proc' \in [Procs -> Proc] /\ proc'[p] = Free /\ \A q \in Procs : q # p => proc'[q] = proc[q]
    BY <1>1, FreeIsProc, ProcAfter
  <1>4. \A q \in Procs : q # p /\ Rotating(q) => Rotating(q)' /\ proc'[q] = proc[q]
    BY <1>3 DEF Rotating
  <1>5. Shapes'
    BY <1>1, <1>2, <1>3 DEF IInv, Shapes
  <1>6. Lifetime' /\ DeadlineMeansGrace' /\ RevokedAsWhole'
    BY <1>1, <1>2 DEF IInv, Lifetime, DeadlineMeansGrace, RevokedAsWhole
  <1>7. RotationInStep'
    BY <1>1, <1>2, <1>3, OthersInStep
  <1>8. ASSUME NEW j \in Jtis PROVE Explained(j)'
    <2>1. CASE Rotating(p) /\ j \in proc[p].snap
      <3>1. tokens'[j].agent \in dead'
        BY <1>1, <2>1 DEF IInv, RotationInStep, InStep, Rotating
      <3> QED BY <3>1 DEF Explained
    <2>2. CASE ~(Rotating(p) /\ j \in proc[p].snap)
      BY <1>1, <1>4, <2>2 DEF IInv, GraceIsExplained, Explained
    <2> QED BY <2>1, <2>2
  <1>9. ASSUME NEW j \in Jtis PROVE Succeeded(j)'
    BY <1>1, <1>2, <1>4 DEF IInv, Succeeded
  <1>10. KeyIsSettled'
    BY <1>1, FreedKeys
  <1> QED BY <1>2, <1>5, <1>6, <1>7, <1>8, <1>9, <1>10 DEF IInv, GraceIsExplained

\* Every step of the token service keeps the invariant.
LEMMA StepOK == ASSUME IInv, [Next]_tvars PROVE IInv'
  <1>1. CASE UNCHANGED tvars
    <2>1. Jtis' = Jtis /\ UNCHANGED <<keyFile, fresh, proc, tokens, clock, deadline, revokedAll, dead>>
      BY <1>1 DEF tvars, Jtis
    <2> QED BY <2>1 DEF IInv, Shapes, Lifetime, DeadlineMeansGrace, RevokedAsWhole, KeyIsSettled,
                        RotationInStep, InStep, GraceIsExplained, Explained, Succeeded, Rotating
  <1>2. ASSUME NEW p \in Procs, OpenKey(p) \/ ReplaceKey(p) \/ LoadKey(p) \/ RotateIssue(p) \/ Crash(p)
        PROVE  IInv'
    BY <1>2, OpenOK, ReplaceOK, LoadOK, RotateIssueOK, CrashOK
  <1>3. ASSUME NEW p \in Procs, NEW a \in Agents, NEW d \in Nodes, NEW ttl \in Lifetimes,
               Issue(p, a, d, ttl)
        PROVE  IInv'
    BY <1>3, IssueOK
  <1>4. ASSUME NEW p \in Procs, NEW a \in Agents, NEW g \in Grace, RotateRead(p, a, g) PROVE IInv'
    BY <1>4, RotateReadOK
  <1>5. ASSUME NEW p \in Procs, NEW j \in 1..MaxTokens, RotateGrace(p, j) PROVE IInv'
    BY <1>5, RotateGraceOK
  <1>6. ASSUME NEW j \in 1..MaxTokens, RevokeJti(j) PROVE IInv'
    BY <1>6, RevokeJtiOK
  <1>7. ASSUME NEW a \in Agents, RevokeAgent(a) PROVE IInv'
    BY <1>7, RevokeAgentOK
  <1>8. CASE Tick
    BY <1>8, TickOK
  <1> QED BY <1>1, <1>2, <1>3, <1>4, <1>5, <1>6, <1>7, <1>8 DEF Next

\* For any processes, agents, lifetimes and graces: a token a finished rotation
\* found live ends with its grace window, nothing of what a revoked agent held is
\* usable, a graced token has a successor or an unfinished rotation, and processes
\* that opened the key while none was minting hold the same one
\* (rotate_agent_token, revoke, load_or_create_signing_key).
THEOREM TokenSafety == Spec => []TokensSafe
  <1>1. Init => IInv
    BY InitOK
  <1>2. IInv /\ [Next]_tvars => IInv'
    BY StepOK
  <1>3. IInv => TokensSafe
    BY Promises
  <1> QED BY <1>1, <1>2, <1>3, PTL DEF Spec

-----------------------------------------------------------------------------
(* The REST logins: any tokens, thresholds and windows.  OncePerStep needs *)
(* that a verification of the current step is remembered.                  *)


RestChallenge == [expires : Nat, attempts : Nat]

RestShapes ==
  /\ challenge \in [Tokens -> RestChallenge]
  /\ logins \in [Tokens -> SUBSET Rest!Session]
  /\ verified \in [Tokens -> Nat]

\* A verification counted for this step is remembered as the last step used.
RestStepRemembered ==
  \A t \in Tokens : verified[t] > 0 => lastStep[t] # Rest!None /\ now <= lastStep[t]

RestIInv == Rest!LoginsSafe /\ RestShapes /\ RestStepRemembered

-----------------------------------------------------------------------------
\* The state of one token, for the steps that change one token only.
RestFine(t) ==
  /\ disabled[t] \in 0..Rest!None /\ lastStep[t] \in 0..Rest!None
  /\ fail[t] \in 0..MaxFailures /\ totpFail[t] \in 0..MaxFailures
  /\ challenge[t] \in RestChallenge /\ challenge[t].attempts < MaxAttempts
  /\ logins[t] \subseteq Rest!Session
  /\ verified[t] \in Nat /\ verified[t] <= 1
  /\ disabled[t] = Rest!None => fail[t] < LoginThreshold /\ totpFail[t] < TotpThreshold
  /\ \A s \in logins[t] : s.expires <= s.created + SessionCap
  /\ verified[t] > 0 => lastStep[t] # Rest!None /\ now <= lastStep[t]

RestFunctions ==
  /\ disabled = [t \in Tokens |-> disabled[t]] /\ lastStep = [t \in Tokens |-> lastStep[t]]
  /\ fail = [t \in Tokens |-> fail[t]] /\ totpFail = [t \in Tokens |-> totpFail[t]]
  /\ challenge = [t \in Tokens |-> challenge[t]] /\ logins = [t \in Tokens |-> logins[t]]
  /\ verified = [t \in Tokens |-> verified[t]]

RestTokenwise ==
  /\ enrolled \subseteq Tokens /\ revoked \subseteq Tokens /\ now \in 0..MaxLoginTime
  /\ RestFunctions /\ \A t \in Tokens : RestFine(t)

\* The invariant, token by token.
LEMMA RestByToken == RestIInv <=> RestTokenwise
  <1>1. ASSUME RestIInv PROVE RestFunctions
    BY <1>1 DEF RestIInv, Rest!LoginsSafe, Rest!TypeOK, RestShapes, RestFunctions
  <1>2. ASSUME RestIInv, NEW t \in Tokens PROVE RestFine(t)
    BY <1>2 DEF RestIInv, Rest!LoginsSafe, Rest!TypeOK, RestShapes, RestFine, Rest!ThresholdLocks,
                Rest!OncePerStep,
                Rest!SessionCapped, RestStepRemembered
  <1>3. ASSUME enrolled \subseteq Tokens, revoked \subseteq Tokens, now \in 0..MaxLoginTime,
               RestFunctions, \A t \in Tokens : RestFine(t)
        PROVE  RestIInv
    <2>1. Rest!TypeOK
      BY <1>3 DEF Rest!TypeOK, RestFunctions, RestFine
    <2>2. RestShapes
      BY <1>3 DEF RestShapes, RestFunctions, RestFine
    <2>3. Rest!ThresholdLocks /\ Rest!OncePerStep /\ Rest!SessionCapped /\ RestStepRemembered
      BY <1>3 DEF RestFine, Rest!ThresholdLocks, Rest!OncePerStep, Rest!SessionCapped,
                  RestStepRemembered
    <2> QED BY <2>1, <2>2, <2>3 DEF RestIInv, Rest!LoginsSafe
  <1>4. RestIInv => enrolled \subseteq Tokens /\ revoked \subseteq Tokens /\ now \in 0..MaxLoginTime
    BY DEF RestIInv, Rest!LoginsSafe, Rest!TypeOK
  <1> QED BY <1>1, <1>2, <1>3, <1>4 DEF RestTokenwise

-----------------------------------------------------------------------------
\* No token is tried, locked or open at the start.
LEMMA RestInitOK == ASSUME Rest!LimitsOK, Rest!Init PROVE RestIInv
  <1>1. RestFunctions
    BY DEF Rest!Init, RestFunctions
  <1>2. ASSUME NEW t \in Tokens PROVE RestFine(t)
    BY <1>2 DEF Rest!Init, Rest!LimitsOK, RestFine, Rest!NoChallenge, Rest!None, RestChallenge
  <1>3. enrolled \subseteq Tokens /\ revoked \subseteq Tokens /\ now \in 0..MaxLoginTime
    BY DEF Rest!Init, Rest!LimitsOK
  <1> QED BY <1>1, <1>2, <1>3, RestByToken DEF RestTokenwise

\* A step that changes the columns of one token at most.
RestOthers(t) ==
  \A u \in Tokens : u # t =>
    /\ disabled'[u] = disabled[u] /\ lastStep'[u] = lastStep[u]
    /\ fail'[u] = fail[u] /\ totpFail'[u] = totpFail[u]
    /\ challenge'[u] = challenge[u] /\ logins'[u] = logins[u]
    /\ verified'[u] = verified[u]

\* A step that changes one token keeps the invariant if it keeps it for that one.
LEMMA RestOneToken ==
  ASSUME RestIInv, NEW t \in Tokens, RestFunctions', RestOthers(t), RestFine(t)', now' = now,
         enrolled' \subseteq Tokens, revoked' \subseteq Tokens
  PROVE  RestIInv'
  <1>1. \A u \in Tokens : RestFine(u)
    BY RestByToken DEF RestTokenwise
  <1>2. ASSUME NEW u \in Tokens PROVE RestFine(u)'
    BY <1>1 DEF RestOthers, RestFine
  <1>3. now' \in 0..MaxLoginTime
    BY RestByToken DEF RestTokenwise
  <1>4. RestTokenwise'
    BY <1>2, <1>3 DEF RestTokenwise
  <1>5. RestTokenwise' => RestIInv'
    BY RestByToken, PTL
  <1> QED BY <1>4, <1>5

-----------------------------------------------------------------------------
\* What changing one token's entry does to a column.
LEMMA RestChanged ==
  ASSUME NEW f, f = [u \in Tokens |-> f[u]], NEW g, NEW t \in Tokens, NEW v,
         g = [f EXCEPT ![t] = v]
  PROVE  g = [u \in Tokens |-> g[u]] /\ g[t] = v /\ \A u \in Tokens : u # t => g[u] = f[u]
  OBVIOUS

\* The counters and the lock after a failure or a check, for one token.
LEMMA RestCountersOK ==
  ASSUME Rest!LimitsOK, RestIInv,
         NEW t \in Tokens, Rest!LoginFailure(t) \/ Rest!TotpFailure(t) \/ Rest!ClearIfDue(t)
  PROVE  /\ disabled' = [u \in Tokens |-> disabled'[u]]
         /\ fail' = [u \in Tokens |-> fail'[u]] /\ totpFail' = [u \in Tokens |-> totpFail'[u]]
         /\ \A u \in Tokens : u # t =>
              disabled'[u] = disabled[u] /\ fail'[u] = fail[u] /\ totpFail'[u] = totpFail[u]
         /\ disabled'[t] \in 0..Rest!None
         /\ fail'[t] \in 0..MaxFailures /\ totpFail'[t] \in 0..MaxFailures
         /\ disabled'[t] = Rest!None => fail'[t] < LoginThreshold /\ totpFail'[t] < TotpThreshold
         /\ Rest!Locked(t) => disabled'[t] # Rest!None
  <1>1. RestFunctions /\ RestFine(t) /\ now \in 0..MaxLoginTime
    BY RestByToken DEF RestTokenwise
  <1>2. now # Rest!None /\ now \in 0..Rest!None /\ Rest!None \in 0..Rest!None
    BY <1>1 DEF Rest!None, Rest!LimitsOK
  <1> DEFINE f == Rest!ClearedCount(t, fail[t])
             g == Rest!ClearedCount(t, totpFail[t])
             d == Rest!ClearedLock(t)
  <1>3. /\ f \in 0..MaxFailures /\ f <= fail[t] /\ g \in 0..MaxFailures /\ g <= totpFail[t]
        /\ d \in 0..Rest!None /\ (Rest!Locked(t) => d # Rest!None)
        /\ d = Rest!None => f < LoginThreshold /\ g < TotpThreshold
    BY <1>1, <1>2 DEF Rest!ClearedCount, Rest!ClearedLock, Rest!Clears, Rest!Locked, RestFine,
                      Rest!LimitsOK
  <1> HIDE DEF f, g, d
  <1>4. CASE Rest!LoginFailure(t)
    <2>1. /\ fail[t] < MaxFailures
          /\ fail' = [fail EXCEPT ![t] = f + 1] /\ totpFail' = [totpFail EXCEPT ![t] = g]
          /\ disabled' = [disabled EXCEPT ![t] = IF f + 1 >= LoginThreshold THEN now ELSE d]
      BY <1>4 DEF Rest!LoginFailure, f, g, d
    <2>2. /\ fail' = [u \in Tokens |-> fail'[u]] /\ fail'[t] = f + 1
          /\ \A u \in Tokens : u # t => fail'[u] = fail[u]
      BY <1>1, <2>1, RestChanged DEF RestFunctions
    <2>3. /\ totpFail' = [u \in Tokens |-> totpFail'[u]] /\ totpFail'[t] = g
          /\ \A u \in Tokens : u # t => totpFail'[u] = totpFail[u]
      BY <1>1, <2>1, RestChanged DEF RestFunctions
    <2>4. /\ disabled' = [u \in Tokens |-> disabled'[u]] /\ disabled'[t] = (IF f + 1 >= LoginThreshold THEN now ELSE d)
          /\ \A u \in Tokens : u # t => disabled'[u] = disabled[u]
      BY <1>1, <2>1, RestChanged DEF RestFunctions
    <2> QED BY <1>1, <1>2, <1>3, <2>1, <2>2, <2>3, <2>4 DEF RestFine, Rest!LimitsOK
  <1>5. CASE Rest!TotpFailure(t)
    <2>1. /\ totpFail[t] < MaxFailures
          /\ totpFail' = [totpFail EXCEPT ![t] = g + 1] /\ fail' = [fail EXCEPT ![t] = f]
          /\ disabled' = [disabled EXCEPT ![t] = IF g + 1 >= TotpThreshold THEN now ELSE d]
      BY <1>5 DEF Rest!TotpFailure, f, g, d
    <2>2. /\ fail' = [u \in Tokens |-> fail'[u]] /\ fail'[t] = f
          /\ \A u \in Tokens : u # t => fail'[u] = fail[u]
      BY <1>1, <2>1, RestChanged DEF RestFunctions
    <2>3. /\ totpFail' = [u \in Tokens |-> totpFail'[u]] /\ totpFail'[t] = g + 1
          /\ \A u \in Tokens : u # t => totpFail'[u] = totpFail[u]
      BY <1>1, <2>1, RestChanged DEF RestFunctions
    <2>4. /\ disabled' = [u \in Tokens |-> disabled'[u]] /\ disabled'[t] = (IF g + 1 >= TotpThreshold THEN now ELSE d)
          /\ \A u \in Tokens : u # t => disabled'[u] = disabled[u]
      BY <1>1, <2>1, RestChanged DEF RestFunctions
    <2> QED BY <1>1, <1>2, <1>3, <2>1, <2>2, <2>3, <2>4 DEF RestFine, Rest!LimitsOK
  <1>6. CASE Rest!ClearIfDue(t)
    <2>1. /\ totpFail' = [totpFail EXCEPT ![t] = g] /\ fail' = [fail EXCEPT ![t] = f]
          /\ disabled' = [disabled EXCEPT ![t] = d]
      BY <1>6 DEF Rest!ClearIfDue, f, g, d
    <2>2. /\ fail' = [u \in Tokens |-> fail'[u]] /\ fail'[t] = f
          /\ \A u \in Tokens : u # t => fail'[u] = fail[u]
      BY <1>1, <2>1, RestChanged DEF RestFunctions
    <2>3. /\ totpFail' = [u \in Tokens |-> totpFail'[u]] /\ totpFail'[t] = g
          /\ \A u \in Tokens : u # t => totpFail'[u] = totpFail[u]
      BY <1>1, <2>1, RestChanged DEF RestFunctions
    <2>4. /\ disabled' = [u \in Tokens |-> disabled'[u]] /\ disabled'[t] = d
          /\ \A u \in Tokens : u # t => disabled'[u] = disabled[u]
      BY <1>1, <2>1, RestChanged DEF RestFunctions
    <2> QED BY <1>1, <1>2, <1>3, <2>1, <2>2, <2>3, <2>4 DEF RestFine, Rest!LimitsOK
  <1> QED BY <1>4, <1>5, <1>6

\* A fresh session is within its cap.
LEMMA RestOpenOK ==
  ASSUME Rest!LimitsOK, RestIInv, NEW t \in Tokens, Rest!OpenSession(t)
  PROVE  /\ disabled' = [u \in Tokens |-> disabled'[u]]
         /\ fail' = [u \in Tokens |-> fail'[u]] /\ totpFail' = [u \in Tokens |-> totpFail'[u]]
         /\ logins' = [u \in Tokens |-> logins'[u]]
         /\ \A u \in Tokens : u # t =>
              /\ disabled'[u] = disabled[u] /\ fail'[u] = fail[u]
              /\ totpFail'[u] = totpFail[u] /\ logins'[u] = logins[u]
         /\ disabled'[t] \in 0..Rest!None
         /\ fail'[t] \in 0..MaxFailures /\ totpFail'[t] \in 0..MaxFailures
         /\ fail'[t] < LoginThreshold /\ totpFail'[t] < TotpThreshold
         /\ logins'[t] \subseteq Rest!Session
         /\ \A s \in logins'[t] : s.expires <= s.created + SessionCap
  <1>1. RestFunctions /\ RestFine(t) /\ now \in 0..MaxLoginTime
    BY RestByToken DEF RestTokenwise
  <1> DEFINE s0 == [created |-> now, expires |-> now + SessionTicks]
  <1>2. s0 \in Rest!Session /\ s0.expires <= s0.created + SessionCap
    BY <1>1 DEF Rest!Session, Rest!LimitsOK
  <1>3. Rest!ClearedLock(t) \in 0..Rest!None
    BY <1>1 DEF Rest!ClearedLock, RestFine, Rest!None, Rest!LimitsOK
  <1>4. /\ logins' = [logins EXCEPT ![t] = logins[t] \cup {s0}]
        /\ fail' = [fail EXCEPT ![t] = 0] /\ totpFail' = [totpFail EXCEPT ![t] = 0]
        /\ disabled' = [disabled EXCEPT ![t] = Rest!ClearedLock(t)]
    BY DEF Rest!OpenSession
  <1> HIDE DEF s0
  <1>5. /\ logins' = [u \in Tokens |-> logins'[u]] /\ logins'[t] = logins[t] \cup {s0}
        /\ \A u \in Tokens : u # t => logins'[u] = logins[u]
    BY <1>1, <1>4, RestChanged DEF RestFunctions
  <1>6. logins'[t] \subseteq Rest!Session /\ \A s \in logins'[t] : s.expires <= s.created + SessionCap
    BY <1>1, <1>2, <1>5 DEF RestFine
  <1>7. /\ fail' = [u \in Tokens |-> fail'[u]] /\ fail'[t] = 0
        /\ \A u \in Tokens : u # t => fail'[u] = fail[u]
    BY <1>1, <1>4, RestChanged DEF RestFunctions
  <1>8. /\ totpFail' = [u \in Tokens |-> totpFail'[u]] /\ totpFail'[t] = 0
        /\ \A u \in Tokens : u # t => totpFail'[u] = totpFail[u]
    BY <1>1, <1>4, RestChanged DEF RestFunctions
  <1>9. /\ disabled' = [u \in Tokens |-> disabled'[u]] /\ disabled'[t] = Rest!ClearedLock(t)
        /\ \A u \in Tokens : u # t => disabled'[u] = disabled[u]
    BY <1>1, <1>4, RestChanged DEF RestFunctions
  <1> QED BY <1>3, <1>5, <1>6, <1>7, <1>8, <1>9 DEF Rest!LimitsOK

-----------------------------------------------------------------------------
\* One token's step keeps everything that is said of it.
LEMMA RestLoginOK ==
  ASSUME Rest!LimitsOK, RestIInv, NEW t \in Tokens, Rest!Login(t) PROVE RestIInv'
  <1>1. RestTokenwise /\ RestFunctions /\ RestFine(t)
    BY RestByToken DEF RestTokenwise
  <1>2. /\ enrolled' = enrolled /\ revoked' = revoked /\ lastStep' = lastStep
        /\ verified' = verified /\ now' = now
    BY DEF Rest!Login
  <1>3. CASE ~Rest!is_token_active(t)
    <2>1. Rest!LoginFailure(t) /\ challenge' = challenge /\ logins' = logins
      BY <1>3 DEF Rest!Login
    <2>2. RestFunctions' /\ RestOthers(t)
      BY <1>1, <1>2, <2>1, RestCountersOK DEF RestFunctions, RestOthers
    <2>3. RestFine(t)'
      BY <1>1, <1>2, <2>1, RestCountersOK DEF RestFine
    <2> QED BY <1>1, <1>2, <2>2, <2>3, RestOneToken DEF RestTokenwise
  <1>4. CASE Rest!is_token_active(t) /\ t \in enrolled
    <2>1. /\ Rest!ClearIfDue(t) /\ logins' = logins
          /\ challenge' = [challenge EXCEPT ![t] = Rest!create_challenge]
      BY <1>4 DEF Rest!Login
    <2>2. /\ challenge' = [u \in Tokens |-> challenge'[u]] /\ challenge'[t] = Rest!create_challenge
          /\ \A u \in Tokens : u # t => challenge'[u] = challenge[u]
      BY <1>1, <2>1, RestChanged DEF RestFunctions
    <2>3. Rest!create_challenge \in RestChallenge /\ Rest!create_challenge.attempts < MaxAttempts
      BY <1>1 DEF Rest!create_challenge, RestChallenge, Rest!LimitsOK, RestTokenwise
    <2>4. RestFunctions' /\ RestOthers(t)
      BY <1>1, <1>2, <2>1, <2>2, RestCountersOK DEF RestFunctions, RestOthers
    <2>5. RestFine(t)'
      BY <1>1, <1>2, <2>1, <2>2, <2>3, RestCountersOK DEF RestFine
    <2> QED BY <1>1, <1>2, <2>4, <2>5, RestOneToken DEF RestTokenwise
  <1>5. CASE Rest!is_token_active(t) /\ t \notin enrolled
    <2>1. Rest!OpenSession(t) /\ challenge' = challenge
      BY <1>5 DEF Rest!Login
    <2>2. RestFunctions' /\ RestOthers(t)
      BY <1>1, <1>2, <2>1, RestOpenOK DEF RestFunctions, RestOthers
    <2>3. RestFine(t)'
      BY <1>1, <1>2, <2>1, RestOpenOK DEF RestFine
    <2> QED BY <1>1, <1>2, <2>2, <2>3, RestOneToken DEF RestTokenwise
  <1> QED BY <1>3, <1>4, <1>5

\* The challenge that is left after a verification.
LEMMA RestChallengeOK ==
  ASSUME Rest!LimitsOK, RestIInv, NEW t \in Tokens
  PROVE  /\ Rest!NoChallenge \in RestChallenge /\ Rest!NoChallenge.attempts < MaxAttempts
         /\ Rest!AttemptUsed(challenge[t]) \in RestChallenge
         /\ Rest!AttemptUsed(challenge[t]).attempts < MaxAttempts
  <1>1. challenge[t] \in RestChallenge
    BY RestByToken DEF RestTokenwise, RestFine
  <1>2. Rest!NoChallenge \in RestChallenge /\ Rest!NoChallenge.attempts < MaxAttempts
    BY DEF Rest!NoChallenge, RestChallenge, Rest!None, Rest!LimitsOK
  <1> QED BY <1>1, <1>2 DEF Rest!AttemptUsed, RestChallenge, Rest!LimitsOK

\* A verification resets the count of a good token and raises that of a bad one.
LEMMA RestVerifyOK ==
  ASSUME Rest!LimitsOK, RestIInv, NEW t \in Tokens, Rest!Verify(t) PROVE RestIInv'
  <1>1. RestTokenwise /\ RestFunctions /\ RestFine(t) /\ now \in 0..MaxLoginTime
    BY RestByToken DEF RestTokenwise
  <1>2. enrolled' = enrolled /\ revoked' = revoked /\ now' = now
    BY DEF Rest!Verify
  <1>3. CASE ~Rest!is_token_active(t)
    <2>1. /\ challenge' = [challenge EXCEPT ![t] = Rest!NoChallenge]
          /\ UNCHANGED <<fail, totpFail, disabled, lastStep, logins, verified>>
      BY <1>3 DEF Rest!Verify
    <2>2. /\ challenge' = [u \in Tokens |-> challenge'[u]] /\ challenge'[t] = Rest!NoChallenge
          /\ \A u \in Tokens : u # t => challenge'[u] = challenge[u]
      BY <1>1, <2>1, RestChanged DEF RestFunctions
    <2>3. RestFunctions' /\ RestOthers(t)
      BY <1>1, <2>1, <2>2 DEF RestFunctions, RestOthers
    <2>4. RestFine(t)'
      BY <1>1, <1>2, <2>1, <2>2, RestChallengeOK DEF RestFine
    <2> QED BY <1>1, <1>2, <2>3, <2>4, RestOneToken DEF RestTokenwise
  <1>4. CASE Rest!is_token_active(t) /\ t \notin enrolled
    <2>1. Rest!ClearIfDue(t) /\ UNCHANGED <<challenge, lastStep, logins, verified>>
      BY <1>4 DEF Rest!Verify
    <2>2. RestFunctions' /\ RestOthers(t)
      BY <1>1, <2>1, RestCountersOK DEF RestFunctions, RestOthers
    <2>3. RestFine(t)'
      BY <1>1, <1>2, <2>1, RestCountersOK DEF RestFine
    <2> QED BY <1>1, <1>2, <2>2, <2>3, RestOneToken DEF RestTokenwise
  <1>5. CASE Rest!WrongCode(t)
    <2>1. /\ challenge' = [challenge EXCEPT ![t] = Rest!AttemptUsed(challenge[t])]
          /\ Rest!TotpFailure(t) /\ UNCHANGED <<lastStep, logins, verified>>
      BY <1>5 DEF Rest!WrongCode
    <2>2. /\ challenge' = [u \in Tokens |-> challenge'[u]]
          /\ challenge'[t] = Rest!AttemptUsed(challenge[t])
          /\ \A u \in Tokens : u # t => challenge'[u] = challenge[u]
      BY <1>1, <2>1, RestChanged DEF RestFunctions
    <2>3. RestFunctions' /\ RestOthers(t)
      BY <1>1, <2>1, <2>2, RestCountersOK DEF RestFunctions, RestOthers
    <2>4. RestFine(t)'
      BY <1>1, <1>2, <2>1, <2>2, RestCountersOK, RestChallengeOK DEF RestFine
    <2> QED BY <1>1, <1>2, <2>3, <2>4, RestOneToken DEF RestTokenwise
  <1>6. CASE Rest!RightCode(t) /\ Rest!StepUsed(t)
    <2>1. Rest!TotpFailure(t) /\ UNCHANGED <<challenge, lastStep, logins, verified>>
      BY <1>6 DEF Rest!RightCode
    <2>2. RestFunctions' /\ RestOthers(t)
      BY <1>1, <2>1, RestCountersOK DEF RestFunctions, RestOthers
    <2>3. RestFine(t)'
      BY <1>1, <1>2, <2>1, RestCountersOK DEF RestFine
    <2> QED BY <1>1, <1>2, <2>2, <2>3, RestOneToken DEF RestTokenwise
  <1>7. CASE Rest!RightCode(t) /\ ~Rest!StepUsed(t)
    <2>1. /\ lastStep' = [lastStep EXCEPT ![t] = now]
          /\ challenge' = [challenge EXCEPT ![t] = Rest!NoChallenge]
          /\ verified' = [verified EXCEPT ![t] = verified[t] + 1]
          /\ Rest!OpenSession(t)
      BY <1>7 DEF Rest!RightCode
    <2>2. /\ lastStep' = [u \in Tokens |-> lastStep'[u]] /\ lastStep'[t] = now
          /\ \A u \in Tokens : u # t => lastStep'[u] = lastStep[u]
      BY <1>1, <2>1, RestChanged DEF RestFunctions
    <2>3. /\ challenge' = [u \in Tokens |-> challenge'[u]] /\ challenge'[t] = Rest!NoChallenge
          /\ \A u \in Tokens : u # t => challenge'[u] = challenge[u]
      BY <1>1, <2>1, RestChanged DEF RestFunctions
    <2>4. /\ verified' = [u \in Tokens |-> verified'[u]] /\ verified'[t] = verified[t] + 1
          /\ \A u \in Tokens : u # t => verified'[u] = verified[u]
      BY <1>1, <2>1, RestChanged DEF RestFunctions
    \* the step that is not used yet has counted no verification
    <2>5. verified[t] = 0
      BY <1>1, <1>7 DEF RestFine, Rest!StepUsed
    <2>6. now # Rest!None /\ now \in 0..Rest!None /\ now <= now
      BY <1>1 DEF Rest!None, Rest!LimitsOK
    <2>7. RestFunctions' /\ RestOthers(t)
      BY <1>1, <2>1, <2>2, <2>3, <2>4, RestOpenOK DEF RestFunctions, RestOthers
    <2>8. RestFine(t)'
      BY <1>1, <1>2, <2>1, <2>2, <2>3, <2>4, <2>5, <2>6, RestOpenOK, RestChallengeOK DEF RestFine
    <2> QED BY <1>1, <1>2, <2>7, <2>8, RestOneToken DEF RestTokenwise
  <1> QED BY <1>3, <1>4, <1>5, <1>6, <1>7 DEF Rest!Verify

\* The sliding renewal stops at the cap.
LEMMA RestTouchOK ==
  ASSUME Rest!LimitsOK, RestIInv, NEW s \in Rest!Session
  PROVE  /\ Rest!touch_session(s) \in Rest!Session /\ Rest!touch_session(s).created = s.created
         /\ Rest!touch_session(s).expires <= Rest!touch_session(s).created + SessionCap
  <1>1. now \in 0..MaxLoginTime
    BY RestByToken DEF RestTokenwise
  <1>2. s.created \in 0..MaxLoginTime
    BY DEF Rest!Session
  <1>3. /\ Rest!touch_session(s).created = s.created
        /\ Rest!touch_session(s).expires = (IF now + SessionTicks < s.created + SessionCap
                                         THEN now + SessionTicks ELSE s.created + SessionCap)
        /\ Rest!touch_session(s) = [created |-> Rest!touch_session(s).created,
                               expires |-> Rest!touch_session(s).expires]
    BY DEF Rest!touch_session, Rest!Session
  <1>4. Rest!touch_session(s).expires \in 0..(MaxLoginTime + SessionCap)
    BY <1>1, <1>2, <1>3 DEF Rest!LimitsOK
  <1> QED BY <1>1, <1>2, <1>3, <1>4 DEF Rest!Session, Rest!LimitsOK

\* Logout and a served request change the token's sessions only.
LEMMA RestSessionStepOK ==
  ASSUME Rest!LimitsOK, RestIInv, NEW t \in Tokens,
         NEW s \in logins[t], Rest!Request(t, s) \/ Rest!Logout(t, s)
  PROVE  RestIInv'
  <1>1. RestTokenwise /\ RestFunctions /\ RestFine(t)
    BY RestByToken DEF RestTokenwise
  <1>2. UNCHANGED <<enrolled, revoked, disabled, fail, totpFail, lastStep, challenge, verified, now>>
    BY DEF Rest!Request, Rest!Logout
  <1>3. PICK rest \in SUBSET Rest!Session :
          /\ logins' = [logins EXCEPT ![t] = rest]
          /\ \A x \in rest : x.expires <= x.created + SessionCap
    <2>1. s \in Rest!Session
      BY <1>1 DEF RestFine
    <2>2. CASE Rest!Request(t, s)
      <3>1. logins' = [logins EXCEPT ![t] = (logins[t] \ {s}) \cup {Rest!touch_session(s)}]
        BY <2>2 DEF Rest!Request
      <3>2. /\ Rest!touch_session(s) \in Rest!Session
            /\ Rest!touch_session(s).expires <= Rest!touch_session(s).created + SessionCap
        BY <1>1, <2>1, RestTouchOK DEF RestFine
      <3> QED BY <1>1, <3>1, <3>2 DEF RestFine
    <2>3. CASE Rest!Logout(t, s)
      <3>1. logins' = [logins EXCEPT ![t] = logins[t] \ {s}]
        BY <2>3 DEF Rest!Logout
      <3> QED BY <1>1, <3>1 DEF RestFine
    <2> QED BY <2>2, <2>3
  <1>4. /\ logins' = [u \in Tokens |-> logins'[u]] /\ logins'[t] = rest
        /\ \A u \in Tokens : u # t => logins'[u] = logins[u]
    BY <1>1, <1>3, RestChanged DEF RestFunctions
  <1>5. RestFunctions' /\ RestOthers(t)
    BY <1>1, <1>2, <1>4 DEF RestFunctions, RestOthers
  <1>6. RestFine(t)'
    BY <1>1, <1>2, <1>3, <1>4 DEF RestFine
  <1> QED BY <1>1, <1>2, <1>5, <1>6, RestOneToken DEF RestTokenwise

\* A tick forgets the verifications of the step before.
LEMMA RestTickOK == ASSUME Rest!LimitsOK, RestIInv, Rest!Tick PROVE RestIInv'
  <1>1. RestTokenwise
    BY RestByToken
  <1>2. now' \in 0..MaxLoginTime /\ enrolled' \subseteq Tokens /\ revoked' \subseteq Tokens
    BY <1>1 DEF Rest!Tick, RestTokenwise, Rest!LimitsOK
  <1>3. RestFunctions'
    BY <1>1 DEF Rest!Tick, RestTokenwise, RestFunctions
  <1>4. ASSUME NEW t \in Tokens PROVE RestFine(t)'
    BY <1>1 DEF Rest!Tick, RestTokenwise, RestFine
  <1>5. RestTokenwise'
    BY <1>2, <1>3, <1>4 DEF RestTokenwise
  <1>6. RestTokenwise' => RestIInv'
    BY RestByToken, PTL
  <1> QED BY <1>5, <1>6

\* The command line and stuttering change no column the invariant relates.
LEMMA RestQuietOK ==
  ASSUME RestIInv, enrolled' \subseteq Tokens, revoked' \subseteq Tokens,
         UNCHANGED <<disabled, fail, totpFail, lastStep, challenge, logins, verified, now>>
  PROVE  RestIInv'
  <1>1. RestTokenwise
    BY RestByToken
  <1>2. RestFunctions' /\ \A t \in Tokens : RestFine(t)'
    BY <1>1 DEF RestTokenwise, RestFunctions, RestFine
  <1>3. RestTokenwise'
    BY <1>1, <1>2 DEF RestTokenwise
  <1>4. RestTokenwise' => RestIInv'
    BY RestByToken, PTL
  <1> QED BY <1>3, <1>4

\* Every step of the authentication keeps the invariant.
LEMMA RestStepOK == ASSUME Rest!LimitsOK, RestIInv, [Rest!Next]_Rest!rvars PROVE RestIInv'
  <1>1. enrolled \subseteq Tokens /\ revoked \subseteq Tokens
    BY RestByToken DEF RestTokenwise
  <1>2. CASE \E t \in Tokens : Rest!Login(t)
    BY <1>2, RestLoginOK
  <1>3. CASE \E t \in Tokens : Rest!Verify(t)
    BY <1>3, RestVerifyOK
  <1>4. CASE \E t \in Tokens : Rest!Enrol(t)
    BY <1>1, <1>4, RestQuietOK DEF Rest!Enrol
  <1>5. CASE \E t \in Tokens : Rest!Revoke(t)
    BY <1>1, <1>5, RestQuietOK DEF Rest!Revoke
  <1>6. CASE \E t \in Tokens : \E s \in logins[t] : Rest!Request(t, s) \/ Rest!Logout(t, s)
    BY <1>6, RestSessionStepOK
  <1>7. CASE Rest!Tick
    BY <1>7, RestTickOK
  <1>8. CASE UNCHANGED Rest!rvars
    BY <1>1, <1>8, RestQuietOK DEF Rest!rvars
  <1> QED BY <1>2, <1>3, <1>4, <1>5, <1>6, <1>7, <1>8 DEF Rest!Next

\* The login paths keep what they promise: reaching a threshold locks the token
\* (increment_login_failure, increment_totp_failure), a TOTP step admits one
\* verification (totp_last_step), and no renewal carries a session past its cap
\* (touch_session), for every choice of thresholds, windows and tokens.
THEOREM LoginSafety ==
  ASSUME Rest!LimitsOK
  PROVE  Rest!Spec => []Rest!LoginsSafe
  <1>1. Rest!Init => RestIInv
    BY RestInitOK
  <1>2. RestIInv /\ [Rest!Next]_Rest!rvars => RestIInv'
    BY RestStepOK
  <1>3. RestIInv => Rest!LoginsSafe
    BY DEF RestIInv
  <1> QED BY <1>1, <1>2, <1>3, PTL DEF Rest!Spec

-----------------------------------------------------------------------------
\* What one token's step does to a token in its lockout window.
LEMMA RestLockedStays ==
  ASSUME Rest!LimitsOK, RestIInv, [Rest!Next]_Rest!rvars, NEW t \in Tokens, Rest!Locked(t)
  PROVE  disabled'[t] # Rest!None /\ {s.created : s \in logins'[t]} \subseteq {s.created : s \in logins[t]}
  <1>1. RestFunctions /\ RestFine(t) /\ disabled[t] # Rest!None /\ ~Rest!is_token_active(t)
    BY RestByToken DEF RestTokenwise, Rest!Locked, Rest!is_token_active
  <1> DEFINE Untouched == disabled'[t] # Rest!None /\ logins'[t] = logins[t]
  <1>2. CASE UNCHANGED <<disabled, logins>>
    BY <1>1, <1>2
  <1>3. ASSUME NEW u \in Tokens, Rest!Login(u) PROVE Untouched
    <2>1. CASE u = t
      <3>1. Rest!LoginFailure(t) /\ logins' = logins
        BY <1>1, <1>3, <2>1 DEF Rest!Login
      <3> QED BY <3>1, RestCountersOK
    <2>2. CASE u # t
      <3>1. \/ (Rest!LoginFailure(u) \/ Rest!ClearIfDue(u)) /\ logins' = logins
            \/ Rest!OpenSession(u)
        BY <1>3 DEF Rest!Login
      <3>2. CASE (Rest!LoginFailure(u) \/ Rest!ClearIfDue(u)) /\ logins' = logins
        BY <1>1, <2>2, <3>2, RestCountersOK
      <3>3. CASE Rest!OpenSession(u)
        BY <1>1, <2>2, <3>3, RestOpenOK
      <3> QED BY <3>1, <3>2, <3>3
    <2> QED BY <2>1, <2>2
  <1>4. ASSUME NEW u \in Tokens, Rest!Verify(u) PROVE Untouched
    <2>1. CASE u = t
      BY <1>1, <1>4, <2>1 DEF Rest!Verify
    <2>2. CASE u # t
      <3>1. \/ UNCHANGED <<disabled, logins>>
            \/ (Rest!TotpFailure(u) \/ Rest!ClearIfDue(u)) /\ logins' = logins
            \/ Rest!OpenSession(u)
        BY <1>4 DEF Rest!Verify, Rest!WrongCode, Rest!RightCode
      <3>2. CASE UNCHANGED <<disabled, logins>>
        BY <1>1, <3>2
      <3>3. CASE (Rest!TotpFailure(u) \/ Rest!ClearIfDue(u)) /\ logins' = logins
        BY <1>1, <2>2, <3>3, RestCountersOK
      <3>4. CASE Rest!OpenSession(u)
        BY <1>1, <2>2, <3>4, RestOpenOK
      <3> QED BY <3>1, <3>2, <3>3, <3>4
    <2> QED BY <2>1, <2>2
  <1>5. ASSUME NEW u \in Tokens, NEW x \in logins[u], Rest!Request(u, x)
        PROVE  /\ disabled'[t] # Rest!None
               /\ {s.created : s \in logins'[t]} \subseteq {s.created : s \in logins[t]}
    <2>1. /\ disabled' = disabled
          /\ logins' = [logins EXCEPT ![u] = (logins[u] \ {x}) \cup {Rest!touch_session(x)}]
      BY <1>5 DEF Rest!Request
    <2>2. x \in Rest!Session
      BY <1>5, RestByToken DEF RestTokenwise, RestFine
    <2>3. Rest!touch_session(x).created = x.created
      BY <2>2, RestTouchOK
    <2>4. \A s \in logins'[t] : s \in logins[t] \/ (u = t /\ s = Rest!touch_session(x))
      BY <1>1, <2>1 DEF RestFunctions
    <2> QED BY <1>1, <1>5, <2>1, <2>3, <2>4
  <1>6. ASSUME NEW u \in Tokens, NEW x \in logins[u], Rest!Logout(u, x)
        PROVE  /\ disabled'[t] # Rest!None
               /\ {s.created : s \in logins'[t]} \subseteq {s.created : s \in logins[t]}
    <2>1. disabled' = disabled /\ logins' = [logins EXCEPT ![u] = logins[u] \ {x}]
      BY <1>6 DEF Rest!Logout
    <2>2. logins'[t] \subseteq logins[t]
      BY <1>1, <2>1 DEF RestFunctions
    <2> QED BY <1>1, <2>1, <2>2
  <1>7. CASE UNCHANGED Rest!rvars
    BY <1>2, <1>7 DEF Rest!rvars
  <1>8. CASE Rest!Tick \/ \E u \in Tokens : Rest!Enrol(u) \/ Rest!Revoke(u)
    BY <1>2, <1>8 DEF Rest!Tick, Rest!Enrol, Rest!Revoke
  <1> QED BY <1>3, <1>4, <1>5, <1>6, <1>7, <1>8 DEF Rest!Next

\* A lock lasts its whole window (is_token_active, _clear_lockout): whatever is
\* tried on the token or on another one, the lock stays and no session is opened.
THEOREM LockoutIsKept ==
  ASSUME Rest!LimitsOK
  PROVE  Rest!Spec => Rest!LockoutHolds
  <1>1. Rest!Init => RestIInv
    BY RestInitOK
  <1>2. RestIInv /\ [Rest!Next]_Rest!rvars => RestIInv'
    BY RestStepOK
  <1>3. RestIInv /\ [Rest!Next]_Rest!rvars => Rest!LockoutStep
    BY RestLockedStays DEF Rest!LockoutStep, Rest!Locked
  <1>4. Rest!Spec => [][Rest!LockoutStep]_Rest!rvars
    BY <1>1, <1>2, <1>3, PTL DEF Rest!Spec
  <1> QED BY <1>4 DEF Rest!LockoutHolds

-----------------------------------------------------------------------------
(* The session store: any processes, sessions, messages and agents.        *)


\* The instance's operators on finite sets are those of the standard modules.
LEMMA StoreLibrary ==
  /\ \A S : Store!Cardinality(S) = Cardinality(S)
  /\ \A S : Store!Max(S) = Max(S)
  BY DEF Store!Cardinality, Cardinality, Store!IsFiniteSet, IsFiniteSet, Store!Max, Max

StoreOps ==
  [pc : {"idle"}]
    \cup [pc : {"number"}, sess : Names, msg : Messages \cup {Store!NoMsg}]
    \cup [pc : {"insert"}, step : 1..MaxTurns, sess : Names, msg : Messages \cup {Store!NoMsg}]
    \cup [pc : {"dedup", "add"}, sess : Names, agent : Owners, content : Contents]

StoreCheckpoint == [id : Nat, by : Stores, sess : Names, agent : Owners, content : Contents]

StoreTurnsOf(s) == {t \in turns : t.sess = s}

StoreShapes ==
  /\ op \in [Stores -> StoreOps] /\ checkpoints \subseteq StoreCheckpoint
  /\ IsFiniteSet(turns) /\ IsFiniteSet(checkpoints)
  /\ returned \subseteq Messages \X Store!Turn

\* A number that was read is free or taken, never ahead.
StoreNumberNotAhead ==
  \A p \in Stores : op[p].pc = "insert" => op[p].step <= Cardinality(StoreTurnsOf(op[p].sess)) + 1

\* UNIQUE(message_id)
StoreMessageUnique == \A t, u \in turns : t.msg # Store!NoMsg /\ t.msg = u.msg => t = u

StoreAnswerIsTurn == \A a \in returned : a[1] # Store!NoMsg /\ a[2] \in turns /\ a[2].msg = a[1]

\* What was saved, or is about to be, was saved by the session's agent.
StoreSavedByBound ==
  /\ \A k \in checkpoints : bound[k.sess] = k.agent
  /\ \A p \in Stores : op[p].pc \in {"dedup", "add"} => bound[op[p].sess] = op[p].agent

\* A process that passed the look-up has not saved that content.
StoreNotSavedYet ==
  \A p \in Stores : op[p].pc = "add" =>
    ~\E k \in checkpoints : k.by = p /\ k.agent = op[p].agent /\ k.content = op[p].content

StoreIInv ==
  /\ Store!TypeOK /\ StoreShapes /\ Store!TurnsAreGapless /\ StoreNumberNotAhead /\ StoreMessageUnique /\ StoreAnswerIsTurn
  /\ StoreSavedByBound /\ StoreNotSavedYet /\ Store!DuplicatesNeedOverlap

-----------------------------------------------------------------------------
\* The answers and the agents follow.
LEMMA StorePromises == ASSUME Store!NamesOK, StoreIInv PROVE Store!SessionsSafe
  <1>1. Store!MessageIsOneTurn
    <2>1. ASSUME NEW a \in returned, NEW b \in returned, a[1] = b[1] PROVE a = b
      <3>1. a = <<a[1], a[2]>> /\ b = <<b[1], b[2]>>
        BY DEF StoreIInv, StoreShapes
      <3>2. a[2] = b[2]
        BY <2>1 DEF StoreIInv, StoreAnswerIsTurn, StoreMessageUnique
      <3> QED BY <2>1, <3>1, <3>2
    <2> QED BY <2>1 DEF Store!MessageIsOneTurn, StoreIInv, StoreAnswerIsTurn
  <1>2. Store!SessionHasOneAgent
    BY DEF StoreIInv, StoreSavedByBound, Store!SessionHasOneAgent
  <1> QED BY <1>1, <1>2 DEF Store!SessionsSafe, StoreIInv

\* No session, message or checkpoint exists at the start.
LEMMA StoreInitOK == ASSUME Store!NamesOK, Store!Init PROVE StoreIInv
  <1>1. IsFiniteSet({}) /\ Cardinality({}) = 0
    BY FS_EmptySet
  <1>2. op \in [Stores -> StoreOps] /\ \A p \in Stores : op[p].pc = "idle"
    BY DEF Store!Init, Store!Idle, StoreOps
  <1>3. Store!TypeOK
    BY <1>2 DEF Store!Init, Store!TypeOK
  <1>4. StoreShapes
    BY <1>1, <1>2 DEF Store!Init, StoreShapes
  <1>5. Store!TurnsAreGapless
    <2>1. ASSUME NEW s \in Names
          PROVE  {t.step : t \in {t \in turns : t.sess = s}} = 1..Cardinality({t \in turns : t.sess = s})
      <3>1. {t \in turns : t.sess = s} = {}
        BY DEF Store!Init
      <3> QED BY <1>1, <3>1
    <2> QED BY <2>1, StoreLibrary DEF Store!TurnsAreGapless
  <1> QED BY <1>2, <1>3, <1>4, <1>5
      DEF Store!Init, StoreIInv, StoreNumberNotAhead, StoreMessageUnique, StoreAnswerIsTurn, StoreSavedByBound, StoreNotSavedYet,
          Store!DuplicatesNeedOverlap

\* The turns of a session are finite, and the next number is one above their count.
LEMMA StoreNextIsFree ==
  ASSUME StoreIInv, NEW s \in Names
  PROVE  /\ IsFiniteSet(StoreTurnsOf(s)) /\ Cardinality(StoreTurnsOf(s)) \in Nat
         /\ {t.step : t \in StoreTurnsOf(s)} = 1..Cardinality(StoreTurnsOf(s))
         /\ Store!NextStep(s) = Cardinality(StoreTurnsOf(s)) + 1
  <1> DEFINE n == Cardinality(StoreTurnsOf(s))
  <1>1. IsFiniteSet(StoreTurnsOf(s)) /\ n \in Nat
    <2>1. StoreTurnsOf(s) \subseteq turns /\ IsFiniteSet(turns)
      BY DEF StoreTurnsOf, StoreIInv, StoreShapes
    <2> QED BY <2>1, FS_Subset, FS_CardinalityType
  <1>2. {t.step : t \in StoreTurnsOf(s)} = 1..n
    BY StoreLibrary DEF StoreIInv, Store!TurnsAreGapless, StoreTurnsOf
  <1>3. {t.step : t \in {u \in turns : u.sess = s}} = 1..n
    BY <1>2 DEF StoreTurnsOf
  <1> HIDE DEF n
  <1>4. {0} \cup 1..n = 0..n
    BY <1>1
  <1>5. Max(0..n) = n
    BY <1>1 DEF Max
  <1>6. Store!NextStep(s) = n + 1
    BY <1>3, <1>4, <1>5, StoreLibrary DEF Store!NextStep
  <1> QED BY <1>1, <1>2, <1>6 DEF n

-----------------------------------------------------------------------------
\* Calls that end, or move on without writing a row: only op changes, and what the
\* new step of p carries is what the invariant asks of it.
LEMMA StoreOpStep ==
  ASSUME Store!NamesOK, StoreIInv, NEW p \in Stores, NEW o \in StoreOps, op' = [op EXCEPT ![p] = o],
         UNCHANGED <<turns, bound, checkpoints>>, sessions' \subseteq Names,
         returned' \subseteq Messages \X Store!Turn, StoreAnswerIsTurn',
         o.pc = "insert" => o.step <= Cardinality(StoreTurnsOf(o.sess)) + 1,
         o.pc \in {"dedup", "add"} => bound[o.sess] = o.agent,
         o.pc = "add" =>
           ~\E k \in checkpoints : k.by = p /\ k.agent = o.agent /\ k.content = o.content
  PROVE  StoreIInv'
  <1>1. op \in [Stores -> StoreOps]
    BY DEF StoreIInv, StoreShapes
  <1>2. op' \in [Stores -> StoreOps] /\ op'[p] = o /\ \A q \in Stores : q # p => op'[q] = op[q]
    BY <1>1
  <1>3. \A q \in Stores : op'[q].pc \in {"idle", "number", "insert", "dedup", "add"}
    BY <1>2 DEF StoreOps
  <1>4. Store!TypeOK'
    BY <1>3 DEF StoreIInv, Store!TypeOK
  <1>5. StoreShapes'
    BY <1>2 DEF StoreIInv, StoreShapes
  <1>6. Store!TurnsAreGapless' /\ StoreMessageUnique' /\ Store!DuplicatesNeedOverlap'
    BY DEF StoreIInv, Store!TurnsAreGapless, StoreMessageUnique, Store!DuplicatesNeedOverlap
  <1>7. StoreNumberNotAhead'
    <2>1. ASSUME NEW q \in Stores, op'[q].pc = "insert"
          PROVE  op'[q].step <= Cardinality(StoreTurnsOf(op'[q].sess)) + 1
      BY <1>2, <2>1 DEF StoreIInv, StoreNumberNotAhead
    <2>2. \A s : StoreTurnsOf(s)' = StoreTurnsOf(s)
      BY DEF StoreTurnsOf
    <2> QED BY <2>1, <2>2 DEF StoreNumberNotAhead, StoreTurnsOf
  <1>8. StoreSavedByBound'
    BY <1>2 DEF StoreIInv, StoreSavedByBound
  <1>9. StoreNotSavedYet'
    BY <1>2 DEF StoreIInv, StoreNotSavedYet
  <1> QED BY <1>4, <1>5, <1>6, <1>7, <1>8, <1>9 DEF StoreIInv

\* A call that ends without a new row.
LEMMA StoreAnswerOK ==
  ASSUME Store!NamesOK, StoreIInv, NEW p \in Stores, NEW m \in Messages \cup {Store!NoMsg},
         NEW t \in Store!Of(m),
         Store!Answer(p, m, t), UNCHANGED <<sessions, turns, bound, checkpoints>>
  PROVE  StoreIInv'
  <1>1. m # Store!NoMsg /\ t \in turns /\ t.msg = m /\ t \in Store!Turn
    BY DEF Store!Of, StoreIInv, Store!TypeOK
  <1>2. op' = [op EXCEPT ![p] = Store!Idle] /\ returned' = returned \cup {<<m, t>>}
    BY <1>1 DEF Store!Answer
  <1>3. Store!Idle \in StoreOps /\ Store!Idle.pc = "idle"
    BY DEF Store!Idle, StoreOps
  <1>4. returned' \subseteq Messages \X Store!Turn
    BY <1>1, <1>2 DEF StoreIInv, StoreShapes
  <1>5. StoreAnswerIsTurn'
    BY <1>1, <1>2 DEF StoreIInv, StoreAnswerIsTurn
  <1>6. sessions' \subseteq Names
    BY DEF StoreIInv, Store!TypeOK
  <1> QED BY <1>2, <1>3, <1>4, <1>5, <1>6, StoreOpStep

\* A call that moves on or ends with no answer.
LEMMA StoreMoveOK ==
  ASSUME Store!NamesOK, StoreIInv, NEW p \in Stores, NEW o \in StoreOps, op' = [op EXCEPT ![p] = o],
         UNCHANGED <<sessions, turns, bound, checkpoints, returned>>,
         o.pc = "insert" => o.step <= Cardinality(StoreTurnsOf(o.sess)) + 1,
         o.pc \in {"dedup", "add"} => bound[o.sess] = o.agent,
         o.pc = "add" =>
           ~\E k \in checkpoints : k.by = p /\ k.agent = o.agent /\ k.content = o.content
  PROVE  StoreIInv'
  <1>1. sessions' \subseteq Names /\ returned' \subseteq Messages \X Store!Turn /\ StoreAnswerIsTurn'
    BY DEF StoreIInv, Store!TypeOK, StoreShapes, StoreAnswerIsTurn
  <1> QED BY <1>1, StoreOpStep

\* Creating a session adds its name.
LEMMA StoreCreateOK == ASSUME StoreIInv, NEW s \in Names, Store!CreateSession(s) PROVE StoreIInv'
  <1>1. sessions' \subseteq Names
    BY DEF Store!CreateSession, StoreIInv, Store!TypeOK
  <1>2. UNCHANGED <<turns, bound, checkpoints, op, returned>>
    BY DEF Store!CreateSession
  <1>3. Store!TypeOK' /\ StoreShapes' /\ Store!TurnsAreGapless' /\ StoreMessageUnique' /\ Store!DuplicatesNeedOverlap'
    BY <1>1, <1>2 DEF StoreIInv, Store!TypeOK, StoreShapes, Store!TurnsAreGapless,
                      StoreMessageUnique, Store!DuplicatesNeedOverlap
  <1>4. StoreNumberNotAhead' /\ StoreAnswerIsTurn' /\ StoreSavedByBound' /\ StoreNotSavedYet'
    BY <1>2 DEF StoreIInv, StoreNumberNotAhead, StoreAnswerIsTurn, StoreSavedByBound,
                StoreNotSavedYet, StoreTurnsOf
  <1> QED BY <1>3, <1>4 DEF StoreIInv

\* A look-up before an append answers with the turn on record, if there is one.
LEMMA StoreLookupOK ==
  ASSUME Store!NamesOK, StoreIInv, NEW p \in Stores, NEW s \in Names,
         NEW m \in Messages \cup {Store!NoMsg},
         Store!LookupMessage(p, s, m)
  PROVE  StoreIInv'
  <1>1. CASE Store!Of(m) # {}
    BY <1>1, StoreAnswerOK DEF Store!LookupMessage
  <1>2. CASE Store!Of(m) = {}
    <2> DEFINE o == [pc |-> "number", sess |-> s, msg |-> m]
    <2>1. o \in StoreOps /\ o.pc = "number"
      BY DEF StoreOps
    <2>2. op' = [op EXCEPT ![p] = o] /\ UNCHANGED <<sessions, turns, bound, checkpoints, returned>>
      BY <1>2 DEF Store!LookupMessage
    <2> HIDE DEF o
    <2> QED BY <2>1, <2>2, StoreMoveOK
  <1> QED BY <1>1, <1>2

\* What the call of p carries when its step needs it.
LEMMA StoreOpFields ==
  ASSUME StoreIInv, NEW p \in Stores
  PROVE  /\ op[p] \in StoreOps
         /\ op[p].pc = "number" => op[p].sess \in Names /\ op[p].msg \in Messages \cup {Store!NoMsg}
         /\ op[p].pc = "insert" =>
              /\ op[p].sess \in Names /\ op[p].msg \in Messages \cup {Store!NoMsg}
              /\ op[p].step \in 1..MaxTurns
         /\ op[p].pc \in {"dedup", "add"} =>
              /\ op[p].sess \in Names /\ op[p].agent \in Owners /\ op[p].content \in Contents
              /\ op[p] = [pc |-> op[p].pc, sess |-> op[p].sess, agent |-> op[p].agent,
                          content |-> op[p].content]
  <1>1. op[p] \in StoreOps
    BY DEF StoreIInv, StoreShapes
  <1> QED BY <1>1 DEF StoreOps

\* The turn number is read from the table as it is then.
LEMMA StoreNumberOK ==
  ASSUME Store!NamesOK, StoreIInv, NEW p \in Stores, Store!NumberTurn(p)
  PROVE  StoreIInv'
  <1> DEFINE n == Store!NextStep(op[p].sess)
             o == [pc |-> "insert", step |-> n, sess |-> op[p].sess, msg |-> op[p].msg]
  <1>1. op[p].pc = "number" /\ n <= MaxTurns /\ op' = [op EXCEPT ![p] = o]
    BY DEF Store!NumberTurn
  <1>2. op[p].sess \in Names /\ op[p].msg \in Messages \cup {Store!NoMsg}
    BY <1>1, StoreOpFields
  <1>3. n = Cardinality(StoreTurnsOf(op[p].sess)) + 1 /\ Cardinality(StoreTurnsOf(op[p].sess)) \in Nat
    BY <1>2, StoreNextIsFree
  <1>4. n \in 1..MaxTurns
    BY <1>1, <1>3 DEF Store!NamesOK
  <1> HIDE DEF n
  <1>5. o \in StoreOps /\ o.pc = "insert" /\ o.step = n /\ o.sess = op[p].sess
    BY <1>2, <1>4 DEF StoreOps
  <1>6. UNCHANGED <<sessions, turns, bound, checkpoints, returned>>
    BY DEF Store!NumberTurn
  <1>7. n <= Cardinality(StoreTurnsOf(op[p].sess)) + 1
    BY <1>3
  <1> HIDE DEF o
  <1> QED BY <1>1, <1>5, <1>6, <1>7, StoreMoveOK

\* A number that is not taken is the next one, so the new turn closes up.
LEMMA StoreTurnAdded ==
  ASSUME Store!NamesOK, StoreIInv, NEW t \in Store!Turn, ~Store!Conflicts(t),
         t.step <= Cardinality(StoreTurnsOf(t.sess)) + 1, turns' = turns \cup {t}
  PROVE  /\ IsFiniteSet(turns') /\ turns' \subseteq Store!Turn
         /\ Store!TurnsAreGapless' /\ StoreMessageUnique'
         /\ \A s \in Names : /\ Cardinality(StoreTurnsOf(s)) <= Cardinality(StoreTurnsOf(s)')
                             /\ Cardinality(StoreTurnsOf(s)) \in Nat /\ Cardinality(StoreTurnsOf(s)') \in Nat
  <1> DEFINE s0 == t.sess
             n == Cardinality(StoreTurnsOf(s0))
  <1>1. s0 \in Names /\ t.step \in Nat /\ t.step >= 1
    BY DEF Store!Turn, Store!NamesOK
  <1>2. IsFiniteSet(StoreTurnsOf(s0)) /\ n \in Nat /\ {u.step : u \in StoreTurnsOf(s0)} = 1..n
    BY <1>1, StoreNextIsFree
  <1>3. t.step \notin {u.step : u \in StoreTurnsOf(s0)}
    BY DEF Store!Conflicts, StoreTurnsOf
  <1>4. t.step = n + 1
    BY <1>1, <1>2, <1>3
  <1>5. t \notin StoreTurnsOf(s0)
    BY <1>3
  <1>6. StoreTurnsOf(s0)' = StoreTurnsOf(s0) \cup {t}
    BY DEF StoreTurnsOf
  <1>7. Cardinality(StoreTurnsOf(s0)') = n + 1
    <2> HIDE DEF n
    <2>1. Cardinality(StoreTurnsOf(s0) \cup {t}) = Cardinality(StoreTurnsOf(s0)) + 1
      BY <1>2, <1>5, FS_AddElement
    <2> QED BY <1>6, <2>1 DEF n
  <1>8. {u.step : u \in StoreTurnsOf(s0)'} = 1..(n + 1)
    <2>1. {u.step : u \in StoreTurnsOf(s0)'} = {u.step : u \in StoreTurnsOf(s0)} \cup {t.step}
      BY <1>6
    <2>2. {u.step : u \in StoreTurnsOf(s0)'} = 1..n \cup {n + 1}
      BY <1>2, <1>4, <2>1
    <2> HIDE DEF n
    <2>3. 1..n \cup {n + 1} = 1..(n + 1)
      BY <1>2
    <2> QED BY <2>2, <2>3
  <1>9. \A s \in Names : s # s0 => StoreTurnsOf(s)' = StoreTurnsOf(s)
    BY DEF StoreTurnsOf
  <1>10. Store!TurnsAreGapless'
    <2>1. ASSUME NEW s \in Names
          PROVE  {u.step : u \in StoreTurnsOf(s)'} = 1..Cardinality(StoreTurnsOf(s)')
      <3>1. CASE s = s0
        BY <1>7, <1>8, <3>1
      <3>2. CASE s # s0
        BY <1>9, <3>2, StoreNextIsFree
      <3> QED BY <3>1, <3>2
    <2> QED BY <2>1, StoreLibrary DEF Store!TurnsAreGapless, StoreTurnsOf
  <1>11. StoreMessageUnique'
    BY DEF StoreIInv, StoreMessageUnique, Store!Conflicts, Store!Of
  <1>12. IsFiniteSet(turns') /\ turns' \subseteq Store!Turn
    BY FS_AddElement DEF StoreIInv, StoreShapes, Store!TypeOK
  <1>13. ASSUME NEW s \in Names
         PROVE  /\ Cardinality(StoreTurnsOf(s)) <= Cardinality(StoreTurnsOf(s)')
                /\ Cardinality(StoreTurnsOf(s)) \in Nat /\ Cardinality(StoreTurnsOf(s)') \in Nat
    <2>1. Cardinality(StoreTurnsOf(s)) \in Nat
      BY StoreNextIsFree
    <2>2. CASE s = s0
      BY <1>7, <2>1, <2>2
    <2>3. CASE s # s0
      BY <1>9, <2>1, <2>3
    <2> QED BY <2>2, <2>3
  <1> QED BY <1>10, <1>11, <1>12, <1>13

\* An insert takes the number it read, unless another process took it first.
LEMMA StoreInsertOK ==
  ASSUME Store!NamesOK, StoreIInv, NEW p \in Stores, Store!InsertTurn(p)
  PROVE  StoreIInv'
  <1> DEFINE t == [sess |-> op[p].sess, step |-> op[p].step, msg |-> op[p].msg]
  <1>1. op[p].pc = "insert" /\ UNCHANGED <<sessions, bound, checkpoints, saves>>
    BY DEF Store!InsertTurn
  <1>2. op[p].sess \in Names /\ op[p].msg \in Messages \cup {Store!NoMsg} /\ op[p].step \in 1..MaxTurns
    BY <1>1, StoreOpFields
  <1>3. t \in Store!Turn /\ t.msg \in Messages \cup {Store!NoMsg}
    BY <1>2 DEF Store!Turn
  <1>4. Store!Idle \in StoreOps /\ Store!Idle.pc = "idle"
    BY DEF Store!Idle, StoreOps
  <1>5. t.step <= Cardinality(StoreTurnsOf(t.sess)) + 1
    BY <1>1 DEF StoreIInv, StoreNumberNotAhead
  <1>6. CASE ~Store!Conflicts(t)
    <2>1. turns' = turns \cup {t} /\ Store!Answer(p, t.msg, t)
      BY <1>6 DEF Store!InsertTurn
    <2> HIDE DEF t
    <2>2. /\ IsFiniteSet(turns') /\ turns' \subseteq Store!Turn /\ Store!TurnsAreGapless' /\ StoreMessageUnique'
          /\ \A s \in Names : /\ Cardinality(StoreTurnsOf(s)) <= Cardinality(StoreTurnsOf(s)')
                              /\ Cardinality(StoreTurnsOf(s)) \in Nat /\ Cardinality(StoreTurnsOf(s)') \in Nat
      BY <1>3, <1>5, <1>6, <2>1, StoreTurnAdded
    <2>3. op \in [Stores -> StoreOps] /\ op' = [op EXCEPT ![p] = Store!Idle]
      BY <2>1 DEF StoreIInv, StoreShapes, Store!Answer
    <2>4. op' \in [Stores -> StoreOps] /\ op'[p] = Store!Idle /\ \A q \in Stores : q # p => op'[q] = op[q]
      BY <1>4, <2>3
    <2>5. \A q \in Stores : op'[q].pc \in {"idle", "number", "insert", "dedup", "add"}
      BY <2>4 DEF StoreOps
    <2>6. returned' \subseteq Messages \X Store!Turn /\ StoreAnswerIsTurn'
      <3>1. returned' = returned \/ (t.msg # Store!NoMsg /\ returned' = returned \cup {<<t.msg, t>>})
        BY <2>1 DEF Store!Answer
      <3> QED BY <1>3, <2>1, <3>1 DEF StoreIInv, StoreShapes, StoreAnswerIsTurn
    <2>7. Store!TypeOK'
      BY <1>1, <2>2, <2>5, <2>6 DEF StoreIInv, Store!TypeOK
    <2>8. StoreShapes'
      BY <1>1, <2>2, <2>4, <2>6 DEF StoreIInv, StoreShapes
    <2>9. StoreNumberNotAhead'
      <3>1. ASSUME NEW q \in Stores, op'[q].pc = "insert"
            PROVE  op'[q].step <= Cardinality({u \in turns' : u.sess = op'[q].sess}) + 1
        <4>1. q # p /\ op'[q] = op[q] /\ op[q].pc = "insert"
          BY <1>4, <2>4, <3>1
        <4>2. op[q].sess \in Names /\ op[q].step \in 1..MaxTurns
          BY <4>1, StoreOpFields
        <4>3. op[q].step <= Cardinality(StoreTurnsOf(op[q].sess)) + 1
          BY <4>1 DEF StoreIInv, StoreNumberNotAhead
        <4>4. PICK s \in Names : s = op[q].sess
          BY <4>2
        <4>5. {u \in turns' : u.sess = op'[q].sess} = StoreTurnsOf(s)'
          BY <4>1, <4>4 DEF StoreTurnsOf
        <4>6. /\ Cardinality(StoreTurnsOf(s)) <= Cardinality(StoreTurnsOf(s)')
              /\ Cardinality(StoreTurnsOf(s)) \in Nat /\ Cardinality(StoreTurnsOf(s)') \in Nat
          BY <2>2
        <4>7. op[q].step <= Cardinality(StoreTurnsOf(s)) + 1
          BY <4>3, <4>4
        <4>8. op[q].step <= Cardinality(StoreTurnsOf(s)') + 1
          BY <4>2, <4>6, <4>7
        <4> QED BY <4>1, <4>5, <4>8
      <3> QED BY <3>1 DEF StoreNumberNotAhead, StoreTurnsOf
    <2>10. StoreSavedByBound' /\ StoreNotSavedYet' /\ Store!DuplicatesNeedOverlap'
      BY <1>1, <1>4, <2>4 DEF StoreIInv, StoreSavedByBound, StoreNotSavedYet,
                              Store!DuplicatesNeedOverlap
    <2> QED BY <2>2, <2>6, <2>7, <2>8, <2>9, <2>10 DEF StoreIInv
  <1>7. CASE Store!Conflicts(t) /\ Store!Of(t.msg) # {}
    <2>1. turns' = turns /\ \E u \in Store!Of(t.msg) : Store!Answer(p, t.msg, u)
      BY <1>7 DEF Store!InsertTurn
    <2> QED BY <1>1, <1>3, <2>1, StoreAnswerOK
  <1>8. CASE Store!Conflicts(t) /\ Store!Of(t.msg) = {}
    <2>1. op' = [op EXCEPT ![p] = Store!Idle] /\ UNCHANGED <<turns, returned>>
      BY <1>8 DEF Store!InsertTurn
    <2> QED BY <1>1, <1>4, <2>1, StoreMoveOK
  <1> QED BY <1>6, <1>7, <1>8

-----------------------------------------------------------------------------
\* A session is bound to the first agent that saves in it, another is refused.
LEMMA StoreBindOK ==
  ASSUME Store!NamesOK, StoreIInv, NEW p \in Stores, NEW s \in Names, NEW a \in Owners,
         NEW c \in Contents,
         Store!BindSession(p, s, a, c)
  PROVE  StoreIInv'
  <1> DEFINE o == [pc |-> "dedup", sess |-> s, agent |-> a, content |-> c]
  <1>1. UNCHANGED <<sessions, turns, checkpoints, returned>> /\ op[p] = Store!Idle
    BY DEF Store!BindSession
  <1>2. bound \in [Names -> Owners \cup {Store!NoOne}] /\ op \in [Stores -> StoreOps]
    BY DEF StoreIInv, Store!TypeOK, StoreShapes
  \* a binding is only ever added
  <1>3. /\ bound' \in [Names -> Owners \cup {Store!NoOne}]
        /\ \A x \in Names : bound[x] # Store!NoOne => bound'[x] = bound[x]
    BY <1>2 DEF Store!BindSession, Store!bind_session_agent
  <1>4. o \in StoreOps /\ o.pc = "dedup" /\ o.sess = s /\ o.agent = a
    BY DEF StoreOps
  <1>5. \/ op' = op
        \/ op' = [op EXCEPT ![p] = o] /\ bound'[s] = a
    BY DEF Store!BindSession
  <1> HIDE DEF o
  <1>6. /\ op' \in [Stores -> StoreOps]
        /\ \A q \in Stores : op'[q] = op[q] \/ (q = p /\ op'[q] = o /\ bound'[s] = a)
    BY <1>2, <1>4, <1>5
  <1>7. \A q \in Stores : op'[q].pc \in {"idle", "number", "insert", "dedup", "add"}
    BY <1>6 DEF StoreOps
  <1>8. Store!TypeOK'
    BY <1>1, <1>3, <1>7 DEF StoreIInv, Store!TypeOK
  <1>9. StoreShapes'
    BY <1>1, <1>6 DEF StoreIInv, StoreShapes
  <1>10. Store!TurnsAreGapless' /\ StoreMessageUnique' /\ Store!DuplicatesNeedOverlap' /\ StoreAnswerIsTurn'
    BY <1>1 DEF StoreIInv, Store!TurnsAreGapless, StoreMessageUnique, Store!DuplicatesNeedOverlap,
                StoreAnswerIsTurn
  <1>11. StoreNumberNotAhead'
    BY <1>1, <1>4, <1>6 DEF StoreIInv, StoreNumberNotAhead, StoreTurnsOf
  <1>12. StoreSavedByBound'
    <2>1. ASSUME NEW k \in checkpoints' PROVE bound'[k.sess] = k.agent
      BY <1>1, <1>3 DEF StoreIInv, Store!TypeOK, StoreSavedByBound, Store!NamesOK
    <2>2. ASSUME NEW q \in Stores, op'[q].pc \in {"dedup", "add"}
          PROVE  bound'[op'[q].sess] = op'[q].agent
      <3>1. CASE op'[q] = op[q]
        <4>1. op[q].sess \in Names /\ op[q].agent \in Owners /\ bound[op[q].sess] = op[q].agent
          BY <2>2, <3>1, StoreOpFields DEF StoreIInv, StoreSavedByBound
        <4> QED BY <1>3, <3>1, <4>1 DEF Store!NamesOK
      <3>2. CASE op'[q] = o /\ bound'[s] = a
        BY <1>4, <3>2
      <3> QED BY <1>6, <3>1, <3>2
    <2> QED BY <2>1, <2>2 DEF StoreSavedByBound
  <1>13. StoreNotSavedYet'
    BY <1>1, <1>4, <1>6 DEF StoreIInv, StoreNotSavedYet
  <1> QED BY <1>8, <1>9, <1>10, <1>11, <1>12, <1>13 DEF StoreIInv

\* A save looks for a checkpoint with the same content before it adds one.
LEMMA StoreFindOK ==
  ASSUME Store!NamesOK, StoreIInv, NEW p \in Stores, Store!FindDuplicate(p)
  PROVE  StoreIInv'
  <1>1. op[p].pc = "dedup" /\ UNCHANGED <<sessions, turns, bound, checkpoints, returned>>
    BY DEF Store!FindDuplicate
  <1>2. /\ op[p].sess \in Names /\ op[p].agent \in Owners /\ op[p].content \in Contents
        /\ op[p] = [pc |-> "dedup", sess |-> op[p].sess, agent |-> op[p].agent,
                    content |-> op[p].content]
    BY <1>1, StoreOpFields
  <1>3. CASE Store!find_checkpoint_by_dedup_key(op[p]) # {}
    <2>1. op' = [op EXCEPT ![p] = Store!Idle] /\ Store!Idle \in StoreOps /\ Store!Idle.pc = "idle"
      BY <1>3 DEF Store!FindDuplicate, Store!Idle, StoreOps
    <2> QED BY <1>1, <2>1, StoreMoveOK
  <1>4. CASE Store!find_checkpoint_by_dedup_key(op[p]) = {}
    <2> DEFINE o == [pc |-> "add", sess |-> op[p].sess, agent |-> op[p].agent,
                     content |-> op[p].content]
    <2>1. [op[p] EXCEPT !.pc = "add"] = o
      BY <1>2
    <2>2. op' = [op EXCEPT ![p] = o]
      BY <1>4, <2>1 DEF Store!FindDuplicate
    <2>3. o \in StoreOps /\ o.pc = "add" /\ o.sess = op[p].sess /\ o.agent = op[p].agent
            /\ o.content = op[p].content
      BY <1>2 DEF StoreOps
    <2> HIDE DEF o
    <2>4. bound[o.sess] = o.agent
      BY <1>1, <2>3 DEF StoreIInv, StoreSavedByBound
    <2>5. ~\E k \in checkpoints : k.by = p /\ k.agent = o.agent /\ k.content = o.content
      BY <1>4, <2>3 DEF Store!find_checkpoint_by_dedup_key
    <2> QED BY <1>1, <2>2, <2>3, <2>4, <2>5, StoreMoveOK
  <1> QED BY <1>3, <1>4

\* A checkpoint is added twice only by saves that overlapped.
LEMMA StoreAddOK ==
  ASSUME Store!NamesOK, StoreIInv, NEW p \in Stores, Store!AddCheckpoint(p)
  PROVE  StoreIInv'
  <1> DEFINE k0 == [id |-> Cardinality(checkpoints), by |-> p, sess |-> op[p].sess,
                    agent |-> op[p].agent, content |-> op[p].content]
  <1>1. /\ op[p].pc = "add" /\ UNCHANGED <<sessions, turns, bound, returned>>
        /\ checkpoints' = checkpoints \cup {k0} /\ op' = [op EXCEPT ![p] = Store!Idle]
    BY StoreLibrary DEF Store!AddCheckpoint
  <1>2. op[p].sess \in Names /\ op[p].agent \in Owners /\ op[p].content \in Contents
    BY <1>1, StoreOpFields
  <1>3. Cardinality(checkpoints) \in Nat
    BY FS_CardinalityType DEF StoreIInv, StoreShapes
  <1>4. /\ k0 \in StoreCheckpoint /\ k0.by = p /\ k0.sess = op[p].sess /\ k0.agent = op[p].agent
        /\ k0.content = op[p].content
    BY <1>2, <1>3 DEF StoreCheckpoint
  <1> HIDE DEF k0
  <1>5. op \in [Stores -> StoreOps] /\ Store!Idle \in StoreOps /\ Store!Idle.pc = "idle"
    BY DEF StoreIInv, StoreShapes, Store!Idle, StoreOps
  <1>6. op' \in [Stores -> StoreOps] /\ op'[p] = Store!Idle /\ \A q \in Stores : q # p => op'[q] = op[q]
    BY <1>1, <1>5
  <1>7. \A q \in Stores : op'[q].pc \in {"idle", "number", "insert", "dedup", "add"}
    BY <1>6 DEF StoreOps
  <1>8. Store!TypeOK'
    BY <1>1, <1>2, <1>4, <1>7 DEF StoreIInv, Store!TypeOK
  <1>9. StoreShapes'
    BY <1>1, <1>4, <1>6, FS_AddElement DEF StoreIInv, StoreShapes
  <1>10. Store!TurnsAreGapless' /\ StoreMessageUnique' /\ StoreAnswerIsTurn'
    BY <1>1 DEF StoreIInv, Store!TurnsAreGapless, StoreMessageUnique, StoreAnswerIsTurn
  <1>11. StoreNumberNotAhead'
    BY <1>1, <1>5, <1>6 DEF StoreIInv, StoreNumberNotAhead, StoreTurnsOf
  <1>12. StoreSavedByBound'
    BY <1>1, <1>4, <1>5, <1>6 DEF StoreIInv, StoreSavedByBound
  <1>13. StoreNotSavedYet'
    BY <1>1, <1>4, <1>5, <1>6 DEF StoreIInv, StoreNotSavedYet
  <1>14. Store!DuplicatesNeedOverlap'
    <2>1. ~\E k \in checkpoints : k.by = p /\ k.agent = op[p].agent /\ k.content = op[p].content
      BY <1>1 DEF StoreIInv, StoreNotSavedYet
    <2> QED BY <1>1, <1>4, <2>1 DEF StoreIInv, Store!DuplicatesNeedOverlap
  <1> QED BY <1>8, <1>9, <1>10, <1>11, <1>12, <1>13, <1>14 DEF StoreIInv

-----------------------------------------------------------------------------
\* Every step of the processes on the session store keeps the invariant.
LEMMA StoreStepOK == ASSUME Store!NamesOK, StoreIInv, [Store!Next]_Store!svars PROVE StoreIInv'
  <1>1. CASE \E s \in Names : Store!CreateSession(s)
    BY <1>1, StoreCreateOK
  <1>2. CASE \E p \in Stores, s \in Names, m \in Messages \cup {Store!NoMsg} : Store!LookupMessage(p, s, m)
    BY <1>2, StoreLookupOK
  <1>3. CASE \E p \in Stores : Store!NumberTurn(p)
    BY <1>3, StoreNumberOK
  <1>4. CASE \E p \in Stores : Store!InsertTurn(p)
    BY <1>4, StoreInsertOK
  <1>5. CASE \E p \in Stores : Store!FindDuplicate(p)
    BY <1>5, StoreFindOK
  <1>6. CASE \E p \in Stores : Store!AddCheckpoint(p)
    BY <1>6, StoreAddOK
  <1>7. CASE \E p \in Stores, s \in Names, a \in Owners, c \in Contents : Store!BindSession(p, s, a, c)
    BY <1>7, StoreBindOK
  <1>8. CASE UNCHANGED Store!svars
    <2>1. UNCHANGED <<sessions, turns, bound, checkpoints, op, returned>>
      BY <1>8 DEF Store!svars
    <2> QED BY <2>1 DEF StoreIInv, Store!TypeOK, StoreShapes, Store!TurnsAreGapless,
                        StoreNumberNotAhead, StoreMessageUnique,
          StoreAnswerIsTurn, StoreSavedByBound, StoreNotSavedYet, Store!DuplicatesNeedOverlap, StoreTurnsOf
  <1> QED BY <1>1, <1>2, <1>3, <1>4, <1>5, <1>6, <1>7, <1>8 DEF Store!Next

\* What create_turn and save_checkpoint promise to writers that number, look up
\* and insert in separate statements, for any number of them: gapless turns, one
\* turn a message, one agent a session, no content twice by one process.
THEOREM SessionSafety ==
  ASSUME Store!NamesOK
  PROVE  Store!Spec => []Store!SessionsSafe
  <1>1. Store!Init => StoreIInv
    BY StoreInitOK
  <1>2. StoreIInv /\ [Store!Next]_Store!svars => StoreIInv'
    BY StoreStepOK
  <1>3. StoreIInv => Store!SessionsSafe
    BY StorePromises
  <1> QED BY <1>1, <1>2, <1>3, PTL DEF Store!Spec

-----------------------------------------------------------------------------
(* Search feedback: any reporters, citations, events and caps.             *)

\* The instance's operators on finite sets are those of the standard modules.
LEMMA FeedLibrary ==
  /\ \A S : Feed!Cardinality(S) = Cardinality(S)
  /\ \A S : Feed!IsFiniteSet(S) <=> IsFiniteSet(S)
  BY DEF Feed!Cardinality, Cardinality, Feed!IsFiniteSet, IsFiniteSet

FeedRows == [key : Events \X Cited, ev : Events, id : Cited]
FeedWorking == {"loop", "count", "insert"}
FeedCalls == [pc : FeedWorking \cup {"idle", "get", "set"}, ev : Events \cup {"none"}, ids : SUBSET Cited,
          todo : SUBSET Cited, cur : Cited \cup {"none"}, captured : Nat, read : Nat]

\* The full types; the key of a row is its report and citation.
FeedTypes ==
  /\ shown \subseteq Cited /\ epoch \in Nat /\ appended \in Nat
  /\ stats \in Seq(FeedRows) /\ report \in [Reporters -> FeedCalls]
  /\ consumer \in [epoch : Nat, size : Nat] /\ tainted \in BOOLEAN

\* What a report that is being worked on refers to.
FeedRefers ==
  \A p \in Reporters :
    /\ report[p].todo \subseteq report[p].ids
    /\ report[p].pc \in FeedWorking => report[p].ev \in Events
    /\ report[p].pc \in {"count", "insert"} => report[p].cur \in Cited
    /\ report[p].pc = "idle" => report[p].captured = 0

FeedKeyIsCitation == \A n \in DOMAIN stats : stats[n].key = <<stats[n].ev, stats[n].id>>

\* The reports that found room and have not inserted yet.
FeedInserting == {p \in Reporters : report[p].pc = "insert"}

\* Every one of them has read a table with room.
FeedRoomIsShared == Len(stats) + Cardinality(FeedInserting) <= RowCap - 1 + Cardinality(Reporters)

\* The citations that are in the table or accounted for.
FeedAccounted == dropped \cup {<<stats[n].ev, stats[n].id>> : n \in DOMAIN stats}

\* A citation that a report has passed is one of them.
FeedPassedIsRecorded ==
  \A p \in Reporters : report[p].pc \in FeedWorking =>
    \A id \in report[p].ids \ report[p].todo :
      (report[p].pc # "loop" /\ id = report[p].cur) \/ <<report[p].ev, id>> \in FeedAccounted

FeedAnsweredIsAccounted == \A a \in answered : \A id \in a.ids : <<a.ev, id>> \in FeedAccounted

\* Without overlapping bumps the epoch only grows.
FeedEpochIsAhead == ~tainted => consumer.epoch <= epoch

FeedTable == Feed!CountedOnce /\ FeedKeyIsCitation
FeedAnswers == FeedAnsweredIsAccounted /\ FeedPassedIsRecorded
FeedEpochs == FeedEpochIsAhead /\ Feed!EpochCoversAppends

FeedIInv == FeedTypes /\ FeedRefers /\ FeedTable /\ FeedRoomIsShared /\ FeedAnswers /\ FeedEpochs

-----------------------------------------------------------------------------
\* Sets of reporters are finite, and the cap is a positive number.
LEMMA FeedRoom ==
  ASSUME Feed!LimitsOK
  PROVE  /\ \A S \in SUBSET Reporters : IsFiniteSet(S) /\ Cardinality(S) \in Nat
                                         /\ Cardinality(S) <= Cardinality(Reporters)
         /\ RowCap \in Nat /\ RowCap > 0 /\ Cardinality(Reporters) \in Nat
  BY FS_Subset, FS_CardinalityType, FeedLibrary DEF Feed!LimitsOK

\* A step that starts no insert and adds no row keeps the room.
LEMMA FeedRoomKept ==
  ASSUME Feed!LimitsOK, FeedIInv, Len(stats') \in Nat, Len(stats') <= Len(stats), FeedInserting' \subseteq FeedInserting
  PROVE  FeedRoomIsShared'
  <1>1. FeedInserting \subseteq Reporters
    BY DEF FeedInserting
  <1>2. IsFiniteSet(FeedInserting) /\ Cardinality(FeedInserting) \in Nat
    BY <1>1, FeedRoom
  <1>3. Cardinality(FeedInserting') \in Nat /\ Cardinality(FeedInserting') <= Cardinality(FeedInserting)
    BY <1>2, FS_Subset, FS_CardinalityType
  <1>4. Len(stats) \in Nat
    BY DEF FeedIInv, FeedTypes
  <1> QED BY <1>2, <1>3, <1>4, FeedRoom DEF FeedIInv, FeedRoomIsShared

\* The reporter's record alone changes, to one that fits.
LEMMA FeedCallFits ==
  ASSUME FeedIInv, NEW p \in Reporters, NEW r \in FeedCalls, report' = [report EXCEPT ![p] = r],
         r.todo \subseteq r.ids, r.pc \in FeedWorking => r.ev \in Events,
         r.pc \in {"count", "insert"} => r.cur \in Cited, r.pc = "idle" => r.captured = 0
  PROVE  /\ report' \in [Reporters -> FeedCalls] /\ FeedRefers'
         /\ report'[p] = r /\ \A q \in Reporters \ {p} : report'[q] = report[q]
  <1>1. report \in [Reporters -> FeedCalls]
    BY DEF FeedIInv, FeedTypes
  <1>2. report'[p] = r /\ \A q \in Reporters \ {p} : report'[q] = report[q]
    BY <1>1
  <1> QED BY <1>1, <1>2 DEF FeedIInv, FeedRefers

\* A step that leaves the statistics alone keeps what is said of them.
LEMMA FeedTableQuiet ==
  ASSUME FeedIInv, UNCHANGED stats
  PROVE  FeedTable' /\ UNCHANGED DOMAIN stats
  BY DEF FeedIInv, FeedTable, Feed!CountedOnce, FeedKeyIsCitation

\* The accounts only grow, and one report goes on.
LEMMA FeedAnswersGrow ==
  ASSUME FeedIInv, FeedAccounted \subseteq FeedAccounted', NEW p \in Reporters,
         \A a \in answered' : a \in answered \/ \A id \in a.ids : <<a.ev, id>> \in FeedAccounted',
         \A q \in Reporters \ {p} : report'[q] = report[q],
         report'[p].pc \in FeedWorking =>
           \A id \in report'[p].ids \ report'[p].todo :
             (report'[p].pc # "loop" /\ id = report'[p].cur)
             \/ <<report'[p].ev, id>> \in FeedAccounted'
  PROVE  FeedAnswers'
  <1>1. FeedAnsweredIsAccounted'
    BY DEF FeedIInv, FeedAnswers, FeedAnsweredIsAccounted
  <1>2. FeedPassedIsRecorded'
    <2>1. ASSUME NEW q \in Reporters, report'[q].pc \in FeedWorking,
                 NEW id \in report'[q].ids \ report'[q].todo
          PROVE  (report'[q].pc # "loop" /\ id = report'[q].cur) \/ <<report'[q].ev, id>> \in FeedAccounted'
      <3>1. CASE q = p
        BY <2>1, <3>1
      <3>2. CASE q # p
        BY <2>1, <3>2 DEF FeedIInv, FeedAnswers, FeedPassedIsRecorded
      <3> QED BY <3>1, <3>2
    <2> QED BY <2>1 DEF FeedPassedIsRecorded
  <1> QED BY <1>1, <1>2 DEF FeedAnswers

\* No report moves.
LEMMA FeedCallsQuiet ==
  ASSUME FeedIInv, FeedAccounted \subseteq FeedAccounted', UNCHANGED <<answered, report>>
  PROVE  FeedAnswers' /\ FeedRefers'
  BY DEF FeedIInv, FeedAnswers, FeedAnsweredIsAccounted, FeedPassedIsRecorded, FeedRefers

\* The table and its epoch stay as they are, and a report that changes has appended
\* as many rows after the step as before.
LEMMA FeedEpochsQuiet ==
  ASSUME FeedIInv, UNCHANGED <<epoch, consumer, appended>>, tainted => tainted', Feed!Unbumped' = {} => Feed!Unbumped = {} \/ tainted'
  PROVE  FeedEpochs'
  BY DEF FeedIInv, FeedEpochs, FeedEpochIsAhead, Feed!EpochCoversAppends, FeedTypes

-----------------------------------------------------------------------------
(* One lemma per action: it keeps the invariant.                           *)

\* A step of one report in which the table stays as it is.
LEMMA FeedCallStep ==
  ASSUME Feed!LimitsOK, FeedIInv, NEW p \in Reporters,
         NEW r \in FeedCalls, report' = [report EXCEPT ![p] = r],
         r.todo \subseteq r.ids, r.pc \in FeedWorking => r.ev \in Events,
         r.pc \in {"count", "insert"} => r.cur \in Cited, r.pc = "idle" => r.captured = 0,
         r.pc # "insert", dropped \subseteq dropped',
         r.pc \in FeedWorking =>
           \A id \in r.ids \ r.todo :
             (r.pc # "loop" /\ id = r.cur) \/ <<r.ev, id>> \in FeedAccounted',
         r.captured = report[p].captured \/ (r.captured = 0 /\ (report[p].captured > 0 => tainted')),
         tainted' \in BOOLEAN, tainted => tainted',
         \A a \in answered' : a \in answered \/ \A id \in a.ids : <<a.ev, id>> \in FeedAccounted',
         UNCHANGED <<shown, stats, epoch, consumer, appended>>
  PROVE  FeedIInv'
  <1>1. /\ report' \in [Reporters -> FeedCalls] /\ FeedRefers'
        /\ report'[p] = r /\ \A q \in Reporters \ {p} : report'[q] = report[q]
    BY FeedCallFits
  <1>2. FeedTypes'
    BY <1>1 DEF FeedIInv, FeedTypes
  <1>3. FeedTable'
    BY FeedTableQuiet
  <1>4. FeedInserting' \subseteq FeedInserting
    BY <1>1 DEF FeedInserting
  <1>5. FeedRoomIsShared'
    BY <1>4, FeedRoomKept DEF FeedIInv, FeedTypes
  <1>6. FeedAccounted \subseteq FeedAccounted'
    BY DEF FeedAccounted
  <1>7. FeedAnswers'
    BY <1>1, <1>6, FeedAnswersGrow
  <1>8. Feed!Unbumped' = {} => Feed!Unbumped = {} \/ tainted'
    <2>1. ASSUME Feed!Unbumped' = {}, ~tainted', NEW q \in Feed!Unbumped
          PROVE  FALSE
      <3>1. q \in Reporters /\ report[q].captured > 0
        BY <2>1 DEF Feed!Unbumped
      <3>2. report'[q].captured = report[q].captured
        BY <1>1, <2>1, <3>1
      <3>3. q \in Feed!Unbumped'
        BY <3>1, <3>2 DEF Feed!Unbumped
      <3> QED BY <2>1, <3>3
    <2> QED BY <2>1
  <1>9. FeedEpochs'
    BY <1>8, FeedEpochsQuiet
  <1> QED BY <1>1, <1>2, <1>3, <1>5, <1>7, <1>9 DEF FeedIInv

\* A step that leaves the answers and the taint as they are, too.
LEMMA FeedQuietCallStep ==
  ASSUME Feed!LimitsOK, FeedIInv, NEW p \in Reporters,
         NEW r \in FeedCalls, report' = [report EXCEPT ![p] = r],
         r.todo \subseteq r.ids, r.pc \in FeedWorking => r.ev \in Events,
         r.pc \in {"count", "insert"} => r.cur \in Cited, r.pc # "idle", r.pc # "insert",
         dropped \subseteq dropped',
         r.pc \in FeedWorking =>
           \A id \in r.ids \ r.todo :
             (r.pc # "loop" /\ id = r.cur) \/ <<r.ev, id>> \in FeedAccounted',
         r.captured = report[p].captured,
         UNCHANGED <<shown, stats, epoch, consumer, appended, answered, tainted>>
  PROVE  FeedIInv'
  <1>1. tainted' \in BOOLEAN /\ (tainted => tainted')
    BY DEF FeedIInv, FeedTypes
  <1>2. \A a \in answered' : a \in answered \/ \A id \in a.ids : <<a.ev, id>> \in FeedAccounted'
    OBVIOUS
  <1>3. r.captured = report[p].captured \/ (r.captured = 0 /\ (report[p].captured > 0 => tainted'))
    OBVIOUS
  <1>4. r.pc = "idle" => r.captured = 0
    OBVIOUS
  <1> QED BY <1>1, <1>2, <1>3, <1>4, FeedCallStep, Zenon

\* A report starts with its citations still to be judged.
LEMMA FeedReportKeeps ==
  ASSUME Feed!LimitsOK, FeedIInv, NEW p \in Reporters, NEW ev \in Events, NEW ids \in SUBSET Cited,
         Feed!Report(p, ev, ids)
  PROVE  FeedIInv'
  <1> DEFINE r == [Feed!NoReport EXCEPT !.pc = "loop", !.ev = ev, !.ids = ids, !.todo = ids]
  <1>1. /\ r.pc = "loop" /\ r.ev = ev /\ r.ids = ids /\ r.todo = ids /\ r.captured = 0
        /\ r \in FeedCalls
    BY DEF Feed!NoReport, FeedCalls, FeedWorking
  <1>2. report[p].captured = 0
    BY DEF Feed!Report, FeedIInv, FeedRefers
  <1>3. report' = [report EXCEPT ![p] = r]
        /\ UNCHANGED <<shown, stats, epoch, consumer, appended, answered, dropped, tainted>>
    BY DEF Feed!Report
  <1> HIDE DEF r
  <1>4. tainted \in BOOLEAN
    BY DEF FeedIInv, FeedTypes
  <1> QED BY <1>1, <1>2, <1>3, <1>4, FeedQuietCallStep

\* The record of a call, and what an EXCEPT leaves of it.
LEMMA FeedCallFacts ==
  ASSUME FeedIInv, NEW p \in Reporters
  PROVE  /\ report[p] \in FeedCalls /\ tainted \in BOOLEAN /\ report[p].todo \subseteq report[p].ids
         /\ report[p].pc \in FeedWorking => report[p].ev \in Events
         /\ report[p].pc \in {"count", "insert"} => report[p].cur \in Cited
         /\ report[p].pc \in FeedWorking =>
              \A id \in report[p].ids \ report[p].todo :
                (report[p].pc # "loop" /\ id = report[p].cur) \/ <<report[p].ev, id>> \in FeedAccounted
  BY DEF FeedIInv, FeedTypes, FeedRefers, FeedAnswers, FeedPassedIsRecorded

\* A judged citation is on its way to the table or turned down.
LEMMA FeedJudgeKeeps ==
  ASSUME Feed!LimitsOK, FeedIInv, NEW p \in Reporters, NEW id \in Cited, Feed!Judge(p, id)
  PROVE  FeedIInv'
  <1> DEFINE c == report[p]
  <1>1. /\ c.pc = "loop" /\ id \in c.todo
        /\ UNCHANGED <<shown, stats, epoch, consumer, appended, answered, tainted>>
    BY DEF Feed!Judge
  <1>2. /\ c \in FeedCalls /\ tainted \in BOOLEAN /\ c.todo \subseteq c.ids /\ c.ev \in Events
        /\ \A i \in c.ids \ c.todo : <<c.ev, i>> \in FeedAccounted
    BY <1>1, FeedCallFacts DEF FeedWorking
  <1>3. CASE id \in shown
    <2> DEFINE r == [c EXCEPT !.pc = "count", !.cur = id, !.todo = c.todo \ {id}]
    <2>1. /\ r \in FeedCalls /\ r.pc = "count" /\ r.cur = id /\ r.todo = c.todo \ {id} /\ r.ids = c.ids
          /\ r.ev = c.ev /\ r.captured = c.captured
      BY <1>2 DEF FeedCalls, FeedWorking
    <2>2. report' = [report EXCEPT ![p] = r] /\ dropped' = dropped
      BY <1>3 DEF Feed!Judge, FeedIInv, FeedTypes, FeedCalls
    <2>3. FeedAccounted' = FeedAccounted
      BY <1>1, <2>2 DEF FeedAccounted
    <2> HIDE DEF r
    <2> QED BY <1>1, <1>2, <2>1, <2>2, <2>3, FeedQuietCallStep
  <1>4. CASE id \notin shown
    <2> DEFINE r == [c EXCEPT !.todo = c.todo \ {id}]
    <2>1. /\ r \in FeedCalls /\ r.pc = "loop" /\ r.todo = c.todo \ {id} /\ r.ids = c.ids
          /\ r.ev = c.ev /\ r.captured = c.captured
      BY <1>1, <1>2 DEF FeedCalls, FeedWorking
    <2>2. report' = [report EXCEPT ![p] = r] /\ dropped' = dropped \cup {<<c.ev, id>>}
      BY <1>4 DEF Feed!Judge, FeedIInv, FeedTypes, FeedCalls
    <2>3. FeedAccounted' = FeedAccounted \cup {<<c.ev, id>>}
      BY <1>1, <2>2 DEF FeedAccounted
    <2> HIDE DEF r
    <2> QED BY <1>1, <1>2, <2>1, <2>2, <2>3, FeedQuietCallStep
  <1> QED BY <1>3, <1>4

\* A store error ends the report early and leaves the epoch alone.
LEMMA FeedStoreErrorKeeps ==
  ASSUME Feed!LimitsOK, FeedIInv, NEW p \in Reporters, Feed!StoreError(p)
  PROVE  FeedIInv'
  <1>1. /\ Feed!NoReport \in FeedCalls /\ Feed!NoReport.pc = "idle" /\ Feed!NoReport.todo = {} /\ Feed!NoReport.ids = {}
        /\ Feed!NoReport.captured = 0
    BY DEF Feed!NoReport, FeedCalls, FeedWorking
  <1>2. /\ report' = [report EXCEPT ![p] = Feed!NoReport]
        /\ tainted' = (tainted \/ report[p].captured > 0)
        /\ UNCHANGED <<shown, stats, epoch, consumer, appended, answered, dropped>>
    BY DEF Feed!StoreError
  <1>3. tainted' \in BOOLEAN /\ (tainted => tainted') /\ (report[p].captured > 0 => tainted')
    BY <1>2
  <1>4. Feed!NoReport.pc \notin FeedWorking
    BY <1>1 DEF FeedWorking
  <1> QED BY <1>1, <1>2, <1>3, <1>4, FeedCallStep

\* A report through with its citations announces its rows, or has none.
LEMMA FeedEndLoopKeeps ==
  ASSUME Feed!LimitsOK, FeedIInv, NEW p \in Reporters, Feed!EndLoop(p)
  PROVE  FeedIInv'
  <1> DEFINE c == report[p]
             a == [ev |-> c.ev, ids |-> c.ids]
  <1>1. /\ c.pc = "loop" /\ c.todo = {} /\ answered' = answered \cup {a}
        /\ UNCHANGED <<shown, stats, epoch, consumer, appended, dropped, tainted>>
    BY DEF Feed!EndLoop
  <1>2. /\ c \in FeedCalls /\ tainted \in BOOLEAN
        /\ \A i \in c.ids : <<c.ev, i>> \in FeedAccounted
    BY <1>1, FeedCallFacts DEF FeedWorking
  <1>7. tainted' \in BOOLEAN /\ (tainted => tainted')
    BY <1>1, <1>2
  <1>3. FeedAccounted' = FeedAccounted
    BY <1>1 DEF FeedAccounted
  <1>4. \A b \in answered' : b \in answered \/ \A i \in b.ids : <<b.ev, i>> \in FeedAccounted'
    BY <1>1, <1>2, <1>3
  <1> HIDE DEF a
  <1>5. CASE Feed!Bumps(c)
    <2> DEFINE r == [c EXCEPT !.pc = "get"]
    <2>1. /\ r \in FeedCalls /\ r.pc = "get" /\ r.todo = {} /\ r.captured = c.captured
      BY <1>1, <1>2 DEF FeedCalls, FeedWorking
    <2>4. /\ r.todo \subseteq r.ids /\ r.pc \notin {"count", "insert"} /\ r.pc # "idle" /\ r.pc # "insert"
          /\ dropped \subseteq dropped'
      BY <1>1, <2>1
    <2>2. report' = [report EXCEPT ![p] = r]
      BY <1>5 DEF Feed!EndLoop, FeedIInv, FeedTypes, FeedCalls
    <2>3. r.pc \notin FeedWorking
      BY <2>1 DEF FeedWorking
    <2> HIDE DEF r
    <2> QED BY <1>1, <1>4, <1>7, <2>1, <2>2, <2>3, <2>4, FeedCallStep, Zenon
  <1>6. CASE ~Feed!Bumps(c)
    <2>1. /\ Feed!NoReport \in FeedCalls /\ Feed!NoReport.pc = "idle" /\ Feed!NoReport.todo = {} /\ Feed!NoReport.ids = {}
          /\ Feed!NoReport.captured = 0 /\ Feed!NoReport.pc \notin FeedWorking
      BY DEF Feed!NoReport, FeedCalls, FeedWorking
    <2>2. report' = [report EXCEPT ![p] = Feed!NoReport]
      BY <1>6 DEF Feed!EndLoop
    <2>3. c.captured = 0
      BY <1>2, <1>6 DEF Feed!Bumps, FeedCalls
    <2>4. /\ Feed!NoReport.todo \subseteq Feed!NoReport.ids /\ Feed!NoReport.pc \notin {"count", "insert"}
          /\ Feed!NoReport.pc # "insert" /\ dropped \subseteq dropped' /\ Feed!NoReport.captured = c.captured
      BY <1>1, <2>1, <2>3
    <2> QED BY <1>1, <1>4, <1>7, <2>1, <2>2, <2>4, FeedCallStep, Zenon
  <1> QED BY <1>5, <1>6

\* The reporter reads the epoch before it raises it.
LEMMA FeedGetEpochKeeps ==
  ASSUME Feed!LimitsOK, FeedIInv, NEW p \in Reporters, Feed!GetEpoch(p)
  PROVE  FeedIInv'
  <1> DEFINE c == report[p]
             r == [c EXCEPT !.pc = "set", !.read = epoch]
  <1>1. /\ c \in FeedCalls /\ tainted \in BOOLEAN /\ c.todo \subseteq c.ids /\ epoch \in Nat
    BY FeedCallFacts DEF FeedIInv, FeedTypes
  <1>2. /\ r \in FeedCalls /\ r.pc = "set" /\ r.todo = c.todo /\ r.ids = c.ids /\ r.captured = c.captured
        /\ r.pc \notin FeedWorking
    BY <1>1 DEF FeedCalls, FeedWorking
  <1>3. /\ report' = [report EXCEPT ![p] = r]
        /\ UNCHANGED <<shown, stats, epoch, consumer, appended, answered, dropped, tainted>>
    BY DEF Feed!GetEpoch, FeedIInv, FeedTypes, FeedCalls
  <1> HIDE DEF r
  <1> QED BY <1>1, <1>2, <1>3, FeedQuietCallStep

\* A citation under the cap goes on to its insert, one over it is dropped on record.
LEMMA FeedCheckCapKeeps ==
  ASSUME Feed!LimitsOK, FeedIInv, NEW p \in Reporters, Feed!CheckCap(p)
  PROVE  FeedIInv'
  <1> DEFINE c == report[p]
  <1>1. /\ c.pc = "count"
        /\ UNCHANGED <<shown, stats, epoch, consumer, appended, answered, tainted>>
    BY DEF Feed!CheckCap
  <1>2. /\ c \in FeedCalls /\ tainted \in BOOLEAN /\ c.todo \subseteq c.ids /\ c.ev \in Events /\ c.cur \in Cited
        /\ \A i \in c.ids \ c.todo : i = c.cur \/ <<c.ev, i>> \in FeedAccounted
    BY <1>1, FeedCallFacts DEF FeedWorking
  <1>3. CASE Feed!Full
    <2> DEFINE r == [c EXCEPT !.pc = "loop", !.cur = "none"]
    <2>1. /\ r \in FeedCalls /\ r.pc = "loop" /\ r.todo = c.todo /\ r.ids = c.ids
          /\ r.ev = c.ev /\ r.captured = c.captured
      BY <1>2 DEF FeedCalls, FeedWorking
    <2>2. report' = [report EXCEPT ![p] = r] /\ dropped' = dropped \cup {<<c.ev, c.cur>>}
      BY <1>3 DEF Feed!CheckCap, FeedIInv, FeedTypes, FeedCalls
    <2>3. FeedAccounted' = FeedAccounted \cup {<<c.ev, c.cur>>}
      BY <1>1, <2>2 DEF FeedAccounted
    <2> HIDE DEF r
    <2> QED BY <1>1, <1>2, <2>1, <2>2, <2>3, FeedQuietCallStep
  <1>4. CASE ~Feed!Full
    <2> DEFINE r == [c EXCEPT !.pc = "insert"]
    <2>1. /\ r \in FeedCalls /\ r.pc = "insert" /\ r.cur = c.cur /\ r.todo = c.todo /\ r.ids = c.ids
          /\ r.ev = c.ev /\ r.captured = c.captured
      BY <1>2 DEF FeedCalls, FeedWorking
    <2>2. report' = [report EXCEPT ![p] = r] /\ dropped' = dropped
      BY <1>4 DEF Feed!CheckCap, FeedIInv, FeedTypes, FeedCalls
    <2>3. FeedAccounted' = FeedAccounted
      BY <1>1, <2>2 DEF FeedAccounted
    <2> HIDE DEF r
    <2>4. /\ report' \in [Reporters -> FeedCalls] /\ FeedRefers'
          /\ report'[p] = r /\ \A q \in Reporters \ {p} : report'[q] = report[q]
      BY <1>2, <2>1, <2>2, FeedCallFits
    <2>5. FeedTypes'
      BY <1>1, <2>4 DEF FeedIInv, FeedTypes
    <2>6. FeedAnswers'
      BY <1>1, <1>2, <2>1, <2>3, <2>4, FeedAnswersGrow
    <2>7. FeedRoomIsShared'
      <3>1. FeedInserting' \subseteq Reporters
        BY DEF FeedInserting
      <3>2. /\ Cardinality(FeedInserting') \in Nat /\ Cardinality(FeedInserting') <= Cardinality(Reporters)
            /\ RowCap \in Nat /\ Cardinality(Reporters) \in Nat
        BY <3>1, FeedRoom
      <3>3. Len(stats) \in Nat /\ Len(stats) <= RowCap - 1
        BY <1>4, <3>2 DEF Feed!Full, FeedIInv, FeedTypes
      <3> QED BY <1>1, <3>2, <3>3 DEF FeedRoomIsShared
    <2>8. Feed!Unbumped' = Feed!Unbumped
      BY <2>1, <2>4 DEF Feed!Unbumped
    <2>9. FeedEpochs'
      BY <1>1, <2>8, FeedEpochsQuiet
    <2> QED BY <1>1, <2>4, <2>5, <2>6, <2>7, <2>9, FeedTableQuiet DEF FeedIInv
  <1> QED BY <1>3, <1>4

\* A citation is recorded once for its event, whoever reports it.
LEMMA FeedRecordKeeps ==
  ASSUME Feed!LimitsOK, FeedIInv, NEW p \in Reporters, Feed!RecordEvent(p)
  PROVE  FeedIInv'
  <1> DEFINE c == report[p]
             k == <<c.ev, c.cur>>
             row == [key |-> k, ev |-> c.ev, id |-> c.cur]
  <1>1. c.pc = "insert" /\ UNCHANGED <<shown, epoch, consumer, answered, dropped, tainted>>
    BY DEF Feed!RecordEvent
  <1>2. /\ c \in FeedCalls /\ tainted \in BOOLEAN /\ c.todo \subseteq c.ids /\ c.ev \in Events /\ c.cur \in Cited
        /\ \A i \in c.ids \ c.todo : i = c.cur \/ <<c.ev, i>> \in FeedAccounted
    BY <1>1, FeedCallFacts DEF FeedWorking
  <1>3. row \in FeedRows /\ row.key = k /\ row.ev = c.ev /\ row.id = c.cur
    BY <1>2 DEF FeedRows
  <1>4. /\ stats \in Seq(FeedRows) /\ Len(stats) \in Nat /\ DOMAIN stats = 1..Len(stats)
        /\ \A n \in DOMAIN stats : stats[n].key = <<stats[n].ev, stats[n].id>>
    BY DEF FeedIInv, FeedTypes, FeedTable, FeedKeyIsCitation
  <1>5. CASE k \in Feed!Keys
    <2> DEFINE r == [c EXCEPT !.pc = "loop", !.cur = "none"]
    <2>1. /\ r \in FeedCalls /\ r.pc = "loop" /\ r.todo = c.todo /\ r.ids = c.ids
          /\ r.ev = c.ev /\ r.captured = c.captured
      BY <1>2 DEF FeedCalls, FeedWorking
    <2>2. report' = [report EXCEPT ![p] = r] /\ stats' = stats /\ appended' = appended
      BY <1>5 DEF Feed!RecordEvent, Feed!IsDuplicate, Feed!Key, FeedIInv, FeedTypes, FeedCalls
    <2>3. k \in FeedAccounted
      BY <1>4, <1>5 DEF Feed!Keys, FeedAccounted
    <2>4. FeedAccounted' = FeedAccounted
      BY <1>1, <2>2 DEF FeedAccounted
    <2> HIDE DEF r
    <2> QED BY <1>1, <1>2, <2>1, <2>2, <2>3, <2>4, FeedQuietCallStep
  <1>6. CASE k \notin Feed!Keys
    <2> DEFINE r == [c EXCEPT !.pc = "loop", !.cur = "none", !.captured = c.captured + 1]
    <2>0. c.captured \in Nat /\ c.captured + 1 \in Nat /\ c.captured + 1 > 0
      BY <1>2 DEF FeedCalls
    <2>1. /\ r \in FeedCalls /\ r.pc = "loop" /\ r.todo = c.todo /\ r.ids = c.ids
          /\ r.ev = c.ev /\ r.captured = c.captured + 1 /\ r.captured > 0
      BY <1>2, <2>0 DEF FeedCalls, FeedWorking
    <2>2. report' = [report EXCEPT ![p] = r] /\ stats' = Append(stats, row) /\ appended' = appended + 1
      BY <1>6 DEF Feed!RecordEvent, Feed!IsDuplicate, Feed!Key, FeedIInv, FeedTypes, FeedCalls
    <2> HIDE DEF r, row
    <2>3. /\ report' \in [Reporters -> FeedCalls] /\ FeedRefers'
          /\ report'[p] = r /\ \A q \in Reporters \ {p} : report'[q] = report[q]
      BY <1>2, <2>1, <2>2, FeedCallFits
    <2>4. /\ stats' \in Seq(FeedRows) /\ Len(stats') = Len(stats) + 1 /\ DOMAIN stats' = 1..(Len(stats) + 1)
          /\ stats'[Len(stats) + 1] = row /\ \A n \in DOMAIN stats : stats'[n] = stats[n]
      BY <1>3, <1>4, <2>2
    <2>5. FeedTypes'
      BY <1>1, <2>2, <2>3, <2>4 DEF FeedIInv, FeedTypes
    <2>6. \A n \in DOMAIN stats' : n \in DOMAIN stats \/ n = Len(stats) + 1
      BY <1>4, <2>4
    <2>7. FeedKeyIsCitation'
      BY <1>3, <1>4, <2>4, <2>6 DEF FeedKeyIsCitation
    <2>8. \A n \in DOMAIN stats : ~(stats[n].ev = c.ev /\ stats[n].id = c.cur)
      BY <1>4, <1>6 DEF Feed!Keys
    <2>9. Feed!CountedOnce'
      <3>1. ASSUME NEW m \in DOMAIN stats', NEW n \in DOMAIN stats',
                   stats'[m].ev = stats'[n].ev, stats'[m].id = stats'[n].id
            PROVE  m = n
        <4>1. CASE m \in DOMAIN stats /\ n \in DOMAIN stats
          BY <2>4, <3>1, <4>1 DEF FeedIInv, FeedTable, Feed!CountedOnce
        <4>2. CASE m = Len(stats) + 1 /\ n \in DOMAIN stats
          BY <1>3, <2>4, <2>8, <3>1, <4>2
        <4>3. CASE n = Len(stats) + 1 /\ m \in DOMAIN stats
          BY <1>3, <2>4, <2>8, <3>1, <4>3
        <4> QED BY <2>6, <4>1, <4>2, <4>3
      <3> QED BY <3>1 DEF Feed!CountedOnce
    <2>10. FeedAccounted \subseteq FeedAccounted' /\ k \in FeedAccounted'
      <3>1. k = <<stats'[Len(stats) + 1].ev, stats'[Len(stats) + 1].id>> /\ Len(stats) + 1 \in DOMAIN stats'
        BY <1>3, <1>4, <2>4
      <3>2. \A n \in DOMAIN stats : n \in DOMAIN stats'
        BY <1>4, <2>4
      <3> QED BY <1>1, <2>4, <3>1, <3>2 DEF FeedAccounted
    <2>11. FeedAnswers'
      BY <1>1, <1>2, <2>1, <2>3, <2>10, FeedAnswersGrow
    <2>12. FeedRoomIsShared'
      <3>1. FeedInserting \subseteq Reporters /\ p \in FeedInserting /\ FeedInserting' = FeedInserting \ {p}
        BY <1>1, <2>1, <2>3 DEF FeedInserting
      <3>2. IsFiniteSet(FeedInserting) /\ Cardinality(FeedInserting) \in Nat
        BY <3>1, FeedRoom
      <3>3. Cardinality(FeedInserting') = Cardinality(FeedInserting) - 1
        BY <3>1, <3>2, FS_RemoveElement
      <3> QED BY <1>4, <2>4, <3>2, <3>3, FeedRoom DEF FeedIInv, FeedRoomIsShared
    <2>13. p \in Feed!Unbumped'
      BY <2>1, <2>3 DEF Feed!Unbumped
    <2>14. FeedEpochs'
      BY <1>1, <2>13 DEF FeedIInv, FeedEpochs, FeedEpochIsAhead, Feed!EpochCoversAppends
    <2> QED BY <2>3, <2>5, <2>7, <2>9, <2>11, <2>12, <2>14 DEF FeedIInv, FeedTable
  <1> QED BY <1>5, <1>6

\* The epoch written back is past the one the rows were recorded under.
LEMMA FeedSetEpochKeeps ==
  ASSUME Feed!LimitsOK, FeedIInv, NEW p \in Reporters, Feed!SetEpoch(p)
  PROVE  FeedIInv'
  <1>1. /\ report[p].pc = "set" /\ epoch' = report[p].read + 1
        /\ tainted' = (tainted \/ epoch # report[p].read)
        /\ report' = [report EXCEPT ![p] = Feed!NoReport]
        /\ UNCHANGED <<shown, stats, consumer, appended, answered, dropped>>
    BY DEF Feed!SetEpoch
  <1>2. /\ Feed!NoReport \in FeedCalls /\ Feed!NoReport.pc = "idle" /\ Feed!NoReport.todo = {} /\ Feed!NoReport.ids = {}
        /\ Feed!NoReport.captured = 0 /\ Feed!NoReport.pc \notin FeedWorking /\ Feed!NoReport.pc \notin {"count", "insert"}
    BY DEF Feed!NoReport, FeedCalls, FeedWorking
  <1>3. /\ report' \in [Reporters -> FeedCalls] /\ FeedRefers'
        /\ report'[p] = Feed!NoReport /\ \A q \in Reporters \ {p} : report'[q] = report[q]
    BY <1>1, <1>2, FeedCallFits
  <1>4. report[p].read \in Nat /\ tainted \in BOOLEAN
    BY FeedCallFacts DEF FeedCalls
  <1>5. FeedTypes'
    BY <1>1, <1>3, <1>4 DEF FeedIInv, FeedTypes
  <1>6. FeedAccounted' = FeedAccounted
    BY <1>1 DEF FeedAccounted
  <1>7. FeedAnswers'
    BY <1>1, <1>2, <1>3, <1>6, FeedAnswersGrow
  <1>8. FeedInserting' \subseteq FeedInserting
    BY <1>2, <1>3 DEF FeedInserting
  <1>9. FeedRoomIsShared'
    BY <1>1, <1>8, FeedRoomKept DEF FeedIInv, FeedTypes
  <1>10. FeedEpochs'
    <2>1. ~tainted' => ~tainted /\ epoch' = epoch + 1
      BY <1>1
    <2>2. ~tainted' => consumer'.epoch < epoch'
      BY <1>1, <2>1 DEF FeedIInv, FeedTypes, FeedEpochs, FeedEpochIsAhead
    <2> QED BY <1>1, <1>4, <2>2, <1>5 DEF FeedTypes, FeedEpochs, FeedEpochIsAhead,
                                          Feed!EpochCoversAppends
  <1> QED BY <1>1, <1>3, <1>5, <1>7, <1>9, <1>10, FeedTableQuiet DEF FeedIInv

\* A cache that rebuilds takes the epoch and the rows of that moment.
LEMMA FeedRebuildKeeps ==
  ASSUME Feed!LimitsOK, FeedIInv, Feed!Rebuild
  PROVE  FeedIInv'
  <1>1. /\ consumer' = [epoch |-> epoch, size |-> appended]
        /\ UNCHANGED <<shown, stats, epoch, report, appended, answered, dropped, tainted>>
    BY DEF Feed!Rebuild
  <1>2. FeedTypes'
    BY <1>1 DEF FeedIInv, FeedTypes
  <1>3. FeedEpochs'
    BY <1>1, <1>2 DEF FeedIInv, FeedTypes, FeedEpochs, FeedEpochIsAhead, Feed!EpochCoversAppends
  <1>4. FeedAnswers' /\ FeedRefers'
    BY <1>1, FeedCallsQuiet DEF FeedAccounted
  <1>5. FeedRoomIsShared'
    BY <1>1 DEF FeedIInv, FeedRoomIsShared, FeedInserting
  <1> QED BY <1>1, <1>2, <1>3, <1>4, <1>5, FeedTableQuiet DEF FeedIInv

\* A purge drops the oldest rows, on record.
LEMMA FeedPurgeKeeps ==
  ASSUME Feed!LimitsOK, FeedIInv, NEW keep \in Nat, Feed!Purge(keep)
  PROVE  FeedIInv'
  <1> DEFINE surplus == Len(stats) - keep
             gone == SubSeq(stats, 1, surplus)
  <1>1. /\ keep < Len(stats) /\ stats' = SubSeq(stats, surplus + 1, Len(stats))
        /\ dropped' = dropped \cup {<<gone[n].ev, gone[n].id>> : n \in DOMAIN gone}
        /\ UNCHANGED <<shown, epoch, report, consumer, appended, answered, tainted>>
    BY DEF Feed!Purge
  <1>2. /\ stats \in Seq(FeedRows) /\ Len(stats) \in Nat /\ DOMAIN stats = 1..Len(stats)
        /\ surplus \in Nat /\ surplus <= Len(stats) /\ surplus + keep = Len(stats)
    <2>1. stats \in Seq(FeedRows)
      BY DEF FeedIInv, FeedTypes
    <2>2. Len(stats) \in Nat /\ DOMAIN stats = 1..Len(stats)
      BY <2>1
    <2> QED BY <1>1, <2>1, <2>2
  <1>3. /\ gone \in Seq(FeedRows) /\ DOMAIN gone = 1..surplus /\ \A n \in 1..surplus : gone[n] = stats[n]
    BY <1>2
  <1>4. /\ stats' \in Seq(FeedRows) /\ Len(stats') = keep /\ DOMAIN stats' = 1..keep
        /\ \A n \in 1..keep : stats'[n] = stats[surplus + n]
    <2> DEFINE L == Len(stats)
               s == SubSeq(stats, surplus + 1, L)
    <2>1. surplus + 1 \in 1..(L + 1) /\ L \in 0..L /\ L - (surplus + 1) + 1 = keep
      BY <1>2
    <2> HIDE DEF surplus
    <2>2. \A i \in (surplus + 1)..L : stats[i] \in FeedRows
      BY <1>2
    <2>6. /\ surplus + 1 \in Int /\ L \in Int /\ keep \in Nat /\ (surplus + 1 <= L \/ (surplus + 1 > L /\ keep = 0))
      BY <1>1, <1>2, <2>1
    <2>3. /\ s \in Seq(FeedRows) /\ Len(s) = L - (surplus + 1) + 1
          /\ \A i \in 1..(L - (surplus + 1) + 1) : s[i] = stats[(surplus + 1) + i - 1]
      BY <2>1, <2>2, <2>6, SubSeqProperties
    <2>4. \A i \in 1..keep : (surplus + 1) + i - 1 = surplus + i
      BY <1>2
    <2>5. DOMAIN s = 1..keep
      BY <2>1, <2>3
    <2> QED BY <1>1, <2>1, <2>3, <2>4, <2>5
  <1> HIDE DEF surplus, gone
  <1>5. \A n \in 1..keep : surplus + n \in DOMAIN stats
    BY <1>2
  <1>6. FeedTypes'
    BY <1>1, <1>4 DEF FeedIInv, FeedTypes
  <1>7. FeedTable'
    <2>1. \A m, n \in 1..keep : surplus + m = surplus + n => m = n
      BY <1>2
    <2>2. Feed!CountedOnce'
      BY <1>4, <1>5, <2>1 DEF FeedIInv, FeedTable, Feed!CountedOnce
    <2>3. FeedKeyIsCitation'
      BY <1>4, <1>5 DEF FeedIInv, FeedTable, FeedKeyIsCitation
    <2> QED BY <2>2, <2>3 DEF FeedTable
  <1>8. FeedAccounted \subseteq FeedAccounted'
    <2>1. ASSUME NEW n \in DOMAIN stats
          PROVE  <<stats[n].ev, stats[n].id>> \in FeedAccounted'
      <3>1. CASE n <= surplus
        <4>1. n \in DOMAIN gone /\ gone[n] = stats[n]
          BY <1>2, <1>3, <3>1
        <4> QED BY <1>1, <4>1 DEF FeedAccounted
      <3>2. CASE n > surplus
        <4>1. n - surplus \in 1..keep /\ surplus + (n - surplus) = n
          BY <1>2, <3>2
        <4>2. n - surplus \in DOMAIN stats' /\ stats'[n - surplus] = stats[n]
          BY <1>4, <4>1
        <4> QED BY <4>2 DEF FeedAccounted
      <3> QED BY <1>2, <3>1, <3>2
    <2> QED BY <1>1, <2>1 DEF FeedAccounted
  <1>9. FeedAnswers' /\ FeedRefers'
    BY <1>1, <1>8, FeedCallsQuiet
  <1>10. FeedInserting' = FeedInserting
    BY <1>1 DEF FeedInserting
  <1>11. FeedRoomIsShared'
    <2>1. Len(stats') \in Nat /\ Len(stats') <= Len(stats)
      <3>1. keep < Len(stats) /\ Len(stats) \in Nat /\ Len(stats') = keep
        BY <1>1, <1>2, <1>4
      <3> QED BY <3>1
    <2>2. FeedInserting' \subseteq FeedInserting
      BY <1>10
    <2> QED BY <2>1, <2>2, FeedRoomKept
  <1>12. Feed!Unbumped' = Feed!Unbumped
    BY <1>1 DEF Feed!Unbumped
  <1>13. FeedEpochs'
    BY <1>1, <1>12 DEF FeedIInv, FeedEpochs, FeedEpochIsAhead, Feed!EpochCoversAppends
  <1> QED BY <1>6, <1>7, <1>9, <1>11, <1>13 DEF FeedIInv

\* A hidden memory is out of scope for the citations still to be judged.
LEMMA FeedHideKeeps ==
  ASSUME Feed!LimitsOK, FeedIInv, NEW id \in Cited, Feed!Hide(id)
  PROVE  FeedIInv'
  <1>1. /\ shown' \subseteq shown
        /\ UNCHANGED <<stats, epoch, report, consumer, appended, answered, dropped, tainted>>
    BY DEF Feed!Hide
  <1>2. FeedTypes'
    BY <1>1 DEF FeedIInv, FeedTypes
  <1>3. FeedAnswers' /\ FeedRefers'
    BY <1>1, FeedCallsQuiet DEF FeedAccounted
  <1>4. FeedRoomIsShared'
    BY <1>1 DEF FeedIInv, FeedRoomIsShared, FeedInserting
  <1>5. FeedEpochs'
    BY <1>1 DEF FeedIInv, FeedEpochs, FeedEpochIsAhead, Feed!EpochCoversAppends, Feed!Unbumped
  <1> QED BY <1>1, <1>2, <1>3, <1>4, <1>5, FeedTableQuiet DEF FeedIInv

-----------------------------------------------------------------------------

\* Nothing is cited, reported or recorded at the start.
LEMMA FeedInitHolds ==
  ASSUME Feed!LimitsOK, Feed!Init
  PROVE  FeedIInv
  <1>1. /\ Feed!NoReport \in FeedCalls /\ Feed!NoReport.pc = "idle" /\ Feed!NoReport.todo = {} /\ Feed!NoReport.ids = {}
        /\ Feed!NoReport.captured = 0 /\ Feed!NoReport.pc \notin FeedWorking /\ Feed!NoReport.pc \notin {"count", "insert"}
    BY DEF Feed!NoReport, FeedCalls, FeedWorking
  <1>2. /\ \A p \in Reporters : report[p] = Feed!NoReport
        /\ report \in [Reporters -> FeedCalls] /\ stats = <<>> /\ answered = {} /\ consumer = [epoch |-> 0, size |-> 0]
        /\ shown = Cited /\ epoch = 0 /\ appended = 0 /\ tainted = FALSE
    BY <1>1 DEF Feed!Init
  <1>3. FeedTypes
    <2>1. stats \in Seq(FeedRows) /\ consumer \in [epoch : Nat, size : Nat]
      BY <1>2
    <2> QED BY <1>2, <2>1 DEF FeedTypes
  <1>4. FeedRefers
    BY <1>1, <1>2 DEF FeedRefers
  <1>5. DOMAIN stats = {} /\ Len(stats) = 0
    BY <1>2
  <1>6. FeedTable
    BY <1>5 DEF FeedTable, Feed!CountedOnce, FeedKeyIsCitation
  <1>7. FeedAnswers
    BY <1>1, <1>2 DEF FeedAnswers, FeedAnsweredIsAccounted, FeedPassedIsRecorded
  <1>8. FeedRoomIsShared
    <2>1. FeedInserting = {} /\ Cardinality({}) = 0
      BY <1>1, <1>2, FS_EmptySet DEF FeedInserting
    <2> QED BY <1>5, <2>1, FeedRoom DEF FeedRoomIsShared
  <1>9. FeedEpochs
    BY <1>2 DEF FeedEpochs, FeedEpochIsAhead, Feed!EpochCoversAppends
  <1> QED BY <1>3, <1>4, <1>6, <1>7, <1>8, <1>9 DEF FeedIInv

\* Every step of the reporters and of the upkeep keeps the invariant.
LEMMA FeedStepKeeps ==
  ASSUME Feed!LimitsOK, FeedIInv, [Feed!Next]_Feed!fvars
  PROVE  FeedIInv'
  <1>1. ASSUME NEW p \in Reporters, NEW ev \in Events, NEW ids \in SUBSET Cited, Feed!Report(p, ev, ids)
        PROVE  FeedIInv'
    BY <1>1, FeedReportKeeps
  <1>2. ASSUME NEW p \in Reporters, NEW id \in Cited, Feed!Judge(p, id)
        PROVE  FeedIInv'
    BY <1>2, FeedJudgeKeeps
  <1>3. ASSUME NEW p \in Reporters,
               Feed!CheckCap(p) \/ Feed!RecordEvent(p) \/ Feed!StoreError(p) \/ Feed!EndLoop(p) \/ Feed!GetEpoch(p) \/ Feed!SetEpoch(p)
        PROVE  FeedIInv'
    BY <1>3, FeedCheckCapKeeps, FeedRecordKeeps, FeedStoreErrorKeeps, FeedEndLoopKeeps,
       FeedGetEpochKeeps, FeedSetEpochKeeps
  <1>4. CASE Feed!Purge(1)
    BY <1>4, FeedPurgeKeeps
  <1>5. CASE UNCHANGED Feed!fvars
    <2>1. UNCHANGED <<shown, stats, epoch, report, consumer, appended, answered, dropped, tainted>>
      BY <1>5 DEF Feed!fvars
    <2>2. FeedTypes'
      BY <2>1 DEF FeedIInv, FeedTypes
    <2>3. FeedAnswers' /\ FeedRefers'
      BY <2>1, FeedCallsQuiet DEF FeedAccounted
    <2>4. FeedRoomIsShared'
      BY <2>1 DEF FeedIInv, FeedRoomIsShared, FeedInserting
    <2>5. FeedEpochs'
      BY <2>1 DEF FeedIInv, FeedEpochs, FeedEpochIsAhead, Feed!EpochCoversAppends, Feed!Unbumped
    <2> QED BY <2>1, <2>2, <2>3, <2>4, <2>5, FeedTableQuiet DEF FeedIInv
  <1> QED BY <1>1, <1>2, <1>3, <1>4, <1>5, FeedRebuildKeeps, FeedHideKeeps DEF Feed!Next

\* What the invariant says of the table.
LEMMA FeedPromised ==
  ASSUME Feed!LimitsOK, FeedIInv
  PROVE  Feed!FeedbackSafe
  <1>1. Feed!TypeOK
    <2>1. \A n \in DOMAIN stats : stats[n] \in FeedRows
      BY DEF FeedIInv, FeedTypes
    <2>2. \A n \in DOMAIN stats : stats[n].ev \in Events /\ stats[n].id \in Cited
      BY <2>1 DEF FeedRows
    <2>3. \A p \in Reporters : report[p].todo \subseteq report[p].ids /\ report[p].ids \subseteq Cited
      BY FeedCallFacts DEF FeedCalls
    <2> QED BY <2>2, <2>3 DEF FeedIInv, FeedTypes, Feed!TypeOK
  <1>2. Feed!AnsweredIsRecorded
    <2>1. ASSUME NEW a \in answered, NEW id \in a.ids, <<a.ev, id>> \notin dropped
          PROVE  \E n \in DOMAIN stats : stats[n].ev = a.ev /\ stats[n].id = id
      BY <2>1 DEF FeedIInv, FeedAnswers, FeedAnsweredIsAccounted, FeedAccounted
    <2> QED BY <2>1 DEF Feed!AnsweredIsRecorded
  <1>3. Feed!CapOvershoot
    <2>1. FeedInserting \subseteq Reporters
      BY DEF FeedInserting
    <2>2. Feed!Cardinality(Reporters) = Cardinality(Reporters)
      BY FeedLibrary
    <2>3. /\ Cardinality(FeedInserting) \in Nat /\ Cardinality(Reporters) \in Nat /\ RowCap \in Nat
          /\ Len(stats) \in Nat
      BY <2>1, FeedRoom DEF FeedIInv, FeedTypes
    <2>4. Len(stats) <= RowCap + Cardinality(Reporters) - 1
      BY <2>3 DEF FeedIInv, FeedRoomIsShared
    <2> QED BY <2>2, <2>4 DEF Feed!CapOvershoot
  <1> QED BY <1>1, <1>2, <1>3 DEF FeedIInv, FeedTable, FeedEpochs, Feed!FeedbackSafe

\* A citation weighs once however often a report is retried, an answered report is in
\* the table or accounted for, racing reporters pass the cap by at most one row each
\* but one, and the epoch a cache keys on covers the rows.
THEOREM FeedbackSafety == Feed!LimitsOK => (Feed!Spec => []Feed!FeedbackSafe)
  <1> SUFFICES ASSUME Feed!LimitsOK PROVE Feed!Spec => []Feed!FeedbackSafe
    OBVIOUS
  <1>1. Feed!Init => FeedIInv
    BY FeedInitHolds
  <1>2. FeedIInv /\ [Feed!Next]_Feed!fvars => FeedIInv'
    BY FeedStepKeeps
  <1>3. FeedIInv => Feed!FeedbackSafe
    BY FeedPromised
  <1> QED BY <1>1, <1>2, <1>3, PTL DEF Feed!Spec

-----------------------------------------------------------------------------
(* The awareness cursors: any rows, sessions, composers and window.        *)

AwareTimes == 0..(MaxFeedTime + 1)
AwareCalls ==
  [pc : {"idle", "probe", "delta", "write"}, key : Aware!Keys, read : AwareTimes,
   since : AwareTimes, high : AwareTimes, feed : SUBSET Rows]

AwareTypes ==
  /\ stamp \in [Rows -> 0..MaxFeedTime] /\ visible \subseteq Rows
  /\ cursor \in [Aware!Keys -> AwareTimes] /\ call \in [Composers -> AwareCalls]
  /\ rendered \in [Aware!Keys -> [Rows -> 0..2]] /\ excused \in [Aware!Keys -> SUBSET Rows]
  /\ time \in 2..MaxFeedTime

\* Rows are stamped at even times, cursors stand at odd ones.
AwareStampsFit ==
  /\ time % 2 = 0
  /\ \A r \in Rows : stamp[r] % 2 = 0 /\ stamp[r] <= time
  /\ \A r \in visible : stamp[r] # 0
AwareMark(c) == c = 0 \/ c % 2 = 1

\* A time no row can be committed before unexcused: the first, one that has left
\* the window, or one with a row there already.
AwareBound(c) == c <= 1 \/ c + FeedWindow <= time \/ \E q \in visible : c <= stamp[q] + 1

\* Every peer's row before the time was rendered, or excused, or is in the feed.
AwareSettled(k, c, f) ==
  \A r \in visible :
    Kinds[r] = "peer" /\ stamp[r] < c => rendered[k][r] > 0 \/ r \in excused[k] \/ r \in f

AwareCursorsFit ==
  \A k \in Aware!Keys : AwareMark(cursor[k]) /\ AwareBound(cursor[k]) /\ AwareSettled(k, cursor[k], {})

\* What was rendered is behind the cursor, as long as no two calls raced for it.
AwareShownFits ==
  \A k \in Aware!Keys \ raced, r \in Rows :
    rendered[k][r] <= 1 /\ (rendered[k][r] > 0 => r \in visible /\ stamp[r] < cursor[k])

\* What a composition read, and where it will put the cursor.
AwareCallFits(t) ==
  LET c == call[t] IN
  c.pc # "idle" =>
    /\ AwareMark(c.since) /\ c.read <= c.since /\ AwareBound(c.since)
    /\ AwareSettled(c.key, c.read, {})
    /\ c.pc = "write" =>
         /\ c.since <= c.high /\ AwareBound(Aware!NewCursor(c.high))
         /\ Aware!NewCursor(c.high) \in AwareTimes
         /\ AwareMark(Aware!NewCursor(c.high))
         /\ \A r \in c.feed : r \in visible /\ c.since <= stamp[r] /\ stamp[r] <= c.high
         /\ AwareSettled(c.key, Aware!NewCursor(c.high), Aware!Rendered(c.feed))

AwareInv ==
  /\ AwareTypes /\ AwareStampsFit /\ AwareCursorsFit /\ AwareShownFits
  /\ (\A t \in Composers : AwareCallFits(t))
  /\ Aware!AbstentionHonest

\* What every step does: time, rows, excuses and renderings only grow, and a row
\* that turns up behind a bounded time is excused.
AwareForward ==
  /\ visible \subseteq visible' /\ time <= time'
  /\ \A r \in visible : stamp'[r] = stamp[r]
  /\ \A k \in Aware!Keys : excused[k] \subseteq excused'[k]
  /\ \A k \in Aware!Keys, r \in Rows : rendered[k][r] > 0 => rendered'[k][r] > 0
  /\ \A r \in visible' \ visible, k \in Aware!Keys, c \in AwareTimes :
       AwareBound(c) /\ stamp'[r] < c => r \in excused'[k]

-----------------------------------------------------------------------------

\* The latest of a bounded, non-empty set of times is one of them.
LEMMA AwareMaxIsIn ==
  ASSUME NEW n \in Nat, NEW S \in SUBSET (0..n), S # {}
  PROVE  Aware!Max(S) \in S /\ \A x \in S : x <= Aware!Max(S)
  <1> DEFINE T == {n - x : x \in S}
  <1>1. \A x \in S : n - x \in Nat /\ x \in Nat
    OBVIOUS
  <1>2. T \subseteq Nat /\ T # {}
    BY <1>1
  <1>3. PICK y \in T : \A z \in T : ~(<<z, y>> \in OpToRel(<, Nat))
    BY <1>2, NatLessThanWellFounded, WFMin
  <1>4. PICK m \in S : y = n - m
    OBVIOUS
  <1>5. ASSUME NEW x \in S PROVE m >= x
    <2>1. n - x \in T /\ n - x \in Nat /\ y \in Nat
      BY <1>1, <1>2
    <2>2. ~(n - x < y)
      BY <1>3, <2>1 DEF OpToRel
    <2> QED BY <1>1, <1>4, <2>2
  <1>6. Aware!Max(S) \in S /\ \A x \in S : Aware!Max(S) >= x
    BY <1>5 DEF Aware!Max
  <1> QED BY <1>1, <1>6

\* Two different even times are at least two apart.
LEMMA AwareEvenStep ==
  ASSUME NEW m \in Nat, NEW n \in Nat, m % 2 = 0, n % 2 = 0, m < n
  PROVE  m + 2 <= n /\ (m + 2) % 2 = 0
  OBVIOUS

\* An odd time after an even one is an odd distance away.
LEMMA AwareOddDifference ==
  ASSUME NEW m \in Nat, NEW n \in Nat, m % 2 = 1, n % 2 = 0, n > m
  PROVE  n - m \in Nat /\ (n - m) % 2 = 1
  OBVIOUS

\* A time no row can be committed before unexcused stays one.
LEMMA AwareTimePersists ==
  ASSUME Aware!LimitsOK, AwareTypes, AwareTypes', AwareForward, NEW c \in AwareTimes, AwareBound(c)
  PROVE  AwareBound(c)'
  <1>1. c \in Nat /\ FeedWindow \in Nat /\ time \in Nat /\ time' \in Nat /\ time <= time'
    BY DEF AwareTypes, Aware!LimitsOK, AwareTimes, AwareForward
  <1>2. ASSUME NEW q \in visible, c <= stamp[q] + 1 PROVE q \in visible' /\ c <= stamp'[q] + 1
    BY <1>2 DEF AwareForward
  <1> QED BY <1>1, <1>2 DEF AwareBound

\* A time before such a time is one, too.
LEMMA AwareEarlierIsBound ==
  ASSUME Aware!LimitsOK, AwareTypes, NEW c \in AwareTimes,
         NEW d \in AwareTimes, c <= d, AwareBound(d)
  PROVE  AwareBound(c)
  <1>1. /\ c \in Nat /\ d \in Nat /\ FeedWindow \in Nat /\ time \in Nat
        /\ \A q \in visible : stamp[q] \in Nat
    BY DEF AwareTimes, AwareTypes, Aware!LimitsOK
  <1>2. CASE d <= 1
    BY <1>1, <1>2 DEF AwareBound
  <1>3. CASE d + FeedWindow <= time
    BY <1>1, <1>3 DEF AwareBound
  <1>4. CASE \E q \in visible : d <= stamp[q] + 1
    <2>1. PICK q \in visible : d <= stamp[q] + 1
      BY <1>4
    <2>2. c <= stamp[q] + 1
      BY <1>1, <2>1
    <2> QED BY <2>2 DEF AwareBound
  <1> QED BY <1>2, <1>3, <1>4 DEF AwareBound

\* What was rendered, excused or in the feed before such a time stays so.
LEMMA AwareSettledPersists ==
  ASSUME Aware!LimitsOK, AwareTypes, AwareTypes', AwareForward,
         NEW c \in AwareTimes, AwareBound(c), NEW k \in Aware!Keys,
         NEW f, AwareSettled(k, c, f)
  PROVE  AwareSettled(k, c, f)'
  <1> SUFFICES ASSUME NEW r \in visible', Kinds[r] = "peer", stamp'[r] < c
               PROVE  rendered'[k][r] > 0 \/ r \in excused'[k] \/ r \in f
    BY DEF AwareSettled
  <1>1. CASE r \in visible
    BY <1>1 DEF AwareSettled, AwareForward, AwareTypes
  <1>2. CASE r \notin visible
    BY <1>2 DEF AwareForward
  <1> QED BY <1>1, <1>2

\* A cursor is put between the ticks: one past an even time, on an odd one.
LEMMA AwareNewCursorFits ==
  ASSUME NEW h \in AwareTimes, Aware!LimitsOK
  PROVE  /\ h <= Aware!NewCursor(h) /\ Aware!NewCursor(h) <= h + 1
         /\ Aware!NewCursor(h) \in AwareTimes
         /\ AwareMark(Aware!NewCursor(h)) /\ (h % 2 = 0 => Aware!NewCursor(h) = h + 1)
         /\ (h % 2 = 1 => Aware!NewCursor(h) = h)
  BY DEF Aware!NewCursor, AwareTimes, AwareMark, Aware!LimitsOK

\* A composition that does not move stays fit.
LEMMA AwareCallPersists ==
  ASSUME Aware!LimitsOK, AwareInv, AwareTypes', AwareForward,
         NEW t \in Composers, call'[t] = call[t]
  PROVE  AwareCallFits(t)'
  <1> PICK c \in AwareCalls : c = call[t]
    BY DEF AwareInv, AwareTypes
  <1>1. SUFFICES ASSUME c.pc # "idle" PROVE AwareCallFits(t)'
    BY DEF AwareCallFits
  <1>2. /\ c.read \in AwareTimes /\ c.since \in AwareTimes /\ c.high \in AwareTimes
        /\ c.key \in Aware!Keys
        /\ c.feed \subseteq Rows
    BY DEF AwareCalls
  <1>3. AwareMark(c.since) /\ c.read <= c.since /\ AwareBound(c.since) /\ AwareSettled(c.key, c.read, {})
    BY <1>1 DEF AwareInv, AwareCallFits
  <1>4. AwareBound(c.read)
    BY <1>2, <1>3, AwareEarlierIsBound DEF AwareInv
  <1>5. AwareBound(c.since)' /\ AwareSettled(c.key, c.read, {})'
    BY <1>2, <1>3, <1>4, AwareTimePersists, AwareSettledPersists DEF AwareInv
  <1>6. CASE c.pc = "write"
    <2>1. /\ c.since <= c.high /\ AwareBound(Aware!NewCursor(c.high))
          /\ Aware!NewCursor(c.high) \in AwareTimes
          /\ AwareMark(Aware!NewCursor(c.high))
          /\ \A r \in c.feed : r \in visible /\ c.since <= stamp[r] /\ stamp[r] <= c.high
          /\ AwareSettled(c.key, Aware!NewCursor(c.high), Aware!Rendered(c.feed))
      BY <1>1, <1>6 DEF AwareInv, AwareCallFits
    <2>2. AwareBound(Aware!NewCursor(c.high))'
          /\ AwareSettled(c.key, Aware!NewCursor(c.high), Aware!Rendered(c.feed))'
      BY <1>2, <2>1, AwareTimePersists, AwareSettledPersists DEF AwareInv
    <2>3. \A r \in c.feed : r \in visible' /\ c.since <= stamp'[r] /\ stamp'[r] <= c.high
      BY <2>1 DEF AwareForward
    <2> QED BY <1>2, <1>3, <1>5, <2>1, <2>2, <2>3 DEF AwareCallFits
  <1>7. CASE c.pc # "write"
    BY <1>3, <1>5, <1>7 DEF AwareCallFits
  <1> QED BY <1>6, <1>7

\* Every step but a written cursor leaves the cursors and what is behind them.
LEMMA AwareCursorsPersist ==
  ASSUME Aware!LimitsOK, AwareInv, AwareTypes', AwareForward, UNCHANGED <<cursor, rendered, raced>>
  PROVE  AwareCursorsFit' /\ AwareShownFits'
  <1>1. ASSUME NEW k \in Aware!Keys
        PROVE  AwareMark(cursor'[k]) /\ AwareBound(cursor[k])' /\ AwareSettled(k, cursor[k], {})'
    <2>1. PICK c \in AwareTimes : c = cursor[k]
      BY DEF AwareInv, AwareTypes
    <2>2. AwareMark(c) /\ AwareBound(c) /\ AwareSettled(k, c, {})
      BY <2>1 DEF AwareInv, AwareCursorsFit
    <2>3. AwareBound(c)' /\ AwareSettled(k, c, {})'
      BY <2>2, AwareTimePersists, AwareSettledPersists DEF AwareInv
    <2> QED BY <2>1, <2>2, <2>3
  <1>2. AwareShownFits'
    BY DEF AwareInv, AwareShownFits, AwareForward
  <1> QED BY <1>1, <1>2 DEF AwareCursorsFit

-----------------------------------------------------------------------------

\* A row takes its time when it is made, before it can be seen.
LEMMA AwareStampKeeps ==
  ASSUME Aware!LimitsOK, AwareInv, NEW r \in Rows, Aware!Stamp(r)
  PROVE  AwareInv'
  <1>1. /\ stamp[r] = 0 /\ stamp' = [stamp EXCEPT ![r] = time]
        /\ UNCHANGED <<visible, cursor, call, rendered, excused, raced, basis, time>>
    BY DEF Aware!Stamp
  <1>2. r \notin visible
    BY <1>1 DEF AwareInv, AwareStampsFit
  <1>3. AwareTypes'
    BY <1>1 DEF AwareInv, AwareTypes, Aware!LimitsOK
  <1>4. AwareStampsFit'
    BY <1>1, <1>2 DEF AwareInv, AwareTypes, AwareStampsFit
  <1>5. AwareForward
    BY <1>1, <1>2 DEF AwareInv, AwareTypes, AwareForward
  <1>6. AwareCursorsFit' /\ AwareShownFits' /\ \A t \in Composers : AwareCallFits(t)'
    BY <1>1, <1>3, <1>5, AwareCursorsPersist, AwareCallPersists
  <1>7. Aware!AbstentionHonest'
    BY <1>1 DEF AwareInv, Aware!AbstentionHonest
  <1> QED BY <1>3, <1>4, <1>6, <1>7 DEF AwareInv

\* A row committed late, out of the window or behind a row that is there, is excused.
LEMMA AwareCommitKeeps ==
  ASSUME Aware!LimitsOK, AwareInv, NEW r \in Rows, Aware!Commit(r)
  PROVE  AwareInv'
  <1> DEFINE late == stamp[r] + FeedWindow < time \/ \E q \in visible : stamp[q] >= stamp[r]
  <1>1. /\ stamp[r] # 0 /\ r \notin visible /\ visible' = visible \cup {r}
        /\ excused' = [k \in Aware!Keys |-> IF late THEN excused[k] \cup {r} ELSE excused[k]]
        /\ UNCHANGED <<stamp, cursor, call, rendered, raced, basis, time>>
    BY DEF Aware!Commit
  <1>2. ASSUME NEW c \in AwareTimes, AwareBound(c), stamp[r] < c PROVE late
    <2>1. c \in Nat /\ stamp[r] \in Nat /\ time \in Nat /\ FeedWindow \in Nat
      BY DEF AwareInv, AwareTypes, Aware!LimitsOK, AwareTimes
    <2>2. CASE c + FeedWindow <= time
      BY <1>2, <2>1, <2>2
    <2>3. ASSUME NEW q \in visible, c <= stamp[q] + 1 PROVE late
      <3>1. stamp[q] \in Nat
        BY DEF AwareInv, AwareTypes
      <3> QED BY <1>2, <2>1, <2>3, <3>1
    <2> QED BY <1>1, <1>2, <2>1, <2>2, <2>3 DEF AwareBound
  <1> HIDE DEF late
  <1>3. AwareTypes'
    BY <1>1 DEF AwareInv, AwareTypes
  <1>4. AwareStampsFit'
    BY <1>1 DEF AwareInv, AwareStampsFit
  <1>5. AwareForward
    <2>1. \A k \in Aware!Keys : excused[k] \subseteq excused'[k]
      BY <1>1
    <2>2. \A s \in visible' \ visible, k \in Aware!Keys, c \in AwareTimes :
            AwareBound(c) /\ stamp'[s] < c => s \in excused'[k]
      BY <1>1, <1>2
    <2>3. time <= time'
      BY <1>1 DEF AwareInv, AwareTypes
    <2> QED BY <1>1, <2>1, <2>2, <2>3 DEF AwareForward
  <1>6. AwareCursorsFit' /\ AwareShownFits' /\ \A t \in Composers : AwareCallFits(t)'
    BY <1>1, <1>3, <1>5, AwareCursorsPersist, AwareCallPersists
  <1>7. Aware!AbstentionHonest'
    BY <1>1 DEF AwareInv, Aware!AbstentionHonest
  <1> QED BY <1>3, <1>4, <1>6, <1>7 DEF AwareInv

\* As time passes no row and no cursor moves.
LEMMA AwareTickKeeps == ASSUME Aware!LimitsOK, AwareInv, Aware!Tick PROVE AwareInv'
  <1>1. /\ time < MaxFeedTime /\ time' = time + 2
        /\ UNCHANGED <<stamp, visible, cursor, call, rendered, excused, raced, basis>>
    BY DEF Aware!Tick
  <1>2. time' \in 2..MaxFeedTime /\ time' % 2 = 0
    <2>1. time \in Nat /\ time >= 2 /\ time % 2 = 0 /\ MaxFeedTime \in Nat /\ MaxFeedTime % 2 = 0
      BY DEF AwareInv, AwareTypes, AwareStampsFit, Aware!LimitsOK
    <2>2. time + 2 <= MaxFeedTime /\ (time + 2) % 2 = 0
      BY <1>1, <2>1, AwareEvenStep
    <2> QED BY <1>1, <2>1, <2>2
  <1>3. AwareTypes'
    BY <1>1, <1>2 DEF AwareInv, AwareTypes
  <1>4. AwareStampsFit'
    BY <1>1, <1>2 DEF AwareInv, AwareTypes, AwareStampsFit
  <1>5. AwareForward
    BY <1>1 DEF AwareInv, AwareTypes, AwareForward
  <1>6. AwareCursorsFit' /\ AwareShownFits' /\ \A t \in Composers : AwareCallFits(t)'
    BY <1>1, <1>3, <1>5, AwareCursorsPersist, AwareCallPersists
  <1>7. Aware!AbstentionHonest'
    BY <1>1 DEF AwareInv, Aware!AbstentionHonest
  <1> QED BY <1>3, <1>4, <1>6, <1>7 DEF AwareInv

\* A step of one call that writes no cursor keeps everything if the call stays fit.
LEMMA AwareOneCall ==
  ASSUME Aware!LimitsOK, AwareInv, NEW t \in Composers,
         NEW c \in AwareCalls, call' = [call EXCEPT ![t] = c],
         UNCHANGED <<stamp, visible, cursor, rendered, raced, basis, time>>,
         excused' \in [Aware!Keys -> SUBSET Rows], \A k \in Aware!Keys : excused[k] \subseteq excused'[k],
         AwareTypes' /\ call'[t] = c => AwareCallFits(t)'
  PROVE  AwareInv'
  <1>1. AwareTypes' /\ call'[t] = c /\ \A u \in Composers \ {t} : call'[u] = call[u]
    BY DEF AwareInv, AwareTypes
  <1>2. AwareForward
    BY DEF AwareInv, AwareTypes, AwareForward
  <1>3. AwareCursorsFit' /\ AwareShownFits'
    BY <1>1, <1>2, AwareCursorsPersist
  <1>4. \A u \in Composers : AwareCallFits(u)'
    BY <1>1, <1>2, AwareCallPersists
  <1>5. AwareStampsFit' /\ Aware!AbstentionHonest'
    BY DEF AwareInv, AwareStampsFit, Aware!AbstentionHonest
  <1> QED BY <1>1, <1>3, <1>4, <1>5 DEF AwareInv

\* A composition starts from its session's cursor as it stands.
LEMMA AwareBeginKeeps ==
  ASSUME Aware!LimitsOK, AwareInv, NEW t \in Composers, NEW k \in Aware!Keys,
         NEW pc \in {"probe", "delta"},
         Aware!Begin(t, k, pc)
  PROVE  AwareInv'
  <1> DEFINE low == IF time > FeedWindow THEN time - FeedWindow ELSE 0
             since == Aware!ResolveSince(k)
             c == [Aware!Idle EXCEPT !.pc = pc, !.key = k, !.read = cursor[k], !.since = since]
  <1>1. call' = [call EXCEPT ![t] = c]
        /\ UNCHANGED <<stamp, visible, cursor, rendered, excused, raced, basis, time>>
    BY DEF Aware!Begin
  <1>2. low \in AwareTimes /\ cursor[k] \in AwareTimes /\ AwareMark(low) /\ AwareBound(low)
    <2>1. /\ time \in Nat /\ time % 2 = 0 /\ time <= MaxFeedTime /\ MaxFeedTime \in Nat
          /\ FeedWindow \in Nat /\ FeedWindow % 2 = 1
      BY DEF AwareInv, AwareTypes, AwareStampsFit, Aware!LimitsOK
    <2>2. cursor[k] \in AwareTimes
      BY DEF AwareInv, AwareTypes
    <2>3. CASE time > FeedWindow
      <3>1. low = time - FeedWindow /\ low \in Nat /\ low % 2 = 1
        BY <2>1, <2>3, AwareOddDifference
      <3>2. low <= MaxFeedTime + 1 /\ low + FeedWindow <= time
        BY <2>1, <3>1
      <3> QED BY <2>1, <2>2, <3>1, <3>2 DEF AwareTimes, AwareMark, AwareBound
    <2>4. CASE ~(time > FeedWindow)
      BY <2>1, <2>2, <2>4 DEF AwareTimes, AwareMark, AwareBound
    <2> QED BY <2>3, <2>4
  <1>3. AwareMark(cursor[k]) /\ AwareBound(cursor[k]) /\ AwareSettled(k, cursor[k], {})
    BY DEF AwareInv, AwareCursorsFit
  <1>4. since \in {cursor[k], low} /\ cursor[k] <= since
    <2>1. MaxFeedTime + 1 \in Nat /\ {cursor[k], low} \in SUBSET (0..(MaxFeedTime + 1))
      BY <1>2 DEF AwareTimes, Aware!LimitsOK
    <2>2. since = Aware!Max({cursor[k], low})
      BY DEF Aware!ResolveSince
    <2> QED BY <2>1, <2>2, AwareMaxIsIn
  <1>5. since \in AwareTimes /\ AwareMark(since) /\ AwareBound(since)
    BY <1>2, <1>3, <1>4
  <1>6. /\ c \in AwareCalls /\ c.pc = pc /\ c.key = k /\ c.read = cursor[k] /\ c.since = since
    <2>1. Aware!Idle \in AwareCalls
      BY DEF Aware!Idle, AwareCalls, Aware!Keys, AwareTimes, Aware!LimitsOK
    <2> HIDE DEF since
    <2> QED BY <1>2, <1>5, <2>1 DEF AwareCalls
  <1> HIDE DEF c, since, low
  <1>7. ASSUME AwareTypes', call'[t] = c PROVE AwareCallFits(t)'
    BY <1>1, <1>3, <1>4, <1>5, <1>6, <1>7 DEF AwareCallFits, AwareBound, AwareSettled, AwareMark
  <1>8. excused' \in [Aware!Keys -> SUBSET Rows] /\ \A j \in Aware!Keys : excused[j] \subseteq excused'[j]
    BY <1>1 DEF AwareInv, AwareTypes
  <1> QED BY <1>1, <1>6, <1>7, <1>8, AwareOneCall

\* A probe only looks whether anything is new.
LEMMA AwareProbeKeeps ==
  ASSUME Aware!LimitsOK, AwareInv, NEW t \in Composers, Aware!Probe(t)
  PROVE  AwareInv'
  <1>1. /\ call[t].pc = "probe"
        /\ UNCHANGED <<stamp, visible, cursor, rendered, excused, raced, basis, time>>
    BY DEF Aware!Probe
  <1>2. excused' \in [Aware!Keys -> SUBSET Rows] /\ \A j \in Aware!Keys : excused[j] \subseteq excused'[j]
    BY <1>1 DEF AwareInv, AwareTypes
  <1>3. CASE call' = [call EXCEPT ![t].pc = "delta"]
    <2> DEFINE c == [call[t] EXCEPT !.pc = "delta"]
    <2>1. call' = [call EXCEPT ![t] = c]
      BY <1>3
    <2>2. c \in AwareCalls /\ c.pc = "delta" /\ c.key = call[t].key /\ c.read = call[t].read
          /\ c.since = call[t].since
      BY DEF AwareInv, AwareTypes, AwareCalls
    <2> HIDE DEF c
    <2>3. ASSUME AwareTypes', call'[t] = c PROVE AwareCallFits(t)'
      <3>1. AwareCallFits(t)
        BY DEF AwareInv
      <3> QED BY <1>1, <2>2, <2>3, <3>1 DEF AwareCallFits, AwareBound, AwareSettled, AwareMark
    <2> QED BY <1>1, <1>2, <2>1, <2>2, <2>3, AwareOneCall
  <1>4. CASE call' = [call EXCEPT ![t] = Aware!Idle]
    <2>1. Aware!Idle \in AwareCalls /\ Aware!Idle.pc = "idle"
      BY DEF Aware!Idle, AwareCalls, Aware!Keys, AwareTimes, Aware!LimitsOK
    <2>2. ASSUME AwareTypes', call'[t] = Aware!Idle PROVE AwareCallFits(t)'
      BY <2>1, <2>2 DEF AwareCallFits
    <2> QED BY <1>1, <1>2, <1>4, <2>1, <2>2, AwareOneCall
  <1> QED BY <1>3, <1>4 DEF Aware!Probe

\* The delta reads the rows since the cursor and where the cursor will go.
LEMMA AwareProjectDeltaKeeps ==
  ASSUME Aware!LimitsOK, AwareInv, NEW t \in Composers, Aware!ProjectDelta(t) PROVE AwareInv'
  <1> PICK d \in AwareCalls : d = call[t]
    BY DEF AwareInv, AwareTypes
  <1>1. PICK feed \in SUBSET visible :
          /\ Aware!IsFeed(feed, d.since)
          /\ call' = [call EXCEPT ![t].pc = "write", ![t].feed = feed,
                                  ![t].high = Aware!HighWater(feed, d.since)]
          /\ excused' = [excused EXCEPT ![d.key] =
               @ \cup {r \in visible : stamp[r] < d.since /\ stamp[r] >= d.read}
                 \cup {r \in visible \ feed : stamp[r] >= d.since}]
    <2>1. PICK feed \in SUBSET visible :
            /\ Aware!IsFeed(feed, call[t].since)
            /\ call' = [call EXCEPT ![t].pc = "write", ![t].feed = feed,
                                    ![t].high = Aware!HighWater(feed, call[t].since)]
            /\ excused' = [excused EXCEPT ![call[t].key] =
                 @ \cup {r \in visible : stamp[r] < call[t].since /\ stamp[r] >= call[t].read}
                   \cup {r \in visible \ feed : stamp[r] >= call[t].since}]
      BY DEF Aware!ProjectDelta
    <2> QED BY <2>1
  <1>2. d.pc = "delta" /\ UNCHANGED <<stamp, visible, cursor, rendered, raced, basis, time>>
    BY DEF Aware!ProjectDelta
  <1>3. /\ d.read \in AwareTimes /\ d.since \in AwareTimes /\ d.key \in Aware!Keys
        /\ feed \subseteq Rows
        /\ stamp \in [Rows -> 0..MaxFeedTime] /\ visible \subseteq Rows
    BY DEF AwareCalls, AwareInv, AwareTypes
  <1>4. AwareMark(d.since) /\ d.read <= d.since /\ AwareBound(d.since) /\ AwareSettled(d.key, d.read, {})
    BY <1>2 DEF AwareInv, AwareCallFits
  <1>5. PICK high \in AwareTimes :
          /\ high = Aware!HighWater(feed, d.since)
          /\ high \in {d.since} \cup {stamp[r] : r \in feed}
          /\ d.since <= high /\ \A r \in feed : stamp[r] <= high
    <2> DEFINE S == {d.since} \cup {stamp[r] : r \in feed}
    <2>1. MaxFeedTime + 1 \in Nat /\ S \in SUBSET (0..(MaxFeedTime + 1)) /\ S # {}
      BY <1>3 DEF AwareTimes, Aware!LimitsOK
    <2>2. Aware!HighWater(feed, d.since) = Aware!Max(S)
      BY DEF Aware!HighWater
    <2>3. Aware!Max(S) \in S /\ \A x \in S : x <= Aware!Max(S)
      BY <2>1, AwareMaxIsIn
    <2>4. Aware!Max(S) \in AwareTimes
      BY <2>1, <2>3 DEF AwareTimes
    <2> QED BY <2>2, <2>3, <2>4
  <1>6. \A r \in feed : d.since <= stamp[r] /\ r \in visible
    BY <1>1, <1>3 DEF Aware!IsFeed, AwareTimes
  <1> DEFINE c == [d EXCEPT !.pc = "write", !.feed = feed, !.high = high]
  <1>7. /\ c \in AwareCalls /\ c.pc = "write" /\ c.key = d.key /\ c.read = d.read
        /\ c.since = d.since
        /\ c.feed = feed /\ c.high = high
    BY <1>3, <1>5 DEF AwareCalls
  <1>8. call' = [call EXCEPT ![t] = c]
    BY <1>1, <1>5
  <1> HIDE DEF c
  <1>9. excused' \in [Aware!Keys -> SUBSET Rows] /\ \A j \in Aware!Keys : excused[j] \subseteq excused'[j]
    BY <1>1, <1>3 DEF AwareInv, AwareTypes
  <1>10. Aware!NewCursor(high) \in AwareTimes /\ AwareMark(Aware!NewCursor(high))
         /\ AwareBound(Aware!NewCursor(high))
    <2>1. Aware!NewCursor(high) \in AwareTimes /\ AwareMark(Aware!NewCursor(high))
          /\ Aware!NewCursor(high) <= high + 1
          /\ (high % 2 = 1 => Aware!NewCursor(high) = high) /\ (high = 0 => Aware!NewCursor(high) = 1)
      BY <1>5, AwareNewCursorFits
    <2>2. CASE high = d.since
      BY <1>4, <2>1, <2>2 DEF AwareMark, AwareBound
    <2>3. ASSUME NEW r \in feed, high = stamp[r] PROVE AwareBound(Aware!NewCursor(high))
      BY <1>6, <2>1, <2>3 DEF AwareBound
    <2> QED BY <1>5, <2>1, <2>2, <2>3
  <1>11. AwareSettled(d.key, d.read, {})'
    BY <1>2, <1>4, <1>9, <1>3 DEF AwareSettled
  <1>12. AwareSettled(d.key, Aware!NewCursor(high), Aware!Rendered(feed))'
    <2> SUFFICES ASSUME NEW r \in visible', Kinds[r] = "peer"
                 PROVE  rendered'[d.key][r] > 0 \/ r \in excused'[d.key] \/ r \in Aware!Rendered(feed)
      BY DEF AwareSettled
    <2>1. r \in visible /\ stamp[r] \in Nat /\ d.since \in Nat /\ d.read \in Nat
      BY <1>2, <1>3 DEF AwareTimes
    <2>2. excused'[d.key] = excused[d.key] \cup {s \in visible : stamp[s] < d.since /\ stamp[s] >= d.read}
                              \cup {s \in visible \ feed : stamp[s] >= d.since}
      BY <1>1, <1>3 DEF AwareInv, AwareTypes
    <2>3. CASE stamp[r] < d.read
      BY <1>2, <1>4, <2>1, <2>2, <2>3 DEF AwareSettled
    <2>4. CASE stamp[r] >= d.read /\ stamp[r] < d.since
      BY <2>1, <2>2, <2>4
    <2>5. CASE stamp[r] >= d.since
      BY <2>1, <2>2, <2>5 DEF Aware!Rendered
    <2> QED BY <2>1, <2>3, <2>4, <2>5
  <1>13. ASSUME AwareTypes', call'[t] = c PROVE AwareCallFits(t)'
    <2>1. AwareBound(d.since)'
      BY <1>2, <1>4 DEF AwareBound
    <2>2. AwareBound(Aware!NewCursor(high))'
      BY <1>2, <1>10 DEF AwareBound
    <2>3. \A r \in feed : r \in visible' /\ d.since <= stamp'[r] /\ stamp'[r] <= high
      BY <1>2, <1>5, <1>6
    <2> QED BY <1>4, <1>5, <1>7, <1>10, <1>11, <1>12, <1>13, <2>1, <2>2, <2>3 DEF AwareCallFits
  <1> QED BY <1>2, <1>7, <1>8, <1>9, <1>13, AwareOneCall

\* The cursor goes just past what the delta read; what that left out is excused.
LEMMA AwareWriteCursorKeeps ==
  ASSUME Aware!LimitsOK, AwareInv, NEW t \in Composers, Aware!WriteCursor(t) PROVE AwareInv'
  <1> PICK d \in AwareCalls : d = call[t]
    BY DEF AwareInv, AwareTypes
  <1> DEFINE k == d.key
             new == Aware!NewCursor(d.high)
  <1>1. /\ d.pc = "write" /\ cursor' = [cursor EXCEPT ![k] = new]
        /\ raced' = IF cursor[k] # d.read THEN raced \cup {k} ELSE raced
        /\ rendered' = [rendered EXCEPT ![k] = [r \in Rows |->
             IF r \in Aware!Rendered(d.feed) /\ @[r] < 2 THEN @[r] + 1 ELSE @[r]]]
        /\ call' = [call EXCEPT ![t] = Aware!Idle]
        /\ UNCHANGED <<stamp, visible, excused, basis, time>>
    BY DEF Aware!WriteCursor, Aware!write_awareness_cursor
  <1>2. /\ d.read \in AwareTimes /\ d.since \in AwareTimes /\ d.high \in AwareTimes
        /\ k \in Aware!Keys
        /\ d.feed \subseteq Rows /\ stamp \in [Rows -> 0..MaxFeedTime] /\ visible \subseteq Rows
    BY DEF AwareCalls, AwareInv, AwareTypes
  <1>3. /\ AwareMark(d.since) /\ d.read <= d.since
        /\ d.since <= d.high /\ AwareBound(new) /\ new \in AwareTimes /\ AwareMark(new)
        /\ \A r \in d.feed : r \in visible /\ d.since <= stamp[r] /\ stamp[r] <= d.high
        /\ AwareSettled(k, new, Aware!Rendered(d.feed))
    BY <1>1 DEF AwareInv, AwareCallFits
  <1>4. d.high <= new /\ (d.high % 2 = 0 => new = d.high + 1)
    BY <1>2, AwareNewCursorFits
  <1> HIDE DEF new, k
  <1>5. Aware!Idle \in AwareCalls /\ Aware!Idle.pc = "idle"
    BY DEF Aware!Idle, AwareCalls, Aware!Keys, AwareTimes, Aware!LimitsOK
  <1>6. \A r \in Rows :
          /\ rendered[k][r] \in 0..2
          /\ rendered'[k][r] = IF r \in Aware!Rendered(d.feed) /\ rendered[k][r] < 2 THEN rendered[k][r] + 1 ELSE rendered[k][r]
    BY <1>1, <1>2 DEF AwareInv, AwareTypes
  <1>7. \A j \in Aware!Keys : j # k => rendered'[j] = rendered[j] /\ cursor'[j] = cursor[j]
    BY <1>1 DEF AwareInv, AwareTypes
  <1>8. rendered' \in [Aware!Keys -> [Rows -> 0..2]]
    <2> DEFINE row == [r \in Rows |->
             IF r \in Aware!Rendered(d.feed) /\ rendered[k][r] < 2 THEN rendered[k][r] + 1 ELSE rendered[k][r]]
    <2>1. row \in [Rows -> 0..2]
      BY <1>6
    <2>2. rendered' = [rendered EXCEPT ![k] = row]
      BY <1>1
    <2> HIDE DEF row
    <2> QED BY <1>2, <2>1, <2>2 DEF AwareInv, AwareTypes
  <1>9. AwareTypes'
    BY <1>1, <1>3, <1>5, <1>8 DEF AwareInv, AwareTypes
  <1>10. AwareStampsFit'
    BY <1>1 DEF AwareInv, AwareStampsFit
  <1>11. AwareForward
    <2>1. \A j \in Aware!Keys, r \in Rows : rendered[j][r] > 0 => rendered'[j][r] > 0
      BY <1>6, <1>7
    <2> QED BY <1>1, <2>1 DEF AwareForward, AwareInv, AwareTypes
  <1>12. call'[t] = Aware!Idle /\ \A u \in Composers \ {t} : call'[u] = call[u]
    BY <1>1 DEF AwareInv, AwareTypes
  <1>13. \A u \in Composers : AwareCallFits(u)'
    <2>1. AwareCallFits(t)'
      BY <1>5, <1>12 DEF AwareCallFits
    <2> QED BY <1>9, <1>11, <1>12, <2>1, AwareCallPersists
  <1>14. cursor'[k] = new
    BY <1>1, <1>2 DEF AwareInv, AwareTypes
  <1>15. AwareCursorsFit'
    <2>1. ASSUME NEW j \in Aware!Keys
          PROVE  AwareMark(cursor'[j]) /\ AwareBound(cursor[j])' /\ AwareSettled(j, cursor[j], {})'
      <3>1. CASE j = k
        <4>1. AwareBound(new)'
          BY <1>1, <1>3 DEF AwareBound
        <4>2. \A r \in visible : Kinds[r] = "peer" /\ stamp[r] < new =>
                rendered'[k][r] > 0 \/ r \in excused[k]
          BY <1>2, <1>3, <1>6 DEF AwareSettled
        <4> QED BY <1>1, <1>3, <1>14, <3>1, <4>1, <4>2 DEF AwareSettled, AwareBound
      <3>2. CASE j # k
        <4>1. PICK c \in AwareTimes : c = cursor[j]
          BY DEF AwareInv, AwareTypes
        <4>2. AwareMark(c) /\ AwareBound(c) /\ AwareSettled(j, c, {})
          BY <4>1 DEF AwareInv, AwareCursorsFit
        <4>3. AwareBound(c)' /\ AwareSettled(j, c, {})'
          BY <1>9, <1>11, <4>2, AwareTimePersists, AwareSettledPersists DEF AwareInv
        <4> QED BY <1>7, <3>2, <4>1, <4>2, <4>3
      <3> QED BY <3>1, <3>2
    <2> QED BY <2>1 DEF AwareCursorsFit
  <1>16. AwareShownFits'
    <2> SUFFICES ASSUME NEW j \in Aware!Keys \ raced', NEW r \in Rows
                 PROVE  /\ rendered'[j][r] <= 1
                        /\ rendered'[j][r] > 0 => r \in visible' /\ stamp'[r] < cursor'[j]
      BY DEF AwareShownFits
    <2>1. j \notin raced /\ rendered[j][r] <= 1 /\ (rendered[j][r] > 0 => r \in visible /\ stamp[r] < cursor[j])
      BY <1>1 DEF AwareInv, AwareShownFits
    <2>2. CASE j # k
      BY <1>1, <1>7, <2>1, <2>2
    <2>3. CASE j = k
      <3>1. cursor[k] = d.read
        BY <1>1, <2>3
      <3>2. /\ d.read \in Nat /\ d.since \in Nat /\ d.high \in Nat /\ new \in Nat
            /\ stamp[r] \in Nat
            /\ stamp[r] % 2 = 0
        BY <1>2, <1>3 DEF AwareTimes, AwareInv, AwareStampsFit
      <3>3. CASE r \in Aware!Rendered(d.feed)
        <4>1. r \in visible /\ d.since <= stamp[r] /\ stamp[r] <= d.high
          BY <1>3, <3>3 DEF Aware!Rendered
        <4>2. ~(rendered[k][r] > 0)
          BY <1>3, <2>1, <2>3, <3>1, <3>2, <4>1
        <4>3. rendered'[k][r] = 1
          BY <1>6, <3>3, <4>2
        <4>4. stamp[r] < new
          BY <1>4, <3>2, <4>1
        <4> QED BY <1>1, <1>14, <2>3, <4>1, <4>3, <4>4
      <3>4. CASE r \notin Aware!Rendered(d.feed)
        <4>1. rendered'[k][r] = rendered[k][r]
          BY <1>6, <3>4
        <4>2. rendered[k][r] > 0 => r \in visible /\ stamp[r] < new
          BY <1>3, <1>4, <2>1, <2>3, <3>1, <3>2
        <4> QED BY <1>1, <1>14, <2>1, <2>3, <4>1, <4>2
      <3> QED BY <3>3, <3>4
    <2> QED BY <2>2, <2>3
  <1>17. Aware!AbstentionHonest'
    BY <1>1 DEF AwareInv, Aware!AbstentionHonest
  <1> QED BY <1>9, <1>10, <1>13, <1>15, <1>16, <1>17 DEF AwareInv

\* An abstention notes whether the session's cursor had consumed its row.
LEMMA AwareRecordAbstentionKeeps ==
  ASSUME Aware!LimitsOK, AwareInv, NEW s \in Chats, NEW r \in Rows, Aware!RecordAbstention(s, r)
  PROVE  AwareInv'
  <1> DEFINE b == <<s, r, Aware!Consumed(s, r), rendered[s][r] > 0>>
  <1>1. basis' = basis \cup {b}
        /\ UNCHANGED <<stamp, visible, cursor, call, rendered, excused, raced, time>>
    BY DEF Aware!RecordAbstention
  <1>2. b[4] /\ b[1] \notin raced => b[3]
    <2>1. s \in Aware!Keys /\ cursor[s] \in AwareTimes /\ stamp[r] \in 0..MaxFeedTime
      BY DEF Aware!Keys, AwareInv, AwareTypes
    <2>2. s \notin raced /\ rendered[s][r] > 0 => Aware!Consumed(s, r)
      BY <2>1 DEF AwareInv, AwareShownFits, Aware!Consumed, AwareTimes
    <2> QED BY <2>2
  <1> HIDE DEF b
  <1>3. Aware!AbstentionHonest'
    BY <1>1, <1>2 DEF AwareInv, Aware!AbstentionHonest
  <1>4. AwareTypes' /\ AwareStampsFit'
    BY <1>1 DEF AwareInv, AwareTypes, AwareStampsFit
  <1>5. AwareForward
    BY <1>1 DEF AwareInv, AwareTypes, AwareForward
  <1>6. AwareCursorsFit' /\ AwareShownFits' /\ \A t \in Composers : AwareCallFits(t)'
    BY <1>1, <1>4, <1>5, AwareCursorsPersist, AwareCallPersists
  <1> QED BY <1>3, <1>4, <1>6 DEF AwareInv

\* With no row, no cursor and no call the invariant holds.
LEMMA AwareInitHolds == ASSUME Aware!LimitsOK, Aware!Init PROVE AwareInv
  <1>1. Aware!Idle \in AwareCalls /\ Aware!Idle.pc = "idle"
    BY DEF Aware!Idle, AwareCalls, Aware!Keys, AwareTimes, Aware!LimitsOK
  <1>2. AwareTypes
    BY <1>1 DEF Aware!Init, AwareTypes, AwareTimes, Aware!LimitsOK
  <1>3. AwareStampsFit
    BY DEF Aware!Init, AwareStampsFit
  <1>4. AwareCursorsFit /\ AwareShownFits /\ Aware!AbstentionHonest
    BY DEF Aware!Init, AwareCursorsFit, AwareShownFits, Aware!AbstentionHonest, AwareMark,
           AwareBound, AwareSettled
  <1>5. \A t \in Composers : AwareCallFits(t)
    BY <1>1 DEF Aware!Init, AwareCallFits
  <1> QED BY <1>2, <1>3, <1>4, <1>5 DEF AwareInv

\* Every step of the writers, the compositions and the clock keeps the invariant.
LEMMA AwareStepKeeps == ASSUME Aware!LimitsOK, AwareInv, [Aware!Next]_Aware!avars PROVE AwareInv'
  <1>1. ASSUME NEW r \in Rows, Aware!Stamp(r) \/ Aware!Commit(r) PROVE AwareInv'
    BY <1>1, AwareStampKeeps, AwareCommitKeeps
  <1>2. ASSUME NEW r \in Rows, NEW s \in Chats, Aware!RecordAbstention(s, r) PROVE AwareInv'
    BY <1>2, AwareRecordAbstentionKeeps
  <1>3. ASSUME NEW t \in Composers, Aware!compose_heartbeat(t) PROVE AwareInv'
    <2>1. Aware!Begin(t, Aware!Heart, "probe") /\ Aware!Heart \in Aware!Keys
      BY <1>3 DEF Aware!compose_heartbeat, Aware!Keys
    <2> QED BY <2>1, AwareBeginKeeps
  <1>4. ASSUME NEW t \in Composers, NEW s \in Chats, Aware!compose_pre_llm_awareness(t, s)
        PROVE  AwareInv'
    <2>1. Aware!Begin(t, s, "delta") /\ s \in Aware!Keys
      BY <1>4 DEF Aware!compose_pre_llm_awareness, Aware!Keys
    <2> QED BY <2>1, AwareBeginKeeps
  <1>5. ASSUME NEW t \in Composers, Aware!Probe(t) \/ Aware!ProjectDelta(t) \/ Aware!WriteCursor(t)
        PROVE  AwareInv'
    BY <1>5, AwareProbeKeeps, AwareProjectDeltaKeeps, AwareWriteCursorKeeps
  <1>6. ASSUME UNCHANGED Aware!avars PROVE AwareInv'
    <2>1. UNCHANGED <<stamp, visible, cursor, call, rendered, excused, raced, basis, time>>
      BY <1>6 DEF Aware!avars
    <2>2. AwareTypes' /\ AwareStampsFit' /\ Aware!AbstentionHonest'
      BY <2>1 DEF AwareInv, AwareTypes, AwareStampsFit, Aware!AbstentionHonest
    <2>3. AwareForward
      BY <2>1 DEF AwareInv, AwareTypes, AwareForward
    <2>4. AwareCursorsFit' /\ AwareShownFits' /\ \A t \in Composers : AwareCallFits(t)'
      BY <2>1, <2>2, <2>3, AwareCursorsPersist, AwareCallPersists
    <2> QED BY <2>2, <2>4 DEF AwareInv
  <1> QED BY <1>1, <1>2, <1>3, <1>4, <1>5, <1>6, AwareTickKeeps DEF Aware!Next

\* The invariant gives what the feed promises.
LEMMA AwarePromised == ASSUME Aware!LimitsOK, AwareInv PROVE Aware!FeedSafe
  <1>1. Aware!TypeOK
    BY DEF AwareInv, AwareTypes, Aware!TypeOK, AwareCalls, AwareTimes
  <1>2. Aware!PassesOnlyExcused
    BY DEF AwareInv, AwareCursorsFit, AwareSettled, Aware!PassesOnlyExcused
  <1>3. Aware!RepeatNeedsRace
    BY DEF AwareInv, AwareShownFits, Aware!RepeatNeedsRace
  <1> QED BY <1>1, <1>2, <1>3 DEF AwareInv, Aware!FeedSafe

\* For any rows, sessions, composers and window: a peer's row is rendered, or excused,
\* before a cursor passes it, none is rendered twice but by a race, and an abstention
\* agrees with what its session was shown.
THEOREM AwarenessSafety == Aware!LimitsOK => (Aware!Spec => []Aware!FeedSafe)
  <1> SUFFICES ASSUME Aware!LimitsOK PROVE Aware!Spec => []Aware!FeedSafe
    OBVIOUS
  <1>1. Aware!Init => AwareInv
    BY AwareInitHolds
  <1>2. AwareInv /\ [Aware!Next]_Aware!avars => AwareInv'
    BY AwareStepKeeps
  <1>3. AwareInv => Aware!FeedSafe
    BY AwarePromised
  <1> QED BY <1>1, <1>2, <1>3, PTL DEF Aware!Spec

-----------------------------------------------------------------------------
(* The hooks: any rows, agents, limits and callers.                        *)

\* The instance's operators on finite sets are those of the standard modules.
LEMMA HookLibrary ==
  /\ \A S : Hook!Cardinality(S) = Cardinality(S)
  /\ \A S : Hook!IsFiniteSet(S) <=> IsFiniteSet(S)
  BY DEF Hook!Cardinality, Cardinality, Hook!IsFiniteSet, IsFiniteSet

\* What the library says of finite sets, for those operators.
LEMMA HookCardinalityType == ASSUME NEW S, Hook!IsFiniteSet(S) PROVE Hook!Cardinality(S) \in Nat
  BY HookLibrary, FS_CardinalityType
LEMMA HookEmptySet == Hook!IsFiniteSet({}) /\ Hook!Cardinality({}) = 0
  BY HookLibrary, FS_EmptySet
LEMMA HookInterval ==
  ASSUME NEW m \in Int, NEW n \in Int
  PROVE  /\ Hook!IsFiniteSet(m..n)
         /\ Hook!Cardinality(m..n) = IF m > n THEN 0 ELSE n - m + 1
  BY HookLibrary, FS_Interval
LEMMA HookSubset ==
  ASSUME NEW S, Hook!IsFiniteSet(S), NEW T \in SUBSET S
  PROVE  Hook!IsFiniteSet(T) /\ Hook!Cardinality(T) <= Hook!Cardinality(S)
  BY HookLibrary, FS_Subset
LEMMA HookUnion ==
  ASSUME NEW S, NEW T, Hook!IsFiniteSet(S), Hook!IsFiniteSet(T)
  PROVE  Hook!Cardinality(S \cup T) =
           Hook!Cardinality(S) + Hook!Cardinality(T) - Hook!Cardinality(S \cap T)
  BY HookLibrary, FS_Union

HookTicks   == 0..MaxMinute
HookEntries == [at : HookTicks, stamp : HookTicks]
HookCalls   == [pc : {"idle", "scan", "stamp", "admit", "composed", "limited"}, agent : Agents,
            read : SUBSET Hook!Checkpoints, issued : SUBSET Hook!Item, stamp : HookTicks,
            retired : SUBSET Hook!Checkpoints]

HookTypes ==
  /\ status \in [Hook!Checkpoints -> {"absent", "live", "archived", "quarantined"}]
  /\ refuse \in BOOLEAN /\ hook \in [Callers -> HookCalls]
  /\ ledger \in [Agents -> Seq(HookTicks)] /\ admitted \in [Agents -> Seq(HookEntries)]
  /\ stored \subseteq {s \in Sizes : MaxChars = 0 \/ s <= MaxChars} \X Agents
  /\ minute \in HookTicks

\* A call's rows are live, or were retired under its eyes; an idle one has none.
HookCallFits(c) ==
  /\ c.pc = "idle" => c.read = {} /\ c.issued = {}
  /\ c.pc = "scan" => c.read # {}
  /\ c.pc = "admit" => c.stamp <= minute
  /\ \A r \in c.read : status[r] = "live" \/ r \in c.retired
  /\ \A i \in c.issued : /\ i.row \in Secret => i.text = "redacted"
                         /\ status[i.row] = "live" \/ i.row \in c.retired

\* Queries are admitted in the order of the clock, each no earlier than it was stamped.
HookInOrder(A, n) ==
  /\ \A i \in 1..Len(A) : A[i].stamp <= A[i].at /\ A[i].at <= n
  /\ \A i, j \in 1..Len(A) : i <= j => A[i].at <= A[j].at

\* The ledger is what is left of the admitted queries' stamps: the last ones; the
\* others have left the window.
HookSuffix(L, A, n) ==
  /\ Len(L) <= Len(A) /\ Len(L) <= RateLimit
  /\ \A i \in 1..Len(L) : L[i] = A[Len(A) - Len(L) + i].stamp
  /\ \A j \in 1..(Len(A) - Len(L)) : A[j].stamp + RateWindow <= n

\* The queries whose clock was read in the tick they were admitted, of one window.
HookPrompts(A, end) == {j \in 1..Len(A) : /\ A[j].at = A[j].stamp /\ A[j].at <= end
                                          /\ A[j].at + RateWindow > end}
HookWithinLimit(A) == \A i \in 1..Len(A) : Hook!Cardinality(HookPrompts(A, A[i].at)) <= RateLimit

HookLedgerFits(L, A, n) ==
  /\ HookInOrder(A, n)
  /\ IF RateLimit > 0 THEN HookSuffix(L, A, n) /\ HookWithinLimit(A) ELSE L = <<>>

HookInv ==
  /\ HookTypes /\ (\A t \in Callers : HookCallFits(hook[t]))
  /\ \A a \in Agents : HookLedgerFits(ledger[a], admitted[a], minute)

-----------------------------------------------------------------------------
(* The recall.                                                             *)

\* The rows later than a given one can be counted, and more of them are no fewer.
LEMMA HookNewerIsFinite ==
  ASSUME Hook!LimitsOK, NEW S \in SUBSET Hook!Checkpoints, NEW r \in Hook!Checkpoints
  PROVE  /\ Hook!IsFiniteSet({q \in S : q > r}) /\ Hook!Cardinality({q \in S : q > r}) \in Nat
         /\ \A T \in SUBSET S : Hook!Cardinality({q \in T : q > r}) <= Hook!Cardinality({q \in S : q > r})
  <1>1. Hook!IsFiniteSet(Hook!Checkpoints)
    BY HookInterval DEF Hook!LimitsOK, Hook!Checkpoints
  <1>2. Hook!IsFiniteSet({q \in S : q > r})
    BY <1>1, HookSubset
  <1>3. Hook!Cardinality({q \in S : q > r}) \in Nat
    BY <1>2, HookCardinalityType
  <1>4. ASSUME NEW T \in SUBSET S
        PROVE  Hook!Cardinality({q \in T : q > r}) <= Hook!Cardinality({q \in S : q > r})
    <2>1. {q \in T : q > r} \in SUBSET {q \in S : q > r}
      OBVIOUS
    <2> QED BY <1>2, <2>1, HookSubset
  <1> QED BY <1>2, <1>3, <1>4

\* A page of Overfetch times the limit misses a live row only behind more than
\* (Overfetch - 1) times the limit of rows that recall_context drops.
LEMMA HookRecallCompletes == ASSUME Hook!LimitsOK, HookTypes PROVE Hook!RecallIsComplete
  <1> DEFINE page == Hook!Newest(Hook!Present, Overfetch * RowLimit)
  <1> SUFFICES ASSUME NEW r \in Hook!Newest(Hook!Live, RowLimit), r \notin Hook!Newest(page \cap Hook!Live, RowLimit)
               PROVE  Hook!Cardinality({q \in Hook!Present \ Hook!Live : q > r}) > (Overfetch - 1) * RowLimit
    BY DEF Hook!RecallIsComplete, Hook!recall_context
  <1>1. /\ Hook!Live \in SUBSET Hook!Checkpoints /\ Hook!Present \in SUBSET Hook!Checkpoints
        /\ Hook!Live \subseteq Hook!Present
        /\ r \in Hook!Live /\ Hook!Cardinality({q \in Hook!Live : q > r}) < RowLimit
    BY DEF Hook!Newest, Hook!Live, Hook!Present
  <1>2. r \notin page
    <2>1. SUFFICES ASSUME r \in page PROVE FALSE
      OBVIOUS
    <2>2. Hook!Cardinality({q \in page \cap Hook!Live : q > r}) <= Hook!Cardinality({q \in Hook!Live : q > r})
      BY <1>1, HookNewerIsFinite
    <2>3. page \cap Hook!Live \in SUBSET Hook!Checkpoints
      BY <1>1
    <2>4. Hook!Cardinality({q \in page \cap Hook!Live : q > r}) \in Nat /\ Hook!Cardinality({q \in Hook!Live : q > r}) \in Nat
      BY <1>1, <2>3, HookNewerIsFinite
    <2>5. Hook!Cardinality({q \in page \cap Hook!Live : q > r}) < RowLimit
      BY <1>1, <2>2, <2>4 DEF Hook!LimitsOK
    <2> QED BY <1>1, <2>1, <2>5 DEF Hook!Newest
  <1> DEFINE old == {q \in Hook!Present \ Hook!Live : q > r}
             new == {q \in Hook!Live : q > r}
             all == {q \in Hook!Present : q > r}
  <1>3. ~(Hook!Cardinality(all) < Overfetch * RowLimit)
    BY <1>1, <1>2 DEF Hook!Newest
  <1>4. /\ Hook!IsFiniteSet(old) /\ Hook!IsFiniteSet(new) /\ Hook!Cardinality(old) \in Nat
        /\ Hook!Cardinality(new) \in Nat /\ Hook!Cardinality(all) \in Nat
    <2>1. Hook!Present \ Hook!Live \in SUBSET Hook!Checkpoints
      BY <1>1
    <2> QED BY <1>1, <2>1, HookNewerIsFinite
  <1>5. Hook!Cardinality(all) = Hook!Cardinality(old) + Hook!Cardinality(new)
    <2>1. all = old \cup new /\ old \cap new = {}
      BY <1>1
    <2> HIDE DEF all, old, new
    <2>2. Hook!Cardinality(old \cup new) = Hook!Cardinality(old) + Hook!Cardinality(new) - Hook!Cardinality(old \cap new)
      BY <1>4, HookUnion
    <2>3. Hook!Cardinality(old \cap new) = 0
      BY <2>1, HookEmptySet
    <2> QED BY <1>4, <2>1, <2>2, <2>3
  <1>6. Hook!Cardinality(new) < RowLimit
    BY <1>1
  <1> HIDE DEF all, old, new, page
  <1>7. Overfetch * RowLimit = (Overfetch - 1) * RowLimit + RowLimit
        /\ (Overfetch - 1) * RowLimit \in Nat
    BY DEF Hook!LimitsOK
  <1>8. Hook!Cardinality(old) > (Overfetch - 1) * RowLimit
    <2> DEFINE m == (Overfetch - 1) * RowLimit
               n == Overfetch * RowLimit
    <2>1. m \in Nat /\ n = m + RowLimit /\ RowLimit \in Nat
      BY <1>7 DEF Hook!LimitsOK
    <2>2. ~(Hook!Cardinality(all) < n)
      BY <1>3
    <2> HIDE DEF m, n
    <2>3. Hook!Cardinality(old) > m
      BY <1>4, <1>5, <1>6, <2>1, <2>2
    <2> QED BY <2>3 DEF m
  <1> QED BY <1>8 DEF old

-----------------------------------------------------------------------------
(* The ledger.                                                             *)

\* The least of a set of numbers is one of them.
LEMMA HookMinIsIn ==
  ASSUME NEW S \in SUBSET Nat, S # {}
  PROVE  LET m == CHOOSE i \in S : \A j \in S : i <= j IN m \in S /\ \A j \in S : m <= j
  <1>1. PICK y \in S : \A z \in S : ~(<<z, y>> \in OpToRel(<, Nat))
    BY NatLessThanWellFounded, WFMin
  <1>2. ASSUME NEW j \in S PROVE y <= j
    <2>1. ~(j < y)
      BY <1>1 DEF OpToRel
    <2> QED BY <2>1
  <1> QED BY <1>2

\* What pruning leaves is a suffix that starts in the window; what goes was out of it.
LEMMA HookPrunedIsSuffix ==
  ASSUME NEW L \in Seq(HookTicks), NEW s \in HookTicks, Hook!LimitsOK
  PROVE  LET P == Hook!Pruned(L, s) IN
         /\ P \in Seq(HookTicks) /\ Len(P) <= Len(L)
         /\ \A i \in 1..Len(P) : P[i] = L[Len(L) - Len(P) + i]
         /\ \A j \in 1..(Len(L) - Len(P)) : L[j] + RateWindow <= s
         /\ Len(P) > 0 => P[1] + RateWindow > s
  <1> DEFINE kept == {i \in DOMAIN L : Hook!InWindow(L[i], s)}
             m == CHOOSE i \in kept : \A j \in kept : i <= j
             P == Hook!Pruned(L, s)
  <1>1. /\ DOMAIN L = 1..Len(L) /\ Len(L) \in Nat /\ \A i \in 1..Len(L) : L[i] \in Nat /\ L[i] \in HookTicks
        /\ s \in Nat /\ RateWindow \in Nat
    BY LenProperties DEF HookTicks, Hook!LimitsOK
  <1>2. CASE kept = {}
    <2>1. P = <<>>
      BY <1>2 DEF Hook!Pruned
    <2>2. ASSUME NEW j \in 1..Len(L) PROVE L[j] + RateWindow <= s
      <3>1. ~Hook!InWindow(L[j], s)
        BY <1>1, <1>2
      <3> QED BY <1>1, <3>1 DEF Hook!InWindow
    <2> QED BY <1>1, <2>1, <2>2
  <1>3. CASE kept # {}
    <2>1. m \in kept /\ \A j \in kept : m <= j
      <3>1. kept \in SUBSET Nat
        BY <1>1
      <3> HIDE DEF kept
      <3> QED BY <1>3, <3>1, HookMinIsIn
    <2>2. P = SubSeq(L, m, Len(L))
      BY <1>3 DEF Hook!Pruned
    <2>3. ASSUME NEW j \in 1..Len(L), j < m PROVE L[j] + RateWindow <= s
      <3>1. j \notin kept
        BY <1>1, <2>1, <2>3
      <3>2. ~Hook!InWindow(L[j], s)
        BY <1>1, <3>1
      <3> QED BY <1>1, <3>2 DEF Hook!InWindow
    <2>4. m \in 1..Len(L) /\ L[m] + RateWindow > s
      BY <1>1, <2>1 DEF Hook!InWindow
    <2> HIDE DEF m, kept
    <2>5. \A i \in m..Len(L) : L[i] \in HookTicks
      BY <1>1, <2>4
    <2>6. /\ SubSeq(L, m, Len(L)) \in Seq(HookTicks) /\ Len(SubSeq(L, m, Len(L))) = Len(L) - m + 1
          /\ \A i \in 1..(Len(L) - m + 1) : SubSeq(L, m, Len(L))[i] = L[m + i - 1]
      <3>1. m \in Int /\ Len(L) \in Int /\ m <= Len(L)
        BY <1>1, <2>4
      <3> QED BY <2>5, <3>1, SubSeqProperties
    <2> HIDE DEF P
    <2>7. /\ P \in Seq(HookTicks) /\ Len(P) = Len(L) - m + 1
          /\ \A i \in 1..(Len(L) - m + 1) : P[i] = L[m + i - 1]
      BY <2>2, <2>6
    <2>8. /\ Len(P) <= Len(L) /\ Len(L) - Len(P) = m - 1 /\ Len(P) > 0
          /\ \A i \in 1..Len(P) : m + i - 1 = Len(L) - Len(P) + i
      BY <1>1, <2>4, <2>7
    <2>9. \A i \in 1..Len(P) : P[i] = L[Len(L) - Len(P) + i]
      BY <2>7, <2>8
    <2>10. \A j \in 1..(Len(L) - Len(P)) : L[j] + RateWindow <= s
      BY <1>1, <2>3, <2>4, <2>8
    <2>11. P[1] = L[m]
      BY <1>1, <2>4, <2>7
    <2> QED BY <2>4, <2>7, <2>8, <2>9, <2>10, <2>11 DEF P
  <1> QED BY <1>2, <1>3

\* A sequence's elements are of its kind.
LEMMA HookElementsAre ==
  ASSUME NEW S, NEW A \in Seq(S)
  PROVE  Len(A) \in Nat /\ DOMAIN A = 1..Len(A) /\ \A i \in 1..Len(A) : A[i] \in S
  BY LenProperties

\* Appending keeps the elements that are there and adds one.
LEMMA HookAppendedIs ==
  ASSUME NEW S, NEW A \in Seq(S), NEW e \in S
  PROVE  /\ Append(A, e) \in Seq(S) /\ Len(Append(A, e)) = Len(A) + 1 /\ Len(A) \in Nat
         /\ \A i \in 1..Len(A) : Append(A, e)[i] = A[i] /\ A[i] \in S
         /\ Append(A, e)[Len(A) + 1] = e
  BY AppendProperties, LenProperties

\* One more query, stamped before now.
LEMMA HookAppendInOrder ==
  ASSUME NEW A \in Seq(HookEntries), NEW n \in HookTicks,
         NEW s \in HookTicks, s <= n, HookInOrder(A, n), Hook!LimitsOK
  PROVE  HookInOrder(Append(A, [at |-> n, stamp |-> s]), n)
  <1> DEFINE e == [at |-> n, stamp |-> s]
             B == Append(A, e)
             k == Len(A)
  <1>1. e \in HookEntries /\ e.at = n /\ e.stamp = s
    BY DEF HookEntries
  <1>2. /\ Len(B) = k + 1 /\ k \in Nat /\ (\A i \in 1..k : B[i] = A[i] /\ A[i] \in HookEntries)
        /\ B[k + 1] = e
    BY <1>1, HookAppendedIs
  <1>3. n \in Nat
    BY DEF HookTicks, Hook!LimitsOK
  <1> HIDE DEF e, B, k
  <1>4. \A i \in 1..k : A[i].stamp <= A[i].at /\ A[i].at <= n
    BY DEF HookInOrder, k
  <1>5. \A i, j \in 1..k : i <= j => A[i].at <= A[j].at
    BY DEF HookInOrder, k
  <1>6. ASSUME NEW i \in 1..(k + 1) PROVE B[i].stamp <= B[i].at /\ B[i].at <= n
    BY <1>1, <1>2, <1>3, <1>4
  <1>7. ASSUME NEW i \in 1..(k + 1), NEW j \in 1..(k + 1), i <= j PROVE B[i].at <= B[j].at
    <2>1. CASE j = k + 1
      BY <1>1, <1>2, <1>6, <2>1
    <2>2. CASE j \in 1..k
      BY <1>2, <1>5, <1>7, <2>2
    <2> QED BY <1>2, <2>1, <2>2
  <1>8. HookInOrder(B, n)
    BY <1>2, <1>6, <1>7 DEF HookInOrder
  <1> QED BY <1>8 DEF B, e

\* Pruning the ledger at a stamp that has passed leaves a suffix of the queries.
LEMMA HookPrunedFits ==
  ASSUME Hook!LimitsOK, NEW L \in Seq(HookTicks), NEW A \in Seq(HookEntries),
         NEW n \in HookTicks, NEW s \in HookTicks,
         s <= n, HookSuffix(L, A, n)
  PROVE  Hook!Pruned(L, s) \in Seq(HookTicks) /\ HookSuffix(Hook!Pruned(L, s), A, n)
  <1> DEFINE P == Hook!Pruned(L, s)
  <1>1. /\ P \in Seq(HookTicks) /\ Len(P) <= Len(L)
        /\ \A i \in 1..Len(P) : P[i] = L[Len(L) - Len(P) + i]
        /\ \A j \in 1..(Len(L) - Len(P)) : L[j] + RateWindow <= s
    BY HookPrunedIsSuffix
  <1> HIDE DEF P
  <1> DEFINE p == Len(P)
             l == Len(L)
             a == Len(A)
  <1>2. p \in Nat /\ l \in Nat /\ a \in Nat /\ p <= l /\ l <= a /\ l <= RateLimit
        /\ RateLimit \in Nat
        /\ n \in Nat /\ s \in Nat /\ RateWindow \in Nat
    BY <1>1, LenProperties DEF HookSuffix, HookTicks, Hook!LimitsOK
  <1>3. /\ \A i \in 1..l : L[i] = A[a - l + i].stamp /\ L[i] \in Nat
        /\ \A j \in 1..(a - l) : A[j].stamp + RateWindow <= n
    <2>1. \A i \in 1..l : L[i] \in Nat
      <3>1. \A i \in 1..l : L[i] \in HookTicks
        BY HookElementsAre
      <3> HIDE DEF l
      <3> QED BY <3>1 DEF HookTicks
    <2> QED BY <2>1 DEF HookSuffix
  <1>4. \A i \in 1..p : P[i] = L[l - p + i]
    BY <1>1
  <1>5. \A j \in 1..(l - p) : L[j] + RateWindow <= s
    BY <1>1
  <1> HIDE DEF p, l, a
  <1>6. ASSUME NEW i \in 1..p PROVE P[i] = A[a - p + i].stamp
    <2>1. l - p + i \in 1..l /\ a - l + (l - p + i) = a - p + i
      BY <1>2
    <2> QED BY <1>3, <1>4, <2>1
  <1>7. ASSUME NEW j \in 1..(a - p) PROVE A[j].stamp + RateWindow <= n
    <2>1. CASE j \in 1..(a - l)
      BY <1>3, <2>1
    <2>2. CASE ~(j \in 1..(a - l))
      <3>1. j - (a - l) \in 1..(l - p) /\ j - (a - l) \in 1..l /\ a - l + (j - (a - l)) = j
        BY <1>2, <2>2
      <3>2. L[j - (a - l)] = A[j].stamp /\ L[j - (a - l)] + RateWindow <= s
            /\ L[j - (a - l)] \in Nat
        BY <1>3, <1>5, <3>1
      <3>3. s \in Nat /\ n \in Nat /\ RateWindow \in Nat /\ A[j].stamp \in Nat
        BY <1>2, <3>2
      <3>4. A[j].stamp + RateWindow <= s
        BY <3>2
      <3> QED BY <3>3, <3>4
    <2> QED BY <2>1, <2>2
  <1>8. HookSuffix(P, A, n)
    BY <1>2, <1>6, <1>7 DEF HookSuffix, p, a
  <1> QED BY <1>1, <1>8 DEF P

\* A charged query joins the ledger and the queries.
LEMMA HookAppendFits ==
  ASSUME Hook!LimitsOK, NEW L \in Seq(HookTicks), NEW A \in Seq(HookEntries),
         NEW n \in HookTicks, NEW s \in HookTicks,
         Len(L) < RateLimit, HookSuffix(L, A, n)
  PROVE  HookSuffix(Append(L, s), Append(A, [at |-> n, stamp |-> s]), n)
  <1> DEFINE e == [at |-> n, stamp |-> s]
             B == Append(A, e)
             M == Append(L, s)
             l == Len(L)
             a == Len(A)
  <1>1. e \in HookEntries /\ e.stamp = s
    BY DEF HookEntries
  <1>2. Len(B) = a + 1 /\ a \in Nat /\ (\A i \in 1..a : B[i] = A[i]) /\ B[a + 1] = e
    BY <1>1, HookAppendedIs
  <1>3. Len(M) = l + 1 /\ l \in Nat /\ (\A i \in 1..l : M[i] = L[i]) /\ M[l + 1] = s
    BY HookAppendedIs
  <1>4. /\ l <= a /\ l < RateLimit /\ RateLimit \in Nat
        /\ \A i \in 1..l : L[i] = A[a - l + i].stamp
        /\ \A j \in 1..(a - l) : A[j].stamp + RateWindow <= n
    BY DEF HookSuffix, Hook!LimitsOK
  <1> HIDE DEF e, B, M, l, a
  <1>5. ASSUME NEW i \in 1..(l + 1) PROVE M[i] = B[(a + 1) - (l + 1) + i].stamp
    <2>1. (a + 1) - (l + 1) + i = a - l + i
      BY <1>2, <1>3
    <2>2. CASE i = l + 1
      <3>1. a - l + i = a + 1
        BY <1>2, <1>3, <2>2
      <3> QED BY <1>1, <1>2, <1>3, <2>1, <2>2, <3>1
    <2>3. CASE i \in 1..l
      <3>1. a - l + i \in 1..a
        BY <1>2, <1>3, <1>4, <2>3
      <3> QED BY <1>2, <1>3, <1>4, <2>1, <2>3, <3>1
    <2> QED BY <1>3, <2>2, <2>3
  <1>6. ASSUME NEW j \in 1..((a + 1) - (l + 1)) PROVE B[j].stamp + RateWindow <= n
    <2>1. j \in 1..(a - l) /\ j \in 1..a
      BY <1>2, <1>3, <1>4
    <2> QED BY <1>2, <1>4, <2>1
  <1>7. l + 1 <= a + 1 /\ l + 1 <= RateLimit
    BY <1>2, <1>3, <1>4
  <1>8. HookSuffix(M, B, n)
    BY <1>2, <1>3, <1>5, <1>6, <1>7 DEF HookSuffix
  <1> QED BY <1>8 DEF M, B, e

\* As long as the ledger holds the queries of the window, no more of them are
\* prompt than the limit allows.
LEMMA HookAppendWithinLimit ==
  ASSUME Hook!LimitsOK, NEW A \in Seq(HookEntries), NEW n \in HookTicks, NEW s \in HookTicks,
         NEW M \in Seq(HookTicks),
         HookInOrder(A, n), HookWithinLimit(A), HookSuffix(M, Append(A, [at |-> n, stamp |-> s]), n)
  PROVE  HookWithinLimit(Append(A, [at |-> n, stamp |-> s]))
  <1> DEFINE e == [at |-> n, stamp |-> s]
             B == Append(A, e)
             a == Len(A)
             m == Len(M)
  <1>1. e \in HookEntries /\ e.at = n
    BY DEF HookEntries
  <1>2. /\ B \in Seq(HookEntries) /\ Len(B) = a + 1 /\ a \in Nat
        /\ (\A i \in 1..a : B[i] = A[i] /\ A[i] \in HookEntries) /\ B[a + 1] = e
    BY <1>1, HookAppendedIs
  <1>3. m \in Nat /\ m <= a + 1 /\ m <= RateLimit /\ RateLimit \in Nat /\ n \in Nat
        /\ RateWindow \in Nat
        /\ \A j \in 1..(a + 1 - m) : B[j].stamp + RateWindow <= n
    <2>1. m \in Nat
      BY HookElementsAre
    <2>2. HookSuffix(M, B, n)
      OBVIOUS
    <2> HIDE DEF B
    <2> QED BY <1>2, <2>1, <2>2 DEF HookSuffix, Hook!LimitsOK, HookTicks
  <1>4. \A i \in 1..a : A[i].at <= n
    BY DEF HookInOrder
  <1> HIDE DEF e, B, m, a
  <1>5. \A j \in 1..(a + 1) : B[j] \in HookEntries /\ B[j].at \in Nat /\ B[j].stamp \in Nat
    <2>1. \A j \in 1..(a + 1) : B[j] \in HookEntries
      BY <1>2, HookElementsAre
    <2> QED BY <2>1 DEF HookEntries, HookTicks
  <1>6. Hook!Cardinality(HookPrompts(B, n)) <= RateLimit
    <2>1. ASSUME NEW j \in HookPrompts(B, n) PROVE j \in (a + 2 - m)..(a + 1)
      <3>1. j \in 1..(a + 1) /\ B[j].at = B[j].stamp /\ B[j].at + RateWindow > n
        BY <1>2, <2>1 DEF HookPrompts
      <3>2. ~(j \in 1..(a + 1 - m))
        BY <1>3, <1>5, <3>1
      <3> QED BY <1>2, <1>3, <3>1, <3>2
    <2>2. a + 2 - m \in Int /\ a + 1 \in Int /\ (a + 1) - (a + 2 - m) + 1 = m
      <3>1. a \in Nat /\ m \in Nat
        BY <1>2, <1>3
      <3> QED BY <3>1
    <2>3. Hook!IsFiniteSet((a + 2 - m)..(a + 1)) /\ Hook!Cardinality((a + 2 - m)..(a + 1)) <= m
      <3>1. /\ Hook!IsFiniteSet((a + 2 - m)..(a + 1))
            /\ Hook!Cardinality((a + 2 - m)..(a + 1)) =
                 IF a + 2 - m > a + 1 THEN 0 ELSE (a + 1) - (a + 2 - m) + 1
        BY <2>2, HookInterval
      <3> QED BY <1>2, <1>3, <2>2, <3>1
    <2>4. /\ Hook!IsFiniteSet(HookPrompts(B, n))
          /\ Hook!Cardinality(HookPrompts(B, n)) <= Hook!Cardinality((a + 2 - m)..(a + 1))
      BY <2>1, <2>3, HookSubset
    <2>5. Hook!Cardinality(HookPrompts(B, n)) \in Nat
          /\ Hook!Cardinality((a + 2 - m)..(a + 1)) \in Nat
      BY <2>3, <2>4, HookCardinalityType
    <2> QED BY <1>3, <2>3, <2>4, <2>5
  <1>7. ASSUME NEW i \in 1..(a + 1) PROVE Hook!Cardinality(HookPrompts(B, B[i].at)) <= RateLimit
    <2>1. CASE B[i].at = n
      BY <1>6, <2>1
    <2>2. CASE B[i].at # n
      <3>1. i \in 1..a /\ B[i] = A[i] /\ A[i].at < n
        BY <1>1, <1>2, <1>4, <1>5, <1>3, <2>2
      <3>2. HookPrompts(B, A[i].at) = HookPrompts(A, A[i].at)
        <4>1. a + 1 \notin HookPrompts(B, A[i].at)
          <5>1. B[a + 1].at = n /\ A[i].at < n /\ n \in Nat
            BY <1>1, <1>2, <1>3, <3>1
          <5>2. A[i].at \in Nat
            BY <1>2, <1>5, <3>1
          <5>3. ~(B[a + 1].at <= A[i].at)
            BY <5>1, <5>2
          <5> QED BY <5>3 DEF HookPrompts
        <4>2. ASSUME NEW j \in 1..a
              PROVE  j \in HookPrompts(B, A[i].at) <=> j \in HookPrompts(A, A[i].at)
          BY <1>2 DEF HookPrompts, a
        <4>3. HookPrompts(B, A[i].at) \subseteq 1..(a + 1) /\ HookPrompts(A, A[i].at) \subseteq 1..a
          BY <1>2 DEF HookPrompts, a
        <4>4. 1..(a + 1) = 1..a \cup {a + 1}
          BY <1>2
        <4> QED BY <4>1, <4>2, <4>3, <4>4
      <3>3. Hook!Cardinality(HookPrompts(A, A[i].at)) <= RateLimit
        BY <3>1 DEF HookWithinLimit, a
      <3> QED BY <3>1, <3>2, <3>3
    <2> QED BY <2>1, <2>2
  <1>8. HookWithinLimit(B)
    BY <1>2, <1>7 DEF HookWithinLimit
  <1> QED BY <1>8 DEF B, e

\* A pruned ledger at its limit means that many queries admitted within the window.
LEMMA HookRefusedIsFull ==
  ASSUME Hook!LimitsOK, NEW L \in Seq(HookTicks), NEW A \in Seq(HookEntries),
         NEW n \in HookTicks, NEW s \in HookTicks,
         s <= n, HookInOrder(A, n), HookSuffix(L, A, n), RateLimit > 0, Len(Hook!Pruned(L, s)) >= RateLimit
  PROVE  Hook!Cardinality({j \in DOMAIN A : A[j].at + RateWindow > s}) >= RateLimit
  <1> DEFINE P == Hook!Pruned(L, s)
             S == {j \in DOMAIN A : A[j].at + RateWindow > s}
  <1>1. /\ P \in Seq(HookTicks) /\ Len(P) > 0 => P[1] + RateWindow > s
    BY HookPrunedIsSuffix
  <1>2. P \in Seq(HookTicks) /\ HookSuffix(P, A, n)
    BY HookPrunedFits
  <1>3. Len(P) >= RateLimit
    OBVIOUS
  <1> HIDE DEF P
  <1> DEFINE p == Len(P)
             a == Len(A)
  <1>4. /\ p \in Nat /\ a \in Nat /\ p <= a /\ p >= RateLimit /\ RateLimit \in Nat /\ p > 0
        /\ DOMAIN A = 1..a /\ s \in Nat /\ RateWindow \in Nat
        /\ \A i \in 1..a : A[i].at \in Nat /\ A[i].stamp \in Nat
    <2>1. a \in Nat /\ DOMAIN A = 1..a /\ \A i \in 1..a : A[i] \in HookEntries
      BY HookElementsAre
    <2>2. p \in Nat
      BY <1>2, HookElementsAre
    <2>3. \A i \in 1..a : A[i].at \in Nat /\ A[i].stamp \in Nat
      BY <2>1 DEF HookEntries, HookTicks
    <2> QED BY <1>2, <1>3, <2>1, <2>2, <2>3 DEF HookSuffix, Hook!LimitsOK, HookTicks
  <1>5. P[1] = A[a - p + 1].stamp
    <2>1. 1 \in 1..p
      BY <1>4
    <2> QED BY <1>2, <2>1 DEF HookSuffix
  <1>6. /\ \A i \in 1..a : A[i].stamp <= A[i].at
        /\ \A i, j \in 1..a : i <= j => A[i].at <= A[j].at
    BY DEF HookInOrder
  <1>7. P[1] + RateWindow > s
    BY <1>1, <1>2, <1>4
  <1> HIDE DEF p, a
  <1>8. ASSUME NEW j \in (a - p + 1)..a PROVE j \in S
    <2>1. a - p + 1 \in 1..a /\ j \in 1..a /\ a - p + 1 <= j
      BY <1>4
    <2>2. A[a - p + 1].at <= A[j].at /\ A[a - p + 1].stamp <= A[a - p + 1].at
      BY <1>6, <2>1
    <2>3. A[j].at + RateWindow > s
      <3> DEFINE x == A[j].at
                 y == A[a - p + 1].at
                 z == A[a - p + 1].stamp
      <3>1. /\ x \in Nat /\ y \in Nat /\ z \in Nat /\ s \in Nat /\ RateWindow \in Nat
        BY <1>4, <2>1
      <3>2. z + RateWindow > s
        BY <1>5, <1>7
      <3>3. y <= x /\ z <= y
        BY <2>2
      <3> HIDE DEF x, y, z
      <3>4. x + RateWindow > s
        BY <3>1, <3>2, <3>3
      <3> QED BY <3>4 DEF x
    <2> QED BY <1>4, <2>1, <2>3
  <1>9. Hook!IsFiniteSet(S)
    <2>1. Hook!IsFiniteSet(1..a)
      BY <1>4, HookInterval
    <2>2. S \in SUBSET (1..a)
      BY <1>4
    <2> QED BY <2>1, <2>2, HookSubset
  <1>10. Hook!Cardinality((a - p + 1)..a) = p
    <2>1. a - p + 1 \in Int /\ a \in Int /\ a - (a - p + 1) + 1 = p /\ ~(a - p + 1 > a)
      BY <1>4
    <2> QED BY <2>1, HookInterval
  <1>11. Hook!Cardinality((a - p + 1)..a) <= Hook!Cardinality(S)
    <2>1. (a - p + 1)..a \in SUBSET S
      BY <1>8
    <2> HIDE DEF S
    <2> QED BY <1>9, <2>1, HookSubset
  <1>12. Hook!Cardinality(S) \in Nat
    BY <1>9, HookCardinalityType
  <1> QED BY <1>4, <1>10, <1>11, <1>12

-----------------------------------------------------------------------------
(* The steps.                                                              *)

\* A call that has ended fits its place.
LEMMA HookIdleFits ==
  ASSUME Hook!LimitsOK
  PROVE  Hook!Idle \in HookCalls /\ Hook!Idle.pc = "idle" /\ HookCallFits(Hook!Idle)
                                        /\ Hook!Idle.read = {} /\ Hook!Idle.issued = {}
  <1>1. (CHOOSE a \in Agents : TRUE) \in Agents
    BY DEF Hook!LimitsOK
  <1>2. 0 \in HookTicks
    BY DEF HookTicks, Hook!LimitsOK
  <1> QED BY <1>1, <1>2 DEF Hook!Idle, HookCalls, HookCallFits

\* A step of one call that touches no ledger keeps everything if the call stays fit.
LEMMA HookOneCall ==
  ASSUME Hook!LimitsOK, HookInv, NEW t \in Callers, NEW c \in HookCalls, HookCallFits(c),
         hook' = [hook EXCEPT ![t] = c], UNCHANGED <<status, refuse, ledger, stored, minute, admitted>>
  PROVE  HookInv'
  <1>1. hook'[t] = c /\ \A u \in Callers \ {t} : hook'[u] = hook[u]
    BY DEF HookInv, HookTypes
  <1>2. HookTypes'
    BY DEF HookInv, HookTypes
  <1>3. ASSUME NEW u \in Callers PROVE HookCallFits(hook[u])'
    <2>1. CASE u = t
      BY <1>1, <2>1 DEF HookCallFits
    <2>2. CASE u # t
      BY <1>1, <2>2 DEF HookInv, HookCallFits
    <2> QED BY <2>1, <2>2
  <1>4. \A a \in Agents : HookLedgerFits(ledger'[a], admitted'[a], minute')
    BY DEF HookInv
  <1> QED BY <1>2, <1>3, <1>4 DEF HookInv

\* A session start reads rows that are live.
LEMMA HookOnSessionStartKeeps ==
  ASSUME Hook!LimitsOK, HookInv, NEW t \in Callers, Hook!OnSessionStart(t) PROVE HookInv'
  <1>1. PICK a \in Agents, include \in BOOLEAN :
          hook' = [hook EXCEPT ![t] = [Hook!Idle EXCEPT
            !.pc = IF Hook!recall_context(RowLimit) # {} THEN "scan"
                   ELSE IF include THEN "stamp" ELSE "composed",
            !.agent = a, !.read = Hook!recall_context(RowLimit)]]
    BY DEF Hook!OnSessionStart
  <1> DEFINE read == Hook!recall_context(RowLimit)
             pc == IF read # {} THEN "scan" ELSE IF include THEN "stamp" ELSE "composed"
             c == [Hook!Idle EXCEPT !.pc = pc, !.agent = a, !.read = read]
  <1>2. hook' = [hook EXCEPT ![t] = c]
        /\ UNCHANGED <<status, refuse, ledger, stored, minute, admitted>>
    BY <1>1 DEF Hook!OnSessionStart
  <1>3. read \subseteq Hook!Live /\ Hook!Live \subseteq Hook!Checkpoints
    BY DEF Hook!recall_context, Hook!Newest, Hook!Live
  <1>4. pc \in {"scan", "stamp", "composed"} /\ (pc = "scan" => read # {})
    OBVIOUS
  <1> HIDE DEF read, pc
  <1>5. c \in HookCalls /\ c.pc = pc /\ c.read = read /\ c.issued = {}
    BY <1>3, <1>4, HookIdleFits DEF HookCalls
  <1> HIDE DEF c
  <1>6. HookCallFits(c)
    BY <1>3, <1>4, <1>5 DEF HookCallFits, Hook!Live
  <1> QED BY <1>2, <1>5, <1>6, HookOneCall

\* The newest of the rows read is one of them.
LEMMA HookNewestIsIn ==
  ASSUME Hook!LimitsOK, NEW S \in SUBSET Hook!Checkpoints, S # {}
  PROVE  (CHOOSE r \in S : \A q \in S : q <= r) \in S
  <1> DEFINE T == {MaxRows - x : x \in S}
  <1>1. \A x \in S : MaxRows - x \in Nat /\ x \in Nat
    BY DEF Hook!Checkpoints, Hook!LimitsOK
  <1>2. T \in SUBSET Nat /\ T # {}
    BY <1>1
  <1>3. PICK y \in T : \A z \in T : ~(<<z, y>> \in OpToRel(<, Nat))
    BY <1>2, NatLessThanWellFounded, WFMin
  <1>4. PICK m \in S : y = MaxRows - m
    OBVIOUS
  <1>5. ASSUME NEW x \in S PROVE x <= m
    <2>1. MaxRows - x \in T /\ MaxRows - x \in Nat /\ y \in Nat
      BY <1>1, <1>2
    <2>2. ~(MaxRows - x < y)
      BY <1>3, <2>1 DEF OpToRel
    <2> QED BY <1>1, <1>4, <2>2 DEF Hook!LimitsOK
  <1> QED BY <1>5

\* A row that holds a secret is issued redacted, or refused.
LEMMA HookScanItemKeeps ==
  ASSUME Hook!LimitsOK, HookInv, NEW t \in Callers, Hook!ScanItem(t) PROVE HookInv'
  <1> PICK d \in HookCalls : d = hook[t]
    BY DEF HookInv, HookTypes
  <1> DEFINE r == CHOOSE r \in hook[t].read : \A q \in hook[t].read : q <= r
             rest == hook[t].read \ {r}
  <1>1. PICK items \in {Hook!Issue(r), {}}, next \in {"stamp", "composed"} :
          hook' = [hook EXCEPT ![t].read = rest, ![t].issued = @ \cup items,
                               ![t].pc = IF rest = {} THEN next ELSE "scan"]
    BY DEF Hook!ScanItem
  <1>2. d.pc = "scan" /\ UNCHANGED <<status, refuse, ledger, stored, minute, admitted>>
    BY DEF Hook!ScanItem
  <1>3. HookCallFits(d)
    BY DEF HookInv
  <1>4. r \in d.read /\ r \in Hook!Checkpoints /\ rest \subseteq d.read
    <2>1. d.read \in SUBSET Hook!Checkpoints /\ d.read # {}
      BY <1>2, <1>3 DEF HookCalls, HookCallFits
    <2> QED BY <2>1, HookNewestIsIn
  <1> HIDE DEF r
  <1>5. items \in SUBSET Hook!Item /\ \A i \in items : i.row = r /\ (i.row \in Secret => i.text = "redacted")
    BY <1>1, <1>4 DEF Hook!Issue, Hook!Item
  <1> DEFINE pc == IF rest = {} THEN next ELSE "scan"
             c == [d EXCEPT !.read = rest, !.issued = @ \cup items, !.pc = pc]
  <1>6. pc \in {"stamp", "composed", "scan"} /\ (pc = "scan" => rest # {})
    BY <1>1
  <1>7. hook' = [hook EXCEPT ![t] = c]
    BY <1>1
  <1> HIDE DEF rest, pc
  <1>8. c \in HookCalls /\ c.pc = pc /\ c.read = rest /\ c.issued = d.issued \cup items
        /\ c.retired = d.retired
    BY <1>4, <1>5, <1>6 DEF HookCalls
  <1> HIDE DEF c
  <1>9. HookCallFits(c)
    BY <1>3, <1>4, <1>5, <1>6, <1>8 DEF HookCallFits
  <1> QED BY <1>2, <1>7, <1>8, <1>9, HookOneCall

\* A pre-flight query starts with nothing read and nothing issued.
LEMMA HookPreFlightKeeps ==
  ASSUME Hook!LimitsOK, HookInv, NEW t \in Callers, Hook!PreFlight(t) PROVE HookInv'
  <1>1. PICK a \in Agents : hook' = [hook EXCEPT ![t] = [Hook!Idle EXCEPT !.pc = "stamp", !.agent = a]]
    BY DEF Hook!PreFlight
  <1> DEFINE c == [Hook!Idle EXCEPT !.pc = "stamp", !.agent = a]
  <1>2. c \in HookCalls /\ c.pc = "stamp" /\ c.read = {} /\ c.issued = {}
    BY HookIdleFits DEF HookCalls
  <1>3. hook' = [hook EXCEPT ![t] = c]
        /\ UNCHANGED <<status, refuse, ledger, stored, minute, admitted>>
    BY <1>1 DEF Hook!PreFlight
  <1> HIDE DEF c
  <1>4. HookCallFits(c)
    BY <1>2 DEF HookCallFits
  <1> QED BY <1>2, <1>3, <1>4, HookOneCall

\* The clock is read before the lock is taken: the stamp is not after the admission.
LEMMA HookReadClockKeeps ==
  ASSUME Hook!LimitsOK, HookInv, NEW t \in Callers, Hook!ReadClock(t) PROVE HookInv'
  <1> DEFINE c == [hook[t] EXCEPT !.pc = "admit", !.stamp = minute]
  <1>1. hook[t] \in HookCalls /\ minute \in HookTicks /\ minute \in Nat /\ HookCallFits(hook[t])
    BY DEF HookInv, HookTypes, HookTicks, Hook!LimitsOK
  <1>2. /\ c \in HookCalls /\ c.pc = "admit" /\ c.stamp = minute /\ c.read = hook[t].read
        /\ c.issued = hook[t].issued /\ c.retired = hook[t].retired
    BY <1>1 DEF HookCalls
  <1>3. hook' = [hook EXCEPT ![t] = c]
        /\ UNCHANGED <<status, refuse, ledger, stored, minute, admitted>>
    BY DEF Hook!ReadClock
  <1> HIDE DEF c
  <1>4. HookCallFits(c)
    BY <1>1, <1>2 DEF HookCallFits
  <1> QED BY <1>2, <1>3, <1>4, HookOneCall

\* A returned call holds nothing.
LEMMA HookReturnKeeps ==
  ASSUME Hook!LimitsOK, HookInv, NEW t \in Callers, Hook!Return(t) PROVE HookInv'
  <1>1. hook' = [hook EXCEPT ![t] = Hook!Idle]
        /\ UNCHANGED <<status, refuse, ledger, stored, minute, admitted>>
    BY DEF Hook!Return
  <1> QED BY <1>1, HookIdleFits, HookOneCall

\* Under the lock a query is admitted when the pruned ledger has room; a query refused
\* has RateLimit admissions within the window.
LEMMA HookAdmitKeeps ==
  ASSUME Hook!LimitsOK, HookInv, NEW t \in Callers, Hook!Admit(t)
  PROVE  /\ HookInv'
         /\ hook'[t].pc = "limited" =>
              LET a == hook[t].agent
              IN Hook!Cardinality({j \in DOMAIN admitted[a] :
                                admitted[a][j].at + RateWindow > hook[t].stamp}) >= RateLimit
  <1> PICK d \in HookCalls : d = hook[t]
    BY DEF HookInv, HookTypes
  <1> DEFINE a == d.agent
             s == d.stamp
             P == Hook!Pruned(ledger[a], s)
             over == RateLimit > 0 /\ Len(P) >= RateLimit
             e == [at |-> minute, stamp |-> s]
             pc == IF over THEN "limited" ELSE "composed"
             c == [d EXCEPT !.pc = pc]
             Charges == /\ admitted' \in [Agents -> Seq(HookEntries)] /\ ledger' \in [Agents -> Seq(HookTicks)]
                        /\ HookLedgerFits(ledger'[a], admitted'[a], minute')
                        /\ \A b \in Agents \ {a} : ledger'[b] = ledger[b] /\ admitted'[b] = admitted[b]
                        /\ over => Hook!Cardinality({j \in DOMAIN admitted[a] :
                                                 admitted[a][j].at + RateWindow > s}) >= RateLimit
  <1>1. /\ d.pc = "admit"
        /\ ledger' = IF RateLimit = 0 THEN ledger ELSE [ledger EXCEPT ![a] = Hook!Charged(P, s)]
        /\ admitted' = IF over THEN admitted ELSE [admitted EXCEPT ![a] = Append(@, e)]
        /\ hook' = [hook EXCEPT ![t] = c]
        /\ UNCHANGED <<status, refuse, stored, minute>>
    BY DEF Hook!Admit
  <1>2. HookCallFits(d)
    BY DEF HookInv
  <1>3. /\ a \in Agents /\ s \in HookTicks /\ minute \in HookTicks /\ s <= minute /\ minute \in Nat
        /\ ledger[a] \in Seq(HookTicks) /\ admitted[a] \in Seq(HookEntries) /\ RateLimit \in Nat
    BY <1>1, <1>2 DEF HookCalls, HookCallFits, HookInv, HookTypes, HookTicks, Hook!LimitsOK
  <1>4. HookLedgerFits(ledger[a], admitted[a], minute)
    BY <1>3 DEF HookInv
  <1>5. P \in Seq(HookTicks) /\ Len(P) \in Nat
    BY <1>3, HookPrunedIsSuffix, LenProperties
  <1>6. e \in HookEntries
    BY <1>3 DEF HookEntries
  <1>7. Append(admitted[a], e) \in Seq(HookEntries) /\ Append(P, s) \in Seq(HookTicks)
    BY <1>3, <1>5, <1>6, HookAppendedIs
  <1>8. HookInOrder(admitted[a], minute) /\ HookInOrder(Append(admitted[a], e), minute)
    BY <1>3, <1>4, HookAppendInOrder DEF HookLedgerFits
  <1>9. ASSUME RateLimit = 0 PROVE Charges
    <2>1. ~over /\ ledger' = ledger /\ ledger[a] = <<>>
      BY <1>1, <1>4, <1>9 DEF HookLedgerFits
    <2>2. admitted' = [admitted EXCEPT ![a] = Append(@, e)]
      BY <1>1, <2>1
    <2>3. admitted'[a] = Append(admitted[a], e) /\ \A b \in Agents \ {a} : admitted'[b] = admitted[b]
      BY <1>3, <2>2 DEF HookInv, HookTypes
    <2>4. admitted' \in [Agents -> Seq(HookEntries)] /\ ledger' \in [Agents -> Seq(HookTicks)]
      BY <1>3, <1>7, <2>1, <2>2 DEF HookInv, HookTypes
    <2>5. HookLedgerFits(ledger'[a], admitted'[a], minute')
      BY <1>1, <1>8, <1>9, <2>1, <2>3 DEF HookLedgerFits
    <2> QED BY <2>1, <2>3, <2>4, <2>5
  <1>10. ASSUME RateLimit > 0, over PROVE Charges
    <2>1. HookSuffix(ledger[a], admitted[a], minute) /\ HookWithinLimit(admitted[a])
      BY <1>4, <1>10 DEF HookLedgerFits
    <2>2. HookSuffix(P, admitted[a], minute)
      BY <1>3, <2>1, HookPrunedFits
    <2>3. Hook!Charged(P, s) = P
      BY <1>10 DEF Hook!Charged
    <2>4. ledger' = [ledger EXCEPT ![a] = P] /\ admitted' = admitted
      BY <1>1, <1>3, <1>10, <2>3
    <2>5. ledger'[a] = P /\ \A b \in Agents \ {a} : ledger'[b] = ledger[b]
      BY <1>3, <2>4 DEF HookInv, HookTypes
    <2>6. admitted' \in [Agents -> Seq(HookEntries)] /\ ledger' \in [Agents -> Seq(HookTicks)]
      BY <1>3, <1>5, <2>4 DEF HookInv, HookTypes
    <2>7. HookLedgerFits(ledger'[a], admitted'[a], minute')
      BY <1>1, <1>8, <1>10, <2>1, <2>2, <2>4, <2>5 DEF HookLedgerFits
    <2>8. Hook!Cardinality({j \in DOMAIN admitted[a] : admitted[a][j].at + RateWindow > s}) >= RateLimit
      <3>1. RateLimit > 0 /\ Len(Hook!Pruned(ledger[a], s)) >= RateLimit
        BY <1>10
      <3> HIDE DEF a, s
      <3> QED BY <1>3, <1>8, <2>1, <3>1, HookRefusedIsFull
    <2> QED BY <2>4, <2>5, <2>6, <2>7, <2>8
  <1>11. ASSUME RateLimit > 0, ~over PROVE Charges
    <2>1. HookSuffix(ledger[a], admitted[a], minute) /\ HookWithinLimit(admitted[a])
      BY <1>4, <1>11 DEF HookLedgerFits
    <2>2. HookSuffix(P, admitted[a], minute)
      BY <1>3, <2>1, HookPrunedFits
    <2>3. Len(P) < RateLimit /\ Hook!Charged(P, s) = Append(P, s)
      BY <1>3, <1>5, <1>11 DEF Hook!Charged
    <2>4. /\ ledger' = [ledger EXCEPT ![a] = Append(P, s)]
          /\ admitted' = [admitted EXCEPT ![a] = Append(@, e)]
      <3>1. RateLimit # 0
        BY <1>3, <1>11
      <3> HIDE DEF over
      <3> QED BY <1>1, <1>11, <2>3, <3>1
    <2>5. /\ ledger'[a] = Append(P, s) /\ admitted'[a] = Append(admitted[a], e)
          /\ \A b \in Agents \ {a} : ledger'[b] = ledger[b] /\ admitted'[b] = admitted[b]
      BY <1>3, <2>4 DEF HookInv, HookTypes
    <2>6. admitted' \in [Agents -> Seq(HookEntries)] /\ ledger' \in [Agents -> Seq(HookTicks)]
      BY <1>3, <1>7, <2>4 DEF HookInv, HookTypes
    <2>7. HookSuffix(Append(P, s), Append(admitted[a], e), minute)
      BY <1>3, <1>5, <2>2, <2>3, HookAppendFits
    <2>8. HookWithinLimit(Append(admitted[a], e))
      BY <1>3, <1>7, <1>8, <2>1, <2>7, HookAppendWithinLimit
    <2>9. HookLedgerFits(ledger'[a], admitted'[a], minute')
      BY <1>1, <1>8, <1>11, <2>5, <2>7, <2>8 DEF HookLedgerFits
    <2> QED BY <1>11, <2>5, <2>6, <2>9
  <1>12. pc \in {"limited", "composed"} /\ (pc = "limited" => over)
    OBVIOUS
  <1> HIDE DEF over, P, e, pc
  <1>13. c \in HookCalls /\ c.pc = pc /\ c.read = d.read /\ c.issued = d.issued
         /\ c.retired = d.retired
    BY <1>12 DEF HookCalls
  <1> HIDE DEF c
  <1>14. HookCallFits(c)
    BY <1>2, <1>12, <1>13, <1>1 DEF HookCallFits
  <1>15. hook'[t] = c /\ \A u \in Callers \ {t} : hook'[u] = hook[u]
    BY <1>1 DEF HookInv, HookTypes
  <1>16. ASSUME NEW u \in Callers PROVE HookCallFits(hook[u])'
    <2>1. CASE u = t
      BY <1>1, <1>14, <1>15, <2>1 DEF HookCallFits
    <2>2. CASE u # t
      BY <1>1, <1>15, <2>2 DEF HookInv, HookCallFits
    <2> QED BY <2>1, <2>2
  <1>18. Charges
    <2>1. RateLimit = 0 \/ RateLimit > 0
      BY <1>3
    <2> QED BY <1>9, <1>10, <1>11, <2>1
  <1>19. HookTypes'
    BY <1>1, <1>13, <1>18 DEF HookInv, HookTypes
  <1>20. \A b \in Agents : HookLedgerFits(ledger'[b], admitted'[b], minute')
    BY <1>1, <1>18 DEF HookInv
  <1> QED BY <1>12, <1>13, <1>15, <1>16, <1>18, <1>19, <1>20 DEF HookInv

\* A tool call stores no output longer than the limit.
LEMMA HookPostToolCallKeeps == ASSUME Hook!LimitsOK, HookInv, Hook!PostToolCall PROVE HookInv'
  <1>1. PICK a \in Agents, size \in Sizes : Hook!WithinCap(size) /\ stored' = stored \cup {<<size, a>>}
    BY DEF Hook!PostToolCall
  <1>2. UNCHANGED <<status, refuse, hook, ledger, minute, admitted>>
    BY DEF Hook!PostToolCall
  <1>3. HookTypes'
    BY <1>1, <1>2 DEF HookInv, HookTypes, Hook!WithinCap
  <1>4. \A t \in Callers : HookCallFits(hook[t])'
    BY <1>2 DEF HookInv, HookCallFits
  <1> QED BY <1>2, <1>3, <1>4 DEF HookInv

\* A saved row is new, and in nobody's hands.
LEMMA HookSaveKeeps == ASSUME Hook!LimitsOK, HookInv, Hook!Save PROVE HookInv'
  <1>1. PICK r \in Hook!Checkpoints : status' = [status EXCEPT ![r] = "live"]
    BY DEF Hook!Save
  <1>2. UNCHANGED <<refuse, hook, ledger, stored, minute, admitted>>
    BY DEF Hook!Save
  <1>3. HookTypes' /\ \A q \in Hook!Checkpoints : status[q] = "live" => status'[q] = "live"
    BY <1>1, <1>2 DEF HookInv, HookTypes
  <1>4. ASSUME NEW t \in Callers PROVE HookCallFits(hook[t])'
    <2>1. hook[t] \in HookCalls /\ HookCallFits(hook[t])
      BY DEF HookInv, HookTypes
    <2>2. (\A q \in hook[t].read : q \in Hook!Checkpoints) /\ \A i \in hook[t].issued : i.row \in Hook!Checkpoints
      BY <2>1 DEF HookCalls, Hook!Item
    <2> QED BY <1>2, <1>3, <2>1, <2>2 DEF HookCallFits
  <1> QED BY <1>2, <1>3, <1>4 DEF HookInv

\* A row archived or quarantined is noted as retired by every call that has it.
LEMMA HookRetireKeeps == ASSUME Hook!LimitsOK, HookInv, Hook!Retire PROVE HookInv'
  <1>1. PICK r \in Hook!Live, s \in {"archived", "quarantined"} :
          /\ status' = [status EXCEPT ![r] = s]
          /\ hook' = [t \in Callers |-> [hook[t] EXCEPT !.retired =
                        IF hook[t].pc = "idle" THEN {} ELSE @ \cup {r}]]
    BY DEF Hook!Retire
  <1>2. UNCHANGED <<refuse, ledger, stored, minute, admitted>>
    BY DEF Hook!Retire
  <1>3. r \in Hook!Checkpoints /\ status' \in [Hook!Checkpoints -> {"absent", "live", "archived", "quarantined"}]
        /\ \A q \in Hook!Checkpoints \ {r} : status'[q] = status[q]
    BY <1>1 DEF Hook!Live, HookInv, HookTypes
  <1>4. ASSUME NEW t \in Callers PROVE hook'[t] \in HookCalls /\ HookCallFits(hook[t])'
    <2>1. PICK d \in HookCalls : d = hook[t] /\ HookCallFits(d)
      BY DEF HookInv, HookTypes
    <2> DEFINE gone == IF d.pc = "idle" THEN {} ELSE d.retired \cup {r}
               c == [d EXCEPT !.retired = gone]
    <2>2. hook'[t] = c
      BY <1>1, <2>1
    <2>3. gone \subseteq Hook!Checkpoints /\ (d.pc # "idle" => d.retired \subseteq gone /\ r \in gone)
      BY <1>3, <2>1 DEF HookCalls
    <2> HIDE DEF gone
    <2>4. /\ c \in HookCalls /\ c.pc = d.pc /\ c.read = d.read /\ c.issued = d.issued
          /\ c.retired = gone
          /\ c.stamp = d.stamp /\ c.agent = d.agent
      BY <2>1, <2>3 DEF HookCalls
    <2> HIDE DEF c
    <2>5. (\A q \in d.read : q \in Hook!Checkpoints) /\ \A i \in d.issued : i.row \in Hook!Checkpoints
      BY <2>1 DEF HookCalls, Hook!Item
    <2>6. CASE d.pc = "idle"
      BY <1>2, <2>1, <2>2, <2>4, <2>6 DEF HookCallFits
    <2>7. CASE d.pc # "idle"
      BY <1>2, <1>3, <2>1, <2>2, <2>3, <2>4, <2>5, <2>7 DEF HookCallFits
    <2> QED BY <2>2, <2>4, <2>6, <2>7
  <1>5. HookTypes'
    <2>1. hook' \in [Callers -> HookCalls]
      BY <1>1, <1>4
    <2> QED BY <1>2, <1>3, <2>1 DEF HookInv, HookTypes
  <1> QED BY <1>2, <1>4, <1>5 DEF HookInv

\* As minutes pass, what has left the window stays out of it.
LEMMA HookTickKeeps == ASSUME Hook!LimitsOK, HookInv, Hook!Tick PROVE HookInv'
  <1>1. minute < MaxMinute /\ minute' = minute + 1
        /\ UNCHANGED <<status, refuse, hook, ledger, stored, admitted>>
    BY DEF Hook!Tick
  <1>2. minute \in Nat /\ minute' \in HookTicks /\ RateWindow \in Nat
    BY <1>1 DEF HookInv, HookTypes, HookTicks, Hook!LimitsOK
  <1>3. HookTypes'
    BY <1>1, <1>2 DEF HookInv, HookTypes
  <1>4. ASSUME NEW t \in Callers PROVE HookCallFits(hook[t])'
    <2>1. hook[t].stamp \in Nat /\ HookCallFits(hook[t])
      BY DEF HookInv, HookTypes, HookCalls, HookTicks, Hook!LimitsOK
    <2> QED BY <1>1, <1>2, <2>1 DEF HookCallFits
  <1>5. ASSUME NEW a \in Agents PROVE HookLedgerFits(ledger'[a], admitted'[a], minute')
    <2> DEFINE A == admitted[a]
               L == ledger[a]
    <2>1. HookLedgerFits(L, A, minute)
      BY DEF HookInv
    <2>2. \A i \in 1..Len(A) : A[i].at \in Nat /\ A[i].stamp \in Nat
      <3>1. A \in Seq(HookEntries)
        BY DEF HookInv, HookTypes
      <3>2. \A i \in 1..Len(A) : A[i] \in HookEntries
        BY <3>1, LenProperties
      <3> QED BY <3>2 DEF HookEntries, HookTicks
    <2>3. Len(A) \in Nat /\ Len(L) \in Nat
      BY LenProperties DEF HookInv, HookTypes
    <2> HIDE DEF A, L
    <2>4. HookInOrder(A, minute + 1)
      BY <1>2, <2>1, <2>2 DEF HookLedgerFits, HookInOrder
    <2>5. HookSuffix(L, A, minute) => HookSuffix(L, A, minute + 1)
      <3>1. SUFFICES ASSUME HookSuffix(L, A, minute) PROVE HookSuffix(L, A, minute + 1)
        OBVIOUS
      <3>2. ASSUME NEW j \in 1..(Len(A) - Len(L)) PROVE A[j].stamp + RateWindow <= minute + 1
        <4>1. j \in 1..Len(A) /\ A[j].stamp + RateWindow <= minute
          BY <2>3, <3>1 DEF HookSuffix
        <4> QED BY <1>2, <2>2, <4>1
      <3> QED BY <3>1, <3>2 DEF HookSuffix
    <2>6. HookLedgerFits(L, A, minute + 1)
      BY <2>1, <2>4, <2>5 DEF HookLedgerFits
    <2> QED BY <1>1, <2>6 DEF A, L
  <1> QED BY <1>3, <1>4, <1>5 DEF HookInv

\* With no query admitted and no call under way the invariant holds.
LEMMA HookInitHolds == ASSUME Hook!LimitsOK, Hook!Init PROVE HookInv
  <1>1. <<>> \in Seq(HookTicks) /\ <<>> \in Seq(HookEntries) /\ 0 \in HookTicks
    BY DEF HookTicks, Hook!LimitsOK
  <1>2. HookTypes
    BY <1>1, HookIdleFits DEF Hook!Init, HookTypes
  <1>3. \A t \in Callers : HookCallFits(hook[t])
    BY HookIdleFits DEF Hook!Init
  <1>4. HookLedgerFits(<<>>, <<>>, 0)
    BY DEF HookLedgerFits, HookInOrder, HookSuffix, HookWithinLimit, Hook!LimitsOK
  <1> QED BY <1>2, <1>3, <1>4 DEF Hook!Init, HookInv

\* A step other than an admission refuses nobody.
LEMMA HookStepKeeps ==
  ASSUME Hook!LimitsOK, HookInv, [Hook!Next]_Hook!hookVars
  PROVE  HookInv' /\ [Hook!RefusalStep]_Hook!hookVars
  <1>1. ASSUME NEW t \in Callers,
               Hook!OnSessionStart(t) \/ Hook!ScanItem(t) \/ Hook!ReadClock(t) \/ Hook!Return(t) \/ Hook!PreFlight(t)
        PROVE  HookInv' /\ Hook!RefusalStep
    <2>1. HookInv'
      BY <1>1, HookOnSessionStartKeeps, HookScanItemKeeps, HookReadClockKeeps, HookReturnKeeps,
         HookPreFlightKeeps
    <2>2. ASSUME NEW u \in Callers, hook[u].pc = "admit" PROVE hook'[u].pc # "limited"
      <3>1. \/ hook[t].pc # "admit" /\ \E c : hook' = [hook EXCEPT ![t] = c]
        BY <1>1 DEF Hook!OnSessionStart, Hook!ScanItem, Hook!ReadClock, Hook!Return, Hook!PreFlight
      <3>2. u # t /\ hook'[u] = hook[u]
        BY <2>2, <3>1 DEF HookInv, HookTypes
      <3> QED BY <2>2, <3>2
    <2> QED BY <2>1, <2>2 DEF Hook!RefusalStep
  <1>2. ASSUME NEW t \in Callers, Hook!Admit(t) PROVE HookInv' /\ Hook!RefusalStep
    <2>1. HookInv'
      BY <1>2, HookAdmitKeeps
    <2>2. \A u \in Callers \ {t} : hook'[u] = hook[u]
      BY <1>2 DEF Hook!Admit, HookInv, HookTypes
    <2>3. ASSUME NEW u \in Callers, hook[u].pc = "admit", hook'[u].pc = "limited" PROVE u = t
      BY <2>2, <2>3
    <2>4. hook'[t].pc = "limited" =>
            LET a == hook[t].agent
            IN Hook!Cardinality({j \in DOMAIN admitted[a] :
                              admitted[a][j].at + RateWindow > hook[t].stamp}) >= RateLimit
      BY <1>2, HookAdmitKeeps
    <2> QED BY <2>1, <2>3, <2>4 DEF Hook!RefusalStep
  <1>3. ASSUME Hook!Save \/ Hook!PostToolCall \/ Hook!Tick PROVE HookInv' /\ Hook!RefusalStep
    <2>1. HookInv'
      BY <1>3, HookSaveKeeps, HookPostToolCallKeeps, HookTickKeeps
    <2>2. hook' = hook
      BY <1>3 DEF Hook!Save, Hook!PostToolCall, Hook!Tick
    <2> QED BY <2>1, <2>2 DEF Hook!RefusalStep
  <1>4. ASSUME Hook!Retire PROVE HookInv' /\ Hook!RefusalStep
    <2>1. ASSUME NEW t \in Callers PROVE hook'[t].pc = hook[t].pc
      <3>1. hook[t] \in HookCalls
        BY DEF HookInv, HookTypes
      <3>2. \E g : hook'[t] = [hook[t] EXCEPT !.retired = g]
        BY <1>4 DEF Hook!Retire
      <3> QED BY <3>1, <3>2 DEF HookCalls
    <2> QED BY <1>4, <2>1, HookRetireKeeps DEF Hook!RefusalStep
  <1>5. ASSUME UNCHANGED Hook!hookVars PROVE HookInv'
    <2>1. UNCHANGED <<status, refuse, hook, ledger, stored, minute, admitted>>
      BY <1>5 DEF Hook!hookVars
    <2>2. HookTypes' /\ (\A t \in Callers : HookCallFits(hook[t])')
          /\ \A a \in Agents : HookLedgerFits(ledger'[a], admitted'[a], minute')
      BY <2>1 DEF HookInv, HookTypes, HookCallFits
    <2> QED BY <2>2 DEF HookInv
  <1> QED BY <1>1, <1>2, <1>3, <1>4, <1>5 DEF Hook!Next, Hook!SessionNext, Hook!QueryNext

\* The invariant gives what the hooks promise.
LEMMA HookPromised == ASSUME Hook!LimitsOK, HookInv PROVE Hook!HooksSafe
  <1>1. \A a \in Agents : DOMAIN admitted[a] = 1..Len(admitted[a])
    BY LenProperties DEF HookInv, HookTypes
  <1>2. Hook!PromptWithinLimit
    <2> SUFFICES ASSUME RateLimit > 0, NEW a \in Agents, NEW i \in DOMAIN admitted[a]
                 PROVE  Hook!Cardinality({j \in DOMAIN admitted[a] :
                          /\ admitted[a][j].at = admitted[a][j].stamp
                          /\ admitted[a][j].at <= admitted[a][i].at
                          /\ admitted[a][j].at + RateWindow > admitted[a][i].at}) <= RateLimit
      BY DEF Hook!PromptWithinLimit
    <2>1. Hook!Cardinality(HookPrompts(admitted[a], admitted[a][i].at)) <= RateLimit
      BY <1>1 DEF HookInv, HookLedgerFits, HookWithinLimit
    <2> QED BY <1>1, <2>1 DEF HookPrompts
  <1>3. Hook!IssuedIsServable
    BY DEF HookInv, HookCallFits, Hook!IssuedIsServable
  <1>4. Hook!TypeOK
    <2>1. ASSUME NEW a \in Agents PROVE Len(ledger[a]) <= RateLimit
      <3>1. HookLedgerFits(ledger[a], admitted[a], minute) /\ RateLimit \in Nat
        BY DEF HookInv, Hook!LimitsOK
      <3>2. CASE RateLimit > 0
        BY <3>1, <3>2 DEF HookLedgerFits, HookSuffix
      <3>3. CASE ~(RateLimit > 0)
        <4>1. ledger[a] = <<>> /\ RateLimit = 0
          BY <3>1, <3>3 DEF HookLedgerFits
        <4>2. Len(<<>>) = 0
          OBVIOUS
        <4> QED BY <4>1, <4>2
      <3> QED BY <3>2, <3>3
    <2> QED BY <2>1 DEF HookInv, HookTypes, Hook!TypeOK, HookCalls, HookTicks, HookEntries
  <1> QED BY <1>2, <1>3, <1>4, HookRecallCompletes DEF HookInv, Hook!HooksSafe

\* For any rows, agents, limits and callers: a hook issues no secret in clear and only
\* rows that were live when it read them, stores no output past the cap, admits at most
\* RateLimit prompt queries a window, and refuses one only when the window is full.
THEOREM HookSafety ==
  Hook!LimitsOK => (Hook!Spec => []Hook!HooksSafe /\ [][Hook!RefusalStep]_Hook!hookVars)
  <1> SUFFICES ASSUME Hook!LimitsOK
               PROVE  Hook!Spec => []Hook!HooksSafe /\ [][Hook!RefusalStep]_Hook!hookVars
    OBVIOUS
  <1>1. Hook!Init => HookInv
    BY HookInitHolds
  <1>2. HookInv /\ [Hook!Next]_Hook!hookVars => HookInv' /\ [Hook!RefusalStep]_Hook!hookVars
    BY HookStepKeeps
  <1>3. HookInv => Hook!HooksSafe
    BY HookPromised
  <1> QED BY <1>1, <1>2, <1>3, PTL DEF Hook!Spec

-----------------------------------------------------------------------------
(* The metrics sidecar: any processes, threads, keys and faults.           *)

SidecarWorks == [pc : {"idle", "connect", "shape", "rebuild", "insert", "blocks", "commit", "tail"},
          kind : {"none", "assemble", "old", "hint"}, call : 0..MaxCalls, want : Sidecar!Blocks,
          bad : BOOLEAN]

\* The key file and who is creating it: one process at most, and the file is
\* empty until that one has written it.
SidecarKeyTypes ==
  /\ file \in [state : {"absent", "empty", "good"}, key : 0..MaxKeys]
  /\ start \in [Hosts -> {"down", "check", "create", "reread", "write", "finish", "ready"}]
  /\ key \in [Hosts -> 0..MaxKeys] /\ minted \in 0..MaxKeys
SidecarCreating == {p \in Hosts : start[p] \in {"write", "finish"}}
SidecarFileFits ==
  /\ file.state = "good" <=> file.key # 0
  /\ \A p, q \in SidecarCreating : p = q
  /\ \A p \in Hosts : start[p] = "write" => file.state = "empty"
  /\ \A p \in Hosts : start[p] = "finish" => file.state = "good"

\* Until a written file is taken away every key is the file's.
SidecarKeysAgree == ~lostKey => \A p \in Hosts : key[p] # 0 => key[p] = file.key

SidecarKeyInv == SidecarKeyTypes /\ SidecarFileFits /\ SidecarKeysAgree /\ Sidecar!KeylessIsExplained

\* What a thread has in its transaction is the row of its call, whole when it
\* is about to commit.
SidecarOpenFits(w, o) ==
  /\ w.pc # "idle" => w.call \in 1..MaxCalls /\ w.kind # "none"
  /\ \A r \in o :
       /\ w.pc \in {"blocks", "commit"} /\ r.call = w.call /\ r.want = w.want
       /\ w.pc = "blocks" => r.blocks < r.want
       /\ w.pc = "commit" => r.blocks = r.want
  /\ \A r, s \in o : r = s

SidecarDataTypes ==
  /\ shape \in {"five", "six"} /\ lock \in Recorders \cup {Nobody}
  /\ boot \in [Hosts -> Recorders \cup {Nobody}] /\ conn \in [Recorders -> BOOLEAN]
  /\ work \in [Recorders -> SidecarWorks] /\ open \in [Recorders -> SUBSET Sidecar!Row]
  /\ rows \subseteq Sidecar!Row /\ events \subseteq Sidecar!Event /\ closed \in [Hosts -> BOOLEAN]
  /\ made \in 0..MaxCalls
SidecarLockHeld == \A t \in Recorders : work[t].pc \in {"blocks", "commit"} => lock = t
SidecarDataInv ==
  /\ SidecarDataTypes /\ SidecarLockHeld /\ (\A t \in Recorders : SidecarOpenFits(work[t], open[t]))
  /\ Sidecar!RowIsAnswered /\ Sidecar!HintFits

SidecarIInv == SidecarKeyInv /\ SidecarDataInv

-----------------------------------------------------------------------------

\* A process that starts has no key yet.
LEMMA SidecarStartKeeps ==
  ASSUME Sidecar!LimitsOK, SidecarKeyInv, NEW p \in Hosts, Sidecar!Start(p)
  PROVE  SidecarKeyInv'
  <1>1. start[p] = "down" /\ start' = [start EXCEPT ![p] = "check"] /\ key' = [key EXCEPT ![p] = 0]
        /\ UNCHANGED <<file, lostKey, hindered, minted>>
    BY DEF Sidecar!Start
  <1>2. SidecarKeyTypes'
    BY <1>1 DEF Sidecar!LimitsOK, SidecarKeyInv, SidecarKeyTypes
  <1>3. SidecarFileFits'
    BY <1>1 DEF SidecarKeyInv, SidecarKeyTypes, SidecarFileFits, SidecarCreating
  <1>4. SidecarKeysAgree' /\ Sidecar!KeylessIsExplained'
    BY <1>1 DEF SidecarKeyInv, SidecarKeyTypes, SidecarKeysAgree, Sidecar!KeylessIsExplained,
                Sidecar!Alive
  <1> QED BY <1>2, <1>3, <1>4 DEF SidecarKeyInv

\* A start that finds a written key takes it; otherwise it goes on to create one.
LEMMA SidecarCheckKeyKeeps ==
  ASSUME SidecarKeyInv, NEW p \in Hosts, Sidecar!CheckKey(p)
  PROVE  SidecarKeyInv'
  <1>1. start[p] = "check" /\ UNCHANGED <<file, lostKey, hindered, minted>>
    BY DEF Sidecar!CheckKey
  <1>2. CASE /\ file.state = "good" /\ key' = [key EXCEPT ![p] = file.key]
             /\ start' = [start EXCEPT ![p] = "ready"]
    <2>1. SidecarKeyTypes'
      BY <1>1, <1>2 DEF SidecarKeyInv, SidecarKeyTypes
    <2>2. SidecarFileFits'
      BY <1>1, <1>2 DEF SidecarKeyInv, SidecarKeyTypes, SidecarFileFits, SidecarCreating
    <2>3. SidecarKeysAgree' /\ Sidecar!KeylessIsExplained'
      BY <1>1, <1>2 DEF SidecarKeyInv, SidecarKeyTypes, SidecarKeysAgree,
                        Sidecar!KeylessIsExplained, Sidecar!Alive, SidecarFileFits
    <2> QED BY <2>1, <2>2, <2>3 DEF SidecarKeyInv
  <1>3. CASE UNCHANGED key /\ start' = [start EXCEPT ![p] = "create"]
    <2>1. SidecarKeyTypes'
      BY <1>1, <1>3 DEF SidecarKeyInv, SidecarKeyTypes
    <2>2. SidecarFileFits'
      BY <1>1, <1>3 DEF SidecarKeyInv, SidecarKeyTypes, SidecarFileFits, SidecarCreating
    <2>3. SidecarKeysAgree' /\ Sidecar!KeylessIsExplained'
      BY <1>1, <1>3 DEF SidecarKeyInv, SidecarKeyTypes, SidecarKeysAgree,
                        Sidecar!KeylessIsExplained, Sidecar!Alive
    <2> QED BY <2>1, <2>2, <2>3 DEF SidecarKeyInv
  <1> QED BY <1>2, <1>3 DEF Sidecar!CheckKey

\* The exclusive creation lets one process through: whoever writes found no file.
LEMMA SidecarCreateKeyKeeps ==
  ASSUME Sidecar!LimitsOK, SidecarKeyInv, NEW p \in Hosts, Sidecar!CreateKey(p)
  PROVE  SidecarKeyInv'
  <1>1. start[p] = "create" /\ UNCHANGED <<key, lostKey, hindered, minted>>
    BY DEF Sidecar!CreateKey
  <1>2. CASE start' = [start EXCEPT ![p] = "reread"] /\ UNCHANGED file
    <2>1. SidecarKeyTypes'
      BY <1>1, <1>2 DEF SidecarKeyInv, SidecarKeyTypes
    <2>2. SidecarFileFits'
      BY <1>1, <1>2 DEF SidecarKeyInv, SidecarKeyTypes, SidecarFileFits, SidecarCreating
    <2>3. SidecarKeysAgree' /\ Sidecar!KeylessIsExplained'
      BY <1>1, <1>2 DEF SidecarKeyInv, SidecarKeyTypes, SidecarKeysAgree,
                        Sidecar!KeylessIsExplained, Sidecar!Alive
    <2> QED BY <2>1, <2>2, <2>3 DEF SidecarKeyInv
  <1>3. CASE /\ file.state = "absent" /\ start' = [start EXCEPT ![p] = "write"]
             /\ file' = [state |-> "empty", key |-> 0]
    <2>1. SidecarKeyTypes'
      BY <1>1, <1>3 DEF Sidecar!LimitsOK, SidecarKeyInv, SidecarKeyTypes
    <2>2. SidecarCreating = {}
      BY <1>3 DEF SidecarKeyInv, SidecarKeyTypes, SidecarFileFits, SidecarCreating
    <2>3. SidecarCreating' = {p}
      BY <1>3, <2>2 DEF SidecarKeyInv, SidecarKeyTypes, SidecarCreating
    <2>4. \A q \in Hosts : start'[q] = "write" \/ start'[q] = "finish" => q = p
      BY <2>3 DEF SidecarCreating
    <2>5. start'[p] = "write" /\ file'.state = "empty" /\ file'.key = 0
      BY <1>3 DEF SidecarKeyInv, SidecarKeyTypes
    <2>6. SidecarFileFits'
      BY <2>3, <2>4, <2>5 DEF SidecarFileFits
    <2>7. file.key = 0
      BY <1>3 DEF SidecarKeyInv, SidecarFileFits
    <2>8. SidecarKeysAgree' /\ Sidecar!KeylessIsExplained'
      BY <1>1, <1>3, <2>7 DEF SidecarKeyInv, SidecarKeyTypes, SidecarKeysAgree,
                              Sidecar!KeylessIsExplained, Sidecar!Alive
    <2> QED BY <2>1, <2>6, <2>8 DEF SidecarKeyInv
  <1> QED BY <1>2, <1>3 DEF Sidecar!CreateKey, Sidecar!Exclusive

\* Who lost the creation takes what the file holds, or runs without a key.
LEMMA SidecarRereadKeyKeeps ==
  ASSUME SidecarKeyInv, NEW p \in Hosts, Sidecar!RereadKey(p)
  PROVE  SidecarKeyInv'
  <1>1. /\ start[p] = "reread" /\ key' = [key EXCEPT ![p] = file.key]
        /\ start' = [start EXCEPT ![p] = "ready"] /\ UNCHANGED <<file, lostKey, minted>>
        /\ hindered' = IF file.state # "good" THEN hindered \cup {p} ELSE hindered
    BY DEF Sidecar!RereadKey, Sidecar!Adopted
  <1>2. SidecarKeyTypes'
    BY <1>1 DEF SidecarKeyInv, SidecarKeyTypes
  <1>3. SidecarFileFits'
    BY <1>1 DEF SidecarKeyInv, SidecarKeyTypes, SidecarFileFits, SidecarCreating
  <1>4. SidecarKeysAgree'
    BY <1>1 DEF SidecarKeyInv, SidecarKeyTypes, SidecarKeysAgree
  <1>5. Sidecar!KeylessIsExplained'
    <2>1. SUFFICES ASSUME NEW q \in Hosts, Sidecar!Alive(q)', key'[q] = 0 PROVE q \in hindered'
      BY DEF Sidecar!KeylessIsExplained
    <2>2. CASE q = p
      BY <1>1, <2>1, <2>2 DEF SidecarKeyInv, SidecarKeyTypes, SidecarFileFits
    <2>3. CASE q # p
      BY <1>1, <2>1, <2>3 DEF SidecarKeyInv, SidecarKeyTypes, Sidecar!KeylessIsExplained,
                              Sidecar!Alive
    <2> QED BY <2>2, <2>3
  <1> QED BY <1>2, <1>3, <1>4, <1>5 DEF SidecarKeyInv

\* The creator, and no other, turns the empty file into a written one.
LEMMA SidecarWriteKeyKeeps ==
  ASSUME Sidecar!LimitsOK, SidecarKeyInv, NEW p \in Hosts, Sidecar!WriteKey(p)
  PROVE  SidecarKeyInv'
  <1>1. /\ start[p] = "write" /\ minted < MaxKeys /\ minted' = minted + 1
        /\ file' = [state |-> "good", key |-> minted + 1]
        /\ start' = [start EXCEPT ![p] = "finish"] /\ UNCHANGED <<key, lostKey, hindered>>
    BY DEF Sidecar!WriteKey
  <1>2. minted + 1 \in 0..MaxKeys /\ minted + 1 # 0
    BY <1>1 DEF Sidecar!LimitsOK, SidecarKeyInv, SidecarKeyTypes
  <1>3. SidecarKeyTypes'
    BY <1>1, <1>2 DEF SidecarKeyInv, SidecarKeyTypes
  <1>4. \A q \in Hosts : start[q] \in {"write", "finish"} => q = p
    BY <1>1 DEF SidecarKeyInv, SidecarFileFits, SidecarCreating
  <1>5. \A q \in Hosts : start'[q] \in {"write", "finish"} => q = p
    BY <1>1, <1>4 DEF SidecarKeyInv, SidecarKeyTypes
  <1>6. start'[p] = "finish" /\ file'.state = "good" /\ file'.key # 0
    BY <1>1, <1>2 DEF SidecarKeyInv, SidecarKeyTypes
  <1>7. SidecarFileFits'
    BY <1>5, <1>6 DEF SidecarFileFits, SidecarCreating
  <1>8. file.key = 0
    BY <1>1 DEF SidecarKeyInv, SidecarFileFits
  <1>9. SidecarKeysAgree' /\ Sidecar!KeylessIsExplained'
    BY <1>1, <1>8 DEF SidecarKeyInv, SidecarKeyTypes, SidecarKeysAgree, Sidecar!KeylessIsExplained,
                      Sidecar!Alive
  <1> QED BY <1>3, <1>7, <1>9 DEF SidecarKeyInv

\* The creator takes the key it wrote.
LEMMA SidecarFinishKeyKeeps ==
  ASSUME SidecarKeyInv, NEW p \in Hosts, Sidecar!FinishKey(p)
  PROVE  SidecarKeyInv'
  <1>1. /\ start[p] = "finish" /\ key' = [key EXCEPT ![p] = file.key]
        /\ start' = [start EXCEPT ![p] = "ready"] /\ UNCHANGED <<file, lostKey, hindered, minted>>
    BY DEF Sidecar!FinishKey
  <1>2. SidecarKeyTypes'
    BY <1>1 DEF SidecarKeyInv, SidecarKeyTypes
  <1>3. SidecarFileFits'
    BY <1>1 DEF SidecarKeyInv, SidecarKeyTypes, SidecarFileFits, SidecarCreating
  <1>4. SidecarKeysAgree' /\ Sidecar!KeylessIsExplained'
    BY <1>1 DEF SidecarKeyInv, SidecarKeyTypes, SidecarKeysAgree, Sidecar!KeylessIsExplained,
                Sidecar!Alive, SidecarFileFits
  <1> QED BY <1>2, <1>3, <1>4 DEF SidecarKeyInv

\* An error while creating unlinks the residue; a written key that goes is remembered.
LEMMA SidecarKeyFaultKeeps ==
  ASSUME Sidecar!LimitsOK, SidecarKeyInv, NEW p \in Hosts, Sidecar!KeyFault(p)
  PROVE  SidecarKeyInv'
  <1>1. /\ start[p] \in {"create", "write", "finish"}
        /\ file' = IF start[p] = "create" THEN file ELSE Sidecar!Absent
        /\ lostKey' = (lostKey \/ start[p] = "finish")
        /\ start' = [start EXCEPT ![p] = "ready"] /\ hindered' = hindered \cup {p}
        /\ UNCHANGED <<key, minted>>
    BY DEF Sidecar!KeyFault
  <1>2. SidecarKeyTypes'
    BY <1>1 DEF Sidecar!LimitsOK, SidecarKeyInv, SidecarKeyTypes, Sidecar!Absent
  <1>3. Sidecar!KeylessIsExplained'
    BY <1>1 DEF SidecarKeyInv, SidecarKeyTypes, Sidecar!KeylessIsExplained, Sidecar!Alive
  <1>4. CASE start[p] = "create"
    <2>1. SidecarFileFits'
      BY <1>1, <1>4 DEF SidecarKeyInv, SidecarKeyTypes, SidecarFileFits, SidecarCreating
    <2>2. SidecarKeysAgree'
      BY <1>1, <1>4 DEF SidecarKeyInv, SidecarKeyTypes, SidecarKeysAgree
    <2> QED BY <1>2, <1>3, <2>1, <2>2 DEF SidecarKeyInv
  <1>5. CASE start[p] # "create"
    <2>1. \A q \in Hosts : start[q] \in {"write", "finish"} => q = p
      BY <1>1, <1>5 DEF SidecarKeyInv, SidecarFileFits, SidecarCreating
    <2>2. \A q \in Hosts : start'[q] \notin {"write", "finish"}
      BY <1>1, <2>1 DEF SidecarKeyInv, SidecarKeyTypes
    <2>3. file'.state = "absent" /\ file'.key = 0
      BY <1>1, <1>5 DEF Sidecar!Absent
    <2>4. SidecarFileFits'
      BY <2>2, <2>3 DEF SidecarFileFits, SidecarCreating
    <2>5. ~lostKey' => start[p] = "write" /\ ~lostKey
      BY <1>1, <1>5
    <2>6. SidecarKeysAgree'
      BY <1>1, <2>3, <2>5 DEF SidecarKeyInv, SidecarKeyTypes, SidecarKeysAgree, SidecarFileFits
    <2> QED BY <1>2, <1>3, <2>4, <2>6 DEF SidecarKeyInv
  <1> QED BY <1>4, <1>5

\* Only an empty file is taken away by hand, and nobody is about to write it.
LEMMA SidecarRemoveKeyKeeps ==
  ASSUME Sidecar!LimitsOK, SidecarKeyInv, Sidecar!RemoveKey
  PROVE  SidecarKeyInv'
  <1>1. /\ file.state = "empty" /\ (\A p \in Hosts : start[p] # "write") /\ file' = Sidecar!Absent
        /\ UNCHANGED <<start, key, lostKey, hindered, minted>>
    BY DEF Sidecar!RemoveKey
  <1>2. SidecarKeyTypes'
    BY <1>1 DEF Sidecar!LimitsOK, SidecarKeyInv, SidecarKeyTypes, Sidecar!Absent
  <1>3. file.key = 0 /\ file'.key = 0 /\ file'.state = "absent"
    BY <1>1 DEF SidecarKeyInv, SidecarFileFits, Sidecar!Absent
  <1>4. SidecarFileFits'
    BY <1>1, <1>3 DEF SidecarKeyInv, SidecarFileFits, SidecarCreating
  <1>5. SidecarKeysAgree' /\ Sidecar!KeylessIsExplained'
    BY <1>1, <1>3 DEF SidecarKeyInv, SidecarKeysAgree, Sidecar!KeylessIsExplained, Sidecar!Alive
  <1> QED BY <1>2, <1>4, <1>5 DEF SidecarKeyInv

\* Without a step on the key file what is said of it stays.
LEMMA SidecarKeyStutters == ASSUME SidecarKeyInv, UNCHANGED Sidecar!keyVars PROVE SidecarKeyInv'
  <1>1. UNCHANGED <<file, start, key, lostKey, hindered, minted>>
    BY DEF Sidecar!keyVars
  <1>2. SidecarKeyTypes' /\ SidecarFileFits'
    BY <1>1 DEF SidecarKeyInv, SidecarKeyTypes, SidecarFileFits, SidecarCreating
  <1>3. SidecarKeysAgree' /\ Sidecar!KeylessIsExplained'
    BY <1>1 DEF SidecarKeyInv, SidecarKeysAgree, Sidecar!KeylessIsExplained, Sidecar!Alive
  <1> QED BY <1>2, <1>3 DEF SidecarKeyInv

\* A step of the key alone leaves the sidecar's database as it is.
LEMMA SidecarDataStutters == ASSUME SidecarDataInv, UNCHANGED Sidecar!dataVars PROVE SidecarDataInv'
  <1>1. UNCHANGED <<shape, lock, boot, conn, work, open, rows, events, closed, recorded, cut, made>>
    BY DEF Sidecar!dataVars
  <1>2. SidecarDataTypes' /\ SidecarLockHeld'
    BY <1>1 DEF SidecarDataInv, SidecarDataTypes, SidecarLockHeld
  <1>3. Sidecar!RowIsAnswered' /\ Sidecar!HintFits' /\ \A t \in Recorders : SidecarOpenFits(work[t], open[t])'
    BY <1>1 DEF SidecarDataInv, Sidecar!RowIsAnswered, Sidecar!HintFits, SidecarOpenFits
  <1> QED BY <1>2, <1>3 DEF SidecarDataInv

-----------------------------------------------------------------------------

\* A step of one thread that commits nothing keeps what is said of the data when
\* its own work and transaction fit.
LEMMA SidecarOneThread ==
  ASSUME SidecarDataInv, NEW t \in Recorders, SidecarDataTypes', UNCHANGED rows,
         recorded \subseteq recorded', cut \subseteq cut', shape = "six" => shape' = "six",
         \A u \in Recorders \ {t} : work'[u] = work[u] /\ open'[u] = open[u] /\ conn'[u] = conn[u],
         SidecarOpenFits(work'[t], open'[t]), conn'[t] => shape' = "six",
         work'[t].pc \in {"blocks", "commit"} => lock' = t, lock' = lock \/ lock \in {Nobody, t},
         Nobody \notin Recorders
  PROVE  SidecarDataInv'
  <1>1. Sidecar!RowIsAnswered'
    BY DEF SidecarDataInv, Sidecar!RowIsAnswered
  <1>2. Sidecar!HintFits'
    BY DEF SidecarDataInv, Sidecar!HintFits
  <1>3. SidecarLockHeld'
    <2>1. SUFFICES ASSUME NEW u \in Recorders, work'[u].pc \in {"blocks", "commit"} PROVE lock' = u
      BY DEF SidecarLockHeld
    <2>2. CASE u = t
      BY <2>1, <2>2
    <2>3. CASE u # t
      BY <2>1, <2>3 DEF SidecarDataInv, SidecarLockHeld
    <2> QED BY <2>2, <2>3
  <1>4. ASSUME NEW u \in Recorders PROVE SidecarOpenFits(work[u], open[u])'
    <2>1. CASE u = t
      BY <2>1 DEF SidecarOpenFits
    <2>2. CASE u # t
      BY <2>2 DEF SidecarDataInv, SidecarOpenFits
    <2> QED BY <2>1, <2>2
  <1> QED BY <1>1, <1>2, <1>3, <1>4 DEF SidecarDataInv

\* A call takes the next number; what it will write is fixed by its kind.
LEMMA SidecarCallKeeps ==
  ASSUME Sidecar!LimitsOK, SidecarDataInv, NEW t \in Recorders,
         NEW kind \in {"assemble", "old", "hint"},
         NEW want \in Sidecar!Blocks, NEW bad \in BOOLEAN, Sidecar!Call(t, kind, want, bad)
  PROVE  SidecarDataInv' /\ Sidecar!EventsStep
  <1> DEFINE w == [pc |-> IF closed[HostOf[t]] THEN Sidecar!After(kind)
                          ELSE IF conn[t] THEN "insert" ELSE "connect",
                   kind |-> kind, call |-> made + 1, want |-> want, bad |-> bad]
  <1>1. /\ work[t].pc = "idle" /\ made < MaxCalls /\ work' = [work EXCEPT ![t] = w]
        /\ made' = made + 1
        /\ UNCHANGED <<shape, lock, boot, conn, open, rows, events, closed, recorded, cut>>
    BY DEF Sidecar!Call
  <1>2. w.pc \in {"tail", "idle", "insert", "connect"} /\ w.call = made + 1 /\ w.kind = kind
    BY DEF Sidecar!After
  <1>3. made + 1 \in 1..MaxCalls /\ made + 1 \in 0..MaxCalls
    BY <1>1 DEF SidecarDataInv, SidecarDataTypes, Sidecar!LimitsOK
  <1>4. w \in SidecarWorks
    BY <1>2, <1>3 DEF SidecarWorks
  <1> HIDE DEF w
  <1>5. SidecarDataTypes'
    BY <1>1, <1>3, <1>4 DEF SidecarDataInv, SidecarDataTypes
  <1>6. open[t] = {}
    BY <1>1 DEF SidecarDataInv, SidecarOpenFits
  <1>7. work'[t] = w /\ open'[t] = {}
    BY <1>1, <1>6 DEF SidecarDataInv, SidecarDataTypes
  <1>8. SidecarOpenFits(work'[t], open'[t])
    BY <1>2, <1>3, <1>7 DEF SidecarOpenFits
  <1>9. \A u \in Recorders \ {t} : work'[u] = work[u] /\ open'[u] = open[u] /\ conn'[u] = conn[u]
    BY <1>1 DEF SidecarDataInv, SidecarDataTypes
  <1>10. conn'[t] => shape' = "six"
    BY <1>1 DEF SidecarDataInv, Sidecar!HintFits
  <1>11. SidecarDataInv'
    BY <1>1, <1>2, <1>5, <1>7, <1>8, <1>9, <1>10, SidecarOneThread DEF Sidecar!LimitsOK
  <1> QED BY <1>1, <1>11 DEF Sidecar!EventsStep

\* The tail of a call ends it, answered or not.
LEMMA SidecarComposeTailKeeps ==
  ASSUME Sidecar!LimitsOK, SidecarDataInv, NEW t \in Recorders, Sidecar!ComposeTail(t)
  PROVE  SidecarDataInv' /\ Sidecar!EventsStep
  <1>1. /\ work[t].pc = "tail" /\ work' = [work EXCEPT ![t] = Sidecar!Idle]
        /\ UNCHANGED <<shape, lock, boot, conn, open, rows, events, closed, recorded, cut, made>>
    BY DEF Sidecar!ComposeTail
  <1>2. Sidecar!Idle \in SidecarWorks /\ Sidecar!Idle.pc = "idle"
    BY DEF Sidecar!Idle, SidecarWorks, Sidecar!Blocks, Sidecar!LimitsOK
  <1>3. SidecarDataTypes'
    BY <1>1, <1>2 DEF SidecarDataInv, SidecarDataTypes
  <1>4. work'[t] = Sidecar!Idle /\ open'[t] = {}
    BY <1>1 DEF SidecarDataInv, SidecarDataTypes, SidecarOpenFits
  <1>5. SidecarOpenFits(work'[t], open'[t])
    BY <1>2, <1>4 DEF SidecarOpenFits
  <1>6. \A u \in Recorders \ {t} : work'[u] = work[u] /\ open'[u] = open[u] /\ conn'[u] = conn[u]
    BY <1>1 DEF SidecarDataInv, SidecarDataTypes
  <1>7. conn'[t] => shape' = "six"
    BY <1>1 DEF SidecarDataInv, Sidecar!HintFits
  <1>8. SidecarDataInv'
    BY <1>1, <1>2, <1>3, <1>4, <1>5, <1>6, <1>7, SidecarOneThread DEF Sidecar!LimitsOK
  <1> QED BY <1>1, <1>8 DEF Sidecar!EventsStep

\* The first connection of a process is the one that upgrades the table.
LEMMA SidecarConnectKeeps ==
  ASSUME Sidecar!LimitsOK, SidecarDataInv, NEW t \in Recorders, Sidecar!Connect(t)
  PROVE  SidecarDataInv' /\ Sidecar!EventsStep
  <1>1. /\ work[t].pc = "connect" /\ boot' = [boot EXCEPT ![HostOf[t]] = t]
        /\ work' = [work EXCEPT ![t].pc = "shape"]
        /\ UNCHANGED <<shape, lock, conn, open, rows, events, closed, recorded, cut, made>>
    BY DEF Sidecar!Connect
  <1>2. SidecarDataTypes'
    <2>1. work' \in [Recorders -> SidecarWorks]
      BY <1>1 DEF SidecarDataInv, SidecarDataTypes, SidecarWorks
    <2>2. boot' \in [Hosts -> Recorders \cup {Nobody}]
      BY <1>1 DEF SidecarDataInv, SidecarDataTypes
    <2> QED BY <1>1, <2>1, <2>2 DEF SidecarDataInv, SidecarDataTypes
  <1>3. open'[t] = {} /\ work'[t].pc = "shape" /\ work'[t].call = work[t].call
        /\ work'[t].kind = work[t].kind
    BY <1>1 DEF SidecarDataInv, SidecarDataTypes, SidecarWorks, SidecarOpenFits
  <1>4. SidecarOpenFits(work'[t], open'[t])
    BY <1>1, <1>3 DEF SidecarDataInv, SidecarOpenFits
  <1>5. \A u \in Recorders \ {t} : work'[u] = work[u] /\ open'[u] = open[u] /\ conn'[u] = conn[u]
    BY <1>1 DEF SidecarDataInv, SidecarDataTypes
  <1>6. conn'[t] => shape' = "six"
    BY <1>1 DEF SidecarDataInv, Sidecar!HintFits
  <1>7. SidecarDataInv'
    BY <1>1, <1>2, <1>3, <1>4, <1>5, <1>6, SidecarOneThread DEF Sidecar!LimitsOK
  <1> QED BY <1>1, <1>7 DEF Sidecar!EventsStep

\* A connection, found or made to fit, lets its thread insert.
LEMMA SidecarConnectedKeeps ==
  ASSUME Sidecar!LimitsOK, SidecarDataInv,
         NEW t \in Recorders, work[t].pc \in {"shape", "rebuild"}, Sidecar!Connected(t),
         shape' = "six", events' = events,
         UNCHANGED <<lock, open, rows, closed, recorded, cut, made>>
  PROVE  SidecarDataInv'
  <1>1. /\ conn' = [conn EXCEPT ![t] = TRUE] /\ boot' = [boot EXCEPT ![HostOf[t]] = Nobody]
        /\ work' = [work EXCEPT ![t].pc = "insert"]
    BY DEF Sidecar!Connected
  <1>2. SidecarDataTypes'
    <2>1. work' \in [Recorders -> SidecarWorks]
      BY <1>1 DEF SidecarDataInv, SidecarDataTypes, SidecarWorks
    <2>2. boot' \in [Hosts -> Recorders \cup {Nobody}] /\ conn' \in [Recorders -> BOOLEAN]
      BY <1>1 DEF SidecarDataInv, SidecarDataTypes
    <2> QED BY <1>1, <2>1, <2>2 DEF SidecarDataInv, SidecarDataTypes
  <1>3. open'[t] = {} /\ work'[t].pc = "insert" /\ work'[t].call = work[t].call
        /\ work'[t].kind = work[t].kind
    BY <1>1 DEF SidecarDataInv, SidecarDataTypes, SidecarWorks, SidecarOpenFits
  <1>4. SidecarOpenFits(work'[t], open'[t])
    BY <1>1, <1>3 DEF SidecarDataInv, SidecarOpenFits
  <1>5. \A u \in Recorders \ {t} : work'[u] = work[u] /\ open'[u] = open[u] /\ conn'[u] = conn[u]
    BY <1>1 DEF SidecarDataInv, SidecarDataTypes
  <1> QED BY <1>2, <1>3, <1>4, <1>5, SidecarOneThread DEF Sidecar!LimitsOK

\* Reading the table's shape decides whether to rebuild, and changes nothing.
LEMMA SidecarReadShapeKeeps ==
  ASSUME Sidecar!LimitsOK, SidecarDataInv, NEW t \in Recorders, Sidecar!ReadShape(t)
  PROVE  SidecarDataInv' /\ Sidecar!EventsStep
  <1>1. /\ work[t].pc = "shape"
        /\ UNCHANGED <<shape, lock, open, rows, events, closed, recorded, cut, made>>
    BY DEF Sidecar!ReadShape
  <1>2. CASE work' = [work EXCEPT ![t].pc = "rebuild"] /\ UNCHANGED <<conn, boot>>
    <2>1. SidecarDataTypes'
      BY <1>1, <1>2 DEF SidecarDataInv, SidecarDataTypes, SidecarWorks
    <2>2. open'[t] = {} /\ work'[t].pc = "rebuild" /\ work'[t].call = work[t].call
          /\ work'[t].kind = work[t].kind
      BY <1>1, <1>2 DEF SidecarDataInv, SidecarDataTypes, SidecarWorks, SidecarOpenFits
    <2>3. SidecarOpenFits(work'[t], open'[t])
      BY <1>1, <2>2 DEF SidecarDataInv, SidecarOpenFits
    <2>4. \A u \in Recorders \ {t} : work'[u] = work[u] /\ open'[u] = open[u] /\ conn'[u] = conn[u]
      BY <1>1, <1>2 DEF SidecarDataInv, SidecarDataTypes
    <2>5. conn'[t] => shape' = "six"
      BY <1>1, <1>2 DEF SidecarDataInv, Sidecar!HintFits
    <2>6. SidecarDataInv'
      BY <1>1, <2>1, <2>2, <2>3, <2>4, <2>5, SidecarOneThread DEF Sidecar!LimitsOK
    <2> QED BY <1>1, <2>6 DEF Sidecar!EventsStep
  <1>3. CASE ~Sidecar!NeedsRebuild /\ Sidecar!Connected(t)
    <2>1. shape' = "six"
      BY <1>1, <1>3 DEF Sidecar!NeedsRebuild, SidecarDataInv, SidecarDataTypes
    <2>2. SidecarDataInv'
      BY <1>1, <1>3, <2>1, SidecarConnectedKeeps
    <2> QED BY <1>1, <2>2 DEF Sidecar!EventsStep
  <1> QED BY <1>2, <1>3 DEF Sidecar!ReadShape

\* The rebuild widens the table within one transaction and keeps every event.
LEMMA SidecarRebuildKeeps ==
  ASSUME Sidecar!LimitsOK, SidecarDataInv, NEW t \in Recorders, Sidecar!Rebuild(t)
  PROVE  SidecarDataInv' /\ Sidecar!EventsStep
  <1>1. /\ work[t].pc = "rebuild" /\ shape' = "six" /\ events' = events /\ Sidecar!Connected(t)
        /\ UNCHANGED <<lock, open, rows, closed, recorded, cut, made>>
    BY DEF Sidecar!Rebuild, Sidecar!Copied
  <1>2. SidecarDataInv'
    BY <1>1, SidecarConnectedKeeps
  <1> QED BY <1>1, <1>2 DEF Sidecar!EventsStep

\* The insert takes the write lock and puts the row of its call into the transaction.
LEMMA SidecarInsertKeeps ==
  ASSUME Sidecar!LimitsOK, SidecarKeyTypes, SidecarDataInv, NEW t \in Recorders, Sidecar!Insert(t)
  PROVE  SidecarDataInv' /\ Sidecar!EventsStep
  <1> DEFINE row == [call |-> work[t].call, blocks |-> 0, want |-> work[t].want,
                     key |-> key[HostOf[t]]]
             pc == IF work[t].kind = "assemble" /\ work[t].want > 0 THEN "blocks" ELSE "commit"
  <1>1. /\ work[t].pc = "insert" /\ lock \in {Nobody, t} /\ lock' = t
        /\ work' = [work EXCEPT ![t].pc = pc]
        /\ UNCHANGED <<shape, boot, conn, rows, events, closed, recorded, cut, made>>
    BY DEF Sidecar!Insert, Sidecar!Free
  <1>2. open[t] = {} /\ work[t].call \in 1..MaxCalls
    BY <1>1 DEF SidecarDataInv, SidecarOpenFits
  <1>3. open' = open \/ (work[t].kind = "assemble" /\ open' = [open EXCEPT ![t] = @ \cup {row}])
    BY DEF Sidecar!Insert
  <1>4. work[t] \in SidecarWorks
    BY DEF SidecarDataInv, SidecarDataTypes
  <1>5. key[HostOf[t]] \in 0..MaxKeys
    BY DEF Sidecar!LimitsOK, SidecarKeyTypes
  <1>6. row \in Sidecar!Row /\ row.call = work[t].call /\ row.want = work[t].want /\ row.blocks = 0
    BY <1>2, <1>4, <1>5 DEF Sidecar!Row, SidecarWorks, Sidecar!Blocks
  <1>7. pc \in {"blocks", "commit"} /\ (work[t].kind = "assemble" =>
          IF work[t].want > 0 THEN pc = "blocks" ELSE pc = "commit")
    OBVIOUS
  <1> HIDE DEF row, pc
  <1>8. work' \in [Recorders -> SidecarWorks] /\ work'[t].pc = pc /\ work'[t].call = work[t].call
        /\ work'[t].kind = work[t].kind /\ work'[t].want = work[t].want
    BY <1>1, <1>7 DEF SidecarDataInv, SidecarDataTypes, SidecarWorks
  <1>9. open' \in [Recorders -> SUBSET Sidecar!Row]
    BY <1>3, <1>6 DEF SidecarDataInv, SidecarDataTypes
  <1>10. open'[t] = {} \/ (work[t].kind = "assemble" /\ open'[t] = {row})
    BY <1>2, <1>3 DEF SidecarDataInv, SidecarDataTypes
  <1>11. SidecarDataTypes'
    BY <1>1, <1>8, <1>9 DEF SidecarDataInv, SidecarDataTypes
  <1>12. SidecarOpenFits(work'[t], open'[t])
    <2>1. work[t].want \in Nat
      BY <1>4 DEF SidecarWorks, Sidecar!Blocks
    <2>2. \A r \in open'[t] : r = row /\ work[t].kind = "assemble"
      BY <1>10
    <2>3. work'[t].pc # "idle" => work'[t].call \in 1..MaxCalls /\ work'[t].kind # "none"
      BY <1>1, <1>2, <1>8 DEF SidecarDataInv, SidecarOpenFits
    <2> QED BY <1>6, <1>7, <1>8, <2>1, <2>2, <2>3 DEF SidecarOpenFits
  <1>13. \A u \in Recorders \ {t} : work'[u] = work[u] /\ open'[u] = open[u] /\ conn'[u] = conn[u]
    BY <1>1, <1>3 DEF SidecarDataInv, SidecarDataTypes
  <1>14. conn'[t] => shape' = "six"
    BY <1>1 DEF SidecarDataInv, Sidecar!HintFits
  <1>15. SidecarDataInv'
    BY <1>1, <1>11, <1>12, <1>13, <1>14, SidecarOneThread DEF Sidecar!LimitsOK
  <1> QED BY <1>1, <1>15 DEF Sidecar!EventsStep

\* Each block brings the row of its call one nearer to whole.
LEMMA SidecarInsertBlockKeeps ==
  ASSUME Sidecar!LimitsOK, SidecarDataInv, NEW t \in Recorders, Sidecar!InsertBlock(t)
  PROVE  SidecarDataInv' /\ Sidecar!EventsStep
  <1>1. PICK r \in open[t] :
          /\ open' = [open EXCEPT ![t] = (@ \ {r}) \cup {[r EXCEPT !.blocks = @ + 1]}]
          /\ work' = [work EXCEPT ![t].pc = IF r.blocks + 1 = r.want THEN "commit" ELSE "blocks"]
    BY DEF Sidecar!InsertBlock
  <1>2. /\ work[t].pc = "blocks"
        /\ UNCHANGED <<shape, lock, boot, conn, rows, events, closed, recorded, cut, made>>
    BY DEF Sidecar!InsertBlock
  <1>3. /\ r \in Sidecar!Row /\ r.call = work[t].call /\ r.want = work[t].want /\ r.blocks < r.want
        /\ \A s \in open[t] : s = r
    BY <1>2 DEF SidecarDataInv, SidecarDataTypes, SidecarOpenFits
  <1> DEFINE s == [r EXCEPT !.blocks = @ + 1]
             pc == IF r.blocks + 1 = r.want THEN "commit" ELSE "blocks"
  <1>4. /\ s \in Sidecar!Row /\ s.call = r.call /\ s.want = r.want /\ s.blocks = r.blocks + 1
        /\ pc = "commit" => s.blocks = s.want
        /\ pc = "blocks" => s.blocks < s.want
        /\ pc \in {"commit", "blocks"}
    BY <1>3 DEF Sidecar!Row, Sidecar!Blocks
  <1>5. open' = [open EXCEPT ![t] = (@ \ {r}) \cup {s}] /\ work' = [work EXCEPT ![t].pc = pc]
    BY <1>1
  <1> HIDE DEF s, pc
  <1>6. open' \in [Recorders -> SUBSET Sidecar!Row] /\ open'[t] = {s}
    BY <1>3, <1>4, <1>5 DEF SidecarDataInv, SidecarDataTypes
  <1>7. work' \in [Recorders -> SidecarWorks] /\ work'[t].pc = pc /\ work'[t].call = work[t].call
        /\ work'[t].kind = work[t].kind /\ work'[t].want = work[t].want
    BY <1>4, <1>5 DEF SidecarDataInv, SidecarDataTypes, SidecarWorks
  <1>8. SidecarDataTypes'
    BY <1>2, <1>6, <1>7 DEF SidecarDataInv, SidecarDataTypes
  <1>9. SidecarOpenFits(work'[t], open'[t])
    <2>1. work'[t].pc # "idle" => work'[t].call \in 1..MaxCalls /\ work'[t].kind # "none"
      BY <1>2, <1>7 DEF SidecarDataInv, SidecarOpenFits
    <2> QED BY <1>3, <1>4, <1>6, <1>7, <2>1 DEF SidecarOpenFits
  <1>10. \A u \in Recorders \ {t} : work'[u] = work[u] /\ open'[u] = open[u] /\ conn'[u] = conn[u]
    BY <1>2, <1>5 DEF SidecarDataInv, SidecarDataTypes
  <1>11. (conn'[t] => shape' = "six") /\ lock' = t
    BY <1>1, <1>2 DEF SidecarDataInv, Sidecar!HintFits, SidecarLockHeld
  <1>12. SidecarDataInv'
    BY <1>2, <1>8, <1>9, <1>10, <1>11, SidecarOneThread DEF Sidecar!LimitsOK
  <1> QED BY <1>2, <1>12 DEF Sidecar!EventsStep

\* The commit makes a whole row visible and its call answered; no event goes.
LEMMA SidecarCommitKeeps ==
  ASSUME Sidecar!LimitsOK, SidecarDataInv, NEW t \in Recorders, Sidecar!Commit(t)
  PROVE  SidecarDataInv' /\ Sidecar!EventsStep
  <1>1. /\ work[t].pc = "commit" /\ rows' = rows \cup open[t]
        /\ events' = IF work[t].kind = "assemble" THEN events
                     ELSE events \cup {[call |-> work[t].call, kind |-> work[t].kind]}
        /\ open' = [open EXCEPT ![t] = {}] /\ lock' = Nobody
        /\ recorded' = recorded \cup {work[t].call}
        /\ work' = [work EXCEPT ![t].pc = Sidecar!After(work[t].kind)]
        /\ UNCHANGED <<shape, boot, conn, closed, cut, made>>
    BY DEF Sidecar!Commit
  <1>2. /\ work[t] \in SidecarWorks /\ work[t].call \in 1..MaxCalls /\ work[t].kind # "none"
        /\ \A r \in open[t] : r \in Sidecar!Row /\ r.call = work[t].call /\ r.blocks = r.want
    BY <1>1 DEF SidecarDataInv, SidecarDataTypes, SidecarOpenFits
  <1>3. Sidecar!After(work[t].kind) \in {"tail", "idle"}
    BY DEF Sidecar!After
  <1>4. work' \in [Recorders -> SidecarWorks] /\ work'[t].pc \in {"tail", "idle"}
        /\ work'[t].call = work[t].call /\ work'[t].kind = work[t].kind
    BY <1>1, <1>3 DEF SidecarDataInv, SidecarDataTypes, SidecarWorks
  <1>5. open' \in [Recorders -> SUBSET Sidecar!Row] /\ open'[t] = {}
    BY <1>1 DEF SidecarDataInv, SidecarDataTypes
  <1>6. rows' \subseteq Sidecar!Row /\ lock' \in Recorders \cup {Nobody}
    BY <1>1, <1>2 DEF SidecarDataInv, SidecarDataTypes
  <1>7. events' \subseteq Sidecar!Event /\ events \subseteq events'
    BY <1>1, <1>2 DEF SidecarDataInv, SidecarDataTypes, SidecarWorks, Sidecar!Event
  <1>8. SidecarDataTypes'
    BY <1>1, <1>4, <1>5, <1>6, <1>7 DEF SidecarDataInv, SidecarDataTypes
  <1>9. SidecarLockHeld'
    <2>1. SUFFICES ASSUME NEW u \in Recorders, work'[u].pc \in {"blocks", "commit"} PROVE lock' = u
      BY DEF SidecarLockHeld
    <2>2. u # t /\ work[u].pc \in {"blocks", "commit"}
      BY <1>1, <1>4, <2>1 DEF SidecarDataInv, SidecarDataTypes
    <2>3. lock = u /\ lock = t
      BY <1>1, <2>2 DEF SidecarDataInv, SidecarLockHeld
    <2> QED BY <2>2, <2>3
  <1>10. ASSUME NEW u \in Recorders PROVE SidecarOpenFits(work[u], open[u])'
    <2>1. CASE u = t
      BY <1>2, <1>4, <1>5, <2>1 DEF SidecarOpenFits
    <2>2. CASE u # t
      BY <1>1, <2>2 DEF SidecarDataInv, SidecarDataTypes, SidecarOpenFits
    <2> QED BY <2>1, <2>2
  <1>11. Sidecar!RowIsAnswered'
    BY <1>1, <1>2 DEF SidecarDataInv, Sidecar!RowIsAnswered
  <1>12. Sidecar!HintFits'
    BY <1>1 DEF SidecarDataInv, Sidecar!HintFits
  <1> QED BY <1>7, <1>8, <1>9, <1>10, <1>11, <1>12 DEF SidecarDataInv, Sidecar!EventsStep

\* A failed statement rolls the transaction back and goes on to answer the caller.
LEMMA SidecarFailsKeeps ==
  ASSUME Sidecar!LimitsOK, SidecarDataInv,
         NEW t \in Recorders, work[t].pc # "idle", Sidecar!Fails(t)
  PROVE  SidecarDataInv' /\ Sidecar!EventsStep
  <1>1. /\ work' = [work EXCEPT ![t].pc = Sidecar!After(work[t].kind)]
        /\ open' = [open EXCEPT ![t] = {}]
        /\ lock' = IF lock = t /\ open'[t] = {} THEN Nobody ELSE lock
        /\ boot' = [boot EXCEPT ![HostOf[t]] = IF @ = t THEN Nobody ELSE @]
        /\ UNCHANGED <<shape, conn, rows, events, closed, recorded, cut, made>>
    BY DEF Sidecar!Fails, Sidecar!RolledBack
  <1>2. Sidecar!After(work[t].kind) \in {"tail", "idle"}
    BY DEF Sidecar!After
  <1>3. work' \in [Recorders -> SidecarWorks] /\ work'[t].pc \in {"tail", "idle"}
        /\ work'[t].call = work[t].call /\ work'[t].kind = work[t].kind
    BY <1>1, <1>2 DEF SidecarDataInv, SidecarDataTypes, SidecarWorks
  <1>4. open' \in [Recorders -> SUBSET Sidecar!Row] /\ open'[t] = {}
    BY <1>1 DEF SidecarDataInv, SidecarDataTypes
  <1>5. boot' \in [Hosts -> Recorders \cup {Nobody}] /\ lock' \in Recorders \cup {Nobody}
    BY <1>1 DEF SidecarDataInv, SidecarDataTypes
  <1>6. SidecarDataTypes'
    BY <1>1, <1>3, <1>4, <1>5 DEF SidecarDataInv, SidecarDataTypes
  <1>7. SidecarOpenFits(work'[t], open'[t])
    BY <1>3, <1>4 DEF SidecarDataInv, SidecarOpenFits
  <1>8. \A u \in Recorders \ {t} : work'[u] = work[u] /\ open'[u] = open[u] /\ conn'[u] = conn[u]
    BY <1>1 DEF SidecarDataInv, SidecarDataTypes
  <1>9. (conn'[t] => shape' = "six") /\ (lock' = lock \/ lock \in {Nobody, t})
    BY <1>1 DEF SidecarDataInv, Sidecar!HintFits
  <1>10. SidecarDataInv'
    BY <1>1, <1>3, <1>4, <1>6, <1>7, <1>8, <1>9, SidecarOneThread DEF Sidecar!LimitsOK
  <1> QED BY <1>1, <1>10 DEF Sidecar!EventsStep

\* Closing drops the connection of the calling thread only.
LEMMA SidecarCloseKeeps ==
  ASSUME Sidecar!LimitsOK, SidecarDataInv, NEW t \in Recorders, Sidecar!Close(t)
  PROVE  SidecarDataInv' /\ Sidecar!EventsStep
  <1>1. /\ work[t].pc = "idle"
        /\ closed' = [closed EXCEPT ![HostOf[t]] = TRUE] /\ conn' = [conn EXCEPT ![t] = FALSE]
        /\ open' = [open EXCEPT ![t] = {}] /\ lock' = (IF lock = t THEN Nobody ELSE lock)
        /\ UNCHANGED <<shape, boot, work, rows, events, recorded, cut, made>>
    BY DEF Sidecar!Close, Sidecar!RolledBack
  <1>2. open' \in [Recorders -> SUBSET Sidecar!Row] /\ open'[t] = {} /\ ~conn'[t]
    BY <1>1 DEF SidecarDataInv, SidecarDataTypes
  <1>3. SidecarDataTypes'
    BY <1>1, <1>2 DEF SidecarDataInv, SidecarDataTypes
  <1>4. SidecarOpenFits(work'[t], open'[t])
    BY <1>1, <1>2 DEF SidecarDataInv, SidecarOpenFits
  <1>5. \A u \in Recorders \ {t} : work'[u] = work[u] /\ open'[u] = open[u] /\ conn'[u] = conn[u]
    BY <1>1 DEF SidecarDataInv, SidecarDataTypes
  <1>6. SidecarDataInv'
    BY <1>1, <1>2, <1>3, <1>4, <1>5, SidecarOneThread DEF Sidecar!LimitsOK
  <1> QED BY <1>1, <1>6 DEF Sidecar!EventsStep

\* Every statement of a thread keeps the invariant, and no event goes.
LEMMA SidecarRecordKeeps ==
  ASSUME Sidecar!LimitsOK, SidecarKeyTypes, SidecarDataInv, NEW t \in Recorders, Sidecar!Record(t)
  PROVE  SidecarDataInv' /\ Sidecar!EventsStep
  <1>1. CASE Sidecar!PreLlmCall(t)
    <2>1. PICK want \in Sidecar!Blocks, bad \in BOOLEAN : Sidecar!Call(t, "assemble", want, bad)
      BY <1>1 DEF Sidecar!PreLlmCall
    <2> QED BY <2>1, SidecarCallKeeps
  <1>3. CASE Sidecar!Heartbeat(t)
    <2>1. 0 \in Sidecar!Blocks /\ FALSE \in BOOLEAN
      BY DEF Sidecar!Blocks
    <2>2. PICK kind \in {"old", "hint"} : Sidecar!Call(t, kind, 0, FALSE)
      BY <1>3 DEF Sidecar!Heartbeat
    <2> QED BY <2>1, <2>2, SidecarCallKeeps
  <1>2. CASE Sidecar!Abandon(t)
    <2>1. work[t].pc # "idle" /\ Sidecar!Fails(t)
      BY <1>2 DEF Sidecar!Abandon
    <2> QED BY <2>1, SidecarFailsKeeps
  <1> QED BY <1>1, <1>2, <1>3, SidecarComposeTailKeeps, SidecarConnectKeeps, SidecarReadShapeKeeps,
             SidecarRebuildKeeps, SidecarInsertKeeps,
             SidecarInsertBlockKeeps, SidecarCommitKeeps, SidecarCloseKeeps DEF Sidecar!Record

\* A crash frees what the process held: its lock, its transaction, its start.
LEMMA SidecarCrashKeeps ==
  ASSUME Sidecar!LimitsOK, SidecarIInv, NEW p \in Hosts, Sidecar!Crash(p)
  PROVE  SidecarIInv' /\ Sidecar!EventsStep
  <1> DEFINE mine == {t \in Recorders : HostOf[t] = p}
  <1>1. /\ start' = [start EXCEPT ![p] = "down"] /\ key' = [key EXCEPT ![p] = 0]
        /\ hindered' = hindered \ {p} /\ UNCHANGED <<file, lostKey, minted>>
    BY DEF Sidecar!Crash
  <1>2. /\ open' = [t \in Recorders |-> IF t \in mine THEN {} ELSE open[t]]
        /\ conn' = [t \in Recorders |-> IF t \in mine THEN FALSE ELSE conn[t]]
        /\ work' = [t \in Recorders |-> IF t \in mine THEN Sidecar!Idle ELSE work[t]]
        /\ lock' = IF lock \in mine THEN Nobody ELSE lock
        /\ cut \subseteq cut' /\ boot' = [boot EXCEPT ![p] = Nobody]
        /\ closed' = [closed EXCEPT ![p] = FALSE]
        /\ UNCHANGED <<shape, rows, events, recorded, made>>
    BY DEF Sidecar!Crash
  <1> HIDE DEF mine
  <1>3. SidecarKeyInv'
    <2>1. SidecarKeyTypes'
      BY <1>1 DEF Sidecar!LimitsOK, SidecarIInv, SidecarKeyInv, SidecarKeyTypes
    <2>2. SidecarFileFits'
      BY <1>1 DEF SidecarIInv, SidecarKeyInv, SidecarKeyTypes, SidecarFileFits, SidecarCreating
    <2>3. SidecarKeysAgree' /\ Sidecar!KeylessIsExplained'
      BY <1>1 DEF SidecarIInv, SidecarKeyInv, SidecarKeyTypes, SidecarKeysAgree,
                  Sidecar!KeylessIsExplained, Sidecar!Alive
    <2> QED BY <2>1, <2>2, <2>3 DEF SidecarKeyInv
  <1>4. Sidecar!Idle \in SidecarWorks /\ Sidecar!Idle.pc = "idle"
    BY DEF Sidecar!Idle, SidecarWorks, Sidecar!Blocks, Sidecar!LimitsOK
  <1>5. SidecarDataTypes'
    <2>1. open' \in [Recorders -> SUBSET Sidecar!Row] /\ conn' \in [Recorders -> BOOLEAN]
          /\ work' \in [Recorders -> SidecarWorks]
      BY <1>2, <1>4 DEF SidecarIInv, SidecarDataInv, SidecarDataTypes
    <2> QED BY <1>2, <2>1 DEF SidecarIInv, SidecarDataInv, SidecarDataTypes
  <1>6. SidecarLockHeld'
    <2>1. SUFFICES ASSUME NEW t \in Recorders, work'[t].pc \in {"blocks", "commit"} PROVE lock' = t
      BY DEF SidecarLockHeld
    <2>2. t \notin mine /\ work'[t] = work[t]
      BY <1>2, <1>4, <2>1
    <2>3. lock = t
      BY <2>1, <2>2 DEF SidecarIInv, SidecarDataInv, SidecarLockHeld
    <2> QED BY <1>2, <2>2, <2>3
  <1>7. ASSUME NEW t \in Recorders PROVE SidecarOpenFits(work[t], open[t])'
    <2>1. CASE t \in mine
      BY <1>2, <1>4, <2>1 DEF SidecarOpenFits
    <2>2. CASE t \notin mine
      BY <1>2, <2>2 DEF SidecarIInv, SidecarDataInv, SidecarOpenFits
    <2> QED BY <2>1, <2>2
  <1>8. Sidecar!RowIsAnswered' /\ Sidecar!HintFits'
    BY <1>2 DEF SidecarIInv, SidecarDataInv, Sidecar!RowIsAnswered, Sidecar!HintFits
  <1> QED BY <1>2, <1>3, <1>5, <1>6, <1>7, <1>8 DEF SidecarIInv, SidecarDataInv, Sidecar!EventsStep

\* With no call made, and every process down or up, the invariant holds.
LEMMA SidecarInitHolds == ASSUME Sidecar!LimitsOK, Sidecar!Init PROVE SidecarIInv
  <1>1. SidecarKeyInv
    <2>1. SidecarKeyTypes
      BY DEF Sidecar!LimitsOK, Sidecar!Init, Sidecar!Fresh, Sidecar!Running, Sidecar!Absent,
             SidecarKeyTypes
    <2>2. SidecarFileFits
      BY DEF Sidecar!Init, Sidecar!Fresh, Sidecar!Running, Sidecar!Absent, SidecarFileFits,
             SidecarCreating
    <2>3. SidecarKeysAgree /\ Sidecar!KeylessIsExplained
      BY DEF Sidecar!Init, Sidecar!Fresh, Sidecar!Running, Sidecar!Absent, SidecarKeysAgree,
             Sidecar!KeylessIsExplained, Sidecar!Alive
    <2> QED BY <2>1, <2>2, <2>3 DEF SidecarKeyInv
  <1>2. Sidecar!Idle \in SidecarWorks /\ Sidecar!Idle.pc = "idle"
    BY DEF Sidecar!Idle, SidecarWorks, Sidecar!Blocks, Sidecar!LimitsOK
  <1>3. SidecarDataTypes
    BY <1>2 DEF Sidecar!LimitsOK, Sidecar!Init, SidecarDataTypes
  <1>4. SidecarLockHeld /\ Sidecar!RowIsAnswered /\ Sidecar!HintFits
    BY <1>2 DEF Sidecar!Init, SidecarLockHeld, Sidecar!RowIsAnswered, Sidecar!HintFits
  <1>5. \A t \in Recorders : SidecarOpenFits(work[t], open[t])
    BY <1>2 DEF Sidecar!Init, SidecarOpenFits
  <1> QED BY <1>1, <1>3, <1>4, <1>5 DEF SidecarIInv, SidecarDataInv

\* Every step of the key, the writers and the faults keeps the invariant.
LEMMA SidecarStepKeeps ==
  ASSUME Sidecar!LimitsOK, SidecarIInv, [Sidecar!Next]_Sidecar!vitalsVars
  PROVE  SidecarIInv' /\ [Sidecar!EventsStep]_Sidecar!vitalsVars
  <1>1. ASSUME NEW p \in Hosts, Sidecar!LoadKey(p) \/ Sidecar!KeyFault(p), UNCHANGED Sidecar!dataVars
        PROVE  SidecarIInv' /\ Sidecar!EventsStep
    <2>1. SidecarKeyInv'
      BY <1>1, SidecarStartKeeps, SidecarCheckKeyKeeps, SidecarCreateKeyKeeps,
         SidecarRereadKeyKeeps, SidecarWriteKeyKeeps,
         SidecarFinishKeyKeeps, SidecarKeyFaultKeeps DEF Sidecar!LoadKey, SidecarIInv
    <2>2. SidecarDataInv' /\ events' = events
      BY <1>1, SidecarDataStutters DEF SidecarIInv, Sidecar!dataVars
    <2> QED BY <2>1, <2>2 DEF SidecarIInv, Sidecar!EventsStep
  <1>2. ASSUME Sidecar!RemoveKey, UNCHANGED Sidecar!dataVars
        PROVE  SidecarIInv' /\ Sidecar!EventsStep
    <2>1. SidecarKeyInv'
      BY <1>2, SidecarRemoveKeyKeeps DEF SidecarIInv
    <2>2. SidecarDataInv' /\ events' = events
      BY <1>2, SidecarDataStutters DEF SidecarIInv, Sidecar!dataVars
    <2> QED BY <2>1, <2>2 DEF SidecarIInv, Sidecar!EventsStep
  <1>3. ASSUME NEW t \in Recorders, Sidecar!Record(t), UNCHANGED Sidecar!keyVars
        PROVE  SidecarIInv' /\ Sidecar!EventsStep
    <2>1. SidecarKeyInv'
      BY <1>3, SidecarKeyStutters DEF SidecarIInv
    <2>2. SidecarDataInv' /\ Sidecar!EventsStep
      BY <1>3, SidecarRecordKeeps DEF SidecarIInv, SidecarKeyInv
    <2> QED BY <2>1, <2>2 DEF SidecarIInv
  <1>4. ASSUME UNCHANGED Sidecar!vitalsVars PROVE SidecarIInv'
    <2>1. UNCHANGED Sidecar!keyVars /\ UNCHANGED Sidecar!dataVars
      BY <1>4 DEF Sidecar!vitalsVars, Sidecar!keyVars, Sidecar!dataVars
    <2> QED BY <2>1, SidecarKeyStutters, SidecarDataStutters DEF SidecarIInv
  <1>5. Sidecar!Next => SidecarIInv' /\ Sidecar!EventsStep
    BY <1>1, <1>2, <1>3, SidecarCrashKeeps DEF Sidecar!Next, Sidecar!KeyNext, Sidecar!WriteNext,
                                               Sidecar!CrashNext
  <1> QED BY <1>4, <1>5

\* The invariant gives what the sidecar promises.
LEMMA SidecarPromised == ASSUME SidecarIInv PROVE Sidecar!VitalsSafe
  <1>1. Sidecar!TypeOK
    <2>1. \A t \in Recorders : open[t] \subseteq Sidecar!Row /\ (open[t] # {} => lock = t)
      BY DEF SidecarIInv, SidecarDataInv, SidecarDataTypes, SidecarLockHeld, SidecarOpenFits
    <2> QED BY <2>1 DEF SidecarIInv, SidecarKeyInv, SidecarKeyTypes, SidecarDataInv,
                        SidecarDataTypes, Sidecar!TypeOK, SidecarWorks
  <1>2. Sidecar!OneIdentity
    BY DEF SidecarIInv, SidecarKeyInv, SidecarKeysAgree, Sidecar!OneIdentity
  <1> QED BY <1>1, <1>2 DEF SidecarIInv, SidecarKeyInv, SidecarDataInv, Sidecar!VitalsSafe

\* For any processes, threads and faults: keys in memory are one until a written key
\* file is taken away, a process without one was hindered, a committed row is whole
\* and its call was told so or cut off by a crash, and the rebuild loses no event.
THEOREM VitalsSafety ==
  Sidecar!LimitsOK =>
    (Sidecar!Spec => []Sidecar!VitalsSafe /\ [][Sidecar!EventsStep]_Sidecar!vitalsVars)
  <1> SUFFICES ASSUME Sidecar!LimitsOK
               PROVE  Sidecar!Spec => []Sidecar!VitalsSafe /\ [][Sidecar!EventsStep]_Sidecar!vitalsVars
    OBVIOUS
  <1>1. Sidecar!Init => SidecarIInv
    BY SidecarInitHolds
  <1>2. SidecarIInv /\ [Sidecar!Next]_Sidecar!vitalsVars => SidecarIInv' /\ [Sidecar!EventsStep]_Sidecar!vitalsVars
    BY SidecarStepKeeps
  <1>3. SidecarIInv => Sidecar!VitalsSafe
    BY SidecarPromised
  <1> QED BY <1>1, <1>2, <1>3, PTL DEF Sidecar!Spec

-----------------------------------------------------------------------------
(* The composition: a behaviour of MCSpec is one of every component.       *)

\* A step of the composition is a step of each component, or leaves it alone.
LEMMA SuiteSteps ==
  ASSUME [MCNext]_suite
  PROVE  /\ [Next]_tvars /\ [Rest!Next]_(Rest!rvars) /\ [Store!Next]_(Store!svars)
         /\ [Feed!Next]_(Feed!fvars) /\ [Aware!Next]_(Aware!avars) /\ [Hook!Next]_(Hook!hookVars)
         /\ [Sidecar!Next]_(Sidecar!vitalsVars)
  <1>1. \/ UNCHANGED suite
        \/ MCNext
    OBVIOUS
  <1>2. (UNCHANGED tvars) \/ Next
    BY <1>1 DEF suite, MCNext
  <1>3. (UNCHANGED auth) \/ Rest!Next
    BY <1>1 DEF suite, MCNext
  <1>4. (UNCHANGED session) \/ Store!Next
    BY <1>1 DEF suite, MCNext
  <1>5. (UNCHANGED feedback) \/ Feed!Next
    BY <1>1 DEF suite, MCNext
  <1>6. (UNCHANGED aware) \/ Aware!Next
    BY <1>1 DEF suite, MCNext
  <1>7. (UNCHANGED hooks) \/ Hook!SessionNext \/ Hook!QueryNext
    BY <1>1 DEF suite, MCNext
  <1>8. (UNCHANGED vitals) \/ Sidecar!KeyNext \/ Sidecar!CrashNext \/ Sidecar!Next
    BY <1>1 DEF suite, MCNext
  <1>9. /\ UNCHANGED auth => UNCHANGED Rest!rvars
        /\ UNCHANGED session => UNCHANGED Store!svars
        /\ UNCHANGED feedback => UNCHANGED Feed!fvars
        /\ UNCHANGED aware => UNCHANGED Aware!avars
        /\ UNCHANGED hooks => UNCHANGED Hook!hookVars
        /\ UNCHANGED vitals => UNCHANGED Sidecar!vitalsVars
    BY DEF auth, session, feedback, aware, hooks, vitals, Rest!rvars, Store!svars, Feed!fvars,
           Aware!avars, Hook!hookVars, Sidecar!vitalsVars
  <1>10. (UNCHANGED hooks) \/ Hook!Next
    BY <1>7 DEF Hook!Next
  <1>11. (UNCHANGED vitals) \/ Sidecar!Next
    BY <1>8 DEF Sidecar!Next
  <1> QED BY <1>2, <1>3, <1>4, <1>5, <1>6, <1>9, <1>10, <1>11

\* A behaviour of the composition is one of each component.
LEMMA SuiteBehaviours ==
  MCSpec => /\ Spec /\ Rest!Spec /\ Store!Spec /\ Feed!Spec /\ Aware!Spec /\ Hook!Spec
            /\ Sidecar!Spec
  <1>1. MCInit => /\ Init /\ Rest!Init /\ Store!Init /\ Feed!Init /\ Aware!Init /\ Hook!Init
                  /\ Sidecar!Init
    BY DEF MCInit
  <1>2. [MCNext]_suite =>
          /\ [Next]_tvars /\ [Rest!Next]_(Rest!rvars) /\ [Store!Next]_(Store!svars)
          /\ [Feed!Next]_(Feed!fvars) /\ [Aware!Next]_(Aware!avars) /\ [Hook!Next]_(Hook!hookVars)
          /\ [Sidecar!Next]_(Sidecar!vitalsVars)
    BY SuiteSteps
  <1> QED BY <1>1, <1>2, PTL DEF MCSpec, Spec, Rest!Spec, Store!Spec, Feed!Spec, Aware!Spec,
                                  Hook!Spec, Sidecar!Spec

\* What the REST logins promise holds in the composition.
THEOREM ServerLogins == MCSpec => []LoginsSafe
  <1>1. Rest!Spec => []Rest!LoginsSafe
    BY LoginSafety, ServerAssumption
  <1>2. Rest!LoginsSafe => LoginsSafe
    BY DEF LoginsSafe
  <1> QED BY <1>1, <1>2, SuiteBehaviours, PTL

\* What the session store promises holds in the composition.
THEOREM ServerSessions == MCSpec => []SessionsSafe
  <1>1. Store!Spec => []Store!SessionsSafe
    BY SessionSafety, ServerAssumption
  <1>2. Store!SessionsSafe => SessionsSafe
    BY DEF SessionsSafe
  <1> QED BY <1>1, <1>2, SuiteBehaviours, PTL

\* What the search feedback promises holds in the composition.
THEOREM ServerFeedback == MCSpec => []FeedbackSafe
  <1>1. Feed!Spec => []Feed!FeedbackSafe
    BY FeedbackSafety, ServerAssumption
  <1>2. Feed!FeedbackSafe => FeedbackSafe
    BY DEF FeedbackSafe
  <1> QED BY <1>1, <1>2, SuiteBehaviours, PTL

\* What an awareness cursor and the hooks promise holds in the composition.
THEOREM ServerHooks == MCSpec => []HooksSafe
  <1>1. Aware!Spec => []Aware!FeedSafe
    BY AwarenessSafety, ServerAssumption
  <1>2. Hook!Spec => []Hook!HooksSafe
    BY HookSafety, ServerAssumption, PTL
  <1>3. Aware!FeedSafe /\ Hook!HooksSafe => HooksSafe
    BY DEF HooksSafe
  <1> QED BY <1>1, <1>2, <1>3, SuiteBehaviours, PTL

\* What the metrics sidecar promises holds in the composition.
THEOREM ServerVitals == MCSpec => []VitalsSafe
  <1>1. Sidecar!Spec => []Sidecar!VitalsSafe
    BY VitalsSafety, ServerAssumption, PTL
  <1>2. Sidecar!VitalsSafe => VitalsSafe
    BY DEF VitalsSafe
  <1> QED BY <1>1, <1>2, SuiteBehaviours, PTL

\* No step of the composition lifts a lock within its window, refuses a query the
\* limit has room for, or loses an event of the sidecar.
THEOREM ServerStepsHold == MCSpec => ServerSteps
  <1>1. Rest!Spec => [][Rest!LockoutStep]_(Rest!rvars)
    BY LockoutIsKept, ServerAssumption, PTL DEF Rest!LockoutHolds
  <1>2. Hook!Spec => [][Hook!RefusalStep]_(Hook!hookVars)
    BY HookSafety, ServerAssumption, PTL
  <1>3. Sidecar!Spec => [][Sidecar!EventsStep]_(Sidecar!vitalsVars)
    BY VitalsSafety, ServerAssumption, PTL
  <1>4. ASSUME [MCNext]_suite, [Rest!LockoutStep]_(Rest!rvars), [Hook!RefusalStep]_(Hook!hookVars),
               [Sidecar!EventsStep]_(Sidecar!vitalsVars)
        PROVE  [/\ which = "rest" => Rest!LockoutStep
                /\ which = "query" => Hook!RefusalStep
                /\ which \in {"key", "write"} => Sidecar!EventsStep]_suite
    <2>1. UNCHANGED Rest!rvars => Rest!LockoutStep
      BY DEF Rest!rvars, Rest!LockoutStep
    <2>2. UNCHANGED Hook!hookVars => Hook!RefusalStep
      BY DEF Hook!hookVars, Hook!RefusalStep
    <2>3. UNCHANGED Sidecar!vitalsVars => Sidecar!EventsStep
      BY DEF Sidecar!vitalsVars, Sidecar!EventsStep
    <2> QED BY <1>4, <2>1, <2>2, <2>3
  <1> QED BY <1>1, <1>2, <1>3, <1>4, SuiteBehaviours, PTL DEF MCSpec, ServerSteps
=============================================================================
