-------------------------- MODULE UpkeepProofs --------------------------
(***************************************************************************)
(* What runs without being asked: the watch scheduler of the code graph,   *)
(* the metadata poller, the background processor and the schema            *)
(* migrations, each for any values of its constants.  They share no state; *)
(* a component other than the scheduler is an instance with names of its   *)
(* own.                                                                    *)
(*                                                                         *)
(* OneLoop is not inductive: that no second loop is started has to be read *)
(* off the slot, so the invariant says that a loop which has not begun to  *)
(* leave is the one the slot names.  The bound on queued jobs needs the    *)
(* submissions that are still on their way counted in.                     *)
(*                                                                         *)
(* WatermarkCovers is not inductive: that the watermark may be moved to a  *)
(* page's revision depends on what the page holds (or found empty) when it *)
(* was built, and a row that comes later must get a rowid above every      *)
(* revision handed out.  The invariant says both.                          *)
(*                                                                         *)
(* What a prune takes from the raw events is accounted for, because within *)
(* an hour the rollup precedes it: the invariant ties the hour a thread    *)
(* rolled up to the step it is at.                                         *)
(*                                                                         *)
(* A migration drops nothing unless it was overtaken, because nobody       *)
(* writes to a table of the old shape; the index is behind the cache only  *)
(* while a rebuild is on its way to reindex, or died there.                *)
(***************************************************************************)
EXTENDS MCUpkeep, FiniteSetTheorems, SequenceTheorems, WellFoundedInduction, TLAPS

\* A thread that has not begun to leave is the one on record.
OwnerInSlot == \A l \in Loops : Owns(l) => slot = l

\* The hints that may still become a job.
Coming == {u \in Users : user[u] \in {"flag", "submit"}}

\* Every queued or coming job was paid for by a call.
Counted == IsFiniteSet(registrations) /\ jobs + Cardinality(Coming) <= ops

IInv == TypeOK /\ Counted /\ OwnerInSlot /\ NoLostWakeup /\ HintIsCovered

-----------------------------------------------------------------------------
\* The users are finitely many, so the coming jobs can be counted.
LEMMA ComingIsFinite == IsFiniteSet(Coming) /\ Cardinality(Coming) \in Nat
  <1>1. Coming \in SUBSET Users
    BY DEF Coming
  <1> QED BY <1>1, GraphWatchAssumption, FS_Subset, FS_CardinalityType

\* A user's step changes Coming by that user at most.
LEMMA ComingAfter ==
  ASSUME TypeOK, NEW u \in Users, NEW pc \in UserPCs, user' = [user EXCEPT ![u] = pc]
  PROVE  /\ pc \notin {"flag", "submit"} => Cardinality(Coming') <= Cardinality(Coming)
         /\ user[u] \in {"flag", "submit"} => Cardinality(Coming') <= Cardinality(Coming)
         /\ user[u] \in {"flag", "submit"} /\ pc \notin {"flag", "submit"}
              => Cardinality(Coming') = Cardinality(Coming) - 1
         /\ Cardinality(Coming') <= Cardinality(Coming) + 1
         /\ Cardinality(Coming') \in Nat
  <1> DEFINE C == Coming
  <1>1. user \in [Users -> UserPCs]
    BY DEF TypeOK
  <1>2. IsFiniteSet(C) /\ Cardinality(C) \in Nat
    BY ComingIsFinite
  <1>3. user'[u] = pc /\ \A v \in Users : v # u => user'[v] = user[v]
    BY <1>1
  <1>4. CASE pc \in {"flag", "submit"}
    <2>1. Coming' = C \cup {u}
      BY <1>3, <1>4 DEF Coming
    <2>2. user[u] \in {"flag", "submit"} => u \in C
      BY DEF Coming
    <2> HIDE DEF C
    <2>3. Cardinality(C \cup {u}) = IF u \in C THEN Cardinality(C) ELSE Cardinality(C) + 1
      BY <1>2, FS_AddElement
    <2> QED BY <1>2, <1>4, <2>1, <2>2, <2>3 DEF C
  <1>5. CASE pc \notin {"flag", "submit"}
    <2>1. Coming' = C \ {u}
      BY <1>3, <1>5 DEF Coming
    <2>2. user[u] \in {"flag", "submit"} => u \in C
      BY DEF Coming
    <2> HIDE DEF C
    <2>3. Cardinality(C \ {u}) = IF u \in C THEN Cardinality(C) - 1 ELSE Cardinality(C)
      BY <1>2, FS_RemoveElement
    <2>4. IsFiniteSet(C \ {u})
      BY <1>2, FS_RemoveElement
    <2>5. Cardinality(C \ {u}) \in Nat
      BY <2>4, FS_CardinalityType
    <2> QED BY <1>2, <1>5, <2>1, <2>2, <2>3, <2>5 DEF C
  <1> QED BY <1>4, <1>5

-----------------------------------------------------------------------------
\* Nothing runs and nothing is queued at first.
LEMMA InitEstablishes == Init => IInv
  <1> SUFFICES ASSUME Init PROVE IInv
    OBVIOUS
  <1> USE GraphWatchAssumption DEF Init
  <1>1. IsFiniteSet(registrations) /\ Cardinality(registrations) = 0
    BY FS_EmptySet
  <1>2. TypeOK
    <2>1. loop \in [Loops -> [pc : LoopPCs, jobs : 0..MaxOps, due : SUBSET Projects]]
      BY DEF Dead, LoopPCs
    <2>2. user \in [Users -> UserPCs]
      BY DEF UserPCs
    <2>3. Cardinality(registrations) <= RegCap
      BY <1>1
    <2>4. /\ wake \in BOOLEAN /\ stopFlag \in BOOLEAN /\ closed \in BOOLEAN
          /\ drainPending \in BOOLEAN /\ stopped \in BOOLEAN
      OBVIOUS
    <2>5. registrations \subseteq Projects /\ due \subseteq Projects
          /\ jobs \in 0..MaxOps /\ queue \in 0..QueueMax /\ ops \in 0..MaxOps
          /\ slot \in Loops \cup {None}
      OBVIOUS
    <2> QED BY <2>1, <2>2, <2>3, <2>4, <2>5 DEF TypeOK
  <1>3. Counted
    <2>1. Coming = {}
      BY DEF Coming
    <2> QED BY <1>1, <2>1, FS_EmptySet DEF Counted
  <1>4. OwnerInSlot
    BY DEF OwnerInSlot, Owns, Dead
  <1>5. NoLostWakeup /\ HintIsCovered
    BY DEF NoLostWakeup, HintIsCovered
  <1> QED BY <1>2, <1>3, <1>4, <1>5 DEF IInv

-----------------------------------------------------------------------------
\* A step that adds no job and lets no user forward keeps the count.
LEMMA CountKept ==
  ASSUME TypeOK, Counted, IsFiniteSet(registrations'),
         jobs' \in Nat, ops' \in Nat, jobs' <= jobs, ops' >= ops,
         user' = user
  PROVE  Counted'
  <1>1. Coming' = Coming
    BY DEF Coming
  <1> QED BY <1>1, ComingIsFinite DEF Counted, TypeOK

\* What starting the thread leaves well typed.
LEMMA EnsureTyped ==
  ASSUME TypeOK, ensure_thread_locked
  PROVE  /\ slot' \in Loops \cup {None} /\ stopFlag' \in BOOLEAN
         /\ loop' \in [Loops -> [pc : LoopPCs, jobs : 0..MaxOps, due : SUBSET Projects]]
  <1>1. CASE UNCHANGED <<slot, loop>>
    BY <1>1 DEF TypeOK, ensure_thread_locked
  <1>2. CASE ~UNCHANGED <<slot, loop>>
    <2>1. PICK l \in Loops : slot' = l /\ loop' = [loop EXCEPT ![l].pc = "top"] /\ stopFlag' = FALSE
      BY <1>2 DEF ensure_thread_locked
    <2>2. [loop[l] EXCEPT !.pc = "top"] \in [pc : LoopPCs, jobs : 0..MaxOps, due : SUBSET Projects]
      BY DEF TypeOK, LoopPCs
    <2> QED BY <2>1, <2>2 DEF TypeOK
  <1> QED BY <1>1, <1>2

\* The steps of the users keep types and count.
LEMMA UserTyped ==
  ASSUME IInv, NEW u \in Users,
         \/ UserStep(u) \/ Register(u) \/ Hint(u) \/ StopAll(u) \/ Close(u)
         \/ \E p \in Projects : StopOne(u, p)
  PROVE  TypeOK' /\ Counted'
  <1> USE GraphWatchAssumption
  <1>0. TypeOK /\ Counted /\ IsFiniteSet(registrations)
    BY DEF IInv, Counted
  <1>a. /\ user \in [Users -> UserPCs] /\ ops \in Nat /\ jobs \in Nat
        /\ Cardinality(Coming) \in Nat /\ jobs + Cardinality(Coming) <= ops
    BY <1>0, ComingIsFinite DEF TypeOK, Counted
  <1>1. CASE AnnounceDrain(u)
    <2>1. PICK pc \in UserPCs : user' = [user EXCEPT ![u] = pc] /\ user[u] = "flag"
      BY <1>1 DEF AnnounceDrain, Step, UserPCs
    <2>2. Cardinality(Coming') <= Cardinality(Coming) /\ Cardinality(Coming') \in Nat
      BY <1>0, <2>1, ComingAfter
    <2>3. TypeOK'
      BY <1>0, <1>1, <2>1 DEF TypeOK, AnnounceDrain, sched
    <2>4. Counted'
      BY <1>0, <1>1, <1>a, <2>2 DEF Counted, AnnounceDrain, sched
    <2> QED BY <2>3, <2>4
  <1>2. CASE Submit(u)
    <2>1. user' = [user EXCEPT ![u] = "wake"] /\ user[u] = "submit" /\ "wake" \in UserPCs
      BY <1>2 DEF Submit, Step, UserPCs
    <2>2. Cardinality(Coming') = Cardinality(Coming) - 1 /\ Cardinality(Coming') \in Nat
      BY <1>0, <2>1, ComingAfter
    <2>3. jobs' = jobs + 1 /\ jobs' + Cardinality(Coming') <= ops
      BY <1>2, <1>a, <2>2 DEF Submit
    <2>4. jobs' \in 0..MaxOps
      BY <1>0, <1>a, <2>2, <2>3 DEF TypeOK
    <2>5. TypeOK'
      BY <1>0, <1>2, <2>1, <2>4, EnsureTyped DEF TypeOK, Submit
    <2>6. Counted'
      BY <1>0, <1>2, <2>3 DEF Counted, Submit
    <2> QED BY <2>5, <2>6
  <1>3. CASE SetWake(u)
    <2>1. user' = [user EXCEPT ![u] = "idle"] /\ "idle" \in UserPCs
      BY <1>3 DEF SetWake, Step, UserPCs
    <2>2. Cardinality(Coming') <= Cardinality(Coming) /\ Cardinality(Coming') \in Nat
      BY <1>0, <2>1, ComingAfter
    <2>3. TypeOK'
      BY <1>0, <1>3, <2>1 DEF TypeOK, SetWake
    <2>4. Counted'
      BY <1>0, <1>3, <1>a, <2>2 DEF Counted, SetWake
    <2> QED BY <2>3, <2>4
  <1>4. ASSUME NEW p \in Projects, RegisterLocked(u, p) PROVE TypeOK' /\ Counted'
    <2>1. user' = [user EXCEPT ![u] = "idle"] /\ "idle" \in UserPCs
      BY <1>4 DEF RegisterLocked, Step, UserPCs
    <2>2. Cardinality(Coming') <= Cardinality(Coming) /\ Cardinality(Coming') \in Nat
      BY <1>0, <2>1, ComingAfter
    <2>3. IsFiniteSet(registrations') /\ Cardinality(registrations') <= RegCap
          /\ registrations' \subseteq Projects
      <3>1. CASE registrations' = registrations
        BY <1>0, <3>1 DEF TypeOK
      <3>2. CASE registrations' = registrations \cup {p} /\ p \notin registrations
                 /\ ~(Cardinality(registrations) >= RegCap)
        <4> DEFINE R == registrations
        <4>1. IsFiniteSet(R) /\ p \notin R /\ ~(Cardinality(R) >= RegCap)
          BY <1>0, <3>2
        <4> HIDE DEF R
        <4>2. IsFiniteSet(R \cup {p}) /\ Cardinality(R \cup {p}) = Cardinality(R) + 1
          BY <4>1, FS_AddElement
        <4>3. Cardinality(R) \in Nat
          BY <4>1, FS_CardinalityType
        <4>4. Cardinality(R \cup {p}) <= RegCap
          BY <4>1, <4>2, <4>3
        <4> QED BY <1>0, <3>2, <4>2, <4>4 DEF R, TypeOK
      <3> QED BY <1>4, <3>1, <3>2 DEF RegisterLocked
    <2>4. /\ slot' \in Loops \cup {None} /\ stopFlag' \in BOOLEAN /\ wake' \in BOOLEAN
          /\ loop' \in [Loops -> [pc : LoopPCs, jobs : 0..MaxOps, due : SUBSET Projects]]
      BY <1>0, <1>4, EnsureTyped DEF RegisterLocked, TypeOK
    <2>5. TypeOK'
      BY <1>0, <1>4, <2>1, <2>3, <2>4 DEF TypeOK, RegisterLocked
    <2>6. Counted'
      BY <1>0, <1>4, <1>a, <2>2, <2>3 DEF Counted, RegisterLocked
    <2> QED BY <2>5, <2>6
  <1>5. CASE Register(u)
    <2>1. user' = [user EXCEPT ![u] = "register"] /\ "register" \in UserPCs
          /\ ops' = ops + 1 /\ ops < MaxOps
      BY <1>5 DEF Register, Call, UserPCs
    <2>2. Cardinality(Coming') <= Cardinality(Coming) /\ Cardinality(Coming') \in Nat
      BY <1>0, <2>1, ComingAfter
    <2>3. TypeOK'
      BY <1>0, <1>5, <2>1 DEF TypeOK, Register, sched
    <2>4. Counted'
      BY <1>0, <1>5, <1>a, <2>1, <2>2 DEF Counted, Register, sched
    <2> QED BY <2>3, <2>4
  <1>6. CASE Hint(u)
    <2>1. user' = [user EXCEPT ![u] = "flag"] /\ "flag" \in UserPCs
          /\ ops' = ops + 1 /\ ops < MaxOps
      BY <1>6 DEF Hint, Call, UserPCs
    <2>2. Cardinality(Coming') <= Cardinality(Coming) + 1 /\ Cardinality(Coming') \in Nat
      BY <1>0, <2>1, ComingAfter
    <2>3. TypeOK'
      BY <1>0, <1>6, <2>1 DEF TypeOK, Hint, sched
    <2>4. Counted'
      BY <1>0, <1>6, <1>a, <2>1, <2>2 DEF Counted, Hint, sched
    <2> QED BY <2>3, <2>4
  <1>7. CASE Close(u)
    <2>1. user' = [user EXCEPT ![u] = "stopAll"] /\ "stopAll" \in UserPCs
          /\ ops' = ops + 1 /\ ops < MaxOps
      BY <1>7 DEF Close, Call, UserPCs
    <2>2. Cardinality(Coming') <= Cardinality(Coming) /\ Cardinality(Coming') \in Nat
      BY <1>0, <2>1, ComingAfter
    <2>3. TypeOK'
      BY <1>0, <1>7, <2>1 DEF TypeOK, Close
    <2>4. Counted'
      BY <1>0, <1>7, <1>a, <2>1, <2>2 DEF Counted, Close
    <2> QED BY <2>3, <2>4
  <1>8. CASE StopAll(u)
    <2>1. user' = [user EXCEPT ![u] = "idle"] /\ "idle" \in UserPCs
          /\ (ops' = ops \/ (ops' = ops + 1 /\ ops < MaxOps))
      BY <1>8 DEF StopAll, Call, Step, UserPCs
    <2>2. Cardinality(Coming') <= Cardinality(Coming) /\ Cardinality(Coming') \in Nat
      BY <1>0, <2>1, ComingAfter
    <2>3. registrations' = {} /\ jobs' = 0
      BY <1>8 DEF StopAll, StopLocked
    <2>4. IsFiniteSet(registrations') /\ Cardinality(registrations') = 0
      BY <2>3, FS_EmptySet
    <2>5. TypeOK'
      BY <1>0, <1>8, <2>1, <2>3, <2>4 DEF TypeOK, StopAll, StopLocked
    <2>6. Counted'
      BY <1>0, <1>8, <1>a, <2>1, <2>2, <2>3, <2>4 DEF Counted, StopAll
    <2> QED BY <2>5, <2>6
  <1>9. ASSUME NEW p \in Projects, StopOne(u, p) PROVE TypeOK' /\ Counted'
    <2>1. registrations' = registrations \ {p} /\ jobs' = jobs /\ user' = user
          /\ ops' = ops + 1 /\ ops < MaxOps
      BY <1>9 DEF StopOne, StopLocked
    <2>2. IsFiniteSet(registrations') /\ Cardinality(registrations') <= Cardinality(registrations)
          /\ Cardinality(registrations') \in Nat /\ Cardinality(registrations) \in Nat
      <3>1. registrations' \in SUBSET registrations
        BY <2>1
      <3> QED BY <1>0, <3>1, FS_Subset, FS_CardinalityType
    <2>3. TypeOK'
      BY <1>0, <1>9, <2>1, <2>2 DEF TypeOK, StopOne, StopLocked
    <2>4. Counted'
      BY <1>0, <1>a, <2>1, <2>2, CountKept
    <2> QED BY <2>3, <2>4
  <1> QED BY <1>1, <1>2, <1>3, <1>4, <1>5, <1>6, <1>7, <1>8, <1>9 DEF UserStep

\* The steps of the loop and of the clock keep types and count.
LEMMA LoopTyped ==
  ASSUME IInv, NEW l \in Loops, LoopStep(l)
  PROVE  TypeOK' /\ Counted'
  <1> USE GraphWatchAssumption
  <1> DEFINE LoopRec == [pc : LoopPCs, jobs : 0..MaxOps, due : SUBSET Projects]
  <1>0. TypeOK /\ Counted /\ IsFiniteSet(registrations)
    BY DEF IInv, Counted
  <1>a. loop \in [Loops -> LoopRec] /\ jobs \in 0..MaxOps /\ ops \in Nat /\ due \subseteq Projects
    BY <1>0 DEF TypeOK
  <1>b. \A pc \in LoopPCs : [loop EXCEPT ![l].pc = pc] \in [Loops -> LoopRec]
    BY <1>a
  <1>1. CASE Top(l)
    <2>4. (\E pc \in LoopPCs : loop' = [loop EXCEPT ![l].pc = pc])
      BY <1>1 DEF Top, Goto, LoopPCs
    <2>3. loop' \in [Loops -> LoopRec]
      BY <1>a, <1>b, <2>4
    <2>1. loop' \in [Loops -> LoopRec] /\ wake' \in BOOLEAN
      BY <1>0, <1>1, <2>3 DEF Top, TypeOK
    <2>2. TypeOK'
      BY <1>0, <1>1, <2>1 DEF Top, Outside, TypeOK
    <2> QED BY <1>0, <1>1, <1>a, <2>2, CountKept DEF Top, Outside
  <1>2. CASE Take(l)
    <2>1. loop' \in [Loops -> LoopRec]
      BY <1>2, <1>a DEF Take, LoopPCs
    <2>2. TypeOK'
      BY <1>0, <1>2, <2>1 DEF Take, TypeOK
    <2> QED BY <1>0, <1>2, <1>a, <2>2, CountKept DEF Take
  <1>3. CASE NextJob(l)
    <2>1. loop' \in [Loops -> LoopRec] /\ drainPending' \in BOOLEAN
      <3>1. CASE loop[l].jobs = 0 \/ stopFlag
        BY <1>0, <1>3, <1>b, <3>1 DEF NextJob, Goto, LoopPCs, TypeOK
      <3>2. CASE loop[l].jobs # 0 /\ ~stopFlag
        <4>1. loop' = [loop EXCEPT ![l].jobs = @ - 1, ![l].pc = "drain"] /\ drainPending' = FALSE
          BY <1>3, <3>2 DEF NextJob
        <4>2. loop[l] \in LoopRec /\ loop[l].jobs - 1 \in 0..MaxOps
          BY <1>a, <3>2
        <4>3. [loop[l] EXCEPT !.jobs = @ - 1, !.pc = "drain"] \in LoopRec
          BY <4>2 DEF LoopPCs
        <4> QED BY <1>a, <4>1, <4>3
      <3> QED BY <3>1, <3>2
    <2>2. TypeOK'
      BY <1>0, <1>3, <2>1 DEF NextJob, sched, TypeOK
    <2> QED BY <1>0, <1>3, <1>a, <2>2, CountKept DEF NextJob, sched
  <1>4. CASE Drain(l)
    <2>4. (\E pc \in LoopPCs : loop' = [loop EXCEPT ![l].pc = pc]) \/ loop' = loop
      BY <1>4 DEF Drain, Goto, LoopPCs
    <2>3. loop' \in [Loops -> LoopRec]
      BY <1>a, <1>b, <2>4
    <2>1. loop' \in [Loops -> LoopRec] /\ queue' \in 0..QueueMax
      BY <1>0, <1>4, <2>3 DEF Drain, TypeOK
    <2>2. TypeOK'
      BY <1>0, <1>4, <2>1 DEF Drain, sched, TypeOK
    <2> QED BY <1>0, <1>4, <1>a, <2>2, CountKept DEF Drain, sched
  <1>5. CASE PollNext(l)
    <2>1. loop' \in [Loops -> LoopRec]
      <3>1. CASE loop[l].due = {} \/ stopFlag
        BY <1>5, <1>b, <3>1 DEF PollNext, Goto, LoopPCs
      <3>2. CASE ~(loop[l].due = {} \/ stopFlag)
        <4>1. PICK p \in loop[l].due : loop' = [loop EXCEPT ![l].due = @ \ {p}]
          BY <1>5, <3>2 DEF PollNext
        <4> QED BY <1>a, <4>1
      <3> QED BY <3>1, <3>2
    <2>2. /\ registrations' \in SUBSET registrations /\ due' \in SUBSET due /\ jobs' = jobs
          /\ stopFlag' \in BOOLEAN /\ stopped' \in BOOLEAN /\ wake' \in BOOLEAN
      BY <1>0, <1>5 DEF PollNext, StopLocked, TypeOK
    <2>3. IsFiniteSet(registrations') /\ Cardinality(registrations') <= Cardinality(registrations)
          /\ Cardinality(registrations') \in Nat /\ Cardinality(registrations) \in Nat
      BY <1>0, <2>2, FS_Subset, FS_CardinalityType
    <2>4. TypeOK'
      BY <1>0, <1>5, <2>1, <2>2, <2>3 DEF PollNext, TypeOK
    <2> QED BY <1>0, <1>5, <1>a, <2>2, <2>3, <2>4, CountKept DEF PollNext
  <1>6. CASE Decide(l)
    <2>4. (\E pc \in LoopPCs : loop' = [loop EXCEPT ![l].pc = pc])
      BY <1>6 DEF Decide, Goto, LoopPCs
    <2>3. loop' \in [Loops -> LoopRec]
      BY <1>a, <1>b, <2>4
    <2>1. loop' \in [Loops -> LoopRec] /\ slot' \in Loops \cup {None}
      BY <1>0, <1>6, <2>3 DEF Decide, TypeOK
    <2>2. TypeOK'
      BY <1>0, <1>6, <2>1 DEF Decide, TypeOK
    <2> QED BY <1>0, <1>6, <1>a, <2>2, CountKept DEF Decide
  <1>7. CASE Awake(l)
    <2>1. loop' \in [Loops -> LoopRec]
      BY <1>0, <1>7, <1>b DEF Awake, Goto, LoopPCs
    <2>2. TypeOK'
      BY <1>0, <1>7, <2>1 DEF Awake, sched, TypeOK
    <2> QED BY <1>0, <1>7, <1>a, <2>2, CountKept DEF Awake, sched
  <1>8. CASE Finally(l)
    <2>1. loop' \in [Loops -> LoopRec] /\ slot' \in Loops \cup {None}
      BY <1>0, <1>8, <1>a DEF Finally, Dead, LoopPCs, TypeOK
    <2>2. TypeOK'
      BY <1>0, <1>8, <2>1 DEF Finally, TypeOK
    <2> QED BY <1>0, <1>8, <1>a, <2>2, CountKept DEF Finally
  <1> QED BY <1>1, <1>2, <1>3, <1>4, <1>5, <1>6, <1>7, <1>8 DEF LoopStep

-----------------------------------------------------------------------------
Promises == OwnerInSlot /\ NoLostWakeup /\ HintIsCovered

\* A thread is started only when none owns the loop, and it is put on record.
LEMMA EnsureOwner ==
  ASSUME TypeOK, OwnerInSlot, ensure_thread_locked
  PROVE  /\ OwnerInSlot'
         /\ \A l \in Loops : loop'[l].pc = "sleep" => loop[l].pc = "sleep"
         /\ \A l \in Loops : loop[l].pc = "drain" => loop'[l].pc = "drain"
  <1>1. CASE UNCHANGED <<slot, loop>>
    BY <1>1 DEF OwnerInSlot, Owns
  <1>2. CASE ~UNCHANGED <<slot, loop>>
    <2>1. PICK l \in Loops : /\ slot' = l /\ loop' = [loop EXCEPT ![l].pc = "top"]
                             /\ loop[l].pc = "dead" /\ ~Alive(slot)
      BY <1>2 DEF ensure_thread_locked
    <2>2. \A m \in Loops : ~Owns(m)
      BY <2>1, GraphWatchAssumption DEF OwnerInSlot, Owns, Alive
    <2>3. loop'[l].pc = "top" /\ \A m \in Loops : m # l => loop'[m] = loop[m]
      BY <2>1 DEF TypeOK
    <2> QED BY <2>1, <2>2, <2>3 DEF OwnerInSlot, Owns
  <1> QED BY <1>1, <1>2

\* The users' steps keep the promises.
LEMMA UserSafe ==
  ASSUME IInv, NEW u \in Users,
         \/ UserStep(u) \/ Register(u) \/ Hint(u) \/ StopAll(u) \/ Close(u)
         \/ \E p \in Projects : StopOne(u, p)
  PROVE  Promises'
  <1>0. TypeOK /\ OwnerInSlot /\ NoLostWakeup /\ HintIsCovered
    BY DEF IInv
  <1>a. user \in [Users -> UserPCs] /\ jobs \in Nat /\ queue \in Nat
    BY <1>0 DEF TypeOK
  <1>1. CASE AnnounceDrain(u)
    <2>1. OwnerInSlot'
      BY <1>0, <1>1 DEF AnnounceDrain, sched, OwnerInSlot, Owns
    <2>2. NoLostWakeup'
      BY <1>0, <1>1, <1>a DEF AnnounceDrain, Step, sched, NoLostWakeup
    <2>3. HintIsCovered'
      BY <1>1 DEF AnnounceDrain, HintIsCovered
    <2> QED BY <2>1, <2>2, <2>3 DEF Promises
  <1>2. CASE Submit(u)
    <2>1. OwnerInSlot' /\ \A l \in Loops : loop[l].pc = "drain" => loop'[l].pc = "drain"
      BY <1>0, <1>2, EnsureOwner DEF Submit
    <2>2. NoLostWakeup'
      BY <1>2, <1>a DEF Submit, Step, NoLostWakeup
    <2>3. HintIsCovered'
      BY <1>0, <1>2, <1>a, <2>1 DEF Submit, Step, HintIsCovered
    <2> QED BY <2>1, <2>2, <2>3 DEF Promises
  <1>3. CASE SetWake(u)
    <2>1. OwnerInSlot'
      BY <1>0, <1>3 DEF SetWake, OwnerInSlot, Owns
    <2>2. NoLostWakeup'
      BY <1>3 DEF SetWake, NoLostWakeup
    <2>3. HintIsCovered'
      BY <1>0, <1>3, <1>a DEF SetWake, Step, HintIsCovered
    <2> QED BY <2>1, <2>2, <2>3 DEF Promises
  <1>4. ASSUME NEW p \in Projects, RegisterLocked(u, p) PROVE Promises'
    <2>1. CASE UNCHANGED <<registrations, slot, loop, stopFlag, wake>>
      <3>1. OwnerInSlot'
        BY <1>0, <2>1 DEF OwnerInSlot, Owns
      <3>2. NoLostWakeup'
        BY <1>0, <1>4, <1>a, <2>1 DEF RegisterLocked, Step, NoLostWakeup
      <3>3. HintIsCovered'
        BY <1>0, <1>4, <1>a, <2>1 DEF RegisterLocked, Step, HintIsCovered
      <3> QED BY <3>1, <3>2, <3>3 DEF Promises
    <2>2. CASE ensure_thread_locked /\ wake' = TRUE
      <3>1. OwnerInSlot' /\ \A l \in Loops : loop[l].pc = "drain" => loop'[l].pc = "drain"
        BY <1>0, <2>2, EnsureOwner
      <3>2. NoLostWakeup'
        BY <2>2 DEF NoLostWakeup
      <3>3. HintIsCovered'
        BY <1>0, <1>4, <1>a, <3>1 DEF RegisterLocked, Step, HintIsCovered
      <3> QED BY <3>1, <3>2, <3>3 DEF Promises
    <2> QED BY <1>4, <2>1, <2>2 DEF RegisterLocked
  <1>5. CASE Register(u)
    <2>1. OwnerInSlot'
      BY <1>0, <1>5 DEF Register, sched, OwnerInSlot, Owns
    <2>2. NoLostWakeup'
      BY <1>0, <1>5, <1>a DEF Register, Call, sched, NoLostWakeup
    <2>3. HintIsCovered'
      BY <1>0, <1>5, <1>a DEF Register, Call, sched, HintIsCovered
    <2> QED BY <2>1, <2>2, <2>3 DEF Promises
  <1>6. CASE Hint(u)
    <2>1. OwnerInSlot'
      BY <1>0, <1>6 DEF Hint, sched, OwnerInSlot, Owns
    <2>2. NoLostWakeup'
      BY <1>0, <1>6, <1>a DEF Hint, Call, sched, NoLostWakeup
    <2>3. HintIsCovered'
      BY <1>6, <1>a DEF Hint, Call, HintIsCovered
    <2> QED BY <2>1, <2>2, <2>3 DEF Promises
  <1>7. CASE Close(u)
    <2>1. OwnerInSlot'
      BY <1>0, <1>7 DEF Close, OwnerInSlot, Owns
    <2>2. NoLostWakeup'
      BY <1>0, <1>7, <1>a DEF Close, Call, NoLostWakeup
    <2>3. HintIsCovered'
      BY <1>7 DEF Close, HintIsCovered
    <2> QED BY <2>1, <2>2, <2>3 DEF Promises
  <1>8. CASE StopAll(u)
    <2>1. OwnerInSlot'
      BY <1>0, <1>8 DEF StopAll, OwnerInSlot, Owns
    <2>2. NoLostWakeup'
      BY <1>8 DEF StopAll, StopLocked, NoLostWakeup
    <2>3. HintIsCovered'
      BY <1>0, <1>8, <1>a DEF StopAll, Call, Step, HintIsCovered
    <2> QED BY <2>1, <2>2, <2>3 DEF Promises
  <1>9. ASSUME NEW p \in Projects, StopOne(u, p) PROVE Promises'
    <2>1. OwnerInSlot'
      BY <1>0, <1>9 DEF StopOne, OwnerInSlot, Owns
    <2>2. NoLostWakeup'
      BY <1>9 DEF StopOne, StopLocked, NoLostWakeup
    <2>3. HintIsCovered'
      BY <1>0, <1>9 DEF StopOne, HintIsCovered
    <2> QED BY <2>1, <2>2, <2>3 DEF Promises
  <1> QED BY <1>1, <1>2, <1>3, <1>4, <1>5, <1>6, <1>7, <1>8, <1>9 DEF UserStep

\* The loop's steps keep the promises: a loop goes to sleep only when the job list
\* is empty, clears the wake event only while it owns the loop, and ends a drain
\* only when the queue is empty.
LEMMA LoopSafe ==
  ASSUME IInv, NEW l \in Loops, LoopStep(l)
  PROVE  Promises'
  <1>0. TypeOK /\ OwnerInSlot /\ NoLostWakeup /\ HintIsCovered
    BY DEF IInv
  <1>a. loop \in [Loops -> [pc : LoopPCs, jobs : 0..MaxOps, due : SUBSET Projects]]
        /\ jobs \in Nat /\ queue \in Nat
    BY <1>0 DEF TypeOK
  <1>b. \A m \in Loops : Owns(m) /\ Owns(l) => m = l
    BY <1>0 DEF OwnerInSlot
  <1>1. CASE Top(l)
    <2>1. \A m \in Loops : m # l => loop'[m] = loop[m]
      BY <1>1, <1>a DEF Top, Goto
    <2>2. loop'[l].pc \in {"leaving", "take"} /\ loop[l].pc = "top"
      BY <1>1, <1>a DEF Top, Goto, AtLoop
    <2>3. OwnerInSlot'
      BY <1>0, <1>1, <2>1, <2>2 DEF Top, Outside, OwnerInSlot, Owns
    <2>4. NoLostWakeup'
      BY <1>b, <2>1, <2>2 DEF NoLostWakeup, Owns
    <2>5. HintIsCovered'
      BY <1>0, <1>1, <2>1, <2>2 DEF Top, Outside, HintIsCovered
    <2> QED BY <2>3, <2>4, <2>5 DEF Promises
  <1>2. CASE Take(l)
    <2>1. \A m \in Loops : m # l => loop'[m] = loop[m]
      BY <1>2, <1>a DEF Take
    <2>2. loop'[l].pc = "jobs" /\ loop[l].pc = "take" /\ jobs' = 0
      BY <1>2, <1>a DEF Take, AtLoop
    <2>3. OwnerInSlot'
      BY <1>0, <1>2, <2>1, <2>2 DEF Take, OwnerInSlot, Owns
    <2>4. NoLostWakeup'
      BY <2>2 DEF NoLostWakeup
    <2>5. HintIsCovered'
      BY <1>0, <1>2, <2>1, <2>2 DEF Take, HintIsCovered
    <2> QED BY <2>3, <2>4, <2>5 DEF Promises
  <1>3. CASE NextJob(l)
    <2>1. \A m \in Loops : m # l => loop'[m] = loop[m]
      BY <1>3, <1>a DEF NextJob, Goto
    <2>2. /\ loop[l].pc = "jobs" /\ loop'[l].pc \in {"polls", "leaving", "drain"}
          /\ loop'[l].pc = "drain" \/ drainPending' = drainPending
      BY <1>3, <1>a DEF NextJob, Goto, AtLoop
    <2>3. OwnerInSlot'
      BY <1>0, <1>3, <2>1, <2>2 DEF NextJob, sched, OwnerInSlot, Owns
    <2>4. NoLostWakeup'
      BY <1>b, <2>1, <2>2 DEF NoLostWakeup, Owns
    <2>5. HintIsCovered'
      BY <1>0, <1>3, <2>1, <2>2 DEF NextJob, sched, HintIsCovered
    <2> QED BY <2>3, <2>4, <2>5 DEF Promises
  <1>4. CASE Drain(l)
    <2>1. \A m \in Loops : m # l => loop'[m] = loop[m]
      BY <1>4, <1>a DEF Drain, Goto
    <2>2. /\ loop[l].pc = "drain" /\ loop'[l].pc \in {"jobs", "drain"}
          /\ loop'[l].pc = "drain" \/ queue' = 0
      BY <1>4, <1>a DEF Drain, Goto, AtLoop
    <2>3. OwnerInSlot'
      BY <1>0, <1>4, <2>1, <2>2 DEF Drain, sched, OwnerInSlot, Owns
    <2>4. NoLostWakeup'
      BY <1>b, <2>1, <2>2 DEF NoLostWakeup, Owns
    <2>5. HintIsCovered'
      BY <2>2 DEF HintIsCovered
    <2> QED BY <2>3, <2>4, <2>5 DEF Promises
  <1>5. CASE PollNext(l)
    <2>1. \A m \in Loops : m # l => loop'[m] = loop[m]
      BY <1>5, <1>a DEF PollNext, Goto
    <2>2. loop[l].pc = "polls" /\ loop'[l].pc \in {"polls", "decide"}
      <3>1. loop[l].pc = "polls"
        BY <1>5 DEF PollNext, AtLoop
      <3>2. CASE Goto(l, "decide")
        BY <1>a, <3>1, <3>2 DEF Goto
      <3>3. CASE \E p \in loop[l].due : loop' = [loop EXCEPT ![l].due = @ \ {p}]
        BY <1>a, <3>1, <3>3
      <3> QED BY <1>5, <3>1, <3>2, <3>3 DEF PollNext
    <2>3. OwnerInSlot'
      BY <1>0, <1>5, <2>1, <2>2 DEF PollNext, OwnerInSlot, Owns
    <2>4. NoLostWakeup'
      BY <1>b, <2>1, <2>2 DEF NoLostWakeup, Owns
    <2>5. HintIsCovered'
      BY <1>0, <1>5, <2>1, <2>2 DEF PollNext, HintIsCovered
    <2> QED BY <2>3, <2>4, <2>5 DEF Promises
  <1>6. CASE Decide(l)
    <2>1. \A m \in Loops : m # l => loop'[m] = loop[m]
      BY <1>6, <1>a DEF Decide, Goto
    <2>2. /\ loop[l].pc = "decide" /\ loop'[l].pc \in {"leaving", "top", "sleep"}
          /\ loop'[l].pc = "sleep" => jobs' = 0
          /\ loop'[l].pc = "leaving" \/ slot' = slot
      BY <1>6, <1>a DEF Decide, Goto, AtLoop
    <2>3. OwnerInSlot'
      BY <1>0, <1>b, <2>1, <2>2 DEF OwnerInSlot, Owns
    <2>4. NoLostWakeup'
      BY <1>b, <2>1, <2>2 DEF NoLostWakeup, Owns
    <2>5. HintIsCovered'
      BY <1>0, <1>6, <2>1, <2>2 DEF Decide, HintIsCovered
    <2> QED BY <2>3, <2>4, <2>5 DEF Promises
  <1>7. CASE Awake(l)
    <2>1. \A m \in Loops : m # l => loop'[m] = loop[m]
      BY <1>7, <1>a DEF Awake, Goto
    <2>2. loop[l].pc = "sleep" /\ loop'[l].pc = "top"
      BY <1>7, <1>a DEF Awake, Goto, AtLoop
    <2>3. OwnerInSlot'
      BY <1>0, <1>7, <2>1, <2>2 DEF Awake, sched, OwnerInSlot, Owns
    <2>4. NoLostWakeup'
      BY <1>b, <2>1, <2>2 DEF NoLostWakeup, Owns
    <2>5. HintIsCovered'
      BY <1>0, <1>7, <2>1, <2>2 DEF Awake, sched, HintIsCovered
    <2> QED BY <2>3, <2>4, <2>5 DEF Promises
  <1>8. CASE Finally(l)
    <2>1. \A m \in Loops : m # l => loop'[m] = loop[m]
      BY <1>8, <1>a DEF Finally
    <2>2. loop[l].pc = "leaving" /\ loop'[l].pc = "dead"
      BY <1>8, <1>a DEF Finally, AtLoop, Dead
    <2>3. OwnerInSlot'
      BY <1>0, <1>8, <2>1, <2>2 DEF Finally, OwnerInSlot, Owns
    <2>4. NoLostWakeup'
      BY <1>0, <1>8, <2>1, <2>2 DEF Finally, NoLostWakeup
    <2>5. HintIsCovered'
      BY <1>0, <1>8, <2>1, <2>2 DEF Finally, HintIsCovered
    <2> QED BY <2>3, <2>4, <2>5 DEF Promises
  <1> QED BY <1>1, <1>2, <1>3, <1>4, <1>5, <1>6, <1>7, <1>8 DEF LoopStep

\* Every step preserves the invariant.
LEMMA StepPreserves == IInv /\ [Next]_vars => IInv'
  <1> SUFFICES ASSUME IInv, [Next]_vars PROVE IInv'
    OBVIOUS
  <1>1. ASSUME NEW l \in Loops, LoopStep(l) PROVE IInv'
    BY <1>1, LoopTyped, LoopSafe DEF IInv, Promises
  <1>2. ASSUME NEW u \in Users,
               \/ UserStep(u) \/ Register(u) \/ Hint(u) \/ StopAll(u) \/ Close(u)
               \/ \E p \in Projects : StopOne(u, p)
        PROVE  IInv'
    BY <1>2, UserTyped, UserSafe DEF IInv, Promises
  <1>3. ASSUME NEW p \in Projects, Elapse(p) PROVE IInv'
    <2>1. TypeOK' /\ Coming' = Coming
      BY <1>3 DEF IInv, TypeOK, Elapse, Coming
    <2>2. OwnerInSlot' /\ NoLostWakeup' /\ HintIsCovered'
      BY <1>3 DEF IInv, Elapse, OwnerInSlot, Owns, NoLostWakeup, HintIsCovered
    <2> QED BY <1>3, <2>1, <2>2 DEF IInv, Elapse, Counted
  <1>4. CASE UNCHANGED vars
    <2>1. TypeOK' /\ Coming' = Coming
      BY <1>4 DEF IInv, TypeOK, vars, Coming
    <2>2. OwnerInSlot' /\ NoLostWakeup' /\ HintIsCovered'
      BY <1>4 DEF IInv, vars, OwnerInSlot, Owns, NoLostWakeup, HintIsCovered
    <2> QED BY <1>4, <2>1, <2>2 DEF IInv, vars, Counted
  <1> QED BY <1>1, <1>2, <1>3, <1>4 DEF Next

\* WatchScheduler keeps its promises for any number of threads and calls: one
\* loop, no lost wake-up, a drain for every hint, and its cap on registrations.
THEOREM WatchSafety == Spec => []WatchSafe
  <1>1. IInv => WatchSafe
    BY DEF IInv, WatchSafe, OneLoop, OwnerInSlot
  <1> QED BY <1>1, InitEstablishes, StepPreserves, PTL DEF Spec

-----------------------------------------------------------------------------
(* The metadata index and its mirror: any ids, senders, scopes and faults. *)


\* The instance's operators on finite sets are those of the standard modules.
LEMMA MetaLibrary ==
  /\ \A S : Meta!Cardinality(S) = Cardinality(S)
  BY DEF Meta!Cardinality, Cardinality, Meta!IsFiniteSet, IsFiniteSet

MetaTable(f) == f \in [DOMAIN f -> Meta!Row]
MetaBounded(f) == \E n \in Nat : \A i \in DOMAIN f : f[i].rowid <= n

MetaPCs == {"rest", "list", "head", "import", "mark"}

MetaShapes ==
  /\ MetaTable(index) /\ MetaBounded(index) /\ IsFiniteSet(DOMAIN index) /\ DOMAIN index \subseteq Ids
  /\ MetaTable(mirror) /\ MetaBounded(mirror) /\ DOMAIN mirror \subseteq DOMAIN index
  /\ MetaTable(page.rows) /\ DOMAIN page.rows \subseteq DOMAIN index
  /\ page = [rows |-> page.rows, more |-> page.more, rev |-> page.rev] /\ page.rev \in Nat
  /\ poll \in [pc : MetaPCs, since : Nat, pages : 0..MaxPages]
  /\ since \in Nat

\* The rows the watermark is answerable for.
MetaOwed == (DOMAIN index \cap Scoped) \ (Blocked \cup late)
MetaDue(rev) == {i \in MetaOwed : index[i].rowid <= rev}

\* No revision handed out is above the newest row.
MetaNotAhead == since <= Meta!index_head(index) /\ page.rev <= Meta!index_head(index)

\* Within a tick the poller's watermark is the stored one.
MetaTickInStep == poll.pc # "rest" => poll.since = since

\* What the watermark may move to is in the mirror, or in the page before it.
MetaPageCovers ==
  /\ poll.pc = "head" => MetaOwed \subseteq DOMAIN mirror
  /\ poll.pc = "import" => MetaDue(page.rev) \subseteq DOMAIN mirror \cup DOMAIN page.rows
  /\ poll.pc = "mark" => MetaDue(page.rev) \subseteq DOMAIN mirror

MetaIInv == MetaShapes /\ Meta!WatermarkCovers /\ MetaNotAhead /\ MetaTickInStep /\ MetaPageCovers

-----------------------------------------------------------------------------
\* A bounded set of numbers that is not empty has a largest one.
LEMMA MetaLargestExists ==
  ASSUME NEW S \in SUBSET Nat, S # {}, NEW n \in Nat, \A x \in S : x <= n
  PROVE  \E m \in S : \A x \in S : x <= m
  <1> DEFINE T == {n - x : x \in S}
  <1>1. T \subseteq Nat /\ T # {}
    <2>1. \A x \in S : n - x \in Nat
      OBVIOUS
    <2> QED BY <2>1
  <1>2. PICK y \in T : \A z \in T : ~(<<z, y>> \in OpToRel(<, Nat))
    BY <1>1, NatLessThanWellFounded, WFMin
  <1>3. PICK m \in S : y = n - m
    OBVIOUS
  <1>4. ASSUME NEW x \in S PROVE x <= m
    <2>1. n - x \in T /\ n - x \in Nat /\ y \in Nat
      BY <1>1
    <2>2. ~(n - x < y)
      BY <1>2, <2>1 DEF OpToRel
    <2> QED BY <1>3, <2>2
  <1> QED BY <1>4

\* The same for the smallest.
LEMMA MetaSmallestExists ==
  ASSUME NEW S \in SUBSET Nat, S # {}
  PROVE  \E m \in S : \A x \in S : m <= x
  <1>1. PICK y \in S : \A z \in S : ~(<<z, y>> \in OpToRel(<, Nat))
    BY NatLessThanWellFounded, WFMin
  <1>2. ASSUME NEW x \in S PROVE y <= x
    <2>1. ~(x < y)
      BY <1>1 DEF OpToRel
    <2> QED BY <2>1
  <1> QED BY <1>2

\* index_head is the largest rowid, or 0 of an empty table.
LEMMA MetaHeadIsLargest ==
  ASSUME NEW f, MetaTable(f), MetaBounded(f)
  PROVE  /\ Meta!index_head(f) \in Nat /\ \A i \in DOMAIN f : f[i].rowid <= Meta!index_head(f)
         /\ DOMAIN f # {} => \E i \in DOMAIN f : f[i].rowid = Meta!index_head(f)
         /\ DOMAIN f = {} => Meta!index_head(f) = 0
  <1>1. CASE DOMAIN f = {}
    BY <1>1 DEF Meta!index_head
  <1>2. CASE DOMAIN f # {}
    <2> DEFINE S == {f[i].rowid : i \in DOMAIN f}
    <2>1. S \in SUBSET Nat /\ S # {}
      BY <1>2 DEF MetaTable, Meta!Row
    <2>2. PICK n \in Nat : \A x \in S : x <= n
      BY DEF MetaBounded
    <2>3. \E m \in S : \A x \in S : x <= m
      BY <2>1, <2>2, MetaLargestExists
    <2>4. \E m \in S : \A i \in DOMAIN f : f[i].rowid <= m
      BY <2>3
    <2>5. Meta!index_head(f) = CHOOSE m \in S : \A i \in DOMAIN f : f[i].rowid <= m
      BY <1>2 DEF Meta!index_head
    <2>6. Meta!index_head(f) \in S /\ \A i \in DOMAIN f : f[i].rowid <= Meta!index_head(f)
      BY <2>4, <2>5
    <2> QED BY <1>2, <2>1, <2>6
  <1> QED BY <1>1, <1>2

MetaIsEntry(e) == e.origin \in Senders /\ e.ts \in 1..MaxTs

\* Table g is f after an entry for i by sender: nothing is lost or re-attributed,
\* no version goes back, a foreign row stays, a new row comes last.
MetaFollows(f, g, i, sender) ==
  /\ MetaTable(g) /\ MetaBounded(g) /\ DOMAIN g = DOMAIN f \cup {i}
  /\ \A j \in DOMAIN f : /\ g[j].rowid = f[j].rowid /\ g[j].origin = f[j].origin
                         /\ g[j].ts >= f[j].ts
                         /\ (j # i \/ f[j].origin # sender) => g[j] = f[j]
  /\ i \notin DOMAIN f => g[i].rowid = Meta!index_head(f) + 1

\* What one entry does to a table.
LEMMA MetaUpserted ==
  ASSUME NEW f, MetaTable(f), MetaBounded(f), NEW i, NEW sender, NEW entry, MetaIsEntry(entry),
         NEW g, g = Meta!upsert_entry(f, i, sender, entry)
  PROVE  MetaFollows(f, g, i, sender)
  <1>1. Meta!index_head(f) \in Nat /\ \A j \in DOMAIN f : f[j].rowid <= Meta!index_head(f)
    BY MetaHeadIsLargest
  <1>2. \A j \in DOMAIN f : f[j] \in Meta!Row /\ f[j].rowid \in Nat /\ f[j].ts \in 1..MaxTs
    BY DEF MetaTable, Meta!Row
  <1>3. CASE i \in DOMAIN f
    <2>1. g = f \/ (f[i].origin = sender /\ entry.ts >= f[i].ts
                     /\ g = Meta!Put(f, i, [f[i] EXCEPT !.ts = entry.ts]))
      BY <1>3 DEF Meta!upsert_entry, Meta!Gated
    <2>2. CASE g = f
      <3>1. \A j \in DOMAIN f : f[j].ts >= f[j].ts
        BY <1>2
      <3>2. DOMAIN f = DOMAIN f \cup {i}
        BY <1>3
      <3> QED BY <1>3, <2>2, <3>1, <3>2, Zenon DEF MetaFollows
    <2>3. CASE /\ f[i].origin = sender /\ entry.ts >= f[i].ts
               /\ g = Meta!Put(f, i, [f[i] EXCEPT !.ts = entry.ts])
      <3> DEFINE r == [f[i] EXCEPT !.ts = entry.ts]
      <3>1. r \in Meta!Row /\ r.rowid = f[i].rowid /\ r.origin = f[i].origin /\ r.ts = entry.ts
        BY <1>2, <1>3 DEF Meta!Row, MetaIsEntry
      <3> HIDE DEF r
      <3>2. g = [j \in DOMAIN f |-> IF j = i THEN r ELSE f[j]]
        BY <1>3, <2>3 DEF Meta!Put, r
      <3>3. MetaTable(g) /\ DOMAIN g = DOMAIN f
        BY <1>2, <3>1, <3>2 DEF MetaTable
      <3>4. \A j \in DOMAIN f : g[j].rowid = f[j].rowid
        BY <3>1, <3>2
      <3>5. MetaBounded(g)
        BY <3>3, <3>4 DEF MetaBounded
      <3> QED BY <1>2, <1>3, <2>3, <3>1, <3>2, <3>3, <3>4, <3>5 DEF MetaFollows
    <2> QED BY <2>1, <2>2, <2>3
  <1>4. CASE i \notin DOMAIN f
    <2> DEFINE r == [rowid |-> Meta!index_head(f) + 1, origin |-> entry.origin, ts |-> entry.ts]
    <2>1. g = [j \in DOMAIN f \cup {i} |-> IF j = i THEN r ELSE f[j]]
      BY <1>4 DEF Meta!upsert_entry, Meta!Gated, Meta!Put
    <2>2. r \in Meta!Row /\ r.rowid = Meta!index_head(f) + 1
      BY <1>1 DEF Meta!Row, MetaIsEntry
    <2> HIDE DEF r
    <2>3. MetaTable(g) /\ DOMAIN g = DOMAIN f \cup {i}
      BY <1>2, <2>1, <2>2 DEF MetaTable
    <2>4. \A j \in DOMAIN g : g[j].rowid <= Meta!index_head(f) + 1
      BY <1>1, <1>2, <2>1, <2>2
    <2>5. MetaBounded(g)
      BY <1>1, <2>4 DEF MetaBounded
    <2>6. \A j \in DOMAIN f : g[j] = f[j] /\ g[j].ts >= f[j].ts
      BY <1>2, <1>4, <2>1
    <2>7. g[i].rowid = Meta!index_head(f) + 1
      BY <2>1, <2>2
    <2> QED BY <2>3, <2>5, <2>6, <2>7, Zenon DEF MetaFollows
  <1> QED BY <1>3, <1>4

-----------------------------------------------------------------------------
\* The promise, from the invariant.
LEMMA MetaPromises == ASSUME MetaIInv PROVE Meta!MirrorSafe
  <1>1. Meta!TypeOK
    BY DEF MetaIInv, MetaShapes, Meta!TypeOK, MetaTable, MetaPCs
  <1> QED BY <1>1 DEF MetaIInv, Meta!MirrorSafe

\* The empty index is a table within its bounds.
LEMMA MetaEmptyTable == ASSUME NEW f, DOMAIN f = {}, f = [i \in {} |-> 0] PROVE MetaTable(f) /\ MetaBounded(f)
  <1>1. MetaTable(f)
    BY DEF MetaTable
  <1>2. 0 \in Nat /\ \A i \in DOMAIN f : f[i].rowid <= 0
    OBVIOUS
  <1> QED BY <1>1, <1>2 DEF MetaBounded

\* What a page or a tick that is dropped leaves behind.
LEMMA MetaNothing ==
  ASSUME Meta!PagesOK
  PROVE  /\ MetaTable(Meta!NoPage.rows) /\ DOMAIN Meta!NoPage.rows = {} /\ Meta!NoPage.rev = 0
         /\ Meta!NoPage = [rows |-> Meta!NoPage.rows, more |-> Meta!NoPage.more, rev |-> Meta!NoPage.rev]
         /\ Meta!Resting \in [pc : MetaPCs, since : Nat, pages : 0..MaxPages] /\ Meta!Resting.pc = "rest"
  <1>1. Meta!NoPage.rows = [i \in {} |-> 0] /\ Meta!NoPage.rev = 0
    BY DEF Meta!NoPage
  <1>2. DOMAIN Meta!NoPage.rows = {}
    BY <1>1
  <1>3. Meta!NoPage = [rows |-> Meta!NoPage.rows, more |-> Meta!NoPage.more, rev |-> Meta!NoPage.rev]
    BY DEF Meta!NoPage
  <1>4. Meta!Resting \in [pc : MetaPCs, since : Nat, pages : 0..MaxPages] /\ Meta!Resting.pc = "rest"
    BY DEF Meta!Resting, MetaPCs, Meta!PagesOK
  <1> QED BY <1>1, <1>2, <1>3, <1>4, MetaEmptyTable

\* Nothing is served, mirrored or under way at the start.
LEMMA MetaInitOK == ASSUME Meta!PagesOK, Meta!Init PROVE MetaIInv
  <1>1. /\ DOMAIN index = {} /\ DOMAIN mirror = {} /\ page = Meta!NoPage /\ since = 0 /\ poll = Meta!Resting
        /\ index = [i \in {} |-> 0] /\ mirror = [i \in {} |-> 0]
    BY DEF Meta!Init
  <1>2. MetaTable(index) /\ MetaBounded(index) /\ MetaTable(mirror) /\ MetaBounded(mirror)
    BY <1>1, MetaEmptyTable
  <1>3. IsFiniteSet(DOMAIN index)
    BY <1>1, FS_EmptySet
  <1>4. MetaShapes
    BY <1>1, <1>2, <1>3, MetaNothing DEF MetaShapes
  <1>5. Meta!index_head(index) = 0
    BY <1>1 DEF Meta!index_head
  <1>6. MetaNotAhead
    BY <1>1, <1>5, MetaNothing DEF MetaNotAhead
  <1>7. Meta!WatermarkCovers
    BY <1>1 DEF Meta!WatermarkCovers
  <1>8. MetaTickInStep /\ MetaPageCovers
    BY <1>1, MetaNothing DEF MetaTickInStep, MetaPageCovers
  <1> QED BY <1>4, <1>6, <1>7, <1>8 DEF MetaIInv

\* Due, in the words of the property.
LEMMA MetaWatermarkIsDue == Meta!WatermarkCovers <=> MetaDue(since) \subseteq DOMAIN mirror
  BY DEF Meta!WatermarkCovers, MetaDue, MetaOwed

-----------------------------------------------------------------------------
\* An upsert on the serving node replaces the row by a later one of its origin.
LEMMA MetaUpsertOK ==
  ASSUME Meta!PagesOK, MetaIInv, NEW s \in Senders, NEW i \in Ids, NEW o \in Senders, NEW ts \in 1..MaxTs,
         Meta!UpsertIndexEntries(s, i, o, ts)
  PROVE  MetaIInv'
  <1>0. PICK entry : entry = [origin |-> o, ts |-> ts]
    OBVIOUS
  <1>1. /\ index' = Meta!upsert_entry(index, i, s, entry) /\ UNCHANGED <<page, mirror, since, poll>>
        /\ late' = IF poll.pc = "head" /\ i \notin DOMAIN index THEN late \cup {i} ELSE late
    BY <1>0 DEF Meta!UpsertIndexEntries
  <1>2. MetaTable(index) /\ MetaBounded(index)
    BY DEF MetaIInv, MetaShapes
  <1>3. MetaIsEntry(entry)
    BY <1>0 DEF MetaIsEntry
  <1>4. /\ MetaTable(index') /\ MetaBounded(index') /\ DOMAIN index' = DOMAIN index \cup {i}
        /\ \A j \in DOMAIN index : index'[j].rowid = index[j].rowid
        /\ i \notin DOMAIN index => index'[i].rowid = Meta!index_head(index) + 1
    <2>1. MetaFollows(index, index', i, s)
      BY <1>1, <1>2, <1>3, MetaUpserted
    <2> QED BY <2>1 DEF MetaFollows
  <1>5. IsFiniteSet(DOMAIN index')
    BY <1>4, FS_AddElement DEF MetaIInv, MetaShapes
  <1>6. MetaShapes'
    BY <1>1, <1>4, <1>5 DEF MetaIInv, MetaShapes
  <1>7. Meta!index_head(index) \in Nat /\ Meta!index_head(index') \in Nat /\ Meta!index_head(index) <= Meta!index_head(index')
    <2>1. Meta!index_head(index) \in Nat /\ Meta!index_head(index') \in Nat
      BY <1>2, <1>4, MetaHeadIsLargest
    <2>2. CASE DOMAIN index = {}
      BY <1>2, <2>1, <2>2, MetaHeadIsLargest
    <2>3. CASE DOMAIN index # {}
      <3>1. PICK j \in DOMAIN index : index[j].rowid = Meta!index_head(index)
        BY <1>2, <2>3, MetaHeadIsLargest
      <3>2. index'[j].rowid <= Meta!index_head(index')
        BY <1>4, MetaHeadIsLargest
      <3> QED BY <1>4, <2>1, <3>1, <3>2
    <2> QED BY <2>2, <2>3
  <1>8. since \in Nat /\ page.rev \in Nat /\ since <= Meta!index_head(index) /\ page.rev <= Meta!index_head(index)
    BY DEF MetaIInv, MetaShapes, MetaNotAhead
  <1>9. MetaNotAhead'
    BY <1>1, <1>7, <1>8 DEF MetaNotAhead
  \* a new row is above every revision handed out
  <1>10. ASSUME NEW rev \in Nat, rev <= Meta!index_head(index)
         PROVE  {j \in MetaOwed' : index'[j].rowid <= rev} \subseteq MetaDue(rev)
    <2>1. ASSUME NEW j \in MetaOwed', index'[j].rowid <= rev PROVE j \in MetaDue(rev)
      <3>1. j \in DOMAIN index
        <4>1. j \in DOMAIN index \cup {i}
          BY <1>4 DEF MetaOwed
        <4>2. i \notin DOMAIN index => ~(index'[i].rowid <= rev)
          BY <1>4, <1>7, <1>10
        <4> QED BY <2>1, <4>1, <4>2
      <3>2. index[j].rowid <= rev
        BY <1>4, <2>1, <3>1
      <3>3. j \in MetaOwed
        BY <1>1, <3>1 DEF MetaOwed
      <3> QED BY <3>2, <3>3 DEF MetaDue
    <2> QED BY <2>1
  <1>11. Meta!WatermarkCovers'
    <2>1. MetaDue(since) \subseteq DOMAIN mirror
      BY MetaWatermarkIsDue DEF MetaIInv
    <2>2. {j \in MetaOwed' : index'[j].rowid <= since} \subseteq DOMAIN mirror
      BY <1>8, <1>10, <2>1
    <2> QED BY <1>1, <2>2 DEF Meta!WatermarkCovers, MetaOwed
  <1>12. MetaTickInStep'
    BY <1>1 DEF MetaIInv, MetaTickInStep
  <1>13. MetaPageCovers'
    <2>1. {j \in MetaOwed' : index'[j].rowid <= page.rev} \subseteq MetaDue(page.rev)
      BY <1>8, <1>10
    <2>2. poll.pc = "head" => MetaOwed' \subseteq MetaOwed
      BY <1>1, <1>4 DEF MetaOwed
    <2>3. page' = page /\ poll' = poll /\ mirror' = mirror
      BY <1>1
    <2>4. MetaDue(page.rev)' = {j \in MetaOwed' : index'[j].rowid <= page.rev}
      BY <2>3 DEF MetaDue
    <2> QED BY <2>1, <2>2, <2>3, <2>4 DEF MetaIInv, MetaPageCovers
  <1> QED BY <1>6, <1>9, <1>11, <1>12, <1>13 DEF MetaIInv

\* A step of the poller alone: the server's rows stay.
LEMMA MetaPollerStep ==
  ASSUME MetaIInv, MetaShapes', UNCHANGED <<index, late>>, MetaNotAhead', MetaTickInStep', MetaPageCovers',
         MetaDue(since') \subseteq DOMAIN mirror'
  PROVE  MetaIInv'
  <1>1. Meta!WatermarkCovers'
    BY DEF Meta!WatermarkCovers, MetaDue, MetaOwed
  <1> QED BY <1>1 DEF MetaIInv

\* A poll starts from the watermark on record.
LEMMA MetaStartOK == ASSUME Meta!PagesOK, MetaIInv, Meta!StartPoll PROVE MetaIInv'
  <1>1. /\ UNCHANGED <<index, page, mirror, since, late>>
        /\ poll' = [pc |-> "list", since |-> since, pages |-> 0]
    BY DEF Meta!StartPoll
  <1>2. MetaShapes'
    <2>1. poll' \in [pc : MetaPCs, since : Nat, pages : 0..MaxPages]
      BY <1>1 DEF MetaIInv, MetaShapes, MetaPCs, Meta!PagesOK
    <2> QED BY <1>1, <2>1 DEF MetaIInv, MetaShapes
  <1>3. MetaNotAhead' /\ MetaTickInStep' /\ MetaPageCovers'
    BY <1>1 DEF MetaIInv, MetaNotAhead, MetaTickInStep, MetaPageCovers
  <1>4. MetaDue(since') \subseteq DOMAIN mirror'
    BY <1>1, MetaWatermarkIsDue DEF MetaIInv
  <1> QED BY <1>1, <1>2, <1>3, <1>4, MetaPollerStep

\* A poll cut off keeps what was mirrored and the watermark as recorded.
LEMMA MetaInterruptedOK == ASSUME Meta!PagesOK, MetaIInv, Meta!Interrupted PROVE MetaIInv'
  <1>1. UNCHANGED <<index, mirror, since, late>> /\ poll' = Meta!Resting /\ page' = Meta!NoPage
    BY DEF Meta!Interrupted
  <1>2. MetaShapes'
    <2>1. /\ MetaTable(page'.rows) /\ DOMAIN page'.rows \subseteq DOMAIN index' /\ page'.rev \in Nat
          /\ page' = [rows |-> page'.rows, more |-> page'.more, rev |-> page'.rev]
          /\ poll' \in [pc : MetaPCs, since : Nat, pages : 0..MaxPages]
      BY <1>1, MetaNothing
    <2> QED BY <1>1, <2>1 DEF MetaIInv, MetaShapes
  <1>3. Meta!index_head(index) \in Nat
    BY MetaHeadIsLargest DEF MetaIInv, MetaShapes
  <1>4. MetaNotAhead' /\ MetaTickInStep' /\ MetaPageCovers'
    BY <1>1, <1>3, MetaNothing DEF MetaIInv, MetaNotAhead, MetaTickInStep, MetaPageCovers
  <1>5. MetaDue(since') \subseteq DOMAIN mirror'
    BY <1>1, MetaWatermarkIsDue DEF MetaIInv
  <1> QED BY <1>1, <1>2, <1>4, <1>5, MetaPollerStep

-----------------------------------------------------------------------------
\* A page is a prefix of what was undelivered: every undelivered row up to the
\* revision of the page is in it.
LEMMA MetaPageIsPrefix ==
  ASSUME Meta!PagesOK, MetaShapes, NEW all, all \subseteq DOMAIN index, all # {},
         NEW rows, rows = Meta!FirstRows(all, PageLimit)
  PROVE  /\ rows # {} /\ rows \subseteq all
         /\ \E i \in rows : \A j \in rows : index[j].rowid <= index[i].rowid
         /\ \A i \in rows : \A j \in all : index[j].rowid <= index[i].rowid => j \in rows
  <1>1. IsFiniteSet(all) /\ \A i \in all : index[i].rowid \in Nat
    BY FS_Subset DEF MetaShapes, MetaTable, Meta!Row
  <1>2. rows \subseteq all
    BY DEF Meta!FirstRows
  <1> DEFINE Before(i) == {j \in all : index[j].rowid < index[i].rowid}
  <1>3. \A i \in all : IsFiniteSet(Before(i)) /\ Cardinality(Before(i)) \in Nat
    <2>1. ASSUME NEW i \in all PROVE IsFiniteSet(Before(i)) /\ Cardinality(Before(i)) \in Nat
      <3>1. Before(i) \in SUBSET all
        OBVIOUS
      <3> HIDE DEF Before
      <3> QED BY <1>1, <3>1, FS_Subset, FS_CardinalityType
    <2> QED BY <2>1
  <1>4. \A i \in all : i \in rows <=> Cardinality(Before(i)) < PageLimit
    BY MetaLibrary DEF Meta!FirstRows
  <1>5. rows # {}
    <2> DEFINE S == {index[i].rowid : i \in all}
    <2>1. S \in SUBSET Nat /\ S # {}
      BY <1>1
    <2>2. PICK m \in S : \A x \in S : m <= x
      BY <2>1, MetaSmallestExists
    <2>3. PICK i \in all : index[i].rowid = m
      OBVIOUS
    <2>4. \A j \in all : ~(index[j].rowid < index[i].rowid)
      BY <1>1, <2>2, <2>3
    <2>5. Before(i) = {}
      BY <2>4
    <2>6. Cardinality(Before(i)) = 0
      BY <2>5, FS_EmptySet
    <2> QED BY <1>4, <2>6 DEF Meta!PagesOK
  <1>6. \E i \in rows : \A j \in rows : index[j].rowid <= index[i].rowid
    <2> DEFINE S == {index[i].rowid : i \in rows}
    <2>1. S \in SUBSET Nat /\ S # {}
      BY <1>1, <1>2, <1>5
    <2>2. PICK n \in Nat : \A x \in S : x <= n
      BY <1>2 DEF MetaShapes, MetaBounded
    <2>3. PICK m \in S : \A x \in S : x <= m
      BY <2>1, <2>2, MetaLargestExists
    <2> QED BY <2>3
  <1>7. ASSUME NEW i \in rows, NEW j \in all, index[j].rowid <= index[i].rowid PROVE j \in rows
    <2>1. Before(j) \in SUBSET Before(i)
      BY <1>1, <1>2, <1>7
    <2>2. i \in all /\ IsFiniteSet(Before(i)) /\ Cardinality(Before(i)) \in Nat
           /\ Cardinality(Before(j)) \in Nat /\ Cardinality(Before(i)) < PageLimit
      BY <1>2, <1>3, <1>4
    <2> HIDE DEF Before
    <2>3. Cardinality(Before(j)) <= Cardinality(Before(i))
      BY <2>1, <2>2, FS_Subset
    <2>4. Cardinality(Before(j)) < PageLimit
      BY <2>2, <2>3 DEF Meta!PagesOK
    <2> QED BY <1>4, <2>4
  <1> QED BY <1>2, <1>5, <1>6, <1>7

\* A page holds the rows after the cursor that the peer may see.
LEMMA MetaListOK == ASSUME Meta!PagesOK, MetaIInv, Meta!ListPage PROVE MetaIInv'
  <1> DEFINE all == Meta!Undelivered(poll.since)
             rows == Meta!FirstRows(all, PageLimit)
             last == CHOOSE i \in rows : \A j \in rows : index[j].rowid <= index[i].rowid
  <1>1. poll.pc = "list" /\ UNCHANGED <<index, mirror, since, late>>
    BY DEF Meta!ListPage
  <1>2. /\ MetaShapes /\ poll \in [pc : MetaPCs, since : Nat, pages : 0..MaxPages] /\ poll.since = since
        /\ since \in Nat /\ since <= Meta!index_head(index) /\ MetaDue(since) \subseteq DOMAIN mirror
    BY <1>1, MetaWatermarkIsDue DEF MetaIInv, MetaShapes, MetaTickInStep, MetaNotAhead
  <1>3. all \subseteq DOMAIN index /\ \A i \in MetaOwed : index[i].rowid > since => i \in all
    BY <1>2 DEF Meta!Undelivered, MetaOwed
  <1>4. \A i \in MetaOwed : i \in MetaDue(since) \/ index[i].rowid > since
    BY <1>2 DEF MetaDue, MetaOwed, MetaShapes, MetaTable, Meta!Row
  <1>5. CASE all = {}
    <2>1. poll' = [poll EXCEPT !.pc = "head"] /\ page' = [Meta!NoPage EXCEPT !.rev = since]
      BY <1>2, <1>5 DEF Meta!ListPage
    <2>2. /\ poll' \in [pc : MetaPCs, since : Nat, pages : 0..MaxPages] /\ poll'.pc = "head"
          /\ poll'.since = since
      BY <1>2, <2>1 DEF MetaPCs
    <2>3. /\ page'.rows = Meta!NoPage.rows /\ page'.rev = since
          /\ page' = [rows |-> page'.rows, more |-> page'.more, rev |-> page'.rev]
      BY <2>1 DEF Meta!NoPage
    <2>4. MetaShapes'
      BY <1>1, <1>2, <2>2, <2>3, MetaNothing DEF MetaShapes
    <2>5. MetaNotAhead' /\ MetaTickInStep'
      BY <1>1, <1>2, <2>2, <2>3 DEF MetaNotAhead, MetaTickInStep
    <2>6. MetaPageCovers'
      BY <1>1, <1>2, <1>3, <1>4, <1>5, <2>2 DEF MetaPageCovers, MetaOwed
    <2>7. MetaDue(since') \subseteq DOMAIN mirror'
      BY <1>1, <1>2
    <2> QED BY <1>1, <2>4, <2>5, <2>6, <2>7, MetaPollerStep
  <1>6. CASE all # {}
    <2> DEFINE rowsIn == [i \in rows |-> index[i]]
    <2>1. poll' = [poll EXCEPT !.pc = "import"]
          /\ page' = [rows |-> rowsIn, more |-> all # rows, rev |-> index[last].rowid]
      BY <1>6 DEF Meta!ListPage
    <2>2. /\ poll' \in [pc : MetaPCs, since : Nat, pages : 0..MaxPages] /\ poll'.pc = "import"
          /\ poll'.since = since
      BY <1>2, <2>1 DEF MetaPCs
    <2>3. /\ rows # {} /\ rows \subseteq all
          /\ \E i \in rows : \A j \in rows : index[j].rowid <= index[i].rowid
          /\ \A i \in rows : \A j \in all : index[j].rowid <= index[i].rowid => j \in rows
      BY <1>2, <1>3, <1>6, MetaPageIsPrefix
    <2>4. last \in rows
      BY <2>3
    <2>5. PICK r \in rows : r = last
      BY <2>4
    <2> HIDE DEF last, rows, all
    <2>6. r \in DOMAIN index /\ index[r].rowid \in Nat /\ index[r].rowid <= Meta!index_head(index)
      BY <1>2, <1>3, <2>3, MetaHeadIsLargest DEF MetaShapes, MetaTable, Meta!Row
    <2>7. /\ page'.rows = rowsIn /\ page'.rev = index[r].rowid
          /\ page' = [rows |-> page'.rows, more |-> page'.more, rev |-> page'.rev]
      BY <2>1, <2>5
    <2>8. MetaTable(rowsIn) /\ DOMAIN rowsIn = rows /\ rows \subseteq DOMAIN index
      BY <1>2, <1>3, <2>3 DEF MetaShapes, MetaTable
    <2> HIDE DEF rowsIn
    <2>9. MetaShapes'
      BY <1>1, <1>2, <2>2, <2>6, <2>7, <2>8 DEF MetaShapes
    <2>10. MetaNotAhead' /\ MetaTickInStep'
      BY <1>1, <1>2, <2>2, <2>6, <2>7 DEF MetaNotAhead, MetaTickInStep
    <2>11. MetaPageCovers'
      <3>1. ASSUME NEW i \in MetaOwed, index[i].rowid <= index[r].rowid
            PROVE  i \in DOMAIN mirror \cup rows
        BY <1>2, <1>3, <1>4, <2>3, <3>1
      <3>2. MetaDue(page.rev)' = {i \in MetaOwed : index[i].rowid <= index[r].rowid}
        BY <1>1, <2>7 DEF MetaDue, MetaOwed
      <3> QED BY <1>1, <2>2, <2>7, <2>8, <3>1, <3>2 DEF MetaPageCovers
    <2>12. MetaDue(since') \subseteq DOMAIN mirror'
      BY <1>1, <1>2
    <2> QED BY <1>1, <2>9, <2>10, <2>11, <2>12, MetaPollerStep
  <1> QED BY <1>5, <1>6

\* A caught-up poller parks at the head it was told of.
LEMMA MetaParkOK == ASSUME Meta!PagesOK, MetaIInv, Meta!ParkAtHead PROVE MetaIInv'
  <1> DEFINE ids == DOMAIN index \cap Scoped
             mine == [i \in ids |-> index[i]]
             rev == IF Meta!index_head(mine) > page.rev THEN Meta!index_head(mine) ELSE page.rev
  <1>1. /\ poll.pc = "head" /\ UNCHANGED <<index, mirror, since, late>>
        /\ page' = [page EXCEPT !.rev = rev] /\ poll' = [poll EXCEPT !.pc = "import"]
    BY DEF Meta!ParkAtHead
  <1>2. /\ MetaShapes /\ poll \in [pc : MetaPCs, since : Nat, pages : 0..MaxPages] /\ poll.since = since
        /\ page.rev \in Nat /\ page.rev <= Meta!index_head(index) /\ since <= Meta!index_head(index)
        /\ MetaDue(since) \subseteq DOMAIN mirror /\ MetaOwed \subseteq DOMAIN mirror
    BY <1>1, MetaWatermarkIsDue DEF MetaIInv, MetaShapes, MetaTickInStep, MetaNotAhead, MetaPageCovers
  <1>3. MetaTable(mine) /\ MetaBounded(mine) /\ DOMAIN mine = ids /\ \A i \in ids : mine[i] = index[i]
    BY <1>2 DEF MetaShapes, MetaTable, MetaBounded
  <1>4. Meta!index_head(mine) \in Nat /\ Meta!index_head(mine) <= Meta!index_head(index)
    <2> HIDE DEF mine
    <2>1. Meta!index_head(index) \in Nat /\ \A i \in DOMAIN index : index[i].rowid <= Meta!index_head(index)
      BY <1>2, MetaHeadIsLargest DEF MetaShapes
    <2>2. CASE ids = {}
      <3>1. Meta!index_head(mine) = 0
        BY <1>3, <2>2, MetaHeadIsLargest
      <3> QED BY <2>1, <3>1
    <2>3. CASE ids # {}
      <3>1. Meta!index_head(mine) \in Nat /\ \E i \in ids : mine[i].rowid = Meta!index_head(mine)
        BY <1>3, <2>3, MetaHeadIsLargest
      <3> QED BY <1>3, <2>1, <3>1
    <2> QED BY <2>2, <2>3
  <1> HIDE DEF mine
  <1>5. rev \in Nat /\ rev <= Meta!index_head(index)
    BY <1>2, <1>4
  <1> HIDE DEF rev
  <1>6. /\ poll' \in [pc : MetaPCs, since : Nat, pages : 0..MaxPages] /\ poll'.pc = "import"
        /\ poll'.since = since
    BY <1>1, <1>2 DEF MetaPCs
  <1>7. /\ page'.rows = page.rows /\ page'.rev = rev
        /\ page' = [rows |-> page'.rows, more |-> page'.more, rev |-> page'.rev]
    <2>1. page = [rows |-> page.rows, more |-> page.more, rev |-> page.rev]
      BY <1>2 DEF MetaShapes
    <2> QED BY <1>1, <2>1
  <1>8. MetaShapes'
    BY <1>1, <1>2, <1>5, <1>6, <1>7 DEF MetaShapes
  <1>9. MetaNotAhead' /\ MetaTickInStep'
    BY <1>1, <1>2, <1>5, <1>6, <1>7 DEF MetaNotAhead, MetaTickInStep
  <1>10. MetaPageCovers'
    <2>1. MetaDue(page.rev)' \subseteq MetaOwed
      BY <1>1 DEF MetaDue, MetaOwed
    <2> QED BY <1>1, <1>2, <1>6, <2>1 DEF MetaPageCovers
  <1>11. MetaDue(since') \subseteq DOMAIN mirror'
    BY <1>1, <1>2
  <1> QED BY <1>1, <1>8, <1>9, <1>10, <1>11, MetaPollerStep

-----------------------------------------------------------------------------
\* The mirror after an import: what it had keeps its place and its origin, and
\* only the server's own rows change.
LEMMA MetaImported ==
  ASSUME MetaIInv, Meta!Import
  PROVE  /\ MetaTable(mirror') /\ MetaBounded(mirror')
         /\ DOMAIN mirror' = DOMAIN mirror \cup (DOMAIN page.rows \ Blocked)
         /\ \A i \in DOMAIN mirror : /\ mirror'[i].origin = mirror[i].origin
                                     /\ mirror[i].origin # Server => mirror'[i] = mirror[i]
  <1> DEFINE new == DOMAIN page.rows \ Blocked
             up(i) == Meta!upsert_entry(mirror, i, Server, page.rows[i])
  <1>1. mirror' = [i \in DOMAIN mirror \cup new |-> IF i \in new THEN up(i)[i] ELSE mirror[i]]
    BY DEF Meta!Import
  <1>2. MetaTable(mirror) /\ MetaBounded(mirror) /\ MetaTable(page.rows)
    BY DEF MetaIInv, MetaShapes
  <1>3. ASSUME NEW i \in new PROVE MetaFollows(mirror, up(i), i, Server)
    <2>1. MetaIsEntry(page.rows[i])
      BY <1>2 DEF MetaIsEntry, MetaTable, Meta!Row
    <2> QED BY <1>2, <2>1, MetaUpserted
  <1> HIDE DEF up
  <1>4. Meta!index_head(mirror) \in Nat /\ \A i \in DOMAIN mirror : mirror[i].rowid <= Meta!index_head(mirror)
    BY <1>2, MetaHeadIsLargest
  <1>5. ASSUME NEW i \in new PROVE up(i)[i] \in Meta!Row /\ up(i)[i].rowid <= Meta!index_head(mirror) + 1
    <2>1. MetaFollows(mirror, up(i), i, Server)
      BY <1>3
    <2>2. MetaTable(up(i)) /\ i \in DOMAIN up(i)
      BY <2>1 DEF MetaFollows
    <2>3. up(i)[i] \in Meta!Row
      BY <2>2 DEF MetaTable
    <2>4. CASE i \in DOMAIN mirror
      <3>1. up(i)[i].rowid = mirror[i].rowid /\ mirror[i].rowid \in Nat
        BY <1>2, <2>1, <2>4 DEF MetaFollows, MetaTable, Meta!Row
      <3> QED BY <1>4, <2>3, <2>4, <3>1
    <2>5. CASE i \notin DOMAIN mirror
      BY <1>4, <2>1, <2>3, <2>5 DEF MetaFollows
    <2> QED BY <2>4, <2>5
  <1> HIDE DEF new
  <1>6. MetaTable(mirror') /\ DOMAIN mirror' = DOMAIN mirror \cup new
    BY <1>1, <1>2, <1>5 DEF MetaTable
  <1>7. MetaBounded(mirror')
    <2>1. ASSUME NEW i \in DOMAIN mirror' PROVE mirror'[i].rowid <= Meta!index_head(mirror) + 1
      <3>1. CASE i \in new
        BY <1>1, <1>5, <3>1
      <3>2. CASE i \notin new
        <4>1. i \in DOMAIN mirror /\ mirror'[i] = mirror[i] /\ mirror[i].rowid \in Nat
          BY <1>1, <1>2, <1>6, <3>2 DEF MetaTable, Meta!Row
        <4> QED BY <1>4, <4>1
      <3> QED BY <3>1, <3>2
    <2>2. PICK n \in Nat : n = Meta!index_head(mirror) + 1
      BY <1>4
    <2> QED BY <2>1, <2>2 DEF MetaBounded
  <1>8. ASSUME NEW i \in DOMAIN mirror
        PROVE  /\ mirror'[i].origin = mirror[i].origin
               /\ mirror[i].origin # Server => mirror'[i] = mirror[i]
    <2>1. CASE i \in new
      <3>1. mirror'[i] = up(i)[i]
        BY <1>1, <2>1
      <3>2. up(i)[i].origin = mirror[i].origin /\ (mirror[i].origin # Server => up(i)[i] = mirror[i])
        BY <1>3, <2>1 DEF MetaFollows
      <3> QED BY <3>1, <3>2
    <2>2. CASE i \notin new
      BY <1>1, <2>2
    <2> QED BY <2>1, <2>2
  <1> QED BY <1>6, <1>7, <1>8 DEF new

\* Importing a page brings the mirror the rows it holds that are not blocked.
LEMMA MetaImportOK == ASSUME Meta!PagesOK, MetaIInv, Meta!Import PROVE MetaIInv'
  <1>1. /\ poll.pc = "import" /\ UNCHANGED <<index, page, since, late>>
        /\ poll' = [poll EXCEPT !.pc = "mark"]
    BY DEF Meta!Import
  <1>2. /\ MetaShapes /\ poll \in [pc : MetaPCs, since : Nat, pages : 0..MaxPages] /\ poll.since = since
        /\ MetaDue(since) \subseteq DOMAIN mirror
        /\ MetaDue(page.rev) \subseteq DOMAIN mirror \cup DOMAIN page.rows
    BY <1>1, MetaWatermarkIsDue DEF MetaIInv, MetaShapes, MetaTickInStep, MetaPageCovers
  <1>3. /\ MetaTable(mirror') /\ MetaBounded(mirror')
        /\ DOMAIN mirror' = DOMAIN mirror \cup (DOMAIN page.rows \ Blocked)
    BY MetaImported
  <1>4. /\ poll' \in [pc : MetaPCs, since : Nat, pages : 0..MaxPages] /\ poll'.pc = "mark"
        /\ poll'.since = since
    BY <1>1, <1>2 DEF MetaPCs
  <1>5. MetaShapes'
    BY <1>1, <1>2, <1>3, <1>4 DEF MetaShapes
  <1>6. MetaNotAhead' /\ MetaTickInStep'
    BY <1>1, <1>4 DEF MetaIInv, MetaNotAhead, MetaTickInStep
  <1>7. MetaPageCovers'
    <2>1. MetaDue(page.rev)' = MetaDue(page.rev) /\ MetaDue(page.rev) \cap Blocked = {}
      BY <1>1 DEF MetaDue, MetaOwed
    <2> QED BY <1>2, <1>3, <1>4, <2>1 DEF MetaPageCovers
  <1>8. MetaDue(since') \subseteq DOMAIN mirror'
    BY <1>1, <1>2, <1>3
  <1> QED BY <1>1, <1>5, <1>6, <1>7, <1>8, MetaPollerStep

\* The watermark moves only once the page behind it is in the mirror.
LEMMA MetaMarkOK == ASSUME Meta!PagesOK, MetaIInv, Meta!Mark PROVE MetaIInv'
  <1> DEFINE rev == IF page.rev > poll.since THEN page.rev ELSE poll.since
  <1>1. /\ poll.pc = "mark" /\ UNCHANGED <<index, mirror, late>> /\ since' = rev /\ page' = Meta!NoPage
        /\ \/ poll.pages + 1 < MaxPages
              /\ poll' = [pc |-> "list", since |-> rev, pages |-> poll.pages + 1]
           \/ poll' = Meta!Resting
    BY DEF Meta!Mark, Meta!MarkPollOk
  <1>2. /\ MetaShapes /\ poll \in [pc : MetaPCs, since : Nat, pages : 0..MaxPages] /\ poll.since = since
        /\ page.rev \in Nat /\ since \in Nat
        /\ page.rev <= Meta!index_head(index) /\ since <= Meta!index_head(index)
        /\ MetaDue(since) \subseteq DOMAIN mirror /\ MetaDue(page.rev) \subseteq DOMAIN mirror
    BY <1>1, MetaWatermarkIsDue DEF MetaIInv, MetaShapes, MetaTickInStep, MetaPageCovers, MetaNotAhead
  <1>3. rev \in Nat /\ (rev = page.rev \/ rev = since) /\ rev <= Meta!index_head(index)
    BY <1>2
  <1> HIDE DEF rev
  <1>4. poll.pages \in 0..MaxPages
    BY <1>2
  <1>5. /\ poll' \in [pc : MetaPCs, since : Nat, pages : 0..MaxPages]
        /\ poll'.pc \in {"list", "rest"} /\ (poll'.pc # "rest" => poll'.since = rev)
    <2>1. CASE /\ poll.pages + 1 < MaxPages
               /\ poll' = [pc |-> "list", since |-> rev, pages |-> poll.pages + 1]
      BY <1>3, <1>4, <2>1 DEF MetaPCs, Meta!PagesOK
    <2>2. CASE poll' = Meta!Resting
      BY <2>2, MetaNothing
    <2> QED BY <1>1, <2>1, <2>2
  <1>6. MetaShapes'
    BY <1>1, <1>2, <1>3, <1>5, MetaNothing DEF MetaShapes
  <1>7. Meta!index_head(index) \in Nat
    BY <1>2, MetaHeadIsLargest DEF MetaShapes
  <1>8. MetaNotAhead' /\ MetaTickInStep' /\ MetaPageCovers'
    BY <1>1, <1>3, <1>5, <1>7, MetaNothing DEF MetaNotAhead, MetaTickInStep, MetaPageCovers
  <1>9. MetaDue(since') \subseteq DOMAIN mirror'
    BY <1>1, <1>2, <1>3
  <1> QED BY <1>1, <1>6, <1>8, <1>9, MetaPollerStep

-----------------------------------------------------------------------------
\* Every step of the serving node and of the poller keeps the invariant.
LEMMA MetaStepOK == ASSUME Meta!PagesOK, MetaIInv, [Meta!Next]_Meta!ivars PROVE MetaIInv'
  <1>1. CASE Meta!Feed
    BY <1>1, MetaUpsertOK DEF Meta!Feed
  <1>2. CASE Meta!StartPoll
    BY <1>2, MetaStartOK
  <1>3. CASE Meta!SyncMetadata
    BY <1>3, MetaListOK, MetaParkOK DEF Meta!SyncMetadata
  <1>4. CASE Meta!Import
    BY <1>4, MetaImportOK
  <1>5. CASE Meta!Mark
    BY <1>5, MetaMarkOK
  <1>6. CASE Meta!PollFails \/ Meta!Stop
    BY <1>6, MetaInterruptedOK DEF Meta!PollFails, Meta!Stop
  <1>7. CASE UNCHANGED Meta!ivars
    <2>1. UNCHANGED <<index, page, mirror, since, poll, late>>
      BY <1>7 DEF Meta!ivars
    <2> QED BY <2>1 DEF MetaIInv, MetaShapes, Meta!WatermarkCovers, MetaNotAhead, MetaTickInStep, MetaPageCovers, MetaDue, MetaOwed
  <1> QED BY <1>1, <1>2, <1>3, <1>4, <1>5, <1>6, <1>7 DEF Meta!Next, Meta!Tick

\* The stored watermark (mark_poll_ok) never passes a row the mirror lacks, for
\* any interleaving of senders, pages, failures and restarts, except for rows that
\* came between the two statements of an empty page.
THEOREM MirrorSafety ==
  ASSUME Meta!PagesOK
  PROVE  Meta!Spec => []Meta!MirrorSafe
  <1>1. Meta!Init => MetaIInv
    BY MetaInitOK
  <1>2. MetaIInv /\ [Meta!Next]_Meta!ivars => MetaIInv'
    BY MetaStepOK
  <1>3. MetaIInv => Meta!MirrorSafe
    BY MetaPromises
  <1> QED BY <1>1, <1>2, <1>3, PTL DEF Meta!Spec

\* One step re-attributes no row and takes no version back.
LEMMA MetaOriginKept == ASSUME MetaIInv, [Meta!Next]_Meta!ivars PROVE Meta!OriginStep
  <1>1. \A i \in DOMAIN index : index[i].ts >= index[i].ts
    BY DEF MetaIInv, MetaShapes, MetaTable, Meta!Row
  <1>2. CASE UNCHANGED <<index, mirror>>
    BY <1>1, <1>2, Zenon DEF Meta!OriginStep
  <1>3. CASE Meta!Feed
    <2>1. PICK s \in Senders, o \in Senders, i \in Ids, ts \in 1..MaxTs :
            Meta!UpsertIndexEntries(s, i, o, ts)
      BY <1>3 DEF Meta!Feed
    <2>2. PICK entry : entry = [origin |-> o, ts |-> ts]
      OBVIOUS
    <2>3. index' = Meta!upsert_entry(index, i, s, entry) /\ mirror' = mirror
      BY <2>1, <2>2 DEF Meta!UpsertIndexEntries
    <2>4. MetaIsEntry(entry)
      BY <2>2 DEF MetaIsEntry
    <2>5. MetaTable(index) /\ MetaBounded(index)
      BY DEF MetaIInv, MetaShapes
    <2>6. MetaFollows(index, index', i, s)
      BY <2>3, <2>4, <2>5, MetaUpserted
    <2>7. \A j \in DOMAIN index : /\ j \in DOMAIN index' /\ index'[j].origin = index[j].origin
                                  /\ index'[j].ts >= index[j].ts
                                  /\ index'[j] # index[j] => j = i /\ index[j].origin = s
      BY <2>6 DEF MetaFollows
    <2>8. \A j \in DOMAIN index : index'[j] # index[j] => Meta!ByOrigin(j)
      BY <2>1, <2>7 DEF Meta!ByOrigin
    <2> QED BY <2>3, <2>7, <2>8, Zenon DEF Meta!OriginStep
  <1>4. CASE Meta!Import
    <2>1. index' = index
      BY <1>4 DEF Meta!Import
    <2>2. \A i \in DOMAIN mirror : /\ i \in DOMAIN mirror' /\ mirror'[i].origin = mirror[i].origin
                                   /\ (mirror[i].origin # Server => mirror'[i] = mirror[i])
      BY <1>4, MetaImported
    <2> QED BY <1>1, <2>1, <2>2, Zenon DEF Meta!OriginStep
  <1>5. CASE Meta!StartPoll \/ Meta!SyncMetadata \/ Meta!Mark \/ Meta!PollFails \/ Meta!Stop \/ UNCHANGED Meta!ivars
    BY <1>2, <1>5 DEF Meta!StartPoll, Meta!SyncMetadata, Meta!ListPage, Meta!ParkAtHead, Meta!Mark, Meta!PollFails, Meta!Stop,
         Meta!Interrupted, Meta!ivars
  <1> QED BY <1>3, <1>4, <1>5 DEF Meta!Next, Meta!Tick

\* The origin-mutation guard of upsert_index_entries: a row of the index changes
\* only by a message of its origin, no row of either node is re-attributed, no
\* version goes back, and the mirror never touches a row of a third origin.
THEOREM OriginSafety ==
  ASSUME Meta!PagesOK
  PROVE  Meta!Spec => Meta!OnlyOriginMutates
  <1>1. Meta!Init => MetaIInv
    BY MetaInitOK
  <1>2. MetaIInv /\ [Meta!Next]_Meta!ivars => MetaIInv'
    BY MetaStepOK
  <1>3. MetaIInv /\ [Meta!Next]_Meta!ivars => Meta!OriginStep
    BY MetaOriginKept
  <1>4. Meta!Spec => [][Meta!OriginStep]_Meta!ivars
    BY <1>1, <1>2, <1>3, PTL DEF Meta!Spec
  <1> QED BY <1>4 DEF Meta!OnlyOriginMutates

-----------------------------------------------------------------------------
(* The background processor and its ledger: any threads, calls and limits. *)


\* The thread on record is the one whose event the manager has, and without a join
\* that gave up no other thread is alive.
BackgroundOnRecord ==
  /\ event = handle
  /\ ~timedOut => \A t \in Threads : Background!Alive(t) => t = handle

\* Rollups lie in the past; a committed call is stamped.
BackgroundInOrder ==
  /\ rolledAt <= hour
  /\ \A h \in 1..MaxHour : hourly[h] # {} => h < hour
  /\ \A v \in raw : verb[v] # Background!NoStamp

\* What the ledger has an account of.
BackgroundKnown == Background!Counted \cup tardy \cup skipped

\* A row that the next prune takes has been accounted for: a prune follows the
\* rollup of its hour.
BackgroundPruneIsSafe ==
  /\ \A t \in Threads : threads[t] = "retention" => rolledAt = hour
  /\ rolledAt = hour => \A v \in raw : Background!Expired(v) => v \in BackgroundKnown

BackgroundIInv ==
  /\ Background!TypeOK /\ BackgroundOnRecord /\ Background!FaultKeepsLoop /\ BackgroundInOrder /\ BackgroundPruneIsSafe
  /\ Background!RolledHourIsComplete /\ Background!LossIsExplained

-----------------------------------------------------------------------------
(* The hours.                                                              *)

\* A bounded set of numbers that is not empty has a Max.
LEMMA BackgroundMaxIsIn ==
  ASSUME NEW n \in Nat, NEW S \in SUBSET (0..n), S # {}
  PROVE  Background!Max(S) \in S /\ \A x \in S : x <= Background!Max(S)
  <1> DEFINE T == {n - x : x \in S}
  <1>1. \A x \in S : n - x \in Nat /\ x \in Nat
    OBVIOUS
  <1>2. T \subseteq Nat /\ T # {}
    BY <1>1
  <1>3. PICK y \in T : \A z \in T : ~(<<z, y>> \in OpToRel(<, Nat))
    BY <1>2, NatLessThanWellFounded, WFMin
  <1>4. PICK m \in S : y = n - m
    OBVIOUS
  <1>5. ASSUME NEW x \in S PROVE m >= x
    <2>1. n - x \in T /\ n - x \in Nat /\ y \in Nat
      BY <1>1, <1>2
    <2>2. ~(n - x < y)
      BY <1>3, <2>1 DEF OpToRel
    <2> QED BY <1>1, <1>4, <2>2
  <1>6. Background!Max(S) \in S /\ \A x \in S : Background!Max(S) >= x
    BY <1>5 DEF Background!Max
  <1> QED BY <1>1, <1>6

\* The last rolled hour is past, and no later hour has rows.
LEMMA BackgroundLastRolled ==
  ASSUME Background!LimitsOK, Background!TypeOK, BackgroundInOrder
  PROVE  /\ Background!last_rolled_hour \in 0..(hour - 1)
         /\ \A h \in 1..MaxHour : hourly[h] # {} => h <= Background!last_rolled_hour
         /\ Background!last_rolled_hour > 0 => hourly[Background!last_rolled_hour] # {}
  <1> DEFINE S == {h \in 1..MaxHour : hourly[h] # {}} \cup {0}
  <1>1. MaxHour \in Nat /\ hour \in 1..MaxHour
    BY DEF Background!LimitsOK, Background!TypeOK
  <1>2. S \in SUBSET (0..MaxHour) /\ S # {}
    BY <1>1
  <1>3. Background!Max(S) \in S /\ \A x \in S : x <= Background!Max(S)
    BY <1>1, <1>2, BackgroundMaxIsIn
  <1>4. \A h \in S : h < hour
    BY <1>1 DEF BackgroundInOrder
  <1>5. Background!last_rolled_hour = Background!Max(S)
    BY DEF Background!last_rolled_hour
  <1> DEFINE m == Background!last_rolled_hour
  <1>6. m \in S /\ \A x \in S : x <= m
    BY <1>3, <1>5
  <1>7. m \in 0..(hour - 1)
    BY <1>1, <1>2, <1>4, <1>6
  <1> HIDE DEF m
  <1>8. /\ \A h \in 1..MaxHour : hourly[h] # {} => h <= m
        /\ m > 0 => hourly[m] # {}
    BY <1>1, <1>6
  <1> QED BY <1>7, <1>8 DEF m

\* Where the next rollup begins.
LEMMA BackgroundFirstIsAfter ==
  ASSUME Background!LimitsOK, Background!TypeOK, BackgroundInOrder
  PROVE  /\ Background!FirstToRoll \in Nat /\ Background!FirstToRoll > Background!last_rolled_hour /\ Background!FirstToRoll > 0
         /\ Background!FirstToRoll >= hour - 1 - CatchUp
  <1> DEFINE a == Background!last_rolled_hour + 1
             b == Background!Minus(Background!LastToRoll, CatchUp)
             S == {a, b, 1}
  <1>1. MaxHour \in Nat /\ hour \in 1..MaxHour /\ CatchUp \in Nat
    BY DEF Background!LimitsOK, Background!TypeOK
  <1>2. a \in 1..MaxHour
    BY <1>1, BackgroundLastRolled
  <1>3. b \in 0..MaxHour /\ b >= hour - 1 - CatchUp
    BY <1>1 DEF Background!Minus, Background!LastToRoll
  <1>4. Background!last_rolled_hour \in Nat
    BY <1>1, BackgroundLastRolled
  <1>5. S \in SUBSET (0..MaxHour) /\ S # {}
    BY <1>1, <1>2, <1>3
  <1>6. Background!Max(S) \in S /\ \A x \in S : x <= Background!Max(S)
    BY <1>1, <1>5, BackgroundMaxIsIn
  <1>7. Background!FirstToRoll = Background!Max(S)
    BY DEF Background!FirstToRoll
  <1> DEFINE f == Background!FirstToRoll
  <1>8. f \in Nat /\ f >= a /\ f >= b /\ f >= 1
    BY <1>1, <1>5, <1>6, <1>7
  <1> QED BY <1>1, <1>2, <1>3, <1>4, <1>8

-----------------------------------------------------------------------------
(* One lemma per action: it keeps the invariant.                           *)

\* What concerns the ledger only, and what concerns the threads only.
BackgroundLedgers == BackgroundInOrder /\ Background!RolledHourIsComplete /\ Background!LossIsExplained
BackgroundTyped == Background!TypeOK

\* A step that leaves the ledgers alone, and starts no retention, keeps them.
LEMMA BackgroundLedgerQuiet ==
  ASSUME BackgroundIInv, UNCHANGED Background!lvars,
         \A t \in Threads : threads'[t] = "retention" => threads[t] = "retention"
  PROVE  BackgroundLedgers' /\ BackgroundPruneIsSafe'
  BY DEF BackgroundIInv, BackgroundLedgers, Background!lvars, BackgroundInOrder, Background!RolledHourIsComplete, Background!LossIsExplained, BackgroundPruneIsSafe, BackgroundKnown,
         Background!Counted, Background!last_rolled_hour, Background!Expired

\* Starting, stopping and joining the loop keeps one loop but after an overrun join.
LEMMA BackgroundControlKeeps ==
  ASSUME Background!LimitsOK, BackgroundIInv,
         (\E t \in Threads : Background!start_background_processor(t)) \/ Background!Stop \/ Background!Joined
  PROVE  BackgroundIInv'
  <1>1. UNCHANGED Background!lvars /\ \A t \in Threads : threads'[t] = "retention" => threads[t] = "retention"
    BY DEF Background!start_background_processor, Background!Stop, Background!Joined, BackgroundIInv, Background!TypeOK
  <1>2. BackgroundLedgers' /\ BackgroundPruneIsSafe'
    BY <1>1, BackgroundLedgerQuiet
  <1>3. Background!TypeOK' /\ BackgroundOnRecord' /\ Background!FaultKeepsLoop'
    <2>1. ASSUME NEW t \in Threads, Background!start_background_processor(t)
          PROVE  Background!TypeOK' /\ BackgroundOnRecord' /\ Background!FaultKeepsLoop'
      <3>1. Background!TypeOK'
        BY <2>1 DEF Background!start_background_processor, BackgroundIInv, Background!TypeOK, Background!Passes, Background!lvars
      <3>2. BackgroundOnRecord'
        BY <2>1 DEF Background!LimitsOK, Background!start_background_processor, BackgroundIInv, Background!TypeOK, BackgroundOnRecord, Background!Alive
      <3>3. Background!FaultKeepsLoop'
        BY <2>1 DEF Background!start_background_processor, BackgroundIInv, Background!TypeOK, Background!FaultKeepsLoop, Background!Alive
      <3> QED BY <3>1, <3>2, <3>3
    <2>2. CASE Background!Stop
      BY <2>2 DEF Background!Stop, BackgroundIInv, Background!TypeOK, BackgroundOnRecord, Background!FaultKeepsLoop, Background!Alive, Background!lvars
    <2>3. CASE Background!Joined
      BY <2>3 DEF Background!LimitsOK, Background!Joined, BackgroundIInv, Background!TypeOK, BackgroundOnRecord, Background!FaultKeepsLoop, Background!Alive, Background!lvars
    <2> QED BY <2>1, <2>2, <2>3
  <1> QED BY <1>2, <1>3 DEF BackgroundIInv, BackgroundLedgers

\* A thread goes from one pass to another.
LEMMA BackgroundPassTo ==
  ASSUME BackgroundIInv, NEW t \in Threads, NEW pass \in Background!Passes, Background!Alive(t),
         threads' = [threads EXCEPT ![t] = pass],
         UNCHANGED <<handle, event, signalled, timedOut>>
  PROVE  /\ threads' \in [Threads -> Background!Passes \cup {"dead"}] /\ BackgroundOnRecord' /\ Background!FaultKeepsLoop'
         /\ \A u \in Threads : threads'[u] = "retention" => pass = "retention" \/ threads[u] = "retention"
  <1>1. \A u \in Threads : Background!Alive(u)' <=> Background!Alive(u)
    BY DEF BackgroundIInv, Background!TypeOK, Background!Alive, Background!Passes
  <1>2. threads' \in [Threads -> Background!Passes \cup {"dead"}]
    BY DEF BackgroundIInv, Background!TypeOK
  <1>3. handle \in Threads \cup {Background!NoThread}
    BY DEF BackgroundIInv, Background!TypeOK
  <1>4. BackgroundOnRecord'
    BY <1>1 DEF BackgroundIInv, BackgroundOnRecord
  <1>5. Background!FaultKeepsLoop'
    BY <1>1, <1>3 DEF BackgroundIInv, Background!FaultKeepsLoop
  <1>6. \A u \in Threads : threads'[u] = "retention" => pass = "retention" \/ threads[u] = "retention"
    BY DEF BackgroundIInv, Background!TypeOK
  <1> QED BY <1>2, <1>4, <1>5, <1>6

\* A loop goes on or dies by the manager's event, its own or a later one's.
LEMMA BackgroundCheckKeeps ==
  ASSUME Background!LimitsOK, BackgroundIInv, NEW t \in Threads, Background!Check(t)
  PROVE  BackgroundIInv'
  <1>1. /\ threads[t] \in {"check", "wait"} /\ Background!Alive(t)
        /\ UNCHANGED <<handle, event, signalled, timedOut, Background!lvars>>
    BY DEF Background!Check, Background!Alive
  <1>2. CASE event = Background!NoThread \/ event \in signalled
    <2>1. threads' = [threads EXCEPT ![t] = "dead"]
      BY <1>2 DEF Background!Check
    <2>2. threads' \in [Threads -> Background!Passes \cup {"dead"}]
          /\ \A u \in Threads : threads'[u] = "retention" => threads[u] = "retention"
      BY <2>1 DEF BackgroundIInv, Background!TypeOK
    <2>3. BackgroundLedgers' /\ BackgroundPruneIsSafe'
      BY <1>1, <2>2, BackgroundLedgerQuiet
    <2>4. BackgroundOnRecord'
      BY <1>1, <2>1 DEF BackgroundIInv, Background!TypeOK, BackgroundOnRecord, Background!Alive
    <2>5. Background!FaultKeepsLoop'
      BY <1>1, <1>2, <2>1 DEF BackgroundIInv, Background!TypeOK, BackgroundOnRecord, Background!FaultKeepsLoop, Background!Alive
    <2>6. Background!TypeOK'
      BY <1>1, <2>2 DEF BackgroundIInv, Background!TypeOK, Background!lvars
    <2> QED BY <2>3, <2>4, <2>5, <2>6 DEF BackgroundIInv, BackgroundLedgers
  <1>3. CASE ~(event = Background!NoThread \/ event \in signalled)
    <2>1. PICK pass \in {"check", "pipeline"} : threads' = [threads EXCEPT ![t] = pass]
      BY <1>3 DEF Background!Check, BackgroundIInv, Background!TypeOK
    <2>2. /\ threads' \in [Threads -> Background!Passes \cup {"dead"}] /\ BackgroundOnRecord' /\ Background!FaultKeepsLoop'
          /\ \A u \in Threads : threads'[u] = "retention" => threads[u] = "retention"
      BY <1>1, <2>1, BackgroundPassTo DEF Background!Passes
    <2>3. BackgroundLedgers' /\ BackgroundPruneIsSafe'
      BY <1>1, <2>2, BackgroundLedgerQuiet
    <2>4. Background!TypeOK'
      BY <1>1, <2>2 DEF BackgroundIInv, Background!TypeOK, Background!lvars
    <2> QED BY <2>2, <2>3, <2>4 DEF BackgroundIInv, BackgroundLedgers
  <1> QED BY <1>2, <1>3

\* A pass goes on to the next step, and a failing one does not end the loop.
LEMMA BackgroundPassKeeps ==
  ASSUME Background!LimitsOK, BackgroundIInv, NEW t \in Threads, Background!Pass(t) \/ Background!Fault(t)
  PROVE  BackgroundIInv'
  <1>1. /\ threads[t] \in {"pipeline", "reclaim", "heal", "cleanup"} /\ Background!Alive(t)
        /\ UNCHANGED <<handle, event, signalled, timedOut, Background!lvars>>
    BY DEF Background!Pass, Background!Fault, Background!Alive
  <1>2. PICK pass \in Background!Passes \ {"retention"} : threads' = [threads EXCEPT ![t] = pass]
    <2>1. Background!After[threads[t]] \in Background!Passes \ {"retention"}
      BY <1>1 DEF Background!After, Background!Passes
    <2>2. Background!AfterFault(threads[t]) \in Background!Passes \ {"retention"}
      BY <1>1 DEF Background!AfterFault, Background!Passes
    <2> QED BY <2>1, <2>2 DEF Background!Pass, Background!Fault, Background!GoOn
  <1>3. /\ threads' \in [Threads -> Background!Passes \cup {"dead"}] /\ BackgroundOnRecord' /\ Background!FaultKeepsLoop'
        /\ \A u \in Threads : threads'[u] = "retention" => threads[u] = "retention"
    BY <1>1, <1>2, BackgroundPassTo
  <1>4. BackgroundLedgers' /\ BackgroundPruneIsSafe'
    BY <1>1, <1>3, BackgroundLedgerQuiet
  <1>5. Background!TypeOK'
    BY <1>1, <1>3 DEF BackgroundIInv, Background!TypeOK, Background!lvars
  <1> QED BY <1>3, <1>4, <1>5 DEF BackgroundIInv, BackgroundLedgers

\* The threads stay as they are.
LEMMA BackgroundThreadsQuiet ==
  ASSUME BackgroundIInv, UNCHANGED Background!tvars
  PROVE  BackgroundOnRecord' /\ Background!FaultKeepsLoop' /\ threads' = threads
  BY DEF BackgroundIInv, Background!tvars, BackgroundOnRecord, Background!FaultKeepsLoop, Background!Alive

\* As hours pass, what is older than the look-back stays accounted for.
LEMMA BackgroundTickKeeps ==
  ASSUME Background!LimitsOK, BackgroundIInv, Background!Tick
  PROVE  BackgroundIInv'
  <1>1. /\ hour' = hour + 1 /\ hour \in 1..MaxHour /\ hour < MaxHour
        /\ \A t \in Threads : threads[t] # "retention"
        /\ UNCHANGED <<Background!tvars, rolledAt, prunedAt, verb, raw, hourly, tardy, skipped, lost>>
    BY DEF Background!Tick, BackgroundIInv, Background!TypeOK
  <1>2. BackgroundOnRecord' /\ Background!FaultKeepsLoop' /\ threads' = threads
    BY <1>1, BackgroundThreadsQuiet
  <1>3. Background!TypeOK'
    BY <1>1 DEF BackgroundIInv, Background!TypeOK, Background!LimitsOK, Background!tvars
  <1>4. rolledAt \in Nat /\ rolledAt <= hour /\ MaxHour \in Nat
    BY DEF BackgroundIInv, Background!TypeOK, BackgroundInOrder, Background!LimitsOK
  <1>5. BackgroundInOrder'
    <2>1. \A h \in 1..MaxHour : hourly[h] # {} => h < hour + 1
      BY <1>1, <1>4 DEF BackgroundIInv, BackgroundInOrder
    <2> QED BY <1>1, <1>4, <2>1 DEF BackgroundIInv, BackgroundInOrder
  <1>6. BackgroundPruneIsSafe'
    BY <1>1, <1>2, <1>4 DEF BackgroundPruneIsSafe
  <1>7. Background!RolledHourIsComplete' /\ Background!LossIsExplained'
    BY <1>1 DEF BackgroundIInv, Background!RolledHourIsComplete, Background!LossIsExplained, Background!last_rolled_hour, Background!Counted
  <1> QED BY <1>2, <1>3, <1>5, <1>6, <1>7 DEF BackgroundIInv

\* A call takes its hour when it is made, before it is written.
LEMMA BackgroundStampKeeps ==
  ASSUME Background!LimitsOK, BackgroundIInv, NEW v \in Verbs, Background!Stamp(v)
  PROVE  BackgroundIInv'
  <1>1. /\ verb' = [verb EXCEPT ![v] = hour] /\ v \notin raw
        /\ UNCHANGED <<Background!tvars, hour, rolledAt, prunedAt, raw, hourly, tardy, skipped, lost>>
    BY DEF Background!Stamp, BackgroundIInv, BackgroundInOrder
  <1>2. BackgroundOnRecord' /\ Background!FaultKeepsLoop' /\ threads' = threads
    BY <1>1, BackgroundThreadsQuiet
  <1>3. Background!TypeOK'
    BY <1>1 DEF BackgroundIInv, Background!TypeOK, Background!tvars, Background!LimitsOK
  <1>4. \A w \in raw : verb'[w] = verb[w]
    BY <1>1 DEF BackgroundIInv, Background!TypeOK
  <1>5. BackgroundInOrder'
    BY <1>1, <1>4 DEF BackgroundIInv, BackgroundInOrder
  <1>6. BackgroundPruneIsSafe'
    BY <1>1, <1>2, <1>4 DEF BackgroundIInv, BackgroundPruneIsSafe, Background!Expired, BackgroundKnown, Background!Counted
  <1>7. Background!RolledHourIsComplete' /\ Background!LossIsExplained'
    BY <1>1, <1>4 DEF BackgroundIInv, Background!RolledHourIsComplete, Background!LossIsExplained, Background!last_rolled_hour, Background!Counted
  <1> QED BY <1>2, <1>3, <1>5, <1>6, <1>7 DEF BackgroundIInv

\* A call is written under the hour it was stamped with, late or not.
LEMMA BackgroundCommitKeeps ==
  ASSUME Background!LimitsOK, BackgroundIInv, NEW v \in Verbs, Background!Commit(v)
  PROVE  BackgroundIInv'
  <1>1. /\ verb[v] # Background!NoStamp /\ hour <= verb[v] + 1 /\ raw' = raw \cup {v}
        /\ tardy' = IF verb[v] < hour THEN tardy \cup {v} ELSE tardy
        /\ UNCHANGED <<Background!tvars, hour, rolledAt, prunedAt, verb, hourly, skipped, lost>>
    BY DEF Background!Commit
  <1>2. BackgroundOnRecord' /\ Background!FaultKeepsLoop' /\ threads' = threads
    BY <1>1, BackgroundThreadsQuiet
  <1>3. Background!TypeOK'
    BY <1>1 DEF BackgroundIInv, Background!TypeOK, Background!tvars
  <1>4. /\ verb[v] \in Nat /\ hour \in Nat /\ TTL \in Nat /\ TTL > 0
        /\ Background!last_rolled_hour \in Nat /\ Background!last_rolled_hour < hour
    BY BackgroundLastRolled DEF BackgroundIInv, Background!TypeOK, Background!LimitsOK
  <1>5. BackgroundInOrder'
    BY <1>1 DEF BackgroundIInv, BackgroundInOrder
  <1>6. ~Background!Expired(v)
    BY <1>1, <1>4 DEF Background!Expired
  <1>7. BackgroundPruneIsSafe'
    BY <1>1, <1>2, <1>6 DEF BackgroundIInv, BackgroundPruneIsSafe, Background!Expired, BackgroundKnown, Background!Counted
  <1>8. Background!RolledHourIsComplete'
    <2>1. verb[v] <= Background!last_rolled_hour => v \in tardy'
      BY <1>1, <1>4
    <2>2. tardy \subseteq tardy' /\ Background!Counted' = Background!Counted /\ Background!last_rolled_hour' = Background!last_rolled_hour
      BY <1>1 DEF Background!Counted, Background!last_rolled_hour
    <2> QED BY <1>1, <2>1, <2>2 DEF BackgroundIInv, Background!RolledHourIsComplete
  <1>9. Background!LossIsExplained'
    BY <1>1 DEF BackgroundIInv, Background!LossIsExplained
  <1> QED BY <1>2, <1>3, <1>5, <1>7, <1>8, <1>9 DEF BackgroundIInv

\* A rollup that runs counts what no hour had and passes over what is too old.
LEMMA BackgroundRollupRuns ==
  ASSUME Background!LimitsOK, BackgroundIInv, NEW upTo \in 0..(hour - 1), rolledAt' = hour,
         hourly' = [h \in 1..MaxHour |-> IF h \in Background!FirstToRoll..upTo
                                         THEN {v \in raw : verb[v] = h} ELSE hourly[h]],
         skipped' = skipped \cup {v \in raw \ (Background!Counted \cup tardy) : verb[v] < Background!FirstToRoll},
         UNCHANGED <<hour, prunedAt, verb, raw, tardy, lost>>
  PROVE  /\ hourly' \in [1..MaxHour -> SUBSET Verbs]
         /\ BackgroundInOrder' /\ Background!RolledHourIsComplete' /\ Background!LossIsExplained'
         /\ \A v \in raw : Background!Expired(v) => v \in BackgroundKnown'
  <1>1. /\ hour \in 1..MaxHour /\ MaxHour \in Nat /\ upTo \in Nat /\ upTo < hour /\ upTo <= MaxHour
        /\ Background!FirstToRoll \in Nat /\ Background!FirstToRoll > Background!last_rolled_hour /\ Background!FirstToRoll > 0
        /\ Background!last_rolled_hour \in Nat /\ Background!last_rolled_hour < hour
        /\ CatchUp \in Nat /\ TTL \in Nat /\ CatchUp < TTL /\ Background!FirstToRoll >= hour - 1 - CatchUp
    BY BackgroundFirstIsAfter, BackgroundLastRolled DEF BackgroundIInv, Background!TypeOK, Background!LimitsOK
  <1>2. \A v \in raw : verb[v] \in Nat /\ verb[v] \in 0..MaxHour
    BY <1>1 DEF BackgroundIInv, Background!TypeOK
  <1>3. hourly' \in [1..MaxHour -> SUBSET Verbs]
    BY DEF BackgroundIInv, Background!TypeOK
  <1> DEFINE F == Background!FirstToRoll
             L == Background!last_rolled_hour
  <1>4. \A h \in 1..MaxHour : hourly[h] # {} => h <= L
    BY BackgroundLastRolled DEF BackgroundIInv
  <1>5. \A h \in 1..MaxHour : hourly'[h] = IF h \in F..upTo THEN {v \in raw : verb[v] = h} ELSE hourly[h]
    OBVIOUS
  <1> HIDE DEF F, L
  <1>6. /\ F \in Nat /\ L \in Nat /\ F > L /\ F > 0 /\ L < hour /\ F >= hour - 1 - CatchUp
    BY <1>1 DEF F, L
  <1>7. BackgroundInOrder'
    <2>1. \A h \in 1..MaxHour : hourly'[h] # {} => h < hour
      BY <1>1, <1>4, <1>5, <1>6 DEF BackgroundIInv, BackgroundInOrder
    <2> QED BY <1>1, <2>1 DEF BackgroundIInv, BackgroundInOrder
  <1>8. Background!Counted \subseteq Background!Counted'
    <2>1. ASSUME NEW h \in 1..MaxHour, hourly[h] # {}
          PROVE  hourly'[h] = hourly[h]
      <3>1. h <= L /\ h \in Nat
        BY <1>1, <1>4, <2>1
      <3>2. h \notin F..upTo
        BY <1>1, <1>6, <3>1
      <3> QED BY <1>5, <3>2
    <2> QED BY <2>1 DEF Background!Counted
  <1>9. \A v \in raw : F <= verb[v] /\ verb[v] <= upTo => v \in Background!Counted'
    <2>1. ASSUME NEW v \in raw, F <= verb[v], verb[v] <= upTo
          PROVE  v \in Background!Counted'
      <3>1. verb[v] \in 1..MaxHour /\ verb[v] \in F..upTo
        BY <1>1, <1>2, <1>6, <2>1
      <3>2. v \in hourly'[verb[v]]
        BY <1>5, <3>1
      <3> QED BY <3>1, <3>2 DEF Background!Counted
    <2> QED BY <2>1
  <1>10. \A v \in raw : verb[v] < F => v \in BackgroundKnown'
    BY <1>8 DEF BackgroundKnown, F
  <1> DEFINE M == Background!last_rolled_hour'
  <1>11. M \in Nat /\ (M <= upTo \/ M <= L)
    <2> DEFINE S == {h \in 1..MaxHour : hourly'[h] # {}} \cup {0}
    <2>1. S \in SUBSET (0..MaxHour) /\ S # {}
      BY <1>1
    <2>2. Background!Max(S) \in S
      BY <1>1, <2>1, BackgroundMaxIsIn
    <2>3. M = Background!Max(S)
      BY DEF Background!last_rolled_hour
    <2>4. \A h \in S : h \in Nat /\ (h <= upTo \/ h <= L)
      <3>1. ASSUME NEW h \in 1..MaxHour, hourly'[h] # {}
            PROVE  h <= upTo \/ h <= L
        <4>1. CASE h \in F..upTo
          BY <1>1, <1>6, <4>1
        <4>2. CASE h \notin F..upTo
          BY <1>4, <1>5, <3>1, <4>2
        <4> QED BY <4>1, <4>2
      <3>2. 0 <= upTo
        BY <1>1
      <3> QED BY <1>1, <3>1, <3>2
    <2> QED BY <2>2, <2>3, <2>4
  <1> HIDE DEF M
  <1>12. \A v \in raw : verb[v] <= M => v \in BackgroundKnown'
    BY <1>1, <1>2, <1>6, <1>9, <1>10, <1>11 DEF BackgroundKnown
  <1>13. Background!RolledHourIsComplete'
    BY <1>12 DEF Background!RolledHourIsComplete, BackgroundKnown, M
  <1>14. Background!LossIsExplained'
    BY DEF BackgroundIInv, Background!LossIsExplained
  <1>15. \A v \in raw : Background!Expired(v) => v \in BackgroundKnown'
    BY <1>1, <1>2, <1>6, <1>10 DEF Background!Expired
  <1> QED BY <1>3, <1>7, <1>13, <1>14, <1>15

\* A roll-up counts the calls of every whole hour it passes.
LEMMA BackgroundRollupKeeps ==
  ASSUME Background!LimitsOK, BackgroundIInv, NEW t \in Threads, NEW upTo \in 0..MaxHour, Background!RollupTick(t, upTo)
  PROVE  BackgroundIInv'
  <1>1. /\ threads[t] = "rollup" /\ Background!Alive(t) /\ threads' = [threads EXCEPT ![t] = "retention"]
        /\ UNCHANGED <<handle, event, signalled, timedOut, hour, prunedAt, verb, raw, tardy, lost>>
    BY DEF Background!RollupTick, Background!GoOn, Background!After, Background!Alive
  <1>2. threads' \in [Threads -> Background!Passes \cup {"dead"}] /\ BackgroundOnRecord' /\ Background!FaultKeepsLoop'
    BY <1>1, BackgroundPassTo DEF Background!Passes
  <1>3. CASE rolledAt > 0 /\ hour = rolledAt
    <2>1. UNCHANGED Background!lvars
      BY <1>1, <1>3 DEF Background!RollupTick, Background!lvars
    <2>2. Background!TypeOK'
      BY <1>1, <1>2, <2>1 DEF BackgroundIInv, Background!TypeOK, Background!lvars
    <2>3. BackgroundLedgers'
      BY <2>1 DEF BackgroundIInv, BackgroundLedgers, Background!lvars, BackgroundInOrder, Background!RolledHourIsComplete, Background!LossIsExplained, Background!Counted,
                  Background!last_rolled_hour
    <2>4. BackgroundPruneIsSafe'
      BY <1>3, <2>1 DEF BackgroundIInv, Background!lvars, BackgroundPruneIsSafe, BackgroundKnown, Background!Counted, Background!Expired
    <2> QED BY <1>2, <2>2, <2>3, <2>4 DEF BackgroundIInv, BackgroundLedgers
  <1>4. CASE ~(rolledAt > 0 /\ hour = rolledAt)
    <2>1. /\ upTo <= Background!LastToRoll /\ rolledAt' = hour
          /\ hourly' = [h \in 1..MaxHour |-> IF h \in Background!FirstToRoll..upTo
                                             THEN {v \in raw : verb[v] = h} ELSE hourly[h]]
          /\ skipped' = skipped \cup {v \in raw \ (Background!Counted \cup tardy) : verb[v] < Background!FirstToRoll}
      BY <1>4 DEF Background!RollupTick
    <2>2. upTo \in 0..(hour - 1)
      BY <2>1 DEF BackgroundIInv, Background!TypeOK, Background!LimitsOK, Background!LastToRoll
    <2>3. /\ hourly' \in [1..MaxHour -> SUBSET Verbs]
          /\ BackgroundInOrder' /\ Background!RolledHourIsComplete' /\ Background!LossIsExplained'
          /\ \A v \in raw : Background!Expired(v) => v \in BackgroundKnown'
      BY <1>1, <2>1, <2>2, BackgroundRollupRuns
    <2>4. Background!TypeOK'
      BY <1>1, <1>2, <2>1, <2>3 DEF BackgroundIInv, Background!TypeOK, Background!LimitsOK
    <2>5. BackgroundPruneIsSafe'
      BY <1>1, <2>1, <2>3 DEF BackgroundPruneIsSafe, Background!Expired
    <2> QED BY <1>2, <2>3, <2>4, <2>5 DEF BackgroundIInv
  <1> QED BY <1>3, <1>4

\* Retention prunes expired rows, and what it prunes uncounted is on record.
LEMMA BackgroundRetentionKeeps ==
  ASSUME Background!LimitsOK, BackgroundIInv, NEW t \in Threads, Background!RetentionTick(t)
  PROVE  BackgroundIInv'
  <1>1. /\ threads[t] = "retention" /\ Background!Alive(t) /\ threads' = [threads EXCEPT ![t] = "wait"]
        /\ UNCHANGED <<handle, event, signalled, timedOut, hour, rolledAt, verb, hourly, tardy, skipped>>
    BY DEF Background!RetentionTick, Background!GoOn, Background!After, Background!Alive
  <1>2. /\ threads' \in [Threads -> Background!Passes \cup {"dead"}] /\ BackgroundOnRecord' /\ Background!FaultKeepsLoop'
        /\ \A u \in Threads : threads'[u] = "retention" => threads[u] = "retention"
    BY <1>1, BackgroundPassTo DEF Background!Passes
  <1>3. CASE prunedAt = hour
    <2>1. UNCHANGED Background!lvars
      BY <1>1, <1>3 DEF Background!RetentionTick, Background!lvars
    <2>2. Background!TypeOK'
      BY <1>1, <1>2, <2>1 DEF BackgroundIInv, Background!TypeOK, Background!lvars
    <2> QED BY <1>2, <2>1, <2>2, BackgroundLedgerQuiet DEF BackgroundIInv, BackgroundLedgers
  <1>4. CASE prunedAt # hour
    <2> DEFINE gone == {v \in raw : Background!Expired(v)}
    <2>1. prunedAt' = hour /\ raw' = raw \ gone /\ lost' = lost \cup (gone \ Background!Counted)
      BY <1>4 DEF Background!RetentionTick
    <2>2. rolledAt = hour
      BY <1>1 DEF BackgroundIInv, BackgroundPruneIsSafe
    <2>3. \A v \in gone : v \in BackgroundKnown
      BY <2>2 DEF BackgroundIInv, BackgroundPruneIsSafe
    <2>4. UNCHANGED <<BackgroundKnown, Background!Counted, Background!last_rolled_hour>>
      BY <1>1 DEF BackgroundKnown, Background!Counted, Background!last_rolled_hour
    <2> HIDE DEF gone
    <2>5. raw' \subseteq raw
      BY <2>1
    <2>6. Background!TypeOK'
      BY <1>1, <1>2, <2>1, <2>5 DEF BackgroundIInv, Background!TypeOK
    <2>7. Background!LossIsExplained'
      BY <1>1, <2>1, <2>3 DEF BackgroundIInv, Background!LossIsExplained, BackgroundKnown
    <2>8. Background!RolledHourIsComplete'
      BY <1>1, <2>4, <2>5 DEF BackgroundIInv, Background!RolledHourIsComplete
    <2>9. BackgroundPruneIsSafe'
      BY <1>1, <1>2, <2>4, <2>5 DEF BackgroundIInv, BackgroundPruneIsSafe, Background!Expired
    <2>10. BackgroundInOrder'
      BY <1>1, <2>5 DEF BackgroundIInv, BackgroundInOrder
    <2> QED BY <1>2, <2>6, <2>7, <2>8, <2>9, <2>10 DEF BackgroundIInv
  <1> QED BY <1>3, <1>4

-----------------------------------------------------------------------------

\* No loop runs and no call is on record at the start.
LEMMA BackgroundInitHolds ==
  ASSUME Background!LimitsOK, Background!Init
  PROVE  BackgroundIInv
  <1>1. Background!TypeOK
    <2>1. /\ handle \in Threads \cup {Background!NoThread} /\ event \in Threads \cup {Background!NoThread}
          /\ signalled \subseteq Threads /\ timedOut \in BOOLEAN
          /\ threads \in [Threads -> Background!Passes \cup {"dead"}]
      BY DEF Background!Init
    <2>2. hour \in 1..MaxHour /\ rolledAt \in 0..MaxHour /\ prunedAt \in 0..MaxHour
      BY DEF Background!Init, Background!LimitsOK
    <2>3. verb \in [Verbs -> 0..MaxHour] /\ raw \subseteq Verbs
      BY DEF Background!Init, Background!LimitsOK, Background!NoStamp
    <2>4. hourly \in [1..MaxHour -> SUBSET Verbs]
      BY DEF Background!Init
    <2> QED BY <2>1, <2>2, <2>3, <2>4 DEF Background!TypeOK
  <1>2. BackgroundOnRecord /\ Background!FaultKeepsLoop
    BY DEF Background!Init, BackgroundOnRecord, Background!FaultKeepsLoop, Background!Alive
  <1>3. BackgroundInOrder
    BY DEF Background!Init, BackgroundInOrder
  <1>4. BackgroundPruneIsSafe /\ Background!RolledHourIsComplete /\ Background!LossIsExplained
    BY DEF Background!Init, BackgroundPruneIsSafe, Background!RolledHourIsComplete, Background!LossIsExplained
  <1> QED BY <1>1, <1>2, <1>3, <1>4 DEF BackgroundIInv

\* Every step of the loop and of its callers keeps the invariant.
LEMMA BackgroundStepKeeps ==
  ASSUME Background!LimitsOK, BackgroundIInv, [Background!Next]_Background!pvars
  PROVE  BackgroundIInv'
  <1>1. CASE Background!Control
    BY <1>1, BackgroundControlKeeps DEF Background!Control
  <1>2. CASE Background!Ledger
    BY <1>2, BackgroundTickKeeps, BackgroundStampKeeps, BackgroundCommitKeeps DEF Background!Ledger
  <1>3. ASSUME NEW t \in Threads, Background!LoopStep(t) \/ Background!Fault(t)
        PROVE  BackgroundIInv'
    BY <1>3, BackgroundCheckKeeps, BackgroundPassKeeps, BackgroundRollupKeeps, BackgroundRetentionKeeps DEF Background!LoopStep
  <1>4. CASE UNCHANGED Background!pvars
    <2>1. UNCHANGED Background!lvars /\ UNCHANGED Background!tvars
      BY <1>4 DEF Background!pvars
    <2>2. BackgroundLedgers' /\ BackgroundPruneIsSafe'
      BY <2>1, BackgroundLedgerQuiet DEF Background!tvars
    <2>3. BackgroundOnRecord' /\ Background!FaultKeepsLoop'
      BY <2>1, BackgroundThreadsQuiet
    <2>4. Background!TypeOK'
      BY <2>1 DEF BackgroundIInv, Background!TypeOK, Background!tvars, Background!lvars
    <2> QED BY <2>2, <2>3, <2>4 DEF BackgroundIInv, BackgroundLedgers
  <1> QED BY <1>1, <1>2, <1>3, <1>4 DEF Background!Next

\* Without a join that gave up the live threads are the one on record, if any.
LEMMA BackgroundOneLoop ==
  ASSUME BackgroundIInv
  PROVE  Background!SecondLoopNeedsTimeout
  <1> SUFFICES ASSUME ~timedOut
               PROVE  ~(Background!Cardinality({t \in Threads : Background!Alive(t)}) > 1)
    BY DEF BackgroundIInv, Background!TypeOK, Background!SecondLoopNeedsTimeout
  <1> DEFINE A == {t \in Threads : Background!Alive(t)}
  <1>1. A \subseteq {handle}
    BY DEF BackgroundIInv, BackgroundOnRecord
  <1>2. A = {} \/ A = {handle}
    BY <1>1
  <1>3. Background!Cardinality({}) = 0 /\ Background!Cardinality({handle}) = 1
    BY FS_EmptySet, FS_Singleton DEF Background!Cardinality, Cardinality
  <1> QED BY <1>2, <1>3

\* Faults do not end the background thread, a second one runs only after a join that
\* gave up on the first, and the ledger leaves no call out of its hour unexplained.
THEOREM ProcessorSafety == Background!LimitsOK => (Background!Spec => []Background!ProcessorSafe)
  <1> SUFFICES ASSUME Background!LimitsOK PROVE Background!Spec => []Background!ProcessorSafe
    OBVIOUS
  <1>1. Background!Init => BackgroundIInv
    BY BackgroundInitHolds
  <1>2. BackgroundIInv /\ [Background!Next]_Background!pvars => BackgroundIInv'
    BY BackgroundStepKeeps
  <1>3. BackgroundIInv => Background!ProcessorSafe
    BY BackgroundOneLoop DEF BackgroundIInv, Background!ProcessorSafe
  <1> QED BY <1>1, <1>2, <1>3, PTL DEF Background!Spec

-----------------------------------------------------------------------------
(* Opening the store: any processes, columns, rows and crashes.            *)

\* Between the rebuild of ccr_cache and its reindex.
SchemaWindow == {"a1_schema", "a1_fts"}
\* Past the migration of ccr_cache.
SchemaPastA1 == SchemaWindow \cup {"m3", "m3_fill", "b1", "b1_fill", "a0", "a0_rebuild", "up"}
SchemaSteps == SchemaPastA1 \cup {"off", "schema", "columns", "alter", "c10", "c10_fill", "a1", "a1_rebuild"}
SchemaControl == [pc : SchemaSteps, todo : SUBSET Columns]
SchemaCached == Realms \X Hashes

SchemaOtherTypes ==
  /\ proc \in [Procs -> SchemaControl] /\ ccr \in Seq(SchemaCached)
  /\ edgeShape \in {"old", "new"} /\ ccrShape \in {"hash", "composite"}
  /\ triggers \in BOOLEAN /\ cut \in BOOLEAN

\* Who is past a migration has left its table in the new shape, so nobody
\* writes to a table of the old one: it holds what it held at first.
SchemaMigrated ==
  /\ \A p \in Procs : proc[p].pc \in SchemaPastA1 => ccrShape = "composite"
  /\ \A p \in Procs : proc[p].pc = "up" => edgeShape = "new"
  /\ ccrShape = "hash" => Len(ccr) <= 1
  /\ edgeShape = "old" => \A e \in Edges : edges[e] # "minted"

\* Triggers a rebuild dropped are back before it reindexes.
SchemaTriggersComeBack == ~triggers /\ ~cut => \E p \in Procs : proc[p].pc = "a1_schema"

\* What the index lacks is behind a rebuild that has not reindexed yet.
SchemaLackIsOnRecord == Schema!ToSet(ccr) \subseteq fts \/ cut \/ \E p \in Procs : proc[p].pc \in SchemaWindow

SchemaIInv == Schema!TypeOK /\ SchemaOtherTypes /\ Schema!FlagMeansFilled /\ SchemaMigrated /\ SchemaTriggersComeBack /\ SchemaLackIsOnRecord

-----------------------------------------------------------------------------
(* The rebuild's copy.                                                     *)

\* Among the first Len positions, the k-th one kept exists.
LEMMA SchemaKeptPosition ==
  ASSUME NEW len \in Nat, NEW keep \in SUBSET (1..len), NEW k \in 1..Cardinality(keep)
  PROVE  \E n \in keep : Cardinality({m \in keep : m <= n}) = k
  <1> DEFINE C(n) == {m \in keep : m <= n}
             S == {n \in Nat : k <= Cardinality(C(n))}
  <1>1. IsFiniteSet(keep) /\ Cardinality(keep) \in Nat /\ k \in Nat /\ 1 <= k /\ k <= Cardinality(keep)
    <2>1. IsFiniteSet(1..len)
      BY FS_Interval
    <2>2. IsFiniteSet(keep)
      BY <2>1, FS_Subset
    <2>3. Cardinality(keep) \in Nat
      BY <2>2, FS_CardinalityType
    <2> QED BY <2>2, <2>3
  <1>2. \A n \in Nat : IsFiniteSet(C(n)) /\ Cardinality(C(n)) \in Nat
    <2>1. \A n \in Nat : C(n) \in SUBSET keep
      OBVIOUS
    <2> QED BY <1>1, <2>1, FS_Subset, FS_CardinalityType
  <1>e. \A m \in keep : m \in Nat /\ 1 <= m /\ m <= len
    OBVIOUS
  <1> HIDE DEF C
  <1>3. len \in S
    <2>1. C(len) = keep
      BY <1>e DEF C
    <2> QED BY <1>1, <2>1
  <1>4. PICK n \in S : \A m \in S : ~(<<m, n>> \in OpToRel(<, Nat))
    BY <1>3, NatLessThanWellFounded, WFMin
  <1>5. n \in Nat /\ k <= Cardinality(C(n))
    BY <1>4
  <1>6. n # 0
    <2>1. ASSUME n = 0 PROVE C(n) = {}
      <3>1. \A m \in keep : ~(m <= n)
        BY <1>e, <2>1
      <3> QED BY <3>1 DEF C
    <2> QED BY <1>1, <1>5, <2>1, FS_EmptySet
  <1>7. n - 1 \in Nat /\ n - 1 < n
    BY <1>5, <1>6
  <1>8. Cardinality(C(n - 1)) < k
    <2>1. n - 1 \notin S
      BY <1>4, <1>5, <1>7 DEF OpToRel
    <2>2. Cardinality(C(n - 1)) \in Nat /\ k \in Nat
      BY <1>1, <1>2, <1>7
    <2>3. ~(k <= Cardinality(C(n - 1)))
      BY <1>7, <2>1
    <2> QED BY <2>2, <2>3
  <1>9. n \in keep
    <2>1. ASSUME n \notin keep PROVE C(n) = C(n - 1)
      <3>1. \A m \in keep : m <= n <=> m <= n - 1
        BY <1>e, <1>5, <1>7, <2>1
      <3> QED BY <3>1 DEF C
    <2>2. Cardinality(C(n)) \in Nat /\ k \in Nat
      BY <1>1, <1>2, <1>5
    <2> QED BY <1>5, <1>8, <2>1, <2>2
  <1>10. C(n) = C(n - 1) \cup {n}
    <2>1. \A m \in keep : m <= n <=> m <= n - 1 \/ m = n
      BY <1>e, <1>5, <1>7
    <2>2. n <= n
      BY <1>5
    <2> QED BY <1>9, <2>1, <2>2 DEF C
  <1>11. Cardinality(C(n)) <= Cardinality(C(n - 1)) + 1
    <2> DEFINE D == C(n - 1)
    <2>1. IsFiniteSet(D) /\ Cardinality(D) \in Nat
      BY <1>2, <1>7
    <2> HIDE DEF D
    <2>2. Cardinality(D \cup {n}) = IF n \in D THEN Cardinality(D) ELSE Cardinality(D) + 1
      BY <2>1, FS_AddElement
    <2>3. Cardinality(D \cup {n}) <= Cardinality(D) + 1
      BY <2>1, <2>2
    <2> QED BY <1>10, <2>3 DEF D
  <1>12. Cardinality({m \in keep : m <= n}) = k
    <2>1. Cardinality(C(n)) \in Nat /\ Cardinality(C(n - 1)) \in Nat /\ k \in Nat
      BY <1>1, <1>2, <1>5, <1>7
    <2> QED BY <1>5, <1>8, <1>11, <2>1 DEF C
  <1> QED BY <1>9, <1>12

\* The copy holds rows of the table, each of them where it had one row.
LEMMA SchemaCopyIsOfTheTable ==
  ASSUME NEW s \in Seq(SchemaCached)
  PROVE  /\ Schema!FirstPerHash(s) \in Seq(SchemaCached) /\ Schema!ToSet(Schema!FirstPerHash(s)) \subseteq Schema!ToSet(s)
         /\ Len(s) <= 1 => Len(Schema!FirstPerHash(s)) <= 1 /\ Schema!ToSet(s) \subseteq Schema!ToSet(Schema!FirstPerHash(s))
  <1> DEFINE keep == {n \in 1..Len(s) : \A m \in 1..(n - 1) : s[m][2] # s[n][2]}
             At0(k) == CHOOSE n \in keep : Cardinality({m \in keep : m <= n}) = k
  <1>1. Len(s) \in Nat /\ DOMAIN s = 1..Len(s) /\ \A n \in 1..Len(s) : s[n] \in SchemaCached
    OBVIOUS
  <1>2. Schema!FirstPerHash(s) = [k \in 1..Cardinality(keep) |-> s[At0(k)]]
    BY DEF Schema!FirstPerHash, Schema!Cardinality, Cardinality
  <1>3. keep \in SUBSET (1..Len(s))
    OBVIOUS
  <1>4. IsFiniteSet(keep) /\ Cardinality(keep) \in Nat /\ Cardinality(keep) <= Len(s)
    <2>1. IsFiniteSet(1..Len(s)) /\ Cardinality(1..Len(s)) = Len(s)
      <3>1. 1 \in Int /\ Len(s) \in Int /\ 1 <= Len(s) + 1
        BY <1>1
      <3>2. IsFiniteSet(1..Len(s)) /\ Cardinality(1..Len(s)) = IF 1 > Len(s) THEN 0 ELSE Len(s) - 1 + 1
        BY <3>1, FS_Interval
      <3> QED BY <1>1, <3>2
    <2> QED BY <1>3, <2>1, FS_Subset, FS_CardinalityType
  <1>5. Len(s) = 1 => keep = {1}
    <2>1. ASSUME Len(s) = 1 PROVE 1..Len(s) = {1} /\ 1..(1 - 1) = {}
      BY <2>1
    <2> QED BY <2>1
  <1> HIDE DEF keep
  <1>6. \A k \in 1..Cardinality(keep) : At0(k) \in keep
    BY <1>1, <1>3, SchemaKeptPosition
  <1> HIDE DEF At0
  <1>7. \A k \in 1..Cardinality(keep) : s[At0(k)] \in SchemaCached /\ s[At0(k)] \in Schema!ToSet(s)
    BY <1>1, <1>3, <1>6 DEF Schema!ToSet
  <1>8. /\ Schema!FirstPerHash(s) \in Seq(SchemaCached) /\ Len(Schema!FirstPerHash(s)) = Cardinality(keep)
        /\ DOMAIN Schema!FirstPerHash(s) = 1..Cardinality(keep)
    BY <1>2, <1>4, <1>7
  <1>9. Schema!ToSet(Schema!FirstPerHash(s)) \subseteq Schema!ToSet(s)
    BY <1>2, <1>7, <1>8 DEF Schema!ToSet
  <1>10. ASSUME Len(s) <= 1 PROVE Schema!ToSet(s) \subseteq Schema!ToSet(Schema!FirstPerHash(s))
    <2>1. CASE Len(s) = 0
      BY <1>1, <2>1 DEF Schema!ToSet
    <2>2. CASE Len(s) = 1
      <3>1. Cardinality(keep) = 1
        BY <1>5, <2>2, FS_Singleton
      <3>2. At0(1) = 1 /\ 1 \in 1..Cardinality(keep)
        BY <1>5, <1>6, <2>2, <3>1
      <3>3. Schema!FirstPerHash(s)[1] = s[1] /\ 1 \in DOMAIN Schema!FirstPerHash(s)
        BY <1>2, <1>8, <3>2
      <3>4. Schema!ToSet(s) = {s[1]}
        BY <1>1, <2>2 DEF Schema!ToSet
      <3> QED BY <3>3, <3>4 DEF Schema!ToSet
    <2> QED BY <1>1, <1>10, <2>1, <2>2
  <1> QED BY <1>1, <1>4, <1>8, <1>9, <1>10

-----------------------------------------------------------------------------
(* The steps.                                                              *)

\* A move of one process.
LEMMA SchemaMoved ==
  ASSUME SchemaOtherTypes, NEW p \in Procs, NEW pc \in SchemaSteps, proc' = [proc EXCEPT ![p].pc = pc]
  PROVE  /\ proc' \in [Procs -> SchemaControl] /\ proc'[p].pc = pc
         /\ \A q \in Procs : q # p => proc'[q] = proc[q]
         /\ proc' = [proc EXCEPT ![p] = [proc[p] EXCEPT !.pc = pc]]
  <1>1. proc \in [Procs -> SchemaControl] /\ proc[p] \in SchemaControl
    BY DEF SchemaOtherTypes
  <1>2. [proc[p] EXCEPT !.pc = pc] \in SchemaControl /\ [proc[p] EXCEPT !.pc = pc].pc = pc
    BY <1>1 DEF SchemaControl
  <1>3. proc' = [proc EXCEPT ![p] = [proc[p] EXCEPT !.pc = pc]]
    BY <1>1
  <1> QED BY <1>1, <1>2, <1>3

\* A process that moves outside the window and touches neither table keeps
\* what is said of them, if it passes no table of the old shape.
LEMMA SchemaPassing ==
  ASSUME SchemaIInv, NEW p \in Procs, NEW c \in SchemaControl, proc' = [proc EXCEPT ![p] = c],
         UNCHANGED <<edgeShape, edges, ccrShape, ccr, triggers, fts, cut>>,
         proc[p].pc \notin SchemaWindow, c.pc \notin SchemaWindow,
         c.pc \in SchemaPastA1 => ccrShape = "composite", c.pc = "up" => edgeShape = "new"
  PROVE  (SchemaOtherTypes /\ SchemaMigrated /\ SchemaTriggersComeBack /\ SchemaLackIsOnRecord)'
  <1>1. proc \in [Procs -> SchemaControl]
    BY DEF SchemaIInv, SchemaOtherTypes
  <1>2. proc' \in [Procs -> SchemaControl] /\ proc'[p] = c /\ \A q \in Procs : q # p => proc'[q] = proc[q]
    BY <1>1
  <1>3. \A q \in Procs : proc[q].pc \in SchemaWindow => q # p
    OBVIOUS
  <1>4. SchemaOtherTypes'
    BY <1>2 DEF SchemaIInv, SchemaOtherTypes
  <1>5. SchemaMigrated'
    BY <1>2 DEF SchemaIInv, SchemaMigrated
  <1>6. SchemaTriggersComeBack'
    <2>1. \A q \in Procs : proc[q].pc = "a1_schema" => proc'[q].pc = "a1_schema"
      BY <1>2, <1>3 DEF SchemaWindow
    <2> QED BY <2>1 DEF SchemaIInv, SchemaTriggersComeBack
  <1>7. SchemaLackIsOnRecord'
    <2>1. \A q \in Procs : proc[q].pc \in SchemaWindow => proc'[q].pc \in SchemaWindow
      BY <1>2, <1>3
    <2> QED BY <2>1 DEF SchemaIInv, SchemaLackIsOnRecord
  <1> QED BY <1>4, <1>5, <1>6, <1>7

\* A process that only moves on, or is refused, changes no table.
LEMMA SchemaTypesKept ==
  ASSUME SchemaIInv, UNCHANGED <<cols, flags, unfilled, edges, ccr, fts, writes, crashes>>,
         refused' \subseteq Procs
  PROVE  Schema!TypeOK' /\ Schema!FlagMeansFilled'
  BY DEF SchemaIInv, Schema!TypeOK, Schema!FlagMeansFilled

\* Opening the store starts the bootstrap afresh.
LEMMA SchemaConnectKeeps == ASSUME SchemaIInv, NEW p \in Procs, Schema!Connect(p) PROVE SchemaIInv'
  <1>1. Schema!TypeOK' /\ Schema!FlagMeansFilled'
    <2>1. refused' \subseteq Procs
      BY DEF SchemaIInv, Schema!TypeOK, Schema!Connect
    <2> QED BY <2>1, SchemaTypesKept DEF Schema!Connect, Schema!tables, Schema!index
  <1>2. "schema" \in SchemaSteps /\ "schema" \notin SchemaPastA1 /\ "off" \notin SchemaWindow /\ SchemaOtherTypes
    BY DEF SchemaIInv, SchemaSteps, SchemaPastA1, SchemaWindow
  <1> DEFINE c == [proc[p] EXCEPT !.pc = "schema"]
  <1>3. proc[p] \in SchemaControl /\ c \in SchemaControl /\ c.pc = "schema"
    BY <1>2 DEF SchemaOtherTypes, SchemaControl
  <1>4. proc' = [proc EXCEPT ![p] = c]
    BY <1>2, SchemaMoved DEF Schema!Connect, Schema!At
  <1>5. /\ UNCHANGED <<edgeShape, edges, ccrShape, ccr, triggers, fts, cut>>
        /\ proc[p].pc \notin SchemaWindow
    BY <1>2 DEF Schema!Connect, Schema!tables, Schema!index
  <1> HIDE DEF c
  <1>6. (SchemaOtherTypes /\ SchemaMigrated /\ SchemaTriggersComeBack /\ SchemaLackIsOnRecord)'
    BY <1>2, <1>3, <1>4, <1>5, SchemaPassing DEF SchemaPastA1
  <1> QED BY <1>1, <1>6 DEF SchemaIInv

\* A step of the bootstrap that is not about the two tables.
LEMMA SchemaMoveKeeps ==
  ASSUME SchemaIInv, NEW p \in Procs, NEW pc \in SchemaSteps, Schema!At(p, pc),
         UNCHANGED <<edgeShape, edges, ccrShape, ccr, triggers, fts, cut>>,
         proc[p].pc \notin SchemaWindow, pc \notin SchemaWindow,
         pc \in SchemaPastA1 => ccrShape = "composite", pc = "up" => edgeShape = "new"
  PROVE  (SchemaOtherTypes /\ SchemaMigrated /\ SchemaTriggersComeBack /\ SchemaLackIsOnRecord)'
  <1> DEFINE c == [proc[p] EXCEPT !.pc = pc]
  <1>1. proc[p] \in SchemaControl /\ c \in SchemaControl /\ c.pc = pc
    BY DEF SchemaIInv, SchemaOtherTypes, SchemaControl
  <1>2. proc' = [proc EXCEPT ![p] = c]
    BY SchemaMoved DEF SchemaIInv, Schema!At
  <1> HIDE DEF c
  <1> QED BY <1>1, <1>2, SchemaPassing

\* The schema script brings back the triggers a rebuild dropped.
LEMMA SchemaSchemaKeeps == ASSUME SchemaIInv, NEW p \in Procs, Schema!Schema(p) PROVE SchemaIInv'
  <1>1. Schema!TypeOK' /\ Schema!FlagMeansFilled'
    <2>1. refused' \subseteq Procs
      BY DEF SchemaIInv, Schema!TypeOK, Schema!Schema, Schema!ghosts
    <2> QED BY <2>1, SchemaTypesKept DEF Schema!Schema, Schema!tables, Schema!ghosts
  <1>2. /\ triggers' = TRUE /\ UNCHANGED <<edgeShape, edges, ccrShape, ccr, fts, cut>>
        /\ proc[p].pc \in {"schema", "a1_schema"} /\ Schema!At(p, Schema!After[proc[p].pc])
    BY DEF Schema!Schema, Schema!tables, Schema!ghosts
  <1>3. /\ proc[p].pc = "schema" => Schema!After[proc[p].pc] = "columns"
        /\ proc[p].pc = "a1_schema" => Schema!After[proc[p].pc] = "a1_fts"
    BY DEF Schema!After
  <1> DEFINE pc == Schema!After[proc[p].pc]
  <1>4. pc \in SchemaSteps /\ (pc \in SchemaWindow <=> proc[p].pc \in SchemaWindow) /\ pc # "up"
        /\ (pc \in SchemaPastA1 => proc[p].pc \in SchemaPastA1)
    BY <1>2, <1>3 DEF SchemaSteps, SchemaPastA1, SchemaWindow
  <1> HIDE DEF pc
  <1>5. /\ proc' \in [Procs -> SchemaControl] /\ proc'[p].pc = pc
        /\ \A q \in Procs : q # p => proc'[q] = proc[q]
    BY <1>2, <1>4, SchemaMoved DEF SchemaIInv, Schema!At, pc
  <1>6. SchemaOtherTypes'
    BY <1>2, <1>5 DEF SchemaIInv, SchemaOtherTypes
  <1>7. SchemaMigrated'
    BY <1>2, <1>4, <1>5 DEF SchemaIInv, SchemaMigrated
  <1>8. SchemaTriggersComeBack'
    BY <1>2 DEF SchemaTriggersComeBack
  <1>9. SchemaLackIsOnRecord'
    BY <1>2, <1>4, <1>5 DEF SchemaIInv, SchemaLackIsOnRecord
  <1> QED BY <1>1, <1>6, <1>7, <1>8, <1>9 DEF SchemaIInv

\* A column another opener added first makes its ALTER fail, not the table wrong.
LEMMA SchemaColumnsKeep ==
  ASSUME SchemaIInv, NEW p \in Procs, Schema!LookColumns(p) \/ Schema!AddColumn(p) \/ Schema!ColumnsDone(p)
  PROVE  SchemaIInv'
  <1>0. SchemaOtherTypes /\ proc[p] \in SchemaControl /\ proc \in [Procs -> SchemaControl]
    BY DEF SchemaIInv, SchemaOtherTypes
  <1>s. /\ {"columns", "alter", "off", "c10"} \subseteq SchemaSteps
        /\ \A x \in {"columns", "alter", "off", "c10"} : x \notin SchemaWindow /\ x \notin SchemaPastA1 /\ x # "up"
    BY DEF SchemaSteps, SchemaPastA1, SchemaWindow
  <1>1. CASE Schema!LookColumns(p)
    <2>1. Schema!TypeOK' /\ Schema!FlagMeansFilled'
      <3>1. refused' \subseteq Procs
        BY <1>1 DEF SchemaIInv, Schema!TypeOK, Schema!LookColumns, Schema!ghosts
      <3> QED BY <1>1, <3>1, SchemaTypesKept DEF Schema!LookColumns, Schema!tables, Schema!index, Schema!ghosts
    <2> DEFINE c == [pc |-> "alter", todo |-> Columns \ cols]
    <2>2. c \in SchemaControl /\ c.pc = "alter"
      BY <1>s DEF SchemaControl
    <2>3. /\ proc' = [proc EXCEPT ![p] = c] /\ proc[p].pc = "columns"
          /\ UNCHANGED <<edgeShape, edges, ccrShape, ccr, triggers, fts, cut>>
      BY <1>1 DEF Schema!LookColumns, Schema!tables, Schema!index, Schema!ghosts
    <2> HIDE DEF c
    <2>4. (SchemaOtherTypes /\ SchemaMigrated /\ SchemaTriggersComeBack /\ SchemaLackIsOnRecord)'
      BY <1>s, <2>2, <2>3, SchemaPassing
    <2> QED BY <2>1, <2>4 DEF SchemaIInv
  <1>2. CASE Schema!AddColumn(p)
    <2>1. PICK d \in proc[p].todo :
            IF d \in cols
            THEN proc' = [proc EXCEPT ![p] = Schema!Off] /\ refused' = refused \cup {p} /\ UNCHANGED cols
            ELSE /\ cols' = cols \cup {d} /\ UNCHANGED refused
                 /\ proc' = [proc EXCEPT ![p].todo = @ \ {d}]
      BY <1>2 DEF Schema!AddColumn
    <2>2. /\ proc[p].pc = "alter" /\ d \in Columns
          /\ UNCHANGED <<flags, unfilled, edgeShape, edges, ccrShape, ccr, triggers, fts, cut, writes,
                         crashes>>
      BY <1>0, <1>2, <2>1 DEF Schema!AddColumn, Schema!tables, Schema!index, SchemaControl
    <2>3. Schema!TypeOK' /\ Schema!FlagMeansFilled'
      BY <2>1, <2>2 DEF SchemaIInv, Schema!TypeOK, Schema!FlagMeansFilled
    <2>4. PICK c \in SchemaControl : proc' = [proc EXCEPT ![p] = c] /\ c.pc \in {"off", "alter"}
      <3>1. CASE d \in cols
        <4>1. Schema!Off \in SchemaControl /\ Schema!Off.pc = "off"
          BY <1>s DEF Schema!Off, SchemaControl
        <4> QED BY <2>1, <3>1, <4>1
      <3>2. CASE d \notin cols
        <4> DEFINE c == [proc[p] EXCEPT !.todo = @ \ {d}]
        <4>1. c \in SchemaControl /\ c.pc = "alter"
          BY <1>0, <2>2 DEF SchemaControl
        <4>2. proc' = [proc EXCEPT ![p] = c]
          BY <1>0, <2>1, <3>2
        <4> QED BY <4>1, <4>2
      <3> QED BY <3>1, <3>2
    <2>5. c.pc \notin SchemaWindow /\ c.pc \notin SchemaPastA1 /\ c.pc # "up" /\ proc[p].pc \notin SchemaWindow
      BY <1>s, <2>2, <2>4
    <2>6. (SchemaOtherTypes /\ SchemaMigrated /\ SchemaTriggersComeBack /\ SchemaLackIsOnRecord)'
      BY <2>2, <2>4, <2>5, SchemaPassing
    <2> QED BY <2>3, <2>6 DEF SchemaIInv
  <1>3. CASE Schema!ColumnsDone(p)
    <2>1. Schema!TypeOK' /\ Schema!FlagMeansFilled'
      <3>1. refused' \subseteq Procs
        BY <1>3 DEF SchemaIInv, Schema!TypeOK, Schema!ColumnsDone, Schema!ghosts
      <3> QED BY <1>3, <3>1, SchemaTypesKept DEF Schema!ColumnsDone, Schema!tables, Schema!index, Schema!ghosts
    <2>2. /\ Schema!At(p, "c10") /\ proc[p].pc = "alter"
          /\ UNCHANGED <<edgeShape, edges, ccrShape, ccr, triggers, fts, cut>>
      BY <1>3 DEF Schema!ColumnsDone, Schema!tables, Schema!index, Schema!ghosts
    <2>3. (SchemaOtherTypes /\ SchemaMigrated /\ SchemaTriggersComeBack /\ SchemaLackIsOnRecord)'
      BY <1>s, <2>2, SchemaMoveKeeps
    <2> QED BY <2>1, <2>3 DEF SchemaIInv
  <1> QED BY <1>1, <1>2, <1>3

\* A backfill is before the cache's migration and stays there, or is past it.
LEMMA SchemaBackfillKeeps ==
  ASSUME SchemaIInv, NEW p \in Procs, NEW b \in Schema!Backfills, Schema!LookFlag(p, b) \/ Schema!Backfill(p, b)
  PROVE  SchemaIInv'
  <1>1. /\ proc[p].pc \in {b, Schema!FillStep[b]} /\ \E pc \in {Schema!After[b], Schema!FillStep[b]} : Schema!At(p, pc)
        /\ UNCHANGED <<cols, edgeShape, edges, ccrShape, ccr, triggers, fts, cut, refused, writes,
                       crashes>>
        /\ \/ UNCHANGED <<flags, unfilled>>
           \/ flags' = flags \cup {b} /\ unfilled' = [unfilled EXCEPT ![b] = {}]
    BY DEF Schema!LookFlag, Schema!Backfill, Schema!tables, Schema!index, Schema!ghosts
  <1>2. Schema!TypeOK' /\ Schema!FlagMeansFilled'
    BY <1>1 DEF SchemaIInv, Schema!TypeOK, Schema!FlagMeansFilled
  <1>3. PICK pc \in {Schema!After[b], Schema!FillStep[b]} : Schema!At(p, pc)
    BY <1>1
  <1>4. /\ {b, Schema!FillStep[b], Schema!After[b]} \subseteq SchemaSteps \ SchemaWindow /\ Schema!After[b] # "up" /\ Schema!FillStep[b] # "up"
        /\ {Schema!After[b], Schema!FillStep[b]} \cap SchemaPastA1 # {} => {b, Schema!FillStep[b]} \subseteq SchemaPastA1
    BY DEF Schema!Backfills, Schema!FillStep, Schema!After, SchemaSteps, SchemaPastA1, SchemaWindow
  <1>5. proc[p].pc \notin SchemaWindow /\ pc \in SchemaSteps /\ pc \notin SchemaWindow /\ pc # "up"
    BY <1>1, <1>3, <1>4
  <1>6. pc \in SchemaPastA1 => ccrShape = "composite"
    <2>1. pc \in SchemaPastA1 => proc[p].pc \in SchemaPastA1
      BY <1>1, <1>3, <1>4
    <2> QED BY <2>1 DEF SchemaIInv, SchemaMigrated
  <1>7. (SchemaOtherTypes /\ SchemaMigrated /\ SchemaTriggersComeBack /\ SchemaLackIsOnRecord)'
    BY <1>1, <1>3, <1>5, <1>6, SchemaMoveKeeps
  <1> QED BY <1>2, <1>7 DEF SchemaIInv

\* An opener that looks at a table's shape remembers what it saw.
LEMMA SchemaLookShapeKeeps ==
  ASSUME SchemaIInv, NEW p \in Procs, NEW step \in {"a1", "a0"}, Schema!LookShape(p, step)
  PROVE  SchemaIInv'
  <1> DEFINE old == (step = "a1" /\ ccrShape = "hash") \/ (step = "a0" /\ edgeShape = "old")
             pc == IF old THEN Schema!RebuildStep[step] ELSE Schema!After[step]
  <1>1. /\ proc[p].pc = step /\ Schema!At(p, pc)
        /\ UNCHANGED <<cols, flags, unfilled, edgeShape, edges, ccrShape, ccr, triggers, fts, cut,
                       refused, writes, crashes>>
    BY DEF Schema!LookShape, Schema!tables, Schema!index, Schema!ghosts
  <1>2. Schema!TypeOK' /\ Schema!FlagMeansFilled'
    BY <1>1 DEF SchemaIInv, Schema!TypeOK, Schema!FlagMeansFilled
  <1>3. /\ Schema!RebuildStep["a1"] = "a1_rebuild" /\ Schema!RebuildStep["a0"] = "a0_rebuild"
        /\ Schema!After["a1"] = "m3" /\ Schema!After["a0"] = "up"
    BY DEF Schema!RebuildStep, Schema!After
  <1>4. edgeShape \in {"old", "new"} /\ ccrShape \in {"hash", "composite"}
    BY DEF SchemaIInv, SchemaOtherTypes
  <1>5. proc[p].pc \notin SchemaWindow /\ pc \in SchemaSteps /\ pc \notin SchemaWindow
    BY <1>1, <1>3 DEF SchemaSteps, SchemaPastA1, SchemaWindow
  <1>6. pc = "up" => edgeShape = "new"
    BY <1>3, <1>4
  <1>7. pc \in SchemaPastA1 => ccrShape = "composite"
    <2>1. CASE step = "a1"
      <3>1. "a1_rebuild" \notin SchemaPastA1
        BY DEF SchemaPastA1, SchemaWindow
      <3> QED BY <1>3, <1>4, <2>1, <3>1
    <2>2. CASE step = "a0"
      <3>1. "a0" \in SchemaPastA1
        BY DEF SchemaPastA1
      <3> QED BY <1>1, <2>2, <3>1 DEF SchemaIInv, SchemaMigrated
    <2> QED BY <2>1, <2>2
  <1> HIDE DEF pc
  <1>8. (SchemaOtherTypes /\ SchemaMigrated /\ SchemaTriggersComeBack /\ SchemaLackIsOnRecord)'
    BY <1>1, <1>5, <1>6, <1>7, SchemaMoveKeeps
  <1> QED BY <1>2, <1>8 DEF SchemaIInv

\* A rebuild of the cache table keeps its rows, or two openers saw the old shape.
LEMMA SchemaRebuildCcrKeeps == ASSUME SchemaIInv, NEW p \in Procs, Schema!RebuildCcr(p) PROVE SchemaIInv'
  <1>1. /\ proc[p].pc = "a1_rebuild" /\ Schema!At(p, "a1_schema") /\ ccr' = Schema!FirstPerHash(ccr)
        /\ ccrShape' = "composite" /\ triggers' = FALSE
        /\ UNCHANGED <<cols, flags, unfilled, edgeShape, edges, fts, cut, refused, writes, crashes>>
    BY DEF Schema!RebuildCcr
  <1>2. ccr \in Seq(SchemaCached) /\ Schema!ToSet(ccr) \subseteq SchemaCached
    BY DEF SchemaIInv, SchemaOtherTypes, Schema!TypeOK, SchemaCached
  <1>3. ccr' \in Seq(SchemaCached) /\ Schema!ToSet(ccr') \subseteq SchemaCached
    BY <1>1, <1>2, SchemaCopyIsOfTheTable
  <1>4. Schema!TypeOK' /\ Schema!FlagMeansFilled'
    BY <1>1, <1>3 DEF SchemaIInv, Schema!TypeOK, Schema!FlagMeansFilled, SchemaCached
  <1>5. "a1_schema" \in SchemaSteps /\ "a1_schema" \in SchemaWindow
    BY DEF SchemaSteps, SchemaPastA1, SchemaWindow
  <1>6. /\ proc' \in [Procs -> SchemaControl] /\ proc'[p].pc = "a1_schema"
        /\ \A q \in Procs : q # p => proc'[q] = proc[q]
    BY <1>1, <1>5, SchemaMoved DEF SchemaIInv, Schema!At
  <1>7. SchemaOtherTypes'
    BY <1>1, <1>3, <1>6 DEF SchemaIInv, SchemaOtherTypes
  <1>8. SchemaMigrated'
    BY <1>1, <1>6 DEF SchemaIInv, SchemaMigrated
  <1>9. SchemaTriggersComeBack' /\ SchemaLackIsOnRecord'
    BY <1>5, <1>6 DEF SchemaTriggersComeBack, SchemaLackIsOnRecord
  <1> QED BY <1>4, <1>7, <1>8, <1>9 DEF SchemaIInv

\* The rebuilt index covers the cache once its triggers are back.
LEMMA SchemaReindexKeeps == ASSUME SchemaIInv, NEW p \in Procs, Schema!Reindex(p) PROVE SchemaIInv'
  <1>1. /\ proc[p].pc = "a1_fts" /\ Schema!At(p, "m3") /\ fts' = Schema!ToSet(ccr)
        /\ UNCHANGED <<cols, flags, unfilled, edgeShape, edges, ccrShape, ccr, triggers, cut, refused,
                       writes, crashes>>
    BY DEF Schema!Reindex, Schema!tables, Schema!ghosts
  <1>2. Schema!TypeOK' /\ Schema!FlagMeansFilled'
    BY <1>1 DEF SchemaIInv, Schema!TypeOK, Schema!FlagMeansFilled
  <1>3. {"m3", "a1_fts"} \subseteq SchemaPastA1 /\ "m3" \in SchemaSteps
    BY DEF SchemaSteps, SchemaPastA1, SchemaWindow
  <1>4. /\ proc' \in [Procs -> SchemaControl] /\ proc'[p].pc = "m3"
        /\ \A q \in Procs : q # p => proc'[q] = proc[q]
    BY <1>1, <1>3, SchemaMoved DEF SchemaIInv, Schema!At
  <1>5. SchemaOtherTypes'
    BY <1>1, <1>4 DEF SchemaIInv, SchemaOtherTypes
  <1>6. SchemaMigrated'
    BY <1>1, <1>3, <1>4 DEF SchemaIInv, SchemaMigrated
  <1>7. SchemaTriggersComeBack'
    <2>1. \A q \in Procs : proc[q].pc = "a1_schema" => proc'[q].pc = "a1_schema"
      BY <1>1, <1>4
    <2> QED BY <1>1, <2>1 DEF SchemaIInv, SchemaTriggersComeBack
  <1>8. SchemaLackIsOnRecord'
    BY <1>1 DEF SchemaLackIsOnRecord
  <1> QED BY <1>2, <1>5, <1>6, <1>7, <1>8 DEF SchemaIInv

\* A rebuild of the edge table keeps its rows, or two openers saw the old shape.
LEMMA SchemaRebuildEdgesKeeps == ASSUME SchemaIInv, NEW p \in Procs, Schema!RebuildEdges(p) PROVE SchemaIInv'
  <1>1. /\ proc[p].pc = "a0_rebuild" /\ Schema!At(p, "up") /\ edges' = Schema!CopiedEdges(edges)
        /\ edgeShape' = "new"
        /\ UNCHANGED <<cols, flags, unfilled, ccrShape, ccr, triggers, fts, cut, refused, writes, crashes>>
    BY DEF Schema!RebuildEdges, Schema!index
  <1>2. edges' \in [Edges -> {"none", "declared", "minted"}]
    BY <1>1 DEF Schema!CopiedEdges
  <1>3. Schema!TypeOK' /\ Schema!FlagMeansFilled'
    BY <1>1, <1>2 DEF SchemaIInv, Schema!TypeOK, Schema!FlagMeansFilled
  <1>4. {"up", "a0_rebuild"} \subseteq SchemaPastA1 /\ "up" \in SchemaSteps /\ "a0_rebuild" \notin SchemaWindow
    BY DEF SchemaSteps, SchemaPastA1, SchemaWindow
  <1>5. /\ proc' \in [Procs -> SchemaControl] /\ proc'[p].pc = "up"
        /\ \A q \in Procs : q # p => proc'[q] = proc[q]
    BY <1>1, <1>4, SchemaMoved DEF SchemaIInv, Schema!At
  <1>6. SchemaOtherTypes'
    BY <1>1, <1>5 DEF SchemaIInv, SchemaOtherTypes
  <1>7. SchemaMigrated'
    BY <1>1, <1>4, <1>5 DEF SchemaIInv, SchemaMigrated
  <1>8. \A q \in Procs : proc[q].pc \in SchemaWindow => proc'[q].pc \in SchemaWindow
    BY <1>1, <1>4, <1>5
  <1>9. SchemaTriggersComeBack'
    <2>1. \A q \in Procs : proc[q].pc = "a1_schema" => proc'[q].pc = "a1_schema"
      BY <1>1, <1>5
    <2> QED BY <1>1, <2>1 DEF SchemaIInv, SchemaTriggersComeBack
  <1>10. SchemaLackIsOnRecord'
    BY <1>1, <1>8 DEF SchemaIInv, SchemaLackIsOnRecord
  <1> QED BY <1>3, <1>6, <1>7, <1>9, <1>10 DEF SchemaIInv

\* A minted edge is in the table it was minted into.
LEMMA SchemaMintKeeps == ASSUME Schema!LimitsOK, SchemaIInv, NEW p \in Procs, NEW e \in Edges, Schema!Mint(p, e) PROVE SchemaIInv'
  <1>1. /\ proc[p].pc = "up" /\ writes < MaxWrites /\ edges' = [edges EXCEPT ![e] = "minted"]
        /\ writes' = writes + 1
        /\ UNCHANGED <<cols, flags, unfilled, edgeShape, ccrShape, ccr, triggers, fts, proc, cut,
                       refused, crashes>>
    BY DEF Schema!Mint, Schema!index
  <1>2. edges \in [Edges -> {"none", "declared", "minted"}] /\ writes \in 0..MaxWrites
    BY DEF SchemaIInv, Schema!TypeOK
  <1>3. edges' \in [Edges -> {"none", "declared", "minted"}]
    BY <1>1, <1>2
  <1>4. writes' \in 0..MaxWrites
    BY <1>1, <1>2 DEF Schema!LimitsOK
  <1>5. Schema!TypeOK' /\ Schema!FlagMeansFilled'
    BY <1>1, <1>3, <1>4 DEF SchemaIInv, Schema!TypeOK, Schema!FlagMeansFilled
  <1>6. SchemaMigrated'
    <2>1. edgeShape = "new"
      BY <1>1 DEF SchemaIInv, SchemaMigrated
    <2> QED BY <1>1, <2>1 DEF SchemaIInv, SchemaMigrated
  <1> QED BY <1>1, <1>5, <1>6 DEF SchemaIInv, SchemaOtherTypes, SchemaTriggersComeBack, SchemaLackIsOnRecord

\* A cached original is indexed as long as the triggers stand.
LEMMA SchemaStoreKeeps ==
  ASSUME Schema!LimitsOK, SchemaIInv, NEW p \in Procs, NEW q \in Realms, NEW h \in Hashes, Schema!Store(p, q, h)
  PROVE  SchemaIInv'
  <1>1. /\ proc[p].pc = "up" /\ writes < MaxWrites /\ ccr' = Append(ccr, <<q, h>>)
        /\ writes' = writes + 1
        /\ fts' = IF triggers THEN fts \cup {<<q, h>>} ELSE fts
        /\ UNCHANGED <<cols, flags, unfilled, edgeShape, edges, ccrShape, triggers, proc, cut,
                       refused, crashes>>
    BY DEF Schema!Store
  <1>2. ccr \in Seq(SchemaCached) /\ <<q, h>> \in SchemaCached /\ writes \in 0..MaxWrites
    BY DEF SchemaIInv, SchemaOtherTypes, Schema!TypeOK, SchemaCached
  <1>3. ccr' \in Seq(SchemaCached) /\ Schema!ToSet(ccr') = Schema!ToSet(ccr) \cup {<<q, h>>}
    <2>1. /\ Len(ccr') = Len(ccr) + 1 /\ DOMAIN ccr = 1..Len(ccr) /\ DOMAIN ccr' = 1..(Len(ccr) + 1)
          /\ ccr' \in Seq(SchemaCached) /\ Len(ccr) \in Nat
      BY <1>1, <1>2
    <2>2. ccr'[Len(ccr) + 1] = <<q, h>> /\ \A n \in 1..Len(ccr) : ccr'[n] = ccr[n]
      BY <1>1, <1>2
    <2>3. DOMAIN ccr' = DOMAIN ccr \cup {Len(ccr) + 1}
      BY <2>1
    <2>4. \A x : (\E n \in DOMAIN ccr' : x = ccr'[n])
                  <=> x = <<q, h>> \/ \E n \in DOMAIN ccr : x = ccr[n]
      BY <2>1, <2>2, <2>3
    <2> QED BY <2>1, <2>4 DEF Schema!ToSet
  <1>4. writes' \in 0..MaxWrites
    BY <1>1, <1>2 DEF Schema!LimitsOK
  <1>5. Schema!TypeOK' /\ Schema!FlagMeansFilled'
    BY <1>1, <1>2, <1>3, <1>4 DEF SchemaIInv, Schema!TypeOK, Schema!FlagMeansFilled, SchemaCached
  <1>6. SchemaMigrated'
    <2>1. ccrShape = "composite"
      <3>1. "up" \in SchemaPastA1
        BY DEF SchemaPastA1
      <3> QED BY <1>1, <3>1 DEF SchemaIInv, SchemaMigrated
    <2> QED BY <1>1, <2>1 DEF SchemaIInv, SchemaMigrated
  <1>7. SchemaLackIsOnRecord'
    <2>1. CASE triggers
      BY <1>1, <1>3, <2>1 DEF SchemaIInv, SchemaLackIsOnRecord
    <2>2. CASE ~triggers
      <3>1. cut \/ \E r \in Procs : proc[r].pc = "a1_schema"
        BY <2>2 DEF SchemaIInv, SchemaTriggersComeBack
      <3>2. "a1_schema" \in SchemaWindow
        BY DEF SchemaWindow
      <3> QED BY <1>1, <3>1, <3>2 DEF SchemaLackIsOnRecord
    <2> QED BY <2>1, <2>2
  <1> QED BY <1>1, <1>3, <1>5, <1>6, <1>7 DEF SchemaIInv, SchemaOtherTypes, SchemaTriggersComeBack

\* A crash leaves the flags and tables as committed.
LEMMA SchemaCrashKeeps == ASSUME Schema!LimitsOK, SchemaIInv, NEW p \in Procs, Schema!Crash(p) PROVE SchemaIInv'
  <1>1. /\ proc' = [proc EXCEPT ![p] = Schema!Off] /\ crashes < MaxCrashes /\ crashes' = crashes + 1
        /\ cut' = (cut \/ proc[p].pc \in SchemaWindow)
        /\ UNCHANGED <<cols, flags, unfilled, edgeShape, edges, ccrShape, ccr, triggers, fts, refused,
                       writes>>
    BY DEF Schema!Crash, Schema!tables, Schema!index, SchemaWindow
  <1>2. Schema!Off \in SchemaControl /\ Schema!Off.pc = "off" /\ "off" \notin SchemaPastA1 /\ proc \in [Procs -> SchemaControl]
    BY DEF Schema!Off, SchemaControl, SchemaSteps, SchemaPastA1, SchemaWindow, SchemaIInv, SchemaOtherTypes
  <1>3. /\ proc' \in [Procs -> SchemaControl] /\ proc'[p].pc = "off"
        /\ \A q \in Procs : q # p => proc'[q] = proc[q]
    BY <1>1, <1>2
  <1>4. crashes' \in 0..MaxCrashes
    BY <1>1 DEF Schema!LimitsOK, SchemaIInv, Schema!TypeOK
  <1>5. Schema!TypeOK' /\ Schema!FlagMeansFilled'
    BY <1>1, <1>4 DEF SchemaIInv, Schema!TypeOK, Schema!FlagMeansFilled
  <1>6. SchemaOtherTypes'
    BY <1>1, <1>3 DEF SchemaIInv, SchemaOtherTypes
  <1>7. SchemaMigrated'
    BY <1>1, <1>2, <1>3 DEF SchemaIInv, SchemaMigrated
  <1>8. cut' \/ (~cut /\ \A q \in Procs : proc[q].pc \in SchemaWindow => proc'[q] = proc[q])
    BY <1>1, <1>3
  <1>9. SchemaTriggersComeBack'
    BY <1>1, <1>8 DEF SchemaIInv, SchemaTriggersComeBack, SchemaWindow
  <1>10. SchemaLackIsOnRecord'
    BY <1>1, <1>8 DEF SchemaIInv, SchemaLackIsOnRecord
  <1> QED BY <1>5, <1>6, <1>7, <1>9, <1>10 DEF SchemaIInv

-----------------------------------------------------------------------------
\* A fresh or an old store, with nobody opening it, fits.
LEMMA SchemaInitHolds == ASSUME Schema!LimitsOK, Schema!Init PROVE SchemaIInv
  <1>1. Schema!ToSet(ccr) \subseteq SchemaCached /\ ccr \in Seq(SchemaCached) /\ Len(ccr) <= 1
    <2>1. CASE ccr = <<>>
      BY <2>1 DEF Schema!ToSet
    <2>2. CASE \E q \in Realms, h \in Hashes : ccr = <<<<q, h>>>>
      <3>1. PICK q \in Realms, h \in Hashes : ccr = <<<<q, h>>>>
        BY <2>2
      <3>2. <<q, h>> \in SchemaCached
        BY DEF SchemaCached
      <3>3. ccr \in Seq(SchemaCached) /\ Len(ccr) = 1 /\ DOMAIN ccr = {1} /\ ccr[1] = <<q, h>>
        BY <3>1, <3>2
      <3> QED BY <3>2, <3>3 DEF Schema!ToSet
    <2> QED BY <2>1, <2>2 DEF Schema!Init
  <1>2. Schema!Off \in SchemaControl /\ Schema!Off.pc = "off" /\ "off" \notin SchemaPastA1
    BY DEF Schema!Off, SchemaControl, SchemaSteps, SchemaPastA1, SchemaWindow
  <1>3. Schema!TypeOK /\ Schema!FlagMeansFilled
    BY <1>1 DEF Schema!LimitsOK, Schema!Init, Schema!TypeOK, Schema!FlagMeansFilled, SchemaCached
  <1>4. SchemaOtherTypes
    BY <1>1, <1>2 DEF Schema!Init, SchemaOtherTypes
  <1>5. SchemaMigrated
    <2>1. \A p \in Procs : proc[p].pc = "off"
      BY <1>2 DEF Schema!Init
    <2> QED BY <1>1, <1>2, <2>1 DEF Schema!Init, SchemaMigrated, SchemaPastA1
  <1> QED BY <1>3, <1>4, <1>5 DEF Schema!Init, SchemaIInv, SchemaTriggersComeBack, SchemaLackIsOnRecord

\* Every step of the openers and of their writers keeps the invariant.
LEMMA SchemaNextKeeps == ASSUME Schema!LimitsOK, SchemaIInv, [Schema!Next]_Schema!mvars PROVE SchemaIInv'
  <1>1. ASSUME NEW p \in Procs, Schema!Open(p) PROVE SchemaIInv'
    <2>1. CASE \/ \E b \in {"c10", "m3", "b1"} : Schema!LookFlag(p, b) \/ Schema!Backfill(p, b)
      BY <2>1, SchemaBackfillKeeps DEF Schema!Backfills
    <2>2. CASE \E step \in {"a1", "a0"} : Schema!LookShape(p, step)
      BY <2>2, SchemaLookShapeKeeps
    <2> QED BY <1>1, <2>1, <2>2, SchemaConnectKeeps, SchemaSchemaKeeps, SchemaColumnsKeep, SchemaRebuildCcrKeeps,
               SchemaReindexKeeps, SchemaRebuildEdgesKeeps DEF Schema!Open, Schema!MigrateC10, Schema!MigrateM3, Schema!MigrateB1
  <1>2. CASE UNCHANGED Schema!mvars
    BY <1>2 DEF Schema!mvars, SchemaIInv, Schema!TypeOK, SchemaOtherTypes, Schema!FlagMeansFilled, SchemaMigrated, SchemaTriggersComeBack,
                SchemaLackIsOnRecord
  <1> QED BY <1>1, <1>2, SchemaCrashKeeps, SchemaMintKeeps, SchemaStoreKeeps DEF Schema!Next

\* The invariant gives what the migrations promise.
LEMMA SchemaProtects == ASSUME SchemaIInv PROVE Schema!SchemaSafe
  BY DEF SchemaIInv, Schema!SchemaSafe, Schema!IndexCoversCache, SchemaLackIsOnRecord, SchemaWindow

\* No row of either table goes but in a rebuild that somebody overtook.
LEMMA SchemaNothingDropped == ASSUME SchemaIInv, [Schema!Next]_Schema!mvars PROVE Schema!MintedStep /\ Schema!CachedStep
  <1>1. ASSUME NEW p \in Procs, Schema!RebuildEdges(p) PROVE Schema!MintedStep /\ Schema!CachedStep
    <2>1. /\ edges' = Schema!CopiedEdges(edges) /\ UNCHANGED ccr
          /\ overtaken' = overtaken \cup (IF edgeShape = "new" THEN {"edges"} ELSE {})
      BY <1>1 DEF Schema!RebuildEdges
    <2>2. ASSUME NEW e \in Edges, edges[e] # "none", edges'[e] # edges[e]
          PROVE  "edges" \in overtaken'
      <3>1. edges'[e] = "declared" /\ edges[e] \in {"none", "declared", "minted"}
        BY <2>1, <2>2 DEF Schema!CopiedEdges, SchemaIInv, Schema!TypeOK
      <3>2. edges[e] = "minted"
        BY <2>2, <3>1
      <3>3. edgeShape = "new"
        BY <3>2 DEF SchemaIInv, SchemaOtherTypes, SchemaMigrated
      <3> QED BY <2>1, <3>3
    <2> QED BY <2>1, <2>2 DEF Schema!MintedStep, Schema!CachedStep
  <1>2. ASSUME NEW p \in Procs, Schema!RebuildCcr(p) PROVE Schema!MintedStep /\ Schema!CachedStep
    <2>1. /\ ccr' = Schema!FirstPerHash(ccr) /\ UNCHANGED edges
          /\ overtaken' = overtaken \cup (IF ccrShape = "composite" THEN {"ccr"} ELSE {})
      BY <1>2 DEF Schema!RebuildCcr
    <2>2. ccr \in Seq(SchemaCached) /\ (ccrShape # "composite" => Len(ccr) <= 1)
      BY DEF SchemaIInv, SchemaOtherTypes, SchemaMigrated
    <2> QED BY <2>1, <2>2, SchemaCopyIsOfTheTable DEF Schema!MintedStep, Schema!CachedStep
  <1>3. ASSUME NEW p \in Procs, NEW e \in Edges, Schema!Mint(p, e) PROVE Schema!MintedStep /\ Schema!CachedStep
    <2>1. edges[e] = "none" /\ edges' = [edges EXCEPT ![e] = "minted"] /\ UNCHANGED ccr
      BY <1>3 DEF Schema!Mint
    <2>2. edges \in [Edges -> {"none", "declared", "minted"}]
      BY DEF SchemaIInv, Schema!TypeOK
    <2> QED BY <2>1, <2>2 DEF Schema!MintedStep, Schema!CachedStep
  <1>4. ASSUME NEW p \in Procs, NEW q \in Realms, NEW h \in Hashes, Schema!Store(p, q, h)
        PROVE  Schema!MintedStep /\ Schema!CachedStep
    <2>1. ccr' = Append(ccr, <<q, h>>) /\ UNCHANGED edges /\ ccr \in Seq(SchemaCached) /\ <<q, h>> \in SchemaCached
      BY <1>4 DEF Schema!Store, SchemaIInv, SchemaOtherTypes, SchemaCached
    <2>2. DOMAIN ccr \subseteq DOMAIN ccr' /\ \A n \in DOMAIN ccr : ccr'[n] = ccr[n]
      BY <2>1
    <2> QED BY <2>1, <2>2 DEF Schema!MintedStep, Schema!CachedStep, Schema!ToSet
  <1>5. ASSUME UNCHANGED <<edges, ccr>> PROVE Schema!MintedStep /\ Schema!CachedStep
    BY <1>5 DEF Schema!MintedStep, Schema!CachedStep
  <1>6. ASSUME NEW p \in Procs, Schema!Open(p) \/ Schema!Crash(p) PROVE Schema!MintedStep /\ Schema!CachedStep
    BY <1>1, <1>2, <1>5, <1>6
       DEF Schema!Open, Schema!Connect, Schema!Schema, Schema!LookColumns, Schema!AddColumn, Schema!ColumnsDone, Schema!MigrateC10, Schema!MigrateM3,
           Schema!MigrateB1, Schema!LookFlag, Schema!Backfill, Schema!LookShape, Schema!Reindex, Schema!Crash, Schema!tables
  <1> QED BY <1>3, <1>4, <1>5, <1>6 DEF Schema!Next, Schema!mvars

\* A flag in the meta table means its backfill is complete, the full-text
\* index covers the cache but in the window of a rebuild (or after a crash in
\* it), and neither a minted edge nor a cached original is dropped by a
\* migration unless two processes both saw the old shape
\* (sqlite_store.py, _run_migrations): for any processes, rows and crashes.
THEOREM SchemaSafety ==
  Schema!LimitsOK => (Schema!Spec => []Schema!SchemaSafe /\ [][Schema!MintedStep /\ Schema!CachedStep]_Schema!mvars)
  <1> SUFFICES ASSUME Schema!LimitsOK PROVE Schema!Spec => []Schema!SchemaSafe /\ [][Schema!MintedStep /\ Schema!CachedStep]_Schema!mvars
    OBVIOUS
  <1>1. Schema!Init => SchemaIInv
    BY SchemaInitHolds
  <1>2. SchemaIInv /\ [Schema!Next]_Schema!mvars => SchemaIInv'
    BY SchemaNextKeeps
  <1>3. SchemaIInv => Schema!SchemaSafe
    BY SchemaProtects
  <1>4. SchemaIInv /\ [Schema!Next]_Schema!mvars => [Schema!MintedStep /\ Schema!CachedStep]_Schema!mvars
    BY SchemaNothingDropped
  <1> QED BY <1>1, <1>2, <1>3, <1>4, PTL DEF Schema!Spec

-----------------------------------------------------------------------------
(* The composition: a behaviour of MCSpec is one of every component, with   *)
(* or without its fairness.                                                *)

\* A step of the composition is a step of each component, or leaves it alone.
LEMMA SuiteSteps ==
  ASSUME [MCNext]_suite
  PROVE  /\ [Meta!Next]_(Meta!ivars) /\ [Schema!Next]_(Schema!mvars)
         /\ [Background!Next]_(Background!pvars)
  <1>1. \/ UNCHANGED suite
        \/ MCNext
    OBVIOUS
  <1>2. (UNCHANGED meta) \/ Meta!Next
    BY <1>1 DEF suite, MCNext
  <1>3. (UNCHANGED schema) \/ Schema!Next
    BY <1>1 DEF suite, MCNext
  <1>4. Keeper \in Threads
    BY UpkeepAssumption DEF Keeper
  <1>5. (UNCHANGED processor) \/ Background!Next
    BY <1>1, <1>4 DEF suite, MCNext, Threading, Bookkeeping, Background!Next, Background!Control
  <1>6. /\ UNCHANGED meta => UNCHANGED Meta!ivars
        /\ UNCHANGED schema => UNCHANGED Schema!mvars
        /\ UNCHANGED processor => UNCHANGED Background!pvars
    BY DEF meta, schema, processor, Meta!ivars, Schema!mvars, Background!pvars,
       Background!tvars, Background!lvars
  <1> QED BY <1>2, <1>3, <1>5, <1>6

\* What the poller promises holds in the composition.
THEOREM UpkeepMirror == MCSpec => []MirrorSafe
  <1>1. MCInit => MetaIInv
    BY MetaInitOK, UpkeepAssumption DEF MCInit
  <1>2. MetaIInv /\ [MCNext]_suite => MetaIInv'
    BY MetaStepOK, SuiteSteps, UpkeepAssumption
  <1>3. MetaIInv => MirrorSafe
    BY MetaPromises, UpkeepAssumption DEF MirrorSafe
  <1> QED BY <1>1, <1>2, <1>3, PTL DEF MCSpec

\* What the migrations promise holds in the composition.
THEOREM UpkeepSchema == MCSpec => []SchemaSafe
  <1>1. MCInit => SchemaIInv
    BY SchemaInitHolds, UpkeepAssumption DEF MCInit
  <1>2. SchemaIInv /\ [MCNext]_suite => SchemaIInv'
    BY SchemaNextKeeps, SuiteSteps, UpkeepAssumption
  <1>3. SchemaIInv => SchemaSafe
    BY SchemaProtects DEF SchemaSafe
  <1> QED BY <1>1, <1>2, <1>3, PTL DEF MCSpec

\* What the background processor promises holds in the composition.
THEOREM UpkeepProcessor == MCSpec => []ProcessorSafe
  <1>1. MCInit => BackgroundIInv
    BY BackgroundInitHolds, UpkeepAssumption DEF MCInit
  <1>2. BackgroundIInv /\ [MCNext]_suite => BackgroundIInv'
    BY BackgroundStepKeeps, SuiteSteps, UpkeepAssumption
  <1>3. BackgroundIInv => ProcessorSafe
    BY BackgroundOneLoop, UpkeepAssumption DEF BackgroundIInv, Background!ProcessorSafe, ProcessorSafe
  <1> QED BY <1>1, <1>2, <1>3, PTL DEF MCSpec

\* No step of the composition changes or re-attributes a row of another origin,
\* or drops a minted edge or a cached original in a rebuild nobody overtook.
THEOREM UpkeepStepsHold == MCSpec => UpkeepSteps
  <1>1. MCInit => MetaIInv /\ SchemaIInv
    BY MetaInitOK, SchemaInitHolds, UpkeepAssumption DEF MCInit
  <1>2. MetaIInv /\ SchemaIInv /\ [MCNext]_suite => MetaIInv' /\ SchemaIInv'
    BY MetaStepOK, SchemaNextKeeps, SuiteSteps, UpkeepAssumption
  <1>3. MetaIInv /\ [MCNext]_suite => Meta!OriginStep
    BY MetaOriginKept, SuiteSteps, UpkeepAssumption
  <1>4. SchemaIInv /\ [MCNext]_suite => Schema!MintedStep /\ Schema!CachedStep
    BY SchemaNothingDropped, SuiteSteps, UpkeepAssumption
  <1>5. MetaIInv /\ SchemaIInv /\ [MCNext]_suite
        => [/\ which = "meta" => Meta!OriginStep
            /\ which = "schema" => Schema!MintedStep /\ Schema!CachedStep]_suite
    BY <1>3, <1>4
  <1> QED BY <1>1, <1>2, <1>5, PTL DEF MCSpec, UpkeepSteps
=============================================================================
