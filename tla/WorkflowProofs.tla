--------------------------- MODULE WorkflowProofs ---------------------------
(***************************************************************************)
(* Type correctness of Workflow, and LockMatchesStatus, for every set of   *)
(* callers and actors and every limit.  LockMatchesStatus is not inductive *)
(* by itself: a call writes a projection it computed from an older row, so *)
(* the invariant must also say that every projection in flight is          *)
(* consistent with the status it goes with.  RateLimitSafety follows, and  *)
(* last the properties of calls that do not race.                          *)
(***************************************************************************)
EXTENDS Workflow, FiniteSetTheorems, SequenceTheorems, TLAPS

\* Every decided transition carries a lock that matches its target status.
InFlightConsistent ==
  \A c \in Callers : req[c].pc \in {"write", "audit"} =>
    /\ (req[c].to \in OwnedStatuses) <=> (req[c].newBy # None)
    /\ (req[c].newBy = None) <=> (req[c].newAt = None)

IInv == TypeOK /\ LockMatchesStatus /\ InFlightConsistent

\* Only work that somebody owns can become blocked or resolved
\* (workflow.py's table has no such edge out of open).
LEMMA OwnedBeforeBlocked ==
  ASSUME NEW from \in WorkflowStatus \cup {Unset}, NEW to \in {"blocked", "resolved"},
         transition_allowed(from, to)
  PROVE  from \in OwnedStatuses
  BY DEF transition_allowed, ALLOWED_TRANSITIONS, WorkflowStatus, Unset,
         OwnedStatuses, TERMINAL_STATUSES

\* What the control state of a call says about its shape.
LEMMA ReqShape ==
  ASSUME TypeOK, NEW c \in Callers
  PROVE  /\ req[c].pc = "idle" => req[c] = Idle
         /\ req[c].pc \in {"count", "read"} => req[c] \in Asked
         /\ req[c].pc \in {"write", "audit"} => req[c] \in Decided
  BY DEF TypeOK, Idle, Asked, Decided

\* The initial state satisfies the inductive invariant.
LEMMA InitEstablishes == Init => IInv
  <1> SUFFICES ASSUME Init PROVE IInv
    OBVIOUS
  <1>1. TypeOK
    BY WorkflowAssumption DEF Init, TypeOK, Owner, Time, WorkflowStatus, Unset, HistoryRow
  <1>2. LockMatchesStatus
    BY DEF Init, LockMatchesStatus, OwnedStatuses, Unset
  <1>3. InFlightConsistent
    BY DEF Init, InFlightConsistent, Idle
  <1> QED BY <1>1, <1>2, <1>3 DEF IInv

\* Every statement of every call preserves the inductive invariant.
LEMMA StepPreserves == IInv /\ [Next]_vars => IInv'
  <1> SUFFICES ASSUME IInv, [Next]_vars PROVE IInv'
    OBVIOUS
  <1> USE WorkflowAssumption
  <1>0. TypeOK /\ LockMatchesStatus /\ InFlightConsistent
    BY DEF IInv
  <1>1. ASSUME NEW c \in Callers, NEW a \in Actors, NEW to \in WorkflowStatus,
               NEW f \in BOOLEAN, Begin(c, a, to, f)
        PROVE  IInv'
    <2> DEFINE r == [pc |-> "count", actor |-> a, to |-> to, force |-> f]
    <2>1. r \in Asked
      BY DEF Asked
    <2>2. TypeOK'
      BY <1>0, <1>1, <2>1 DEF TypeOK, Begin, row
    <2>3. LockMatchesStatus' /\ InFlightConsistent'
      BY <1>0, <1>1 DEF TypeOK, Begin, row, LockMatchesStatus, InFlightConsistent
    <2> QED BY <2>2, <2>3 DEF IInv
  <1>2. ASSUME NEW c \in Callers, CountRecent(c) PROVE IInv'
    <2>1. req[c] \in Asked
      BY <1>0, <1>2, ReqShape DEF CountRecent
    <2>2. [req[c] EXCEPT !.pc = "read"] \in Asked
      BY <2>1 DEF Asked
    <2>3. TypeOK'
      BY <1>0, <1>2, <2>2 DEF TypeOK, CountRecent, row
    <2>4. LockMatchesStatus' /\ InFlightConsistent'
      BY <1>0, <1>2, <2>1 DEF TypeOK, CountRecent, row, LockMatchesStatus,
         InFlightConsistent, Idle, Asked
    <2> QED BY <2>3, <2>4 DEF IInv
  <1>3. ASSUME NEW c \in Callers, ReadAndDecide(c) PROVE IInv'
    <2> DEFINE r     == req[c]
               other == lockedBy \notin {None, r.actor}
               stale == other /\ lock_is_stale
               used  == other /\ ~lock_is_stale /\ r.force
               lock  == compute_lock_projection(r.to, r.actor, stale \/ used)
               d     == [pc |-> "write", actor |-> r.actor, to |-> r.to,
                         force |-> used, from |-> status, newBy |-> lock[1],
                         newAt |-> lock[2], stale |-> stale, at |-> now]
    <2>1. r \in Asked
      BY <1>0, <1>3, ReqShape DEF ReadAndDecide
    <2>2. lock[1] \in Owner /\ lock[2] \in Time
      BY <1>0, <2>1 DEF compute_lock_projection, TypeOK, Owner, Time, Asked
    <2>3. stale \in BOOLEAN /\ used \in BOOLEAN
      BY <2>1 DEF Asked, lock_is_stale
    <2>4. d \in Decided
      BY <1>0, <2>1, <2>2, <2>3 DEF Decided, TypeOK, Asked
    <2>5. MayProceed(r) => /\ (d.to \in OwnedStatuses) <=> (d.newBy # None)
                           /\ (d.newBy = None) <=> (d.newAt = None)
      <3> SUFFICES ASSUME MayProceed(r)
                   PROVE  /\ (r.to \in OwnedStatuses) <=> (lock[1] # None)
                          /\ (lock[1] = None) <=> (lock[2] = None)
        OBVIOUS
      <3>1. r.to \in {"blocked", "resolved"} => status \in OwnedStatuses
        BY <1>0, OwnedBeforeBlocked DEF MayProceed, TypeOK
      <3>2. r.actor # None /\ now # None
        BY <1>0, <2>1 DEF Asked, TypeOK
      <3> QED BY <1>0, <3>1, <3>2 DEF LockMatchesStatus, compute_lock_projection, OwnedStatuses
    <2>6. req' = [req EXCEPT ![c] = IF MayProceed(r) THEN d ELSE Idle]
      BY <1>3 DEF ReadAndDecide
    <2> HIDE DEF d
    <2>7. TypeOK'
      BY <1>0, <1>3, <2>4, <2>6 DEF TypeOK, ReadAndDecide, row
    <2>8. LockMatchesStatus'
      BY <1>0, <1>3 DEF ReadAndDecide, row, LockMatchesStatus
    <2>9. InFlightConsistent'
      <3> SUFFICES ASSUME NEW e \in Callers, req'[e].pc \in {"write", "audit"}
                   PROVE  /\ (req'[e].to \in OwnedStatuses) <=> (req'[e].newBy # None)
                          /\ (req'[e].newBy = None) <=> (req'[e].newAt = None)
        BY DEF InFlightConsistent
      <3>1. CASE e # c
        BY <1>0, <2>6, <3>1 DEF TypeOK, InFlightConsistent
      <3>2. CASE e = c
        <4>1. req'[c] = IF MayProceed(r) THEN d ELSE Idle
          BY <1>0, <2>6 DEF TypeOK
        <4> QED BY <3>2, <4>1, <2>5 DEF Idle
      <3> QED BY <3>1, <3>2
    <2> QED BY <2>7, <2>8, <2>9 DEF IInv
  <1>4. ASSUME NEW c \in Callers, SetWorkflowStatus(c) PROVE IInv'
    <2>1. req[c] \in Decided
      BY <1>0, <1>4, ReqShape DEF SetWorkflowStatus
    <2>2. [req[c] EXCEPT !.pc = "audit"] \in Decided
      BY <2>1 DEF Decided
    <2>3. req' = [req EXCEPT ![c] = [req[c] EXCEPT !.pc = "audit"]]
      BY <1>0, <1>4 DEF SetWorkflowStatus, TypeOK
    <2>4. [from |-> status, to |-> req[c].to] \in Change
      BY <1>0, <2>1 DEF TypeOK, Decided, Change
    <2>5. req' \in [Callers -> {Idle} \cup Asked \cup Decided]
      BY <1>0, <2>2, <2>3 DEF TypeOK
    <2>6. TypeOK'
      <3>1. /\ status' \in WorkflowStatus \cup {Unset}
            /\ lockedBy' \in Owner /\ lockedAt' \in Time
        BY <1>0, <1>4, <2>1 DEF TypeOK, SetWorkflowStatus, Decided
      <3>2. trail' \in Seq(Change)
        <4>1. trail \in Seq(Change)
          BY <1>0 DEF TypeOK
        <4>2. trail' = Append(trail, [from |-> status, to |-> req[c].to]) \/ trail' = trail
          BY <1>4 DEF SetWorkflowStatus
        <4> DEFINE ch == [from |-> status, to |-> req[c].to]
        <4> HIDE DEF ch
        <4>3. ch \in Change
          BY <2>4 DEF ch
        <4>4. trail' = Append(trail, ch) \/ trail' = trail
          BY <4>2 DEF ch
        <4> QED BY <4>1, <4>3, <4>4
      <3>3. UNCHANGED <<exists, history, now, calls>>
        BY <1>4 DEF SetWorkflowStatus
      <3> QED BY <1>0, <2>5, <3>1, <3>2, <3>3 DEF TypeOK
    <2>7. LockMatchesStatus'
      BY <1>0, <1>4 DEF SetWorkflowStatus, LockMatchesStatus, InFlightConsistent
    <2>8. InFlightConsistent'
      BY <1>0, <1>4, <2>1, <2>3 DEF TypeOK, SetWorkflowStatus, InFlightConsistent, Decided
    <2> QED BY <2>6, <2>7, <2>8 DEF IInv
  <1>5. ASSUME NEW c \in Callers, AddWorkflowHistory(c) PROVE IInv'
    <2> DEFINE h == [from |-> req[c].from, to |-> req[c].to, actor |-> req[c].actor,
                     force |-> req[c].force, at |-> req[c].at]
    <2>1. req[c] \in Decided
      BY <1>0, <1>5, ReqShape DEF AddWorkflowHistory
    <2>2. h \in HistoryRow
      BY <2>1 DEF Decided, HistoryRow
    <2>3. TypeOK'
      BY <1>0, <1>5, <2>2 DEF TypeOK, AddWorkflowHistory, row
    <2>4. LockMatchesStatus' /\ InFlightConsistent'
      BY <1>0, <1>5 DEF TypeOK, AddWorkflowHistory, row, LockMatchesStatus,
         InFlightConsistent, Idle
    <2> QED BY <2>3, <2>4 DEF IInv
  <1>6. ASSUME NEW c \in Callers, Crash(c) PROVE IInv'
    <2>1. TypeOK'
      BY <1>0, <1>6 DEF TypeOK, Crash, row
    <2>2. LockMatchesStatus' /\ InFlightConsistent'
      BY <1>0, <1>6 DEF TypeOK, Crash, row, LockMatchesStatus, InFlightConsistent, Idle
    <2> QED BY <2>1, <2>2 DEF IInv
  <1>7. CASE DeleteMemory
    BY <1>0, <1>7 DEF DeleteMemory, IInv, TypeOK, LockMatchesStatus, InFlightConsistent
  <1>8. CASE Tick
    BY <1>0, <1>8 DEF Tick, row, IInv, TypeOK, LockMatchesStatus, InFlightConsistent
  <1>9. CASE UNCHANGED vars
    BY <1>0, <1>9 DEF vars, IInv, TypeOK, LockMatchesStatus, InFlightConsistent
  <1> QED BY <1>1, <1>2, <1>3, <1>4, <1>5, <1>6, <1>7, <1>8, <1>9 DEF Next, Step

\* Every variable of the workflow component keeps its type: row columns,
\* audit rows and the calls in flight of workflow_set.
THEOREM TypeCorrect == Spec => []TypeOK
  <1>1. IInv => TypeOK
    BY DEF IInv
  <1> QED BY <1>1, InitEstablishes, StepPreserves, PTL DEF Spec

\* However calls of workflow_set, deletes and crashes interleave, a memory
\* has an owner exactly while its work is under way.
THEOREM LockSafety == Spec => []LockMatchesStatus
  <1>1. IInv => LockMatchesStatus
    BY DEF IInv
  <1> QED BY <1>1, InitEstablishes, StepPreserves, PTL DEF Spec

-----------------------------------------------------------------------------
(***************************************************************************)
(* The rate limit.  A row of a window was counted by every later call that *)
(* can still put a row into that window, so rows and such calls together   *)
(* never exceed the limit by more than the number of callers less one.     *)
(***************************************************************************)

\* The audit rows of the window that begins at t.
Window(t) == {i \in DOMAIN history : t <= history[i].at /\ history[i].at <= t + RateWindow}

\* The calls past the count that may still add a row to that window.
Pending(t) ==
  {c \in Callers : \/ req[c].pc = "read" /\ now <= t + RateWindow
                   \/ /\ req[c].pc \in {"write", "audit"}
                      /\ t <= req[c].at /\ req[c].at <= t + RateWindow}

RateInv ==
  \A t \in Nat : Cardinality(Window(t)) + Cardinality(Pending(t))
                   <= RateLimit + Cardinality(Callers) - 1

\* The audit rows of any window and the pending calls are finite in number.
LEMMA WindowsAreFinite ==
  ASSUME TypeOK, NEW t
  PROVE  /\ IsFiniteSet(Window(t)) /\ Cardinality(Window(t)) \in Nat
         /\ IsFiniteSet(Pending(t)) /\ Cardinality(Pending(t)) \in Nat
         /\ Cardinality(Pending(t)) <= Cardinality(Callers)
         /\ Cardinality(Callers) \in Nat
  <1>1. DOMAIN history = 1..Len(history) /\ Len(history) \in Nat
    BY DEF TypeOK
  <1>2. IsFiniteSet(1..Len(history))
    BY <1>1, FS_Interval
  <1>3. Window(t) \in SUBSET (1..Len(history)) /\ Pending(t) \in SUBSET Callers
    BY <1>1 DEF Window, Pending
  <1>4. IsFiniteSet(Window(t)) /\ IsFiniteSet(Pending(t))
        /\ Cardinality(Pending(t)) <= Cardinality(Callers)
    BY <1>2, <1>3, FS_Subset, WorkflowAssumption
  <1> QED BY <1>4, FS_CardinalityType, WorkflowAssumption

\* A step that adds no audit row and no pending call keeps the bound.
LEMMA NothingAdded ==
  ASSUME TypeOK, RateInv, history' = history, TypeOK',
         \A t \in Nat : Pending(t)' \subseteq Pending(t)
  PROVE  RateInv'
  <1> SUFFICES ASSUME NEW t \in Nat
               PROVE  Cardinality(Window(t)') + Cardinality(Pending(t)')
                        <= RateLimit + Cardinality(Callers) - 1
    BY DEF RateInv
  <1>1. Window(t)' = Window(t)
    BY DEF Window
  <1>2. Cardinality(Pending(t)') <= Cardinality(Pending(t)) /\ Cardinality(Pending(t)') \in Nat
    BY WindowsAreFinite, FS_Subset, FS_CardinalityType
  <1>3. Cardinality(Window(t)) + Cardinality(Pending(t)) <= RateLimit + Cardinality(Callers) - 1
    BY DEF RateInv
  <1> QED BY <1>1, <1>2, <1>3, WindowsAreFinite, WorkflowAssumption

\* A call that passes the count found fewer than RateLimit rows in every window
\* it can still reach.
LEMMA CountBounds ==
  ASSUME TypeOK, NEW c \in Callers, CountRecent(c), req'[c].pc = "read",
         NEW t \in Nat, now <= t + RateWindow
  PROVE  Cardinality(Window(t)) + 1 <= RateLimit
  <1> DEFINE since == IF now > RateWindow THEN now - RateWindow ELSE 0
             seen  == {i \in DOMAIN history : history[i].at >= since}
  <1>0. now \in Nat /\ RateWindow \in Nat /\ RateLimit \in Nat
    BY WorkflowAssumption DEF TypeOK
  <1>1. ~rate_limited(Cardinality(seen))
    BY DEF CountRecent, TypeOK, count_workflow_transitions_since, Idle
  <1>2. DOMAIN history = 1..Len(history) /\ Len(history) \in Nat
        /\ \A i \in DOMAIN history : history[i].at \in Nat
    <2>1. history \in Seq(HistoryRow)
      BY DEF TypeOK
    <2>2. \A i \in DOMAIN history : history[i] \in HistoryRow
      BY <2>1
    <2>3. \A h \in HistoryRow : h.at \in Nat
      BY DEF HistoryRow
    <2> QED BY <2>1, <2>2, <2>3
  <1>3. IsFiniteSet(seen) /\ Cardinality(seen) \in Nat
    <2>1. IsFiniteSet(1..Len(history)) /\ seen \in SUBSET (1..Len(history))
      BY <1>2, FS_Interval
    <2> QED BY <2>1, FS_Subset, FS_CardinalityType
  <1>4. Window(t) \in SUBSET seen
    BY <1>0, <1>2 DEF Window
  <1>5. Cardinality(Window(t)) <= Cardinality(seen)
    BY <1>3, <1>4, FS_Subset
  <1> HIDE DEF seen
  <1> QED BY <1>0, <1>1, <1>3, <1>5, WindowsAreFinite DEF rate_limited

\* The initial state has neither rows nor calls.
LEMMA RateInit == Init => RateInv
  <1> SUFFICES ASSUME Init, NEW t \in Nat
               PROVE  Cardinality(Window(t)) + Cardinality(Pending(t))
                        <= RateLimit + Cardinality(Callers) - 1
    BY DEF RateInv
  <1>1. Window(t) = {} /\ Pending(t) = {}
    BY DEF Init, Window, Pending, Idle
  <1>2. Cardinality(Callers) \in Nat /\ Cardinality(Callers) # 0
    BY WorkflowAssumption, FS_CardinalityType, FS_EmptySet
  <1> QED BY <1>1, <1>2, FS_EmptySet, WorkflowAssumption

\* Every statement of every call keeps the bound on rows and pending calls.
LEMMA RateStep == IInv /\ IInv' /\ RateInv /\ [Next]_vars => RateInv'
  <1> SUFFICES ASSUME IInv, IInv', RateInv, [Next]_vars PROVE RateInv'
    OBVIOUS
  <1> USE WorkflowAssumption
  <1>0. TypeOK /\ TypeOK'
    BY DEF IInv
  <1>a. now \in Nat /\ req \in [Callers -> {Idle} \cup Asked \cup Decided]
    BY <1>0 DEF TypeOK
  <1>1. ASSUME NEW c \in Callers, NEW a \in Actors, NEW to \in WorkflowStatus,
               NEW f \in BOOLEAN, Begin(c, a, to, f)
        PROVE  RateInv'
    <2>1. \A t \in Nat : Pending(t)' \subseteq Pending(t)
      BY <1>1, <1>a DEF Begin, Pending
    <2> QED BY <1>0, <1>1, <2>1, NothingAdded DEF Begin
  <1>2. ASSUME NEW c \in Callers, CountRecent(c) PROVE RateInv'
    <2>1. CASE req'[c].pc # "read"
      <3>1. \A t \in Nat : Pending(t)' \subseteq Pending(t)
        BY <1>2, <1>a, <2>1 DEF CountRecent, Pending, Idle
      <3> QED BY <1>0, <1>2, <3>1, NothingAdded DEF CountRecent
    <2>2. CASE req'[c].pc = "read"
      <3> SUFFICES ASSUME NEW t \in Nat
                   PROVE  Cardinality(Window(t)') + Cardinality(Pending(t)')
                            <= RateLimit + Cardinality(Callers) - 1
        BY DEF RateInv
      <3>0. Window(t)' = Window(t)
        BY <1>2 DEF CountRecent, Window
      <3>1. CASE now <= t + RateWindow
        <4>1. Cardinality(Window(t)) + 1 <= RateLimit
          BY <1>0, <1>2, <2>2, <3>1, CountBounds
        <4>2. Cardinality(Pending(t)') <= Cardinality(Callers) /\ Cardinality(Pending(t)') \in Nat
          <5>1. Pending(t)' \in SUBSET Callers
            BY DEF Pending
          <5> QED BY <5>1, FS_Subset, FS_CardinalityType
        <4> QED BY <1>0, <3>0, <4>1, <4>2, WindowsAreFinite
      <3>2. CASE ~(now <= t + RateWindow)
        <4>1. Pending(t)' \subseteq Pending(t)
          BY <1>2, <1>a, <2>2, <3>2 DEF CountRecent, Pending
        <4>2. Cardinality(Pending(t)') <= Cardinality(Pending(t)) /\ Cardinality(Pending(t)') \in Nat
          BY <1>0, <4>1, WindowsAreFinite, FS_Subset, FS_CardinalityType
        <4>3. Cardinality(Window(t)) + Cardinality(Pending(t)) <= RateLimit + Cardinality(Callers) - 1
          BY DEF RateInv
        <4> QED BY <1>0, <3>0, <4>2, <4>3, WindowsAreFinite
      <3> QED BY <3>1, <3>2
    <2> QED BY <2>1, <2>2
  <1>3. ASSUME NEW c \in Callers, ReadAndDecide(c) PROVE RateInv'
    <2>1. ASSUME NEW e \in Callers, e # c PROVE req'[e] = req[e]
      BY <1>3, <1>a, <2>1 DEF ReadAndDecide
    <2>2. req'[c].pc \in {"write", "audit"} => req'[c].at = now
      BY <1>3, <1>a DEF ReadAndDecide, Idle
    <2>3. req'[c].pc # "read" /\ req[c].pc = "read" /\ now' = now
      BY <1>3, <1>a DEF ReadAndDecide, Idle
    <2>4. \A t \in Nat : Pending(t)' \subseteq Pending(t)
      BY <2>1, <2>2, <2>3 DEF Pending
    <2> QED BY <1>0, <1>3, <2>4, NothingAdded DEF ReadAndDecide
  <1>4. ASSUME NEW c \in Callers, SetWorkflowStatus(c) PROVE RateInv'
    <2>1. req[c] \in Decided
      BY <1>0, <1>4, ReqShape DEF SetWorkflowStatus
    <2>2. req' = [req EXCEPT ![c] = [req[c] EXCEPT !.pc = "audit"]]
      BY <1>a, <1>4 DEF SetWorkflowStatus
    <2>3. req'[c].at = req[c].at /\ req'[c].pc = "audit" /\ req[c].pc = "write"
      BY <1>4, <1>a, <2>1, <2>2 DEF Decided, SetWorkflowStatus
    <2>4. \A e \in Callers : e # c => req'[e] = req[e]
      BY <1>a, <2>2
    <2>5. \A t \in Nat : Pending(t)' \subseteq Pending(t)
      BY <1>4, <2>3, <2>4 DEF Pending, SetWorkflowStatus
    <2> QED BY <1>0, <1>4, <2>5, NothingAdded DEF SetWorkflowStatus
  <1>5. ASSUME NEW c \in Callers, AddWorkflowHistory(c) PROVE RateInv'
    <2> DEFINE h == [from |-> req[c].from, to |-> req[c].to, actor |-> req[c].actor,
                     force |-> req[c].force, at |-> req[c].at]
               n == Len(history)
    <2> SUFFICES ASSUME NEW t \in Nat
                 PROVE  Cardinality(Window(t)') + Cardinality(Pending(t)')
                          <= RateLimit + Cardinality(Callers) - 1
      BY DEF RateInv
    <2>1. req[c] \in Decided /\ req[c].pc = "audit"
      BY <1>0, <1>5, ReqShape DEF AddWorkflowHistory
    <2>2. h \in HistoryRow /\ h.at = req[c].at /\ h.at \in Nat
      BY <2>1 DEF Decided, HistoryRow
    <2>3. history \in Seq(HistoryRow) /\ history' = Append(history, h) /\ n \in Nat
      BY <1>0, <1>5 DEF AddWorkflowHistory, TypeOK
    <2> HIDE DEF h
    <2>4. /\ DOMAIN history = 1..n /\ DOMAIN history' = 1..(n + 1)
          /\ history'[n + 1] = h /\ \A i \in 1..n : history'[i] = history[i]
      BY <2>2, <2>3
    <2>5. req'[c].pc = "idle" /\ (\A e \in Callers : e # c => req'[e] = req[e]) /\ now' = now
      BY <1>5, <1>a DEF AddWorkflowHistory, Idle
    <2>6. Pending(t)' = Pending(t) \ {c}
      BY <2>5 DEF Pending
    <2>7. IsFiniteSet(Window(t)) /\ IsFiniteSet(Pending(t))
          /\ Cardinality(Window(t)) \in Nat /\ Cardinality(Pending(t)) \in Nat
          /\ Cardinality(Callers) \in Nat
      BY <1>0, WindowsAreFinite
    <2>8. Cardinality(Window(t)) + Cardinality(Pending(t)) <= RateLimit + Cardinality(Callers) - 1
      BY DEF RateInv
    <2>9. CASE t <= h.at /\ h.at <= t + RateWindow
      <3>1. Window(t)' = Window(t) \cup {n + 1}
        BY <2>4, <2>9 DEF Window
      <3>2. Cardinality(Window(t)') <= Cardinality(Window(t)) + 1 /\ Cardinality(Window(t)') \in Nat
        <4> DEFINE W == Window(t)
        <4>1. IsFiniteSet(W) /\ Cardinality(W) \in Nat
          BY <2>7
        <4> HIDE DEF W
        <4>2. Cardinality(W \cup {n + 1}) = Cardinality(W) \/ Cardinality(W \cup {n + 1}) = Cardinality(W) + 1
          BY <4>1, FS_AddElement
        <4>3. Cardinality(W \cup {n + 1}) <= Cardinality(W) + 1 /\ Cardinality(W \cup {n + 1}) \in Nat
          BY <4>1, <4>2
        <4> QED BY <3>1, <4>3 DEF W
      <3>3. c \in Pending(t)
        BY <2>1, <2>2, <2>9 DEF Pending
      <3>4. Cardinality(Pending(t)') = Cardinality(Pending(t)) - 1
        BY <2>6, <2>7, <3>3, FS_RemoveElement
      <3> QED BY <2>7, <2>8, <3>2, <3>4
    <2>10. CASE ~(t <= h.at /\ h.at <= t + RateWindow)
      <3>1. Window(t)' = Window(t)
        BY <2>4, <2>10 DEF Window
      <3>2. Cardinality(Pending(t)') <= Cardinality(Pending(t)) /\ Cardinality(Pending(t)') \in Nat
        BY <2>6, <2>7, FS_Subset, FS_CardinalityType
      <3> QED BY <2>7, <2>8, <3>1, <3>2
    <2> QED BY <2>9, <2>10
  <1>6. ASSUME NEW c \in Callers, Crash(c) PROVE RateInv'
    <2>1. \A t \in Nat : Pending(t)' \subseteq Pending(t)
      BY <1>6, <1>a DEF Crash, Pending, Idle
    <2> QED BY <1>0, <1>6, <2>1, NothingAdded DEF Crash
  <1>7. CASE DeleteMemory
    <2>1. \A t \in Nat : Pending(t)' \subseteq Pending(t)
      BY <1>7 DEF DeleteMemory, Pending
    <2> QED BY <1>0, <1>7, <2>1, NothingAdded DEF DeleteMemory
  <1>8. CASE Tick
    <2>1. \A t \in Nat : Pending(t)' \subseteq Pending(t)
      BY <1>8, <1>a DEF Tick, Pending
    <2> QED BY <1>0, <1>8, <2>1, NothingAdded DEF Tick
  <1>9. CASE UNCHANGED vars
    <2>1. \A t \in Nat : Pending(t)' \subseteq Pending(t)
      BY <1>9 DEF vars, Pending
    <2> QED BY <1>0, <1>9, <2>1, NothingAdded DEF vars
  <1> QED BY <1>1, <1>2, <1>3, <1>4, <1>5, <1>6, <1>7, <1>8, <1>9 DEF Next, Step

\* Guardrail 5 of workflow_set: however many calls race past the count, no
\* window of a minute holds more than the limit and one row for each further
\* caller.
THEOREM RateLimitSafety == Spec => []RateOvershootBounded
  <1>1. IInv /\ RateInv => RateOvershootBounded
    <2> SUFFICES ASSUME IInv, RateInv, NEW t \in 0..now
                 PROVE  Cardinality(Window(t)) <= RateLimit + Cardinality(Callers) - 1
      BY DEF RateOvershootBounded, Window
    <2>1. TypeOK /\ t \in Nat
      BY DEF IInv, TypeOK
    <2> QED BY <2>1, WindowsAreFinite, WorkflowAssumption DEF RateInv
  <1> QED BY <1>1, InitEstablishes, StepPreserves, RateInit, RateStep, PTL DEF Spec

-----------------------------------------------------------------------------
(***************************************************************************)
(* Calls that do not race: one caller, any actors.  What it decided from   *)
(* the row it read is then still true when it writes; with a second caller *)
(* each of these properties fails.                                         *)
(***************************************************************************)

\* What the header of workflow.py says of one status change.
Documented(from, to) ==
  /\ from \notin TERMINAL_STATUSES
  /\ to = "blocked"  => from = "in-progress"
  /\ to = "resolved" => from = "blocked"
  /\ to = "done"     => from \in {"in-progress", "resolved"}

\* What the decided call r still knows of the row when it writes.
UpToDate(r) ==
  /\ r.from = status
  /\ Documented(status, r.to)
  /\ (lockedBy \in Actors /\ r.newBy \in Actors /\ r.newBy # lockedBy) => r.stale \/ r.force

SerialInv(c) ==
  /\ IInv
  /\ req[c].pc = "write" => UpToDate(req[c])
  /\ DocumentedEdgesOnly

\* The table of workflow.py has documented edges only.
LEMMA TableIsDocumented ==
  ASSUME NEW from \in WorkflowStatus \cup {Unset}, NEW to \in WorkflowStatus,
         transition_allowed(from, to)
  PROVE  Documented(from, to)
  BY DEF transition_allowed, ALLOWED_TRANSITIONS, WorkflowStatus, Unset, TERMINAL_STATUSES, Documented

\* A call that goes ahead knows what the row says.
LEMMA DecidesUpToDate ==
  ASSUME NEW c \in Callers, TypeOK, ReadAndDecide(c), req'[c].pc = "write"
  PROVE  UpToDate(req'[c])
  <1> DEFINE r     == req[c]
             other == lockedBy \notin {None, r.actor}
             stale == other /\ lock_is_stale
             used  == other /\ ~lock_is_stale /\ r.force
             lock  == compute_lock_projection(r.to, r.actor, stale \/ used)
  <1>1. r \in Asked
    BY ReqShape DEF ReadAndDecide
  <1>2. PICK d : d = [pc |-> "write", actor |-> r.actor, to |-> r.to, force |-> used,
                      from |-> status, newBy |-> lock[1], newAt |-> lock[2],
                      stale |-> stale, at |-> now]
    OBVIOUS
  <1>3. req'[c] = IF MayProceed(r) THEN d ELSE Idle
    BY <1>2 DEF ReadAndDecide, TypeOK
  <1>4. MayProceed(r) /\ req'[c] = d
    BY <1>3 DEF Idle
  <1>5. d.from = status /\ d.to = r.to /\ d.newBy = lock[1] /\ d.stale = stale /\ d.force = used
    BY <1>2
  <1>6. Documented(status, r.to)
    BY <1>1, <1>4, TableIsDocumented DEF MayProceed, TypeOK, Asked
  <1>7. lock[1] \in {r.actor, lockedBy, None}
    BY DEF compute_lock_projection
  <1>8. ASSUME lockedBy \in Actors, lock[1] \in Actors, lock[1] # lockedBy
        PROVE  stale \/ used
    <2>1. lock[1] = r.actor /\ other
      BY <1>7, <1>8, WorkflowAssumption
    <2> QED BY <1>4, <2>1 DEF MayProceed
  <1> HIDE DEF stale, used, lock, r
  <1> QED BY <1>4, <1>5, <1>6, <1>8 DEF UpToDate

\* One caller keeps the invariant, and its writes pass the lock by right.
LEMMA SerialStep ==
  ASSUME NEW c, Callers = {c}, SerialInv(c), [Next]_vars
  PROVE  SerialInv(c)' /\ LockPassesByRight
  <1>0. IInv /\ TypeOK /\ IInv' /\ TypeOK' /\ c \in Callers
    BY StepPreserves DEF SerialInv, IInv
  <1>1. ASSUME SetWorkflowStatus(c) PROVE SerialInv(c)' /\ LockPassesByRight
    <2>1. req[c].pc = "write" /\ UpToDate(req[c]) /\ req[c] \in Decided
      BY <1>0, <1>1, ReqShape DEF SetWorkflowStatus, SerialInv
    <2>2. req'[c].pc = "audit"
      BY <1>0, <1>1, <2>1 DEF SetWorkflowStatus, TypeOK, Decided
    <2>3. LockPassesByRight
      BY <1>0, <1>1, <2>1 DEF SetWorkflowStatus, LockPassesByRight, UpToDate
    <2>4. DocumentedEdgesOnly'
      <3>1. CASE trail' = trail
        BY <3>1 DEF SerialInv, DocumentedEdgesOnly
      <3>2. CASE trail' = Append(trail, [from |-> status, to |-> req[c].to])
        <4>1. PICK e : e = [from |-> status, to |-> req[c].to]
          OBVIOUS
        <4>2. e.from = status /\ e.to = req[c].to /\ Documented(e.from, e.to)
          BY <2>1, <4>1 DEF UpToDate
        <4>3. /\ trail \in Seq(Change) /\ trail' = Append(trail, e)
              /\ DOMAIN trail' = 1 .. Len(trail) + 1 /\ DOMAIN trail = 1 .. Len(trail)
              /\ \A i \in DOMAIN trail' : i \in DOMAIN trail \/ i = Len(trail) + 1
              /\ \A i \in DOMAIN trail : trail'[i] = trail[i]
              /\ trail'[Len(trail) + 1] = e
          BY <1>0, <3>2, <4>1 DEF TypeOK
        <4>4. \A i \in DOMAIN trail : Documented(trail[i].from, trail[i].to)
          BY DEF SerialInv, DocumentedEdgesOnly, Documented
        <4>5. \A i \in DOMAIN trail' : Documented(trail'[i].from, trail'[i].to)
          BY <4>2, <4>3, <4>4
        <4> QED BY <4>5 DEF DocumentedEdgesOnly, Documented
      <3> QED BY <1>1, <3>1, <3>2 DEF SetWorkflowStatus
    <2> QED BY <1>0, <2>2, <2>3, <2>4 DEF SerialInv
  <1>2. ASSUME UNCHANGED <<status, lockedBy, trail>>,
               req'[c].pc = "write" => UpToDate(req'[c])
        PROVE  SerialInv(c)' /\ LockPassesByRight
    <2>1. DocumentedEdgesOnly' /\ LockPassesByRight
      BY <1>2 DEF SerialInv, DocumentedEdgesOnly, LockPassesByRight
    <2>2. req'[c].pc = "write" => UpToDate(req[c])'
      BY <1>2 DEF UpToDate
    <2> QED BY <1>0, <2>1, <2>2 DEF SerialInv
  <1>3. CASE \/ \E a \in Actors, to \in WorkflowStatus, f \in BOOLEAN : Begin(c, a, to, f)
             \/ CountRecent(c) \/ AddWorkflowHistory(c) \/ Crash(c)
    <2>1. UNCHANGED <<status, lockedBy, trail>>
      BY <1>3 DEF Begin, CountRecent, AddWorkflowHistory, Crash, row
    <2>2. req'[c].pc # "write"
      <3>1. CASE CountRecent(c)
        <4>1. req[c] \in Asked
          BY <1>0, <3>1, ReqShape DEF CountRecent
        <4> QED BY <1>0, <3>1, <4>1 DEF CountRecent, TypeOK, Asked, Idle
      <3> QED BY <1>0, <1>3, <3>1 DEF Begin, AddWorkflowHistory, Crash, TypeOK, Idle
    <2> QED BY <1>2, <2>1, <2>2
  <1>4. CASE ReadAndDecide(c)
    BY <1>0, <1>2, <1>4, DecidesUpToDate DEF ReadAndDecide, row
  <1>5. CASE DeleteMemory \/ Tick \/ UNCHANGED vars
    <2>1. UNCHANGED <<status, lockedBy, trail, req>>
      BY <1>5 DEF DeleteMemory, Tick, vars, row
    <2> QED BY <1>2, <2>1 DEF SerialInv
  <1> QED BY <1>0, <1>1, <1>3, <1>4, <1>5 DEF Next, Step

\* One caller at a time, with crashes, deletes and clock ticks between any two
\* of its statements: every status change is one workflow.py documents.
THEOREM DocumentedEdges ==
  ASSUME NEW CONSTANT c, Callers = {c}
  PROVE  Spec => []DocumentedEdgesOnly
  <1>1. Init => SerialInv(c)
    BY InitEstablishes DEF Init, SerialInv, Idle, DocumentedEdgesOnly
  <1>2. SerialInv(c) /\ [Next]_vars => SerialInv(c)'
    BY SerialStep
  <1>3. SerialInv(c) => DocumentedEdgesOnly
    BY DEF SerialInv
  <1> QED BY <1>1, <1>2, <1>3, PTL DEF Spec

\* And the lock passes to another actor only when it is stale or forced.
THEOREM TakeoverByRight ==
  ASSUME NEW CONSTANT c, Callers = {c}
  PROVE  Spec => TakeoverIsJustified
  <1>1. Init => SerialInv(c)
    BY InitEstablishes DEF Init, SerialInv, Idle, DocumentedEdgesOnly
  <1>2. SerialInv(c) /\ [Next]_vars => SerialInv(c)' /\ [LockPassesByRight]_vars
    BY SerialStep
  <1> QED BY <1>1, <1>2, PTL DEF Spec, TakeoverIsJustified

-----------------------------------------------------------------------------
\* What the audit log says, as changes.
Audited == [i \in DOMAIN history |-> [from |-> history[i].from, to |-> history[i].to]]

AuditInv(c) ==
  /\ SerialInv(c)
  /\ exists
  /\ trail = IF req[c].pc = "audit"
             THEN Append(Audited, [from |-> req[c].from, to |-> req[c].to]) ELSE Audited

\* The audit log of calls that are not killed, on a row that is not deleted.
LEMMA AuditStep ==
  ASSUME NEW c, Callers = {c}, ~MayDelete, ~MayCrash, AuditInv(c), [Next]_vars
  PROVE  AuditInv(c)'
  <1>0. IInv /\ TypeOK /\ IInv' /\ TypeOK' /\ c \in Callers /\ SerialInv(c) /\ SerialInv(c)'
    BY StepPreserves, SerialStep DEF AuditInv, SerialInv, IInv
  <1>1. CASE SetWorkflowStatus(c)
    <2>1. req[c].pc = "write" /\ req[c].from = status /\ req[c] \in Decided
      BY <1>0, <1>1, ReqShape DEF SetWorkflowStatus, SerialInv, UpToDate
    <2>2. req'[c].pc = "audit" /\ req'[c].from = status /\ req'[c].to = req[c].to
      BY <1>0, <1>1, <2>1 DEF SetWorkflowStatus, TypeOK, Decided
    <2>3. trail = Audited /\ exists
      BY <2>1 DEF AuditInv
    <2>4. Audited' = Audited /\ exists'
      BY <1>1, <2>3 DEF SetWorkflowStatus, Audited
    <2>5. trail' = Append(Audited, [from |-> status, to |-> req[c].to])
      BY <1>1, <2>3 DEF SetWorkflowStatus
    <2> QED BY <1>0, <2>2, <2>4, <2>5 DEF AuditInv
  <1>2. CASE AddWorkflowHistory(c)
    <2>1. req[c].pc = "audit" /\ req[c] \in Decided
      BY <1>0, <1>2, ReqShape DEF AddWorkflowHistory
    <2>2. req'[c].pc # "audit"
      BY <1>0, <1>2 DEF AddWorkflowHistory, TypeOK, Idle
    <2>3. PICK e, h : /\ e = [from |-> req[c].from, to |-> req[c].to]
                      /\ h = [from |-> req[c].from, to |-> req[c].to, actor |-> req[c].actor,
                              force |-> req[c].force, at |-> req[c].at]
      OBVIOUS
    <2>4. history' = Append(history, h) /\ e = [from |-> h.from, to |-> h.to]
      BY <1>2, <2>3 DEF AddWorkflowHistory
    <2>5. e \in Change
      BY <2>1, <2>3 DEF Decided, Change
    <2>6. Audited \in Seq(Change) /\ Len(Audited) = Len(history)
      <3>1. history \in Seq(HistoryRow) /\ DOMAIN history = 1 .. Len(history) /\ Len(history) \in Nat
        BY <1>0 DEF TypeOK
      <3>2. ASSUME NEW i \in DOMAIN history
            PROVE  [from |-> history[i].from, to |-> history[i].to] \in Change
        <4>1. history[i] \in HistoryRow
          BY <3>1, <3>2
        <4> QED BY <4>1 DEF HistoryRow, Change
      <3> QED BY <3>1, <3>2 DEF Audited
    <2>7. Audited' = Append(Audited, e)
      <3>1. /\ DOMAIN history = 1 .. Len(history) /\ Len(history) \in Nat
            /\ DOMAIN history' = 1 .. Len(history) + 1
            /\ \A i \in DOMAIN history : history'[i] = history[i]
            /\ history'[Len(history) + 1] = h
        BY <1>0, <2>4 DEF TypeOK
      <3>2. Audited' = [i \in 1 .. Len(history) + 1 |-> [from |-> history'[i].from, to |-> history'[i].to]]
        BY <3>1 DEF Audited
      <3>3. /\ DOMAIN Append(Audited, e) = 1 .. Len(history) + 1
            /\ \A i \in 1 .. Len(history) : Append(Audited, e)[i] = Audited[i]
            /\ Append(Audited, e)[Len(history) + 1] = e
            /\ Append(Audited, e) \in Seq(Change)
        BY <2>5, <2>6
      <3>4. ASSUME NEW i \in 1 .. Len(history) + 1
            PROVE  Append(Audited, e)[i] = [from |-> history'[i].from, to |-> history'[i].to]
        <4>1. CASE i \in 1 .. Len(history)
          BY <3>1, <3>3, <4>1 DEF Audited
        <4>2. CASE i = Len(history) + 1
          BY <2>4, <3>1, <3>3, <4>2
        <4>3. i \in 1 .. Len(history) \/ i = Len(history) + 1
          BY <3>1, <3>4
        <4> QED BY <4>1, <4>2, <4>3
      <3>5. PICK s : s = Append(Audited, e)
        OBVIOUS
      <3>6. s = [i \in 1 .. Len(history) + 1 |-> s[i]]
        <4>1. s \in Seq(Change) /\ DOMAIN s = 1 .. Len(history) + 1
          BY <3>3, <3>5
        <4>2. s \in [1 .. Len(s) -> Change] /\ DOMAIN s = 1 .. Len(s)
          BY <4>1, LenProperties
        <4>3. s = [i \in DOMAIN s |-> s[i]]
          BY <4>2
        <4> QED BY <4>1, <4>3
      <3> QED BY <3>2, <3>4, <3>5, <3>6
    <2>8. trail' = Append(Audited, e) /\ exists'
      BY <1>2, <2>1, <2>3 DEF AuditInv, AddWorkflowHistory, row
    <2> QED BY <1>0, <2>2, <2>7, <2>8 DEF AuditInv
  <1>3. ASSUME UNCHANGED <<exists, history, trail>>, req[c].pc # "audit", req'[c].pc # "audit"
        PROVE  AuditInv(c)'
    BY <1>0, <1>3 DEF AuditInv, Audited
  <1>4. CASE \/ \E a \in Actors, to \in WorkflowStatus, f \in BOOLEAN : Begin(c, a, to, f)
             \/ CountRecent(c) \/ ReadAndDecide(c)
    <2>1. UNCHANGED <<exists, history, trail>> /\ req[c].pc # "audit"
      BY <1>4 DEF Begin, CountRecent, ReadAndDecide, row
    <2>2. req'[c].pc # "audit"
      <3>1. CASE CountRecent(c)
        <4>1. req[c] \in Asked
          BY <1>0, <3>1, ReqShape DEF CountRecent
        <4> QED BY <1>0, <3>1, <4>1 DEF CountRecent, TypeOK, Asked, Idle
      <3> QED BY <1>0, <1>4, <3>1 DEF Begin, ReadAndDecide, TypeOK, Idle
    <2> QED BY <1>3, <2>1, <2>2
  <1>5. CASE Tick \/ UNCHANGED vars
    BY <1>0, <1>5 DEF Tick, vars, row, AuditInv, Audited
  <1> QED BY <1>0, <1>1, <1>2, <1>4, <1>5 DEF Next, Step, DeleteMemory, Crash

\* One caller at a time, not killed in mid-call, on a row nobody deletes: the
\* audit log is the sequence of status changes that happened, up to the one
\* whose audit row is about to be inserted.
THEOREM AuditSafety ==
  ASSUME NEW CONSTANT c, Callers = {c}, ~MayDelete, ~MayCrash
  PROVE  Spec => []AuditIsTrail
  <1>1. Init => AuditInv(c)
    <2> SUFFICES ASSUME Init PROVE AuditInv(c)
      OBVIOUS
    <2>1. SerialInv(c)
      BY InitEstablishes DEF Init, SerialInv, Idle, DocumentedEdgesOnly
    <2>2. Audited = << >>
      BY DEF Init, Audited
    <2> QED BY <2>1, <2>2 DEF Init, AuditInv, Idle
  <1>2. AuditInv(c) /\ [Next]_vars => AuditInv(c)'
    BY AuditStep
  <1>3. AuditInv(c) => AuditIsTrail
    <2> SUFFICES ASSUME AuditInv(c) PROVE AuditIsTrail
      OBVIOUS
    <2>1. CASE req[c].pc = "audit"
      BY <2>1 DEF AuditInv, AuditIsTrail, Audited
    <2>2. CASE req[c].pc # "audit"
      <3>1. {e \in Callers : req[e].pc = "audit"} = {}
        BY <2>2
      <3> QED BY <2>2, <3>1 DEF AuditInv, AuditIsTrail, Audited
    <2> QED BY <2>1, <2>2
  <1> QED BY <1>1, <1>2, <1>3, PTL DEF Spec
=============================================================================
