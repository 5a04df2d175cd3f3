------------------------------ MODULE RestAuth ------------------------------
(***************************************************************************)
(* Login, TOTP challenge and sessions of the REST server.  A handler calls  *)
(* the store without awaiting in between, so on the one event loop of the   *)
(* server each request is one step; the command line changes the same       *)
(* tables from outside.  One tick is one TOTP step.                         *)
(***************************************************************************)
EXTENDS Naturals, FiniteSets

CONSTANTS
  Tokens,
  LoginThreshold, TotpThreshold, MaxAttempts,  \* lockout and challenge limits
  LockoutTicks, ChallengeTicks, SessionTicks, SessionCap,
  MaxTime, MaxSessions, MaxFailures            \* bounds

\* What auth_store.py's limits satisfy: there is a threshold to reach, and one
\* renewal of a session does not carry it past the absolute cap.
LimitsOK ==
  /\ LoginThreshold \in Nat \ {0} /\ TotpThreshold \in Nat \ {0} /\ MaxAttempts \in Nat \ {0}
  /\ LockoutTicks \in Nat /\ ChallengeTicks \in Nat
  /\ SessionTicks \in Nat /\ SessionCap \in Nat /\ SessionTicks <= SessionCap
  /\ MaxTime \in Nat /\ MaxFailures \in Nat

VARIABLES
  enrolled,  \* tokens with a TOTP secret
  revoked,
  disabled,  \* token -> time it was locked, or None
  fail,      \* token -> failure_count
  totpFail,  \* token -> totp_failure_count
  lastStep,  \* token -> totp_last_step, or None
  challenge, \* token -> its one challenge, or None
  sessions,  \* token -> the sessions it opened
  verified,  \* ghost: token -> successful verifications in this step
  now

rvars == <<enrolled, revoked, disabled, fail, totpFail, lastStep, challenge, sessions, verified, now>>

None == MaxTime + 1
NoChallenge == [expires |-> None, attempts |-> 0]
Session == [created : 0..MaxTime, expires : 0..(MaxTime + SessionCap)]

TypeOK ==
  /\ enrolled \subseteq Tokens /\ revoked \subseteq Tokens
  /\ disabled \in [Tokens -> 0..None] /\ lastStep \in [Tokens -> 0..None]
  /\ fail \in [Tokens -> 0..MaxFailures] /\ totpFail \in [Tokens -> 0..MaxFailures]
  /\ \A t \in Tokens : sessions[t] \subseteq Session /\ challenge[t].attempts < MaxAttempts
  /\ now \in 0..MaxTime

Init ==
  /\ enrolled \in SUBSET Tokens /\ revoked = {}
  /\ disabled = [t \in Tokens |-> None] /\ lastStep = [t \in Tokens |-> None]
  /\ fail = [t \in Tokens |-> 0] /\ totpFail = [t \in Tokens |-> 0]
  /\ challenge = [t \in Tokens |-> NoChallenge] /\ sessions = [t \in Tokens |-> {}]
  /\ verified = [t \in Tokens |-> 0] /\ now = 0

-----------------------------------------------------------------------------
\* Mutant: the lock is compared with the wrong end of the window.
Locked_atStart(t) == disabled[t] # None /\ now < disabled[t]
Locked(t) == disabled[t] # None /\ now < disabled[t] + LockoutTicks

\* is_token_active; a lock whose time is over is cleared by the check itself.
is_token_active(t) == t \notin revoked /\ ~Locked(t)
Clears(t) == t \notin revoked /\ disabled[t] # None /\ ~Locked(t)

\* Mutant: only the lock is cleared, the counters stay.
ClearedCount_kept(t, count) == count
\* _clear_lockout
ClearedCount(t, count) == IF Clears(t) THEN 0 ELSE count
ClearedLock(t) == IF Clears(t) THEN None ELSE disabled[t]

\* increment_login_failure: the count and, at the threshold, the lock
LoginFailure(t) ==
  LET n == ClearedCount(t, fail[t]) + 1 IN
  /\ fail[t] < MaxFailures
  /\ fail' = [fail EXCEPT ![t] = n]
  /\ totpFail' = [totpFail EXCEPT ![t] = ClearedCount(t, totpFail[t])]
  /\ disabled' = [disabled EXCEPT ![t] = IF n >= LoginThreshold THEN now ELSE ClearedLock(t)]

\* increment_totp_failure
TotpFailure(t) ==
  LET n == ClearedCount(t, totpFail[t]) + 1 IN
  /\ totpFail[t] < MaxFailures
  /\ totpFail' = [totpFail EXCEPT ![t] = n]
  /\ fail' = [fail EXCEPT ![t] = ClearedCount(t, fail[t])]
  /\ disabled' = [disabled EXCEPT ![t] = IF n >= TotpThreshold THEN now ELSE ClearedLock(t)]

ClearIfDue(t) ==
  /\ fail' = [fail EXCEPT ![t] = ClearedCount(t, fail[t])]
  /\ totpFail' = [totpFail EXCEPT ![t] = ClearedCount(t, totpFail[t])]
  /\ disabled' = [disabled EXCEPT ![t] = ClearedLock(t)]

\* create_session and reset_failures
OpenSession(t) ==
  /\ Cardinality(sessions[t]) < MaxSessions
  /\ sessions' = [sessions EXCEPT ![t] = @ \cup {[created |-> now, expires |-> now + SessionTicks]}]
  /\ fail' = [fail EXCEPT ![t] = 0] /\ totpFail' = [totpFail EXCEPT ![t] = 0]
  /\ disabled' = [disabled EXCEPT ![t] = ClearedLock(t)]

-----------------------------------------------------------------------------
create_challenge == [expires |-> now + ChallengeTicks, attempts |-> 0]

\* One whose attempts are used up was deleted by the last of them.
is_challenge_valid(t) == challenge[t] # NoChallenge /\ now <= challenge[t].expires

\* increment_challenge_attempts, then invalidate_challenge at the limit
AttemptUsed(c) ==
  IF c.attempts + 1 >= MaxAttempts THEN NoChallenge ELSE [c EXCEPT !.attempts = @ + 1]

\* POST /auth/login with a token the store knows: a challenge (which replaces the
\* one before) when TOTP is enrolled, else a session; an inactive token counts a
\* failure.
Login(t) ==
  /\ IF ~is_token_active(t)
       THEN LoginFailure(t) /\ UNCHANGED <<challenge, sessions>>
     ELSE IF t \in enrolled
       THEN /\ challenge' = [challenge EXCEPT ![t] = create_challenge]
            /\ ClearIfDue(t) /\ UNCHANGED sessions
       ELSE OpenSession(t) /\ UNCHANGED challenge
  /\ UNCHANGED <<enrolled, revoked, lastStep, verified, now>>

StepUsed(t) == lastStep[t] # None /\ now <= lastStep[t]

WrongCode(t) ==
  /\ challenge' = [challenge EXCEPT ![t] = AttemptUsed(@)]
  /\ TotpFailure(t)
  /\ UNCHANGED <<lastStep, sessions, verified>>

RightCode(t) ==
  IF StepUsed(t)
    THEN TotpFailure(t) /\ UNCHANGED <<challenge, lastStep, sessions, verified>>
    ELSE /\ lastStep' = [lastStep EXCEPT ![t] = now]
         /\ challenge' = [challenge EXCEPT ![t] = NoChallenge]
         /\ verified' = [verified EXCEPT ![t] = @ + 1]
         /\ OpenSession(t)

\* POST /auth/verify with the token's challenge
Verify(t) ==
  /\ is_challenge_valid(t)
  /\ \/ /\ ~is_token_active(t)
        /\ challenge' = [challenge EXCEPT ![t] = NoChallenge]
        /\ UNCHANGED <<fail, totpFail, disabled, lastStep, sessions, verified>>
     \/ /\ is_token_active(t) /\ t \notin enrolled
        /\ ClearIfDue(t) /\ UNCHANGED <<challenge, lastStep, sessions, verified>>
     \/ is_token_active(t) /\ t \in enrolled /\ (WrongCode(t) \/ RightCode(t))
  /\ UNCHANGED <<enrolled, revoked, now>>

\* touch_session
touch_session(s) ==
  [s EXCEPT !.expires = IF now + SessionTicks < s.created + SessionCap
                          THEN now + SessionTicks ELSE s.created + SessionCap]

\* is_session_valid
Admits(s) == now <= s.expires /\ now <= s.created + SessionCap

\* AuthMiddleware: a valid session is touched and the request goes on.
Request(t, s) ==
  /\ s \in sessions[t] /\ Admits(s)
  /\ sessions' = [sessions EXCEPT ![t] = (@ \ {s}) \cup {touch_session(s)}]
  /\ UNCHANGED <<enrolled, revoked, disabled, fail, totpFail, lastStep, challenge, verified, now>>

Logout(t, s) ==
  /\ s \in sessions[t]
  /\ sessions' = [sessions EXCEPT ![t] = @ \ {s}]
  /\ UNCHANGED <<enrolled, revoked, disabled, fail, totpFail, lastStep, challenge, verified, now>>

\* The command line: enrol, clear, revoke.
Enrol(t) ==
  /\ enrolled' = IF t \in enrolled THEN enrolled \ {t} ELSE enrolled \cup {t}
  /\ UNCHANGED <<revoked, disabled, fail, totpFail, lastStep, challenge, sessions, verified, now>>

Revoke(t) ==
  /\ t \notin revoked /\ revoked' = revoked \cup {t}
  /\ UNCHANGED <<enrolled, disabled, fail, totpFail, lastStep, challenge, sessions, verified, now>>

Tick ==
  /\ now < MaxTime /\ now' = now + 1
  /\ verified' = [t \in Tokens |-> 0]
  /\ UNCHANGED <<enrolled, revoked, disabled, fail, totpFail, lastStep, challenge, sessions>>

Next ==
  \/ \E t \in Tokens : Login(t) \/ Verify(t) \/ Enrol(t) \/ Revoke(t)
                       \/ \E s \in sessions[t] : Request(t, s) \/ Logout(t, s)
  \/ Tick

Spec == Init /\ [][Next]_rvars

-----------------------------------------------------------------------------
\* Reaching a failure threshold always locks, and a lock that ends gives the token
\* its full allowance back: an unlocked token is below both thresholds.
ThresholdLocks ==
  \A t \in Tokens : disabled[t] = None => fail[t] < LoginThreshold /\ totpFail[t] < TotpThreshold

\* A lock is kept for its whole window: until then nothing opens a session for the
\* token, and no success on another path lifts it.
LockoutStep ==
  \A t \in Tokens : disabled[t] # None /\ now < disabled[t] + LockoutTicks =>
    disabled'[t] # None /\ {s.created : s \in sessions'[t]} \subseteq {s.created : s \in sessions[t]}
LockoutHolds == [][LockoutStep]_rvars

\* At most one verification succeeds in a TOTP step, across challenges, lockouts
\* and re-enrolment.
OncePerStep == \A t \in Tokens : verified[t] <= 1

\* Activity never carries a session past its absolute cap.
SessionCapped == \A t \in Tokens : \A s \in sessions[t] : s.expires <= s.created + SessionCap

\* What the login paths promise: thresholds lock, a TOTP step is used once, and
\* no session outlives its cap.
LoginsSafe ==
  /\ TypeOK /\ ThresholdLocks /\ OncePerStep /\ SessionCapped
=============================================================================
