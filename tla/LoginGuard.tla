----------------------------- MODULE LoginGuard -----------------------------
(***************************************************************************)
(* The login endpoint's defences: the fixed-window rate limits on shared   *)
(* SQLite rows (ratelimit.go) and the lockout table (auth_security.go), as *)
(* concurrent login attempts on one user name go through them:             *)
(*   limit     at a limiter: first the one of the address, then the user's *)
(*   hit       the limiter's transaction has counted and not committed     *)
(*   check     before lockedUntil is read                                  *)
(*   password  before the password is verified                             *)
(*   record    wrong password: before recordLoginFailure reads the row     *)
(*   upsert    the new row is computed and not written                     *)
(*   clear     right password: before recordLoginSuccess deletes the row   *)
(* Every statement may fail.  Time is counted in steps that divide the     *)
(* rate window, the lockout window and the lockout duration.  A limiter or *)
(* a throttle reads the clock with its first statement: what lies between  *)
(* is much shorter than a step.                                            *)
(***************************************************************************)
EXTENDS SqliteLocks, Integers, Sequences, FiniteSets

CONSTANTS
    Addresses,       \* client addresses
    IPLimit,         \* logins per window and address
    UserLimit,       \* logins per window and user name
    RateWindow,      \* length of a rate window
    Threshold,       \* wrong passwords that lock the user name
    LockWindow,      \* how long a wrong password counts
    LockDuration,    \* how long a lock lasts, configured without an upper limit
    Retention,       \* age at which a throttle row is deleted, fixed in the code
    MaxTime,         \* bound on time
    MaxLogins,       \* bound on login attempts
    StatementsFail   \* whether database errors happen

Attempts == Tx

ASSUME GuardConstants ==
    /\ {IPLimit, UserLimit, RateWindow, Threshold, LockDuration} \subseteq Nat \ {0}
    /\ LockWindow \in Nat /\ Retention \in Nat /\ MaxTime \in Nat /\ MaxLogins \in Nat
    /\ StatementsFail \in BOOLEAN

Never == 0 - 1

User == "user"

Keys == Addresses \cup {User}

\* A row that is not there.
NoThrottle == [count |-> 0, first |-> Never, locked |-> Never, updated |-> Never]

NoAttempt == [stage |-> "idle", key |-> User, window |-> 0, seen |-> 0,
              row |-> NoThrottle, stale |-> FALSE]

VARIABLES
    now,
    hits,        \* rate_limit_windows: key -> window start -> hits
    throttle,    \* the auth_login_throttles row of the user name
    attempts,
    logins,      \* attempts started, for the bound MaxLogins
    served,      \* history: attempts a limiter let pass by their count
    failures,    \* history: the times at which wrong passwords were counted
    answered,    \* history: those whose upsert is done, by the time of counting
    locks,       \* history: how many locks were set
    disturbed    \* history: a count was lost, cleared or overwritten

vars == <<now, hits, throttle, attempts, logins, served, failures, answered,
          locks, disturbed, lock>>

history == <<served, failures, answered, locks, disturbed>>

Times == 0..MaxTime

Init ==
    /\ now = 0
    /\ hits = [k \in Keys |-> [w \in Times |-> 0]]
    /\ throttle = NoThrottle
    /\ attempts = [a \in Attempts |-> NoAttempt]
    /\ logins = 0
    /\ served = [k \in Keys |-> [w \in Times |-> 0]]
    /\ failures = <<>> /\ answered = [t \in Times |-> 0]
    /\ locks = 0 /\ disturbed = FALSE
    /\ lock = LocksFree

-----------------------------------------------------------------------------
(* The rate limiter.                                                       *)

Limit(key) == IF key = User THEN UserLimit ELSE IPLimit

WindowStart == now - (now % RateWindow)

\* A POST to /api/login.
Start(a) == \E ip \in Addresses :
    /\ attempts[a].stage = "idle" /\ logins < MaxLogins
    /\ attempts' = [attempts EXCEPT ![a] = [NoAttempt EXCEPT !.stage = "limit", !.key = ip]]
    /\ logins' = logins + 1
    /\ UNCHANGED <<now, hits, throttle, lock, history>>

\* Where an attempt goes that a limiter lets pass.
Pass(a) ==
    attempts' = [attempts EXCEPT ![a] = IF @.key = User THEN [@ EXCEPT !.stage = "check"]
                                        ELSE [@ EXCEPT !.stage = "limit", !.key = User]]

Refuse(a) == attempts' = [attempts EXCEPT ![a] = NoAttempt]

\* INSERT OR IGNORE and UPDATE: the transaction is the only writer from here.
Hit(a) ==
    /\ attempts[a].stage = "limit"
    /\ Reserve(a)
    /\ attempts' = [attempts EXCEPT ![a].stage = "hit", ![a].window = WindowStart]
    /\ UNCHANGED <<now, hits, throttle, logins, history>>

\* Mutant: the count before this hit is compared.
WithinLimitBefore(n, key) == n - 1 <= Limit(key)

WithinLimit(n, key) == n <= Limit(key)

\* SELECT hits and COMMIT.
Decide(a) ==
    LET key == attempts[a].key
        w == attempts[a].window
        n == hits[key][w] + 1
    IN  /\ attempts[a].stage = "hit"
        /\ CommitLock(a)
        /\ hits' = [hits EXCEPT ![key][w] = n]
        /\ IF WithinLimit(n, key)
           THEN Pass(a) /\ served' = [served EXCEPT ![key][w] = @ + 1]
           ELSE Refuse(a) /\ UNCHANGED served
        /\ UNCHANGED <<now, throttle, logins, failures, answered, locks, disturbed>>

\* Every database error lets the attempt pass, uncounted.
LimiterFails(a) ==
    /\ StatementsFail /\ attempts[a].stage \in {"limit", "hit"}
    /\ Release(a)
    /\ Pass(a)
    /\ UNCHANGED <<now, hits, throttle, logins, history>>

-----------------------------------------------------------------------------
(* The lockout.                                                            *)

\* Mutant: the comparison is the wrong way round.
LockedBefore(row) == row.locked # Never /\ row.locked < now

Locked(row) == row.locked > now

\* lockedUntil: a locked user name is refused.
CheckLock(a) ==
    /\ attempts[a].stage = "check"
    /\ IF Locked(throttle) THEN Refuse(a)
       ELSE attempts' = [attempts EXCEPT ![a].stage = "password", ![a].seen = locks]
    /\ UNCHANGED <<now, hits, throttle, logins, history, lock>>

\* LoginPassword: the password is wrong or right.
Password(a) ==
    /\ attempts[a].stage = "password"
    /\ \E next \in {"record", "clear"} : attempts' = [attempts EXCEPT ![a].stage = next]
    /\ UNCHANGED <<now, hits, throttle, logins, history, lock>>

\* Mutant: failures count for ever.
CountedAlways(row, t) ==
    LET count == row.count + 1
    IN  [count |-> count, first |-> IF row.first = Never THEN t ELSE row.first, updated |-> t,
         locked |-> IF count >= Threshold THEN t + LockDuration ELSE Never]

\* Mutant: the lock comes one failure late.
CountedLate(row, t) ==
    LET fresh == row.first = Never \/ t - row.first > LockWindow
        count == IF fresh THEN 1 ELSE row.count + 1
    IN  [count |-> count, first |-> IF fresh THEN t ELSE row.first, updated |-> t,
         locked |-> IF count > Threshold THEN t + LockDuration ELSE Never]

\* The row recordLoginFailure writes after it has read row at time t.
Counted(row, t) ==
    LET fresh == row.first = Never \/ t - row.first > LockWindow
        count == IF fresh THEN 1 ELSE row.count + 1
    IN  [count |-> count, first |-> IF fresh THEN t ELSE row.first, updated |-> t,
         locked |-> IF count >= Threshold THEN t + LockDuration ELSE Never]

\* The SELECT of recordLoginFailure, and what is computed from it.
ReadThrottle(a) ==
    /\ attempts[a].stage = "record"
    /\ attempts' = [attempts EXCEPT ![a].stage = "upsert", ![a].row = Counted(throttle, now)]
    /\ failures' = Append(failures, now)
    /\ UNCHANGED <<now, hits, throttle, logins, served, answered, locks, disturbed, lock>>

\* What other attempts have read is no longer the row.
Overtake(a) ==
    [b \in Attempts |-> IF b = a THEN NoAttempt
                        ELSE IF attempts[b].stage = "upsert" THEN [attempts[b] EXCEPT !.stale = TRUE]
                        ELSE attempts[b]]

\* The upsert, a statement of its own.
Upsert(a) ==
    LET row == attempts[a].row
    IN  /\ attempts[a].stage = "upsert"
        /\ AutoCommit
        /\ throttle' = row
        /\ attempts' = Overtake(a)
        /\ answered' = [answered EXCEPT ![row.updated] = @ + 1]
        /\ locks' = locks + (IF row.locked # Never THEN 1 ELSE 0)
        /\ disturbed' = (disturbed \/ attempts[a].stale)
        /\ UNCHANGED <<now, hits, logins, served, failures, lock>>

\* recordLoginSuccess.
Clear(a) ==
    /\ attempts[a].stage = "clear"
    /\ AutoCommit
    /\ throttle' = NoThrottle
    /\ attempts' = Overtake(a)
    /\ answered' = [t \in Times |-> 0]
    /\ UNCHANGED <<now, hits, logins, served, failures, locks, disturbed, lock>>

\* A statement fails: lockedUntil refuses the attempt, recording is given up.
StatementFails(a) ==
    /\ StatementsFail /\ attempts[a].stage \in {"check", "password", "record", "upsert", "clear"}
    /\ Refuse(a)
    /\ disturbed' = (disturbed \/ attempts[a].stage \in {"record", "upsert"})
    /\ UNCHANGED <<now, hits, throttle, logins, served, failures, answered, locks, lock>>

\* The two clean-ups that follow a counted attempt: old windows, and throttle
\* rows that were not written for a long time.
MaybeCleanup ==
    /\ AutoCommit
    /\ \/ /\ hits' = [k \in Keys |-> [w \in Times |->
                         IF w < WindowStart - 2 * RateWindow THEN 0 ELSE hits[k][w]]]
          /\ UNCHANGED throttle
       \/ /\ throttle.updated # Never /\ throttle.updated < now - Retention
          /\ throttle' = NoThrottle
          /\ UNCHANGED hits
    /\ UNCHANGED <<now, attempts, logins, history, lock>>

Tick ==
    /\ now < MaxTime
    /\ now' = now + 1
    /\ UNCHANGED <<hits, throttle, attempts, logins, history, lock>>

AttemptStep(a) ==
    \/ Start(a) \/ Hit(a) \/ Decide(a) \/ LimiterFails(a) \/ CheckLock(a) \/ Password(a)
    \/ ReadThrottle(a) \/ Upsert(a) \/ Clear(a) \/ StatementFails(a)

Next == (\E a \in Attempts : AttemptStep(a)) \/ MaybeCleanup \/ Tick

Spec == Init /\ [][Next]_vars

-----------------------------------------------------------------------------
(* What is checked.                                                        *)

\* Types, and: a row that is there has counted at least one failure, which is
\* not younger than the row, and is locked exactly from the threshold on.
TypeOK ==
    /\ now \in Times /\ lock \in [Tx -> Locks] /\ logins \in 0..MaxLogins
    /\ throttle # NoThrottle =>
          /\ throttle.count \in 1..MaxLogins
          /\ throttle.first \in 0..throttle.updated /\ throttle.updated \in 0..now
          /\ throttle.locked = IF throttle.count < Threshold THEN Never
                               ELSE throttle.updated + LockDuration

\* However many requests arrive at once, a limiter lets no more than its limit
\* pass in a window by their count; database errors alone are let through.
WindowLimit == \A k \in Keys, w \in Times : served[k][w] <= Limit(k)

FailuresIn(times) == {i \in DOMAIN failures : failures[i] \in times}

\* Nobody is locked out without the threshold of wrong passwords within the
\* lockout window before the lock, however stale the rows that were counted.
LockIsEarned ==
    throttle.locked # Never =>
        LET set == throttle.locked - LockDuration
        IN  Cardinality(FailuresIn((set - LockWindow)..set)) >= Threshold

\* When the threshold of wrong passwords of one step is on record the user name
\* is locked, unless attempts overlapped or a statement failed.
LockWhenDue == answered[now] >= Threshold => disturbed \/ Locked(throttle)

\* An attempt that had passed the lock check before the lock was set writes.
EarlierAttemptEnds ==
    \E a \in Attempts : /\ attempts[a].stage \in {"upsert", "clear"}
                        /\ attempts'[a].stage = "idle"
                        /\ attempts[a].seen < locks

\* The lock is configured to outlast its row, and the row is that old.
RowOutlived == LockDuration > Retention /\ now - throttle.updated > Retention

\* A lock is lifted before its time only by an attempt that had passed the
\* lock check before the lock was set or, where LOGIN_LOCKOUT_DURATION_MINUTES
\* is more than the day a row is kept, by the clean-up a day after the lock.
LockLiftNeedsCause ==
    [][throttle.locked > now /\ throttle'.locked < throttle.locked =>
          EarlierAttemptEnds \/ RowOutlived]_vars

\* What the security notes say of the lockout: the threshold of wrong passwords
\* triggers a cool-down.
ThresholdLocks == answered[now] >= Threshold => Locked(throttle)
=============================================================================
