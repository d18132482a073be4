-------------------------- MODULE LoginGuardProofs --------------------------
(***************************************************************************)
(* Proofs about LoginGuard, for any attempts, addresses, limits and times. *)
(*                                                                         *)
(* The limiter: nothing but the attempt that holds RESERVED changes a      *)
(* window's hits, and the clean-up leaves the windows of that attempt      *)
(* alone, so hits stay at or above what was served (WindowsOK).            *)
(*                                                                         *)
(* The lockout: an attempt that has passed the lock check and has seen     *)
(* every lock set since knows that the user name is not locked (SeenOK).   *)
(* Unless a count was lost, the row has counted everything answered in     *)
(* this step, and a row computed from it counts one more (DueOK).  A count *)
(* is paid for by an attempt: those that may still read the row are a      *)
(* finite set, whose size and the count stay within the logins (CountOK).  *)
(* What a row counts are failures on record since its first (EarnedOK).    *)
(***************************************************************************)
EXTENDS LoginGuard, TLAPS, FiniteSetTheorems

Stages == {"idle", "limit", "hit", "check", "password", "record", "upsert", "clear"}

Throttles == [count : Nat, first : Int, locked : Int, updated : Int]

AttemptStates ==
    [stage : Stages, key : Keys, window : Times, seen : Nat, row : Throttles,
     stale : BOOLEAN]

LimiterTypes ==
    /\ now \in Times /\ lock \in [Tx -> Locks] /\ logins \in 0..MaxLogins
    /\ attempts \in [Attempts -> AttemptStates]
    /\ hits \in [Keys -> [Times -> Nat]] /\ served \in [Keys -> [Times -> Nat]]

LockoutTypes ==
    /\ throttle \in Throttles
    /\ failures \in Seq(Times) /\ answered \in [Times -> Nat]
    /\ locks \in Nat /\ disturbed \in BOOLEAN

\* A row as recordLoginFailure writes it.
Written(row, t) ==
    /\ row.count >= 1
    /\ row.first \in 0..row.updated /\ row.updated \in 0..t
    /\ row.updated - row.first <= LockWindow
    /\ row.locked = IF row.count < Threshold THEN Never ELSE row.updated + LockDuration

RowsOK ==
    /\ throttle = NoThrottle \/ Written(throttle, now)
    /\ \A a \in Attempts : attempts[a].stage = "upsert" => Written(attempts[a].row, now)

\* Between its first write and its commit, and only then, an attempt holds RESERVED.
HoldsOK ==
    \A a \in Attempts : lock[a] = IF attempts[a].stage = "hit" THEN "reserved" ELSE "none"

WindowsOK ==
    /\ \A k \in Keys, w \in Times : w >= now - 2 * RateWindow => served[k][w] <= hits[k][w]
    /\ \A a \in Attempts : attempts[a].stage = "hit" =>
          served[attempts[a].key][attempts[a].window] <= hits[attempts[a].key][attempts[a].window]

Checked == {"password", "record", "upsert", "clear"}

SeenOK ==
    \A a \in Attempts : attempts[a].stage \in Checked =>
        attempts[a].seen <= locks /\ (attempts[a].seen = locks => throttle.locked <= now)

DueOK ==
    ~disturbed =>
        /\ \A t \in Times : t > now => answered[t] = 0
        /\ answered[now] > 0 => throttle.updated = now /\ answered[now] <= throttle.count
        /\ \A a \in Attempts : attempts[a].stage = "upsert" /\ ~attempts[a].stale =>
              IF attempts[a].row.updated = now THEN answered[now] < attempts[a].row.count
              ELSE answered[now] = 0

\* Attempts that may still count a wrong password.
MayCount == {a \in Attempts : attempts[a].stage \in {"limit", "hit", "check", "password", "record"}}

CountOK ==
    /\ IsFiniteSet(MayCount)
    /\ throttle.count + Cardinality(MayCount) <= logins
    /\ \A a \in Attempts : attempts[a].stage = "upsert" =>
          attempts[a].row.count + Cardinality(MayCount) <= logins

\* What a row counts are failures since its first, and as many of them.
RowEarned(row) == Cardinality(FailuresIn(row.first..row.updated)) >= row.count

EarnedOK ==
    /\ throttle # NoThrottle => RowEarned(throttle)
    /\ \A a \in Attempts : attempts[a].stage = "upsert" => RowEarned(attempts[a].row)

IInv ==
    /\ LimiterTypes /\ LockoutTypes /\ RowsOK /\ HoldsOK /\ WindowsOK /\ WindowLimit
    /\ SeenOK /\ DueOK /\ CountOK /\ EarnedOK

-----------------------------------------------------------------------------
(* What the steps do to an attempt.                                        *)

Others(a) == \A b \in Attempts \ {a} : attempts'[b] = attempts[b]

Moved(a) == attempts' \in [Attempts -> AttemptStates] /\ Others(a)

LEMMA Idle == NoAttempt \in AttemptStates /\ NoThrottle \in Throttles
BY GuardConstants DEF NoAttempt, AttemptStates, Stages, Keys, User, Times, NoThrottle, Throttles, Never

LEMMA MovesTo ==
    ASSUME attempts \in [Attempts -> AttemptStates], NEW a \in Attempts,
           NEW q \in AttemptStates, attempts' = [attempts EXCEPT ![a] = q]
    PROVE  Moved(a) /\ attempts'[a] = q
BY DEF Moved, Others

LEMMA WindowStarts ==
    ASSUME now \in Times
    PROVE  WindowStart \in Times /\ WindowStart > now - RateWindow
<1>1. now \in Nat /\ RateWindow \in Nat \ {0} /\ now <= MaxTime /\ MaxTime \in Nat
  BY GuardConstants DEF Times
<1>2. now % RateWindow \in 0..(RateWindow - 1) /\ now % RateWindow <= now
  BY <1>1
<1>3. QED
  BY <1>1, <1>2 DEF WindowStart, Times

LEMMA StartEffect ==
    ASSUME LimiterTypes, NEW a \in Attempts, Start(a)
    PROVE  /\ Moved(a) /\ attempts[a].stage = "idle"
           /\ attempts'[a].stage = "limit"
           /\ logins < MaxLogins /\ logins' = logins + 1
<1>1. PICK ip \in Addresses :
         attempts' = [attempts EXCEPT ![a] = [NoAttempt EXCEPT !.stage = "limit", !.key = ip]]
  BY DEF Start
<1>2. [NoAttempt EXCEPT !.stage = "limit", !.key = ip] \in AttemptStates
  BY Idle DEF AttemptStates, Stages, Keys
<1>3. [NoAttempt EXCEPT !.stage = "limit", !.key = ip].stage = "limit"
  BY DEF NoAttempt
<1>4. Moved(a) /\ attempts'[a] = [NoAttempt EXCEPT !.stage = "limit", !.key = ip]
  BY <1>1, <1>2, MovesTo DEF LimiterTypes
<1>5. QED
  BY <1>3, <1>4 DEF Start

LEMMA HitEffect ==
    ASSUME LimiterTypes, NEW a \in Attempts, Hit(a)
    PROVE  /\ Moved(a) /\ attempts[a].stage = "limit"
           /\ attempts'[a].stage = "hit" /\ attempts'[a].window = WindowStart
           /\ attempts'[a].key = attempts[a].key
<1> DEFINE q == [attempts[a] EXCEPT !.stage = "hit", !.window = WindowStart]
<1>1. attempts[a] \in AttemptStates
  BY DEF LimiterTypes
<1>2. /\ q \in AttemptStates /\ q.stage = "hit" /\ q.window = WindowStart
      /\ q.key = attempts[a].key
  BY <1>1, WindowStarts DEF AttemptStates, Stages, LimiterTypes
<1>3. attempts' = [attempts EXCEPT ![a] = q]
  BY DEF Hit, LimiterTypes
<1>4. Moved(a) /\ attempts'[a] = q
  BY <1>2, <1>3, MovesTo DEF LimiterTypes
<1>5. QED
  BY <1>2, <1>4 DEF Hit

LEMMA PassEffect ==
    ASSUME LimiterTypes, NEW a \in Attempts, Pass(a)
    PROVE  Moved(a) /\ attempts'[a].stage \in {"check", "limit"}
<1> DEFINE q == IF attempts[a].key = User THEN [attempts[a] EXCEPT !.stage = "check"]
                ELSE [attempts[a] EXCEPT !.stage = "limit", !.key = User]
<1>1. attempts[a] \in AttemptStates
  BY DEF LimiterTypes
<1>2. q \in AttemptStates /\ q.stage \in {"check", "limit"}
  BY <1>1 DEF AttemptStates, Stages, Keys
<1>3. attempts' = [attempts EXCEPT ![a] = q]
  BY DEF Pass, LimiterTypes
<1>4. Moved(a) /\ attempts'[a] = q
  BY <1>2, <1>3, MovesTo DEF LimiterTypes
<1>5. QED
  BY <1>2, <1>4

LEMMA RefuseEffect ==
    ASSUME LimiterTypes, NEW a \in Attempts, Refuse(a)
    PROVE  Moved(a) /\ attempts'[a] = NoAttempt /\ attempts'[a].stage = "idle"
<1>1. Moved(a) /\ attempts'[a] = NoAttempt
  BY Idle, MovesTo DEF LimiterTypes, Refuse
<1>2. QED
  BY <1>1 DEF NoAttempt

LEMMA CheckLockEffect ==
    ASSUME LimiterTypes, LockoutTypes, NEW a \in Attempts, CheckLock(a)
    PROVE  /\ Moved(a) /\ attempts[a].stage = "check"
           /\ \/ attempts'[a].stage = "idle"
              \/ /\ attempts'[a].stage = "password" /\ attempts'[a].seen = locks
                 /\ ~Locked(throttle)
<1>1. CASE Locked(throttle)
  BY <1>1, RefuseEffect DEF CheckLock
<1>2. CASE ~Locked(throttle)
  <2> DEFINE q == [attempts[a] EXCEPT !.stage = "password", !.seen = locks]
  <2>1. attempts[a] \in AttemptStates
    BY DEF LimiterTypes
  <2>2. q \in AttemptStates /\ q.stage = "password" /\ q.seen = locks
    BY <2>1 DEF AttemptStates, Stages, LockoutTypes
  <2>3. attempts' = [attempts EXCEPT ![a] = q]
    BY <1>2 DEF CheckLock, LimiterTypes
  <2>4. Moved(a) /\ attempts'[a] = q
    BY <2>2, <2>3, MovesTo DEF LimiterTypes
  <2>5. QED
    BY <1>2, <2>2, <2>4 DEF CheckLock
<1>3. QED
  BY <1>1, <1>2

LEMMA PasswordEffect ==
    ASSUME LimiterTypes, NEW a \in Attempts, Password(a)
    PROVE  /\ Moved(a) /\ attempts[a].stage = "password"
           /\ attempts'[a].stage \in {"record", "clear"}
           /\ attempts'[a].seen = attempts[a].seen
<1>1. PICK next \in {"record", "clear"} : attempts' = [attempts EXCEPT ![a].stage = next]
  BY DEF Password
<1> DEFINE q == [attempts[a] EXCEPT !.stage = next]
<1>2. attempts[a] \in AttemptStates
  BY DEF LimiterTypes
<1>3. q \in AttemptStates /\ q.stage = next /\ q.seen = attempts[a].seen
  BY <1>2 DEF AttemptStates, Stages
<1>4. attempts' = [attempts EXCEPT ![a] = q]
  BY <1>1 DEF LimiterTypes
<1>5. Moved(a) /\ attempts'[a] = q
  BY <1>3, <1>4, MovesTo DEF LimiterTypes
<1>6. QED
  BY <1>3, <1>5 DEF Password

LEMMA CountedRow ==
    ASSUME LimiterTypes, LockoutTypes, RowsOK
    PROVE  LET row == Counted(throttle, now)
           IN  /\ row \in Throttles /\ Written(row, now) /\ row.updated = now
               /\ row.count <= throttle.count + 1
               /\ throttle.updated = now => row.count = throttle.count + 1
<1> DEFINE fresh == throttle.first = Never \/ now - throttle.first > LockWindow
           count == IF fresh THEN 1 ELSE throttle.count + 1
           first == IF fresh THEN now ELSE throttle.first
           locked == IF count >= Threshold THEN now + LockDuration ELSE Never
<1>1. Counted(throttle, now) = [count |-> count, first |-> first, updated |-> now, locked |-> locked]
  BY DEF Counted
<1>2. /\ throttle.count \in Nat /\ throttle.first \in Int /\ throttle.updated \in Int
      /\ now \in Nat /\ Threshold \in Nat /\ LockDuration \in Nat /\ LockWindow \in Nat
      /\ Never \in Int /\ Never < 0
  BY GuardConstants DEF LimiterTypes, LockoutTypes, Throttles, Times, Never
<1>3. \/ throttle.first = Never /\ throttle.updated = Never
      \/ /\ throttle.first \in 0..throttle.updated /\ throttle.updated \in 0..now
         /\ throttle.updated - throttle.first <= LockWindow
  BY DEF RowsOK, Written, NoThrottle
<1>4. count \in Nat /\ count >= 1 /\ count <= throttle.count + 1
  BY <1>2
<1>5. first \in 0..now /\ now - first <= LockWindow
  <2>1. CASE fresh
    BY <2>1, <1>2
  <2>2. CASE ~fresh
    BY <2>2, <1>2, <1>3
  <2>3. QED
    BY <2>1, <2>2
<1>6. locked \in Int /\ locked = IF count < Threshold THEN Never ELSE now + LockDuration
  BY <1>2, <1>4
<1>7. throttle.updated = now => count = throttle.count + 1
  BY <1>2, <1>3
<1> HIDE DEF fresh, count, first, locked
<1>8. QED
  BY <1>1, <1>2, <1>4, <1>5, <1>6, <1>7 DEF Throttles, Written

LEMMA ReadThrottleEffect ==
    ASSUME LimiterTypes, LockoutTypes, RowsOK, NEW a \in Attempts, ReadThrottle(a)
    PROVE  /\ Moved(a) /\ attempts[a].stage = "record"
           /\ attempts'[a].stage = "upsert" /\ attempts'[a].row = Counted(throttle, now)
           /\ attempts'[a].seen = attempts[a].seen
<1> DEFINE q == [attempts[a] EXCEPT !.stage = "upsert", !.row = Counted(throttle, now)]
<1>1. attempts[a] \in AttemptStates
  BY DEF LimiterTypes
<1>2. Counted(throttle, now) \in Throttles
  BY CountedRow
<1>3. /\ q \in AttemptStates /\ q.stage = "upsert" /\ q.row = Counted(throttle, now)
      /\ q.seen = attempts[a].seen
  BY <1>1, <1>2 DEF AttemptStates, Stages
<1>4. attempts' = [attempts EXCEPT ![a] = q]
  BY DEF ReadThrottle, LimiterTypes
<1>5. Moved(a) /\ attempts'[a] = q
  BY <1>3, <1>4, MovesTo DEF LimiterTypes
<1>6. QED
  BY <1>3, <1>5 DEF ReadThrottle

LEMMA OvertakeEffect ==
    ASSUME LimiterTypes, NEW a \in Attempts, attempts' = Overtake(a)
    PROVE  /\ attempts' \in [Attempts -> AttemptStates]
           /\ attempts'[a] = NoAttempt /\ attempts'[a].stage = "idle"
           /\ \A b \in Attempts \ {a} :
                 /\ attempts'[b].stage = attempts[b].stage /\ attempts'[b].key = attempts[b].key
                 /\ attempts'[b].window = attempts[b].window
                 /\ attempts'[b].seen = attempts[b].seen /\ attempts'[b].row = attempts[b].row
                 /\ attempts[b].stage = "upsert" => attempts'[b].stale
<1>1. ASSUME NEW b \in Attempts
      PROVE  /\ attempts[b] \in AttemptStates
             /\ [attempts[b] EXCEPT !.stale = TRUE] \in AttemptStates
  BY DEF LimiterTypes, AttemptStates
<1>2. attempts' = [b \in Attempts |-> IF b = a THEN NoAttempt
                     ELSE IF attempts[b].stage = "upsert" THEN [attempts[b] EXCEPT !.stale = TRUE]
                     ELSE attempts[b]]
  BY DEF Overtake
<1>3. attempts' \in [Attempts -> AttemptStates]
  BY <1>1, <1>2, Idle
<1>4. attempts'[a] = NoAttempt /\ attempts'[a].stage = "idle"
  BY <1>2 DEF NoAttempt
<1>5. ASSUME NEW b \in Attempts \ {a}
      PROVE  /\ attempts'[b].stage = attempts[b].stage /\ attempts'[b].key = attempts[b].key
             /\ attempts'[b].window = attempts[b].window
             /\ attempts'[b].seen = attempts[b].seen /\ attempts'[b].row = attempts[b].row
             /\ attempts[b].stage = "upsert" => attempts'[b].stale
  <2>1. attempts[b] \in AttemptStates
    BY <1>1
  <2>2. CASE attempts[b].stage = "upsert"
    <3>1. attempts'[b] = [attempts[b] EXCEPT !.stale = TRUE]
      BY <1>2, <2>2
    <3>2. QED
      BY <2>1, <3>1 DEF AttemptStates
  <2>3. CASE attempts[b].stage # "upsert"
    BY <1>2, <2>3
  <2>4. QED
    BY <2>2, <2>3
<1>6. QED
  BY <1>3, <1>4, <1>5

-----------------------------------------------------------------------------
(* What the invariant needs of a step that leaves the lockout's row alone. *)

LEMMA CountWithin ==
    ASSUME LimiterTypes, LockoutTypes, CountOK, MayCount' \subseteq MayCount, logins' = logins,
           throttle' = throttle,
           \A b \in Attempts : attempts'[b].stage = "upsert" =>
              \/ attempts[b].stage = "upsert" /\ attempts'[b].row = attempts[b].row
              \/ attempts'[b].row.count + Cardinality(MayCount') <= logins
    PROVE  CountOK'
<1>1. IsFiniteSet(MayCount') /\ Cardinality(MayCount') <= Cardinality(MayCount)
  BY FS_Subset DEF CountOK
<1>2. Cardinality(MayCount') \in Nat /\ Cardinality(MayCount) \in Nat
  BY <1>1, FS_CardinalityType DEF CountOK
<1>3. throttle.count \in Nat /\ logins \in Nat
  BY GuardConstants DEF LimiterTypes, LockoutTypes, Throttles
<1>4. throttle'.count + Cardinality(MayCount') <= logins'
  BY <1>1, <1>2, <1>3 DEF CountOK
<1>5. ASSUME NEW b \in Attempts, attempts'[b].stage = "upsert"
      PROVE  attempts'[b].row.count + Cardinality(MayCount') <= logins'
  <2>1. CASE attempts[b].stage = "upsert" /\ attempts'[b].row = attempts[b].row
    <3>1. attempts[b].row.count + Cardinality(MayCount) <= logins /\ attempts[b].row.count \in Nat
      BY <2>1 DEF CountOK, LimiterTypes, AttemptStates, Throttles
    <3>2. QED
      BY <1>1, <1>2, <1>3, <2>1, <3>1
  <2>2. QED
    BY <1>5, <2>1
<1>6. QED
  BY <1>1, <1>4, <1>5 DEF CountOK

LEMMA EarnedKept ==
    ASSUME EarnedOK, failures' = failures,
           \/ throttle' \in {throttle, NoThrottle}
           \/ \E a \in Attempts : attempts[a].stage = "upsert" /\ throttle' = attempts[a].row,
           \A b \in Attempts : attempts'[b].stage = "upsert" =>
              attempts[b].stage = "upsert" /\ attempts'[b].row = attempts[b].row
    PROVE  EarnedOK'
<1>1. ASSUME NEW row PROVE RowEarned(row) => Cardinality(FailuresIn(row.first..row.updated)') >= row.count
  BY DEF RowEarned, FailuresIn
<1>2. throttle' # NoThrottle => RowEarned(throttle)'
  BY <1>1 DEF EarnedOK, RowEarned, FailuresIn
<1>3. ASSUME NEW b \in Attempts, attempts'[b].stage = "upsert"
      PROVE  RowEarned(attempts[b].row)'
  BY <1>1, <1>3 DEF EarnedOK, RowEarned, FailuresIn
<1>4. QED
  BY <1>2, <1>3 DEF EarnedOK

LEMMA EarnedStill ==
    ASSUME EarnedOK, NEW a \in Attempts, Moved(a), failures' = failures, throttle' = throttle,
           attempts'[a].stage # "upsert"
    PROVE  EarnedOK'
<1>1. \A b \in Attempts : attempts'[b].stage = "upsert" =>
         attempts[b].stage = "upsert" /\ attempts'[b].row = attempts[b].row
  BY DEF Moved, Others
<1>2. QED
  BY <1>1, EarnedKept

LEMMA CountKept ==
    ASSUME LimiterTypes, LockoutTypes, CountOK, NEW a \in Attempts, Moved(a),
           logins' = logins, throttle' = throttle, attempts'[a].stage # "upsert",
           a \in MayCount \/ attempts'[a].stage \in {"idle", "clear"}
    PROVE  CountOK'
<1>1. MayCount' \subseteq MayCount
  BY DEF MayCount, Moved, Others
<1>2. \A b \in Attempts : attempts'[b].stage = "upsert" =>
         attempts[b].stage = "upsert" /\ attempts'[b].row = attempts[b].row
  BY DEF Moved, Others
<1>3. QED
  BY <1>1, <1>2, CountWithin

LEMMA LockoutKept ==
    ASSUME LimiterTypes, LockoutTypes, RowsOK, SeenOK, DueOK, EarnedOK, NEW a \in Attempts, Moved(a),
           now' = now, throttle' = throttle, failures' = failures, answered' = answered,
           locks' = locks, disturbed' \in BOOLEAN, disturbed => disturbed',
           attempts'[a].stage # "upsert",
           attempts'[a].stage \in Checked =>
              /\ attempts'[a].seen <= locks
              /\ attempts'[a].seen = locks => throttle.locked <= now
    PROVE  LockoutTypes' /\ RowsOK' /\ SeenOK' /\ DueOK' /\ EarnedOK'
<1>1. LockoutTypes'
  BY DEF LockoutTypes
<1>2. RowsOK'
  BY DEF RowsOK, Written, Moved, Others
<1>3. SeenOK'
  BY DEF SeenOK, Moved, Others
<1>4. DueOK'
  BY DEF DueOK, Moved, Others
<1>5. EarnedOK'
  BY EarnedStill
<1>6. QED
  BY <1>1, <1>2, <1>3, <1>4, <1>5

\* A step that neither takes nor gives up RESERVED and counts no hit.
LEMMA WindowsKept ==
    ASSUME LimiterTypes, HoldsOK, WindowsOK, WindowLimit,
           attempts' \in [Attempts -> AttemptStates],
           now' = now, hits' = hits, served' = served, lock' = lock, logins' \in 0..MaxLogins,
           \A b \in Attempts : attempts'[b].stage = "hit" <=> attempts[b].stage = "hit",
           \A b \in Attempts : attempts[b].stage = "hit" =>
              attempts'[b].key = attempts[b].key /\ attempts'[b].window = attempts[b].window
    PROVE  LimiterTypes' /\ HoldsOK' /\ WindowsOK' /\ WindowLimit'
<1>1. LimiterTypes' /\ HoldsOK'
  BY DEF LimiterTypes, HoldsOK
<1>2. WindowsOK'
  BY DEF WindowsOK
<1>3. WindowLimit'
  BY DEF WindowLimit
<1>4. QED
  BY <1>1, <1>2, <1>3

\* The same for a step of an attempt that is not between Hit and Decide.
LEMMA WindowsStill ==
    ASSUME LimiterTypes, HoldsOK, WindowsOK, WindowLimit, NEW a \in Attempts, Moved(a),
           attempts[a].stage # "hit", attempts'[a].stage # "hit",
           now' = now, hits' = hits, served' = served, lock' = lock, logins' = logins
    PROVE  LimiterTypes' /\ HoldsOK' /\ WindowsOK' /\ WindowLimit'
<1>1. /\ attempts' \in [Attempts -> AttemptStates] /\ logins' \in 0..MaxLogins
      /\ \A b \in Attempts : attempts'[b].stage = "hit" <=> attempts[b].stage = "hit"
      /\ \A b \in Attempts : attempts[b].stage = "hit" =>
            attempts'[b].key = attempts[b].key /\ attempts'[b].window = attempts[b].window
  BY DEF Moved, Others, LimiterTypes
<1>2. QED
  BY <1>1, WindowsKept

\* A wrong password at the present time adds one to the failures up to now and
\* takes none away.
LEMMA FailureCounts ==
    ASSUME failures \in Seq(Times), now \in Times, failures' = Append(failures, now), NEW S
    PROVE  /\ Cardinality(FailuresIn(S)) \in Nat /\ Cardinality(FailuresIn(S)') \in Nat
           /\ Cardinality(FailuresIn(S)') >= Cardinality(FailuresIn(S))
           /\ now \in S => Cardinality(FailuresIn(S)') = Cardinality(FailuresIn(S)) + 1
<1> DEFINE n == Len(failures) + 1
<1>1. n \in Nat /\ DOMAIN failures = 1..Len(failures) /\ Len(failures) \in Nat
  OBVIOUS
<1>2. /\ DOMAIN failures' = 1..n /\ failures'[n] = now
      /\ \A i \in DOMAIN failures : failures'[i] = failures[i]
  OBVIOUS
<1>3. IsFiniteSet(DOMAIN failures) /\ FailuresIn(S) \in SUBSET (DOMAIN failures)
  BY <1>1, FS_Interval DEF FailuresIn
<1>4. IsFiniteSet(FailuresIn(S)) /\ n \notin FailuresIn(S)
  BY <1>1, <1>3, FS_Subset
<1>5. CASE now \in S
  <2>1. FailuresIn(S)' = FailuresIn(S) \cup {n}
    BY <1>1, <1>2, <1>5 DEF FailuresIn
  <2>2. Cardinality(FailuresIn(S) \cup {n}) = Cardinality(FailuresIn(S)) + 1
    BY <1>4, FS_AddElement
  <2>3. QED
    BY <1>4, <2>1, <2>2, FS_CardinalityType
<1>6. CASE now \notin S
  <2>1. FailuresIn(S)' = FailuresIn(S)
    BY <1>1, <1>2, <1>6 DEF FailuresIn
  <2>2. QED
    BY <1>4, <1>6, <2>1, FS_CardinalityType
<1>7. QED
  BY <1>5, <1>6

LEMMA FailuresWithin ==
    ASSUME failures \in Seq(Times), NEW S, NEW T, S \subseteq T
    PROVE  /\ Cardinality(FailuresIn(S)) \in Nat /\ Cardinality(FailuresIn(T)) \in Nat
           /\ Cardinality(FailuresIn(S)) <= Cardinality(FailuresIn(T))
<1>1. DOMAIN failures = 1..Len(failures) /\ Len(failures) \in Nat
  OBVIOUS
<1>2. IsFiniteSet(DOMAIN failures) /\ FailuresIn(T) \in SUBSET (DOMAIN failures)
  BY <1>1, FS_Interval DEF FailuresIn
<1>3. IsFiniteSet(FailuresIn(T)) /\ FailuresIn(S) \in SUBSET FailuresIn(T)
  BY <1>2, FS_Subset DEF FailuresIn
<1>4. QED
  BY <1>3, FS_Subset, FS_CardinalityType

LEMMA ReadEarns ==
    ASSUME LimiterTypes, LockoutTypes, RowsOK, EarnedOK, failures' = Append(failures, now),
           NEW row, row = Counted(throttle, now)
    PROVE  Cardinality(FailuresIn(row.first..row.updated)') >= row.count
<1>1. failures \in Seq(Times) /\ now \in Times /\ now \in Nat
  BY DEF LimiterTypes, LockoutTypes, Times
<1>2. row.updated = now /\ row.first \in 0..now /\ row.count \in Nat
  BY CountedRow DEF Written, Throttles
<1>3. PICK S : S = row.first..row.updated
  OBVIOUS
<1>4. now \in S
  BY <1>1, <1>2, <1>3
<1>5. /\ Cardinality(FailuresIn(S)) \in Nat
      /\ Cardinality(FailuresIn(S)') = Cardinality(FailuresIn(S)) + 1
  BY <1>1, <1>4, FailureCounts
<1>6. Cardinality(FailuresIn(S)') >= row.count
  <2>1. CASE row.count = 1
    BY <1>5, <2>1
  <2>2. CASE row.count # 1
    <3>1. /\ throttle.first # Never /\ row.first = throttle.first /\ row.count = throttle.count + 1
      BY <2>2 DEF Counted
    <3>2. throttle # NoThrottle
      BY <3>1 DEF NoThrottle
    <3>3. Written(throttle, now) /\ RowEarned(throttle) /\ throttle.count \in Nat
      BY <3>2 DEF RowsOK, EarnedOK, LockoutTypes, Throttles
    <3>4. throttle.first..throttle.updated \subseteq S
      BY <1>1, <1>2, <1>3, <3>1, <3>3 DEF Written
    <3>5. /\ Cardinality(FailuresIn(throttle.first..throttle.updated)) \in Nat
          /\ Cardinality(FailuresIn(throttle.first..throttle.updated)) <= Cardinality(FailuresIn(S))
      BY <1>1, <3>4, FailuresWithin
    <3>6. Cardinality(FailuresIn(S)) >= throttle.count
      BY <1>5, <3>3, <3>5 DEF RowEarned
    <3>7. QED
      BY <1>2, <1>5, <3>1, <3>3, <3>6
  <2>3. QED
    BY <2>1, <2>2
<1>7. QED
  BY <1>3, <1>6

LEMMA EarnedGrows ==
    ASSUME failures \in Seq(Times), now \in Times, failures' = Append(failures, now),
           NEW row, row.count \in Nat, RowEarned(row)
    PROVE  RowEarned(row)'
<1>1. PICK S : S = row.first..row.updated
  OBVIOUS
<1>2. Cardinality(FailuresIn(S)) >= row.count
  BY <1>1 DEF RowEarned
<1>3. /\ Cardinality(FailuresIn(S)) \in Nat /\ Cardinality(FailuresIn(S)') \in Nat
      /\ Cardinality(FailuresIn(S)') >= Cardinality(FailuresIn(S))
  BY FailureCounts
<1>4. Cardinality(FailuresIn(S)') >= row.count
  BY <1>2, <1>3
<1>5. QED
  BY <1>1, <1>4 DEF RowEarned

LEMMA ReadKeepsEarned ==
    ASSUME LimiterTypes, LockoutTypes, RowsOK, EarnedOK, NEW a \in Attempts, Moved(a),
           throttle' = throttle, failures' = Append(failures, now),
           attempts'[a].row = Counted(throttle, now)
    PROVE  EarnedOK'
<1>1. failures \in Seq(Times) /\ now \in Times
  BY DEF LimiterTypes, LockoutTypes
<1>2. ASSUME throttle # NoThrottle PROVE RowEarned(throttle)'
  <2>1. PICK row : row = throttle
    OBVIOUS
  <2>2. RowEarned(row)'
    BY <1>1, <1>2, <2>1, EarnedGrows DEF EarnedOK, LockoutTypes, Throttles
  <2>3. QED
    BY <2>1, <2>2 DEF RowEarned
<1>3. ASSUME NEW b \in Attempts, attempts'[b].stage = "upsert"
      PROVE  RowEarned(attempts[b].row)'
  <2>1. PICK row : row = attempts'[b].row
    OBVIOUS
  <2>2. RowEarned(row)'
    <3>1. CASE b = a
      BY <2>1, <3>1, ReadEarns DEF RowEarned
    <3>2. CASE b # a
      <4>1. attempts'[b] = attempts[b] /\ row.count \in Nat
        BY <2>1, <3>2 DEF Moved, Others, LimiterTypes, AttemptStates, Throttles
      <4>2. RowEarned(row)
        BY <1>3, <2>1, <4>1 DEF EarnedOK
      <4>3. QED
        BY <1>1, <4>1, <4>2, EarnedGrows
    <3>3. QED
      BY <3>1, <3>2
  <2>3. QED
    BY <2>1, <2>2 DEF RowEarned
<1>4. QED
  BY <1>2, <1>3 DEF EarnedOK

-----------------------------------------------------------------------------
(* The limiter's steps.                                                    *)

LEMMA StartOK ==
    ASSUME IInv, NEW a \in Attempts, Start(a)
    PROVE  IInv'
<1>1. LimiterTypes /\ LockoutTypes /\ CountOK
  BY DEF IInv
<1>2. /\ Moved(a) /\ attempts[a].stage = "idle" /\ attempts'[a].stage = "limit"
      /\ logins < MaxLogins /\ logins' = logins + 1
  BY <1>1, StartEffect
<1>3. LockoutTypes' /\ RowsOK' /\ SeenOK' /\ DueOK' /\ EarnedOK'
  BY <1>1, <1>2, LockoutKept DEF IInv, Start, history, Checked, LockoutTypes
<1>4. LimiterTypes' /\ HoldsOK' /\ WindowsOK' /\ WindowLimit'
  <2>1. /\ attempts' \in [Attempts -> AttemptStates] /\ logins' \in 0..MaxLogins
        /\ \A b \in Attempts : attempts'[b].stage = "hit" <=> attempts[b].stage = "hit"
        /\ \A b \in Attempts : attempts[b].stage = "hit" =>
              attempts'[b].key = attempts[b].key /\ attempts'[b].window = attempts[b].window
    <3>1. attempts' \in [Attempts -> AttemptStates] /\ logins' \in 0..MaxLogins
      BY <1>1, <1>2, GuardConstants DEF Moved, LimiterTypes
    <3>2. \A b \in Attempts : b = a \/ attempts'[b] = attempts[b]
      BY <1>2 DEF Moved, Others
    <3>3. QED
      BY <1>2, <3>1, <3>2
  <2>2. now' = now /\ hits' = hits /\ served' = served /\ lock' = lock
    BY DEF Start, history
  <2>3. QED
    BY <2>1, <2>2, WindowsKept DEF IInv
<1>5. CountOK'
  <2>1. MayCount' = MayCount \cup {a} /\ a \notin MayCount
    BY <1>2 DEF MayCount, Moved, Others
  <2>2. IsFiniteSet(MayCount') /\ Cardinality(MayCount') = Cardinality(MayCount) + 1
    BY <1>1, <2>1, FS_AddElement DEF CountOK
  <2>3. Cardinality(MayCount) \in Nat
    BY <1>1, FS_CardinalityType DEF CountOK
  <2>4. throttle' = throttle /\ throttle.count \in Nat /\ logins \in Nat
    BY <1>1, GuardConstants DEF Start, LimiterTypes, LockoutTypes, Throttles
  <2>5. throttle'.count + Cardinality(MayCount') <= logins'
    BY <1>1, <1>2, <2>2, <2>3, <2>4 DEF CountOK
  <2>6. ASSUME NEW b \in Attempts, attempts'[b].stage = "upsert"
        PROVE  attempts'[b].row.count + Cardinality(MayCount') <= logins'
    <3>1. attempts'[b] = attempts[b] /\ attempts[b].row.count \in Nat
      BY <1>1, <1>2, <2>6 DEF Moved, Others, LimiterTypes, AttemptStates, Throttles
    <3>2. attempts[b].row.count + Cardinality(MayCount) <= logins
      BY <1>1, <2>6, <3>1 DEF CountOK
    <3>3. QED
      BY <1>2, <2>2, <2>3, <2>4, <3>1, <3>2
  <2>7. QED
    BY <2>2, <2>5, <2>6 DEF CountOK
<1>6. QED
  BY <1>3, <1>4, <1>5 DEF IInv

LEMMA HitOK ==
    ASSUME IInv, NEW a \in Attempts, Hit(a)
    PROVE  IInv'
<1>1. LimiterTypes /\ LockoutTypes /\ CountOK /\ HoldsOK /\ WindowsOK
  BY DEF IInv
<1>2. /\ Moved(a) /\ attempts[a].stage = "limit"
      /\ attempts'[a].stage = "hit" /\ attempts'[a].window = WindowStart
      /\ attempts'[a].key = attempts[a].key
  BY <1>1, HitEffect
<1>3. /\ now' = now /\ hits' = hits /\ served' = served /\ throttle' = throttle /\ logins' = logins
      /\ failures' = failures /\ answered' = answered /\ locks' = locks /\ disturbed' = disturbed
      /\ lock' = [lock EXCEPT ![a] = "reserved"]
  BY DEF Hit, history, Reserve
<1>4. LockoutTypes' /\ RowsOK' /\ SeenOK' /\ DueOK' /\ EarnedOK'
  BY <1>1, <1>2, <1>3, LockoutKept DEF IInv, Checked, LockoutTypes
<1>5. CountOK'
  BY <1>1, <1>2, <1>3, CountKept DEF MayCount
<1>6. LimiterTypes' /\ HoldsOK'
  BY <1>1, <1>2, <1>3 DEF LimiterTypes, HoldsOK, Moved, Others, Attempts, Locks
<1>7. served[attempts[a].key][WindowStart] <= hits[attempts[a].key][WindowStart]
  <2>1. WindowStart \in Times /\ WindowStart > now - RateWindow
    BY <1>1, WindowStarts DEF LimiterTypes
  <2>2. WindowStart >= now - 2 * RateWindow
    BY <1>1, <2>1, GuardConstants DEF LimiterTypes, Times
  <2>3. attempts[a].key \in Keys
    BY <1>1 DEF LimiterTypes, AttemptStates
  <2>4. QED
    BY <1>1, <2>1, <2>2, <2>3 DEF WindowsOK
<1>8. WindowsOK'
  <2>1. ASSUME NEW b \in Attempts, attempts'[b].stage = "hit"
        PROVE  served'[attempts'[b].key][attempts'[b].window] <= hits'[attempts'[b].key][attempts'[b].window]
    BY <1>1, <1>2, <1>3, <1>7, <2>1 DEF WindowsOK, Moved, Others
  <2>2. QED
    BY <1>1, <1>3, <2>1 DEF WindowsOK
<1>9. WindowLimit'
  BY <1>3 DEF IInv, WindowLimit
<1>10. QED
  BY <1>4, <1>5, <1>6, <1>8, <1>9 DEF IInv

LEMMA DecideOK ==
    ASSUME IInv, NEW a \in Attempts, Decide(a)
    PROVE  IInv'
<1> DEFINE key == attempts[a].key
           w == attempts[a].window
           n == hits[key][w] + 1
<1>1. LimiterTypes /\ LockoutTypes /\ CountOK /\ HoldsOK /\ WindowsOK /\ WindowLimit
  BY DEF IInv
<1>2. /\ attempts[a].stage = "hit" /\ key \in Keys /\ w \in Times
      /\ hits[key] \in [Times -> Nat] /\ served[key] \in [Times -> Nat]
      /\ hits[key][w] \in Nat /\ served[key][w] \in Nat
  BY <1>1 DEF Decide, LimiterTypes, AttemptStates
<1>3. /\ now' = now /\ throttle' = throttle /\ logins' = logins
      /\ failures' = failures /\ answered' = answered /\ locks' = locks /\ disturbed' = disturbed
      /\ lock' = [lock EXCEPT ![a] = "none"] /\ \A b \in Tx \ {a} : lock[b] = "none"
      /\ hits' = [hits EXCEPT ![key][w] = n]
      /\ \/ Pass(a) /\ WithinLimit(n, key) /\ served' = [served EXCEPT ![key][w] = @ + 1]
         \/ Refuse(a) /\ served' = served
  BY DEF Decide, CommitLock, Release
<1>4. Moved(a) /\ attempts'[a].stage \in {"idle", "check", "limit"}
  BY <1>1, <1>3, PassEffect, RefuseEffect
<1>5. LockoutTypes' /\ RowsOK' /\ SeenOK' /\ DueOK' /\ EarnedOK'
  BY <1>1, <1>3, <1>4, LockoutKept DEF IInv, Checked, LockoutTypes
<1>6. CountOK'
  BY <1>1, <1>2, <1>3, <1>4, CountKept DEF MayCount
<1>7. \A b \in Attempts \ {a} : attempts[b].stage # "hit"
  BY <1>1, <1>3 DEF HoldsOK, Attempts
<1>8. HoldsOK' /\ \A b \in Attempts : attempts'[b].stage # "hit"
  BY <1>1, <1>3, <1>4, <1>7 DEF HoldsOK, Moved, Others, Attempts, LimiterTypes
<1>9. /\ hits' \in [Keys -> [Times -> Nat]] /\ hits'[key][w] = n
      /\ \A k \in Keys, t \in Times : (k # key \/ t # w) => hits'[k][t] = hits[k][t]
  <2>1. [hits[key] EXCEPT ![w] = n] \in [Times -> Nat]
    BY <1>2
  <2>2. hits' = [hits EXCEPT ![key] = [hits[key] EXCEPT ![w] = n]] /\ hits \in [Keys -> [Times -> Nat]]
    BY <1>1, <1>2, <1>3 DEF LimiterTypes
  <2>3. hits' \in [Keys -> [Times -> Nat]] /\ hits'[key] = [hits[key] EXCEPT ![w] = n]
    BY <1>2, <2>1, <2>2
  <2>4. \A k \in Keys \ {key} : hits'[k] = hits[k]
    BY <2>2
  <2>5. hits'[key][w] = n /\ \A t \in Times \ {w} : hits'[key][t] = hits[key][t]
    BY <1>2, <2>3
  <2>6. QED
    BY <2>3, <2>4, <2>5
<1>10. /\ served' \in [Keys -> [Times -> Nat]]
       /\ served'[key][w] \in {served[key][w], served[key][w] + 1}
       /\ served'[key][w] = served[key][w] + 1 => WithinLimit(n, key)
       /\ \A k \in Keys, t \in Times : (k # key \/ t # w) => served'[k][t] = served[k][t]
  <2>1. CASE served' = served
    BY <1>1, <1>2, <2>1 DEF LimiterTypes
  <2>2. CASE WithinLimit(n, key) /\ served' = [served EXCEPT ![key][w] = @ + 1]
    <3>1. [served[key] EXCEPT ![w] = served[key][w] + 1] \in [Times -> Nat]
      BY <1>2
    <3>2. /\ served' = [served EXCEPT ![key] = [served[key] EXCEPT ![w] = served[key][w] + 1]]
          /\ served \in [Keys -> [Times -> Nat]]
      BY <1>1, <1>2, <2>2 DEF LimiterTypes
    <3>3. /\ served' \in [Keys -> [Times -> Nat]]
          /\ served'[key] = [served[key] EXCEPT ![w] = served[key][w] + 1]
      BY <1>2, <3>1, <3>2
    <3>4. \A k \in Keys \ {key} : served'[k] = served[k]
      BY <3>2
    <3>5. /\ served'[key][w] = served[key][w] + 1
          /\ \A t \in Times \ {w} : served'[key][t] = served[key][t]
      BY <1>2, <3>3
    <3>6. QED
      BY <2>2, <3>3, <3>4, <3>5
  <2>3. QED
    BY <1>3, <2>1, <2>2
<1>11. served[key][w] <= hits[key][w]
  BY <1>1, <1>2 DEF WindowsOK
<1>12. LimiterTypes'
  BY <1>1, <1>3, <1>4, <1>9, <1>10 DEF LimiterTypes, Moved, Locks
<1>13. WindowsOK'
  <2>1. ASSUME NEW k \in Keys, NEW t \in Times, t >= now - 2 * RateWindow
        PROVE  served'[k][t] <= hits'[k][t]
    <3>1. CASE k = key /\ t = w
      BY <1>2, <1>9, <1>10, <1>11, <3>1
    <3>2. CASE k # key \/ t # w
      BY <1>1, <1>9, <1>10, <2>1, <3>2 DEF WindowsOK
    <3>3. QED
      BY <3>1, <3>2
  <2>2. QED
    BY <1>3, <1>8, <2>1 DEF WindowsOK
<1>14. WindowLimit'
  <2>1. ASSUME NEW k \in Keys, NEW t \in Times
        PROVE  served'[k][t] <= Limit(k)
    <3>1. CASE k = key /\ t = w /\ served'[key][w] = served[key][w] + 1
      BY <1>2, <1>10, <1>11, <3>1, GuardConstants DEF WithinLimit, Limit
    <3>2. CASE ~(k = key /\ t = w /\ served'[key][w] = served[key][w] + 1)
      BY <1>1, <1>10, <3>2 DEF WindowLimit
    <3>3. QED
      BY <3>1, <3>2
  <2>2. QED
    BY <2>1 DEF WindowLimit, Limit
<1>15. QED
  BY <1>5, <1>6, <1>8, <1>12, <1>13, <1>14 DEF IInv

LEMMA LimiterFailsOK ==
    ASSUME IInv, NEW a \in Attempts, LimiterFails(a)
    PROVE  IInv'
<1>1. LimiterTypes /\ LockoutTypes /\ CountOK /\ HoldsOK /\ WindowsOK /\ WindowLimit
  BY DEF IInv
<1>2. /\ now' = now /\ throttle' = throttle /\ logins' = logins /\ hits' = hits /\ served' = served
      /\ failures' = failures /\ answered' = answered /\ locks' = locks /\ disturbed' = disturbed
      /\ lock' = [lock EXCEPT ![a] = "none"]
      /\ attempts[a].stage \in {"limit", "hit"}
  BY DEF LimiterFails, Release, history
<1>3. Moved(a) /\ attempts'[a].stage \in {"check", "limit"}
  BY <1>1, PassEffect DEF LimiterFails
<1>4. LockoutTypes' /\ RowsOK' /\ SeenOK' /\ DueOK' /\ EarnedOK'
  BY <1>1, <1>2, <1>3, LockoutKept DEF IInv, Checked, LockoutTypes
<1>5. CountOK'
  BY <1>1, <1>2, <1>3, CountKept DEF MayCount
<1>6. LimiterTypes' /\ HoldsOK'
  BY <1>1, <1>2, <1>3 DEF LimiterTypes, HoldsOK, Moved, Others, Attempts, Locks
<1>7. WindowsOK' /\ WindowLimit'
  BY <1>1, <1>2, <1>3 DEF WindowsOK, WindowLimit, Moved, Others
<1>8. QED
  BY <1>4, <1>5, <1>6, <1>7 DEF IInv

-----------------------------------------------------------------------------
(* The lockout's steps.                                                    *)

LEMMA CheckLockOK ==
    ASSUME IInv, NEW a \in Attempts, CheckLock(a)
    PROVE  IInv'
<1>1. LimiterTypes /\ LockoutTypes /\ CountOK
  BY DEF IInv
<1>2. /\ now' = now /\ throttle' = throttle /\ logins' = logins /\ hits' = hits /\ served' = served
      /\ failures' = failures /\ answered' = answered /\ locks' = locks /\ disturbed' = disturbed
      /\ lock' = lock
  BY DEF CheckLock, history
<1>3. /\ Moved(a) /\ attempts[a].stage = "check"
      /\ \/ attempts'[a].stage = "idle"
         \/ /\ attempts'[a].stage = "password" /\ attempts'[a].seen = locks
            /\ ~Locked(throttle)
  BY <1>1, CheckLockEffect
<1>4. LockoutTypes' /\ RowsOK' /\ SeenOK' /\ DueOK' /\ EarnedOK'
  <2>1. attempts'[a].stage \in Checked => attempts'[a].seen <= locks /\ throttle.locked <= now
    BY <1>1, <1>3 DEF Locked, Checked, LockoutTypes, LimiterTypes, Throttles, Times
  <2>2. QED
    BY <1>1, <1>2, <1>3, <2>1, LockoutKept DEF IInv, LockoutTypes
<1>5. CountOK'
  BY <1>1, <1>2, <1>3, CountKept DEF MayCount
<1>6. LimiterTypes' /\ HoldsOK' /\ WindowsOK' /\ WindowLimit'
  BY <1>2, <1>3, WindowsStill DEF IInv
<1>7. QED
  BY <1>4, <1>5, <1>6 DEF IInv

LEMMA PasswordOK ==
    ASSUME IInv, NEW a \in Attempts, Password(a)
    PROVE  IInv'
<1>1. LimiterTypes /\ LockoutTypes /\ CountOK /\ SeenOK
  BY DEF IInv
<1>2. /\ now' = now /\ throttle' = throttle /\ logins' = logins /\ hits' = hits /\ served' = served
      /\ failures' = failures /\ answered' = answered /\ locks' = locks /\ disturbed' = disturbed
      /\ lock' = lock
  BY DEF Password, history
<1>3. /\ Moved(a) /\ attempts[a].stage = "password"
      /\ attempts'[a].stage \in {"record", "clear"}
      /\ attempts'[a].seen = attempts[a].seen
  BY <1>1, PasswordEffect
<1>4. LockoutTypes' /\ RowsOK' /\ SeenOK' /\ DueOK' /\ EarnedOK'
  <2>1. attempts'[a].seen <= locks /\ (attempts'[a].seen = locks => throttle.locked <= now)
    BY <1>1, <1>3 DEF SeenOK, Checked
  <2>2. QED
    BY <1>1, <1>2, <1>3, <2>1, LockoutKept DEF IInv, LockoutTypes
<1>5. CountOK'
  BY <1>1, <1>2, <1>3, CountKept DEF MayCount
<1>6. LimiterTypes' /\ HoldsOK' /\ WindowsOK' /\ WindowLimit'
  BY <1>2, <1>3, WindowsStill DEF IInv
<1>7. QED
  BY <1>4, <1>5, <1>6 DEF IInv

LEMMA StatementFailsOK ==
    ASSUME IInv, NEW a \in Attempts, StatementFails(a)
    PROVE  IInv'
<1>1. LimiterTypes /\ LockoutTypes /\ CountOK
  BY DEF IInv
<1>2. /\ now' = now /\ throttle' = throttle /\ logins' = logins /\ hits' = hits /\ served' = served
      /\ failures' = failures /\ answered' = answered /\ locks' = locks
      /\ lock' = lock
      /\ attempts[a].stage \in {"check", "password", "record", "upsert", "clear"}
  BY DEF StatementFails
<1>3. Moved(a) /\ attempts'[a].stage = "idle"
  BY <1>1, RefuseEffect DEF StatementFails
<1>4. disturbed' \in BOOLEAN /\ (disturbed => disturbed')
  BY DEF StatementFails
<1>5. LockoutTypes' /\ RowsOK' /\ SeenOK' /\ DueOK' /\ EarnedOK'
  BY <1>1, <1>2, <1>3, <1>4, LockoutKept DEF IInv, Checked
<1>6. CountOK'
  BY <1>1, <1>2, <1>3, CountKept DEF MayCount
<1>7. LimiterTypes' /\ HoldsOK' /\ WindowsOK' /\ WindowLimit'
  BY <1>2, <1>3, WindowsStill DEF IInv
<1>8. QED
  BY <1>5, <1>6, <1>7 DEF IInv

LEMMA ReadThrottleOK ==
    ASSUME IInv, NEW a \in Attempts, ReadThrottle(a)
    PROVE  IInv'
<1> DEFINE row == Counted(throttle, now)
<1>1. LimiterTypes /\ LockoutTypes /\ RowsOK /\ SeenOK /\ DueOK /\ CountOK
  BY DEF IInv
<1>2. /\ now' = now /\ throttle' = throttle /\ logins' = logins /\ hits' = hits /\ served' = served
      /\ answered' = answered /\ locks' = locks /\ disturbed' = disturbed /\ lock' = lock
      /\ failures' = Append(failures, now)
  BY DEF ReadThrottle
<1>3. /\ Moved(a) /\ attempts[a].stage = "record"
      /\ attempts'[a].stage = "upsert" /\ attempts'[a].row = row
      /\ attempts'[a].seen = attempts[a].seen
  BY <1>1, ReadThrottleEffect
<1>4. /\ row \in Throttles /\ Written(row, now) /\ row.updated = now
      /\ row.count <= throttle.count + 1
      /\ throttle.updated = now => row.count = throttle.count + 1
  BY <1>1, CountedRow
<1> HIDE DEF row
<1>5. LockoutTypes'
  BY <1>1, <1>2 DEF LockoutTypes, LimiterTypes
<1>6. RowsOK'
  <2>1. ASSUME NEW b \in Attempts, attempts'[b].stage = "upsert"
        PROVE  Written(attempts'[b].row, now)
    BY <1>1, <1>3, <1>4, <2>1 DEF RowsOK, Moved, Others
  <2>2. QED
    BY <1>1, <1>2, <2>1 DEF RowsOK, Written
<1>7. SeenOK'
  BY <1>1, <1>2, <1>3 DEF SeenOK, Checked, Moved, Others
<1>8. DueOK'
  <2>1. ASSUME ~disturbed PROVE answered[now] < row.count
    <3>1. answered[now] \in Nat /\ throttle.count \in Nat /\ row.count \in Nat /\ row.count >= 1
      BY <1>1, <1>4 DEF LimiterTypes, LockoutTypes, Throttles, Written
    <3>2. answered[now] > 0 => throttle.updated = now /\ answered[now] <= throttle.count
      BY <1>1, <2>1 DEF DueOK
    <3>3. QED
      BY <1>4, <3>1, <3>2
  <2>2. ASSUME ~disturbed, NEW b \in Attempts, attempts'[b].stage = "upsert", ~attempts'[b].stale
        PROVE  IF attempts'[b].row.updated = now THEN answered[now] < attempts'[b].row.count
               ELSE answered[now] = 0
    BY <1>1, <1>3, <1>4, <2>1, <2>2 DEF DueOK, Moved, Others
  <2>3. QED
    BY <1>1, <1>2, <2>2 DEF DueOK
<1>9. CountOK'
  <2>1. MayCount' = MayCount \ {a} /\ a \in MayCount
    BY <1>3 DEF MayCount, Moved, Others
  <2>2. Cardinality(MayCount') = Cardinality(MayCount) - 1
    BY <1>1, <2>1, FS_RemoveElement DEF CountOK
  <2>3. Cardinality(MayCount) \in Nat
    BY <1>1, FS_CardinalityType DEF CountOK
  <2>4. throttle.count \in Nat /\ row.count \in Nat /\ logins \in Nat
    BY <1>1, <1>4, GuardConstants DEF LimiterTypes, LockoutTypes, Throttles
  <2>5. row.count + Cardinality(MayCount') <= logins
    BY <1>1, <1>4, <2>2, <2>3, <2>4 DEF CountOK
  <2>6. \A b \in Attempts : attempts'[b].stage = "upsert" =>
           \/ attempts[b].stage = "upsert" /\ attempts'[b].row = attempts[b].row
           \/ attempts'[b].row.count + Cardinality(MayCount') <= logins
    BY <1>3, <2>5 DEF Moved, Others
  <2>7. MayCount' \subseteq MayCount
    BY <2>1
  <2>8. QED
    BY <1>1, <1>2, <2>6, <2>7, CountWithin
<1>10. LimiterTypes' /\ HoldsOK' /\ WindowsOK' /\ WindowLimit'
  BY <1>2, <1>3, WindowsStill DEF IInv
<1>11. EarnedOK'
  <2>1. attempts'[a].row = Counted(throttle, now)
    BY <1>3 DEF row
  <2>2. EarnedOK /\ failures' = Append(failures, now)
    BY <1>2 DEF IInv
  <2>3. QED
    BY <1>1, <1>2, <1>3, <2>1, <2>2, ReadKeepsEarned
<1>12. QED
  BY <1>5, <1>6, <1>7, <1>8, <1>9, <1>10, <1>11 DEF IInv

\* What a row that replaces the throttle leaves to the other attempts.
LEMMA OvertakeOK ==
    ASSUME IInv, NEW a \in Attempts, attempts' = Overtake(a), attempts[a].stage # "hit",
           now' = now, hits' = hits, served' = served, lock' = lock, logins' = logins
    PROVE  /\ LimiterTypes' /\ HoldsOK' /\ WindowsOK' /\ WindowLimit'
           /\ \A b \in Attempts : attempts'[b].stage = "upsert" =>
                 /\ b # a /\ attempts'[b].stale
                 /\ attempts[b].stage = "upsert" /\ attempts'[b].row = attempts[b].row
           /\ \A b \in Attempts : attempts'[b].stage \in Checked =>
                 attempts[b].stage \in Checked /\ attempts'[b].seen = attempts[b].seen
           /\ MayCount' \subseteq MayCount
<1>1. LimiterTypes
  BY DEF IInv
<1>2. /\ attempts' \in [Attempts -> AttemptStates]
      /\ attempts'[a] = NoAttempt /\ attempts'[a].stage = "idle"
      /\ \A b \in Attempts \ {a} :
            /\ attempts'[b].stage = attempts[b].stage /\ attempts'[b].key = attempts[b].key
            /\ attempts'[b].window = attempts[b].window
            /\ attempts'[b].seen = attempts[b].seen /\ attempts'[b].row = attempts[b].row
            /\ attempts[b].stage = "upsert" => attempts'[b].stale
  BY <1>1, OvertakeEffect
<1>3. /\ logins' \in 0..MaxLogins
      /\ \A b \in Attempts : attempts'[b].stage = "hit" <=> attempts[b].stage = "hit"
      /\ \A b \in Attempts : attempts[b].stage = "hit" =>
            attempts'[b].key = attempts[b].key /\ attempts'[b].window = attempts[b].window
  BY <1>1, <1>2 DEF LimiterTypes
<1>4. LimiterTypes' /\ HoldsOK' /\ WindowsOK' /\ WindowLimit'
  BY <1>2, <1>3, WindowsKept DEF IInv
<1>5. MayCount' \subseteq MayCount
  BY <1>2 DEF MayCount
<1>6. QED
  BY <1>2, <1>4, <1>5 DEF Checked

LEMMA UpsertOK ==
    ASSUME IInv, NEW a \in Attempts, Upsert(a)
    PROVE  IInv'
<1> DEFINE row == attempts[a].row
<1>1. LimiterTypes /\ LockoutTypes /\ RowsOK /\ SeenOK /\ DueOK /\ CountOK
  BY DEF IInv
<1>2. /\ now' = now /\ logins' = logins /\ hits' = hits /\ served' = served /\ lock' = lock
      /\ failures' = failures /\ throttle' = row /\ attempts' = Overtake(a)
      /\ attempts[a].stage = "upsert"
      /\ answered' = [answered EXCEPT ![row.updated] = @ + 1]
      /\ locks' = locks + (IF row.locked # Never THEN 1 ELSE 0)
      /\ disturbed' = (disturbed \/ attempts[a].stale)
  BY DEF Upsert
<1>3. /\ row \in Throttles /\ Written(row, now) /\ now \in Times /\ now \in Nat
      /\ attempts[a].stale \in BOOLEAN
  BY <1>1, <1>2 DEF RowsOK, LimiterTypes, AttemptStates, Times
<1>4. row.updated \in Times /\ row.updated <= now
  BY <1>3, GuardConstants DEF Written, Times
<1>5. /\ LimiterTypes' /\ HoldsOK' /\ WindowsOK' /\ WindowLimit'
      /\ \A b \in Attempts : attempts'[b].stage = "upsert" =>
            /\ b # a /\ attempts'[b].stale
            /\ attempts[b].stage = "upsert" /\ attempts'[b].row = attempts[b].row
      /\ \A b \in Attempts : attempts'[b].stage \in Checked =>
            attempts[b].stage \in Checked /\ attempts'[b].seen = attempts[b].seen
      /\ MayCount' \subseteq MayCount
  BY <1>2, OvertakeOK
<1> HIDE DEF row
<1>6. /\ answered' \in [Times -> Nat] /\ answered'[row.updated] = answered[row.updated] + 1
      /\ \A t \in Times : t # row.updated => answered'[t] = answered[t]
  BY <1>1, <1>2, <1>4 DEF LockoutTypes
<1>7. LockoutTypes'
  BY <1>1, <1>2, <1>3, <1>6 DEF LockoutTypes
<1>8. RowsOK'
  BY <1>1, <1>2, <1>3, <1>5 DEF RowsOK, Written
<1>9. SeenOK'
  <2>1. ASSUME NEW b \in Attempts, attempts'[b].stage \in Checked
        PROVE  attempts'[b].seen <= locks' /\ (attempts'[b].seen = locks' => throttle'.locked <= now')
    <3>1. attempts[b].seen <= locks /\ attempts'[b].seen = attempts[b].seen /\ attempts[b].seen \in Nat
      BY <1>1, <1>5, <2>1 DEF SeenOK, LimiterTypes, AttemptStates
    <3>2. CASE row.locked # Never
      BY <1>1, <1>2, <3>1, <3>2 DEF LockoutTypes
    <3>3. CASE row.locked = Never
      BY <1>1, <1>2, <1>3, <3>1, <3>3 DEF LockoutTypes, Never
    <3>4. QED
      BY <3>2, <3>3
  <2>2. QED
    BY <2>1 DEF SeenOK
<1>10. DueOK'
  <2> SUFFICES ASSUME ~disturbed' PROVE
         /\ \A t \in Times : t > now => answered'[t] = 0
         /\ answered'[now] > 0 => row.updated = now /\ answered'[now] <= row.count
    BY <1>2, <1>5 DEF DueOK
  <2>1. ~disturbed /\ ~attempts[a].stale
    BY <1>2
  <2>2. /\ \A t \in Times : t > now => answered[t] = 0
        /\ IF row.updated = now THEN answered[now] < row.count ELSE answered[now] = 0
    BY <1>1, <1>2, <2>1 DEF DueOK, row
  <2>3. \A t \in Times : t > now => answered'[t] = 0
    BY <1>3, <1>4, <1>6, <2>2 DEF Times
  <2>4. answered[now] \in Nat /\ row.count \in Nat
    BY <1>1, <1>3 DEF LockoutTypes, Throttles
  <2>5. CASE row.updated = now
    BY <1>6, <2>2, <2>3, <2>4, <2>5
  <2>6. CASE row.updated # now
    BY <1>3, <1>6, <2>2, <2>3, <2>6
  <2>7. QED
    BY <2>5, <2>6
<1>11. CountOK'
  <2>1. IsFiniteSet(MayCount') /\ Cardinality(MayCount') <= Cardinality(MayCount)
    BY <1>1, <1>5, FS_Subset DEF CountOK
  <2>2. Cardinality(MayCount') \in Nat /\ Cardinality(MayCount) \in Nat
    BY <1>1, <2>1, FS_CardinalityType DEF CountOK
  <2>3. logins \in Nat
    BY <1>1, GuardConstants DEF LimiterTypes
  <2>4. ASSUME NEW b \in Attempts, attempts[b].stage = "upsert"
        PROVE  attempts[b].row.count + Cardinality(MayCount') <= logins
    <3>1. attempts[b].row.count \in Nat /\ attempts[b].row.count + Cardinality(MayCount) <= logins
      BY <1>1, <2>4 DEF CountOK, LimiterTypes, AttemptStates, Throttles
    <3>2. QED
      BY <2>1, <2>2, <2>3, <3>1
  <2>5. QED
    BY <1>2, <1>5, <2>1, <2>4 DEF CountOK, row
<1>12. EarnedOK'
  <2>1. \E b \in Attempts : attempts[b].stage = "upsert" /\ throttle' = attempts[b].row
    BY <1>2 DEF row
  <2>2. QED
    BY <1>2, <1>5, <2>1, EarnedKept DEF IInv
<1>13. QED
  BY <1>5, <1>7, <1>8, <1>9, <1>10, <1>11, <1>12 DEF IInv

LEMMA ClearOK ==
    ASSUME IInv, NEW a \in Attempts, Clear(a)
    PROVE  IInv'
<1>1. LimiterTypes /\ LockoutTypes /\ RowsOK /\ SeenOK /\ DueOK /\ CountOK
  BY DEF IInv
<1>2. /\ now' = now /\ logins' = logins /\ hits' = hits /\ served' = served /\ lock' = lock
      /\ failures' = failures /\ throttle' = NoThrottle /\ attempts' = Overtake(a)
      /\ attempts[a].stage = "clear" /\ answered' = [t \in Times |-> 0]
      /\ locks' = locks /\ disturbed' = disturbed
  BY DEF Clear
<1>3. /\ LimiterTypes' /\ HoldsOK' /\ WindowsOK' /\ WindowLimit'
      /\ \A b \in Attempts : attempts'[b].stage = "upsert" =>
            /\ b # a /\ attempts'[b].stale
            /\ attempts[b].stage = "upsert" /\ attempts'[b].row = attempts[b].row
      /\ \A b \in Attempts : attempts'[b].stage \in Checked =>
            attempts[b].stage \in Checked /\ attempts'[b].seen = attempts[b].seen
      /\ MayCount' \subseteq MayCount
  BY <1>2, OvertakeOK
<1>4. LockoutTypes'
  BY <1>1, <1>2, Idle DEF LockoutTypes
<1>5. RowsOK'
  BY <1>1, <1>2, <1>3 DEF RowsOK, Written
<1>6. now \in Times /\ now \in Nat /\ NoThrottle.locked = 0 - 1 /\ NoThrottle.count = 0
  BY <1>1 DEF LimiterTypes, Times, NoThrottle, Never
<1>7. SeenOK'
  BY <1>1, <1>2, <1>3, <1>6 DEF SeenOK
<1>8. DueOK'
  BY <1>2, <1>3, <1>6 DEF DueOK
<1>9. CountOK'
  <2>1. IsFiniteSet(MayCount') /\ Cardinality(MayCount') <= Cardinality(MayCount)
    BY <1>1, <1>3, FS_Subset DEF CountOK
  <2>2. Cardinality(MayCount') \in Nat /\ Cardinality(MayCount) \in Nat
    BY <1>1, <2>1, FS_CardinalityType DEF CountOK
  <2>3. logins \in Nat /\ throttle.count \in Nat
    BY <1>1, GuardConstants DEF LimiterTypes, LockoutTypes, Throttles
  <2>4. ASSUME NEW b \in Attempts, attempts[b].stage = "upsert"
        PROVE  attempts[b].row.count + Cardinality(MayCount') <= logins
    <3>1. attempts[b].row.count \in Nat /\ attempts[b].row.count + Cardinality(MayCount) <= logins
      BY <1>1, <2>4 DEF CountOK, LimiterTypes, AttemptStates, Throttles
    <3>2. QED
      BY <2>1, <2>2, <2>3, <3>1
  <2>5. throttle'.count + Cardinality(MayCount') <= logins'
    BY <1>1, <1>2, <1>6, <2>1, <2>2, <2>3 DEF CountOK
  <2>6. QED
    BY <1>2, <1>3, <2>1, <2>4, <2>5 DEF CountOK
<1>10. EarnedOK'
  BY <1>2, <1>3, EarnedKept DEF IInv
<1>11. QED
  BY <1>3, <1>4, <1>5, <1>7, <1>8, <1>9, <1>10 DEF IInv

-----------------------------------------------------------------------------
(* The clean-ups, time, and the invariant.                                 *)

LEMMA MaybeCleanupOK ==
    ASSUME IInv, MaybeCleanup
    PROVE  IInv'
<1>1. LimiterTypes /\ LockoutTypes /\ RowsOK /\ HoldsOK /\ WindowsOK /\ SeenOK /\ DueOK /\ CountOK
  BY DEF IInv
<1>2. /\ now' = now /\ logins' = logins /\ served' = served /\ lock' = lock
      /\ failures' = failures /\ attempts' = attempts /\ answered' = answered
      /\ locks' = locks /\ disturbed' = disturbed /\ AutoCommit
  BY DEF MaybeCleanup, history
<1>3. /\ now \in Nat /\ RateWindow \in Nat \ {0} /\ Retention \in Nat /\ now \in Times
  BY <1>1, GuardConstants DEF LimiterTypes, Times
<1>4. \A a \in Attempts : attempts[a].stage # "hit"
  BY <1>1, <1>2 DEF HoldsOK, AutoCommit, Attempts
<1>5. HoldsOK' /\ WindowLimit'
  BY <1>2 DEF IInv, HoldsOK, WindowLimit
<1>6. MayCount' = MayCount
  BY <1>2 DEF MayCount
<1>7. throttle' \in {throttle, NoThrottle} => EarnedOK'
  BY <1>2, EarnedKept DEF IInv
<1>8. CASE /\ throttle' = throttle
           /\ hits' = [k \in Keys |-> [w \in Times |->
                         IF w < WindowStart - 2 * RateWindow THEN 0 ELSE hits[k][w]]]
  <2>1. WindowStart \in Times /\ WindowStart <= now
    <3>1. now % RateWindow \in 0..(RateWindow - 1)
      BY <1>3
    <3>2. QED
      BY <1>1, <1>3, <3>1, WindowStarts DEF WindowStart, LimiterTypes
  <2>2. ASSUME NEW k \in Keys, NEW w \in Times
        PROVE  hits[k][w] \in Nat
    BY <1>1 DEF LimiterTypes
  <2>3. LimiterTypes'
    BY <1>1, <1>2, <1>8, <2>2 DEF LimiterTypes
  <2>4. ASSUME NEW k \in Keys, NEW w \in Times, w >= now - 2 * RateWindow
        PROVE  served[k][w] <= hits'[k][w]
    <3>1. w \in Nat /\ WindowStart \in Nat
      BY <2>1 DEF Times
    <3>2. ~(w < WindowStart - 2 * RateWindow)
      BY <1>3, <2>1, <2>4, <3>1
    <3>3. hits'[k][w] = hits[k][w]
      BY <1>8, <3>2
    <3>4. QED
      BY <1>1, <2>4, <3>3 DEF WindowsOK
  <2>5. WindowsOK'
    BY <1>2, <1>4, <2>4 DEF WindowsOK
  <2>6. LockoutTypes' /\ RowsOK' /\ SeenOK'
    BY <1>1, <1>2, <1>8 DEF LockoutTypes, RowsOK, Written, SeenOK
  <2>7. DueOK'
    BY <1>1, <1>2, <1>8 DEF DueOK
  <2>8. CountOK'
    BY <1>1, <1>2, <1>6, <1>8 DEF CountOK
  <2>9. QED
    BY <1>5, <1>8, <1>7, <2>3, <2>5, <2>6, <2>7, <2>8 DEF IInv
<1>9. CASE /\ hits' = hits /\ throttle' = NoThrottle
           /\ throttle.updated # Never /\ throttle.updated < now - Retention
  <2>1. LimiterTypes' /\ WindowsOK'
    BY <1>1, <1>2, <1>9 DEF LimiterTypes, WindowsOK
  <2>2. LockoutTypes' /\ RowsOK'
    BY <1>1, <1>2, <1>9, Idle DEF LockoutTypes, RowsOK, Written
  <2>3. NoThrottle.locked = 0 - 1 /\ NoThrottle.count = 0
    BY DEF NoThrottle, Never
  <2>4. SeenOK'
    BY <1>1, <1>2, <1>3, <1>9, <2>3 DEF SeenOK
  <2>5. throttle.updated # now /\ answered[now] \in Nat
    BY <1>1, <1>3, <1>9 DEF LockoutTypes, Throttles
  <2>6. ~disturbed => answered[now] = 0
    BY <1>1, <2>5 DEF DueOK
  <2>7. DueOK'
    BY <1>1, <1>2, <2>5, <2>6 DEF DueOK
  <2>8. Cardinality(MayCount) \in Nat /\ throttle.count \in Nat /\ logins \in Nat
    BY <1>1, FS_CardinalityType, GuardConstants DEF CountOK, LockoutTypes, LimiterTypes, Throttles
  <2>9. CountOK'
    BY <1>1, <1>2, <1>6, <1>9, <2>3, <2>8 DEF CountOK
  <2>10. QED
    BY <1>5, <1>9, <1>7, <2>1, <2>2, <2>4, <2>7, <2>9 DEF IInv
<1>10. QED
  BY <1>8, <1>9 DEF MaybeCleanup

LEMMA TickOK ==
    ASSUME IInv, Tick
    PROVE  IInv'
<1>1. LimiterTypes /\ LockoutTypes /\ RowsOK /\ HoldsOK /\ WindowsOK /\ SeenOK /\ DueOK /\ CountOK
  BY DEF IInv
<1>2. /\ now < MaxTime /\ now' = now + 1 /\ logins' = logins /\ served' = served /\ lock' = lock
      /\ failures' = failures /\ attempts' = attempts /\ answered' = answered /\ hits' = hits
      /\ locks' = locks /\ disturbed' = disturbed /\ throttle' = throttle
  BY DEF Tick, history
<1>3. /\ now \in Nat /\ MaxTime \in Nat /\ RateWindow \in Nat /\ now' \in Times
  BY <1>1, <1>2, GuardConstants DEF LimiterTypes, Times
<1>4. LimiterTypes' /\ LockoutTypes' /\ HoldsOK' /\ WindowLimit'
  BY <1>1, <1>2, <1>3 DEF LimiterTypes, LockoutTypes, HoldsOK, WindowLimit, IInv
<1>5. \A row \in Throttles : Written(row, now) => Written(row, now')
  BY <1>2, <1>3 DEF Written, Throttles
<1>6. \A a \in Attempts : attempts[a].row \in Throttles
  BY <1>1 DEF LimiterTypes, AttemptStates
<1>7. RowsOK'
  <2>1. throttle' = NoThrottle \/ Written(throttle', now')
    BY <1>1, <1>2, <1>5 DEF RowsOK, LockoutTypes
  <2>2. \A a \in Attempts : attempts'[a].stage = "upsert" => Written(attempts'[a].row, now')
    BY <1>1, <1>2, <1>5, <1>6 DEF RowsOK
  <2>3. QED
    BY <2>1, <2>2 DEF RowsOK
<1>8. WindowsOK'
  BY <1>1, <1>2, <1>3 DEF WindowsOK, Times
<1>9. SeenOK'
  BY <1>1, <1>2, <1>3 DEF SeenOK, LockoutTypes, Throttles
<1>10. DueOK'
  <2> SUFFICES ASSUME ~disturbed PROVE
         /\ \A t \in Times : t > now + 1 => answered[t] = 0
         /\ answered[now + 1] = 0
         /\ \A a \in Attempts : attempts[a].stage = "upsert" => attempts[a].row.updated # now + 1
    BY <1>2 DEF DueOK
  <2>1. \A t \in Times : t > now => answered[t] = 0
    BY <1>1 DEF DueOK
  <2>2. \A a \in Attempts : attempts[a].stage = "upsert" => attempts[a].row.updated # now + 1
    BY <1>1, <1>3 DEF RowsOK, Written
  <2>3. QED
    BY <1>2, <1>3, <2>1, <2>2 DEF Times
<1>11. CountOK'
  <2>1. MayCount' = MayCount
    BY <1>2 DEF MayCount
  <2>2. QED
    BY <1>1, <1>2, <2>1 DEF CountOK
<1>12. EarnedOK'
  BY <1>2, EarnedKept DEF IInv
<1>13. QED
  BY <1>4, <1>7, <1>8, <1>9, <1>10, <1>11, <1>12 DEF IInv

LEMMA Initially == Init => IInv
<1> SUFFICES ASSUME Init PROVE IInv
  OBVIOUS
<1>1. /\ 0 \in Times /\ MaxLogins \in Nat /\ 0 \in 0..MaxLogins
      /\ \A k \in Keys : Limit(k) \in Nat
  BY GuardConstants DEF Times, Limit
<1>2. LimiterTypes /\ LockoutTypes
  <2>1. failures \in Seq(Times)
    BY DEF Init
  <2>2. QED
    BY <1>1, <2>1, Idle DEF Init, LimiterTypes, LockoutTypes, LocksFree, Locks
<1>3. \A a \in Attempts : attempts[a].stage = "idle"
  BY DEF Init, NoAttempt
<1>4. RowsOK /\ HoldsOK
  BY <1>3 DEF Init, RowsOK, HoldsOK, LocksFree, Attempts
<1>5. \A k \in Keys, w \in Times : served[k][w] = 0 /\ hits[k][w] = 0
  BY DEF Init
<1>6. WindowsOK /\ WindowLimit
  BY <1>1, <1>3, <1>5 DEF WindowsOK, WindowLimit
<1>7. SeenOK /\ DueOK
  BY <1>1, <1>3 DEF Init, SeenOK, DueOK, Checked
<1>8. MayCount = {} /\ Cardinality({}) = 0 /\ IsFiniteSet({})
  BY <1>3, FS_EmptySet DEF MayCount
<1>9. CountOK
  BY <1>1, <1>3, <1>8 DEF CountOK, Init, NoThrottle
<1>10. EarnedOK
  BY <1>3 DEF Init, EarnedOK
<1>11. QED
  BY <1>2, <1>4, <1>6, <1>7, <1>9, <1>10 DEF IInv

LEMMA Stutters ==
    ASSUME IInv, UNCHANGED vars
    PROVE  IInv'
<1>1. LimiterTypes' /\ LockoutTypes' /\ RowsOK' /\ HoldsOK'
  BY DEF vars, IInv, LimiterTypes, LockoutTypes, RowsOK, Written, HoldsOK
<1>2. WindowsOK' /\ WindowLimit' /\ SeenOK' /\ DueOK'
  BY DEF vars, IInv, WindowsOK, WindowLimit, SeenOK, DueOK
<1>3. MayCount' = MayCount
  BY DEF vars, MayCount
<1>4. CountOK'
  BY <1>3 DEF vars, IInv, CountOK
<1>5. EarnedOK'
  BY EarnedKept DEF vars, IInv
<1>6. QED
  BY <1>1, <1>2, <1>4, <1>5 DEF IInv

LEMMA Preserved == IInv /\ [Next]_vars => IInv'
<1> SUFFICES ASSUME IInv, [Next]_vars PROVE IInv'
  OBVIOUS
<1>1. ASSUME NEW a \in Attempts, AttemptStep(a) PROVE IInv'
  BY <1>1, StartOK, HitOK, DecideOK, LimiterFailsOK, CheckLockOK, PasswordOK, ReadThrottleOK,
     UpsertOK, ClearOK, StatementFailsOK DEF AttemptStep
<1>2. QED
  BY <1>1, MaybeCleanupOK, TickOK, Stutters DEF Next

\* Whatever the attempts, the clean-ups and the database do, limits, lock and
\* counts stay consistent: the invariant the other theorems rest on.
THEOREM Invariance == Spec => []IInv
<1>1. QED
  BY Initially, Preserved, PTL DEF Spec

LEMMA TypesFollow == IInv => TypeOK
<1> SUFFICES ASSUME IInv, throttle # NoThrottle
             PROVE  /\ throttle.count \in 1..MaxLogins
                    /\ throttle.first \in 0..throttle.updated /\ throttle.updated \in 0..now
                    /\ throttle.locked = IF throttle.count < Threshold THEN Never
                                         ELSE throttle.updated + LockDuration
  BY DEF IInv, TypeOK, LimiterTypes
<1>1. Written(throttle, now)
  BY DEF IInv, RowsOK
<1>2. /\ Cardinality(MayCount) \in Nat /\ throttle.count \in Nat
      /\ throttle.count + Cardinality(MayCount) <= logins
      /\ logins \in Nat /\ logins <= MaxLogins /\ MaxLogins \in Nat
  BY FS_CardinalityType, GuardConstants DEF IInv, CountOK, LockoutTypes, LimiterTypes, Throttles
<1>3. throttle.count \in 1..MaxLogins
  BY <1>1, <1>2 DEF Written
<1>4. QED
  BY <1>1, <1>3 DEF Written

\* Every variable keeps its type, and a row that recordLoginFailure wrote is
\* consistent: it counts no more failures than there were attempts, began to
\* count no later than it was written, and is locked exactly from the threshold on.
THEOREM TypeCorrect == Spec => []TypeOK
<1>1. QED
  BY Invariance, TypesFollow, PTL

\* However many logins arrive at once, and whatever statements fail, the limiter
\* lets no more than its limit pass in a window by their count: INSERT, UPDATE
\* and SELECT are one transaction, and the clean-up spares the windows in use.
THEOREM LimiterHolds == Spec => []WindowLimit
<1>1. IInv => WindowLimit
  BY DEF IInv
<1>2. QED
  BY Invariance, <1>1, PTL

LEMMA EarnedFollows == IInv => LockIsEarned
<1> SUFFICES ASSUME IInv, throttle.locked # Never
             PROVE  LET set == throttle.locked - LockDuration
                    IN  Cardinality(FailuresIn((set - LockWindow)..set)) >= Threshold
  BY DEF LockIsEarned
<1> DEFINE set == throttle.locked - LockDuration
<1>1. throttle # NoThrottle /\ failures \in Seq(Times)
  BY DEF NoThrottle, IInv, LockoutTypes
<1>2. Written(throttle, now) /\ RowEarned(throttle) /\ throttle.count \in Nat
  BY <1>1 DEF IInv, RowsOK, EarnedOK, LockoutTypes, Throttles
<1>3. /\ Threshold \in Nat /\ LockDuration \in Nat /\ LockWindow \in Nat
      /\ throttle.first \in Int /\ throttle.updated \in Int
  BY GuardConstants DEF IInv, LockoutTypes, Throttles
<1>4. throttle.count >= Threshold /\ set = throttle.updated
  BY <1>2, <1>3 DEF Written
<1>5. throttle.first..throttle.updated \subseteq (set - LockWindow)..set
  BY <1>2, <1>3, <1>4 DEF Written
<1>6. /\ Cardinality(FailuresIn(throttle.first..throttle.updated)) \in Nat
      /\ Cardinality(FailuresIn((set - LockWindow)..set)) \in Nat
      /\ Cardinality(FailuresIn(throttle.first..throttle.updated))
            <= Cardinality(FailuresIn((set - LockWindow)..set))
  BY <1>1, <1>5, FailuresWithin
<1>7. Cardinality(FailuresIn(throttle.first..throttle.updated)) >= throttle.count
  BY <1>2 DEF RowEarned
<1>8. QED
  BY <1>2, <1>3, <1>4, <1>6, <1>7

\* Nobody is locked out without the threshold of wrong passwords within the
\* lockout window before the lock, however stale the rows were that
\* recordLoginFailure counted on and whatever other attempts wrote meanwhile.
THEOREM LocksAreEarned == Spec => []LockIsEarned
<1>1. QED
  BY Invariance, EarnedFollows, PTL

LEMMA DueFollows == IInv => LockWhenDue
<1> SUFFICES ASSUME IInv, answered[now] >= Threshold, ~disturbed PROVE Locked(throttle)
  BY DEF LockWhenDue
<1>1. /\ Threshold \in Nat \ {0} /\ LockDuration \in Nat \ {0} /\ now \in Nat
      /\ answered[now] \in Nat /\ throttle.count \in Nat
  BY GuardConstants DEF IInv, LimiterTypes, LockoutTypes, Throttles, Times
<1>2. throttle.updated = now /\ answered[now] <= throttle.count
  BY <1>1 DEF IInv, DueOK
<1>3. Written(throttle, now)
  BY <1>1, <1>2 DEF IInv, RowsOK, NoThrottle, Never
<1>4. throttle.locked = now + LockDuration
  BY <1>1, <1>2, <1>3 DEF Written
<1>5. QED
  BY <1>1, <1>4 DEF Locked

\* The threshold of wrong passwords within one step locks the user name, unless
\* attempts overlapped between the SELECT and the upsert of recordLoginFailure or
\* a statement failed.
THEOREM DueLocksAreSet == Spec => []LockWhenDue
<1>1. QED
  BY Invariance, DueFollows, PTL

\* A user name is unlocked before its time only by an attempt that had passed
\* lockedUntil before the lock was set or, where a lock is configured to outlast
\* the day a row is kept, by the clean-up of a row that old: no attempt that came
\* after the lock lifts it, and no clean-up while locks last a day at most.
THEOREM LocksAreKept == Spec => LockLiftNeedsCause
<1> DEFINE Kept == throttle.locked > now /\ throttle'.locked < throttle.locked =>
                      EarlierAttemptEnds \/ RowOutlived
<1>1. ASSUME IInv, Next, throttle.locked > now, throttle'.locked < throttle.locked
      PROVE  EarlierAttemptEnds \/ RowOutlived
  <2>1. throttle.locked \in Int /\ now \in Nat /\ locks \in Nat
    BY <1>1 DEF IInv, LimiterTypes, LockoutTypes, Throttles, Times
  <2>2. ASSUME NEW a \in Attempts, Upsert(a) \/ Clear(a) PROVE EarlierAttemptEnds
    <3>1. attempts' = Overtake(a) /\ attempts[a].stage \in {"upsert", "clear"}
      BY <2>2 DEF Upsert, Clear
    <3>2. attempts'[a].stage = "idle"
      BY <1>1, <3>1, OvertakeEffect DEF IInv
    <3>3. /\ attempts[a].seen \in Nat /\ attempts[a].seen <= locks
          /\ attempts[a].seen = locks => throttle.locked <= now
      BY <1>1, <3>1 DEF IInv, SeenOK, Checked, LimiterTypes, AttemptStates
    <3>4. attempts[a].seen < locks
      BY <1>1, <2>1, <3>3
    <3>5. QED
      BY <3>1, <3>2, <3>4 DEF EarlierAttemptEnds
  <2>3. ASSUME MaybeCleanup PROVE RowOutlived
    <3>1. throttle.updated # Never /\ throttle.updated < now - Retention
      BY <1>1, <2>1, <2>3 DEF MaybeCleanup
    <3>2. Written(throttle, now)
      BY <1>1, <3>1 DEF IInv, RowsOK, NoThrottle
    <3>3. /\ throttle.updated \in Nat
          /\ throttle.locked = throttle.updated + LockDuration
      BY <1>1, <2>1, <3>2 DEF Written, Never
    <3>4. LockDuration \in Nat /\ Retention \in Nat
      BY GuardConstants
    <3>5. QED
      BY <1>1, <2>1, <3>1, <3>3, <3>4 DEF RowOutlived
  <2>4. throttle' # throttle
    BY <1>1, <2>1
  <2>5. ASSUME NEW a \in Attempts, AttemptStep(a) PROVE Upsert(a) \/ Clear(a)
    BY <2>4, <2>5 DEF AttemptStep, Start, Hit, Decide, LimiterFails, CheckLock, Password,
                      ReadThrottle, StatementFails
  <2>6. QED
    BY <1>1, <2>2, <2>3, <2>4, <2>5 DEF Next, Tick
<1>2. IInv /\ [Next]_vars => [Kept]_vars
  BY <1>1
<1>3. QED
  BY Invariance, <1>2, PTL DEF Spec, LockLiftNeedsCause
=============================================================================
