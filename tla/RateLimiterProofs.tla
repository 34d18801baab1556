------------------------- MODULE RateLimiterProofs -------------------------
(***************************************************************************)
(* Proofs about RateLimiter, for every value of its constants: the types,  *)
(* the rate bound, that the limiter implements RateBudget, the size of its *)
(* table, and what a denial promises.                                      *)
(*                                                                         *)
(* The rate bound is not inductive: it says nothing of the bucket that     *)
(* decides the next admission.  The invariant below adds an account of     *)
(* every key: what it was granted since any of its admissions, plus the    *)
(* units it still holds, is covered by a full bucket plus what was earned  *)
(* since; and a key without a bucket has earned a full one again, at any   *)
(* instant a waiting request may have read.                                *)
(***************************************************************************)
EXTENDS RateLimiter, FiniteSetTheorems, TLAPS

\* The readings of the waiting requests are at most MaxLag old.
ReadingsRecent == \A w \in waiting : w.now <= clock /\ clock - w.now <= MaxLag

\* A bucket's units: at most full, and negative at most by what a late
\* reading can take back.
BucketBounds(b) == /\ b.tokens <= Full
                   /\ 0 <= b.tokens + Earned(clock - b.last)
                   /\ -Earned(MaxLag) <= b.tokens

\* What key k was granted from its i-th admission on.
Since(k, i) == (Len(grants[k]) - i + 1) * Minute

Account(k, tokens, last) ==
  \A i \in 1..Len(grants[k]) :
    Since(k, i) + Earned(grants[k][i]) + tokens <= Full + Earned(last)

IdleAccount(k) ==
  \A i \in 1..Len(grants[k]) :
    Since(k, i) + Earned(grants[k][i]) + Earned(MaxLag)
      <= Earned(clock)

KeyAccount(k) == IF k \in DOMAIN buckets
                   THEN /\ BucketBounds(buckets[k])
                        /\ Account(k, buckets[k].tokens, buckets[k].last)
                   ELSE IdleAccount(k)

Accounts == \A k \in Keys : KeyAccount(k)

IInv == TypeOK /\ ReadingsRecent /\ Accounts /\ RateBound
-----------------------------------------------------------------------------
(* Arithmetic. *)

\* Earning is linear and monotone in time.
LEMMA EarnedLinear ==
  ASSUME NEW x \in Int, NEW y \in Int
  PROVE  /\ Earned(x) \in Int
         /\ Earned(x - y) = Earned(x) - Earned(y)
         /\ Earned(x + y) = Earned(x) + Earned(y)
         /\ x <= y => Earned(x) <= Earned(y)
  <1> USE RateAssumption DEF RateAssumption, Earned
  <1>1. /\ Capacity * x \in Int
        /\ Capacity * (x - y) = Capacity * x - Capacity * y
        /\ Capacity * (x + y) = Capacity * x + Capacity * y
    BY SMT
  <1>2. ASSUME x <= y PROVE Capacity * x <= Capacity * y
    <2>1. Capacity * (y - x) >= 0
      BY <1>2, SMT
    <2>2. Capacity * (y - x) = Capacity * y - Capacity * x
      BY SMT
    <2> QED BY <2>1, <2>2, SMT
  <1> QED BY <1>1, <1>2

LEMMA ConstantsInt == Full \in Int /\ Earned(MaxLag) \in Int
  BY EarnedLinear, RateAssumption DEF Full, RateAssumption

LEMMA EarnedMonotone ==
  ASSUME NEW x \in Int, NEW y \in Int, x <= y
  PROVE  Earned(x) <= Earned(y)
  BY EarnedLinear

LEMMA GrantInt ==
  ASSUME TypeOK, NEW k \in Keys, NEW i \in 1..Len(grants[k])
  PROVE  grants[k][i] \in Int /\ Len(grants[k]) \in Nat
  <1>1. \A S : \A s \in Seq(S) : /\ Len(s) \in Nat
                                /\ \A j \in 1..Len(s) : s[j] \in S
    OBVIOUS
  <1>2. grants[k] \in Seq(0..MaxClock)
    BY DEF TypeOK
  <1>3. Len(grants[k]) \in Nat /\ grants[k][i] \in 0..MaxClock
    BY <1>1, <1>2, Zenon
  <1> QED BY <1>3

\* What is granted since an admission is an integer number of units.
LEMMA SinceInt ==
  ASSUME NEW k, Len(grants[k]) \in Nat, NEW i \in Int
  PROVE  Since(k, i) \in Int
  <1>1. \A x, y \in Int : x * y \in Int
    BY SMT
  <1> QED BY <1>1, RateAssumption DEF Since, RateAssumption

\* One more admission adds one token to what was granted since the i-th.
LEMMA SinceGrows ==
  ASSUME NEW n \in Nat, NEW i \in Int, Minute \in Nat
  PROVE  (n + 1 - i + 1) * Minute = (n - i + 1) * Minute + Minute
  BY SMT

-----------------------------------------------------------------------------
(* What the locked section reads, for a request w that waits. *)

\* The full refill of sweepLocked covers the disorder of the readings.
LEMMA SweepArithmetic ==
  ASSUME NEW now \in Int, NEW last \in Int, NEW at \in Int,
         now - last > Minute + SweepSlack,
         now <= at
  PROVE  Full + Earned(last) + Earned(MaxLag) + Earned(MaxLag) <= Earned(at)
  <1> USE RateAssumption DEF RateAssumption
  <1>1. ((Minute + last) + MaxLag) + MaxLag <= at
    BY LagAssumption DEF LagAssumption
  <1>2. Earned(((Minute + last) + MaxLag) + MaxLag) <= Earned(at)
    BY <1>1, EarnedLinear
  <1>3. /\ Earned(((Minute + last) + MaxLag) + MaxLag)
             = Earned((Minute + last) + MaxLag) + Earned(MaxLag)
        /\ Earned((Minute + last) + MaxLag) = Earned(Minute + last) + Earned(MaxLag)
        /\ Earned(Minute + last) = Earned(Minute) + Earned(last)
    BY EarnedLinear
  <1> QED BY <1>2, <1>3, EarnedLinear DEF Full

LEMMA LiveKeys ==
  ASSUME NEW w
  PROVE  /\ Live(w) \subseteq DOMAIN buckets
         /\ \A k \in DOMAIN buckets \ Live(w) :
               ~(w.now - buckets[k].last <= Minute + SweepSlack)
  BY DEF Live, AfterPeriodic, SweepKeeps

\* A swept key has earned a full bucket again.
LEMMA SweptIsIdle ==
  ASSUME IInv,
         NEW w \in waiting, NEW k \in DOMAIN buckets \ Live(w)
  PROVE  IdleAccount(k)
  <1> DEFINE b == buckets[k]
  <1>1. /\ k \in Keys /\ b.last \in Int /\ b.tokens \in Int /\ clock \in Int
        /\ w.now \in Int /\ w.now <= clock
        /\ grants[k] \in Seq(0..MaxClock) /\ Len(grants[k]) \in Nat
    BY DEF IInv, TypeOK, ReadingsRecent, Waiters
  <1>2. w.now - b.last > Minute + SweepSlack
    BY <1>1, LiveKeys, RateAssumption DEF RateAssumption
  <1>3. Full + Earned(b.last) + Earned(MaxLag) + Earned(MaxLag) <= Earned(clock)
    BY <1>1, <1>2, SweepArithmetic
  <1>4. BucketBounds(b) /\ Account(k, b.tokens, b.last)
    BY <1>1 DEF IInv, Accounts, KeyAccount
  <1> SUFFICES ASSUME NEW i \in 1..Len(grants[k])
               PROVE  Since(k, i) + Earned(grants[k][i]) + Earned(MaxLag)
                        <= Earned(clock)
    BY DEF IdleAccount
  <1>5. grants[k][i] \in Int
    BY <1>1, GrantInt DEF IInv
  <1>6. /\ Earned(grants[k][i]) \in Int /\ Earned(b.last) \in Int
        /\ Earned(clock) \in Int
    BY <1>1, <1>5, EarnedLinear
  <1>9. Full \in Int /\ Earned(MaxLag) \in Int /\ Since(k, i) \in Int
    BY <1>1, ConstantsInt, SinceInt
  <1>7. Since(k, i) + Earned(grants[k][i]) + b.tokens <= Full + Earned(b.last)
    BY <1>4 DEF Account
  <1>8. -Earned(MaxLag) <= b.tokens /\ b.tokens \in Int
    BY <1>1, <1>4 DEF BucketBounds
  <1> HIDE DEF b
  <1> QED BY <1>3, <1>6, <1>7, <1>8, <1>9

\* The bucket a waiting request finds, refilled at its reading, keeps the
\* account and the bounds.
LEMMA RefillKeepsAccount ==
  ASSUME IInv, NEW w \in waiting
  PROVE  /\ Refilled(w) \in Int
         /\ Refilled(w) <= Full
         /\ 0 <= Refilled(w) + Earned(clock - w.now)
         /\ -Earned(MaxLag) <= Refilled(w)
         /\ Account(w.key, Refilled(w), w.now)
  <1> DEFINE k == w.key
             b == buckets[k]
             r == Refilled(w)
  <1>1. /\ k \in Keys /\ clock \in Int /\ w.now \in Int
        /\ w.now <= clock /\ clock - w.now <= MaxLag
        /\ grants[k] \in Seq(0..MaxClock) /\ Len(grants[k]) \in Nat
    BY DEF IInv, TypeOK, ReadingsRecent, Waiters
  <1>9. \A i \in 1..Len(grants[k]) : grants[k][i] \in Int
    BY <1>1, GrantInt DEF IInv
  <1> HIDE DEF k
  <1>2. Full \in Int /\ Earned(MaxLag) \in Int
    BY ConstantsInt
  <1>3. /\ Earned(w.now) \in Int /\ Earned(clock) \in Int
        /\ Earned(clock - w.now) = Earned(clock) - Earned(w.now)
    BY <1>1, EarnedLinear
  <1>6. Earned(clock - w.now) <= Earned(MaxLag)
    <2>1. clock - w.now \in Int /\ MaxLag \in Int
      BY <1>1, RateAssumption DEF RateAssumption
    <2> QED BY <1>1, <2>1, EarnedMonotone
  <1>7. 0 <= Earned(clock - w.now) /\ 0 <= Full
    <2>1. Earned(0) = 0
      BY RateAssumption DEF Earned, RateAssumption
    <2>2. /\ 0 <= clock - w.now /\ clock - w.now \in Int
          /\ 0 <= Minute /\ Minute \in Int
      BY <1>1, RateAssumption DEF RateAssumption
    <2>3. Earned(0) <= Earned(clock - w.now) /\ Earned(0) <= Earned(Minute)
      BY <2>2, EarnedMonotone
    <2> QED BY <2>1, <2>3 DEF Full
  <1>8. \A i \in 1..Len(grants[k]) : /\ Since(k, i) \in Int
                                     /\ Earned(grants[k][i]) \in Int
    <2> TAKE i \in 1..Len(grants[k])
    <2>1. grants[k][i] \in Int /\ i \in Int
      BY <1>1, <1>9
    <2>2. Earned(grants[k][i]) \in Int
      BY <2>1, EarnedLinear
    <2> QED BY <1>1, <2>1, <2>2, SinceInt
  <1>4. CASE k \in Live(w)
    <2>1. /\ k \in DOMAIN buckets /\ b.last \in Int /\ b.tokens \in Int
          /\ BucketBounds(b) /\ Account(k, b.tokens, b.last)
      BY <1>1, <1>4, LiveKeys DEF IInv, Accounts, KeyAccount, TypeOK, k
    <2> DEFINE refill == b.tokens + Earned(w.now - b.last)
    <2>2. r = IF refill > Full THEN Full ELSE refill
      BY <1>4 DEF Refilled, k
    <2>3. /\ Earned(b.last) \in Int
          /\ Earned(w.now - b.last) = Earned(w.now) - Earned(b.last)
          /\ Earned(clock - b.last) = Earned(clock) - Earned(b.last)
      BY <1>1, <2>1, EarnedLinear
    <2>4. 0 <= b.tokens + Earned(clock - b.last)
      BY <2>1 DEF BucketBounds
    <2>5. ASSUME NEW i \in 1..Len(grants[k])
          PROVE  Since(k, i) + Earned(grants[k][i]) + b.tokens
                   <= Full + Earned(b.last)
      BY <2>1 DEF Account
    <2> HIDE DEF b, r
    <2>6. refill \in Int /\ r \in Int /\ r <= Full /\ r <= refill
      BY <1>2, <1>3, <2>1, <2>2, <2>3
    <2>7. 0 <= r + Earned(clock - w.now)
      BY <1>2, <1>3, <1>7, <2>1, <2>2, <2>3, <2>4
    <2>8. -Earned(MaxLag) <= r
      BY <1>2, <1>3, <1>6, <2>6, <2>7
    <2>9. Account(k, r, w.now)
      <3> SUFFICES ASSUME NEW i \in 1..Len(grants[k])
                   PROVE  Since(k, i) + Earned(grants[k][i]) + r
                            <= Full + Earned(w.now)
        BY DEF Account
      <3>1. /\ Since(k, i) + Earned(grants[k][i]) + b.tokens
                 <= Full + Earned(b.last)
            /\ Since(k, i) \in Int /\ Earned(grants[k][i]) \in Int
        BY <1>8, <2>5
      <3>2. r <= b.tokens + (Earned(w.now) - Earned(b.last))
        BY <2>3, <2>6
      <3>3. /\ b.tokens \in Int /\ r \in Int /\ Full \in Int
            /\ Earned(b.last) \in Int /\ Earned(w.now) \in Int
        BY <1>2, <1>3, <2>1, <2>3, <2>6
      <3> HIDE DEF refill
      <3> QED BY <3>1, <3>2, <3>3
    <2> QED BY <2>6, <2>7, <2>8, <2>9 DEF k, r
  <1>5. CASE k \notin Live(w)
    <2>1. r = Full
      BY <1>5 DEF Refilled, k
    <2>2. IdleAccount(k)
      BY <1>1, <1>5, SweptIsIdle DEF IInv, Accounts, KeyAccount
    <2>3. ASSUME NEW i \in 1..Len(grants[k])
          PROVE  Since(k, i) + Earned(grants[k][i]) + Earned(MaxLag)
                   <= Earned(clock)
      BY <2>2 DEF IdleAccount
    <2> HIDE DEF r
    <2>4. Account(k, r, w.now)
      <3> SUFFICES ASSUME NEW i \in 1..Len(grants[k])
                   PROVE  Since(k, i) + Earned(grants[k][i]) + r
                            <= Full + Earned(w.now)
        BY DEF Account
      <3>1. /\ Since(k, i) \in Int /\ Earned(grants[k][i]) \in Int
            /\ Since(k, i) + Earned(grants[k][i]) + Earned(MaxLag) <= Earned(clock)
        BY <1>8, <2>3
      <3> HIDE DEF k
      <3> QED BY <1>2, <1>3, <1>6, <1>7, <2>1, <3>1
    <2>5. /\ r \in Int /\ r <= Full /\ 0 <= r + Earned(clock - w.now)
          /\ -Earned(MaxLag) <= r
      BY <1>2, <1>3, <1>6, <1>7, <2>1
    <2> QED BY <2>4, <2>5 DEF k, r
  <1> QED BY <1>4, <1>5

-----------------------------------------------------------------------------
(* The invariant holds initially and is kept by every action. *)

\* What Append does, element by element.
LEMMA AppendFacts ==
  ASSUME NEW S, NEW s \in Seq(S), NEW x \in S
  PROVE  /\ Append(s, x) \in Seq(S) /\ Len(s) \in Nat
         /\ Len(Append(s, x)) = Len(s) + 1
         /\ Append(s, x)[Len(s) + 1] = x
         /\ \A i \in 1..Len(s) : Append(s, x)[i] = s[i] /\ s[i] \in S
  OBVIOUS

\* The rate bound, for one more admission at an instant that the account of
\* the key covers.
LEMMA AppendKeepsRate ==
  ASSUME NEW g \in Seq(0..MaxClock), NEW t \in 0..MaxClock,
         Budget!WithinRate(g),
         \A i \in 1..Len(g) : (Len(g) - i + 1) * Minute + Earned(g[i]) + Minute
                                <= Full + Earned(t)
  PROVE  Budget!WithinRate(Append(g, t))
  <1> DEFINE h == Append(g, t)
  <1>1. /\ Len(g) \in Nat /\ Len(h) = Len(g) + 1 /\ h[Len(g) + 1] = t
        /\ \A i \in 1..Len(g) : h[i] = g[i] /\ g[i] \in Int
    <2>2. /\ Len(g) \in Nat /\ Len(h) = Len(g) + 1 /\ h[Len(g) + 1] = t
          /\ \A i \in 1..Len(g) : h[i] = g[i] /\ g[i] \in 0..MaxClock
      <3> DEFINE S == 0..MaxClock
      <3>1. g \in Seq(S) /\ t \in S
        OBVIOUS
      <3> HIDE DEF S
      <3>2. /\ Len(g) \in Nat
            /\ Len(Append(g, t)) = Len(g) + 1 /\ Append(g, t)[Len(g) + 1] = t
            /\ \A i \in 1..Len(g) : Append(g, t)[i] = g[i] /\ g[i] \in S
        BY <3>1, AppendFacts
      <3> QED BY <3>2, Zenon DEF S
    <2>3. \A x \in 0..MaxClock : x \in Int
      OBVIOUS
    <2> QED BY <2>2, <2>3, Zenon
  <1>2. Minute \in Nat /\ Capacity \in Nat /\ 1 <= Capacity
    BY RateAssumption DEF RateAssumption
  <1> SUFFICES ASSUME NEW i \in 1..Len(h), NEW j \in 1..Len(h), i <= j
               PROVE  (j - i + 1) * Minute + Earned(h[i]) <= Full + Earned(h[j])
    BY DEF Budget!WithinRate, Earned, Full
  <1>3. CASE j \in 1..Len(g)
    <2>1. i \in 1..Len(g) /\ h[i] = g[i] /\ h[j] = g[j]
      BY <1>1, <1>3
    <2>2. (j - i + 1) * Minute + Capacity * g[i] <= Capacity * Minute + Capacity * g[j]
      BY <1>3, <2>1 DEF Budget!WithinRate
    <2> QED BY <2>1, <2>2 DEF Earned, Full
  <1>4. CASE j = Len(g) + 1 /\ i \in 1..Len(g)
    <2>1. h[i] = g[i] /\ h[j] = t /\ g[i] \in Int /\ t \in Int
      BY <1>1, <1>4
    <2>2. (Len(g) - i + 1) * Minute + Earned(g[i]) + Minute <= Full + Earned(t)
      BY <1>4
    <2>3. (j - i + 1) * Minute = (Len(g) - i + 1) * Minute + Minute
      BY <1>1, <1>2, <1>4, SinceGrows
    <2>4. (Len(g) - i + 1) * Minute \in Int
      <3>1. \A x, y \in Int : x * y \in Int
        BY SMT
      <3> QED BY <1>1, <1>2, <3>1
    <2>5. Earned(g[i]) \in Int
      BY <2>1, EarnedLinear
    <2> HIDE DEF h
    <2> QED BY <1>2, <2>1, <2>2, <2>3, <2>4, <2>5
  <1>5. CASE i = Len(g) + 1 /\ j = Len(g) + 1
    <2>1. (j - i + 1) * Minute = Minute
      BY <1>1, <1>2, <1>5
    <2>2. Minute <= Full
      BY <1>2, SMT DEF Full, Earned
    <2>3. h[i] = t /\ h[j] = t /\ Earned(t) \in Int /\ Full \in Int
      BY <1>1, <1>5, EarnedLinear, ConstantsInt
    <2>4. Minute + Earned(t) <= Full + Earned(t)
      BY <1>2, <2>2, <2>3
    <2> HIDE DEF h
    <2> QED BY <2>1, <2>3, <2>4
  <1>6. j \in 1..Len(g) \/ (j = Len(g) + 1 /\ i \in 1..Len(g))
          \/ (i = Len(g) + 1 /\ j = Len(g) + 1)
    BY <1>1
  <1> QED BY <1>3, <1>4, <1>5, <1>6

LEMMA InitIInv == Init => IInv
  <1> SUFFICES ASSUME Init PROVE IInv
    OBVIOUS
  <1> USE DEF Init
  <1>1. TypeOK
    BY RateAssumption DEF TypeOK, RateAssumption, NoPromise
  <1>2. ReadingsRecent
    BY DEF ReadingsRecent
  <1>3. Accounts
    BY DEF Accounts, KeyAccount, IdleAccount
  <1>4. RateBound
    BY DEF RateBound, Budget!WithinRate
  <1> QED BY <1>1, <1>2, <1>3, <1>4 DEF IInv

LEMMA TickKeeps == ASSUME IInv, Tick PROVE IInv'
  <1> USE DEF Tick
  <1>1. clock \in Int /\ clock' = clock + 1 /\ clock < MaxClock
    BY DEF IInv, TypeOK
  <1>2. TypeOK'
    BY <1>1, RateAssumption DEF IInv, TypeOK, RateAssumption
  <1>3. ReadingsRecent'
    BY <1>1, RateAssumption DEF IInv, TypeOK, ReadingsRecent, Waiters, RateAssumption
  <1>4. ASSUME NEW k \in Keys PROVE KeyAccount(k)'
    <2>1. KeyAccount(k)
      BY DEF IInv, Accounts
    <2>2. CASE k \in DOMAIN buckets
      <3> DEFINE b == buckets[k]
      <3>1. b.last \in Int /\ b.tokens \in Int
        BY <2>2 DEF IInv, TypeOK
      <3>2. clock - b.last \in Int /\ clock' - b.last \in Int
        BY <1>1, <3>1
      <3>3. Earned(clock - b.last) <= Earned(clock' - b.last)
        BY <1>1, <3>1, <3>2, EarnedMonotone
      <3>4. Earned(clock - b.last) \in Int /\ Earned(clock' - b.last) \in Int
        BY <3>2, EarnedLinear
      <3>5. BucketBounds(b)
        BY <2>1, <2>2 DEF KeyAccount
      <3>6. 0 <= b.tokens + Earned(clock' - b.last)
        BY <3>1, <3>3, <3>4, <3>5 DEF BucketBounds
      <3> QED BY <2>1, <2>2, <3>6 DEF KeyAccount, BucketBounds, Account, Since
    <2>3. CASE k \notin DOMAIN buckets
      <3>1. Earned(clock) <= Earned(clock') /\ Earned(clock) \in Int /\ Earned(clock') \in Int
        <4>1. clock' \in Int /\ clock <= clock'
          BY <1>1
        <4> QED BY <1>1, <4>1, EarnedMonotone, EarnedLinear
      <3>2. ASSUME NEW i \in 1..Len(grants[k])
            PROVE  Since(k, i) + Earned(grants[k][i]) + Earned(MaxLag) <= Earned(clock')
        <4>1. Since(k, i) + Earned(grants[k][i]) + Earned(MaxLag) <= Earned(clock)
          BY <2>1, <2>3 DEF KeyAccount, IdleAccount
        <4>2. grants[k][i] \in Int /\ Len(grants[k]) \in Nat /\ i \in Int
          BY GrantInt DEF IInv
        <4>3. Since(k, i) \in Int
          BY <4>2, SinceInt
        <4>4. Earned(grants[k][i]) \in Int /\ Earned(MaxLag) \in Int
          BY <4>2, EarnedLinear, ConstantsInt
        <4> QED BY <3>1, <4>1, <4>3, <4>4
      <3> QED BY <2>3, <3>2 DEF KeyAccount, IdleAccount, Since
    <2> QED BY <2>2, <2>3
  <1>5. RateBound'
    BY DEF IInv, RateBound
  <1> QED BY <1>2, <1>3, <1>4, <1>5 DEF IInv, Accounts

LEMMA ArriveKeeps ==
  ASSUME IInv, NEW id \in Requests, NEW key \in Keys, Arrive(id, key)
  PROVE  IInv'
  <1> USE DEF Arrive
  <1>1. clock \in Nat
    BY DEF IInv, TypeOK
  <1>2. TypeOK'
    BY <1>1 DEF IInv, TypeOK, Waiters
  <1>3. ReadingsRecent'
    BY <1>1, RateAssumption DEF IInv, ReadingsRecent, RateAssumption
  <1>4. Accounts'
    BY DEF IInv, Accounts, KeyAccount, BucketBounds, Account, IdleAccount, Since
  <1>5. RateBound'
    BY DEF IInv, RateBound
  <1> QED BY <1>2, <1>3, <1>4, <1>5 DEF IInv

\* What a locked section leaves alone: the variables but buckets, grants and
\* promised, and the account of every key it does not serve.
LEMMA LeaveKeeps ==
  ASSUME IInv, NEW w \in waiting, Leave(w)
  PROVE  /\ clock' = clock /\ clock' \in 0..MaxClock
         /\ lastSweep' \in 0..clock'
         /\ waiting' \subseteq Waiters
         /\ ReadingsRecent'
         /\ w.key \in Keys /\ w.now \in 0..clock
  BY DEF IInv, TypeOK, Leave, ReadingsRecent, Waiters

LEMMA OthersKeep ==
  ASSUME IInv, NEW w \in waiting, clock' = clock, NEW k \in Keys,
         grants'[k] = grants[k],
         k \in DOMAIN buckets' <=> k \in Live(w),
         k \in Live(w) => buckets'[k] = buckets[k]
  PROVE  KeyAccount(k)'
  <1>1. KeyAccount(k)
    BY DEF IInv, Accounts
  <1>2. CASE k \in Live(w)
    <2>1. k \in DOMAIN buckets
      BY <1>2, LiveKeys
    <2>2. BucketBounds(buckets[k]) /\ Account(k, buckets[k].tokens, buckets[k].last)
      BY <1>1, <2>1 DEF KeyAccount
    <2> QED BY <1>2, <2>2 DEF KeyAccount, BucketBounds, Account, Since
  <1>3. CASE k \notin Live(w)
    <2>1. IdleAccount(k)
      BY <1>1, <1>3, SweptIsIdle DEF KeyAccount
    <2> QED BY <1>3, <2>1 DEF KeyAccount, IdleAccount, Since
  <1> QED BY <1>2, <1>3

\* The bucket written back for the request that was served.
LEMMA StoreTyped ==
  ASSUME IInv, NEW w \in waiting, Leave(w), NEW units \in Int,
         buckets' = Store(w, units)
  PROVE  /\ DOMAIN buckets' \subseteq Keys
         /\ \A k \in DOMAIN buckets' : /\ buckets'[k].tokens \in Int
                                       /\ buckets'[k].last \in 0..clock'
         /\ DOMAIN buckets' = Live(w) \union {w.key}
         /\ buckets'[w.key] = [tokens |-> units, last |-> w.now]
         /\ \A k \in Live(w) \ {w.key} : buckets'[k] = buckets[k]
  <1>1. /\ DOMAIN buckets' = Live(w) \union {w.key}
        /\ buckets'[w.key] = [tokens |-> units, last |-> w.now]
        /\ \A k \in Live(w) \ {w.key} : buckets'[k] = buckets[k]
    BY DEF Store
  <1>2. Live(w) \subseteq DOMAIN buckets
    BY LiveKeys
  <1>3. w.key \in Keys /\ w.now \in 0..clock' /\ clock' = clock
    BY LeaveKeeps
  <1> QED BY <1>1, <1>2, <1>3 DEF IInv, TypeOK

LEMMA AdmitKeeps == ASSUME IInv, NEW w \in waiting, Admit(w) PROVE IInv'
  <1> DEFINE key == w.key
             r == Refilled(w)
             g == grants[key]
             h == Append(g, w.now)
  <1>1. Leave(w) /\ buckets' = Store(w, r - Minute) /\ r >= Minute
    BY DEF Admit
  <1>2. /\ clock' = clock /\ clock' \in 0..MaxClock /\ lastSweep' \in 0..clock'
        /\ waiting' \subseteq Waiters /\ ReadingsRecent'
        /\ key \in Keys /\ w.now \in 0..clock
    BY <1>1, LeaveKeeps
  <1>3. /\ r \in Int /\ r <= Full /\ Account(key, r, w.now)
        /\ Minute \in Nat /\ r - Minute \in Int
    BY RefillKeepsAccount, RateAssumption DEF RateAssumption
  <1>4. /\ DOMAIN buckets' \subseteq Keys
        /\ \A k \in DOMAIN buckets' : /\ buckets'[k].tokens \in Int
                                      /\ buckets'[k].last \in 0..clock'
        /\ DOMAIN buckets' = Live(w) \union {key}
        /\ buckets'[key] = [tokens |-> r - Minute, last |-> w.now]
        /\ \A k \in Live(w) \ {key} : buckets'[k] = buckets[k]
    BY <1>1, <1>3, StoreTyped
  <1>5. g \in Seq(0..MaxClock) /\ w.now \in 0..MaxClock /\ w.now \in Int
    <2>1. g \in Seq(0..MaxClock)
      BY <1>2 DEF IInv, TypeOK
    <2>2. w.now \in 0..MaxClock /\ w.now \in Int
      BY <1>2, RateAssumption DEF RateAssumption
    <2> QED BY <2>1, <2>2
  <1>6. /\ h \in Seq(0..MaxClock) /\ Len(g) \in Nat /\ Len(h) = Len(g) + 1
        /\ h[Len(h)] = w.now
        /\ \A i \in 1..Len(g) : h[i] = g[i] /\ g[i] \in Int
    <2>2. /\ h \in Seq(0..MaxClock) /\ Len(g) \in Nat /\ Len(h) = Len(g) + 1
          /\ h[Len(g) + 1] = w.now
          /\ \A i \in 1..Len(g) : h[i] = g[i] /\ g[i] \in 0..MaxClock
      <3> DEFINE S == 0..MaxClock
                 t == w.now
      <3>1. g \in Seq(S) /\ t \in S
        BY <1>5
      <3> HIDE DEF g, t, S
      <3>2. /\ Append(g, t) \in Seq(S) /\ Len(g) \in Nat
            /\ Len(Append(g, t)) = Len(g) + 1 /\ Append(g, t)[Len(g) + 1] = t
            /\ \A i \in 1..Len(g) : Append(g, t)[i] = g[i] /\ g[i] \in S
        BY <3>1, AppendFacts
      <3> QED BY <3>2, Zenon DEF t, S
    <2>3. \A x \in 0..MaxClock : x \in Int
      OBVIOUS
    <2> QED BY <2>2, <2>3, Zenon
  <1>7. /\ grants' = [grants EXCEPT ![key] = h]
        /\ grants'[key] = h
        /\ \A k \in Keys \ {key} : grants'[k] = grants[k]
    BY <1>2 DEF Admit, IInv, TypeOK
  <1>8. TypeOK'
    <2>1. grants' \in [Keys -> Seq(0..MaxClock)]
      BY <1>2, <1>6, <1>7 DEF IInv, TypeOK
    <2>2. promised' \in [Keys -> Int]
      <3>1. promised \in [Keys -> Int] /\ NoPromise \in Int
        BY DEF IInv, TypeOK, NoPromise
      <3> QED BY <1>2, <3>1 DEF Admit
    <2> QED BY <1>2, <1>4, <2>1, <2>2 DEF TypeOK
  <1>9. ASSUME NEW i \in 1..Len(g)
        PROVE  /\ (Len(g) - i + 1) * Minute + Earned(g[i]) + r <= Full + Earned(w.now)
               /\ (Len(g) - i + 1) * Minute \in Int /\ Earned(g[i]) \in Int
               /\ Full \in Int /\ Earned(w.now) \in Int
    <2>1. i \in Int /\ g[i] \in Int /\ w.now \in Int
      BY <1>2, <1>6, <1>9
    <2>2. Since(key, i) \in Int
      BY <1>6, <2>1, SinceInt
    <2>3. Earned(g[i]) \in Int /\ Full \in Int /\ Earned(w.now) \in Int
      BY <2>1, EarnedLinear, ConstantsInt
    <2> QED BY <1>3, <1>9, <2>2, <2>3 DEF Account, Since
  <1>10. Budget!WithinRate(h)
    <2>1. Budget!WithinRate(g)
      BY <1>2 DEF IInv, RateBound
    <2>2. ASSUME NEW i \in 1..Len(g)
          PROVE  (Len(g) - i + 1) * Minute + Earned(g[i]) + Minute <= Full + Earned(w.now)
      <3> DEFINE since == (Len(g) - i + 1) * Minute
      <3>1. /\ since + Earned(g[i]) + r <= Full + Earned(w.now)
            /\ since \in Int /\ Earned(g[i]) \in Int
            /\ Full \in Int /\ Earned(w.now) \in Int
        BY <1>9
      <3> HIDE DEF since, g, r
      <3>2. since + Earned(g[i]) + Minute <= Full + Earned(w.now)
        BY <1>1, <1>3, <3>1
      <3> QED BY <3>2 DEF since
    <2> HIDE DEF g, h
    <2>3. Budget!WithinRate(Append(g, w.now))
      BY <1>5, <2>1, <2>2, AppendKeepsRate
    <2> QED BY <2>3 DEF h
  <1>11. RateBound'
    BY <1>7, <1>10 DEF RateBound, IInv
  <1>12. KeyAccount(key)'
    <2>1. /\ r - Minute <= Full /\ 0 <= (r - Minute) + Earned(clock - w.now)
          /\ -Earned(MaxLag) <= r - Minute
      <3>1. /\ clock - w.now \in Int /\ 0 <= clock - w.now
            /\ MaxLag \in Int /\ 0 <= MaxLag
        BY <1>2, RateAssumption DEF RateAssumption
      <3>2. Earned(0) = 0
        BY RateAssumption DEF Earned, RateAssumption
      <3>3. 0 <= Earned(clock - w.now) /\ 0 <= Earned(MaxLag)
        BY <3>1, <3>2, EarnedMonotone
      <3>4. Earned(clock - w.now) \in Int /\ Earned(MaxLag) \in Int /\ Full \in Int
        BY <3>1, EarnedLinear, ConstantsInt
      <3> HIDE DEF r
      <3> QED BY <1>1, <1>3, <3>3, <3>4
    <2>2. ASSUME NEW i \in 1..Len(h)
          PROVE  (Len(h) - i + 1) * Minute + Earned(h[i]) + (r - Minute)
                   <= Full + Earned(w.now)
      <3>1. CASE i \in 1..Len(g)
        <4> DEFINE since == (Len(g) - i + 1) * Minute
        <4>1. /\ since + Earned(g[i]) + r <= Full + Earned(w.now)
              /\ since \in Int /\ Earned(g[i]) \in Int
              /\ Full \in Int /\ Earned(w.now) \in Int
          BY <1>9, <3>1
        <4>2. (Len(h) - i + 1) * Minute = since + Minute
          BY <1>3, <1>6, <3>1, SinceGrows
        <4>3. h[i] = g[i]
          BY <1>6, <3>1
        <4> HIDE DEF since, g, h, r
        <4> QED BY <1>3, <4>1, <4>2, <4>3
      <3>2. CASE i = Len(h)
        <4>1. (Len(h) - i + 1) * Minute = Minute /\ h[i] = w.now
          BY <1>3, <1>6, <3>2
        <4>2. Earned(w.now) \in Int /\ Full \in Int
          BY <1>5, EarnedLinear, ConstantsInt
        <4> HIDE DEF g, h, r
        <4>3. Minute + Earned(w.now) + (r - Minute) <= Full + Earned(w.now)
          BY <1>3, <4>2
        <4> QED BY <4>1, <4>3
      <3> QED BY <1>6, <2>2, <3>1, <3>2
    <2>3. buckets'[key].tokens = r - Minute /\ buckets'[key].last = w.now
      BY <1>4
    <2> HIDE DEF h, r
    <2> QED BY <1>2, <1>4, <1>7, <2>1, <2>2, <2>3
            DEF KeyAccount, BucketBounds, Account, Since
  <1>13. ASSUME NEW k \in Keys, k # key PROVE KeyAccount(k)'
    BY <1>2, <1>4, <1>7, <1>13, OthersKeep
  <1> QED BY <1>2, <1>8, <1>11, <1>12, <1>13 DEF IInv, Accounts

LEMMA DenyKeeps == ASSUME IInv, NEW w \in waiting, Deny(w) PROVE IInv'
  <1> DEFINE key == w.key
             r == Refilled(w)
  <1>1. Leave(w) /\ buckets' = Store(w, r) /\ grants' = grants
    BY DEF Deny
  <1>2. /\ clock' = clock /\ clock' \in 0..MaxClock /\ lastSweep' \in 0..clock'
        /\ waiting' \subseteq Waiters /\ ReadingsRecent'
        /\ key \in Keys /\ w.now \in 0..clock
    BY <1>1, LeaveKeeps
  <1>3. /\ r \in Int /\ r <= Full /\ 0 <= r + Earned(clock - w.now)
        /\ -Earned(MaxLag) <= r /\ Account(key, r, w.now)
    BY RefillKeepsAccount
  <1>4. /\ DOMAIN buckets' \subseteq Keys
        /\ \A k \in DOMAIN buckets' : /\ buckets'[k].tokens \in Int
                                      /\ buckets'[k].last \in 0..clock'
        /\ DOMAIN buckets' = Live(w) \union {key}
        /\ buckets'[key] = [tokens |-> r, last |-> w.now]
        /\ \A k \in Live(w) \ {key} : buckets'[k] = buckets[k]
    BY <1>1, <1>3, StoreTyped
  <1>5. w.now + RetryAfter(r) \in Int
    <2> HIDE DEF r
    <2> QED BY <1>2, <1>3, RateAssumption DEF RetryAfter, RateAssumption
  <1>6. TypeOK'
    <2>1. promised' \in [Keys -> Int]
      BY <1>5 DEF Deny, IInv, TypeOK
    <2> QED BY <1>1, <1>2, <1>4, <2>1 DEF TypeOK, IInv
  <1>7. KeyAccount(key)'
    <2>1. buckets'[key].tokens = r /\ buckets'[key].last = w.now
      BY <1>4
    <2> HIDE DEF r
    <2> QED BY <1>1, <1>2, <1>3, <1>4, <2>1
            DEF KeyAccount, BucketBounds, Account, Since
  <1>8. ASSUME NEW k \in Keys, k # key PROVE KeyAccount(k)'
    BY <1>1, <1>2, <1>4, <1>8, OthersKeep
  <1>9. RateBound'
    BY <1>1 DEF IInv, RateBound
  <1> QED BY <1>2, <1>6, <1>7, <1>8, <1>9 DEF IInv, Accounts

LEMMA TurnAwayKeeps == ASSUME IInv, NEW w \in waiting, TurnAway(w) PROVE IInv'
  <1>1. Leave(w) /\ grants' = grants /\ promised' = promised
    BY DEF TurnAway
  <1>2. /\ clock' = clock /\ clock' \in 0..MaxClock /\ lastSweep' \in 0..clock'
        /\ waiting' \subseteq Waiters /\ ReadingsRecent'
    BY <1>1, LeaveKeeps
  <1>3. /\ DOMAIN buckets' = Live(w) /\ Live(w) \subseteq DOMAIN buckets
        /\ \A k \in Live(w) : buckets'[k] = buckets[k]
    BY LiveKeys DEF TurnAway, Restrict
  <1>4. TypeOK'
    BY <1>1, <1>2, <1>3 DEF IInv, TypeOK
  <1>5. ASSUME NEW k \in Keys PROVE KeyAccount(k)'
    BY <1>1, <1>2, <1>3, OthersKeep
  <1>6. RateBound'
    BY <1>1 DEF IInv, RateBound
  <1> QED BY <1>2, <1>4, <1>5, <1>6 DEF IInv, Accounts

LEMMA StutterKeeps == IInv /\ UNCHANGED vars => IInv'
  BY DEF IInv, TypeOK, ReadingsRecent, Accounts, KeyAccount, BucketBounds,
         Account, IdleAccount, Since, RateBound, vars

\* The inductive invariant holds in every reachable state.
THEOREM Invariant == Spec => []IInv
  <1>1. IInv /\ [Next]_vars => IInv'
    BY TickKeeps, ArriveKeeps, AdmitKeeps, DenyKeeps, TurnAwayKeeps,
       StutterKeeps DEF Next
  <1> QED BY InitIInv, <1>1, PTL DEF Spec

-----------------------------------------------------------------------------
(* The theorems. *)

\* The limiter's variables keep their types, and no bucket or sweep is
\* stamped with an instant the clock has not shown (Check, sweepLocked).
THEOREM TypeCorrect == Spec => []TypeOK
  BY Invariant, PTL DEF IInv

\* For any number of clients, any rate, any table size and any order in which
\* readings up to MaxLag old reach the mutex: no key is ever admitted more
\* than the burst plus what it earned, sweeps included.
THEOREM RateIsBounded == Spec => []RateBound
  BY Invariant, PTL DEF IInv

\* Every step of the limiter is a step of the abstract budget or leaves the
\* admissions alone: Admit is the only Grant (Check).
THEOREM ImplementsBudget == Spec => ImplementsRateBudget
  <1>1. Init => Budget!Init
    BY DEF Init, Budget!Init
  <1>2. ASSUME IInv, IInv', [Next]_vars PROVE [Budget!Next]_grants
    <2>1. ASSUME NEW w \in waiting, Admit(w) PROVE Budget!Next
      <3>1. w.key \in Keys /\ w.now \in 0..MaxClock
        BY <2>1, LeaveKeeps, <1>2 DEF Admit, IInv, TypeOK
      <3>2. Budget!WithinRate(grants'[w.key])
        BY <1>2, <3>1 DEF IInv, RateBound
      <3> QED BY <2>1, <3>1, <3>2 DEF Admit, Budget!Next, Budget!Grant
    <2> QED BY <1>2, <2>1 DEF Next, vars, Tick, Arrive, Deny, TurnAway
  <1> QED BY <1>1, <1>2, Invariant, PTL
          DEF Spec, ImplementsRateBudget, Budget!Spec

-----------------------------------------------------------------------------
(* The size of the table, which is not about rates. *)

TableInv == IsFiniteSet(DOMAIN buckets) /\ TableBounded

LEMMA LiveIsBounded ==
  ASSUME TableInv, NEW w
  PROVE  /\ IsFiniteSet(Live(w)) /\ Cardinality(Live(w)) \in Nat
         /\ Cardinality(Live(w)) <= MaxKeys
         /\ Cardinality(AfterPeriodic(w)) \in Nat
         /\ Cardinality(Live(w)) <= Cardinality(AfterPeriodic(w))
<1>1. Live(w) \subseteq AfterPeriodic(w) /\ AfterPeriodic(w) \subseteq DOMAIN buckets
  BY DEF Live, AfterPeriodic, SweepKeeps
<1>2. /\ IsFiniteSet(AfterPeriodic(w)) /\ IsFiniteSet(Live(w))
      /\ Cardinality(Live(w)) <= Cardinality(AfterPeriodic(w))
      /\ Cardinality(AfterPeriodic(w)) <= Cardinality(DOMAIN buckets)
  BY <1>1, FS_Subset DEF TableInv
<1>3. /\ Cardinality(Live(w)) \in Nat /\ Cardinality(AfterPeriodic(w)) \in Nat
      /\ Cardinality(DOMAIN buckets) \in Nat
  BY <1>2, FS_CardinalityType DEF TableInv
<1> QED BY <1>2, <1>3, RateAssumption DEF TableInv, TableBounded

\* A bucket is written back where there was one, or into a table with room.
LEMMA StoreIsBounded ==
  ASSUME TableInv, NEW w, NEW units, buckets' = Store(w, units),
         ~TableFull(w, Live(w))
  PROVE  TableInv'
<1>1. DOMAIN buckets' = Live(w) \union {w.key}
  BY DEF Store
<1>2. CASE w.key \in Live(w)
  <2>1. DOMAIN buckets' = Live(w)
    BY <1>1, <1>2
  <2> QED BY <2>1, LiveIsBounded DEF TableInv, TableBounded
<1>3. CASE w.key \notin Live(w)
  <2>1. Cardinality(Live(w)) < MaxKeys
    BY <1>3, LiveIsBounded, RateAssumption DEF TableFull
  <2>2. /\ IsFiniteSet(DOMAIN buckets')
        /\ Cardinality(DOMAIN buckets') = Cardinality(Live(w)) + 1
    BY <1>1, <1>3, LiveIsBounded, FS_AddElement
  <2> QED BY <2>1, <2>2, LiveIsBounded, RateAssumption DEF TableInv, TableBounded
<1> QED BY <1>2, <1>3

LEMMA TurnAwayIsBounded ==
  ASSUME TableInv, NEW w, TurnAway(w)
  PROVE  TableInv' /\ DOMAIN buckets' = Live(w)
<1>1. DOMAIN buckets' = Live(w)
  BY LiveKeys DEF TurnAway, Restrict
<1> QED BY <1>1, LiveIsBounded DEF TableInv, TableBounded

LEMMA TableInvariant == Spec => []TableInv
<1>1. Init => TableInv
  <2>1. Init => DOMAIN buckets = {}
    BY DEF Init
  <2> QED BY <2>1, FS_EmptySet, RateAssumption DEF TableInv, TableBounded
<1>2. ASSUME TableInv, [Next]_vars PROVE TableInv'
  <2>1. CASE buckets' = buckets
    BY <1>2, <2>1 DEF TableInv, TableBounded
  <2>2. ASSUME NEW w \in waiting, Admit(w) \/ Deny(w) PROVE TableInv'
    BY <1>2, <2>2, StoreIsBounded DEF Admit, Deny
  <2>3. ASSUME NEW w \in waiting, TurnAway(w) PROVE TableInv'
    BY <1>2, <2>3, TurnAwayIsBounded
  <2> QED BY <1>2, <2>1, <2>2, <2>3 DEF Next, Tick, Arrive, vars
<1> QED BY <1>1, <1>2, PTL DEF Spec

\* The table never holds more than maxKeys buckets (Check, sweepLocked).
THEOREM TableIsBounded == Spec => []TableBounded
<1> QED BY TableInvariant, PTL DEF TableInv

\* A client is turned away only when every bucket of a full table has been
\* used too recently to be swept (Check).
THEOREM TurnedAwayJustly == Spec => TurnedAwayOnlyWhenBusy
<1> DEFINE Busy(w) ==
      /\ Cardinality(DOMAIN buckets') = MaxKeys
      /\ \A k \in DOMAIN buckets' : w.now - buckets'[k].last <= Minute + SweepSlack
<1>1. ASSUME TableInv, [Next]_vars, NEW w \in waiting,
             w \notin waiting', w.key \notin DOMAIN buckets'
      PROVE  Busy(w)
  <2>1. PICK v \in waiting : Admit(v) \/ Deny(v) \/ TurnAway(v)
    BY <1>1 DEF Next, Tick, Arrive, vars
  <2>2. v = w
    BY <1>1, <2>1 DEF Admit, Deny, TurnAway, Leave
  <2>3. TurnAway(w)
    BY <1>1, <2>1, <2>2 DEF Admit, Deny, Store
  <2>4. DOMAIN buckets' = Live(w) /\ Live(w) \subseteq DOMAIN buckets
    BY <1>1, <2>3, TurnAwayIsBounded, LiveKeys
  <2>5. \A k \in Live(w) : buckets'[k] = buckets[k]
    BY <2>3, <2>4 DEF TurnAway, Restrict
  <2>6. w.key \notin Live(w) /\ Cardinality(Live(w)) = MaxKeys
    BY <1>1, <2>3, LiveIsBounded, RateAssumption DEF TurnAway, TableFull
  <2>7. Live(w) = SweepKeeps(AfterPeriodic(w), w.now)
    <3>1. CASE TableFull(w, AfterPeriodic(w))
      BY <3>1 DEF Live
    <3>2. CASE ~TableFull(w, AfterPeriodic(w))
      <4>1. Live(w) = AfterPeriodic(w)
        BY <3>2 DEF Live
      <4> QED BY <2>3, <3>2, <4>1 DEF TurnAway
    <3> QED BY <3>1, <3>2
  <2>8. \A k \in Live(w) : w.now - buckets[k].last <= Minute + SweepSlack
    BY <2>7 DEF SweepKeeps
  <2> QED BY <2>4, <2>5, <2>6, <2>8
<1>2. TableInv /\ [Next]_vars =>
        [\A w \in waiting : w \notin waiting' /\ w.key \notin DOMAIN buckets'
            => Busy(w)]_vars
  BY <1>1
<1> QED BY <1>2, TableInvariant, PTL DEF Spec, TurnedAwayOnlyWhenBusy

-----------------------------------------------------------------------------
(* What a denial promises. *)

\* The bucket of a key that was promised a token will hold one by then: nobody
\* but the key itself takes from it.
PromiseKept ==
  \A k \in DOMAIN buckets :
    promised[k] # NoPromise =>
      buckets[k].tokens + Earned(promised[k] - buckets[k].last) >= Minute

\* RetryAfterSeconds rounds up: the ticks it names earn what is missing.
LEMMA RetryAfterSuffices ==
  ASSUME NEW units \in Int
  PROVE  RetryAfter(units) \in Int /\ units + Earned(RetryAfter(units)) >= Minute
  <1>1. ASSUME NEW x \in Int, NEW c \in Nat \ {0}
        PROVE  (x + c - 1) \div c \in Int /\ c * ((x + c - 1) \div c) >= x
    BY ONLY <1>1, SMT
  <1>2. Capacity \in Nat \ {0} /\ Minute \in Nat
    BY RateAssumption DEF RateAssumption
  <1>3. Minute - units \in Int
    BY <1>2
  <1>4. RetryAfter(units) \in Int /\ Capacity * RetryAfter(units) >= Minute - units
    BY <1>1, <1>2, <1>3, Zenon DEF RetryAfter
  <1>5. Earned(RetryAfter(units)) \in Int
    BY <1>4, EarnedLinear
  <1>6. Earned(RetryAfter(units)) >= Minute - units
    BY <1>4 DEF Earned
  <1> QED BY <1>2, <1>4, <1>5, <1>6

\* At the promised instant or later, a bucket that was promised a token has it.
LEMMA PromisedIsEnough ==
  ASSUME IInv, PromiseKept, NEW w \in waiting, promised[w.key] # NoPromise,
         w.now >= promised[w.key]
  PROVE  Refilled(w) >= Minute
  <1>1. Full >= Minute /\ Full \in Int /\ Minute \in Int
    <2>1. \A c \in Nat \ {0}, m \in Nat \ {0} :
            c * m >= m /\ c * m \in Int /\ m \in Int
      BY SMT
    <2> QED BY <2>1, RateAssumption, Zenon DEF Full, Earned, RateAssumption
  <1>2. CASE w.key \notin Live(w)
    BY <1>1, <1>2 DEF Refilled
  <1>3. CASE w.key \in Live(w)
    <2> DEFINE b == buckets[w.key]
               p == promised[w.key]
    <2>1. w.key \in DOMAIN buckets
      BY <1>3, LiveKeys
    <2>2. /\ w.now \in Int /\ p \in Int /\ b.last \in Int /\ b.tokens \in Int
          /\ w.now - b.last \in Int /\ p - b.last \in Int
          /\ p - b.last <= w.now - b.last
      BY <2>1 DEF IInv, TypeOK, Waiters
    <2>3. b.tokens + Earned(p - b.last) >= Minute
      BY <2>1 DEF PromiseKept
    <2>4. /\ Earned(p - b.last) <= Earned(w.now - b.last)
          /\ Earned(p - b.last) \in Int /\ Earned(w.now - b.last) \in Int
      BY <2>2, EarnedLinear, EarnedMonotone
    <2> HIDE DEF b, p
    <2>5. b.tokens + Earned(w.now - b.last) >= Minute
      BY <1>1, <2>2, <2>3, <2>4
    <2> QED BY <1>1, <1>3, <2>5 DEF Refilled, b
  <1> QED BY <1>2, <1>3

LEMMA PromiseStep ==
  ASSUME IInv, PromiseKept, [Next]_vars
  PROVE  PromiseKept'
  <1>1. CASE UNCHANGED <<buckets, promised>>
    BY <1>1 DEF PromiseKept
  <1>2. ASSUME NEW w \in waiting, Admit(w) PROVE PromiseKept'
    <2>1. /\ w.key \in Keys /\ Leave(w)
          /\ promised' = [promised EXCEPT ![w.key] = NoPromise]
      BY <1>2, LeaveKeeps DEF Admit
    <2>2. /\ DOMAIN buckets' = Live(w) \union {w.key} /\ Live(w) \subseteq DOMAIN buckets
          /\ \A k \in Live(w) \ {w.key} : buckets'[k] = buckets[k]
      BY <1>2, LiveKeys DEF Admit, Store
    <2>3. promised'[w.key] = NoPromise
      BY <2>1 DEF IInv, TypeOK
    <2>4. \A k \in Live(w) \ {w.key} : promised'[k] = promised[k]
      BY <2>1, <2>2 DEF IInv, TypeOK
    <2> QED BY <2>2, <2>3, <2>4 DEF PromiseKept
  <1>3. ASSUME NEW w \in waiting, Deny(w) PROVE PromiseKept'
    <2> DEFINE r == Refilled(w)
               p == w.now + RetryAfter(r)
    <2>1. /\ w.key \in Keys /\ w.now \in Int /\ r \in Int
          /\ promised' = [promised EXCEPT ![w.key] = p]
      BY <1>3, LeaveKeeps, RefillKeepsAccount DEF Deny
    <2>2. /\ DOMAIN buckets' = Live(w) \union {w.key} /\ Live(w) \subseteq DOMAIN buckets
          /\ \A k \in Live(w) \ {w.key} : buckets'[k] = buckets[k]
          /\ buckets'[w.key].tokens = r /\ buckets'[w.key].last = w.now
      BY <1>3, LiveKeys DEF Deny, Store
    <2>3. \A k \in Live(w) \ {w.key} : promised'[k] = promised[k]
      BY <2>1, <2>2 DEF IInv, TypeOK
    <2>4. r + Earned(p - w.now) >= Minute
      <3>1. RetryAfter(r) \in Int /\ r + Earned(RetryAfter(r)) >= Minute
        BY <2>1, RetryAfterSuffices
      <3> HIDE DEF r
      <3>2. p - w.now = RetryAfter(r)
        BY <2>1, <3>1
      <3> QED BY <3>1, <3>2
    <2>5. promised'[w.key] = p
      BY <2>1 DEF IInv, TypeOK
    <2> HIDE DEF p, r
    <2>6. buckets'[w.key].tokens + Earned(promised'[w.key] - buckets'[w.key].last) >= Minute
      BY <2>2, <2>4, <2>5
    <2>7. ASSUME NEW k \in DOMAIN buckets', k # w.key, promised'[k] # NoPromise
          PROVE  buckets'[k].tokens + Earned(promised'[k] - buckets'[k].last) >= Minute
      BY <2>2, <2>3, <2>7 DEF PromiseKept
    <2> QED BY <2>6, <2>7 DEF PromiseKept, Earned
  <1>4. ASSUME NEW w \in waiting, TurnAway(w) PROVE PromiseKept'
    <2>1. /\ DOMAIN buckets' = Live(w) /\ Live(w) \subseteq DOMAIN buckets
          /\ \A k \in Live(w) : buckets'[k] = buckets[k]
          /\ promised' = promised
      BY <1>4, LiveKeys DEF TurnAway, Restrict
    <2> QED BY <2>1 DEF PromiseKept
  <1> QED BY <1>1, <1>2, <1>3, <1>4 DEF Next, Tick, Arrive, vars

\* A client that waits as long as its denial said finds a token, for any rate
\* and whatever other clients, sweeps and late readings did meanwhile (Check).
THEOREM RetryAfterIsHonoured == Spec => []RetryAfterHonoured
  <1>1. Init => PromiseKept
    BY DEF Init, PromiseKept
  <1>2. IInv /\ PromiseKept /\ [Next]_vars => PromiseKept'
    BY PromiseStep
  <1>3. IInv /\ PromiseKept => RetryAfterHonoured
    BY PromisedIsEnough DEF RetryAfterHonoured
  <1> QED BY <1>1, <1>2, <1>3, Invariant, PTL DEF Spec
=============================================================================
