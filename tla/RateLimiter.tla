---------------------------- MODULE RateLimiter ----------------------------
(***************************************************************************)
(* internal/ratelimit: a token bucket per client key, behind one mutex.    *)
(*                                                                         *)
(* Check reads the clock BEFORE it takes the mutex, so requests may be     *)
(* decided in another order than their clock readings.  A request is       *)
(* therefore two steps: Arrive (read the clock) and one of Admit, Deny and *)
(* TurnAway (the whole locked section, sweeps included).                   *)
(*                                                                         *)
(* Tokens are counted in units of 1/Minute token: a full bucket holds      *)
(* Capacity * Minute units and earns Capacity units per tick, so the       *)
(* code's float arithmetic becomes exact.                                  *)
(***************************************************************************)
EXTENDS Integers, Sequences, FiniteSets, Functions

CONSTANTS Keys,        \* client keys (the IPs ClientIP returns)
          Requests,    \* handler goroutines that may be inside Check at once
          Capacity,    \* perMinute of New
          Minute,      \* clock ticks in a minute
          SweepSlack,  \* the extra second sweepLocked waits, in ticks
          SweepEvery,  \* the 10 minutes between periodic sweeps, in ticks
          MaxKeys,     \* cap of the bucket table
          MaxLag,      \* most ticks between reading the clock and the mutex
          MaxClock     \* bound of the model: last instant explored

ASSUME RateAssumption == /\ Capacity \in Nat \ {0} /\ Minute \in Nat \ {0}
                         /\ SweepSlack \in Nat /\ SweepEvery \in Nat
                         /\ MaxKeys \in Nat \ {0}
                         /\ MaxLag \in Nat /\ MaxClock \in Nat

(***************************************************************************)
(* A goroutine waits for the mutex at most about half a second: the second *)
(* of slack in sweepLocked covers the disorder of the readings.            *)
(***************************************************************************)
ASSUME LagAssumption == 2 * MaxLag <= SweepSlack + 1

VARIABLES clock,      \* time.Now
          buckets,    \* l.buckets: a function on the keys that have one
          lastSweep,  \* l.lastSweep
          waiting,    \* requests that read the clock and want the mutex
          grants,     \* history: instants at which each key was admitted
          promised    \* history: instant from which the last denial of the
                      \* key promised a token; NoPromise after an admission

vars == <<clock, buckets, lastSweep, waiting, grants, promised>>

\* Units a bucket earns in t ticks, and what it holds at most.
Earned(t) == Capacity * t
Full == Earned(Minute)
NoPromise == -1
Waiters == [id: Requests, key: Keys, now: Nat]

Init == /\ clock = 0
        /\ buckets = << >>
        /\ lastSweep = 0
        /\ waiting = {}
        /\ grants = [k \in Keys |-> << >>]
        /\ promised = [k \in Keys |-> NoPromise]

-----------------------------------------------------------------------------
(* The clock, and a request that has read it. *)

Tick == /\ clock < MaxClock
        /\ \A w \in waiting : clock - w.now < MaxLag
        /\ clock' = clock + 1
        /\ UNCHANGED <<buckets, lastSweep, waiting, grants, promised>>

Arrive(id, k) ==
  /\ \A w \in waiting : w.id # id
  /\ waiting' = waiting \union {[id |-> id, key |-> k, now |-> clock]}
  /\ UNCHANGED <<clock, buckets, lastSweep, grants, promised>>

-----------------------------------------------------------------------------
(* The locked section of Check. *)

\* Bug: a bucket is dropped as soon as it would have earned one token.
SweepsTooSoon(D, now) == {k \in D : now - buckets[k].last <= Minute \div Capacity}

\* sweepLocked: the keys of D that survive a sweep at instant now.
SweepKeeps(D, now) ==
  {k \in D : now - buckets[k].last <= Minute + SweepSlack}

SweepDue(w) == w.now - lastSweep > SweepEvery

AfterPeriodic(w) == IF SweepDue(w) THEN SweepKeeps(DOMAIN buckets, w.now)
                                   ELSE DOMAIN buckets

\* Bug: the cap is tested after the fact.
FullOneLate(w, D) == w.key \notin D /\ Cardinality(D) > MaxKeys

TableFull(w, D) == w.key \notin D /\ Cardinality(D) >= MaxKeys

\* Bug: a full table is not swept before a new client is refused.
LiveUnswept(w) == AfterPeriodic(w)

\* The keys in the table once both sweeps have had their say.
Live(w) == IF TableFull(w, AfterPeriodic(w))
             THEN SweepKeeps(AfterPeriodic(w), w.now)
             ELSE AfterPeriodic(w)

Swept(w) == SweepDue(w) \/ TableFull(w, AfterPeriodic(w))

\* Bug: an idle bucket keeps earning beyond its capacity.
RefilledUncapped(w) ==
  IF w.key \in Live(w)
    THEN buckets[w.key].tokens + Earned(w.now - buckets[w.key].last)
    ELSE Full

\* The bucket's units at the instant of the reading; a new bucket is full.
\* The elapsed time is negative when a later reading got the mutex first.
Refilled(w) ==
  IF w.key \in Live(w)
    THEN LET b == buckets[w.key]
             refill == b.tokens + Earned(w.now - b.last)
         IN  IF refill > Full THEN Full ELSE refill
    ELSE Full

\* The key's bucket is written back, other surviving buckets are kept.
Store(w, units) ==
  [k \in Live(w) \union {w.key} |->
     IF k = w.key THEN [tokens |-> units, last |-> w.now] ELSE buckets[k]]

Leave(w) == /\ w \in waiting
            /\ waiting' = waiting \ {w}
            /\ lastSweep' = IF Swept(w) THEN w.now ELSE lastSweep
            /\ UNCHANGED clock

Admit(w) == /\ Leave(w)
            /\ ~TableFull(w, Live(w))
            /\ Refilled(w) >= Minute
            /\ buckets' = Store(w, Refilled(w) - Minute)
            /\ grants' = [grants EXCEPT ![w.key] = Append(@, w.now)]
            /\ promised' = [promised EXCEPT ![w.key] = NoPromise]

\* Bug: the wait is truncated to whole ticks.
RetryAfterTruncated(units) == (Minute - units) \div Capacity

\* Whole ticks until the bucket holds one token: RetryAfterSeconds rounds up.
RetryAfter(units) == (Minute - units + Capacity - 1) \div Capacity

Deny(w) == /\ Leave(w)
           /\ ~TableFull(w, Live(w))
           /\ Refilled(w) < Minute
           /\ buckets' = Store(w, Refilled(w))
           /\ promised' = [promised EXCEPT
                             ![w.key] = w.now + RetryAfter(Refilled(w))]
           /\ UNCHANGED grants

\* Unknown key, and the table is full of clients that are not idle: refused
\* without a bucket.
TurnAway(w) == /\ Leave(w)
               /\ TableFull(w, Live(w))
               /\ buckets' = Restrict(buckets, Live(w))
               /\ UNCHANGED <<grants, promised>>

Next == \/ Tick
        \/ \E id \in Requests, k \in Keys : Arrive(id, k)
        \/ \E w \in waiting : Admit(w)
        \/ \E w \in waiting : Deny(w)
        \/ \E w \in waiting : TurnAway(w)

Spec == Init /\ [][Next]_vars

-----------------------------------------------------------------------------
(* Properties. *)

Budget == INSTANCE RateBudget WITH Times <- 0..MaxClock

\* Every variable has its type: in particular lastSweep and every bucket's
\* last are instants already shown by the clock.
TypeOK ==
  /\ clock \in 0..MaxClock
  /\ lastSweep \in 0..clock
  /\ DOMAIN buckets \subseteq Keys
  /\ \A k \in DOMAIN buckets : /\ buckets[k].tokens \in Int
                               /\ buckets[k].last \in 0..clock
  /\ waiting \subseteq Waiters
  /\ grants \in [Keys -> Seq(0..MaxClock)]
  /\ promised \in [Keys -> Int]

\* Whatever the order of the readings and the sweeps, between any two
\* admissions of a key there are no more than a full bucket plus what was
\* earned in between: forgetting a bucket and making a new one gives no
\* token away (Check, sweepLocked).
RateBound == \A k \in Keys : Budget!WithinRate(grants[k])

\* The limiter implements the rate budget, step by step.
ImplementsRateBudget == Budget!Spec

\* Memory is bounded: the sweeps and the refusal keep the table within
\* maxKeys for any number of client keys.
TableBounded == Cardinality(DOMAIN buckets) <= MaxKeys

\* "when denied it also returns how long until a token is available": a
\* client that comes back at the promised instant or later is admitted
\* (unless its bucket was swept and the table is full), whatever other
\* denials, sweeps and late readings happened in between.
RetryAfterHonoured ==
  \A w \in waiting :
     /\ promised[w.key] # NoPromise
     /\ w.now >= promised[w.key]
     /\ ~TableFull(w, Live(w))
     => Refilled(w) >= Minute

\* A client without a bucket is turned away only because the table is full
\* of clients that would not survive a sweep's cut: none of them was idle.
TurnedAwayOnlyWhenBusy ==
  [][\A w \in waiting :
        w \notin waiting' /\ w.key \notin DOMAIN buckets'
          => /\ Cardinality(DOMAIN buckets') = MaxKeys
             /\ \A k \in DOMAIN buckets' :
                   w.now - buckets'[k].last <= Minute + SweepSlack]_vars
=============================================================================
