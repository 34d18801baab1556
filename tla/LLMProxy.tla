------------------------------ MODULE LLMProxy ------------------------------
(***************************************************************************)
(* internal/llmproxy: Forward relays a request to the one upstream.  A     *)
(* non-blocking semaphore bounds the requests inside Forward, and a        *)
(* counter bounds those of a UTC day.                                      *)
(*                                                                         *)
(* takeBudget reads the clock before it takes budgetMu: midnight, and any  *)
(* other request, may come between the two.                                *)
(***************************************************************************)
EXTENDS Integers, FiniteSets

CONSTANTS Requests,       \* handler goroutines calling Forward
          MaxConcurrent,  \* capacity of sem
          Budget,         \* DailyRequestBudget (0, unlimited, is not modelled)
          MaxDay          \* bound of the model: last UTC day explored

ASSUME ProxyAssumption == /\ MaxConcurrent \in Nat \ {0}
                          /\ Budget \in Nat \ {0}
                          /\ MaxDay \in Nat
                          /\ IsFiniteSet(Requests)

NoDay == -1               \* budgetDay before the first request
Days == 0..MaxDay

VARIABLES today,      \* the UTC day the clock shows
          sem,        \* tokens in the channel p.sem
          pc,         \* where each request is in Forward
          readDay,    \* the day it read, for takeBudget
          budgetDay,  \* p.budgetDay
          budgetN,    \* p.budgetN
          taken,      \* history: units of budget taken by readers of each day
          raced       \* history: a unit was asked for after its day had passed

budgetVars == <<budgetDay, budgetN, taken, raced>>
vars == <<today, sem, pc, readDay, budgetDay, budgetN, taken, raced>>

\* body: reading and sanitizing it; day: the clock is read, budgetMu is not
\* yet taken; upstream: in client.Do; stream: copying the answer.
Places == {"idle", "body", "day", "upstream", "stream"}

Init == /\ today = 0
        /\ sem = 0
        /\ pc = [r \in Requests |-> "idle"]
        /\ readDay = [r \in Requests |-> 0]
        /\ budgetDay = NoDay
        /\ budgetN = 0
        /\ taken = [d \in Days |-> 0]
        /\ raced = FALSE

Midnight == /\ today < MaxDay
            /\ today' = today + 1
            /\ UNCHANGED <<sem, pc, readDay, budgetVars>>

-----------------------------------------------------------------------------
(* The semaphore. *)

\* Bug: the channel is tested after the fact.
AcquireLate(r) == /\ pc[r] = "idle"
                  /\ sem <= MaxConcurrent
                  /\ sem' = sem + 1
                  /\ pc' = [pc EXCEPT ![r] = "body"]
                  /\ UNCHANGED <<today, readDay, budgetVars>>

\* A full channel answers ErrBusy at once, which changes no state.
Acquire(r) == /\ pc[r] = "idle"
              /\ sem < MaxConcurrent
              /\ sem' = sem + 1
              /\ pc' = [pc EXCEPT ![r] = "body"]
              /\ UNCHANGED <<today, readDay, budgetVars>>

\* Bug: the release is not deferred and an error path misses it.
ReturnWithoutRelease(r) == /\ pc' = [pc EXCEPT ![r] = "idle"]
                           /\ sem' = IF pc[r] = "stream" THEN sem - 1 ELSE sem

\* Every return of Forward runs the deferred release.
Return(r) == /\ pc' = [pc EXCEPT ![r] = "idle"]
             /\ sem' = sem - 1

-----------------------------------------------------------------------------
(* Forward, between its waits. *)

\* ReadAll or Sanitize fails: nothing of the budget is spent.
Reject(r) == /\ pc[r] = "body"
             /\ Return(r)
             /\ UNCHANGED <<today, readDay, budgetVars>>

\* The body is valid and takeBudget has read the clock.
ReadDay(r) == /\ pc[r] = "body"
              /\ pc' = [pc EXCEPT ![r] = "day"]
              /\ readDay' = [readDay EXCEPT ![r] = today]
              /\ UNCHANGED <<today, sem, budgetVars>>

\* Bug: a change of day does not start the counter again.
NeverResets(r) == budgetN

\* Bug: the counter starts again at every request.
AlwaysResets(r) == 0

\* The count for the day that r read: a change of day starts it again.
CountFor(r) == IF readDay[r] = budgetDay THEN budgetN ELSE 0

\* Bug: one unit too many.
SpentLate(r) == CountFor(r) > Budget

Spent(r) == CountFor(r) >= Budget

\* The rest of takeBudget, under budgetMu.
TakeBudget(r) == /\ pc[r] = "day"
                 /\ ~Spent(r)
                 /\ pc' = [pc EXCEPT ![r] = "upstream"]
                 /\ budgetDay' = readDay[r]
                 /\ budgetN' = CountFor(r) + 1
                 /\ taken' = [taken EXCEPT ![readDay[r]] = @ + 1]
                 /\ raced' = (raced \/ readDay[r] # today)
                 /\ UNCHANGED <<today, sem, readDay>>

BudgetExceeded(r) == /\ pc[r] = "day"
                     /\ Spent(r)
                     /\ Return(r)
                     /\ UNCHANGED <<today, readDay, budgetVars>>

\* The upstream answered: the status and headers are relayed.
Answered(r) == /\ pc[r] = "upstream"
               /\ pc' = [pc EXCEPT ![r] = "stream"]
               /\ UNCHANGED <<today, sem, readDay, budgetVars>>

\* client.Do fails, times out, or the client went away: 502, and the unit of
\* budget stays spent.
UpstreamFailed(r) == /\ pc[r] = "upstream"
                     /\ Return(r)
                     /\ UNCHANGED <<today, readDay, budgetVars>>

\* End of the answer, an error on either side, or the timeout.
StreamEnds(r) == /\ pc[r] = "stream"
                 /\ Return(r)
                 /\ UNCHANGED <<today, readDay, budgetVars>>

Advance(r) == \/ Reject(r) \/ ReadDay(r)
              \/ TakeBudget(r) \/ BudgetExceeded(r)
              \/ Answered(r) \/ UpstreamFailed(r) \/ StreamEnds(r)

Next == Midnight \/ \E r \in Requests : Acquire(r) \/ Advance(r)

Spec == Init /\ [][Next]_vars

\* The read deadline ends the wait for the body and the request's context
\* the waits for the upstream and the stream: a request inside Forward moves.
FairSpec == Spec /\ \A r \in Requests : WF_vars(Advance(r))

-----------------------------------------------------------------------------
(* Properties. *)

TypeOK == /\ today \in Days
          /\ sem \in Nat
          /\ pc \in [Requests -> Places]
          /\ readDay \in [Requests -> Days]
          /\ budgetDay \in Days \union {NoDay}
          /\ budgetN \in Nat
          /\ taken \in [Days -> Nat]
          /\ raced \in BOOLEAN

Inside == {r \in Requests : pc[r] # "idle"}

\* Each request inside Forward holds exactly one slot, whatever way the ones
\* before it returned: none is leaked, none is given back twice, so at most
\* MaxConcurrent requests reach the upstream at once.
SlotPerRequest == sem = Cardinality(Inside) /\ sem <= MaxConcurrent

\* "DailyRequestBudget caps forwarded requests per UTC day": true as long as
\* no request took its unit after the day it had read was over.
CapUnlessRaced == ~raced => \A d \in Days : taken[d] <= Budget

\* When it did happen, the overrun is bounded by the slots: requests that
\* midnight caught before budgetMu start the counter again for the day before,
\* and the next request of the new day for its own, but they hold slots
\* meanwhile.  The bound is exact: TLC reaches it.
OverrunBounded ==
  \A d \in Days : taken[d] <= (Budget + 1) * MaxConcurrent - 1

\* A new day has its whole budget: a request is refused only when the day it
\* read has had Budget units already.
RefusedOnlyWhenSpent ==
  \A r \in Requests : pc[r] = "day" /\ Spent(r) => taken[readDay[r]] >= Budget

\* A proxy that is busy does not stay busy: slots come back on every path.
SlotsComeBack == sem >= MaxConcurrent ~> sem < MaxConcurrent

\* The documented cap, without the condition.
DailyCap == \A d \in Days : taken[d] <= Budget
=============================================================================
