--------------------------- MODULE LLMProxyProofs ---------------------------
(***************************************************************************)
(* Proofs about LLMProxy: the slots, the daily cap up to the race, and the *)
(* bound of what the race can add.                                         *)
(*                                                                         *)
(* The cap needs the invariant Ledger: as long as no unit was taken late,  *)
(* the counter IS the number of units of the last day, and no later day    *)
(* has had any.                                                            *)
(*                                                                         *)
(* The bound needs Overrun: what a day can still be given, over what it    *)
(* has been given, never grows while the day lasts, and after it only the  *)
(* requests that midnight caught can take more.                            *)
(***************************************************************************)
EXTENDS LLMProxy, FiniteSetTheorems, TLAPS

\* The counter never claims more than the day it counts for was given.
CounterHonest == budgetDay # NoDay => budgetN <= taken[budgetDay]

Ledger == ~raced => /\ budgetDay <= today
                    /\ budgetN <= Budget
                    /\ budgetDay = NoDay => budgetN = 0
                    /\ \A d \in Days : /\ taken[d] <= Budget
                                       /\ d = budgetDay => taken[d] = budgetN
                                       /\ d > budgetDay => taken[d] = 0

Slots == sem = Cardinality(Inside) /\ sem <= MaxConcurrent

IInv == TypeOK /\ CounterHonest /\ Ledger

LEMMA InsideFinite == IsFiniteSet(Inside) /\ Cardinality(Inside) \in Nat
  BY ProxyAssumption, FS_Subset, FS_CardinalityType DEF ProxyAssumption, Inside

\* Moving one request in or out of Forward moves the number inside by one.
LEMMA EnterInside ==
  ASSUME NEW r \in Requests, pc \in [Requests -> Places], NEW p \in Places,
         pc[r] = "idle", p # "idle", pc' = [pc EXCEPT ![r] = p]
  PROVE  Cardinality(Inside') = Cardinality(Inside) + 1
  <1>1. Inside' = Inside \union {r} /\ r \notin Inside
    BY DEF Inside
  <1> QED BY <1>1, InsideFinite, FS_AddElement

LEMMA LeaveInside ==
  ASSUME NEW r \in Requests, pc \in [Requests -> Places],
         pc[r] # "idle", pc' = [pc EXCEPT ![r] = "idle"]
  PROVE  Cardinality(Inside') = Cardinality(Inside) - 1
  <1>1. Inside' = Inside \ {r} /\ r \in Inside
    BY DEF Inside
  <1> QED BY <1>1, InsideFinite, FS_RemoveElement

LEMMA StayInside ==
  ASSUME NEW r \in Requests, pc \in [Requests -> Places], NEW p \in Places,
         pc[r] # "idle", p # "idle", pc' = [pc EXCEPT ![r] = p]
  PROVE  Inside' = Inside
  BY DEF Inside

\* Every return releases the slot that the request holds.
LEMMA ReturnKeepsSlots ==
  ASSUME TypeOK, Slots, NEW r \in Requests, pc[r] # "idle", Return(r)
  PROVE  Slots' /\ sem' \in Nat /\ pc' \in [Requests -> Places]
  <1>1. Cardinality(Inside') = Cardinality(Inside) - 1
    BY LeaveInside DEF TypeOK, Return
  <1>2. Cardinality(Inside) \in Nat /\ Cardinality(Inside) # 0
    <2>1. r \in Inside
      BY DEF Inside
    <2> QED BY <2>1, InsideFinite, FS_EmptySet
  <1>3. pc' \in [Requests -> Places]
    BY DEF TypeOK, Return, Places
  <1> QED BY <1>1, <1>2, <1>3, ProxyAssumption
          DEF Slots, Return, TypeOK, ProxyAssumption

LEMMA InitHolds == Init => IInv /\ Slots
  <1> SUFFICES ASSUME Init PROVE IInv /\ Slots
    OBVIOUS
  <1> USE ProxyAssumption DEF ProxyAssumption, Init
  <1>1. TypeOK
    <2>1. 0 \in Days /\ NoDay \in Days \union {NoDay} /\ "idle" \in Places
      BY DEF Days, Places
    <2>2. /\ pc \in [Requests -> Places] /\ readDay \in [Requests -> Days]
          /\ taken \in [Days -> Nat]
      BY <2>1
    <2> QED BY <2>1, <2>2 DEF TypeOK
  <1>2. CounterHonest /\ Ledger
    BY DEF CounterHonest, Ledger, Days, NoDay
  <1>3. Slots
    <2>1. Inside = {}
      BY DEF Inside
    <2> QED BY <2>1, FS_EmptySet DEF Slots
  <1> QED BY <1>1, <1>2, <1>3 DEF IInv

\* The steps that leave the budget alone keep what is said about it.
LEMMA BudgetUntouched ==
  ASSUME IInv, UNCHANGED budgetVars, today' \in Days, today' >= today
  PROVE  CounterHonest' /\ Ledger'
  BY ProxyAssumption
     DEF IInv, TypeOK, CounterHonest, Ledger, budgetVars, Days, NoDay, ProxyAssumption

LEMMA TakeBudgetKeeps ==
  ASSUME IInv, NEW r \in Requests, TakeBudget(r)
  PROVE  IInv'
  <1> DEFINE d == readDay[r]
             n == CountFor(r)
  <1> USE ProxyAssumption DEF ProxyAssumption, TakeBudget
  <1>1. /\ d \in Days /\ d \in Nat /\ n \in Nat /\ n < Budget
        /\ today \in Nat /\ budgetN \in Nat /\ Budget \in Nat
        /\ budgetDay \in Days \union {NoDay}
        /\ taken \in [Days -> Nat]
    BY DEF IInv, TypeOK, Days, CountFor, Spent
  <1>2. /\ budgetDay' = d /\ budgetN' = n + 1 /\ today' = today
        /\ taken' = [taken EXCEPT ![d] = @ + 1]
        /\ taken'[d] = taken[d] + 1
        /\ \A e \in Days \ {d} : taken'[e] = taken[e]
    BY <1>1
  <1>3. TypeOK'
    BY <1>1, <1>2 DEF IInv, TypeOK, Places
  <1>4. n <= taken[d]
    BY <1>1 DEF IInv, CounterHonest, CountFor, Days, NoDay
  <1>5. CounterHonest'
    BY <1>1, <1>2, <1>4 DEF CounterHonest
  <1>6. Ledger'
    <2> SUFFICES ASSUME ~raced' PROVE Ledger'
      BY DEF Ledger
    <2>1. ~raced /\ d = today
      BY DEF IInv, TypeOK
    <2>2. /\ budgetDay <= today
          /\ \A e \in Days : /\ taken[e] <= Budget
                             /\ e = budgetDay => taken[e] = budgetN
                             /\ e > budgetDay => taken[e] = 0
      BY <2>1 DEF IInv, Ledger
    <2>3. taken[d] = n
      <3>1. CASE d = budgetDay
        BY <1>1, <2>2, <3>1 DEF CountFor
      <3>2. CASE d # budgetDay
        <4>1. d > budgetDay
          BY <1>1, <2>1, <2>2, <3>2 DEF Days, NoDay
        <4> QED BY <1>1, <2>2, <3>2, <4>1 DEF CountFor
      <3> QED BY <3>1, <3>2
    <2>4. \A e \in Days : e > d => taken[e] = 0
      BY <1>1, <2>1, <2>2 DEF Days, NoDay
    <2> HIDE DEF d, n
    <2>5. \A e \in Days : /\ taken'[e] <= Budget
                          /\ e = d => taken'[e] = n + 1
                          /\ e > d => taken'[e] = 0
      BY <1>1, <1>2, <2>2, <2>3, <2>4 DEF Days
    <2>6. d <= today' /\ n + 1 <= Budget /\ d # NoDay
      BY <1>1, <1>2, <2>1 DEF NoDay
    <2> QED BY <1>2, <2>5, <2>6 DEF Ledger
  <1> QED BY <1>3, <1>5, <1>6 DEF IInv

LEMMA NextKeeps == IInv /\ Slots /\ [Next]_vars => IInv' /\ Slots'
  <1> SUFFICES ASSUME IInv, Slots, [Next]_vars PROVE IInv' /\ Slots'
    OBVIOUS
  <1> USE ProxyAssumption DEF ProxyAssumption
  <1>2. CASE Midnight
    <2>1. today' \in Days /\ today' >= today
      BY <1>2 DEF IInv, TypeOK, Midnight, Days
    <2>2. TypeOK'
      BY <1>2, <2>1 DEF IInv, TypeOK, Midnight, budgetVars
    <2> QED BY <1>2, <2>1, <2>2, BudgetUntouched DEF IInv, Midnight, Slots, Inside
  <1>3. ASSUME NEW r \in Requests, Acquire(r) PROVE IInv' /\ Slots'
    <2>1. TypeOK'
      BY <1>3 DEF IInv, TypeOK, Acquire, budgetVars, Places
    <2>2. Cardinality(Inside') = Cardinality(Inside) + 1
      BY <1>3, EnterInside DEF IInv, TypeOK, Acquire, Places
    <2>3. Slots'
      BY <1>3, <2>2 DEF Slots, Acquire, IInv, TypeOK
    <2>4. today' \in Days /\ today' >= today
      BY <1>3 DEF Acquire, IInv, TypeOK, Days
    <2> QED BY <1>3, <2>1, <2>3, <2>4, BudgetUntouched DEF IInv, Acquire
  <1>4. ASSUME NEW r \in Requests,
               Reject(r) \/ BudgetExceeded(r) \/ UpstreamFailed(r) \/ StreamEnds(r)
        PROVE  IInv' /\ Slots'
    <2>1. /\ pc[r] # "idle" /\ Return(r)
          /\ UNCHANGED <<today, readDay>> /\ UNCHANGED budgetVars
      BY <1>4 DEF Reject, BudgetExceeded, UpstreamFailed, StreamEnds
    <2>2. Slots' /\ sem' \in Nat /\ pc' \in [Requests -> Places]
      BY <2>1, ReturnKeepsSlots DEF IInv
    <2>3. today' \in Days /\ today' >= today
      BY <2>1 DEF IInv, TypeOK, Days
    <2>4. TypeOK'
      BY <2>1, <2>2 DEF IInv, TypeOK, budgetVars
    <2> QED BY <2>1, <2>2, <2>3, <2>4, BudgetUntouched DEF IInv
  <1>5. ASSUME NEW r \in Requests, ReadDay(r) \/ Answered(r)
        PROVE  IInv' /\ Slots'
    <2>1. /\ pc[r] # "idle" /\ UNCHANGED <<today, sem>> /\ UNCHANGED budgetVars
          /\ \E p \in Places \ {"idle"} : pc' = [pc EXCEPT ![r] = p]
      BY <1>5 DEF ReadDay, Answered, Places
    <2>2. Inside' = Inside /\ pc' \in [Requests -> Places]
      BY <2>1, StayInside DEF IInv, TypeOK
    <2>3. readDay' \in [Requests -> Days]
      BY <1>5 DEF ReadDay, Answered, IInv, TypeOK
    <2>4. TypeOK' /\ today' \in Days /\ today' >= today
      BY <2>1, <2>2, <2>3 DEF IInv, TypeOK, budgetVars, Days
    <2> QED BY <2>1, <2>2, <2>4, BudgetUntouched DEF IInv, Slots
  <1>6. ASSUME NEW r \in Requests, TakeBudget(r) PROVE IInv' /\ Slots'
    <2>1. Inside' = Inside /\ sem' = sem
      BY <1>6, StayInside DEF TakeBudget, IInv, TypeOK, Places
    <2> QED BY <1>6, <2>1, TakeBudgetKeeps DEF Slots
  <1>7. CASE UNCHANGED vars
    BY <1>7 DEF vars, IInv, TypeOK, CounterHonest, Ledger, Slots, Inside
  <1> QED BY <1>2, <1>3, <1>4, <1>5, <1>6, <1>7 DEF Next, Advance

THEOREM Invariant == Spec => [](IInv /\ Slots)
  BY InitHolds, NextKeeps, PTL DEF Spec

\* The variables of the proxy keep their types.
THEOREM TypeCorrect == Spec => []TypeOK
  BY Invariant, PTL DEF IInv

\* For any number of requests and slots: no path through Forward leaks a slot
\* or gives one back twice, so at most MaxConcurrent are ever inside.
THEOREM SlotsNeverLeak == Spec => []SlotPerRequest
  BY Invariant, PTL DEF Slots, SlotPerRequest

\* For any budget: unless a request takes its unit after the day it read, no
\* UTC day is given more than the budget (takeBudget).
THEOREM CapHolds == Spec => []CapUnlessRaced
  <1>1. IInv => CapUnlessRaced
    BY DEF IInv, Ledger, CapUnlessRaced
  <1> QED BY <1>1, Invariant, PTL

\* For any budget, late units or not: a request is refused only on a day that
\* was given the whole budget (takeBudget).
THEOREM RefusalsJustified == Spec => []RefusedOnlyWhenSpent
  <1>1. IInv => RefusedOnlyWhenSpent
    <2> SUFFICES ASSUME IInv, NEW r \in Requests, pc[r] = "day", Spent(r)
                 PROVE  taken[readDay[r]] >= Budget
      BY DEF RefusedOnlyWhenSpent
    <2>1. readDay[r] = budgetDay /\ budgetN >= Budget /\ readDay[r] \in Days
      BY ProxyAssumption DEF Spent, CountFor, IInv, TypeOK, ProxyAssumption
    <2> QED BY <2>1, ProxyAssumption
            DEF IInv, TypeOK, CounterHonest, Days, NoDay, ProxyAssumption
  <1> QED BY <1>1, Invariant, PTL

-----------------------------------------------------------------------------
(* How much the race can add. *)

\* The requests before budgetMu that read day d, and those that read an
\* earlier one.
Readers(d) == {r \in Requests : pc[r] = "day" /\ readDay[r] = d}
Behind(d) == {r \in Requests : pc[r] = "day" /\ readDay[r] < d}

\* What the counter says of day d.
CountOf(d) == IF budgetDay = d THEN budgetN ELSE 0

\* Today: the rest of this count, and a whole budget for each request that is
\* behind, for it may start the counter again.
Open(d) == \/ taken[d] = 0
           \/ taken[d] + (Budget - CountOf(d)) + Budget * Cardinality(Behind(d))
                <= Budget * MaxConcurrent

\* A day that is over: one unit for each request that read it - except that
\* when these hold all slots and the count is full, the first is refused.
Over(d) == \/ taken[d] + Cardinality(Readers(d)) <= (Budget + 1) * MaxConcurrent - 1
           \/ /\ taken[d] <= Budget * MaxConcurrent
              /\ Cardinality(Readers(d)) = MaxConcurrent
              /\ budgetDay = d /\ budgetN = Budget

Overrun == \A d \in Days : /\ d > today => taken[d] = 0
                           /\ d = today => Open(d)
                           /\ d < today => Over(d)

\* No request is ahead of the clock, and the counter never passes the budget.
NotAhead == /\ budgetN <= Budget
            /\ \A r \in Requests : pc[r] = "day" => readDay[r] <= today

OverInv == Overrun /\ NotAhead

LEMMA Caught ==
  ASSUME TypeOK, Slots, NEW d \in Days
  PROVE  /\ Readers(d) \subseteq Inside /\ Behind(d) \subseteq Inside
         /\ IsFiniteSet(Readers(d)) /\ Cardinality(Readers(d)) \in Nat
         /\ Cardinality(Readers(d)) <= MaxConcurrent
         /\ IsFiniteSet(Behind(d)) /\ Cardinality(Behind(d)) \in Nat
         /\ \A r \in Inside \ Behind(d) : Cardinality(Behind(d)) <= MaxConcurrent - 1
         /\ Cardinality(Readers(d)) = MaxConcurrent => Readers(d) = Inside
  <1>1. Readers(d) \in SUBSET Inside /\ Behind(d) \in SUBSET Inside
    BY DEF Readers, Behind, Inside
  <1>2. /\ IsFiniteSet(Inside) /\ Cardinality(Inside) \in Nat
        /\ Cardinality(Inside) <= MaxConcurrent /\ MaxConcurrent \in Nat
    BY InsideFinite, ProxyAssumption DEF Slots, ProxyAssumption
  <1>3. /\ IsFiniteSet(Readers(d)) /\ Cardinality(Readers(d)) <= Cardinality(Inside)
        /\ Cardinality(Inside) = Cardinality(Readers(d)) => Inside = Readers(d)
    BY <1>1, <1>2, FS_Subset
  <1>4. /\ IsFiniteSet(Behind(d)) /\ Cardinality(Behind(d)) <= Cardinality(Inside)
        /\ Cardinality(Inside) = Cardinality(Behind(d)) => Inside = Behind(d)
    BY <1>1, <1>2, FS_Subset
  <1>5. Cardinality(Readers(d)) \in Nat /\ Cardinality(Behind(d)) \in Nat
    BY <1>3, <1>4, FS_CardinalityType
  <1> HIDE DEF Inside, Readers, Behind
  <1>6. ASSUME NEW r \in Inside \ Behind(d)
        PROVE  Cardinality(Behind(d)) <= MaxConcurrent - 1
    BY <1>2, <1>4, <1>5, <1>6
  <1> QED BY <1>1, <1>2, <1>3, <1>4, <1>5, <1>6

LEMMA Products ==
  ASSUME NEW b \in Nat, NEW m \in Nat, NEW n \in Nat
  PROVE  /\ b * m \in Nat /\ (b + 1) * m = b * m + m
         /\ m <= n => b * m <= b * n
         /\ m <= n - 1 => b * m <= b * n - b
         /\ m \in Nat \ {0} => b * (m - 1) = b * m - b
  <1>1. b * m \in Nat /\ (b + 1) * m = b * m + m
    OBVIOUS
  <1>2. ASSUME m <= n PROVE b * m <= b * n
    BY <1>2
  <1>3. ASSUME m <= n - 1 PROVE b * m <= b * n - b
    <2>1. b * (n - 1) = b * n - b
      OBVIOUS
    <2>2. n - 1 \in Nat /\ m <= n - 1
      BY <1>3
    <2>3. b * m <= b * (n - 1)
      BY <2>2
    <2> QED BY <2>1, <2>3
  <1>4. b * (m - 1) = b * m - b
    OBVIOUS
  <1> QED BY <1>1, <1>2, <1>3, <1>4

\* A step that leaves the counter alone and brings nobody new to budgetMu for
\* a day that is over.
LEMMA OverrunQuiet ==
  ASSUME TypeOK, Slots, TypeOK', Slots', Overrun, UNCHANGED <<today, budgetVars>>,
         \A d \in Days : /\ d <= today => Behind(d)' \subseteq Behind(d)
                         /\ d < today => Readers(d)' \subseteq Readers(d)
  PROVE  Overrun'
  <1> SUFFICES ASSUME NEW d \in Days
               PROVE  /\ d > today => taken[d] = 0
                      /\ d = today => Open(d)'
                      /\ d < today => Over(d)'
    BY DEF Overrun, budgetVars
  <1>1. /\ taken' = taken /\ budgetDay' = budgetDay /\ budgetN' = budgetN
        /\ taken[d] \in Nat /\ budgetN \in Nat /\ d \in Nat /\ today \in Nat
        /\ Budget \in Nat /\ MaxConcurrent \in Nat /\ CountOf(d) \in Nat
    BY ProxyAssumption DEF budgetVars, TypeOK, Days, ProxyAssumption, CountOf
  <1>2. /\ d > today => taken[d] = 0
        /\ d = today => Open(d)
        /\ d < today => Over(d)
    BY DEF Overrun
  <1>3. ASSUME d = today PROVE Open(d)'
    <2>1. CASE taken[d] = 0
      BY <1>1, <2>1 DEF Open
    <2>2. CASE taken[d] # 0
      <3>0. IsFiniteSet(Behind(d)) /\ Behind(d)' \in SUBSET Behind(d)
        BY <1>1, <1>3, Caught
      <3>1. /\ IsFiniteSet(Behind(d)') /\ Cardinality(Behind(d)') <= Cardinality(Behind(d))
        BY ONLY <3>0, FS_Subset
      <3>2. Cardinality(Behind(d)) \in Nat /\ Cardinality(Behind(d)') \in Nat
        BY ONLY <3>0, <3>1, FS_CardinalityType
      <3>3. /\ Budget * Cardinality(Behind(d)') <= Budget * Cardinality(Behind(d))
            /\ Budget * Cardinality(Behind(d)) \in Nat
            /\ Budget * Cardinality(Behind(d)') \in Nat
            /\ Budget * MaxConcurrent \in Nat
        BY <1>1, <3>1, <3>2, Products
      <3>4. taken[d] + (Budget - CountOf(d)) + Budget * Cardinality(Behind(d))
              <= Budget * MaxConcurrent
        BY <1>2, <1>3, <2>2 DEF Open
      <3>5. taken[d] + (Budget - CountOf(d)) + Budget * Cardinality(Behind(d)')
              <= Budget * MaxConcurrent
        BY <1>1, <3>3, <3>4
      <3>6. CountOf(d)' = CountOf(d)
        BY <1>1 DEF CountOf
      <3> QED BY <1>1, <3>5, <3>6 DEF Open
    <2> QED BY <2>1, <2>2
  <1>4. ASSUME d < today PROVE Over(d)'
    <2>1. /\ Cardinality(Readers(d)') <= Cardinality(Readers(d))
          /\ Cardinality(Readers(d)') \in Nat /\ Cardinality(Readers(d)) \in Nat
          /\ Cardinality(Readers(d)') <= MaxConcurrent
      <3>1. /\ IsFiniteSet(Readers(d)) /\ Readers(d)' \in SUBSET Readers(d)
            /\ Cardinality(Readers(d)) <= MaxConcurrent
        BY <1>1, <1>4, Caught
      <3>2. IsFiniteSet(Readers(d)') /\ Cardinality(Readers(d)') <= Cardinality(Readers(d))
        BY ONLY <3>1, FS_Subset
      <3>3. Cardinality(Readers(d)) \in Nat /\ Cardinality(Readers(d)') \in Nat
        BY ONLY <3>1, <3>2, FS_CardinalityType
      <3> QED BY <1>1, <3>1, <3>2, <3>3
    <2>2. /\ (Budget + 1) * MaxConcurrent = Budget * MaxConcurrent + MaxConcurrent
          /\ Budget * MaxConcurrent \in Nat
      BY <1>1, Products
    <2>3. \/ taken[d] + Cardinality(Readers(d)) <= (Budget + 1) * MaxConcurrent - 1
          \/ /\ taken[d] <= Budget * MaxConcurrent
             /\ Cardinality(Readers(d)) = MaxConcurrent
             /\ budgetDay = d /\ budgetN = Budget
      BY <1>2, <1>4 DEF Over
    <2>4. \/ taken[d] + Cardinality(Readers(d)') <= (Budget + 1) * MaxConcurrent - 1
          \/ /\ taken[d] <= Budget * MaxConcurrent
             /\ Cardinality(Readers(d)') = MaxConcurrent
             /\ budgetDay = d /\ budgetN = Budget
      BY <1>1, <2>1, <2>2, <2>3
    <2> QED BY <1>1, <2>4 DEF Over
  <1> QED BY <1>2, <1>3, <1>4

\* Midnight: the day that ends had its due, and those it catches hold slots.
LEMMA OverrunMidnight ==
  ASSUME TypeOK, Slots, OverInv, Midnight
  PROVE  Overrun'
  <1> SUFFICES ASSUME NEW d \in Days
               PROVE  /\ d > today' => taken'[d] = 0
                      /\ d = today' => Open(d)'
                      /\ d < today' => Over(d)'
    BY DEF Overrun
  <1>1. /\ taken' = taken /\ budgetDay' = budgetDay /\ budgetN' = budgetN
        /\ today' = today + 1 /\ Readers(d)' = Readers(d)
        /\ taken[d] \in Nat /\ budgetN \in Nat /\ d \in Nat /\ today \in Nat
        /\ Budget \in Nat \ {0} /\ MaxConcurrent \in Nat \ {0} /\ budgetN <= Budget
    BY ProxyAssumption
       DEF budgetVars, TypeOK, Days, ProxyAssumption, Midnight, OverInv, NotAhead, Readers
  <1>2. /\ d > today => taken[d] = 0
        /\ d = today => Open(d)
        /\ d < today => Over(d)
    BY DEF Overrun, OverInv
  <1>3. CASE d > today
    <2>1. taken'[d] = 0
      BY <1>1, <1>2, <1>3
    <2> QED BY <1>1, <1>3, <2>1 DEF Open
  <1>4. CASE d < today
    BY <1>1, <1>2, <1>4 DEF Over
  <1>5. CASE d = today
    <2> DEFINE c == Cardinality(Readers(d))
               full == budgetDay = d /\ budgetN = Budget
    <2>1. c \in Nat /\ c <= MaxConcurrent
      BY Caught
    <2>2. /\ (Budget + 1) * MaxConcurrent = Budget * MaxConcurrent + MaxConcurrent
          /\ Budget * MaxConcurrent \in Nat
          /\ MaxConcurrent <= Budget * MaxConcurrent
          /\ Budget * Cardinality(Behind(d)) \in Nat
      <3>1. Cardinality(Behind(d)) \in Nat
        BY Caught
      <3>2. MaxConcurrent * 1 <= MaxConcurrent * Budget
        BY <1>1, Products
      <3> QED BY <1>1, <3>1, <3>2, Products
    <2>3. taken[d] <= Budget * MaxConcurrent /\ (~full => taken[d] < Budget * MaxConcurrent)
      <3>1. CASE taken[d] = 0
        BY <1>1, <2>2, <3>1
      <3>2. CASE taken[d] # 0
        <4>1. taken[d] + (Budget - CountOf(d)) + Budget * Cardinality(Behind(d))
                <= Budget * MaxConcurrent
          BY <1>2, <1>5, <3>2 DEF Open
        <4>2. CountOf(d) \in Nat /\ CountOf(d) <= Budget /\ (~full => CountOf(d) < Budget)
          BY <1>1 DEF CountOf
        <4> HIDE DEF full
        <4> QED BY <1>1, <2>2, <4>1, <4>2
      <3> QED BY <3>1, <3>2
    <2> HIDE DEF c
    <2>4. \/ taken[d] + c <= (Budget + 1) * MaxConcurrent - 1
          \/ taken[d] <= Budget * MaxConcurrent /\ c = MaxConcurrent /\ full
      BY <1>1, <2>1, <2>2, <2>3
    <2> QED BY <1>1, <1>5, <2>4 DEF Over, c
  <1> QED BY <1>1, <1>3, <1>4, <1>5

LEMMA OverrunTake ==
  ASSUME TypeOK, CounterHonest, Slots, OverInv, NEW r \in Requests, TakeBudget(r)
  PROVE  Overrun'
  <1> SUFFICES ASSUME NEW d \in Days
               PROVE  /\ d > today' => taken'[d] = 0
                      /\ d = today' => Open(d)'
                      /\ d < today' => Over(d)'
    BY DEF Overrun
  <1> DEFINE e == readDay[r]
  <1>1. /\ today' = today /\ readDay' = readDay /\ pc' = [pc EXCEPT ![r] = "upstream"]
        /\ budgetDay' = e /\ budgetN' = CountOf(e) + 1
        /\ taken' = [taken EXCEPT ![e] = @ + 1]
        /\ pc[r] = "day" /\ e <= today /\ CountOf(e) < Budget
        /\ e \in Days /\ e \in Nat /\ d \in Nat /\ today \in Nat
        /\ Budget \in Nat /\ MaxConcurrent \in Nat
        /\ CountOf(e) \in Nat /\ CountOf(d) \in Nat /\ taken \in [Days -> Nat]
        /\ pc \in [Requests -> Places]
    <2>1. CountFor(r) = CountOf(e)
      BY DEF CountFor, CountOf
    <2>2. CountOf(e) \in Nat /\ CountOf(d) \in Nat /\ e \in Days /\ Budget \in Nat
      BY ProxyAssumption DEF TypeOK, CountOf, ProxyAssumption
    <2>3. CountOf(e) < Budget
      BY <2>1, <2>2 DEF TakeBudget, Spent
    <2>4. /\ pc[r] = "day" /\ today' = today /\ readDay' = readDay
          /\ pc' = [pc EXCEPT ![r] = "upstream"] /\ budgetDay' = e
          /\ budgetN' = CountFor(r) + 1 /\ taken' = [taken EXCEPT ![e] = @ + 1]
      BY DEF TakeBudget
    <2>5. /\ taken \in [Days -> Nat] /\ pc \in [Requests -> Places]
          /\ today \in Nat /\ MaxConcurrent \in Nat
      BY ProxyAssumption DEF TypeOK, Days, ProxyAssumption
    <2>6. e <= today /\ e \in Nat /\ d \in Nat
      BY <2>2, <2>4, ProxyAssumption DEF OverInv, NotAhead, Days, ProxyAssumption
    <2> HIDE DEF e
    <2> QED BY <2>1, <2>2, <2>3, <2>4, <2>5, <2>6
  <1>2. /\ d > today => taken[d] = 0
        /\ d = today => Open(d)
        /\ d < today => Over(d)
    BY DEF Overrun, OverInv
  <1>3. /\ taken[d] \in Nat /\ CountOf(d) <= taken[d] /\ CountOf(d) <= Budget
        /\ Readers(d)' = Readers(d) \ {r} /\ Behind(d)' = Behind(d) \ {r}
        /\ r \in Inside
    BY <1>1 DEF CountOf, CounterHonest, Days, NoDay, OverInv, NotAhead, Readers, Behind, Inside
  <1>4. /\ Cardinality(Readers(d)) \in Nat /\ Cardinality(Behind(d)) \in Nat
        /\ Cardinality(Readers(d)') = Cardinality(Readers(d)) - (IF r \in Readers(d) THEN 1 ELSE 0)
        /\ Cardinality(Behind(d)') = Cardinality(Behind(d)) - (IF r \in Behind(d) THEN 1 ELSE 0)
    <2>1. /\ IsFiniteSet(Readers(d)) /\ IsFiniteSet(Behind(d))
          /\ Cardinality(Readers(d)) \in Nat /\ Cardinality(Behind(d)) \in Nat
      BY Caught
    <2>2. /\ Cardinality(Readers(d) \ {r}) = IF r \in Readers(d) THEN Cardinality(Readers(d)) - 1
                                                               ELSE Cardinality(Readers(d))
          /\ Cardinality(Behind(d) \ {r}) = IF r \in Behind(d) THEN Cardinality(Behind(d)) - 1
                                                             ELSE Cardinality(Behind(d))
      BY ONLY <2>1, FS_RemoveElement
    <2> QED BY <1>3, <2>1, <2>2
  <1>5. CASE d > today
    BY <1>1, <1>2, <1>5
  <1>6. CASE d = today /\ e = d
    <2>1. /\ taken'[d] = taken[d] + 1 /\ CountOf(d)' = CountOf(d) + 1
          /\ r \notin Behind(d)
      BY <1>1, <1>6 DEF CountOf, Behind
    <2>2. /\ Cardinality(Behind(d)') = Cardinality(Behind(d))
          /\ Cardinality(Behind(d)) <= MaxConcurrent - 1
      BY <1>3, <1>4, <2>1, Caught
    <2>3. /\ Budget * Cardinality(Behind(d)) <= Budget * MaxConcurrent - Budget
          /\ Budget * MaxConcurrent \in Nat /\ Budget * Cardinality(Behind(d)) \in Nat
      BY <1>1, <1>4, <2>2, Products
    <2>4. taken[d] + (Budget - CountOf(d)) + Budget * Cardinality(Behind(d))
            <= Budget * MaxConcurrent
      <3>1. CASE taken[d] = 0
        BY <1>1, <1>3, <2>3, <3>1
      <3> QED BY <1>2, <1>6, <3>1 DEF Open
    <2>5. taken'[d] + (Budget - CountOf(d)') + Budget * Cardinality(Behind(d)')
            <= Budget * MaxConcurrent
      BY <1>1, <1>3, <2>1, <2>2, <2>3, <2>4
    <2> QED BY <1>1, <1>6, <2>5 DEF Open
  <1>7. CASE d = today /\ e < d
    <2>1. /\ taken'[d] = taken[d] /\ CountOf(d)' = 0 /\ r \in Behind(d)
      BY <1>1, <1>7 DEF CountOf, Behind
    <2>2. CASE taken[d] = 0
      BY <1>1, <1>7, <2>1, <2>2 DEF Open
    <2>3. CASE taken[d] # 0
      <3>1. /\ Cardinality(Behind(d)') = Cardinality(Behind(d)) - 1
            /\ Cardinality(Behind(d)) \in Nat \ {0}
        <4>1. Behind(d) # {} /\ IsFiniteSet(Behind(d))
          BY <2>1, Caught
        <4>2. Cardinality(Behind(d)) # 0
          BY <4>1, FS_EmptySet
        <4> QED BY <1>4, <2>1, <4>2
      <3>2. /\ Budget * Cardinality(Behind(d)') = Budget * Cardinality(Behind(d)) - Budget
            /\ Budget * MaxConcurrent \in Nat /\ Budget * Cardinality(Behind(d)) \in Nat
        BY <1>1, <3>1, Products
      <3>3. taken[d] + (Budget - CountOf(d)) + Budget * Cardinality(Behind(d))
              <= Budget * MaxConcurrent
        BY <1>2, <1>7, <2>3 DEF Open
      <3>4. taken'[d] + (Budget - CountOf(d)') + Budget * Cardinality(Behind(d)')
              <= Budget * MaxConcurrent
        BY <1>1, <1>3, <2>1, <3>2, <3>3
      <3> QED BY <1>1, <1>7, <3>4 DEF Open
    <2> QED BY <2>2, <2>3
  <1>8. CASE d < today
    <2>0. /\ (Budget + 1) * MaxConcurrent = Budget * MaxConcurrent + MaxConcurrent
          /\ Budget * MaxConcurrent \in Nat
      BY <1>1, Products
    <2>1. taken[d] + Cardinality(Readers(d)) <= (Budget + 1) * MaxConcurrent - 1
      <3>1. ASSUME Cardinality(Readers(d)) = MaxConcurrent, budgetDay = d, budgetN = Budget
            PROVE  FALSE
        <4>1. r \in Readers(d)
          BY <1>3, <3>1, Caught
        <4>2. CountOf(e) = Budget
          BY <3>1, <4>1 DEF Readers, CountOf
        <4> QED BY <1>1, <4>2
      <3> QED BY <1>2, <1>8, <3>1 DEF Over
    <2>2. taken'[d] + Cardinality(Readers(d)') = taken[d] + Cardinality(Readers(d))
      <3>1. CASE e = d
        <4>1. r \in Readers(d) /\ taken'[d] = taken[d] + 1
          BY <1>1, <3>1 DEF Readers
        <4> QED BY <1>3, <1>4, <4>1
      <3>2. CASE e # d
        <4>1. r \notin Readers(d) /\ taken'[d] = taken[d]
          BY <1>1, <3>2 DEF Readers
        <4> QED BY <1>3, <1>4, <4>1
      <3> QED BY <3>1, <3>2
    <2> QED BY <1>1, <1>8, <2>1, <2>2 DEF Over
  <1> QED BY <1>1, <1>5, <1>6, <1>7, <1>8

LEMMA OverInvStep ==
  ASSUME IInv, Slots, OverInv, [Next]_vars
  PROVE  OverInv'
  <1>0. TypeOK /\ CounterHonest /\ TypeOK' /\ Slots'
    BY NextKeeps DEF IInv
  <1>1. /\ today \in Nat /\ today' \in Nat /\ Budget \in Nat /\ budgetN \in Nat
        /\ readDay \in [Requests -> Nat] /\ pc \in [Requests -> Places]
    BY <1>0, ProxyAssumption DEF TypeOK, Days, ProxyAssumption
  <1>2. CASE Midnight
    <2>1. NotAhead'
      BY <1>1, <1>2 DEF NotAhead, OverInv, Midnight, budgetVars
    <2> QED BY <1>0, <1>2, <2>1, OverrunMidnight DEF OverInv
  <1>3. ASSUME NEW r \in Requests, TakeBudget(r) PROVE OverInv'
    <2>1. NotAhead'
      <3>1. CountFor(r) \in Nat /\ CountFor(r) < Budget
        BY <1>1, <1>3 DEF TakeBudget, Spent, CountFor
      <3>2. \A q \in Requests : pc'[q] = "day" => readDay'[q] <= today'
        BY <1>1, <1>3 DEF TakeBudget, NotAhead, OverInv
      <3> QED BY <1>1, <1>3, <3>1, <3>2 DEF TakeBudget, NotAhead
    <2> QED BY <1>0, <1>3, <2>1, OverrunTake DEF OverInv
  <1>4. ASSUME NEW r \in Requests, NEW p \in Places \ {"day"},
               pc' = [pc EXCEPT ![r] = p], UNCHANGED <<today, readDay, budgetVars>>
        PROVE  OverInv'
    <2>1. \A d \in Days : Behind(d)' \subseteq Behind(d) /\ Readers(d)' \subseteq Readers(d)
      BY <1>1, <1>4 DEF Behind, Readers
    <2>2. NotAhead'
      BY <1>1, <1>4 DEF NotAhead, OverInv, budgetVars
    <2> QED BY <1>0, <1>4, <2>1, <2>2, OverrunQuiet DEF OverInv
  <1>5. ASSUME NEW r \in Requests,
               \/ Acquire(r) \/ Reject(r) \/ BudgetExceeded(r)
               \/ Answered(r) \/ UpstreamFailed(r) \/ StreamEnds(r)
        PROVE  OverInv'
    <2>1. /\ UNCHANGED <<today, readDay, budgetVars>>
          /\ \E p \in Places \ {"day"} : pc' = [pc EXCEPT ![r] = p]
      BY <1>5 DEF Acquire, Reject, BudgetExceeded, Answered, UpstreamFailed, StreamEnds,
                  Return, Places
    <2> QED BY <1>4, <2>1
  <1>6. ASSUME NEW r \in Requests, ReadDay(r) PROVE OverInv'
    <2>1. /\ UNCHANGED <<today, budgetVars>>
          /\ pc' = [pc EXCEPT ![r] = "day"] /\ readDay' = [readDay EXCEPT ![r] = today]
      BY <1>6 DEF ReadDay
    <2>2. \A d \in Days : /\ d <= today => Behind(d)' \subseteq Behind(d)
                          /\ d < today => Readers(d)' \subseteq Readers(d)
      BY <1>1, <2>1 DEF Behind, Readers, Days
    <2>3. NotAhead'
      BY <1>1, <2>1 DEF NotAhead, OverInv, budgetVars
    <2> QED BY <1>0, <2>1, <2>2, <2>3, OverrunQuiet DEF OverInv
  <1>7. CASE UNCHANGED vars
    <2>1. /\ UNCHANGED <<today, budgetVars>>
          /\ \A d \in Days : Behind(d)' = Behind(d) /\ Readers(d)' = Readers(d)
      BY <1>7 DEF vars, budgetVars, Behind, Readers
    <2>2. NotAhead'
      BY <1>7 DEF vars, NotAhead, OverInv
    <2> QED BY <1>0, <2>1, <2>2, OverrunQuiet DEF OverInv
  <1> QED BY <1>2, <1>3, <1>5, <1>6, <1>7 DEF Next, Advance

\* Whatever midnight catches, and in whatever order it then gets to budgetMu,
\* a UTC day is given fewer than Budget + 1 units for each slot.
THEOREM OverrunIsBounded == Spec => []OverrunBounded
  <1>1. Init => OverInv
    <2> SUFFICES ASSUME Init PROVE OverInv
      OBVIOUS
    <2>1. Overrun
      BY ProxyAssumption DEF Init, Overrun, Open, Days, ProxyAssumption
    <2> QED BY <2>1, ProxyAssumption DEF Init, OverInv, NotAhead, ProxyAssumption
  <1>2. TypeOK /\ Slots /\ OverInv => OverrunBounded
    <2> SUFFICES ASSUME TypeOK, Slots, OverInv, NEW d \in Days
                 PROVE  taken[d] <= (Budget + 1) * MaxConcurrent - 1
      BY DEF OverrunBounded
    <2>1. /\ taken[d] \in Nat /\ budgetN \in Nat /\ d \in Nat /\ today \in Nat
          /\ Budget \in Nat /\ MaxConcurrent \in Nat \ {0}
          /\ CountOf(d) \in Nat /\ CountOf(d) <= Budget
      BY ProxyAssumption DEF TypeOK, Days, ProxyAssumption, CountOf, OverInv, NotAhead
    <2>2. Cardinality(Readers(d)) \in Nat /\ Cardinality(Behind(d)) \in Nat
      BY Caught
    <2>3. /\ (Budget + 1) * MaxConcurrent = Budget * MaxConcurrent + MaxConcurrent
          /\ Budget * MaxConcurrent \in Nat /\ Budget * Cardinality(Behind(d)) \in Nat
      BY <2>1, <2>2, Products
    <2>4. CASE d > today
      BY <2>1, <2>3, <2>4 DEF OverInv, Overrun
    <2>5. CASE d = today
      <3>1. Open(d)
        BY <2>5 DEF OverInv, Overrun
      <3> QED BY <2>1, <2>2, <2>3, <3>1 DEF Open
    <2>6. CASE d < today
      <3>1. Over(d)
        BY <2>6 DEF OverInv, Overrun
      <3> QED BY <2>1, <2>2, <2>3, <3>1 DEF Over
    <2> QED BY <2>1, <2>4, <2>5, <2>6
  <1>3. IInv /\ Slots /\ OverInv /\ [Next]_vars => OverInv'
    BY OverInvStep
  <1>4. IInv => TypeOK
    BY DEF IInv
  <1> QED BY <1>1, <1>2, <1>3, <1>4, Invariant, PTL DEF Spec
=============================================================================
