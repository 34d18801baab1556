----------------------------- MODULE RateBudget -----------------------------
(***************************************************************************)
(* What a per-key rate limiter promises, whatever it keeps in memory: the  *)
(* admissions of one key, in the order they were decided, never exceed a   *)
(* burst of Capacity plus the tokens earned between any two of them.       *)
(***************************************************************************)
EXTENDS Naturals, Sequences

CONSTANTS Keys,      \* the client keys
          Capacity,  \* admissions per minute, and the burst
          Minute,    \* clock ticks in a minute
          Times      \* the instants the clock can show

VARIABLE grants      \* grants[k]: the instants at which k was admitted

(***************************************************************************)
(* The i-th to the j-th admission fit in a full bucket plus what is earned *)
(* from g[i] to g[j].  Multiplied by Minute, so that it is about integers. *)
(***************************************************************************)
WithinRate(g) ==
  \A i, j \in 1..Len(g) :
     i <= j => (j - i + 1) * Minute + Capacity * g[i]
                 <= Capacity * Minute + Capacity * g[j]

Init == grants = [k \in Keys |-> << >>]

Grant(k, t) == /\ grants' = [grants EXCEPT ![k] = Append(@, t)]
               /\ WithinRate(grants'[k])

Next == \E k \in Keys, t \in Times : Grant(k, t)

Spec == Init /\ [][Next]_grants
=============================================================================
