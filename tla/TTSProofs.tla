----------------------------- MODULE TTSProofs -----------------------------
(***************************************************************************)
(* Proofs about internal/tts: Synthesize, for any number of handlers and   *)
(* texts, and CacheJanitor, for any files, sizes, cap and number of        *)
(* writers.                                                                *)
(***************************************************************************)
EXTENDS Synthesize, CacheJanitor, FiniteSetTheorems, WellFoundedInduction, TLAPS

-----------------------------------------------------------------------------
(* Synthesize: flights, waiters, and what is answered and cached.          *)

\* Only a short text reads the cache and takes part in a flight.
Cacheable == \A h \in Handlers : pc[h] \in {"read", "flight"} => text[h] \in Keys

LongOnly == \A h \in Handlers : pc[h] = "direct" => text[h] = LongText

\* A handler holds a result from the end of its call, or its wait, to its
\* reply, and one that is about to write the cache holds audio.  Only a waiter
\* holds a flight.
Results == \A h \in Handlers :
              /\ pc[h] \in {"idle", "read", "flight", "call", "wait", "direct"} =>
                    result[h] = "none"
              /\ pc[h] = "write" => result[h] = "audio"
              /\ pc[h] \in {"idle", "read"} => leader[h] = Nobody

FlightInv == /\ TypeOK /\ Cacheable /\ LongOnly /\ Results
             /\ OneFlightPerKey /\ NoOrphanFlight /\ AudioIsGenuine

LEMMA InitFlights == Init => FlightInv
<1> SUFFICES ASSUME Init PROVE FlightInv OBVIOUS
<1> USE TextAssumption DEF Init
<1>1. TypeOK
  BY DEF TypeOK, Places, Texts, Contents
<1>2. Cacheable /\ LongOnly /\ Results /\ AudioIsGenuine
  BY DEF Cacheable, LongOnly, Results, AudioIsGenuine
<1>3. OneFlightPerKey /\ NoOrphanFlight
  BY DEF OneFlightPerKey, NoOrphanFlight, Leads, Leading
<1> QED BY <1>1, <1>2, <1>3 DEF FlightInv

\* A step of h alone, which neither starts nor ends its part in a flight.
LEMMA AsideKeepsFlights ==
  ASSUME FlightInv, NEW h \in Handlers, NEW p \in Places,
         pc[h] \notin Leading, p \notin Leading \union {"wait"},
         pc' = [pc EXCEPT ![h] = p], UNCHANGED flights,
         \A g \in Handlers \ {h} : text'[g] = text[g] /\ leader'[g] = leader[g]
  PROVE  OneFlightPerKey' /\ NoOrphanFlight'
<1> USE DEF FlightInv, TypeOK, Leading
<1>1. \A g \in Handlers : pc'[g] = IF g = h THEN p ELSE pc[g]
  OBVIOUS
<1>2. \A g \in Handlers : /\ Leads(g)' <=> Leads(g)
                          /\ Leads(g) => g # h
  BY <1>1 DEF Leads
<1>3. OneFlightPerKey'
  BY <1>2 DEF OneFlightPerKey
<1>4. \A k \in Keys : flights'[k] # Nobody => Leads(flights[k])' /\ text'[flights[k]] = k
  BY <1>2 DEF NoOrphanFlight
<1>5. ASSUME NEW g \in Handlers, pc'[g] = "wait"
      PROVE  /\ leader'[g] \in Handlers /\ pc'[leader'[g]] \in Leading
             /\ text'[leader'[g]] = text'[g]
  <2>1. g # h /\ pc[g] = "wait"
    BY <1>1, <1>5
  <2>2. /\ leader[g] \in Handlers /\ pc[leader[g]] \in Leading
        /\ text[leader[g]] = text[g] /\ leader[g] # h
    BY <2>1 DEF NoOrphanFlight
  <2> QED BY <1>1, <2>1, <2>2
<1> QED BY <1>3, <1>4, <1>5 DEF NoOrphanFlight, Leads

\* A step of a leader that leads on.
LEMMA LeadingOnKeepsFlights ==
  ASSUME FlightInv, NEW h \in Handlers, NEW p \in {"call", "write", "unregister"},
         Leads(h), pc' = [pc EXCEPT ![h] = p],
         UNCHANGED <<flights, text, leader>>
  PROVE  OneFlightPerKey' /\ NoOrphanFlight'
<1> USE DEF FlightInv, TypeOK, Leading
<1>1. \A g \in Handlers : pc'[g] = IF g = h THEN p ELSE pc[g]
  OBVIOUS
<1>2. \A g \in Handlers : /\ Leads(g)' <=> Leads(g)
                          /\ pc[g] \in Leading => pc'[g] \in Leading
                          /\ pc'[g] = "wait" => pc[g] = "wait"
  BY <1>1 DEF Leads
<1>3. OneFlightPerKey'
  BY <1>2 DEF OneFlightPerKey
<1>4. NoOrphanFlight'
  BY <1>2 DEF NoOrphanFlight, Leads
<1> QED BY <1>3, <1>4

LEMMA StartKeeps ==
  ASSUME FlightInv, NEW h \in Handlers, NEW t \in Texts, Start(h, t)
  PROVE  FlightInv'
<1> DEFINE p == IF t = LongText THEN "direct" ELSE "read"
<1>1. /\ p \in {"direct", "read"} /\ pc[h] = "idle" /\ pc' = [pc EXCEPT ![h] = p]
      /\ \A g \in Handlers \ {h} : text'[g] = text[g] /\ leader'[g] = leader[g]
      /\ UNCHANGED <<disk, flights, leader, result, spoken, damaged>>
      /\ text' = [text EXCEPT ![h] = t]
      /\ IF p = "read" THEN t \in Keys ELSE t = LongText
  BY DEF Start, Goto, FlightInv, TypeOK, Texts
<1> HIDE DEF p
<1>2. OneFlightPerKey' /\ NoOrphanFlight'
  BY <1>1, AsideKeepsFlights DEF Places, Leading
<1>3. TypeOK'
  BY <1>1 DEF Start, FlightInv, TypeOK, Places
<1>4. Cacheable' /\ LongOnly' /\ Results' /\ AudioIsGenuine'
  BY <1>1 DEF FlightInv, TypeOK, Cacheable, LongOnly, Results, AudioIsGenuine
<1> QED BY <1>2, <1>3, <1>4 DEF FlightInv

\* A reply made outside a flight, or by a waiter whose client left.
LEMMA ReplyKeeps ==
  ASSUME FlightInv, NEW h \in Handlers, NEW r \in {"audio", "cut", "error"},
         pc[h] \in {"read", "wait", "direct"}, ReplyWith(h, r),
         r = "audio" => text[h] \in spoken',
         r = "cut" => text[h] \in damaged /\ pc[h] = "read",
         spoken \subseteq spoken', spoken' \subseteq Texts,
         UNCHANGED <<disk, flights, text, leader, damaged>>
  PROVE  FlightInv'
<1>1. pc' = [pc EXCEPT ![h] = "reply"] /\ result' = [result EXCEPT ![h] = r]
  BY DEF ReplyWith, Goto
<1>2. OneFlightPerKey' /\ NoOrphanFlight'
  BY <1>1, AsideKeepsFlights DEF Places, Leading
<1>3. TypeOK'
  BY <1>1 DEF FlightInv, TypeOK, Places
<1>4. Cacheable' /\ LongOnly' /\ Results' /\ AudioIsGenuine'
  BY <1>1 DEF FlightInv, TypeOK, Cacheable, LongOnly, Results, AudioIsGenuine
<1> QED BY <1>2, <1>3, <1>4 DEF FlightInv

LEMMA RepliesKeep ==
  ASSUME FlightInv, NEW h \in Handlers, CacheHit(h) \/ GiveUp(h) \/ Direct(h)
  PROVE  FlightInv'
<1>1. CASE CacheHit(h)
  <2>1. text[h] \in Keys
    BY <1>1 DEF CacheHit, FlightInv, Cacheable
  <2>2. /\ Served(text[h]) \in {"audio", "cut"} /\ spoken \subseteq Texts
        /\ Served(text[h]) = "audio" => text[h] \in spoken
        /\ Served(text[h]) = "cut" => text[h] \in damaged
    BY <1>1, <2>1 DEF CacheHit, Served, FlightInv, TypeOK, AudioIsGenuine
  <2> QED BY <1>1, <2>2, ReplyKeeps DEF CacheHit
<1>2. CASE GiveUp(h)
  <2>1. spoken \subseteq Texts
    BY DEF FlightInv, TypeOK
  <2> QED BY <1>2, <2>1, ReplyKeeps DEF GiveUp
<1>3. CASE Direct(h)
  <2>1. spoken \subseteq Texts /\ LongText \in Texts
    BY DEF FlightInv, TypeOK, Texts
  <2>2. text[h] = LongText
    BY <1>3 DEF Direct, FlightInv, LongOnly
  <2> QED BY <1>3, <2>1, <2>2, ReplyKeeps DEF Direct
<1> QED BY <1>1, <1>2, <1>3

\* On the way into a flight.
LEMMA CacheMissKeeps ==
  ASSUME FlightInv, NEW h \in Handlers, CacheMiss(h) PROVE FlightInv'
<1> USE DEF CacheMiss, Goto
<1>1. OneFlightPerKey' /\ NoOrphanFlight'
  BY AsideKeepsFlights DEF Places, Leading
<1>2. TypeOK'
  BY DEF FlightInv, TypeOK, Places
<1>3. Cacheable' /\ LongOnly' /\ Results' /\ AudioIsGenuine'
  BY DEF FlightInv, TypeOK, Cacheable, LongOnly, Results, AudioIsGenuine
<1> QED BY <1>1, <1>2, <1>3 DEF FlightInv

LEMMA JoinKeeps ==
  ASSUME FlightInv, NEW h \in Handlers, Join(h) PROVE FlightInv'
<1> DEFINE l == flights[text[h]]
<1> USE DEF Join, Goto
<1>1. text[h] \in Keys /\ l \in Handlers /\ Leads(l) /\ text[l] = text[h] /\ l # h
  BY DEF FlightInv, TypeOK, Cacheable, NoOrphanFlight, Leads, Leading
<1>2. /\ \A g \in Handlers : pc'[g] = IF g = h THEN "wait" ELSE pc[g]
      /\ \A g \in Handlers : leader'[g] = IF g = h THEN l ELSE leader[g]
  BY DEF FlightInv, TypeOK
<1>3. TypeOK'
  BY <1>1 DEF FlightInv, TypeOK, Places
<1> HIDE DEF l
<1>4. \A g \in Handlers : /\ Leads(g)' <=> Leads(g)
                          /\ pc[g] \in Leading => pc'[g] \in Leading
  BY <1>2 DEF Leads, Leading
<1>5. OneFlightPerKey'
  BY <1>4 DEF FlightInv, OneFlightPerKey
<1>6. ASSUME NEW g \in Handlers, pc'[g] = "wait"
      PROVE  /\ leader'[g] \in Handlers /\ pc'[leader'[g]] \in Leading
             /\ text'[leader'[g]] = text'[g]
  BY <1>1, <1>2, <1>4, <1>6 DEF FlightInv, NoOrphanFlight, Leads
<1>7. NoOrphanFlight'
  BY <1>4, <1>6 DEF FlightInv, TypeOK, NoOrphanFlight, Leads
<1>8. Cacheable' /\ LongOnly' /\ Results' /\ AudioIsGenuine'
  BY <1>2 DEF FlightInv, Cacheable, LongOnly, Results, AudioIsGenuine
<1> QED BY <1>3, <1>5, <1>7, <1>8 DEF FlightInv

LEMMA LeadKeeps ==
  ASSUME FlightInv, NEW h \in Handlers, Lead(h) PROVE FlightInv'
<1> USE DEF Lead, Goto
<1>1. text[h] \in Keys /\ text' = text /\ h # Nobody
  BY TextAssumption DEF FlightInv, Cacheable
<1>2. /\ \A g \in Handlers : pc'[g] = IF g = h THEN "call" ELSE pc[g]
      /\ \A k \in Keys : flights'[k] = IF k = text[h] THEN h ELSE flights[k]
  BY DEF FlightInv, TypeOK
<1>3. TypeOK'
  BY <1>1 DEF FlightInv, TypeOK, Places
<1>4. \A g \in Handlers : /\ Leads(g)' <=> Leads(g) \/ g = h
                          /\ pc[g] \in Leading => pc'[g] \in Leading
                          /\ pc'[g] = "wait" => pc[g] = "wait"
  BY <1>2 DEF Leads, Leading
<1>5. \A g \in Handlers : Leads(g) => text[g] \in Keys /\ flights[text[g]] = g
                                      /\ text[g] # text[h]
  BY TextAssumption DEF FlightInv, OneFlightPerKey
<1>6. OneFlightPerKey'
  BY <1>1, <1>2, <1>4, <1>5 DEF FlightInv, OneFlightPerKey
<1>7. ASSUME NEW k \in Keys, flights'[k] # Nobody
      PROVE  (Leads(flights[k]) /\ text[flights[k]] = k)'
  <2>1. CASE k = text[h]
    <3>1. flights'[k] = h /\ pc'[h] = "call"
      BY <1>2, <2>1
    <3> QED BY <1>1, <2>1, <3>1 DEF Leads, Leading
  <2>2. CASE k # text[h]
    <3>1. flights'[k] = flights[k] /\ flights[k] \in Handlers
      BY <1>2, <1>7, <2>2 DEF FlightInv, TypeOK
    <3>2. Leads(flights[k]) /\ text[flights[k]] = k
      BY <1>7, <3>1 DEF FlightInv, NoOrphanFlight
    <3>3. pc'[flights[k]] \in Leading \ {"close"}
      BY <1>2, <3>1, <3>2 DEF Leads, Leading
    <3> QED BY <1>1, <3>1, <3>2, <3>3 DEF Leads
  <2> QED BY <2>1, <2>2
<1>8. NoOrphanFlight'
  BY <1>1, <1>4, <1>7 DEF FlightInv, NoOrphanFlight, Leads
<1>9. Cacheable' /\ LongOnly' /\ Results' /\ AudioIsGenuine'
  BY <1>2 DEF FlightInv, Cacheable, LongOnly, Results, AudioIsGenuine
<1> QED BY <1>3, <1>6, <1>8, <1>9 DEF FlightInv

\* The leader's call and its write.
LEMMA LeaderKeeps ==
  ASSUME FlightInv, NEW h \in Handlers,
         CallSucceeds(h) \/ CallFails(h) \/ WriteCache(h) \/ WriteFails(h)
  PROVE  FlightInv'
<1> USE DEF Goto
<1>1. PICK p \in {"write", "unregister"} :
        /\ pc' = [pc EXCEPT ![h] = p]
        /\ p = "write" => result' = [result EXCEPT ![h] = "audio"]
  BY DEF CallSucceeds, CallFails, WriteCache, WriteFails
<1>2. Leads(h) /\ UNCHANGED <<flights, text, leader>>
  BY DEF CallSucceeds, CallFails, WriteCache, WriteFails, Leads, Leading
<1>3. OneFlightPerKey' /\ NoOrphanFlight'
  BY <1>1, <1>2, LeadingOnKeepsFlights
<1>4. text[h] \in Keys /\ text[h] \in Texts
  BY <1>2 DEF FlightInv, OneFlightPerKey, Texts
<1>5. TypeOK'
  BY <1>4 DEF CallSucceeds, CallFails, WriteCache, WriteFails, FlightInv, TypeOK, Places,
                Contents
<1>6. \A g \in Handlers : pc'[g] = IF g = h THEN p ELSE pc[g]
  BY <1>1 DEF FlightInv, TypeOK
<1>7. Cacheable' /\ LongOnly'
  BY <1>1, <1>2, <1>6 DEF FlightInv, Cacheable, LongOnly
<1>8. Results'
  BY <1>1, <1>6
     DEF CallSucceeds, CallFails, WriteCache, WriteFails, FlightInv, TypeOK, Results
<1>9. AudioIsGenuine'
  <2>1. pc[h] = "write" => text[h] \in spoken
    BY DEF FlightInv, Results, AudioIsGenuine
  <2> QED
    BY <1>2, <1>4, <2>1
       DEF CallSucceeds, CallFails, WriteCache, WriteFails, FlightInv, TypeOK,
           AudioIsGenuine
<1> QED BY <1>3, <1>5, <1>7, <1>8, <1>9 DEF FlightInv

LEMMA UnregisterKeeps ==
  ASSUME FlightInv, NEW h \in Handlers, Unregister(h) PROVE FlightInv'
<1> USE DEF Unregister, Goto
<1>1. /\ text[h] \in Keys /\ text' = text
      /\ \A g \in Handlers : Leads(g) /\ text[g] = text[h] => g = h
  BY DEF FlightInv, OneFlightPerKey, Leads, Leading
<1>2. /\ \A g \in Handlers : pc'[g] = IF g = h THEN "close" ELSE pc[g]
      /\ \A k \in Keys : flights'[k] = IF k = text[h] THEN Nobody ELSE flights[k]
  BY DEF FlightInv, TypeOK
<1>3. TypeOK'
  BY <1>1 DEF FlightInv, TypeOK, Places
<1>4. \A g \in Handlers : /\ Leads(g)' <=> Leads(g) /\ g # h
                          /\ pc[g] \in Leading => pc'[g] \in Leading
                          /\ pc'[g] = "wait" => pc[g] = "wait"
  BY <1>2 DEF Leads, Leading
<1>5. OneFlightPerKey'
  <2>1. \A g \in Handlers : Leads(g) => text[g] \in Keys /\ flights[text[g]] = g
    BY DEF FlightInv, OneFlightPerKey
  <2> QED BY <1>1, <1>2, <1>4, <2>1 DEF FlightInv, OneFlightPerKey
<1>6. ASSUME NEW k \in Keys, flights'[k] # Nobody
      PROVE  (Leads(flights[k]) /\ text[flights[k]] = k)'
  <2>1. k # text[h] /\ flights'[k] = flights[k] /\ flights[k] \in Handlers
    BY <1>2, <1>6 DEF FlightInv, TypeOK
  <2>2. Leads(flights[k]) /\ text[flights[k]] = k
    BY <1>6, <2>1 DEF FlightInv, NoOrphanFlight
  <2>3. flights[k] # h
    BY <2>1, <2>2
  <2>4. pc'[flights[k]] \in Leading \ {"close"}
    BY <1>2, <2>1, <2>2, <2>3 DEF Leads
  <2> QED BY <1>1, <2>1, <2>2, <2>4 DEF Leads
<1>7. NoOrphanFlight'
  BY <1>1, <1>4, <1>6 DEF FlightInv, NoOrphanFlight, Leads
<1>8. Cacheable' /\ LongOnly' /\ Results' /\ AudioIsGenuine'
  BY <1>2 DEF FlightInv, Cacheable, LongOnly, Results, AudioIsGenuine
<1> QED BY <1>3, <1>5, <1>7, <1>8 DEF FlightInv

\* Every waiter of a flight leaves with its leader.
LEMMA CloseKeeps ==
  ASSUME FlightInv, NEW h \in Handlers, Close(h) PROVE FlightInv'
<1> USE DEF Close
<1>1. /\ \A g \in Handlers :
            /\ pc'[g] = IF g = h \/ g \in Waiters(h) THEN "reply" ELSE pc[g]
            /\ result'[g] = IF g \in Waiters(h) THEN result[h] ELSE result[g]
      /\ UNCHANGED <<disk, flights, text, leader, spoken, damaged>>
  OBVIOUS
<1>2. \A g \in Handlers : g \in Waiters(h) <=> pc[g] = "wait" /\ leader[g] = h
  BY DEF Waiters
<1>3. TypeOK'
  BY <1>1 DEF FlightInv, TypeOK, Places
<1>4. \A g \in Handlers : Leads(g)' <=> Leads(g)
  BY <1>1, <1>2 DEF Leads, Leading
<1>5. OneFlightPerKey'
  BY <1>1, <1>4 DEF FlightInv, OneFlightPerKey
<1>6. \A k \in Keys : flights'[k] # Nobody => (Leads(flights[k]) /\ text[flights[k]] = k)'
  BY <1>1, <1>4 DEF FlightInv, TypeOK, NoOrphanFlight
<1>7. ASSUME NEW g \in Handlers, pc'[g] = "wait"
      PROVE  (leader[g] \in Handlers /\ pc[leader[g]] \in Leading
              /\ text[leader[g]] = text[g])'
  <2>1. pc[g] = "wait" /\ leader[g] # h
    BY <1>1, <1>2, <1>7
  <2>2. /\ leader[g] \in Handlers /\ pc[leader[g]] \in Leading
        /\ text[leader[g]] = text[g]
    BY <2>1 DEF FlightInv, NoOrphanFlight
  <2>3. pc'[leader[g]] = pc[leader[g]]
    BY <1>1, <1>2, <2>1, <2>2 DEF Leading
  <2> QED BY <1>1, <2>2, <2>3
<1>8. NoOrphanFlight'
  BY <1>6, <1>7 DEF NoOrphanFlight
<1>9. Cacheable' /\ LongOnly' /\ Results'
  BY <1>1 DEF FlightInv, Cacheable, LongOnly, Results
<1>10. AudioIsGenuine'
  <2>1. \A g \in Waiters(h) : text[g] = text[h]
    BY DEF Waiters, FlightInv, NoOrphanFlight
  <2> QED BY <1>1, <2>1 DEF FlightInv, AudioIsGenuine
<1> QED BY <1>3, <1>5, <1>8, <1>9, <1>10 DEF FlightInv

LEMMA ReplyDoneKeeps ==
  ASSUME FlightInv, NEW h \in Handlers, Reply(h) PROVE FlightInv'
<1> USE DEF Reply, Goto
<1>1. OneFlightPerKey' /\ NoOrphanFlight'
  <2>1. \A g \in Handlers \ {h} : text'[g] = text[g] /\ leader'[g] = leader[g]
    BY DEF FlightInv, TypeOK
  <2> QED BY <2>1, AsideKeepsFlights DEF Places, Leading
<1>2. TypeOK'
  BY DEF FlightInv, TypeOK, Places
<1>3. Cacheable' /\ LongOnly' /\ Results' /\ AudioIsGenuine'
  BY DEF FlightInv, TypeOK, Cacheable, LongOnly, Results, AudioIsGenuine
<1> QED BY <1>1, <1>2, <1>3 DEF FlightInv

\* What happens around the handlers, or nothing.
LEMMA AroundKeeps ==
  ASSUME FlightInv, PowerLoss \/ (\E k \in Keys : Evict(k)) \/ UNCHANGED vars
  PROVE  FlightInv'
<1>1. CASE PowerLoss
  <2>1. /\ disk' \in [Keys -> Contents]
        /\ \A k \in Keys : disk'[k] = "whole" => disk[k] = "whole"
        /\ \A k \in Keys : disk'[k] = "cut" => k \in damaged'
    BY <1>1 DEF PowerLoss, FlightInv, TypeOK, Contents
  <2>2. TypeOK'
    BY <1>1, <2>1 DEF PowerLoss, FlightInv, TypeOK, Places
  <2>3. Cacheable' /\ LongOnly' /\ Results'
    BY <1>1 DEF PowerLoss, Cacheable, LongOnly, Results
  <2>4. AudioIsGenuine'
    BY <1>1, <2>1 DEF PowerLoss, AudioIsGenuine, FlightInv
  <2>5. OneFlightPerKey' /\ NoOrphanFlight'
    BY <1>1 DEF PowerLoss, OneFlightPerKey, NoOrphanFlight, Leads, Leading
  <2> QED BY <2>2, <2>3, <2>4, <2>5 DEF FlightInv
<1>2. ASSUME NEW k \in Keys, Evict(k) PROVE FlightInv'
  <2>1. TypeOK' /\ AudioIsGenuine'
    BY <1>2 DEF Evict, FlightInv, TypeOK, Contents, AudioIsGenuine
  <2> QED
    BY <1>2, <2>1 DEF Evict, FlightInv, Cacheable, LongOnly, Results, OneFlightPerKey,
                      NoOrphanFlight, Leads
<1>3. CASE UNCHANGED vars
  BY <1>3 DEF vars, FlightInv, TypeOK, Cacheable, LongOnly, Results, AudioIsGenuine,
              OneFlightPerKey, NoOrphanFlight, Leads
<1> QED BY <1>1, <1>2, <1>3

\* The inductive invariant, which the theorems below follow from.
THEOREM FlightInvariant == Spec => []FlightInv
<1>1. FlightInv /\ [Next]_vars => FlightInv'
  BY StartKeeps, RepliesKeep, CacheMissKeeps, JoinKeeps, LeadKeeps, LeaderKeeps,
     UnregisterKeeps, CloseKeeps, ReplyDoneKeeps, AroundKeeps DEF Next, Advance
<1> QED BY InitFlights, <1>1, PTL DEF Spec

\* The variables of the service keep their types.
THEOREM FlightsTyped == Spec => []TypeOK
<1> QED BY FlightInvariant, PTL DEF FlightInv

\* For any number of handlers and keys, at most one of them calls the upstream
\* for a key, and nobody drops another's flight (Synthesize).
THEOREM FlightsExclusive == Spec => []OneFlightPerKey
<1> QED BY FlightInvariant, PTL DEF FlightInv

\* A flight is registered as long as its leader runs it, and nobody waits for
\* a flight that is over or about another text (Synthesize).
THEOREM FlightsLed == Spec => []NoOrphanFlight
<1> QED BY FlightInvariant, PTL DEF FlightInv

\* What is answered and cached is what the upstream said of that text, through
\* failed writes and evictions; a file cut by a power loss is served cut, and
\* never through a flight (Synthesize, writeFileAtomic).
THEOREM AudioGenuine == Spec => []AudioIsGenuine
<1> QED BY FlightInvariant, PTL DEF FlightInv

-----------------------------------------------------------------------------
(* Sums over finite sets.  SumFunctionOnSet takes the elements out in an   *)
(* order of its own, by a recursion: that it has a solution, and that any  *)
(* other order gives the same sum, is shown by a smallest counterexample.  *)

LEMMA LeastElement ==
  ASSUME NEW S \in SUBSET Nat, S # {}
  PROVE  \E m \in S : \A n \in S : m <= n
<1> DEFINE R == OpToRel(<, Nat)
<1>1. \A a, b \in Nat : <<a, b>> \in R <=> a < b
  BY DEF OpToRel
<1>2. IsWellFoundedOn(R, Nat)
  BY NatLessThanWellFounded
<1> HIDE DEF R
<1>3. PICK m \in S : \A n \in S : <<n, m>> \notin R
  BY <1>2, WFMin
<1>4. ASSUME NEW n \in S PROVE m <= n
  <2>1. m \in Nat /\ n \in Nat /\ ~(n < m)
    BY <1>1, <1>3
  <2> QED
    BY <2>1
<1> QED
  BY <1>4

\* Among finite sets, one has the fewest members.
LEMMA SmallestSet ==
  ASSUME NEW B, B # {}, \A s \in B : IsFiniteSet(s)
  PROVE  \E s \in B : \A t \in B : Cardinality(s) <= Cardinality(t)
<1> DEFINE C == {Cardinality(s) : s \in B}
<1>1. C \in SUBSET Nat /\ C # {}
  BY FS_CardinalityType
<1>2. PICK n \in C : \A m \in C : n <= m
  BY <1>1, LeastElement
<1> QED BY <1>2

\* The element that the fold takes out of a set next, and the equation of the fold.
First(s) == CHOOSE x \in s : TRUE
IsSum(it, f, S) ==
  it = [s \in SUBSET S |-> IF s = {} THEN 0 ELSE f[First(s)] + it[s \ {First(s)}]]

LEMMA SumIs ==
  ASSUME NEW f, NEW S
  PROVE  SumFunctionOnSet(f, S) = (CHOOSE it : IsSum(it, f, S))[S]
BY DEF SumFunctionOnSet, FoldFunctionOnSet, MapThenFoldSet, IsSum, First

\* The recursion has a solution.  One that is right for the sets of at most n
\* members gives one for n + 1.
LEMMA SumExists ==
  ASSUME NEW f, NEW S, IsFiniteSet(S)
  PROVE  \E it : IsSum(it, f, S)
<1> DEFINE
     Step(it, s) == IF s = {} THEN 0 ELSE f[First(s)] + it[s \ {First(s)}]
     UpTo(n) == \E it : /\ it = [s \in SUBSET S |-> it[s]]
                        /\ \A s \in SUBSET S : Cardinality(s) <= n => it[s] = Step(it, s)
     Bad == {n \in Nat : ~UpTo(n)}
<1>1. \A s \in SUBSET S : IsFiniteSet(s) /\ Cardinality(s) \in Nat
  BY FS_Subset, FS_CardinalityType
<1>2. \A s \in SUBSET S : s # {} => /\ First(s) \in s
                                    /\ s \ {First(s)} \in SUBSET S
                                    /\ Cardinality(s \ {First(s)}) = Cardinality(s) - 1
  BY <1>1, FS_RemoveElement DEF First
<1>3. UpTo(0)
  <2>1. \A s \in SUBSET S : Cardinality(s) <= 0 => s = {}
    BY <1>1, FS_EmptySet
  <2> DEFINE z == [s \in SUBSET S |-> 0]
  <2>2. /\ z = [s \in SUBSET S |-> z[s]]
        /\ \A s \in SUBSET S : Cardinality(s) <= 0 => z[s] = Step(z, s)
    BY <2>1
  <2> QED BY <2>2
<1>4. ASSUME NEW n \in Nat, UpTo(n) PROVE UpTo(n + 1)
  <2>1. PICK it : /\ it = [s \in SUBSET S |-> it[s]]
                  /\ \A s \in SUBSET S : Cardinality(s) <= n => it[s] = Step(it, s)
    BY <1>4
  <2> DEFINE next == [s \in SUBSET S |-> Step(it, s)]
  <2>2. ASSUME NEW s \in SUBSET S, Cardinality(s) <= n PROVE next[s] = it[s]
    BY <2>1, <2>2
  <2>3. ASSUME NEW s \in SUBSET S, Cardinality(s) <= n + 1, s # {}
        PROVE  next[s] = f[First(s)] + next[s \ {First(s)}]
    <3> DEFINE t == s \ {First(s)}
    <3>1. t \in SUBSET S /\ Cardinality(t) <= n
      BY <1>1, <1>2, <2>3
    <3>2. next[t] = it[t]
      BY <2>2, <3>1
    <3> QED BY <2>3, <3>2
  <2>4. /\ next = [s \in SUBSET S |-> next[s]]
        /\ \A s \in SUBSET S : Cardinality(s) <= n + 1 => next[s] = Step(next, s)
    BY <2>3
  <2> QED BY <2>4
<1> HIDE DEF UpTo
<1>5. \A n \in Nat : UpTo(n)
  <2> SUFFICES ASSUME Bad # {} PROVE FALSE
    OBVIOUS
  <2>1. PICK n \in Bad : \A m \in Bad : n <= m
    BY LeastElement
  <2>2. n # 0
    BY <1>3
  <2>3. n - 1 \in Nat /\ n - 1 \notin Bad
    BY <2>1, <2>2
  <2> QED BY <1>4, <2>1, <2>3
<1>6. PICK it : /\ it = [s \in SUBSET S |-> it[s]]
                /\ \A s \in SUBSET S :
                      Cardinality(s) <= Cardinality(S) => it[s] = Step(it, s)
  BY <1>1, <1>5 DEF UpTo
<1>7. \A s \in SUBSET S : it[s] = Step(it, s)
  BY <1>6, FS_Subset
<1> QED BY <1>6, <1>7 DEF IsSum

\* Whatever set the recursion is for, it gives a set the same sum.
LEMMA SumUnique ==
  ASSUME NEW f, NEW S, NEW T, IsFiniteSet(S),
         NEW it, IsSum(it, f, S), NEW ti, IsSum(ti, f, T),
         NEW s, s \subseteq S, s \subseteq T
  PROVE  it[s] = ti[s]
<1> DEFINE Bad == {r \in SUBSET S : r \subseteq T /\ it[r] # ti[r]}
<1> SUFFICES ASSUME Bad # {} PROVE FALSE
  OBVIOUS
<1>1. \A r \in Bad : IsFiniteSet(r) /\ Cardinality(r) \in Nat
  BY FS_Subset, FS_CardinalityType
<1>2. PICK r \in Bad : \A q \in Bad : Cardinality(r) <= Cardinality(q)
  BY <1>1, SmallestSet
<1>3. /\ it[r] = IF r = {} THEN 0 ELSE f[First(r)] + it[r \ {First(r)}]
      /\ ti[r] = IF r = {} THEN 0 ELSE f[First(r)] + ti[r \ {First(r)}]
  BY <1>2 DEF IsSum
<1>4. r # {}
  BY <1>2, <1>3
<1>5. First(r) \in r
  BY <1>4 DEF First
<1>6. Cardinality(r \ {First(r)}) = Cardinality(r) - 1
  BY <1>1, <1>2, <1>5, FS_RemoveElement
<1>7. r \ {First(r)} \notin Bad
  BY <1>1, <1>2, <1>6
<1>8. it[r \ {First(r)}] = ti[r \ {First(r)}]
  BY <1>2, <1>7
<1> QED BY <1>2, <1>3, <1>8

\* The fold, taken apart once.
LEMMA SumUnfolds ==
  ASSUME NEW f, NEW S, IsFiniteSet(S)
  PROVE  SumFunctionOnSet(f, S) =
           IF S = {} THEN 0 ELSE f[First(S)] + SumFunctionOnSet(f, S \ {First(S)})
<1> DEFINE R == S \ {First(S)}
           it == CHOOSE i : IsSum(i, f, S)
           ir == CHOOSE i : IsSum(i, f, R)
<1>1. IsSum(it, f, S)
  BY SumExists
<1>2. IsFiniteSet(R)
  BY FS_Subset
<1>3. IsSum(ir, f, R)
  BY <1>2, SumExists
<1>4. SumFunctionOnSet(f, S) = it[S] /\ SumFunctionOnSet(f, R) = ir[R]
  BY SumIs
<1> HIDE DEF it, ir
<1>5. it[R] = ir[R]
  BY <1>1, <1>3, SumUnique
<1>6. it[S] = IF S = {} THEN 0 ELSE f[First(S)] + it[R]
  BY <1>1 DEF IsSum
<1> QED BY <1>4, <1>5, <1>6
\* Any element may be taken out first.
LEMMA SumOut ==
  ASSUME NEW f, NEW S, IsFiniteSet(S), \A x \in S : f[x] \in Nat
  PROVE  /\ SumFunctionOnSet(f, S) \in Nat
         /\ \A x \in S : SumFunctionOnSet(f, S) = f[x] + SumFunctionOnSet(f, S \ {x})
<1> DEFINE Sum(s) == SumFunctionOnSet(f, s)
           Right(s) == Sum(s) \in Nat /\ \A x \in s : Sum(s) = f[x] + Sum(s \ {x})
           Bad == {s \in SUBSET S : ~Right(s)}
<1> SUFFICES ASSUME Bad # {} PROVE FALSE
  OBVIOUS
<1>1. \A s \in SUBSET S : IsFiniteSet(s) /\ Cardinality(s) \in Nat
  BY FS_Subset, FS_CardinalityType
<1>2. PICK s \in Bad : \A t \in Bad : Cardinality(s) <= Cardinality(t)
  BY <1>1, SmallestSet
<1>3. ASSUME NEW t \in SUBSET s, t # s PROVE Right(t)
  <2>1. Cardinality(t) <= Cardinality(s) /\ Cardinality(t) # Cardinality(s)
    BY <1>1, <1>2, <1>3, FS_Subset
  <2> QED BY <1>1, <1>2, <2>1
<1> DEFINE y == First(s)
<1>4. Sum(s) = IF s = {} THEN 0 ELSE f[y] + Sum(s \ {y})
  BY <1>1, <1>2, SumUnfolds
<1>5. s # {}
  BY <1>2, <1>4
<1>6. y \in s
  BY <1>5 DEF First
<1>7. Sum(s) = f[y] + Sum(s \ {y}) /\ Right(s \ {y}) /\ f[y] \in Nat
  BY <1>2, <1>3, <1>4, <1>6
<1> HIDE DEF y
<1>8. Sum(s) \in Nat
  BY <1>7
<1>9. ASSUME NEW x \in s, x # y PROVE Sum(s) = f[x] + Sum(s \ {x})
  <2>1. Right(s \ {x}) /\ x \in s \ {y} /\ y \in s \ {x} /\ f[x] \in Nat
    BY <1>2, <1>3, <1>6, <1>9
  <2>2. (s \ {y}) \ {x} = (s \ {x}) \ {y}
    OBVIOUS
  <2>3. Right((s \ {x}) \ {y})
    BY <1>2, <1>3, <1>6
  <2>4. /\ Sum(s \ {y}) = f[x] + Sum((s \ {y}) \ {x})
        /\ Sum(s \ {x}) = f[y] + Sum((s \ {x}) \ {y})
        /\ Sum((s \ {x}) \ {y}) \in Nat
    BY <1>7, <2>1, <2>3
  <2>5. Sum((s \ {y}) \ {x}) = Sum((s \ {x}) \ {y})
    BY <2>2
  <2>6. /\ Sum(s) = f[y] + (f[x] + Sum((s \ {x}) \ {y}))
        /\ Sum(s \ {x}) = f[y] + Sum((s \ {x}) \ {y})
    BY <1>7, <2>4, <2>5
  <2> HIDE DEF Sum
  <2> QED BY ONLY <1>7, <2>1, <2>4, <2>6
<1> QED BY <1>2, <1>7, <1>8, <1>9

\* The size of a set of files, and of the set without one of them.
LEMMA BytesOut ==
  ASSUME NEW S \in SUBSET Paths
  PROVE  /\ IsFiniteSet(S) /\ Bytes(S) \in Nat
         /\ \A k \in S : Bytes(S) = Size[k] + Bytes(S \ {k})
<1>1. IsFiniteSet(S) /\ \A k \in S : Size[k] \in Nat
  BY JanitorAssumption, FS_Subset DEF JanitorAssumption
<1> QED BY <1>1, SumOut DEF Bytes

\* More files take more room.
LEMMA BytesGrow ==
  ASSUME NEW T \in SUBSET Paths, NEW S \in SUBSET T
  PROVE  Bytes(S) <= Bytes(T)
<1> DEFINE Bad == {t \in SUBSET T : S \subseteq t /\ ~(Bytes(S) <= Bytes(t))}
<1> SUFFICES ASSUME Bad # {} PROVE FALSE
  OBVIOUS
<1>1. \A t \in Bad : IsFiniteSet(t) /\ Cardinality(t) \in Nat
  BY BytesOut, FS_CardinalityType
<1>2. PICK t \in Bad : \A r \in Bad : Cardinality(t) <= Cardinality(r)
  BY <1>1, SmallestSet
<1>3. Bytes(S) \in Nat /\ Bytes(t) \in Nat
  BY BytesOut
<1>4. PICK k \in t : k \notin S
  BY <1>2, <1>3
<1>5. Cardinality(t \ {k}) = Cardinality(t) - 1
  BY <1>1, <1>2, FS_RemoveElement
<1>6. Bytes(S) <= Bytes(t \ {k})
  BY <1>1, <1>2, <1>4, <1>5
<1>7. Bytes(t) = Size[k] + Bytes(t \ {k}) /\ Bytes(t \ {k}) \in Nat /\ Size[k] \in Nat
  BY BytesOut, JanitorAssumption DEF JanitorAssumption
<1> QED BY ONLY <1>2, <1>3, <1>6, <1>7

-----------------------------------------------------------------------------
(* CacheJanitor: what the walk has seen stays in step with the directory,  *)
(* which others use meanwhile, so that the removals that rest on it are    *)
(* justified.                                                              *)

\* No file and no live write has a later mtime than the last one given.
Clock == /\ \A k \in DOMAIN files : files[k] <= uses
         /\ \A w \in DOMAIN writing : writing[w].mtime <= uses

\* The temporary file of a live writer is there, and less than stale.
Young == \A w \in DOMAIN writing : w \in DOMAIN tmps /\ tmps[w] <= Hour

\* A stale name that the walk has still to visit is nobody's: it cannot have
\* been taken again, for its file is still there.
Doomed == \A w \in staleTmp \cap todo : w \in DOMAIN tmps \ DOMAIN writing

\* What the walk knows: the files it saw are there, those it has not seen are
\* yet to come, new or skipped, the total is theirs, and their mtimes have only grown.
Walked == phase # "idle" =>
            /\ DOMAIN seen \union stuck \subseteq DOMAIN files
            /\ DOMAIN files \subseteq
                 DOMAIN seen \union stuck \union fresh \union missed \union todo
            /\ DOMAIN seen \cap stuck = {}
            /\ total = Bytes(DOMAIN seen \union stuck)
            /\ \A k \in DOMAIN seen \ fresh : seen[k] <= files[k]

\* The walk is over before the first removal.
Phases == /\ phase # "walk" => todo = {}
          /\ phase = "walk" => stuck = {}

JanitorInv == JanitorTypeOK /\ Clock /\ Young /\ Doomed /\ Walked /\ Phases

LEMMA NothingIs == DOMAIN Nothing = {} /\ Range(Nothing) = {}
BY DEF Nothing, Range

LEMMA Entries ==
  ASSUME JanitorTypeOK
  PROVE  /\ \A k \in DOMAIN files : k \in Paths /\ files[k] \in Nat
         /\ \A w \in DOMAIN tmps : tmps[w] \in Nat
         /\ \A w \in DOMAIN writing :
               writing[w].key \in Paths /\ writing[w].mtime \in MTimes
         /\ \A k \in DOMAIN seen : k \in Paths /\ seen[k] \in MTimes
         /\ uses \in Nat /\ Hour \in Nat /\ MaxUses \in Nat
<1>1. \A k \in DOMAIN files : k \in Paths /\ files[k] \in MTimes
  BY DEF JanitorTypeOK, Range
<1>2. \A w \in DOMAIN tmps : tmps[w] \in 0..(Hour + 1)
  BY DEF JanitorTypeOK, Range
<1>3. \A w \in DOMAIN writing : writing[w] \in [key : Paths, mtime : MTimes]
  BY DEF JanitorTypeOK, Range
<1>4. \A k \in DOMAIN seen : k \in Paths /\ seen[k] \in MTimes
  BY DEF JanitorTypeOK, Range
<1> QED
  BY <1>1, <1>2, <1>3, <1>4, JanitorAssumption DEF MTimes, JanitorTypeOK, JanitorAssumption

LEMMA InitJanitor == JanitorInit => JanitorInv
<1> SUFFICES ASSUME JanitorInit PROVE JanitorInv
  OBVIOUS
<1>1. PICK S \in SUBSET Paths : files \in Injection(S, 1..Cardinality(Paths))
  BY DEF JanitorInit
<1>2. DOMAIN files = S /\ \A k \in S : files[k] \in 1..Cardinality(Paths)
  BY <1>1 DEF Injection, IsInjective
<1>3. Cardinality(Paths) \in Nat /\ Cardinality(Paths) <= MaxUses /\ MaxUses \in Nat
  BY JanitorAssumption, FS_CardinalityType DEF JanitorAssumption
<1>4. Range(files) \subseteq MTimes
  BY <1>2, <1>3 DEF Range, MTimes
<1>5. Bytes(Paths) \in Nat
  BY BytesOut
<1>6. JanitorTypeOK
  <2>1. DOMAIN tmps \subseteq Writers /\ Range(tmps) \subseteq 0..(Hour + 1)
    BY DEF JanitorInit, Range
  <2> QED
    BY <1>2, <1>3, <1>4, <1>5, <2>1, NothingIs, JanitorAssumption
       DEF JanitorInit, JanitorTypeOK, JanitorAssumption
<1>7. Clock
  BY <1>2, <1>3, NothingIs DEF JanitorInit, Clock
<1> QED
  BY <1>6, <1>7, NothingIs DEF JanitorInit, JanitorInv, Young, Doomed, Walked, Phases

LEMMA ClockStep == JanitorInv /\ [JanitorNext]_janitor => Clock'
<1> SUFFICES ASSUME JanitorInv, [JanitorNext]_janitor PROVE Clock'
  OBVIOUS
<1>0. /\ Clock /\ uses \in Nat
      /\ \A k \in DOMAIN files : files[k] \in Nat
      /\ \A w \in DOMAIN writing : writing[w].mtime \in Nat
  BY Entries DEF JanitorInv, MTimes
<1>1. CASE UNCHANGED <<files, writing, uses>>
  BY <1>0, <1>1 DEF Clock
<1>2. ASSUME NEW k \in Paths, Touch(k) PROVE Clock'
  <2>1. /\ uses' = uses + 1 /\ writing' = writing
        /\ DOMAIN files' = DOMAIN files \union {k} /\ files'[k] = uses'
        /\ \A j \in DOMAIN files \ {k} : files'[j] = files[j]
    BY <1>2 DEF Touch, NextUse, Put
  <2> QED BY <1>0, <2>1 DEF Clock
<1>3. ASSUME NEW w \in Writers, NEW k \in Paths, CreateTemp(w, k) PROVE Clock'
  <2>1. /\ uses' = uses + 1 /\ files' = files
        /\ DOMAIN writing' = DOMAIN writing \union {w}
        /\ writing'[w] = [key |-> k, mtime |-> uses']
        /\ \A v \in DOMAIN writing \ {w} : writing'[v] = writing[v]
    BY <1>3 DEF CreateTemp, NextUse, Put
  <2> QED BY <1>0, <2>1 DEF Clock
<1>4. ASSUME NEW w \in Writers, Rename(w) PROVE Clock'
  <2>1. /\ w \in DOMAIN writing /\ uses' = uses
        /\ DOMAIN files' = DOMAIN files \union {writing[w].key}
        /\ files'[writing[w].key] = writing[w].mtime
        /\ \A j \in DOMAIN files \ {writing[w].key} : files'[j] = files[j]
    BY <1>4 DEF Rename, Put
  <2>2. /\ DOMAIN writing' \subseteq DOMAIN writing
        /\ \A v \in DOMAIN writing' : writing'[v] = writing[v]
    BY <1>4 DEF Rename, Drop, Restrict
  <2> QED BY <1>0, <2>1, <2>2 DEF Clock
<1>5. ASSUME NEW w \in Writers, TempFails(w) \/ RenameFails(w) PROVE Clock'
  <2>1. /\ DOMAIN writing' \subseteq DOMAIN writing /\ UNCHANGED <<files, uses>>
        /\ \A v \in DOMAIN writing' : writing'[v] = writing[v]
    BY <1>5 DEF TempFails, RenameFails, Drop, Restrict
  <2> QED BY <1>0, <2>1 DEF Clock
<1>6. ASSUME NEW k \in Paths, Remove(k) PROVE Clock'
  <2>1. /\ DOMAIN files' \subseteq DOMAIN files /\ UNCHANGED <<writing, uses>>
        /\ \A j \in DOMAIN files' : files'[j] = files[j]
    BY <1>6 DEF Remove, Drop, Restrict
  <2> QED BY <1>0, <2>1 DEF Clock
<1>7. CASE Crash
  BY <1>0, <1>7, NothingIs DEF Crash, Clock
<1> QED
  BY <1>1, <1>2, <1>3, <1>4, <1>5, <1>6, <1>7
     DEF JanitorNext, Sweep, Write, janitor, dir, BeginSweep, Decide, EndSweep, Visit,
         VisitTmp, VisitTmpFails, Skip, RemoveFails, Tick

LEMMA WritersStep == JanitorInv /\ [JanitorNext]_janitor => Young' /\ Doomed'
<1> SUFFICES ASSUME JanitorInv, [JanitorNext]_janitor PROVE Young' /\ Doomed'
  OBVIOUS
<1>0. Young /\ Doomed /\ Hour \in Nat /\ \A w \in DOMAIN tmps : tmps[w] \in Nat
  BY Entries DEF JanitorInv
<1>1. CASE UNCHANGED <<tmps, writing, staleTmp>> /\ todo' \subseteq todo
  BY <1>0, <1>1 DEF Young, Doomed
<1>2. ASSUME NEW w \in Writers, NEW k \in Paths, CreateTemp(w, k) PROVE Young' /\ Doomed'
  <2>1. /\ w \notin DOMAIN tmps /\ UNCHANGED <<staleTmp, todo>>
        /\ DOMAIN tmps' = DOMAIN tmps \union {w} /\ tmps'[w] = 0
        /\ \A v \in DOMAIN tmps \ {w} : tmps'[v] = tmps[v]
        /\ DOMAIN writing' = DOMAIN writing \union {w}
    BY <1>2 DEF CreateTemp, sweep, Put
  <2> QED BY <1>0, <2>1 DEF Young, Doomed
<1>3. ASSUME NEW w \in Writers, Rename(w) \/ TempFails(w) PROVE Young' /\ Doomed'
  <2>1. /\ w \in DOMAIN writing /\ UNCHANGED <<staleTmp, todo>>
        /\ DOMAIN tmps' = DOMAIN tmps \ {w}
        /\ \A v \in DOMAIN tmps \ {w} : tmps'[v] = tmps[v]
        /\ DOMAIN writing' = DOMAIN writing \ {w}
    BY <1>3 DEF Rename, TempFails, sweep, Drop, Restrict
  <2> QED BY <1>0, <2>1 DEF Young, Doomed
<1>4. ASSUME NEW w \in Writers, RenameFails(w) PROVE Young' /\ Doomed'
  <2>1. UNCHANGED <<tmps, staleTmp, todo>> /\ DOMAIN writing' = DOMAIN writing \ {w}
    BY <1>4 DEF RenameFails, sweep, Drop, Restrict
  <2> QED BY <1>0, <2>1 DEF Young, Doomed
<1>5. CASE Tick
  <2>1. DOMAIN tmps' = DOMAIN tmps /\ UNCHANGED <<writing, staleTmp, todo>>
    BY <1>5 DEF Tick, sweep
  <2>2. ASSUME NEW w \in DOMAIN writing PROVE tmps'[w] <= Hour
    <3>1. w \in DOMAIN tmps /\ tmps[w] \in Nat
      BY <1>0 DEF Young
    <3>2. tmps[w] < Hour /\ tmps'[w] = IF tmps[w] <= Hour THEN tmps[w] + 1 ELSE tmps[w]
      BY <1>5, <3>1 DEF Tick
    <3> QED BY <1>0, <3>1, <3>2
  <2> QED BY <1>0, <2>1, <2>2 DEF Young, Doomed
<1>6. CASE BeginSweep
  BY <1>0, <1>6 DEF BeginSweep, Young, Doomed, dir
<1>7. ASSUME NEW w \in Writers, VisitTmp(w) PROVE Young' /\ Doomed'
  <2>1. /\ w \in todo /\ UNCHANGED <<writing, staleTmp>> /\ todo' = todo \ {w}
        /\ w \in staleTmp => DOMAIN tmps' = DOMAIN tmps \ {w}
        /\ w \notin staleTmp => tmps' = tmps
        /\ \A v \in DOMAIN tmps \ {w} : tmps'[v] = tmps[v]
    BY <1>7 DEF VisitTmp, Drop, Restrict
  <2> QED BY <1>0, <2>1 DEF Young, Doomed
<1>8. CASE Crash
  BY <1>0, <1>8, NothingIs DEF Crash, Young, Doomed
<1> QED
  BY <1>1, <1>2, <1>3, <1>4, <1>5, <1>6, <1>7, <1>8
     DEF JanitorNext, Sweep, Write, janitor, dir, sweep, Decide, EndSweep, Visit,
         VisitTmpFails, Skip, Touch, Remove, RemoveFails

LEMMA PhasesStep == JanitorInv /\ [JanitorNext]_janitor => Phases'
<1> SUFFICES ASSUME JanitorInv, [JanitorNext]_janitor PROVE Phases'
  OBVIOUS
<1> QED
  BY DEF JanitorInv, Phases, JanitorNext, Sweep, Write, janitor, dir, sweep, BeginSweep,
         Decide, EndSweep, Visit, VisitTmp, VisitTmpFails, Skip, Remove, RemoveFails,
         Candidate, Tick, Crash, Touch, Rename, TempFails, RenameFails, CreateTemp

LEMMA BytesOfNone == Bytes({}) = 0
BY FS_EmptySet, SumUnfolds DEF Bytes

LEMMA WalkedStep == JanitorInv /\ [JanitorNext]_janitor => Walked'
<1> SUFFICES ASSUME JanitorInv, [JanitorNext]_janitor PROVE Walked'
  OBVIOUS
<1>0. /\ Walked /\ Phases /\ Clock
      /\ \A k \in DOMAIN files : k \in Paths /\ files[k] \in Nat
      /\ \A k \in DOMAIN seen : k \in Paths /\ seen[k] \in Nat
      /\ stuck \subseteq Paths /\ uses \in Nat
  BY Entries DEF JanitorInv, JanitorTypeOK, MTimes
<1>1. CASE UNCHANGED <<files, sweep, fresh>>
  BY <1>0, <1>1 DEF Walked, sweep
<1>2. ASSUME NEW k \in Paths, Touch(k) PROVE Walked'
  <2>1. /\ k \in DOMAIN files /\ uses' = uses + 1 /\ UNCHANGED <<sweep, fresh>>
        /\ DOMAIN files' = DOMAIN files /\ files'[k] = uses'
        /\ \A j \in DOMAIN files \ {k} : files'[j] = files[j]
    BY <1>2 DEF Touch, NextUse, Put
  <2>2. ASSUME NEW j \in DOMAIN files PROVE files[j] <= files'[j]
    BY <1>0, <2>1 DEF Clock
  <2>3. ASSUME phase # "idle", NEW j \in DOMAIN seen \ fresh PROVE seen[j] <= files'[j]
    <3>1. j \in DOMAIN files /\ seen[j] <= files[j] /\ seen[j] \in Nat /\ files[j] \in Nat
      BY <1>0, <2>3 DEF Walked
    <3>2. files[j] <= files'[j] /\ files'[j] \in Nat
      BY <1>0, <2>1, <2>2, <3>1
    <3> QED BY <3>1, <3>2
  <2> QED BY <1>0, <2>1, <2>3 DEF Walked, sweep
<1>3. ASSUME NEW w \in Writers, Rename(w) PROVE Walked'
  <2> DEFINE k == writing[w].key
  <2>1. /\ UNCHANGED sweep /\ fresh' = fresh \union {k}
        /\ DOMAIN files' = DOMAIN files \union {k}
        /\ \A j \in DOMAIN files \ {k} : files'[j] = files[j]
    BY <1>3 DEF Rename, Put
  <2> HIDE DEF k
  <2> QED BY <1>0, <2>1 DEF Walked, sweep
<1>4. CASE BeginSweep
  <2>1. /\ UNCHANGED files /\ DOMAIN files \subseteq todo' /\ DOMAIN seen' = {}
        /\ stuck' = {} /\ total' = 0
    BY <1>4, NothingIs DEF BeginSweep, dir
  <2> QED BY <2>1, BytesOfNone DEF Walked
<1>5. ASSUME NEW k \in Paths, Visit(k) PROVE Walked'
  <2>1. /\ phase = "walk" /\ k \in DOMAIN files \ DOMAIN seen /\ todo' = todo \ {k}
        /\ UNCHANGED <<phase, stuck, missed, files, fresh>> /\ total' = total + Size[k]
        /\ DOMAIN seen' = DOMAIN seen \union {k} /\ seen'[k] = files[k]
        /\ \A j \in DOMAIN seen : seen'[j] = seen[j]
    BY <1>5 DEF Visit, Put, dir
  <2>2. stuck = {}
    BY <1>0, <2>1 DEF Phases
  <2>3. total' = Bytes(DOMAIN seen')
    <3>1. /\ DOMAIN seen' \in SUBSET Paths
          /\ k \in DOMAIN seen' /\ DOMAIN seen' \ {k} = DOMAIN seen
      BY <1>0, <2>1
    <3>2. total = Bytes(DOMAIN seen)
      BY <1>0, <2>1, <2>2 DEF Walked
    <3>3. /\ Bytes(DOMAIN seen') = Size[k] + Bytes(DOMAIN seen)
          /\ Bytes(DOMAIN seen) \in Nat /\ Size[k] \in Nat
      BY <1>0, <3>1, BytesOut, JanitorAssumption DEF JanitorAssumption
    <3> QED BY <2>1, <3>2, <3>3
  <2>4. DOMAIN seen' \union stuck' = DOMAIN seen' /\ DOMAIN seen' \cap stuck' = {}
    BY <2>1, <2>2
  <2>5. DOMAIN seen' \subseteq DOMAIN files
    BY <1>0, <2>1 DEF Walked
  <2>6. ASSUME NEW j \in DOMAIN seen' \ fresh PROVE seen'[j] <= files[j]
    BY <1>0, <2>1 DEF Walked
  <2>7. DOMAIN files \subseteq
          DOMAIN seen' \union stuck' \union fresh \union missed \union todo'
    BY <1>0, <2>1 DEF Walked
  <2> QED BY <2>1, <2>3, <2>4, <2>5, <2>6, <2>7 DEF Walked
<1>6. ASSUME NEW w \in Writers, VisitTmp(w) PROVE Walked'
  <2>1. w \notin Paths
    BY JanitorAssumption DEF JanitorAssumption
  <2>2. /\ todo' = todo \ {w}
        /\ UNCHANGED <<phase, seen, stuck, missed, total, files, fresh>>
    BY <1>6 DEF VisitTmp
  <2> QED BY <1>0, <2>1, <2>2 DEF Walked
<1>7. ASSUME NEW w \in Writers, VisitTmpFails(w) PROVE Walked'
  <2>1. w \notin Paths
    BY JanitorAssumption DEF JanitorAssumption
  <2>2. /\ todo' = todo \ {w}
        /\ UNCHANGED <<phase, seen, stuck, missed, total, files, fresh>>
    BY <1>7 DEF VisitTmpFails, dir
  <2> QED BY <1>0, <2>1, <2>2 DEF Walked
<1>8. ASSUME NEW S \in SUBSET todo, Skip(S) PROVE Walked'
  <2>1. /\ todo' = todo \ S /\ missed' = missed \union (S \cap Paths)
        /\ UNCHANGED <<phase, seen, stuck, total, files, fresh>>
    BY <1>8 DEF Skip, dir
  <2> QED BY <1>0, <2>1 DEF Walked
<1>9. CASE Decide
  <2>1. UNCHANGED <<seen, stuck, missed, total, files, fresh, todo>> /\ phase # "idle"
    BY <1>9 DEF Decide, dir
  <2> QED BY <1>0, <2>1 DEF Walked
<1>10. ASSUME NEW k \in Paths, Remove(k) PROVE Walked'
  <2>1. /\ phase = "remove" /\ k \in DOMAIN seen
        /\ UNCHANGED <<phase, todo, stuck, missed, fresh>>
        /\ DOMAIN files' = DOMAIN files \ {k} /\ DOMAIN seen' = DOMAIN seen \ {k}
        /\ total' = total - Size[k]
        /\ \A j \in DOMAIN files \ {k} : files'[j] = files[j]
        /\ \A j \in DOMAIN seen \ {k} : seen'[j] = seen[j]
    BY <1>10 DEF Remove, Candidate, Drop, Restrict
  <2>2. /\ k \notin stuck
        /\ DOMAIN seen' \union stuck' = (DOMAIN seen \union stuck) \ {k}
    BY <1>0, <2>1 DEF Walked
  <2>3. total' = Bytes(DOMAIN seen' \union stuck')
    <3> DEFINE S == DOMAIN seen \union stuck
    <3>1. S \in SUBSET Paths /\ k \in S
      BY <1>0, <2>1
    <3>2. total = Bytes(S)
      BY <1>0, <2>1 DEF Walked
    <3> HIDE DEF S
    <3>3. Bytes(S) = Size[k] + Bytes(S \ {k}) /\ Bytes(S \ {k}) \in Nat /\ Size[k] \in Nat
      BY <3>1, BytesOut, JanitorAssumption DEF JanitorAssumption
    <3>4. total' = Bytes(S \ {k})
      BY <2>1, <3>2, <3>3
    <3> QED BY <2>2, <3>4 DEF S
  <2>4. DOMAIN seen' \cap stuck' = {}
    BY <1>0, <2>1 DEF Walked
  <2> QED BY <1>0, <2>1, <2>2, <2>3, <2>4 DEF Walked
<1>11. ASSUME NEW k \in Paths, RemoveFails(k) PROVE Walked'
  <2>1. /\ phase = "remove" /\ k \in DOMAIN seen
        /\ UNCHANGED <<phase, todo, total, missed, files, fresh>>
        /\ DOMAIN seen' = DOMAIN seen \ {k} /\ stuck' = stuck \union {k}
        /\ \A j \in DOMAIN seen \ {k} : seen'[j] = seen[j]
    BY <1>11 DEF RemoveFails, Candidate, Drop, Restrict, dir
  <2>2. DOMAIN seen' \union stuck' = DOMAIN seen \union stuck
    BY <2>1
  <2> QED BY <1>0, <2>1, <2>2 DEF Walked
<1>12. CASE EndSweep \/ Crash
  BY <1>12 DEF EndSweep, Crash, Walked
<1> QED
  BY <1>1, <1>2, <1>3, <1>4, <1>5, <1>6, <1>7, <1>8, <1>9, <1>10, <1>11, <1>12
     DEF JanitorNext, Sweep, Write, janitor, dir, CreateTemp, TempFails, RenameFails,
         Tick

\* The types, entry by entry.
FilesTyped == /\ \A k \in DOMAIN files : k \in Paths /\ files[k] \in MTimes
              /\ \A w \in DOMAIN writing :
                    w \in Writers /\ writing[w] \in [key : Paths, mtime : MTimes]
              /\ uses \in 0..MaxUses

TempsTyped == \A w \in DOMAIN tmps : w \in Writers /\ tmps[w] \in 0..(Hour + 1)

WalkTyped == /\ phase \in {"idle", "walk", "remove"}
             /\ todo \subseteq Paths \union Writers /\ staleTmp \subseteq Writers
             /\ \A k \in DOMAIN seen : k \in Paths /\ seen[k] \in MTimes
             /\ fresh \subseteq Paths /\ stuck \subseteq Paths /\ missed \subseteq Paths
             /\ faults \in 0..MaxFaults

LEMMA FilesTypedStep == FilesTyped /\ [JanitorNext]_janitor => FilesTyped'
<1> SUFFICES ASSUME FilesTyped, [JanitorNext]_janitor PROVE FilesTyped'
  OBVIOUS
<1>1. CASE UNCHANGED <<files, writing, uses>>
  BY <1>1 DEF FilesTyped
<1>2. ASSUME NEW k \in Paths, Touch(k) PROVE FilesTyped'
  BY <1>2, JanitorAssumption
     DEF FilesTyped, Touch, NextUse, Put, MTimes, JanitorAssumption
<1>3. ASSUME NEW w \in Writers, NEW k \in Paths, CreateTemp(w, k) PROVE FilesTyped'
  BY <1>3, JanitorAssumption
     DEF FilesTyped, CreateTemp, NextUse, Put, MTimes, JanitorAssumption
<1>4. ASSUME NEW w \in Writers, Rename(w) PROVE FilesTyped'
  BY <1>4 DEF FilesTyped, Rename, Put, Drop, Restrict
<1>5. ASSUME NEW w \in Writers, TempFails(w) \/ RenameFails(w) PROVE FilesTyped'
  BY <1>5 DEF FilesTyped, TempFails, RenameFails, Drop, Restrict
<1>6. ASSUME NEW k \in Paths, Remove(k) PROVE FilesTyped'
  BY <1>6 DEF FilesTyped, Remove, Drop, Restrict
<1>7. CASE Crash
  BY <1>7, NothingIs DEF FilesTyped, Crash
<1> QED
  BY <1>1, <1>2, <1>3, <1>4, <1>5, <1>6, <1>7
     DEF JanitorNext, Sweep, Write, janitor, dir, BeginSweep, Decide, EndSweep, Visit,
         VisitTmp, VisitTmpFails, Skip, RemoveFails, Tick

LEMMA TempsTypedStep == TempsTyped /\ [JanitorNext]_janitor => TempsTyped'
<1> SUFFICES ASSUME TempsTyped, [JanitorNext]_janitor PROVE TempsTyped'
  OBVIOUS
<1>1. CASE UNCHANGED tmps
  BY <1>1 DEF TempsTyped
<1>2. ASSUME NEW w \in Writers, NEW k \in Paths, CreateTemp(w, k) PROVE TempsTyped'
  BY <1>2, JanitorAssumption DEF TempsTyped, CreateTemp, Put, JanitorAssumption
<1>3. ASSUME NEW w \in Writers, Rename(w) \/ TempFails(w) \/ VisitTmp(w) PROVE TempsTyped'
  BY <1>3 DEF TempsTyped, Rename, TempFails, VisitTmp, Drop, Restrict
<1>4. CASE Tick
  BY <1>4, JanitorAssumption DEF TempsTyped, Tick, JanitorAssumption
<1> QED
  BY <1>1, <1>2, <1>3, <1>4
     DEF JanitorNext, Sweep, Write, janitor, dir, BeginSweep, Decide, EndSweep, Visit,
         VisitTmpFails, Skip, Remove, RemoveFails, RenameFails, Touch, Crash

LEMMA WalkTypedStep ==
  FilesTyped /\ TempsTyped /\ WalkTyped /\ [JanitorNext]_janitor => WalkTyped'
<1> SUFFICES ASSUME FilesTyped, TempsTyped, WalkTyped, [JanitorNext]_janitor
             PROVE  WalkTyped'
  OBVIOUS
<1>1. CASE UNCHANGED <<sweep, fresh, faults>>
  BY <1>1 DEF WalkTyped, sweep
<1>2. ASSUME NEW w \in Writers, Rename(w) \/ RenameFails(w) PROVE WalkTyped'
  BY <1>2, JanitorAssumption
     DEF WalkTyped, FilesTyped, Rename, RenameFails, Fault, sweep, JanitorAssumption
<1>3. CASE BeginSweep
  BY <1>3, NothingIs DEF WalkTyped, FilesTyped, TempsTyped, BeginSweep
<1>4. ASSUME NEW k \in Paths, Visit(k) PROVE WalkTyped'
  BY <1>4 DEF WalkTyped, FilesTyped, Visit, Put
<1>5. ASSUME NEW w \in Writers, VisitTmp(w) PROVE WalkTyped'
  BY <1>5 DEF WalkTyped, VisitTmp
<1>6. ASSUME NEW w \in Writers, VisitTmpFails(w) PROVE WalkTyped'
  BY <1>6, JanitorAssumption DEF WalkTyped, VisitTmpFails, Fault, JanitorAssumption
<1>7. ASSUME NEW S \in SUBSET todo, Skip(S) PROVE WalkTyped'
  BY <1>7, JanitorAssumption DEF WalkTyped, Skip, Fault, JanitorAssumption
<1>8. CASE Decide \/ EndSweep
  BY <1>8 DEF WalkTyped, Decide, EndSweep
<1>9. ASSUME NEW k \in Paths, Remove(k) PROVE WalkTyped'
  BY <1>9 DEF WalkTyped, Remove, Drop, Restrict
<1>10. ASSUME NEW k \in Paths, RemoveFails(k) PROVE WalkTyped'
  BY <1>10, JanitorAssumption
     DEF WalkTyped, RemoveFails, Fault, Drop, Restrict, JanitorAssumption
<1>11. CASE Crash
  BY <1>11, NothingIs, JanitorAssumption DEF WalkTyped, Crash, Fault, JanitorAssumption
<1> QED
  BY <1>1, <1>2, <1>3, <1>4, <1>5, <1>6, <1>7, <1>8, <1>9, <1>10, <1>11
     DEF JanitorNext, Sweep, Write, janitor, CreateTemp, TempFails, Tick, Touch

\* The total is a sum while the janitor is at work, and stays what it was after.
LEMMA TotalStep ==
  JanitorInv /\ [JanitorNext]_janitor /\ Walked' /\ WalkTyped' =>
    total' \in 0..Bytes(Paths)
<1> SUFFICES ASSUME JanitorInv, [JanitorNext]_janitor, Walked', WalkTyped'
             PROVE  total' \in 0..Bytes(Paths)
  OBVIOUS
<1>1. CASE phase' # "idle"
  <2> DEFINE S == DOMAIN seen' \union stuck'
  <2>1. S \in SUBSET Paths /\ total' = Bytes(S)
    BY <1>1 DEF Walked, WalkTyped
  <2> HIDE DEF S
  <2>2. Bytes(S) \in Nat /\ Bytes(Paths) \in Nat /\ Bytes(S) <= Bytes(Paths)
    BY <2>1, BytesOut, BytesGrow
  <2> QED BY <2>1, <2>2
<1>2. CASE phase' = "idle"
  <2>1. total' = total \/ total' = 0
    BY <1>2
       DEF JanitorInv, JanitorTypeOK, JanitorNext, Sweep, Write, janitor, dir, sweep,
           BeginSweep, Decide, EndSweep, Visit, VisitTmp, VisitTmpFails, Skip, Remove,
           RemoveFails, Candidate, Tick, Crash, Touch, Rename, TempFails, RenameFails,
           CreateTemp
  <2>2. total \in 0..Bytes(Paths) /\ Bytes(Paths) \in Nat
    BY BytesOut DEF JanitorInv, JanitorTypeOK
  <2> QED BY <2>1, <2>2
<1> QED BY <1>1, <1>2

LEMMA TypeStep == JanitorInv /\ [JanitorNext]_janitor /\ Walked' => JanitorTypeOK'
<1> SUFFICES ASSUME JanitorInv, [JanitorNext]_janitor, Walked' PROVE JanitorTypeOK'
  OBVIOUS
<1>1. FilesTyped /\ TempsTyped /\ WalkTyped
  BY DEF JanitorInv, JanitorTypeOK, FilesTyped, TempsTyped, WalkTyped, Range
<1>2. FilesTyped' /\ TempsTyped' /\ WalkTyped'
  BY <1>1, FilesTypedStep, TempsTypedStep, WalkTypedStep
<1>3. total' \in 0..Bytes(Paths)
  BY <1>2, TotalStep
<1> QED BY <1>2, <1>3 DEF JanitorTypeOK, FilesTyped, TempsTyped, WalkTyped, Range

\* The parts of the invariant are kept together.
LEMMA StepJanitor == JanitorInv /\ [JanitorNext]_janitor => JanitorInv'
<1> SUFFICES ASSUME JanitorInv, [JanitorNext]_janitor PROVE JanitorInv'
  OBVIOUS
<1>1. Clock' /\ Young' /\ Doomed' /\ Phases' /\ Walked'
  BY ClockStep, WritersStep, PhasesStep, WalkedStep
<1> QED BY <1>1, TypeStep DEF JanitorInv

LEMMA JanitorInvariant == JanitorSpec => []JanitorInv
<1> QED BY InitJanitor, StepJanitor, PTL DEF JanitorSpec

-----------------------------------------------------------------------------
(* The results. *)

\* The state of janitor, directory and writers keeps its types: the total in
\* particular is never below zero or above what all files would take.
THEOREM JanitorTyped == JanitorSpec => []JanitorTypeOK
<1>1. JanitorInv => JanitorTypeOK
  BY DEF JanitorInv
<1> QED BY <1>1, JanitorInvariant, PTL

\* The janitor never takes a temporary file from under its writer: a stale one
\* has none, and os.CreateTemp gives nobody a name that is still there.
THEOREM LiveTempsAreSafe == JanitorSpec => []LiveTempSafe
<1>1. JanitorInv => LiveTempSafe
  BY DEF JanitorInv, Young, LiveTempSafe
<1> QED BY <1>1, JanitorInvariant, PTL

\* While files are removed, the running total is what the files of the walk
\* still take, those that could not be removed included (SweepCache).
THEOREM TotalsAreHonest == JanitorSpec => []TotalIsHonest
<1>1. JanitorInv => TotalIsHonest
  BY DEF JanitorInv, Walked, TotalIsHonest
<1> QED BY <1>1, JanitorInvariant, PTL

\* Only the janitor's removals take files from the directory.
LEMMA OnlyRemovals ==
  ASSUME JanitorInv, [JanitorNext]_janitor, NEW k \in DOMAIN files \ DOMAIN files'
  PROVE  Remove(k)
<1>1. ASSUME NEW j \in Paths, Remove(j) PROVE j = k
  BY <1>1 DEF Remove, Drop, Restrict
<1>2. ASSUME NEW j \in Paths, Touch(j) PROVE FALSE
  BY <1>2 DEF Touch, Put
<1>3. ASSUME NEW w \in Writers, Rename(w) PROVE FALSE
  BY <1>3 DEF Rename, Put
<1> QED
  BY <1>1, <1>2, <1>3
     DEF JanitorNext, Sweep, Write, janitor, dir, BeginSweep, Decide, EndSweep, Visit,
         VisitTmp, VisitTmpFails, Skip, RemoveFails, Tick, Crash, TempFails, RenameFails,
         CreateTemp

LEMMA EvictionStep ==
  ASSUME JanitorInv, [JanitorNext]_janitor, NEW k \in DOMAIN files \ DOMAIN files'
  PROVE  /\ Bytes(DOMAIN files) > Target
         /\ \A j \in DOMAIN files' \ (fresh \union stuck \union missed) :
               seen[k] <= files[j]
<1>1. /\ phase = "remove" /\ total > Target /\ k \in DOMAIN seen
      /\ \A j \in DOMAIN seen : seen[k] <= seen[j]
      /\ DOMAIN files' \subseteq DOMAIN files
  BY OnlyRemovals DEF Remove, Candidate, Drop, Restrict
<1>2. /\ Walked /\ todo = {} /\ total \in Nat /\ Target \in Int
      /\ DOMAIN files \in SUBSET Paths
      /\ \A j \in DOMAIN files : files[j] \in Nat
      /\ \A j \in DOMAIN seen : seen[j] \in Nat
  <2>1. CacheMaxBytes \in Nat
    BY JanitorAssumption DEF JanitorAssumption
  <2>2. Target \in Int
    BY <2>1 DEF Target
  <2>3. Bytes(Paths) \in Nat
    BY BytesOut
  <2> QED BY <1>1, <2>2, <2>3, Entries DEF JanitorInv, Phases, JanitorTypeOK, MTimes
<1>3. Bytes(DOMAIN files) > Target
  <2> DEFINE S == DOMAIN seen \union stuck
             T == DOMAIN files
  <2>1. S \in SUBSET T /\ total = Bytes(S)
    BY <1>1, <1>2 DEF Walked
  <2> HIDE DEF S
  <2>2. Bytes(S) <= Bytes(T) /\ Bytes(S) \in Nat /\ Bytes(T) \in Nat
    BY <1>2, <2>1, BytesGrow, BytesOut
  <2> QED BY <1>1, <1>2, <2>1, <2>2
<1>4. ASSUME NEW j \in DOMAIN files' \ (fresh \union stuck \union missed)
      PROVE  seen[k] <= files[j]
  <2>1. j \in DOMAIN seen \ fresh /\ j \in DOMAIN files
    BY <1>1, <1>2, <1>4 DEF Walked
  <2>2. seen[k] <= seen[j] /\ seen[j] <= files[j]
    BY <1>1, <1>2, <2>1 DEF Walked
  <2> QED BY <1>1, <1>2, <1>4, <2>1, <2>2
<1> QED BY <1>3, <1>4

\* A file is evicted only while the directory holds more than 90% of the cap,
\* whatever was written or could not be removed since the walk (SweepCache).
THEOREM EvictsOnlyWhenFull == JanitorSpec => EvictsOnlyBeyondTarget
<1>1. JanitorInv /\ [JanitorNext]_janitor =>
        [\A k \in DOMAIN files \ DOMAIN files' : Bytes(DOMAIN files) > Target]_janitor
  BY EvictionStep
<1> QED BY <1>1, JanitorInvariant, PTL DEF JanitorSpec, EvictsOnlyBeyondTarget

\* When the walk saw it, the evicted file was the least recently used of those
\* that stay, beside what came meanwhile and what the sweep could not read or
\* remove, for any set of entries that cannot be read (SweepCache's sort).
THEOREM EvictsOldest == JanitorSpec => EvictsLeastRecent
<1>1. JanitorInv /\ [JanitorNext]_janitor =>
        [\A k \in DOMAIN files \ DOMAIN files' :
           \A j \in DOMAIN files' \ (fresh \union stuck \union missed) :
              seen[k] <= files[j]]_janitor
  BY EvictionStep
<1> QED BY <1>1, JanitorInvariant, PTL DEF JanitorSpec, EvictsLeastRecent

LEMMA CapStep ==
  ASSUME JanitorInv, [JanitorNext]_janitor,
         phase # "idle", phase' = "idle", faults' = faults
  PROVE  LET left == Bytes(DOMAIN files \ (fresh \union stuck \union missed))
         IN IF phase = "remove" THEN 10 * left <= 9 * CacheMaxBytes
            ELSE left <= CacheMaxBytes
<1> DEFINE S == DOMAIN seen \union stuck
           R == DOMAIN files \ (fresh \union stuck \union missed)
<1>1. /\ Walked /\ Phases /\ DOMAIN files \in SUBSET Paths /\ CacheMaxBytes \in Nat
      /\ faults \in Nat
  BY JanitorAssumption DEF JanitorInv, JanitorTypeOK, JanitorAssumption
<1>2. total = Bytes(S) /\ S \in SUBSET Paths
  BY <1>1 DEF Walked
<1>3. \/ Decide /\ phase = "walk" /\ todo = {} /\ total <= CacheMaxBytes
      \/ EndSweep /\ phase = "remove" /\ (total <= Target \/ seen = Nothing)
  <2>1. ~Crash
    BY <1>1 DEF Crash, Fault
  <2>2. Decide \/ EndSweep
    BY <2>1
       DEF JanitorNext, Sweep, Write, janitor, dir, sweep, BeginSweep, Visit, VisitTmp,
           VisitTmpFails, Skip, Remove, RemoveFails, Tick, Touch, Rename, TempFails,
           RenameFails, CreateTemp
  <2> QED BY <2>2 DEF Decide, EndSweep
<1>4. todo = {}
  BY <1>1, <1>3 DEF Phases
<1>5. R \in SUBSET DOMAIN seen
  BY <1>1, <1>4 DEF Walked
<1>6. /\ Bytes(R) <= total /\ Bytes(R) \in Nat /\ total \in Nat
  BY <1>1, <1>2, <1>5, BytesGrow, BytesOut
<1>7. CASE phase = "walk"
  BY <1>1, <1>3, <1>6, <1>7
<1>8. CASE phase = "remove" /\ total <= Target
  <2>1. 10 * ((CacheMaxBytes \div 10) * 9) <= 9 * CacheMaxBytes
    BY <1>1
  <2>2. Target \in Nat /\ 10 * Target <= 9 * CacheMaxBytes
    BY <1>1, <2>1 DEF Target
  <2>3. 10 * Bytes(R) <= 9 * CacheMaxBytes
    BY <1>1, <1>6, <1>8, <2>2
  <2> QED BY <1>8, <2>3
<1>9. CASE phase = "remove" /\ seen = Nothing
  <2>1. R = {}
    BY <1>5, <1>9, NothingIs
  <2> HIDE DEF R
  <2>2. Bytes(R) = 0
    BY <2>1, BytesOfNone
  <2> QED BY <1>1, <1>9, <2>2 DEF R
<1> QED BY <1>3, <1>7, <1>8, <1>9

\* A sweep that removes nothing leaves at most the cap, one that removes leaves
\* at most 90% of it, beside what came meanwhile, what it could not read and
\* what would not go.
THEOREM SweepsMeetTheCap == JanitorSpec => SweepMeetsCap
<1>1. JanitorInv /\ [JanitorNext]_janitor =>
        [phase # "idle" /\ phase' = "idle" /\ faults' = faults =>
           LET left == Bytes(DOMAIN files \ (fresh \union stuck \union missed))
           IN IF phase = "remove" THEN 10 * left <= 9 * CacheMaxBytes
              ELSE left <= CacheMaxBytes]_janitor
  BY CapStep
<1> QED BY <1>1, JanitorInvariant, PTL DEF JanitorSpec, SweepMeetsCap
=============================================================================
