--------------------------- MODULE RequestsProofs ---------------------------
(***************************************************************************)
(* Proofs about ClientAddress and Requests: the address a request is       *)
(* limited under, for every header and every chain of trusted proxies, and *)
(* what the client sees of an answer, for every timeout and unit of time.  *)
(***************************************************************************)
EXTENDS Requests, SequenceTheorems, WellFoundedInduction, TLAPS

\* The walk stops at the entry our own proxies added: whatever stands to the
\* left of it is not looked at.
LEMMA OutermostIs ==
  ASSUME NEW hops, NEW k \in DOMAIN hops, DOMAIN hops \subseteq Nat,
         hops[k] \notin Trusted,
         \A i \in DOMAIN hops : i > k => hops[i] \in Trusted
  PROVE  Outermost(hops) = k
<1> DEFINE stops == {i \in DOMAIN hops : hops[i] \notin Trusted}
<1>1. k \in stops /\ \A i \in stops : i <= k
  OBVIOUS
<1>2. \A l \in stops : (\A i \in stops : i <= l) => l = k
  BY <1>1
<1>3. (CHOOSE l \in stops : \A i \in stops : i <= l) = k
  BY <1>1, <1>2
<1> QED BY <1>1, <1>3 DEF Outermost

\* What a header looks like behind trusted proxies: the claim, the origin, and
\* the proxies up to the last one but one.
LEMMA HeaderProperties ==
  ASSUME NEW claim \in Seq(Entries), NEW origin \in Addresses \ Trusted,
         NEW passed \in Seq(Trusted)
  PROVE  LET hops == claim \o <<origin>> \o passed
         IN  hops # <<>> /\ hops[Outermost(hops)] = origin
<1> DEFINE k == Len(claim) + 1
           head == claim \o <<origin>>
           hops == head \o passed
<1>1. k \in Nat \ {0} /\ Len(passed) \in Nat
  OBVIOUS
<1>2. <<origin>> \in Seq(Entries) /\ passed \in Seq(Entries)
  BY AddressAssumption DEF Entries
<1>3. /\ head \in Seq(Entries)
      /\ Len(head) = k
      /\ head[k] = origin
  BY <1>2
<1> HIDE DEF head, k
<1>4. /\ hops \in Seq(Entries)
      /\ Len(hops) = k + Len(passed)
      /\ \A i \in 1..k + Len(passed) :
            hops[i] = IF i <= k THEN head[i] ELSE passed[i - k]
  <2>1. /\ head \o passed \in Seq(Entries)
        /\ Len(head \o passed) = Len(head) + Len(passed)
        /\ \A i \in 1..Len(head) + Len(passed) :
              (head \o passed)[i] = IF i <= Len(head) THEN head[i]
                                    ELSE passed[i - Len(head)]
    <3> HIDE DEF hops
    <3>1. head \in Seq(Entries) /\ passed \in Seq(Entries)
      BY <1>2, <1>3
    <3> QED BY <3>1, ConcatProperties, Zenon
  <2> QED BY <1>3, <2>1, Zenon
<1> HIDE DEF hops
<1>5. DOMAIN hops = 1..k + Len(passed) /\ hops # <<>>
  BY <1>1, <1>4
<1>6. k \in DOMAIN hops /\ hops[k] = origin
  BY <1>1, <1>3, <1>4, <1>5
<1>7. \A i \in DOMAIN hops : i > k => hops[i] \in Trusted
  <2> SUFFICES ASSUME NEW i \in DOMAIN hops, i > k PROVE hops[i] \in Trusted
    OBVIOUS
  <2>1. i - k \in 1..Len(passed)
    BY <1>1, <1>5
  <2>2. hops[i] = passed[i - k]
    BY <1>1, <1>4, <1>5
  <2> QED BY <2>1, <2>2
<1>8. Outermost(hops) = k
  BY <1>1, <1>5, <1>6, <1>7, OutermostIs
<1> QED BY <1>5, <1>6, <1>8 DEF hops, head

\* ClientIP knows every client outside the trusted networks by its address.
LEMMA AddressResolved ==
  ASSUME NEW j \in Journeys(Seq(Entries), Seq(Trusted))
  PROVE  Resolves(j)
<1> SUFFICES ASSUME j.origin \notin Trusted
             PROVE  ClientIP(Peer(j), Hops(j)) = j.origin
  BY DEF Resolves
<1>1. /\ j.origin \in Addresses \ Trusted /\ j.claim \in Seq(Entries)
      /\ j.way \in Seq(Trusted)
  BY DEF Journeys
<1>2. CASE j.way = <<>>
  BY <1>2 DEF ClientIP, Peer
<1>3. CASE j.way # <<>>
  <2>1. SubSeq(j.way, 1, Len(j.way) - 1) \in Seq(Trusted)
    BY <1>1, <1>3
  <2>2. Hops(j) # <<>> /\ Hops(j)[Outermost(Hops(j))] = j.origin
    BY <1>1, <1>3, <2>1, HeaderProperties DEF Hops
  <2>3. Peer(j) \in Trusted
    BY <1>1, <1>3 DEF Peer
  <2>4. j.origin # Garbage
    BY <1>1, AddressAssumption
  <2> QED BY <2>2, <2>3, <2>4 DEF ClientIP
<1> QED BY <1>2, <1>3

-----------------------------------------------------------------------------
(* The types of the addresses, which need the walk to find an entry. *)

LEMMA GreatestElement ==
  ASSUME NEW n \in Nat, NEW S \in SUBSET (1..n), S # {}
  PROVE  \E m \in S : \A i \in S : i <= m
<1> DEFINE R == OpToRel(<, Nat)
           Bounds == {b \in Nat : \A i \in S : i <= b}
<1>1. \A a, b \in Nat : <<a, b>> \in R <=> a < b
  BY DEF OpToRel
<1>2. IsWellFoundedOn(R, Nat)
  BY NatLessThanWellFounded
<1>3. Bounds \subseteq Nat /\ n \in Bounds
  OBVIOUS
<1> HIDE DEF R
<1>4. PICK m \in Bounds : \A b \in Bounds : <<b, m>> \notin R
  <2> HIDE DEF Bounds
  <2> QED BY <1>2, <1>3, WFMin
<1>5. m \in Nat /\ \A i \in S : i \in Nat /\ i >= 1 /\ i <= m
  OBVIOUS
<1>6. \A b \in Bounds : ~(b < m)
  BY <1>1, <1>3, <1>4, <1>5
<1>7. m \in S
  <2> SUFFICES ASSUME m \notin S PROVE FALSE
    OBVIOUS
  <2>1. m - 1 \in Nat
    <3>1. PICK i \in S : i >= 1 /\ i <= m /\ i \in Nat
      BY <1>5
    <3> QED BY <1>5, <3>1
  <2>2. m - 1 \in Bounds
    <3>1. \A i \in S : i \in Nat /\ i <= m /\ i # m
      BY <1>5
    <3>2. \A i \in S : i <= m - 1
      BY <1>5, <3>1
    <3> QED BY <2>1, <3>2
  <2> QED BY <1>5, <1>6, <2>2
<1> QED BY <1>5, <1>7

LEMMA ClientIPType ==
  ASSUME NEW peer \in Entries, NEW hops \in Seq(Entries)
  PROVE  ClientIP(peer, hops) \in Entries
<1> SUFFICES ASSUME hops # <<>> PROVE hops[Outermost(hops)] \in Entries
  BY DEF ClientIP
<1> DEFINE stops == {i \in DOMAIN hops : hops[i] \notin Trusted}
<1>1. Len(hops) \in Nat /\ DOMAIN hops = 1..Len(hops) /\ 1 \in DOMAIN hops
  OBVIOUS
<1>2. Outermost(hops) \in DOMAIN hops
  <2>1. CASE stops = {}
    BY <1>1, <2>1 DEF Outermost
  <2>2. CASE stops # {}
    <3>1. \E m \in stops : \A i \in stops : i <= m
      <4>1. stops \in SUBSET (1..Len(hops))
        BY <1>1
      <4> HIDE DEF stops
      <4> QED BY <1>1, <2>2, <4>1, GreatestElement
    <3>2. (CHOOSE m \in stops : \A i \in stops : i <= m) \in stops
      BY <3>1
    <3> QED BY <2>2, <3>2 DEF Outermost
  <2> QED BY <2>1, <2>2
<1> QED BY <1>1, <1>2

\* The journeys of the model are journeys of the lemmas above.
LEMMA JourneySequences ==
  Journeys(Claims, Ways) \subseteq Journeys(Seq(Entries), Seq(Trusted))
<1>1. Claims \subseteq Seq(Entries) /\ Ways \subseteq Seq(Trusted)
  BY RequestsAssumption DEF Claims, Ways
<1> QED BY <1>1 DEF Journeys

LEMMA KeyType ==
  ASSUME NEW j \in Journeys(Claims, Ways)
  PROVE  ClientIP(Peer(j), Hops(j)) \in Entries
<1>1. /\ j.origin \in Addresses /\ j.claim \in Seq(Entries)
      /\ j.way \in Seq(Trusted)
  BY JourneySequences DEF Journeys
<1>2. Addresses \subseteq Entries /\ Trusted \subseteq Entries
  BY AddressAssumption DEF Entries
<1>3. CASE j.way = <<>>
  BY <1>1, <1>2, <1>3, ClientIPType DEF Peer, Hops
<1>4. CASE j.way # <<>>
  <2>1. Peer(j) \in Entries
    BY <1>1, <1>2, <1>4 DEF Peer
  <2>2. SubSeq(j.way, 1, Len(j.way) - 1) \in Seq(Trusted)
    BY <1>1, <1>4
  <2>3. <<j.origin>> \in Seq(Entries) /\ SubSeq(j.way, 1, Len(j.way) - 1) \in Seq(Entries)
    BY <1>1, <1>2, <2>2
  <2>4. Hops(j) \in Seq(Entries)
    BY <1>1, <1>4, <2>3 DEF Hops
  <2> QED BY <2>1, <2>4, ClientIPType
<1> QED BY <1>3, <1>4

-----------------------------------------------------------------------------
(* Spec. *)

\* What a handler has answered so far: nothing before the upstream's header,
\* and from then on it is the proxy's, or audio in one piece.
Underway == /\ pc \in {"idle", "limit", "body", "call", "wait", "query"} =>
                 status = "none" /\ looks = "nothing"
            /\ pc \in {"stream", "write"} => looks = "nothing"
            /\ pc = "stream" => route = "llm"
            /\ pc = "write" => route = "llm" \/ (route = "tts" /\ ended)
            /\ pc \in {"wait", "query"} => route = "asr" /\ task # "none"
            /\ pc = "body" => route # "unknown"

\* While the request is in the limiter, its key is the resolved address.
Keyed == pc = "limit" => /\ journey \in Journeys(Claims, Ways)
                         /\ key = ClientIP(Peer(journey), Hops(journey))

Inv == TypeOK /\ Underway /\ Keyed /\ CompleteUnlessBroken /\ RecognitionJustified

\* Every answer looks complete or like nothing to the client, and only the
\* complete one was relayed.
LEMMA ReplyLooks ==
  ASSUME NEW code, Reply(code)
  PROVE  /\ pc' = "done" /\ status' = code
         /\ looks' \in {"complete", "nothing"} /\ relayed' \in BOOLEAN
         /\ looks' = "complete" => relayed'
  BY Zenon DEF Reply, Seen

LEMMA EndLooks ==
  ASSUME NEW all \in BOOLEAN, EndStream(all)
  PROVE  /\ pc' = "done" /\ status' = status
         /\ looks' \in {"complete", "broken"} /\ relayed' = all
         /\ route = "tts" /\ looks' = "complete" => all
  BY Zenon DEF EndStream, Seen

\* An answer in one piece, of any handler: what has to be known of its code.
LEMMA ReplyKeeps ==
  ASSUME Inv, NEW code \in Statuses, Reply(code),
         UNCHANGED <<route, age, ended, gone>>,
         journey' \in Journeys(Claims, Ways) \union {Nowhere},
         key' \in Entries,
         bodyAge' \in 0..age,
         broke' \in BOOLEAN, broke => broke',
         task' \in {"none", "queued", "processing"} \union Outcomes,
         heard' \in {"none", "text", "silent"},
         route \in Speech /\ code = "ok" => heard' = task',
         route \in Speech /\ code = "failed" =>
            \/ broke' \/ task' = "error"
            \/ callAge' >= CallLimit(route)
  PROVE  Inv'
<1>1. /\ pc' = "done" /\ status' = code
      /\ looks' \in {"complete", "nothing"} /\ relayed' \in BOOLEAN
      /\ looks' = "complete" => relayed'
  BY ReplyLooks
<1>2. TypeOK'
  <2>1. /\ relayed' \in BOOLEAN /\ ended' \in BOOLEAN /\ gone' \in BOOLEAN
        /\ broke' \in BOOLEAN
    BY <1>1, Zenon DEF Inv, TypeOK
  <2> QED BY <1>1, <2>1 DEF Inv, TypeOK, Places
<1>3. Underway' /\ Keyed'
  BY <1>1 DEF Underway, Keyed
<1>4. CompleteUnlessBroken'
  BY <1>1, Zenon DEF CompleteUnlessBroken
<1>5. RecognitionJustified'
  <2>1. status' = code /\ route' = route /\ CallLimit(route)' = CallLimit(route)
    BY <1>1 DEF CallLimit
  <2> QED BY <2>1, Zenon DEF RecognitionJustified
<1> QED BY <1>2, <1>3, <1>4, <1>5 DEF Inv

\* The end of a stream, whole or broken.
LEMMA EndKeeps ==
  ASSUME Inv, NEW all \in BOOLEAN, EndStream(all), pc \in {"stream", "write"},
         all \/ broke',
         broke' \in BOOLEAN,
         UNCHANGED <<route, arrival, age, bodyAge, ended, speech, gone>>
  PROVE  Inv'
<1>1. /\ pc' = "done" /\ status' = status
      /\ looks' \in {"complete", "broken"} /\ relayed' = all
      /\ route = "tts" /\ looks' = "complete" => all
  BY EndLooks
<1>2. route' = route /\ route \in {"llm", "tts"}
  BY DEF Inv, Underway
<1>3. TypeOK'
  <2>1. /\ relayed' \in BOOLEAN /\ ended' \in BOOLEAN /\ gone' \in BOOLEAN
        /\ broke' \in BOOLEAN
    BY <1>1, Zenon DEF Inv, TypeOK
  <2>2. /\ journey' = journey /\ key' = key /\ age' = age /\ route' = route
        /\ bodyAge' = bodyAge /\ task' = task /\ heard' = heard
    BY DEF arrival, speech
  <2> QED BY <1>1, <2>1, <2>2 DEF Inv, TypeOK, Places
<1>4. Underway' /\ Keyed'
  BY <1>1 DEF Underway, Keyed
<1>5. CompleteUnlessBroken'
  BY <1>1, <1>2, Zenon DEF CompleteUnlessBroken
<1>6. RecognitionJustified'
  BY <1>2 DEF RecognitionJustified, Speech
<1> QED BY <1>3, <1>4, <1>5, <1>6 DEF Inv

\* Before its answer ends a request owes nothing of what is said about it.
LEMMA OpenKeeps ==
  ASSUME TypeOK', Underway', Keyed', pc' # "done"
  PROVE  Inv'
<1>1. looks' = "nothing"
  BY DEF Underway, TypeOK, Places, Working, Waiting
<1>2. CompleteUnlessBroken' /\ RecognitionJustified'
  BY <1>1, Zenon DEF CompleteUnlessBroken, RecognitionJustified
<1> QED BY <1>2 DEF Inv

\* Where no boolean and no address changes, those keep their types.
LEMMA SameFlags ==
  ASSUME TypeOK, UNCHANGED <<relayed, ended, gone, broke>>
  PROVE  /\ relayed' \in BOOLEAN /\ ended' \in BOOLEAN
         /\ gone' \in BOOLEAN /\ broke' \in BOOLEAN
  BY Zenon DEF TypeOK

LEMMA InitInv == Init => Inv
<1> SUFFICES ASSUME Init PROVE Inv OBVIOUS
<1>1. /\ relayed \in BOOLEAN /\ ended \in BOOLEAN
      /\ gone \in BOOLEAN /\ broke \in BOOLEAN
  BY Zenon DEF Init
<1>2. TypeOK
  BY <1>1 DEF Init, TypeOK, Places, Working, Waiting, Routes, Database,
               Entries, Statuses
<1>3. Underway /\ Keyed /\ CompleteUnlessBroken /\ RecognitionJustified
  BY DEF Init, Underway, Keyed, CompleteUnlessBroken, RecognitionJustified
<1> QED BY <1>2, <1>3 DEF Inv

\* Arrive, and the start of the handler.
LEMMA ArrivalKeeps ==
  ASSUME Inv, Begin \/ \E t \in Routes, j \in Journeys(Claims, Ways) : Arrive(t, j)
  PROVE  Inv'
<1>1. CASE Begin
  <2>1. TypeOK'
    <3>1. UNCHANGED <<relayed, ended, gone, broke>>
      BY <1>1 DEF Begin, progress
    <3> QED BY <1>1, <3>1, SameFlags
            DEF Begin, Inv, TypeOK, Places, Working, Waiting, Entries, progress, speech
  <2>2. Underway' /\ Keyed' /\ pc' # "done"
    BY <1>1 DEF Begin, Inv, Underway, Keyed, progress
  <2> QED BY <2>1, <2>2, OpenKeeps
<1>2. ASSUME NEW t \in Routes, NEW j \in Journeys(Claims, Ways), Arrive(t, j)
      PROVE  Inv'
  <2>1. TypeOK'
    <3>1. UNCHANGED <<relayed, ended, gone, broke>>
      BY <1>2 DEF Arrive, progress
    <3>2. key' \in Entries
      BY <1>2, KeyType DEF Arrive
    <3> QED BY <1>2, <3>1, <3>2, SameFlags
            DEF Arrive, Inv, TypeOK, Places, progress, speech
  <2>2. Underway' /\ pc' # "done"
    BY <1>2 DEF Arrive, Inv, Underway, progress
  <2>3. Keyed'
    BY <1>2, Zenon DEF Arrive, Keyed
  <2> QED BY <2>1, <2>2, <2>3, OpenKeeps
<1> QED BY <1>1, <1>2

LEMMA ResetKeeps == ASSUME Inv, Reset PROVE Inv'
<1>1. /\ relayed' \in BOOLEAN /\ ended' \in BOOLEAN
      /\ gone' \in BOOLEAN /\ broke' \in BOOLEAN
  BY Zenon DEF Reset
<1>2. TypeOK'
  BY <1>1 DEF Reset, Inv, TypeOK, Places, Routes, Database, Statuses, arrival
<1>3. Underway' /\ Keyed' /\ pc' # "done"
  BY DEF Reset, Underway, Keyed
<1> QED BY <1>2, <1>3, OpenKeeps

\* What ReplyKeeps asks of the variables most replies leave alone.
LEMMA SameTypes ==
  ASSUME Inv
  PROVE  /\ UNCHANGED arrival =>
              /\ journey' \in Journeys(Claims, Ways) \union {Nowhere}
              /\ key' \in Entries
         /\ UNCHANGED speech =>
              /\ task' = task /\ heard' = heard
              /\ task' \in {"none", "queued", "processing"} \union Outcomes
              /\ heard' \in {"none", "text", "silent"}
         /\ broke \in BOOLEAN
         /\ age \in Nat /\ bodyAge \in 0..age /\ age \in 0..age
  BY DEF Inv, TypeOK, arrival, speech

\* The refusals before any work.
LEMMA RefuseKeeps ==
  ASSUME Inv, NEW code \in Refusals, Refuse(code)
  PROVE  Inv'
<1>1. /\ code \in Statuses /\ code \notin {"ok", "failed"} /\ Reply(code)
      /\ journey' = Nowhere /\ key' = Garbage
      /\ UNCHANGED <<route, age, bodyAge, ended, gone, broke>> /\ UNCHANGED speech
  BY DEF Refuse, Refusals, Statuses, speech
<1>2. key' \in Entries
  BY <1>1 DEF Entries
<1> QED BY <1>1, <1>2, SameTypes, ReplyKeeps, Zenon

\* The answers to a body that is not accepted.
LEMMA RejectKeeps ==
  ASSUME Inv, BodyTimesOut \/ \E code \in Rejections : Reject(code)
  PROVE  Inv'
<1>1. PICK code \in Rejections :
        /\ Reply(code) /\ bodyAge' = age
        /\ UNCHANGED <<route, age, ended, gone, broke>>
        /\ UNCHANGED arrival /\ UNCHANGED speech
  BY DEF BodyTimesOut, Reject, Rejections
<1>2. code \in Statuses /\ code \notin {"ok", "failed"}
  BY DEF Rejections, Statuses
<1> QED BY <1>1, <1>2, SameTypes, ReplyKeeps, Zenon

\* The answers that end a call.
LEMMA CallKeeps ==
  ASSUME Inv, CallSucceeds \/ CallFails \/ CallTimesOut
  PROVE  Inv'
<1>1. "ok" \in Statuses /\ "failed" \in Statuses /\ "ok" # "failed"
  BY DEF Statuses
<1>2. CASE CallSucceeds
  <2>1. route \notin Speech
    BY <1>2 DEF CallSucceeds, Database, Speech
  <2> QED BY <1>1, <1>2, <2>1, SameTypes, ReplyKeeps, Zenon DEF CallSucceeds
<1>3. CASE CallFails
  BY <1>1, <1>3, SameTypes, ReplyKeeps, Zenon DEF CallFails
<1>4. CASE CallTimesOut
  <2>1. callAge' >= CallLimit(route)
    BY <1>4, Zenon DEF CallTimesOut, callAge
  <2> QED BY <1>1, <1>4, <2>1, SameTypes, ReplyKeeps, Zenon DEF CallTimesOut
<1> QED BY <1>2, <1>3, <1>4

\* Audio: its answer too late for anything, or begun.
LEMMA SynthesizedKeeps == ASSUME Inv, Synthesized PROVE Inv'
<1>1. /\ pc = "call" /\ route = "tts" /\ UNCHANGED <<route, age, bodyAge, gone, broke>>
      /\ UNCHANGED arrival /\ UNCHANGED speech
  BY DEF Synthesized
<1>2. CASE Reply("ok") /\ UNCHANGED ended
  <2>1. "ok" \in Statuses /\ "ok" # "failed" /\ route \notin Speech
    BY <1>1 DEF Statuses, Speech
  <2> QED BY <1>1, <1>2, <2>1, SameTypes, ReplyKeeps, Zenon
<1>3. CASE pc' = "write" /\ status' = "ok" /\ ended' = TRUE /\ UNCHANGED <<looks, relayed>>
  <2>1. /\ relayed' \in BOOLEAN /\ ended' \in BOOLEAN
        /\ gone' \in BOOLEAN /\ broke' \in BOOLEAN
    BY <1>1, <1>3, Zenon DEF Inv, TypeOK
  <2>2. TypeOK'
    BY <1>1, <1>3, <2>1
       DEF Inv, TypeOK, Places, Working, Statuses, arrival, speech
  <2>3. Underway' /\ Keyed'
    BY <1>1, <1>3 DEF Inv, Underway, Keyed
  <2> QED BY <1>3, <2>2, <2>3, OpenKeeps
<1> QED BY <1>2, <1>3 DEF Synthesized

\* A transcript is answered as it was made, an error as an error.
LEMMA FinalTextKeeps ==
  ASSUME Inv, NEW outcome \in Outcomes, FinalText(outcome), task' = outcome,
         UNCHANGED <<route, age, bodyAge, ended, gone, broke>>, UNCHANGED arrival
  PROVE  Inv'
<1> DEFINE code == IF outcome \in {"text", "silent"} THEN "ok" ELSE "failed"
<1>1. /\ Reply(code) /\ code \in Statuses
      /\ heard' \in {"none", "text", "silent"}
      /\ code = "ok" => heard' = task'
      /\ code = "failed" => task' = "error"
  BY DEF FinalText, Outcomes, Statuses
<1>2. task' \in {"none", "queued", "processing"} \union Outcomes
  OBVIOUS
<1> HIDE DEF code
<1> QED BY <1>1, <1>2, SameTypes, ReplyKeeps, Zenon

LEMMA RecognizeEndKeeps ==
  ASSUME Inv, QueryFinal \/ \E outcome \in Outcomes : FlashAnswered(outcome)
  PROVE  Inv'
<1>1. CASE QueryFinal
  <2>1. task \in Outcomes
    BY <1>1 DEF QueryFinal, Pending, Inv, TypeOK, Underway
  <2> QED BY <1>1, <2>1, FinalTextKeeps DEF QueryFinal
<1>2. ASSUME NEW outcome \in Outcomes, FlashAnswered(outcome) PROVE Inv'
  BY <1>2, FinalTextKeeps DEF FlashAnswered
<1> QED BY <1>1, <1>2

\* The steps within a request that write nothing: the body, the poll loop, a
\* read of the upstream, the client's leaving, and time.
LEMMA MoveKeeps ==
  ASSUME Inv,
         \/ BodyRead \/ SubmitAccepted \/ TaskMoves \/ Poll \/ QueryPending
         \/ UpstreamAnswers \/ ClientLeaves \/ Tick
         \/ \E last \in BOOLEAN : Chunk(last)
         \/ ChunkTaken /\ ~ended
  PROVE  Inv'
<1> USE DEF Inv, Underway
<1>1. /\ pc \in Working /\ pc' \in Working
      /\ UNCHANGED <<looks, relayed, broke, route>>
      /\ journey' = journey /\ key' = key
  BY DEF BodyRead, SubmitAccepted, TaskMoves, Poll, QueryPending, UpstreamAnswers,
         ClientLeaves, Tick, Chunk, ChunkTaken, Working, Waiting, progress, arrival
<1>2. Underway' /\ status' \in Statuses
  BY DEF BodyRead, SubmitAccepted, TaskMoves, Poll, QueryPending, UpstreamAnswers,
         ClientLeaves, Tick, Chunk, ChunkTaken, Working, Waiting, progress, speech,
         TypeOK, Statuses, Speech, Outcomes
<1>3. task' \in {"none", "queued", "processing"} \union Outcomes /\ heard' = heard
  BY DEF BodyRead, SubmitAccepted, TaskMoves, Poll, QueryPending, UpstreamAnswers,
         ClientLeaves, Tick, Chunk, ChunkTaken, progress, speech, TypeOK, Outcomes
<1>4. age' \in Nat /\ bodyAge' \in 0..age'
  <2>1. age' \in {age, age + 1} /\ bodyAge' \in {bodyAge, age}
    BY DEF BodyRead, SubmitAccepted, TaskMoves, Poll, QueryPending, UpstreamAnswers,
           ClientLeaves, Tick, Chunk, ChunkTaken
  <2>2. age \in Nat /\ bodyAge \in Nat /\ bodyAge <= age
    BY DEF TypeOK
  <2> HIDE DEF Inv, Underway
  <2> QED BY <2>1, <2>2
<1>5. ended' \in BOOLEAN /\ gone' \in BOOLEAN
  BY Zenon
     DEF BodyRead, SubmitAccepted, TaskMoves, Poll, QueryPending, UpstreamAnswers,
         ClientLeaves, Tick, Chunk, ChunkTaken, TypeOK
<1>6. relayed' \in BOOLEAN /\ broke' \in BOOLEAN
  BY <1>1, Zenon DEF TypeOK
<1>7. TypeOK'
  BY <1>1, <1>2, <1>3, <1>4, <1>5, <1>6 DEF TypeOK, Places
<1>8. Keyed' /\ pc' # "done"
  BY <1>1 DEF Keyed, Working, Waiting
<1> QED BY <1>2, <1>7, <1>8, OpenKeeps

\* The ends of a stream.
LEMMA StreamKeeps ==
  ASSUME Inv, UpstreamCuts \/ WriteFails \/ (ChunkTaken /\ ended)
  PROVE  Inv'
<1>1. CASE UpstreamCuts
  BY <1>1, EndKeeps DEF UpstreamCuts
<1>2. CASE ChunkTaken /\ ended
  <2>1. broke' \in BOOLEAN
    BY <1>2, Zenon DEF ChunkTaken, Inv, TypeOK
  <2> QED BY <1>2, <2>1, EndKeeps DEF ChunkTaken
<1>3. CASE WriteFails
  <2>1. /\ pc = "write" /\ pc' = "done" /\ looks' = "broken"
        /\ UNCHANGED <<relayed, ended, gone, broke, route, age, bodyAge, status>>
        /\ journey' = journey /\ key' = key /\ task' = task /\ heard' = heard
    BY <1>3 DEF WriteFails, arrival, speech
  <2>2. TypeOK'
    BY <2>1, SameFlags DEF Inv, TypeOK, Places
  <2>3. Underway' /\ Keyed' /\ CompleteUnlessBroken'
    BY <2>1 DEF Underway, Keyed, CompleteUnlessBroken
  <2>4. RecognitionJustified'
    BY <2>1 DEF Inv, Underway, RecognitionJustified, Speech
  <2> QED BY <2>2, <2>3, <2>4 DEF Inv
<1> QED BY <1>1, <1>2, <1>3

\* recoverMiddleware.
LEMMA PanicKeeps == ASSUME Inv, Panic PROVE Inv'
<1>1. CASE status = "none"
  <2>1. /\ Reply("internal") /\ broke' = TRUE
        /\ UNCHANGED <<route, age, ended, gone>>
        /\ UNCHANGED arrival /\ UNCHANGED speech
    BY <1>1 DEF Panic
  <2>2. bodyAge' \in 0..age
    BY SameTypes DEF Panic
  <2>3. "internal" \in Statuses /\ "internal" # "ok" /\ "internal" # "failed"
    BY DEF Statuses
  <2> QED BY <2>1, <2>2, <2>3, SameTypes, ReplyKeeps, Zenon
<1>2. CASE status # "none"
  <2>1. pc \in {"stream", "write"} /\ bodyAge' = bodyAge
    BY <1>2 DEF Panic, Inv, Underway, Working, Waiting
  <2> QED BY <1>2, <2>1, EndKeeps DEF Panic
<1> QED BY <1>1, <1>2

LEMMA NextInv == Inv /\ [Next]_vars => Inv'
<1> SUFFICES ASSUME Inv, [Next]_vars PROVE Inv' OBVIOUS
<1>1. CASE UNCHANGED vars
  <2>1. UNCHANGED <<relayed, ended, gone, broke>>
    BY <1>1 DEF vars
  <2>2. TypeOK'
    BY <1>1, <2>1, SameFlags DEF vars, Inv, TypeOK
  <2>3. Underway' /\ Keyed' /\ CompleteUnlessBroken'
    BY <1>1, Zenon DEF vars, Inv, Underway, Keyed, CompleteUnlessBroken
  <2>4. RecognitionJustified'
    BY <1>1, Zenon DEF vars, Inv, RecognitionJustified, callAge, CallLimit
  <2> QED BY <2>2, <2>3, <2>4 DEF Inv
<1> QED
  BY <1>1, ArrivalKeeps, ResetKeeps, RefuseKeeps, RejectKeeps, CallKeeps,
     SynthesizedKeeps, RecognizeEndKeeps, MoveKeeps, StreamKeeps, PanicKeeps DEF Next, Timeout

\* The inductive invariant, which the theorems below follow from.
THEOREM Invariance == Spec => []Inv
<1> QED BY InitInv, NextInv, PTL DEF Spec

\* The variables of a request keep their types.
THEOREM TypeCorrect == Spec => []TypeOK
<1> QED BY Invariance, PTL DEF Inv

\* Whatever a client writes into X-Forwarded-For and however many trusted
\* proxies it passes, it is limited by its own address (ClientIP).
THEOREM LimitedByOwnAddress == Spec => []KeyIsOrigin
<1>1. Inv => KeyIsOrigin
  BY AddressResolved, JourneySequences DEF Inv, Keyed, KeyIsOrigin, Resolves
<1> QED BY <1>1, Invariance, PTL

\* An answer that looks complete is complete, for any timeouts and units,
\* except a stream that failed after its header (Forward, writeJSON).
THEOREM CompleteAnswers == Spec => []CompleteUnlessBroken
<1> QED BY Invariance, PTL DEF Inv

\* A recognition answers what became of its task (Recognize).
THEOREM RecognitionsJustified == Spec => []RecognitionJustified
<1> QED BY Invariance, PTL DEF Inv

-----------------------------------------------------------------------------
(* The deadlines. *)

\* Rounding up the deadlines and down the patience keeps their order.
LEMMA Rounding ==
  ASSUME NEW w \in Nat, NEW c \in Nat, NEW p \in Nat
  PROVE  /\ In(w) \in Nat /\ In(c) \in Nat /\ p \div Unit \in Nat
         /\ w > 0 => In(w) > 0
         /\ w >= c + p => In(w) >= In(c) + p \div Unit
<1> DEFINE a == (w + Unit - 1) \div Unit
           b == (c + Unit - 1) \div Unit
           d == p \div Unit
<1>0. Unit \in Nat /\ Unit > 0
  BY RequestsAssumption DEF RequestsAssumption
<1>1. \A x \in Nat, u \in Nat : u > 0 =>
        x \div u \in Nat /\ u * (x \div u) <= x /\ x < u * (x \div u) + u
  BY ONLY SMT
<1>2. w + Unit - 1 \in Nat /\ c + Unit - 1 \in Nat
  BY <1>0
<1>3. /\ a \in Nat /\ w + Unit - 1 < Unit * a + Unit
      /\ b \in Nat /\ Unit * b <= c + Unit - 1
      /\ d \in Nat /\ Unit * d <= p
  BY <1>0, <1>1, <1>2
<1> HIDE DEF a, b, d
<1>4. w > 0 => a > 0
  <2>1. a = 0 => Unit * a = 0
    BY <1>0
  <2> QED BY <1>0, <1>3, <2>1
<1>5. ASSUME w >= c + p PROVE a >= b + d
  <2>1. SUFFICES ASSUME a + 1 <= b + d PROVE FALSE
    BY <1>3
  <2>2. Unit * (a + 1) <= Unit * (b + d)
    <3>1. Unit * ((b + d) - (a + 1)) >= 0
      BY <1>0, <1>3, <2>1
    <3> QED BY <1>0, <1>3, <3>1
  <2>3. Unit * a + Unit <= Unit * b + Unit * d
    BY <1>0, <1>3, <2>2
  <2>4. Unit * a \in Nat /\ Unit * b \in Nat /\ Unit * d \in Nat
    BY <1>0, <1>3
  <2> QED BY <1>0, <1>3, <1>5, <2>3, <2>4
<1> QED BY <1>3, <1>4, <1>5 DEF In, a, b, d

\* On every route: what the write deadline has over the call, if that has one.
Fits(t) ==
  /\ WriteLimit(t) \in Nat \ {0}
  /\ Patience(t) \in Nat /\ Patience(t) <= WriteLimit(t)
  /\ t \in Bounded => /\ CallLimit(t) \in Nat
                      /\ CallLimit(t) + Patience(t) <= WriteLimit(t)

LEMMA Spare == ASSUME NEW t \in Routes PROVE Fits(t)
<1>1. LlmTimeout \in Nat
  BY RequestsAssumption DEF RequestsAssumption
<1>2. ASSUME NEW w \in Nat, NEW c \in Nat, NEW p \in Nat,
             WriteLimit(t) = In(w), t \in Bounded => CallLimit(t) = In(c),
             Patience(t) = p \div Unit, w > 0, c + p <= w
      PROVE  Fits(t)
  <2>1. /\ In(w) \in Nat /\ In(c) \in Nat /\ p \div Unit \in Nat
        /\ In(w) > 0 /\ In(w) >= In(c) + p \div Unit
    BY <1>2, Rounding, Zenon
  <2> QED BY <1>2, <2>1 DEF Fits
<1> USE DEF WriteLimit, CallLimit, Patience, Speech, Bounded, Database
<1>3. CASE t \in Database
  <2>1. /\ WriteLimit(t) = In(30) /\ Patience(t) = 30 \div Unit
        /\ t \in Bounded => CallLimit(t) = In(0)
    BY <1>3
  <2> QED BY ONLY <1>2, <2>1
<1>4. CASE t = "upload"
  <2>1. WriteLimit(t) = In(120) /\ CallLimit(t) = In(25) /\ Patience(t) = 95 \div Unit
    BY <1>4
  <2> QED BY ONLY <1>2, <2>1
<1>5. CASE t = "llm"
  <2>1. /\ WriteLimit(t) = In(LlmTimeout + 10) /\ CallLimit(t) = In(LlmTimeout)
        /\ Patience(t) = 10 \div Unit
    BY <1>5
  <2> QED BY ONLY <1>1, <1>2, <2>1
<1>6. CASE t = "tts"
  <2>1. WriteLimit(t) = In(60) /\ CallLimit(t) = In(30) /\ Patience(t) = 30 \div Unit
    BY <1>6
  <2> QED BY ONLY <1>2, <2>1
<1>7. CASE t \in Speech
  <2>1. WriteLimit(t) = In(55) /\ CallLimit(t) = In(20) /\ Patience(t) = 35 \div Unit
    BY <1>7
  <2> QED BY ONLY <1>2, <2>1
<1>8. CASE t = "unknown"
  <2>1. /\ WriteLimit(t) = In(30) /\ Patience(t) = 30 \div Unit
        /\ t \in Bounded => CallLimit(t) = In(0)
    BY <1>8
  <2> QED BY ONLY <1>2, <2>1
<1> QED BY <1>3, <1>4, <1>5, <1>6, <1>7, <1>8 DEF Routes, Bounded

\* No handler stays in its call beyond the call's own timeout, if it has one,
\* and a stream has its header out.
InTime == \/ route \in Bounded /\ callAge <= CallLimit(route)
          \/ route \in Database
Timed == /\ pc \in {"idle", "limit"} => age = 0
         /\ pc \in {"call", "wait", "query"} => InTime
         /\ pc \in {"stream", "write"} => status # "none"
         /\ LateOnlyAfterSlowBody

\* An answer in one piece is on time unless the body was slow.
LEMMA ReplyTimed ==
  ASSUME Inv, NEW code, Reply(code), UNCHANGED <<route, age, gone>>,
         \/ bodyAge' = age
         \/ bodyAge' = bodyAge /\ InTime
         \/ age = 0
  PROVE  Timed'
<1>1. /\ pc' = "done" /\ route \in Routes
      /\ looks' = "nothing" => gone \/ age >= WriteLimit(route)
  BY DEF Reply, Seen, Inv, TypeOK
<1>2. Fits(route)
  BY <1>1, Spare
<1>3. /\ age \in Nat /\ bodyAge \in Nat /\ bodyAge <= age
  BY DEF Inv, TypeOK
<1>4. ASSUME looks' = "nothing", ~gone'
      PROVE  bodyAge' >= Patience(route) \/ (route \in Database /\ age - bodyAge' > 0)
  <2>1. age >= WriteLimit(route)
    BY <1>1, <1>4
  <2>2. CASE bodyAge' = age
    BY <1>2, <1>3, <2>1, <2>2 DEF Fits
  <2>3. CASE bodyAge' = bodyAge /\ InTime
    <3>1. CASE route \in Bounded /\ age - bodyAge <= CallLimit(route)
      BY <1>2, <1>3, <2>1, <2>3, <3>1 DEF Fits
    <3>2. CASE route \in Database
      BY <1>2, <1>3, <2>1, <2>3, <3>2 DEF Fits
    <3> QED BY <2>3, <3>1, <3>2 DEF InTime, callAge
  <2>4. CASE age = 0
    BY <1>2, <2>1, <2>4 DEF Fits
  <2> QED BY <2>2, <2>3, <2>4
<1>5. Patience(route)' = Patience(route) /\ callAge' = age - bodyAge'
  BY DEF Patience, callAge
<1>6. LateOnlyAfterSlowBody'
  BY <1>4, <1>5 DEF LateOnlyAfterSlowBody
<1> QED BY <1>1, <1>6 DEF Timed

\* Nothing is late while the request is under way, or when its stream ends.
LEMMA NotLate ==
  ASSUME pc' # "done" \/ looks' # "nothing"
  PROVE  LateOnlyAfterSlowBody'
BY DEF LateOnlyAfterSlowBody

\* A step that leaves the call's clock alone, with the handler still in it.
LEMMA SameCall ==
  ASSUME Timed, UNCHANGED <<age, bodyAge, route>>, pc \in {"call", "wait", "query"},
         pc' \in {"call", "wait", "query"}
  PROVE  Timed'
<1>1. callAge' = callAge /\ CallLimit(route)' = CallLimit(route)
  BY DEF callAge, CallLimit
<1>2. InTime'
  BY <1>1 DEF Timed, InTime
<1> QED BY <1>2, NotLate DEF Timed

LEMMA TimedStep == ASSUME Inv, Timed, [Next]_vars PROVE Timed'
<1>0. /\ age \in Nat /\ bodyAge \in Nat /\ bodyAge <= age
      /\ route \in Routes /\ pc \in Places
      /\ route \in Bounded => CallLimit(route) \in Nat
  BY Spare DEF Inv, TypeOK, Fits
<1>1. CASE UNCHANGED vars
  <2>1. /\ callAge' = callAge /\ CallLimit(route)' = CallLimit(route)
        /\ Patience(route)' = Patience(route)
    BY <1>1 DEF vars, callAge, CallLimit, Patience
  <2>2. LateOnlyAfterSlowBody'
    BY <1>1, <2>1, Zenon DEF vars, Timed, LateOnlyAfterSlowBody
  <2>3. InTime' <=> InTime
    BY <1>1, <2>1, Zenon DEF vars, InTime
  <2> QED BY <1>1, <2>2, <2>3 DEF vars, Timed, progress
<1>2. CASE Reset
  BY <1>2, NotLate DEF Reset, Timed
<1>3. CASE Begin
  <2>1. /\ pc' \in {"body", "call"} /\ age' = age /\ bodyAge' = bodyAge /\ route' = route
        /\ age = 0
    BY <1>3 DEF Begin, Timed
  <2>2. pc' = "call" => InTime'
    <3>1. callAge' = 0 /\ CallLimit(route)' = CallLimit(route) /\ route' = route
      BY <1>0, <2>1 DEF callAge, CallLimit
    <3>2. pc' = "call" => route \in Bounded \union Database
      BY <1>0, <1>3 DEF Begin, Routes
    <3> QED BY <1>0, <3>1, <3>2 DEF InTime
  <2> QED BY <2>1, <2>2, NotLate DEF Timed
<1>4. ASSUME NEW t \in Routes, NEW j \in Journeys(Claims, Ways), Arrive(t, j)
      PROVE  Timed'
  BY <1>4, NotLate DEF Arrive, Timed
<1>5. ASSUME NEW code \in Refusals, Refuse(code) PROVE Timed'
  <2>1. Reply(code) /\ UNCHANGED <<route, age, gone>> /\ age = 0
    BY <1>5 DEF Refuse, Timed
  <2> QED BY <2>1, ReplyTimed
<1>6. ASSUME NEW code \in Rejections, Reject(code) PROVE Timed'
  BY <1>6, ReplyTimed DEF Reject
<1>7. CASE BodyTimesOut
  BY <1>7, ReplyTimed DEF BodyTimesOut
<1>8. CASE BodyRead
  <2>1. pc' = "call" /\ age' = age /\ bodyAge' = age /\ route' = route
    BY <1>8 DEF BodyRead
  <2>2. pc' = "call" => InTime'
    <3>1. callAge' = 0 /\ CallLimit(route)' = CallLimit(route) /\ route' = route
      BY <1>0, <2>1 DEF callAge, CallLimit
    <3>2. pc' = "call" => route \in Bounded \union Database
      BY <1>8 DEF BodyRead, Inv, TypeOK, Underway, Routes
    <3> QED BY <1>0, <3>1, <3>2 DEF InTime
  <2> QED BY <2>1, <2>2, NotLate DEF Timed
<1>9. ASSUME NEW code, Reply(code), UNCHANGED <<route, age, bodyAge, gone>>,
             pc \in {"call", "wait", "query"}
      PROVE  Timed'
  BY <1>9, ReplyTimed DEF Timed
<1>10. CASE CallSucceeds \/ CallFails \/ CallTimesOut
  BY <1>9, <1>10 DEF CallSucceeds, CallFails, CallTimesOut
<1>21. CASE Synthesized
  <2>1. CASE Reply("ok") /\ UNCHANGED ended
    BY <1>9, <1>21, <2>1 DEF Synthesized
  <2>2. CASE pc' = "write" /\ status' = "ok"
    BY <2>2, NotLate DEF Timed
  <2> QED BY <1>21, <2>1, <2>2 DEF Synthesized
<1>11. CASE QueryFinal \/ \E outcome \in Outcomes : FlashAnswered(outcome)
  BY <1>9, <1>11 DEF QueryFinal, FlashAnswered, FinalText
<1>12. CASE SubmitAccepted \/ TaskMoves \/ Poll \/ QueryPending
  BY <1>12, SameCall DEF SubmitAccepted, TaskMoves, Poll, QueryPending
<1>13. CASE UpstreamAnswers \/ \E last \in BOOLEAN : Chunk(last)
  <2>1. pc' \in {"stream", "write"} /\ status' # "none"
    BY <1>13 DEF UpstreamAnswers, Chunk, progress, Timed
  <2> QED BY <2>1, NotLate DEF Timed
<1>14. ASSUME NEW all \in BOOLEAN, EndStream(all) PROVE Timed'
  BY <1>14, EndLooks, NotLate DEF Timed
<1>15. CASE ChunkTaken
  <2>1. CASE ended
    BY <1>14, <1>15, <2>1 DEF ChunkTaken
  <2>2. CASE ~ended
    <3>1. pc' = "stream" /\ status' # "none"
      BY <1>15, <2>2 DEF ChunkTaken, progress, Timed
    <3> QED BY <3>1, NotLate DEF Timed
  <2> QED BY <2>1, <2>2
<1>16. CASE UpstreamCuts
  BY <1>14, <1>16 DEF UpstreamCuts
<1>17. CASE WriteFails
  BY <1>17, NotLate DEF WriteFails, Timed
<1>18. CASE Panic
  <2>1. CASE status # "none"
    BY <1>14, <1>18, <2>1 DEF Panic
  <2>2. CASE status = "none"
    <3>1. /\ Reply("internal") /\ UNCHANGED <<route, age, gone>>
          /\ bodyAge' = IF pc = "body" THEN age ELSE bodyAge
          /\ pc \in {"body", "call", "wait", "query"}
      BY <1>18, <2>2 DEF Panic, Timed, Working, Waiting
    <3>2. CASE pc = "body"
      BY <3>1, <3>2, ReplyTimed
    <3>3. CASE pc # "body"
      BY <1>9, <3>1, <3>3
    <3> QED BY <3>2, <3>3
  <2> QED BY <2>1, <2>2
<1>19. CASE ClientLeaves
  <2>1. /\ pc \in Working /\ UNCHANGED <<pc, age, bodyAge, route, status>>
    BY <1>19 DEF ClientLeaves, progress
  <2>2. callAge' = callAge /\ CallLimit(route)' = CallLimit(route) /\ pc' # "done"
    BY <2>1 DEF callAge, CallLimit, Working, Waiting
  <2>3. InTime => InTime'
    BY <2>1, <2>2 DEF InTime
  <2> QED BY <2>1, <2>2, <2>3, NotLate DEF Timed, Working, Waiting
<1>20. CASE Tick
  <2>1. /\ pc \in Working /\ age' = age + 1 /\ UNCHANGED <<pc, bodyAge, route, status>>
        /\ pc \in Waiting /\ route \in Bounded => ~(callAge >= CallLimit(route))
    BY <1>20 DEF Tick, Due, progress
  <2>2. pc \in Waiting /\ InTime => InTime'
    <3>1. callAge' = callAge + 1 /\ callAge \in Int /\ CallLimit(route)' = CallLimit(route)
      BY <1>0, <2>1 DEF callAge, CallLimit
    <3> QED BY <1>0, <2>1, <3>1 DEF InTime
  <2> QED BY <2>1, <2>2, NotLate DEF Timed, Working, Waiting
<1> QED
  BY <1>1, <1>2, <1>3, <1>4, <1>5, <1>6, <1>7, <1>8, <1>10, <1>11, <1>12, <1>13,
     <1>15, <1>16, <1>17, <1>18, <1>19, <1>20, <1>21 DEF Next, Timeout

\* On every route and for any LLM timeout, the deadlines of the server, the
\* handler and the call fit together: a client that stays is left without an
\* answer only when its body took longer than the route has patience for, or
\* the database, whose work has no deadline, took its time.
THEOREM LateAnswersExplained == Spec => []LateOnlyAfterSlowBody
<1>1. Init => Timed
  BY NotLate DEF Init, Timed, LateOnlyAfterSlowBody
<1>2. Inv /\ Timed /\ [Next]_vars => Timed'
  BY TimedStep
<1>3. Timed => LateOnlyAfterSlowBody
  BY DEF Timed
<1> QED BY <1>1, <1>2, <1>3, Invariance, PTL DEF Spec
=============================================================================
