----------------------------- MODULE Synthesize -----------------------------
(***************************************************************************)
(* internal/tts: Synthesize serves short texts from a disk cache and lets  *)
(* concurrent misses of one text share a flight, one call of the upstream. *)
(*                                                                         *)
(* The cache is read before flightMu is taken; the flight is unregistered, *)
(* and then its channel closed, after the file is written.  Everything     *)
(* between these steps may interleave, the janitor's deletions included.   *)
(***************************************************************************)
EXTENDS Naturals, FiniteSets

CONSTANTS Handlers,   \* goroutines inside Synthesize
          Keys,       \* cache paths: text, speaker and rate of short texts
          LongText,   \* any text beyond cacheMaxRunes: never cached or shared
          Nobody      \* no leader

ASSUME TextAssumption == LongText \notin Keys /\ Nobody \notin Handlers

Texts == Keys \union {LongText}

\* read: about to read the cache; flight: about to take flightMu; call, write,
\* unregister, close: the leader's steps; wait: on a flight; direct: a long text.
Places == {"idle", "read", "flight", "call", "write", "unregister", "close",
           "wait", "direct", "reply"}
Leading == {"call", "write", "unregister", "close"}

VARIABLES disk,       \* the file of each key: absent, whole, or what a power loss
                      \* left of it (writeFileAtomic does not fsync)
          flights,    \* s.flights: the handler that leads each key's flight
          pc, text,   \* where each handler is, and what it synthesizes
          leader,     \* the flight a waiter holds: its leader
          result,     \* f.audio and f.err as each handler will return them
          spoken,     \* history: texts the upstream has delivered
          damaged     \* history: keys whose file a power loss has cut

vars == <<disk, flights, pc, text, leader, result, spoken, damaged>>

\* empty: created but not filled; cut: its beginning only.
Contents == {"absent", "empty", "cut", "whole"}

Init == /\ disk = [k \in Keys |-> "absent"]
        /\ flights = [k \in Keys |-> Nobody]
        /\ pc = [h \in Handlers |-> "idle"]
        /\ text = [h \in Handlers |-> LongText]
        /\ leader = [h \in Handlers |-> Nobody]
        /\ result = [h \in Handlers |-> "none"]
        /\ spoken = {} /\ damaged = {}

Goto(h, place) == pc' = [pc EXCEPT ![h] = place]
ReplyWith(h, r) == Goto(h, "reply") /\ result' = [result EXCEPT ![h] = r]

-----------------------------------------------------------------------------
(* Before the flight. *)

\* A valid request; a long text goes straight to the upstream.
Start(h, t) ==
  /\ pc[h] = "idle"
  /\ Goto(h, IF t = LongText THEN "direct" ELSE "read")
  /\ text' = [text EXCEPT ![h] = t]
  /\ UNCHANGED <<disk, flights, leader, result, spoken, damaged>>

\* Whatever is not empty is served: its length is not known to the service.
Served(k) == IF disk[k] = "cut" THEN "cut" ELSE "audio"

CacheHit(h) == /\ pc[h] = "read"
               /\ disk[text[h]] \in {"cut", "whole"}
               /\ ReplyWith(h, Served(text[h]))
               /\ UNCHANGED <<disk, flights, text, leader, spoken, damaged>>

CacheMiss(h) == /\ pc[h] = "read"
                /\ disk[text[h]] \in {"absent", "empty"}
                /\ Goto(h, "flight")
                /\ UNCHANGED <<disk, flights, text, leader, result, spoken, damaged>>

-----------------------------------------------------------------------------
(* The flight. *)

Join(h) == /\ pc[h] = "flight"
           /\ flights[text[h]] # Nobody
           /\ leader' = [leader EXCEPT ![h] = flights[text[h]]]
           /\ Goto(h, "wait")
           /\ UNCHANGED <<disk, flights, text, result, spoken, damaged>>

\* Bug: the map is read and written in two critical sections.
LeadAnyway(h) == /\ pc[h] = "flight"
                 /\ flights' = [flights EXCEPT ![text[h]] = h]
                 /\ Goto(h, "call")
                 /\ UNCHANGED <<disk, text, leader, result, spoken, damaged>>

Lead(h) == /\ pc[h] = "flight"
           /\ flights[text[h]] = Nobody
           /\ flights' = [flights EXCEPT ![text[h]] = h]
           /\ Goto(h, "call")
           /\ UNCHANGED <<disk, text, leader, result, spoken, damaged>>

\* callDetached: bounded by its own timeout, deaf to the leader's client.
CallSucceeds(h) ==
  /\ pc[h] = "call"
  /\ Goto(h, "write")
  /\ result' = [result EXCEPT ![h] = "audio"]
  /\ spoken' = spoken \union {text[h]}
  /\ UNCHANGED <<disk, flights, text, leader, damaged>>

CallFails(h) ==
  /\ pc[h] = "call"
  /\ Goto(h, "unregister")
  /\ result' = [result EXCEPT ![h] = "error"]
  /\ UNCHANGED <<disk, flights, text, leader, spoken, damaged>>

\* Bug: the file is written in place, where readers meet it half written.
WriteInPlace(h) ==
  /\ pc[h] = "write"
  /\ IF disk[text[h]] = "cut" THEN disk' = [disk EXCEPT ![text[h]] = "whole"]
                                  /\ Goto(h, "unregister")
     ELSE disk' = [disk EXCEPT ![text[h]] = "cut"] /\ UNCHANGED pc
  /\ UNCHANGED <<flights, text, leader, result, spoken, damaged>>

\* The rename makes the whole file appear at once.
WriteCache(h) ==
  /\ pc[h] = "write"
  /\ disk' = [disk EXCEPT ![text[h]] = "whole"]
  /\ Goto(h, "unregister")
  /\ UNCHANGED <<flights, text, leader, result, spoken, damaged>>

\* A failed write is ignored.
WriteFails(h) == /\ pc[h] = "write"
                 /\ Goto(h, "unregister")
                 /\ UNCHANGED <<disk, flights, text, leader, result, spoken, damaged>>

\* Bug: a failed flight is never unregistered.
UnregisterOnSuccess(h) ==
  /\ pc[h] = "unregister"
  /\ flights' = IF result[h] = "audio"
                  THEN [flights EXCEPT ![text[h]] = Nobody] ELSE flights
  /\ Goto(h, "close")
  /\ UNCHANGED <<disk, text, leader, result, spoken, damaged>>

Unregister(h) == /\ pc[h] = "unregister"
                 /\ flights' = [flights EXCEPT ![text[h]] = Nobody]
                 /\ Goto(h, "close")
                 /\ UNCHANGED <<disk, text, leader, result, spoken, damaged>>

Waiters(h) == {g \in Handlers : pc[g] = "wait" /\ leader[g] = h}

\* Bug: the leader answers one waiter instead of closing the channel.
CloseOne(h) ==
  /\ pc[h] = "close"
  /\ pc' = [g \in Handlers |-> IF g = h \/ Waiters(h) = {g} THEN "reply" ELSE pc[g]]
  /\ result' = [g \in Handlers |-> IF pc'[g] # pc[g] THEN result[h] ELSE result[g]]
  /\ UNCHANGED <<disk, flights, text, leader, spoken, damaged>>

\* close(f.done): every waiter gets the leader's audio and error.
Close(h) ==
  /\ pc[h] = "close"
  /\ pc' = [g \in Handlers |-> IF g = h \/ g \in Waiters(h) THEN "reply" ELSE pc[g]]
  /\ result' = [g \in Handlers |-> IF g \in Waiters(h) THEN result[h] ELSE result[g]]
  /\ UNCHANGED <<disk, flights, text, leader, spoken, damaged>>

\* A waiter's client goes away before the flight is over.
GiveUp(h) == /\ pc[h] = "wait"
             /\ ReplyWith(h, "error")
             /\ UNCHANGED <<disk, flights, text, leader, spoken, damaged>>

\* A long text: one call of its own.
Direct(h) ==
  /\ pc[h] = "direct"
  /\ \/ ReplyWith(h, "audio") /\ spoken' = spoken \union {LongText}
     \/ ReplyWith(h, "error") /\ UNCHANGED spoken
  /\ UNCHANGED <<disk, flights, text, leader, damaged>>

\* The handler writes the response and is ready for another request.
Reply(h) == /\ pc[h] = "reply"
            /\ Goto(h, "idle")
            /\ result' = [result EXCEPT ![h] = "none"]
            /\ leader' = [leader EXCEPT ![h] = Nobody]
            /\ UNCHANGED <<disk, flights, text, spoken, damaged>>

-----------------------------------------------------------------------------
(* Around the handlers. *)

\* SweepCache removes a file (see CacheJanitor).
Evict(k) == /\ disk[k] # "absent"
            /\ disk' = [disk EXCEPT ![k] = "absent"]
            /\ UNCHANGED <<flights, pc, text, leader, result, spoken, damaged>>

\* The machine loses power.  Neither the data nor the rename was forced to the
\* disk: a file may come back whole, cut, empty or not at all.  (A removal
\* that is undone is one that has not happened yet.)
PowerLoss ==
  /\ disk' \in [Keys -> Contents]
  /\ \A k \in Keys : disk[k] # "whole" => disk'[k] \in {disk[k], "absent"}
  /\ damaged' = damaged \union {k \in Keys : disk'[k] = "cut"}
  /\ flights' = [k \in Keys |-> Nobody]
  /\ pc' = [h \in Handlers |-> "idle"]
  /\ leader' = [h \in Handlers |-> Nobody]
  /\ result' = [h \in Handlers |-> "none"]
  /\ UNCHANGED <<text, spoken>>

\* A step the handler takes by itself, whatever its client does.
Advance(h) == \/ CacheHit(h) \/ CacheMiss(h) \/ Join(h) \/ Lead(h)
              \/ CallSucceeds(h) \/ CallFails(h) \/ WriteCache(h)
              \/ WriteFails(h) \/ Unregister(h) \/ Close(h) \/ Direct(h)
              \/ Reply(h)

Next == \/ \E h \in Handlers, t \in Texts : Start(h, t)
        \/ \E h \in Handlers : Advance(h) \/ GiveUp(h)
        \/ \E k \in Keys : Evict(k)
        \/ PowerLoss

Spec == Init /\ [][Next]_vars

\* Handlers run, and the upstream call is bounded by its timeout.  Nothing is
\* assumed of clients: a waiter may wait as long as its flight.
FairSpec == Spec /\ \A h \in Handlers : WF_vars(Advance(h))

-----------------------------------------------------------------------------
(* Properties. *)

TypeOK == /\ disk \in [Keys -> Contents]
          /\ flights \in [Keys -> Handlers \union {Nobody}]
          /\ pc \in [Handlers -> Places]
          /\ text \in [Handlers -> Texts]
          /\ leader \in [Handlers -> Handlers \union {Nobody}]
          /\ result \in [Handlers -> {"none", "audio", "cut", "error"}]
          /\ spoken \subseteq Texts /\ damaged \subseteq Keys

\* h leads a registered flight.
Leads(h) == pc[h] \in Leading \ {"close"}

\* At most one handler is calling the upstream for a key, and the registered
\* flight is its own: a late unregistration never drops another's flight.
OneFlightPerKey ==
  \A h, g \in Handlers :
     Leads(h) => /\ text[h] \in Keys /\ flights[text[h]] = h
                 /\ Leads(g) /\ text[g] = text[h] => g = h

\* A registered flight has a leader that is still running it, and a waiter
\* waits for one that has still to close its channel, about the same text.
NoOrphanFlight ==
  /\ \A k \in Keys : flights[k] # Nobody => /\ Leads(flights[k])
                                            /\ text[flights[k]] = k
  /\ \A h \in Handlers : pc[h] = "wait" => /\ leader[h] \in Handlers
                                           /\ pc[leader[h]] \in Leading
                                           /\ text[leader[h]] = text[h]

\* Audio is answered, and cached, only for a text that the upstream delivered
\* completely.  Truncated audio comes from nothing but a file that a power loss
\* cut, and only to those who read that file: no reader meets a file half
\* written, and no flight, whose waiters share its result, ever carries it.
AudioIsGenuine ==
  /\ \A h \in Handlers : /\ result[h] = "audio" => text[h] \in spoken
                         /\ result[h] = "cut" => /\ text[h] \in damaged
                                                 /\ pc[h] = "reply" /\ leader[h] = Nobody
  /\ \A k \in Keys : /\ disk[k] = "whole" => k \in spoken
                     /\ disk[k] = "cut" => k \in damaged

\* A waiter is answered when its flight ends, even if its client stays and
\* the leader's went away, unless the process dies.
WaitersAnswered == \A h \in Handlers : pc[h] = "wait" ~> pc[h] # "wait"
=============================================================================
