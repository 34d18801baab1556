------------------------------ MODULE Requests ------------------------------
(***************************************************************************)
(* One connection of internal/httpapi and the requests it serves: the      *)
(* client's address, the refusals before any work, the deadlines of each   *)
(* route, the bounded call behind it (SQLite, Feishu, Qiniu, speech and    *)
(* LLM upstreams), streaming, speech recognition by polling, and what the  *)
(* client sees at the end.  Requests share none of this state, so one      *)
(* connection is enough; what they do share has modules of its own.        *)
(*                                                                         *)
(* Time is counted in units of Unit seconds since the handler started.  A  *)
(* deadline that is due fires before time goes on; something that happens  *)
(* in the very unit of a deadline may come before it or after it.          *)
(***************************************************************************)
EXTENDS ClientAddress

CONSTANTS Unit,        \* seconds per tick of the clock
          LlmTimeout,  \* LLM_TIMEOUT_SECONDS
          MaxClaim,    \* bound: entries the client wrote into the header
          MaxProxies   \* bound: trusted proxies on the way

ASSUME RequestsAssumption == Unit \in Nat \ {0} /\ LlmTimeout \in Nat \ {0}

\* "flash" is POST /v1/asr with a *_turbo resource, "dict" are the GETs and
\* "unknown" is a path or a method the mux does not serve.
Speech == {"asr", "flash"}
\* Routes whose work has a deadline; SQLite's statements have none.
Bounded == {"upload", "llm", "tts"} \union Speech
Database == {"dict", "analytics", "feedback"}
Routes == Bounded \union Database \union {"unknown"}

In(seconds) == (seconds + Unit - 1) \div Unit

\* Until when the body is read: the server's ReadTimeout, or the handler's own.
ReadLimit(t) == In(CASE t \in {"upload", "llm"} -> 90
                     [] t \in Speech -> 45
                     [] OTHER -> 30)

\* Bug: a handler leaves the server's WriteTimeout in force.
WriteLimitOfServer(t) == In(30)

\* Until when the answer can be written, from the start of the handler.
WriteLimit(t) == In(CASE t = "upload" -> 90 + 30
                      [] t = "llm" -> LlmTimeout + 10
                      [] t = "tts" -> 60
                      [] t \in Speech -> 45 + 10
                      [] OTHER -> 30)

\* The longest the work behind a bounded route takes once the body is there.
CallLimit(t) == In(CASE t = "upload" -> 25
                     [] t = "llm" -> LlmTimeout
                     [] t = "tts" -> 30
                     [] t \in Speech -> 20)

Refusals == {"unavailable", "limited", "not_found"}
Rejections == {"invalid", "too_large", "busy", "budget"}
Statuses == {"none", "ok", "failed", "internal"} \union Refusals \union Rejections

\* limit: in the limiter; body: reading it; call: the backend works; wait,
\* query: recognition between and in its polls; stream: copying the LLM's
\* answer, waiting for the upstream; write: that or audio, for the client.
Waiting == {"call", "wait", "query", "stream"}
Working == {"body", "write"} \union Waiting
Places == {"idle", "limit", "done"} \union Working

VARIABLES pc,       \* where the handler is
          route,    \* route of the request
          journey,  \* how it came here, while that matters
          key,      \* the address the limiter uses
          age,      \* units since the handler started
          bodyAge,  \* age when reading the body ended
          status,   \* what the handler answered, and the access log says
          looks,    \* how the answer looks to the client
          relayed,  \* the whole answer was written
          ended,    \* what is being written is the end of the answer
          task,     \* the recognition task at the speech service
          heard,    \* the transcript answered
          gone,     \* the client has left
          broke     \* history: a call failed, or the handler panicked

progress == <<status, looks, relayed>>
speech == <<task, heard>>
arrival == <<journey, key>>
vars == <<pc, route, journey, key, age, bodyAge, status, looks, relayed, ended,
          task, heard, gone, broke>>

Claims == UNION {[1..n -> Entries] : n \in 0..MaxClaim}
Ways == UNION {[1..n -> Trusted] : n \in 0..MaxProxies}

Nowhere == [origin |-> Garbage, claim |-> <<>>, way |-> <<>>]

Init == /\ pc = "idle" /\ route = "dict"
        /\ journey = Nowhere /\ key = Garbage
        /\ age = 0 /\ bodyAge = 0
        /\ status = "none" /\ looks = "nothing" /\ relayed = FALSE
        /\ ended = FALSE /\ task = "none" /\ heard = "none"
        /\ gone = FALSE /\ broke = FALSE

\* The next request of the connection, or the connection of the next one,
\* starts afresh: net/http sets both deadlines again.
Reset == /\ pc = "done"
         /\ pc' = "idle" /\ route' = "dict"
         /\ age' = 0 /\ bodyAge' = 0
         /\ status' = "none" /\ looks' = "nothing" /\ relayed' = FALSE
         /\ ended' = FALSE /\ task' = "none" /\ heard' = "none"
         /\ gone' = FALSE /\ broke' = FALSE
         /\ UNCHANGED arrival

callAge == age - bodyAge

-----------------------------------------------------------------------------
(* How a request ends. *)

\* What a client sees of bytes written now: past the write deadline they go
\* nowhere and the connection is closed.
Seen(inTime, late) ==
  {look \in {inTime, late} : /\ look = inTime => ~gone /\ age <= WriteLimit(route)
                             /\ look = late => gone \/ age >= WriteLimit(route)}

\* writeJSON, small enough for the connection's buffers.
Reply(code) == /\ pc' = "done"
               /\ status' = code
               /\ looks' \in Seen("complete", "nothing")
               /\ relayed' = (looks' = "complete")

\* A handler returns and net/http ends the chunked answer: what was written
\* so far looks complete, unless the deadline has cut the connection.  Audio
\* has a Content-Length, which gives away that some of it is missing.
EndStream(all) == /\ pc' = "done"
                  /\ looks' \in Seen(IF all \/ route # "tts" THEN "complete"
                                                             ELSE "broken", "broken")
                  /\ relayed' = all
                  /\ UNCHANGED status

-----------------------------------------------------------------------------
(* Arrival, the limiter and the missing services. *)

Arrive(t, j) == /\ pc = "idle"
                /\ pc' = "limit"
                /\ route' = t
                /\ journey' = j
                /\ key' = ClientIP(Peer(j), Hops(j))
                /\ UNCHANGED <<age, bodyAge, progress, ended, speech, gone, broke>>

\* jsonFallback's 404 or 405, 429 by the limiter, or 503 as the service is
\* nil (the dictionary and analytics always exist).
Refuse(code) == /\ pc = "limit"
                /\ code = "not_found" <=> route = "unknown"
                /\ code = "unavailable" => route \notin {"dict", "analytics"}
                /\ Reply(code)
                /\ journey' = Nowhere /\ key' = Garbage
                /\ UNCHANGED <<route, age, bodyAge, ended, speech, gone, broke>>

\* The handler starts; a GET has no body.
Begin == /\ pc = "limit"
         /\ route # "unknown"
         /\ pc' = IF route = "dict" THEN "call" ELSE "body"
         /\ journey' = Nowhere /\ key' = Garbage
         /\ UNCHANGED <<route, age, bodyAge, progress, ended, speech, gone, broke>>

-----------------------------------------------------------------------------
(* The body. *)

BodyRead == /\ pc = "body"
            /\ age <= ReadLimit(route)
            /\ pc' = "call"
            /\ bodyAge' = age
            /\ UNCHANGED <<route, arrival, age, progress, ended, speech, gone, broke>>

\* Malformed, too long, or not valid for the service; of the LLM proxy also no
\* slot (before the body is read) and no budget.
Reject(code) == /\ pc = "body" \/ (pc = "call" /\ route = "dict" /\ code = "invalid")
                /\ age <= ReadLimit(route)
                /\ code = "busy" => route = "llm" /\ age = 0
                /\ code = "budget" => route = "llm"
                /\ Reply(code)
                /\ bodyAge' = age
                /\ UNCHANGED <<route, arrival, age, ended, speech, gone, broke>>

\* The read fails with the deadline, and is answered like a malformed body.
BodyTimesOut == /\ pc = "body"
                /\ age >= ReadLimit(route)
                /\ Reply("invalid")
                /\ bodyAge' = age
                /\ UNCHANGED <<route, arrival, age, ended, speech, gone, broke>>

-----------------------------------------------------------------------------
(* The call behind the route. *)

CallSucceeds == /\ pc = "call"
                /\ route \in Database \union {"upload"}
                /\ Reply("ok")
                /\ UNCHANGED <<route, arrival, age, bodyAge, ended, speech, gone, broke>>

\* The audio is there: too late, or it is written, as fast as the client reads.
Synthesized ==
  /\ pc = "call" /\ route = "tts"
  /\ \/ Reply("ok") /\ looks' = "nothing" /\ UNCHANGED ended
     \/ /\ ~gone /\ age <= WriteLimit(route)
        /\ pc' = "write" /\ status' = "ok" /\ ended' = TRUE
        /\ UNCHANGED <<looks, relayed>>
  /\ UNCHANGED <<route, arrival, age, bodyAge, speech, gone, broke>>

\* The backend fails, or the request's context ends with its client (a
\* synthesis is detached from it and goes on).
CallFails == /\ pc \in {"call", "wait", "query"}
             /\ Reply("failed")
             /\ broke' = TRUE
             /\ UNCHANGED <<route, arrival, age, bodyAge, ended, speech, gone>>

\* The call's own timeout.
CallTimesOut == /\ pc \in {"call", "wait", "query"}
                /\ route \in Bounded
                /\ callAge >= CallLimit(route)
                /\ Reply("failed")
                /\ UNCHANGED <<route, arrival, age, bodyAge, ended, speech, gone, broke>>

-----------------------------------------------------------------------------
(* Recognize: submit, then poll. *)

SubmitAccepted == /\ pc = "call" /\ route = "asr"
                  /\ pc' = "wait"
                  /\ task' = "queued"
                  /\ UNCHANGED <<route, arrival, age, bodyAge, progress, ended,
                                 heard, gone, broke>>

\* The service works on the task, whatever the poller does.
Outcomes == {"text", "silent", "error"}

TaskMoves == /\ pc \in {"wait", "query"}
             /\ task' \in CASE task = "queued" -> {"processing"}
                            [] task = "processing" -> Outcomes
                            [] OTHER -> {}
             /\ UNCHANGED <<pc, route, arrival, age, bodyAge, progress, ended,
                            heard, gone, broke>>

\* time.After(pollInterval) against ctx.Done().
Poll == /\ pc = "wait"
        /\ callAge < CallLimit(route)
        /\ pc' = "query"
        /\ UNCHANGED <<route, arrival, age, bodyAge, progress, ended, speech,
                       gone, broke>>

\* Bug: a queued task is not waited for.
PendingProcessing == {"processing"}

Pending == {"queued", "processing"}

QueryPending == /\ pc = "query"
                /\ task \in Pending
                /\ pc' = "wait"
                /\ UNCHANGED <<route, arrival, age, bodyAge, progress, ended,
                               speech, gone, broke>>

\* finalText: silence is an empty transcript, not an error.
FinalText(outcome) ==
  /\ heard' = IF outcome \in {"text", "silent"} THEN outcome ELSE "none"
  /\ Reply(IF outcome \in {"text", "silent"} THEN "ok" ELSE "failed")

QueryFinal == /\ pc = "query"
              /\ task \notin Pending
              /\ FinalText(task)
              /\ UNCHANGED <<route, arrival, age, bodyAge, ended, task, gone, broke>>

\* One request, one result.
FlashAnswered(outcome) == /\ pc = "call" /\ route = "flash"
                          /\ task' = outcome
                          /\ FinalText(outcome)
                          /\ UNCHANGED <<route, arrival, age, bodyAge, ended,
                                         gone, broke>>

-----------------------------------------------------------------------------
(* Forward: once the upstream's header is relayed, errors end the copy only. *)

UpstreamAnswers == /\ pc = "call" /\ route = "llm"
                   /\ pc' = "stream"
                   /\ status' = "ok"
                   /\ UNCHANGED <<route, arrival, age, bodyAge, looks, relayed,
                                  ended, speech, gone, broke>>

\* Bug: the error of a read is looked at before the bytes that came with it.
ChunkAfterError(last) ==
  /\ pc = "stream"
  /\ callAge < CallLimit(route)
  /\ ended' = last
  /\ IF last THEN EndStream(FALSE) ELSE pc' = "write" /\ UNCHANGED progress
  /\ UNCHANGED <<route, arrival, age, bodyAge, speech, gone, broke>>

\* A read returns bytes, with io.EOF when they are the last ones: they are
\* written before the error is looked at.
Chunk(last) == /\ pc = "stream"
               /\ callAge < CallLimit(route)
               /\ ended' = last
               /\ pc' = "write"
               /\ UNCHANGED <<route, arrival, age, bodyAge, progress, speech,
                              gone, broke>>

\* The client takes them, if the write deadline has not passed.
ChunkTaken == /\ pc = "write"
              /\ ~gone /\ age <= WriteLimit(route)
              /\ IF ended THEN EndStream(TRUE) ELSE pc' = "stream" /\ UNCHANGED progress
              /\ UNCHANGED <<route, arrival, age, bodyAge, ended, speech, gone, broke>>

\* Bug: no write deadline is set: only a lost connection ends a write.
WriteFailsWithConnection ==
  /\ pc = "write"
  /\ gone
  /\ pc' = "done" /\ looks' = "broken"
  /\ UNCHANGED <<route, arrival, age, bodyAge, status, relayed, ended, speech,
                 gone, broke>>

\* A client that does not read blocks the copy until the write deadline.
WriteFails == /\ pc = "write"
              /\ gone \/ age >= WriteLimit(route)
              /\ pc' = "done" /\ looks' = "broken"
              /\ UNCHANGED <<route, arrival, age, bodyAge, status, relayed,
                             ended, speech, gone, broke>>

\* The upstream's connection breaks, or the proxy's timeout ends the stream:
\* Forward has written a header and returns nil.
UpstreamCuts == /\ pc = "stream"
                /\ EndStream(FALSE)
                /\ broke' = TRUE
                /\ UNCHANGED <<route, arrival, age, bodyAge, ended, speech, gone>>

-----------------------------------------------------------------------------
(* Panics, clients that leave, and time. *)

\* recoverMiddleware: 500 when nothing was written yet, else nothing more.
Panic == /\ pc \in Working
         /\ IF status = "none" THEN Reply("internal") ELSE EndStream(FALSE)
         /\ broke' = TRUE
         /\ bodyAge' = IF pc = "body" THEN age ELSE bodyAge
         /\ UNCHANGED <<route, arrival, age, ended, speech, gone>>

ClientLeaves == /\ pc \in Working
                /\ ~gone
                /\ gone' = TRUE
                /\ UNCHANGED <<pc, route, arrival, age, bodyAge, progress, ended,
                               speech, broke>>

\* A deadline that must be acted on before time goes on.
Due == \/ pc = "limit"
       \/ pc = "body" /\ age >= ReadLimit(route)
       \/ pc \in Waiting /\ route \in Bounded /\ callAge >= CallLimit(route)
       \/ pc = "write" /\ age > WriteLimit(route)

\* Bound: a statement that ends later still is answered no differently.
LateEnough == pc = "call" /\ route \in Database /\ age > WriteLimit(route)

Tick == /\ pc \in Working /\ ~Due /\ ~LateEnough
        /\ age' = age + 1
        /\ UNCHANGED <<pc, route, arrival, bodyAge, progress, ended, speech, gone,
                       broke>>

Timeout == \/ BodyTimesOut \/ CallTimesOut \/ WriteFails
           \/ UpstreamCuts /\ callAge >= CallLimit(route)

Next == \/ \E t \in Routes, j \in Journeys(Claims, Ways) : Arrive(t, j)
        \/ \E code \in Refusals : Refuse(code)
        \/ \E code \in Rejections : Reject(code)
        \/ Begin \/ BodyRead \/ CallSucceeds \/ Synthesized \/ CallFails
        \/ SubmitAccepted \/ TaskMoves \/ Poll \/ QueryPending \/ QueryFinal
        \/ \E outcome \in Outcomes : FlashAnswered(outcome)
        \/ UpstreamAnswers \/ ChunkTaken \/ UpstreamCuts
        \/ \E last \in BOOLEAN : Chunk(last)
        \/ Panic \/ ClientLeaves
        \/ Timeout \/ Tick \/ Reset

Spec == Init /\ [][Next]_vars

StatementEnds == route \in Database /\ (CallSucceeds \/ CallFails)

\* The handler runs, the clock moves, the runtime fires its timers, and SQLite
\* comes to the end of a statement.  The client and the services owe nothing.
FairSpec == /\ Spec
            /\ WF_vars(Begin \/ \E code \in Refusals : Refuse(code))
            /\ WF_vars(Timeout)
            /\ WF_vars(StatementEnds)
            /\ WF_vars(Tick)

-----------------------------------------------------------------------------
(* Properties. *)

TypeOK == /\ pc \in Places /\ route \in Routes
          /\ journey \in Journeys(Claims, Ways) \union {Nowhere}
          /\ key \in Entries
          /\ age \in Nat /\ bodyAge \in 0..age
          /\ status \in Statuses
          /\ looks \in {"nothing", "complete", "broken"}
          /\ relayed \in BOOLEAN /\ ended \in BOOLEAN
          /\ task \in {"none", "queued", "processing"} \union Outcomes
          /\ heard \in {"none", "text", "silent"}
          /\ gone \in BOOLEAN /\ broke \in BOOLEAN

\* A client outside the trusted networks is limited by its own address.
KeyIsOrigin ==
  pc = "limit" /\ journey.origin \notin Trusted => key = journey.origin

\* How long a body may take to arrive and still leave the route's longest call
\* its time: what its write deadline has over its call, in whole units.  An
\* upload may take all the time its body is read for.
Patience(t) == (CASE t = "upload" -> 95
                  [] t = "llm" -> 10
                  [] t = "tts" -> 30
                  [] t \in Speech -> 35
                  [] OTHER -> 30) \div Unit

\* A client that stays gets an answer to whatever it asked, unless its body
\* took longer than that: the deadlines of handler, call and server fit.  Only
\* where the database works, for which the code has no deadline, the work
\* itself may take too long.
LateOnlyAfterSlowBody ==
  pc = "done" /\ looks = "nothing" /\ ~gone =>
    bodyAge >= Patience(route) \/ (route \in Database /\ callAge > 0)

\* An answer that looks complete is complete, except a stream that failed
\* after its header was relayed: no slow client, deadline, last read or panic
\* makes another one.
CompleteUnlessBroken == looks = "complete" => relayed \/ (route = "llm" /\ broke)

\* A recognition answers what the service made of the clip, and is given up
\* only when a call failed, the client left, the task failed or 20 s passed.
RecognitionJustified ==
  pc = "done" /\ route \in Speech =>
    /\ status = "ok" => heard = task
    /\ status = "failed" => broke \/ task = "error" \/ callAge >= CallLimit(route)

\* Every request ends, whatever the client and the services do: by a deadline
\* or, on the routes that have none, with the last statement of the database.
EveryRequestEnds == pc = "limit" ~> pc = "done"
=============================================================================
