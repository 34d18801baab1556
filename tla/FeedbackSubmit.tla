--------------------------- MODULE FeedbackSubmit ---------------------------
(***************************************************************************)
(* internal/feedback: Submit forwards a feedback to Feishu once.  The row  *)
(* of its client_feedback_id in feedback_submissions is inserted BEFORE    *)
(* Feishu is called and deleted when the call fails; a request that finds  *)
(* the row is acknowledged at once.                                        *)
(*                                                                         *)
(* Rows outlive the process, handlers and the cached tenant token do not.  *)
(* Feishu may record a feedback and its answer be lost (timeout, client    *)
(* gone, connection cut): the handler then sees a failure.  The database    *)
(* runs with synchronous=NORMAL: a commit survives the process at once, but *)
(* a power loss only once the write-ahead log has reached the disk.         *)
(***************************************************************************)
EXTENDS Naturals, FiniteSets

CONSTANTS Handlers,    \* goroutines serving POST /v1/feedback
          Ids,         \* client_feedback_ids (not empty, with a database)
          MaxFaults,   \* bound: lost answers, failed DELETEs, crashes and
                       \*        power losses
          MaxTokens    \* bound: tenant tokens Feishu issues

ASSUME FeedbackAssumption == /\ MaxFaults \in Nat
                             /\ MaxTokens \in Nat \ {0}

NoToken == 0
Places == {"idle", "token", "fetch", "store", "post", "undo"}

VARIABLES ledger,     \* the ids with a row in feedback_submissions
          durable,    \* those of the transactions that are on the disk
          pc,         \* where each handler is in Submit
          id,         \* the id each handler submits
          held,       \* the token each handler will post with
          cached,     \* s.tenantToken, NoToken when absent or expired
          valid,      \* the token Feishu accepts
          records,    \* records Feishu holds of each id
          lost,       \* history: answers and rows of each id that were lost
          hasty,      \* history: ids acknowledged while one was in flight
          orphans,    \* history: ids whose row nobody would delete any more
          acked,      \* history: ids whose client was told "accepted"
          faults      \* faults so far

token == <<held, cached, valid>>
disk == <<ledger, durable>>
vars == <<ledger, durable, pc, id, held, cached, valid, records, lost, hasty,
          orphans, acked, faults>>

Init == /\ ledger = {} /\ durable = {}
        /\ pc = [h \in Handlers |-> "idle"]
        /\ id \in [Handlers -> Ids]
        /\ held = [h \in Handlers |-> NoToken]
        /\ cached = NoToken
        /\ valid = 1
        /\ records = [i \in Ids |-> 0]
        /\ lost = [i \in Ids |-> 0]
        /\ hasty = {}
        /\ orphans = {}
        /\ acked = {}
        /\ faults = 0

Owners(i) == {h \in Handlers : pc[h] # "idle" /\ id[h] = i}

Goto(h, place) == pc' = [pc EXCEPT ![h] = place]

\* Bounded faults of the world around the code.
Fault == faults < MaxFaults /\ faults' = faults + 1

-----------------------------------------------------------------------------
(* Submit: INSERT OR IGNORE. *)

\* Bug: the id is looked up first and inserted after the submission.
ReserveUnrecorded(h, i) ==
  /\ pc[h] = "idle"
  /\ i \notin ledger
  /\ id' = [id EXCEPT ![h] = i]
  /\ Goto(h, "token")
  /\ UNCHANGED <<disk, token, records, lost, hasty, orphans, acked, faults>>

\* The row was inserted: this handler submits.
Reserve(h, i) ==
  /\ pc[h] = "idle"
  /\ i \notin ledger
  /\ ledger' = ledger \union {i}
  /\ id' = [id EXCEPT ![h] = i]
  /\ Goto(h, "token")
  /\ UNCHANGED <<durable, token, records, lost, hasty, orphans, acked, faults>>

\* No row affected: acknowledged as a duplicate, without calling Feishu.
Duplicate(h, i) ==
  /\ pc[h] = "idle"
  /\ i \in ledger
  /\ acked' = acked \union {i}
  /\ hasty' = IF Owners(i) # {} THEN hasty \union {i} ELSE hasty
  /\ UNCHANGED <<disk, pc, id, token, records, lost, orphans, faults>>

-----------------------------------------------------------------------------
(* tenantAccessToken: the cache is read and written under mu, the fetch in  *)
(* between is not, so several handlers may fetch at once.                   *)

UseToken(h) == /\ pc[h] = "token"
               /\ cached # NoToken
               /\ held' = [held EXCEPT ![h] = cached]
               /\ Goto(h, "post")
               /\ UNCHANGED <<disk, id, cached, valid, records, lost, hasty,
                              orphans, acked, faults>>

NeedToken(h) == /\ pc[h] = "token"
                /\ cached = NoToken
                /\ Goto(h, "fetch")
                /\ UNCHANGED <<disk, id, token, records, lost, hasty,
                               orphans, acked, faults>>

FetchToken(h) == /\ pc[h] = "fetch"
                 /\ held' = [held EXCEPT ![h] = valid]
                 /\ Goto(h, "store")
                 /\ UNCHANGED <<disk, id, cached, valid, records, lost, hasty,
                                orphans, acked, faults>>

StoreToken(h) == /\ pc[h] = "store"
                 /\ cached' = held[h]
                 /\ Goto(h, "post")
                 /\ UNCHANGED <<disk, id, held, valid, records, lost, hasty,
                                orphans, acked, faults>>

\* Bug: the expiry is never looked at.
TokenKeptForever == /\ cached = NoToken
                    /\ UNCHANGED vars

\* A cached token is dropped at its expiry only: not when Feishu refuses it.
TokenExpires == /\ cached # NoToken
                /\ cached' = NoToken
                /\ UNCHANGED <<disk, pc, id, held, valid, records, lost,
                               hasty, orphans, acked, faults>>

TokenRotates == /\ valid < MaxTokens
                /\ valid' = valid + 1
                /\ UNCHANGED <<disk, pc, id, held, cached, records, lost,
                               hasty, orphans, acked, faults>>

-----------------------------------------------------------------------------
(* submitWithToken, and the deferred DELETE. *)

Record(h) == /\ held[h] = valid
             /\ records' = [records EXCEPT ![id[h]] = @ + 1]

\* Bug: the row is deleted on every return, not only on an error.
PostAlwaysUndone(h) ==
  /\ pc[h] = "post"
  /\ Record(h)
  /\ acked' = acked \union {id[h]}
  /\ ledger' = ledger \ {id[h]}
  /\ Goto(h, "idle")
  /\ UNCHANGED <<durable, id, token, lost, hasty, orphans, faults>>

PostSucceeds(h) ==
  /\ pc[h] = "post"
  /\ Record(h)
  /\ acked' = acked \union {id[h]}
  /\ Goto(h, "idle")
  /\ UNCHANGED <<disk, id, token, lost, hasty, orphans, faults>>

\* Feishu recorded the feedback, but Submit sees an error.
AnswerLost(h) ==
  /\ Fault
  /\ pc[h] = "post"
  /\ Record(h)
  /\ lost' = [lost EXCEPT ![id[h]] = @ + 1]
  /\ Goto(h, "undo")
  /\ UNCHANGED <<disk, id, token, hasty, orphans, acked>>

\* No token, or Feishu refuses the record or is not reached.
SubmitFails(h) ==
  /\ pc[h] \in {"fetch", "post"}
  /\ Goto(h, "undo")
  /\ UNCHANGED <<disk, id, token, records, lost, hasty, orphans, acked, faults>>

\* Bug: a failure keeps its row.
UndoForgotten(h) ==
  /\ pc[h] = "undo"
  /\ Goto(h, "idle")
  /\ UNCHANGED <<disk, id, token, records, lost, hasty, orphans, acked, faults>>

\* "Let the client retry the same id": 502.
Undo(h) ==
  /\ pc[h] = "undo"
  /\ ledger' = ledger \ {id[h]}
  /\ Goto(h, "idle")
  /\ UNCHANGED <<durable, id, token, records, lost, hasty, orphans, acked, faults>>

\* The DELETE's error is ignored: the row stays.
UndoFails(h) ==
  /\ Fault
  /\ pc[h] = "undo"
  /\ Goto(h, "idle")
  /\ orphans' = orphans \union {id[h]}
  /\ UNCHANGED <<disk, id, token, records, lost, hasty, acked>>

Crash == /\ Fault
         /\ pc' = [h \in Handlers |-> "idle"]
         /\ cached' = NoToken
         /\ orphans' = orphans \union {i \in Ids : Owners(i) # {}}
         /\ UNCHANGED <<disk, id, held, valid, records, lost, hasty, acked>>

\* Checkpoints and the system's own writing: the disk has every transaction.
Sync == /\ durable # ledger
        /\ durable' = ledger
        /\ UNCHANGED <<ledger, pc, id, token, records, lost, hasty, orphans,
                       acked, faults>>

\* A crash of the machine takes back the transactions since: rows are lost,
\* and deleted ones are back.
PowerLoss == /\ Fault
             /\ ledger' = durable
             /\ pc' = [h \in Handlers |-> "idle"]
             /\ cached' = NoToken
             /\ lost' = [i \in Ids |-> IF i \in ledger \ durable
                                      THEN lost[i] + 1 ELSE lost[i]]
             /\ orphans' = orphans \union (durable \ ledger)
                                   \union {i \in durable : Owners(i) # {}}
             /\ UNCHANGED <<durable, id, held, valid, records, hasty, acked>>

Advance(h) == \/ UseToken(h) \/ NeedToken(h) \/ FetchToken(h)
              \/ StoreToken(h) \/ PostSucceeds(h) \/ AnswerLost(h) \/ SubmitFails(h)
              \/ Undo(h) \/ UndoFails(h)

Next == \/ \E h \in Handlers, i \in Ids : Reserve(h, i) \/ Duplicate(h, i)
        \/ \E h \in Handlers : Advance(h)
        \/ TokenExpires \/ TokenRotates \/ Crash \/ Sync \/ PowerLoss

Spec == Init /\ [][Next]_vars

\* Handlers run (every call is bounded by the client's 12 s timeout) and the
\* clock passes the expiry of a token.  Of the world: clients retry, and
\* Feishu does not refuse for ever what it could accept.
FairSpec == /\ Spec
            /\ WF_vars(TokenExpires)
            /\ \A h \in Handlers : /\ WF_vars(Advance(h))
                                   /\ SF_vars(FetchToken(h))
                                   /\ SF_vars(PostSucceeds(h))
            /\ \A i \in Ids : SF_vars(\E h \in Handlers : Reserve(h, i))

-----------------------------------------------------------------------------
(* Properties. *)

\* The types; a handler that posts holds a token.
TypeOK == /\ ledger \subseteq Ids /\ durable \subseteq Ids
          /\ pc \in [Handlers -> Places]
          /\ id \in [Handlers -> Ids]
          /\ held \in [Handlers -> 0..MaxTokens]
          /\ cached \in 0..MaxTokens /\ valid \in 1..MaxTokens
          /\ records \in [Ids -> Nat] /\ lost \in [Ids -> Nat]
          /\ hasty \subseteq Ids /\ orphans \subseteq Ids /\ acked \subseteq Ids
          /\ faults \in 0..MaxFaults
          /\ \A h \in Handlers : pc[h] \in {"store", "post"} => held[h] # NoToken

\* The row is a reservation: at most one handler submits an id at a time, and
\* nobody's row is taken away from it, through failures, retries and crashes.
OneOwner == \A h, g \in Handlers :
              pc[h] # "idle" => /\ id[h] \in ledger
                                /\ pc[g] # "idle" /\ id[g] = id[h] => g = h

\* Feishu holds at most one record of an id of which nothing was lost, and one
\* more for each lost answer and each row lost with the power: concurrent
\* retries, failed DELETEs, crashes and expired tokens never add one.
RecordsBounded == \A i \in Ids : records[i] <= 1 + lost[i]

\* A row without a record belongs to a handler that will delete or confirm
\* it, unless a crash, a power loss or a failed DELETE orphaned it.
RowMeansRecord ==
  \A i \in ledger : Owners(i) # {} \/ records[i] > 0 \/ i \in orphans

\* A client is told "accepted" without a record in two cases only: another
\* request with the id was in flight, or the row was orphaned.
FalseAckExplained ==
  \A i \in acked : records[i] > 0 \/ i \in hasty \/ i \in orphans

\* Whatever fails, an id whose client keeps retrying gets its record: no error
\* path keeps its row, and a token that Feishu refuses is not used for ever.
RetriesGetThrough == \A i \in Ids : <>(records[i] > 0 \/ i \in orphans)

\* "a client_feedback_id that was already submitted successfully is
\* acknowledged": once nobody submits an id any more, an acknowledged one has
\* its record.
AcksAreTrue == \A i \in acked : Owners(i) = {} => records[i] > 0

\* "a client_feedback_id is forwarded to Feishu at most once".
ForwardedAtMostOnce == \A i \in Ids : records[i] <= 1
=============================================================================
