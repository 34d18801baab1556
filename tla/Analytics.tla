------------------------------ MODULE Analytics ------------------------------
(***************************************************************************)
(* internal/analytics: clients send batches of events, and send them again *)
(* when they have no answer; a unique event_id drops what is there         *)
(* already.  A daily purge deletes old rows, and with them the memory of   *)
(* their ids.  SQLite lets one writer in at a time: a batch inserts its    *)
(* rows in a transaction, the purge deletes in many small ones.            *)
(***************************************************************************)
EXTENDS Integers, FiniteSets, Sequences

CONSTANTS Handlers,    \* requests in flight
          Events,      \* events, each with its event_id
          WellFormed,  \* those that normalizeEvent passes
          MaxBatchSize, PurgeBatch,
          MaxEventAge, MaxEventFuture, Retention,
          MaxLag,      \* how old a request's reading of the clock may become
          MaxClock,    \* bound
          Nobody

ASSUME AnalyticsAssumption ==
  /\ IsFiniteSet(Events) /\ WellFormed \subseteq Events
  /\ MaxBatchSize \in Nat \ {0} /\ PurgeBatch \in Nat \ {0}
  /\ MaxEventAge \in Nat /\ MaxEventFuture \in Nat /\ Retention \in Nat \ {0}
  /\ MaxLag \in Nat /\ MaxClock \in Nat
  /\ Nobody \notin Handlers

VARIABLES now,
          eventTime,  \* event_time_ms of each event; never changes
          rows,       \* analytics_events: created_at_ms by event_id
          pc,
          read,       \* the clock as each request read it
          queue,      \* what each request has still to insert
          writer,     \* the request whose transaction holds the write lock
          staged,     \* what that transaction has inserted
          accepted,   \* what RowsAffected has added up to; then, what is answered
          purging,    \* whether a purge is under way,
          cutoff,     \* and before which time it deletes
          left,       \* history: old rows at its start, less its full batches
          stored,     \* history: how often each event was committed
          purged      \* history: the cutoff of the last purge that ended by itself

requests == <<pc, read, queue, accepted>>
purge == <<purging, cutoff, left>>
vars == <<now, eventTime, rows, requests, writer, staged, purge, stored, purged>>

Init == /\ now = 0
        /\ eventTime \in [Events -> 0..MaxClock]
        /\ rows = [e \in {} |-> 0]
        /\ pc = [h \in Handlers |-> "idle"]
        /\ read = [h \in Handlers |-> 0]
        /\ queue = [h \in Handlers |-> <<>>]
        /\ writer = Nobody /\ staged = {}
        /\ accepted = [h \in Handlers |-> 0]
        /\ purging = FALSE /\ cutoff = 0 /\ left = 0
        /\ stored = [e \in Events |-> 0] /\ purged = 0

Goto(h, place) == pc' = [pc EXCEPT ![h] = place]
\* The request is over; of what it held, its answer is left.
Leave(h) == /\ Goto(h, "idle")
            /\ read' = [read EXCEPT ![h] = 0]
            /\ queue' = [queue EXCEPT ![h] = <<>>]

Stored(e) == e \in DOMAIN rows \union staged

\* Days pass; a request in flight is answered, or fails, within MaxLag.
Tick == /\ now < MaxClock
        /\ \A h \in Handlers : pc[h] # "idle" => now < read[h] + MaxLag
        /\ now' = now + 1
        /\ UNCHANGED <<eventTime, rows, requests, writer, staged, purge, stored, purged>>

-----------------------------------------------------------------------------
(* InsertBatch. *)

\* normalizeEvent passes the event.
Normal(e) == e \in WellFormed /\ eventTime[e] > 0

\* Bug: no limit on how far in the future an event may be.
ValidAnyFuture(e) == Normal(e) /\ eventTime[e] >= now - MaxEventAge

Valid(e) == /\ Normal(e)
            /\ eventTime[e] \in (now - MaxEventAge)..(now + MaxEventFuture)

\* A batch arrives; what is not valid is counted and dropped, and with nothing
\* left the request is answered at once.  now is read here, long before the
\* transaction.
Receive(h, valid) ==
  /\ pc[h] = "idle"
  /\ \A i \in DOMAIN valid : Valid(valid[i])
  /\ queue' = [queue EXCEPT ![h] = valid]
  /\ read' = [read EXCEPT ![h] = now]
  /\ accepted' = [accepted EXCEPT ![h] = 0]
  /\ Goto(h, "begin")
  /\ UNCHANGED <<now, eventTime, rows, writer, staged, purge, stored, purged>>

\* The first INSERT takes the write lock.
Begin(h) == /\ pc[h] = "begin"
            /\ writer = Nobody
            /\ writer' = h
            /\ Goto(h, "insert")
            /\ UNCHANGED <<now, eventTime, rows, read, queue, accepted, staged>>
            /\ UNCHANGED <<purge, stored, purged>>

\* Bug: an event that was there already is counted.
InsertCounting(h) ==
  /\ pc[h] = "insert" /\ queue[h] # <<>>
  /\ queue' = [queue EXCEPT ![h] = Tail(@)]
  /\ accepted' = [accepted EXCEPT ![h] = @ + 1]
  /\ staged' = IF Stored(Head(queue[h])) THEN staged ELSE staged \union {Head(queue[h])}
  /\ UNCHANGED <<now, eventTime, rows, pc, read, writer, purge, stored, purged>>

\* ON CONFLICT(event_id) DO NOTHING, within the batch too.
Insert(h) ==
  LET e == Head(queue[h])
  IN /\ pc[h] = "insert" /\ queue[h] # <<>>
     /\ queue' = [queue EXCEPT ![h] = Tail(@)]
     /\ IF Stored(e) THEN UNCHANGED <<staged, accepted>>
        ELSE /\ staged' = staged \union {e}
             /\ accepted' = [accepted EXCEPT ![h] = @ + 1]
     /\ UNCHANGED <<now, eventTime, rows, pc, read, writer, purge, stored, purged>>

Commit(h) ==
  /\ pc[h] = "insert" /\ queue[h] = <<>>
  /\ rows' = [e \in DOMAIN rows \union staged |->
                IF e \in staged THEN read[h] ELSE rows[e]]
  /\ stored' = [e \in Events |-> IF e \in staged THEN stored[e] + 1 ELSE stored[e]]
  /\ writer' = Nobody /\ staged' = {}
  /\ Leave(h)
  /\ UNCHANGED <<now, eventTime, accepted, purge, purged>>

\* The client goes away, the lock is not to be had in five seconds, or a
\* statement fails: nothing is stored, and no count is reported.
Fail(h) ==
  /\ pc[h] # "idle"
  /\ IF writer = h THEN writer' = Nobody /\ staged' = {}
     ELSE UNCHANGED <<writer, staged>>
  /\ Leave(h)
  /\ accepted' = [accepted EXCEPT ![h] = 0]
  /\ UNCHANGED <<now, eventTime, rows, purge, stored, purged>>

-----------------------------------------------------------------------------
(* The purge. *)

\* RunRetention's timer fires.
StartPurge ==
  /\ ~purging
  /\ purging' = TRUE
  /\ cutoff' = now - Retention
  /\ left' = Cardinality({e \in DOMAIN rows : rows[e] < cutoff'})
  /\ UNCHANGED <<now, eventTime, rows, requests, writer, staged, stored, purged>>

Old == {e \in DOMAIN rows : rows[e] < cutoff}
Delete(S) == rows' = [e \in DOMAIN rows \ S |-> rows[e]]

\* The purge goes on to another batch, or ends by itself.
GoesOn == IF purging' THEN left' = left - PurgeBatch /\ UNCHANGED <<cutoff, purged>>
          ELSE left' = 0 /\ cutoff' = 0 /\ purged' = cutoff

\* Bug: a full batch is taken for the last one.
DeleteBatchOnce(S) ==
  /\ purging /\ writer = Nobody
  /\ S \subseteq Old
  /\ Cardinality(S) = PurgeBatch \/ (Cardinality(S) < PurgeBatch /\ S = Old)
  /\ Delete(S)
  /\ purging' = (Cardinality(S) > PurgeBatch)
  /\ GoesOn
  /\ UNCHANGED <<now, eventTime, requests, writer, staged, stored>>

\* Bug: a batch that is not full is not taken for the last one either.
DeleteBatchAgain(S) ==
  /\ purging /\ writer = Nobody
  /\ S \subseteq Old
  /\ Cardinality(S) = PurgeBatch \/ (Cardinality(S) < PurgeBatch /\ S = Old)
  /\ Delete(S)
  /\ purging' = (Cardinality(S) <= PurgeBatch)
  /\ GoesOn
  /\ UNCHANGED <<now, eventTime, requests, writer, staged, stored>>

\* One DELETE with its LIMIT; a batch that is not full is the last one.
\* Requests get the lock between two of them.
DeleteBatch(S) ==
  /\ purging /\ writer = Nobody
  /\ S \subseteq Old
  /\ Cardinality(S) = PurgeBatch \/ (Cardinality(S) < PurgeBatch /\ S = Old)
  /\ Delete(S)
  /\ purging' = (Cardinality(S) = PurgeBatch)
  /\ GoesOn
  /\ UNCHANGED <<now, eventTime, requests, writer, staged, stored>>

\* A DELETE fails, on the write lock for one: the next day will do.
PurgeFails ==
  /\ purging
  /\ purging' = FALSE /\ cutoff' = 0 /\ left' = 0
  /\ UNCHANGED <<now, eventTime, rows, requests, writer, staged, stored, purged>>

\* The process dies: a transaction that was not committed is gone.
Crash ==
  /\ pc' = [h \in Handlers |-> "idle"]
  /\ read' = [h \in Handlers |-> 0]
  /\ queue' = [h \in Handlers |-> <<>>]
  /\ accepted' = [h \in Handlers |-> 0]
  /\ writer' = Nobody /\ staged' = {}
  /\ purging' = FALSE /\ cutoff' = 0 /\ left' = 0
  /\ UNCHANGED <<now, eventTime, rows, stored, purged>>

\* A batch without its invalid events.
Batches == UNION {[1..n -> Events] : n \in 1..MaxBatchSize}

Next == \/ Tick \/ StartPurge \/ PurgeFails \/ Crash
        \/ \E S \in SUBSET Events : DeleteBatch(S)
        \/ \E h \in Handlers, valid \in Batches : Receive(h, valid)
        \/ \E h \in Handlers : Begin(h) \/ Insert(h) \/ Commit(h) \/ Fail(h)

Spec == Init /\ [][Next]_vars

-----------------------------------------------------------------------------
(* Properties. *)

\* Types; the write lock is held by the one transaction that is open.
TypeOK == /\ now \in 0..MaxClock
          /\ eventTime \in [Events -> 0..MaxClock]
          /\ DOMAIN rows \subseteq Events
          /\ rows \in [DOMAIN rows -> 0..MaxClock]
          /\ pc \in [Handlers -> {"idle", "begin", "insert"}]
          /\ read \in [Handlers -> 0..MaxClock]
          /\ queue \in [Handlers -> Seq(Events)]
          /\ writer \in Handlers \union {Nobody}
          /\ \A h \in Handlers : pc[h] = "insert" <=> writer = h
          /\ staged \subseteq Events /\ (writer = Nobody => staged = {})
          /\ accepted \in [Handlers -> Nat]
          /\ purging \in BOOLEAN /\ cutoff \in Int /\ left \in Int
          /\ stored \in [Events -> Nat] /\ purged \in Int

\* However often a client sends an event again, across purges and crashes, it
\* is counted once - if what is purged is older than anything the age limits
\* let in.  (395 days against 31 by default; ANALYTICS_RETENTION_DAYS may be
\* set below that, and then it does not hold.)
CountedOnce ==
  Retention >= MaxEventAge + MaxEventFuture + MaxLag =>
    \A e \in Events : stored[e] <= 1

\* "Duplicates (same event_id) are neither" accepted nor rejected, and a failed
\* request stores nothing: rows appear only when a request ends, and whatever
\* way a request ends it answers as accepted exactly those that appear then.
AcceptedIsWhatAppears ==
  [][LET new == DOMAIN rows' \ DOMAIN rows
         Ends(h) == pc[h] # "idle" /\ pc'[h] = "idle"
     IN /\ new # {} => \E h \in Handlers : Ends(h)
        /\ \A h \in Handlers : Ends(h) => accepted'[h] = Cardinality(new)]_vars

\* A purge that ended by itself has left nothing older than its cutoff, and
\* nothing older comes after it; and every purge ends, for it makes no more
\* full batches than the old rows it began with allow.  What requests insert
\* between its batches, or later by the clock they read before, is younger.
PurgeIsComplete ==
  MaxLag <= Retention => /\ \A e \in DOMAIN rows : rows[e] >= purged
                         /\ left >= 0
=============================================================================
