--------------------------- MODULE AnalyticsProofs ---------------------------
(***************************************************************************)
(* That an event is counted once, that a request reports what it stored,   *)
(* and that a finished purge left nothing old, for any number of requests  *)
(* and events and any age limits and retention.                            *)
(***************************************************************************)
EXTENDS Analytics, SequenceTheorems, FiniteSetTheorems, TLAPS

\* What a request holds was valid when it read the clock, and that was at most
\* MaxLag ago.
Recent(h) == /\ read[h] <= now /\ now <= read[h] + MaxLag
             /\ \A i \in DOMAIN queue[h] :
                   eventTime[queue[h][i]] \in
                     (read[h] - MaxEventAge)..(read[h] + MaxEventFuture)
RequestsRecent == \A h \in Handlers : pc[h] # "idle" => Recent(h)

\* The open transaction stages what is valid and not in the table.
StagedNew == \A e \in staged :
               /\ e \notin DOMAIN rows
               /\ eventTime[e] \in
                    (read[writer] - MaxEventAge)..(read[writer] + MaxEventFuture)

\* A row was created when its event was valid; an event whose row is gone is
\* now too old for any request to bring back.
Memory == \A e \in Events :
            /\ e \in DOMAIN rows => /\ stored[e] >= 1
                                    /\ rows[e] >= eventTime[e] - MaxEventFuture
            /\ stored[e] >= 1 /\ e \notin DOMAIN rows =>
                 now > eventTime[e] - MaxEventFuture + Retention

CutoffPast == purging => cutoff <= now - Retention

IInv == TypeOK /\ RequestsRecent /\ StagedNew /\ Memory /\ CutoffPast

\* The parts of TypeOK, as the actions touch them.
RequestTypes == /\ pc \in [Handlers -> {"idle", "begin", "insert"}]
                /\ read \in [Handlers -> 0..MaxClock]
                /\ queue \in [Handlers -> Seq(Events)]
                /\ accepted \in [Handlers -> Nat]
LockTypes == /\ writer \in Handlers \union {Nobody}
             /\ \A h \in Handlers : pc[h] = "insert" <=> writer = h
             /\ staged \subseteq Events /\ (writer = Nobody => staged = {})
TableTypes == /\ now \in 0..MaxClock
              /\ eventTime \in [Events -> 0..MaxClock]
              /\ DOMAIN rows \subseteq Events
              /\ rows \in [DOMAIN rows -> 0..MaxClock]
              /\ stored \in [Events -> Nat]
PurgeTypes == purging \in BOOLEAN /\ cutoff \in Int /\ left \in Int /\ purged \in Int

LEMMA TypeParts ==
  /\ TypeOK <=> RequestTypes /\ LockTypes /\ TableTypes /\ PurgeTypes
  /\ TypeOK' <=> RequestTypes' /\ LockTypes' /\ TableTypes' /\ PurgeTypes'
<1>1. TypeOK <=> RequestTypes /\ LockTypes /\ TableTypes /\ PurgeTypes
  BY Zenon DEF TypeOK, RequestTypes, LockTypes, TableTypes, PurgeTypes
<1>2. TypeOK' <=> RequestTypes' /\ LockTypes' /\ TableTypes' /\ PurgeTypes'
  BY Zenon DEF TypeOK, RequestTypes, LockTypes, TableTypes, PurgeTypes
<1> QED
  BY <1>1, <1>2

LEMMA TypeCorrectStep == ASSUME TypeOK, [Next]_vars PROVE TypeOK'
<1>1. RequestTypes /\ LockTypes /\ TableTypes /\ PurgeTypes
  BY TypeParts
<1>2. SUFFICES RequestTypes' /\ LockTypes' /\ TableTypes' /\ PurgeTypes'
  BY TypeParts
<1>3. ASSUME UNCHANGED requests PROVE RequestTypes'
  BY <1>1, <1>3 DEF RequestTypes, requests
<1>4. ASSUME UNCHANGED <<pc, writer, staged>> PROVE LockTypes'
  BY <1>1, <1>4 DEF LockTypes
<1>5. ASSUME UNCHANGED <<now, eventTime, rows, stored>> PROVE TableTypes'
  BY <1>1, <1>5 DEF TableTypes
<1>6. ASSUME UNCHANGED <<purge, purged>> PROVE PurgeTypes'
  BY <1>1, <1>6, Zenon DEF PurgeTypes, purge
<1>7. ASSUME NEW h \in Handlers, Leave(h),
             accepted' \in {accepted, [accepted EXCEPT ![h] = 0]}
      PROVE  RequestTypes'
  <2>1. pc' \in [Handlers -> {"idle", "begin", "insert"}]
    BY <1>1, <1>7 DEF RequestTypes, Leave, Goto
  <2>2. read' \in [Handlers -> 0..MaxClock]
    BY <1>1, <1>7, AnalyticsAssumption DEF RequestTypes, Leave, AnalyticsAssumption
  <2>3. queue' \in [Handlers -> Seq(Events)]
    BY <1>1, <1>7 DEF RequestTypes, Leave
  <2>4. accepted' \in [Handlers -> Nat]
    BY <1>1, <1>7 DEF RequestTypes
  <2> QED
    BY <2>1, <2>2, <2>3, <2>4 DEF RequestTypes
<1>8. CASE Tick
  <2>1. TableTypes'
    BY <1>1, <1>8, AnalyticsAssumption DEF Tick, TableTypes, AnalyticsAssumption
  <2>2. UNCHANGED <<requests, pc, writer, staged, purge, purged>>
    BY <1>8 DEF Tick, requests
  <2> QED
    BY <1>3, <1>4, <1>6, <2>1, <2>2
<1>9. CASE StartPurge
  <2>1. purging' = TRUE
    BY <1>9 DEF StartPurge
  <2>2. purging' \in BOOLEAN
    BY <2>1, Zenon
  <2>3. cutoff' \in Int /\ left' \in Int /\ purged' \in Int
    <3>1. cutoff' \in Int
      BY <1>1, <1>9, AnalyticsAssumption DEF StartPurge, TableTypes, AnalyticsAssumption
    <3>2. IsFiniteSet({e \in DOMAIN rows : rows[e] < cutoff'})
      BY <1>1, FS_Subset, AnalyticsAssumption DEF TableTypes, AnalyticsAssumption
    <3>3. left' \in Int
      BY <1>9, <3>2, FS_CardinalityType DEF StartPurge
    <3> QED
      BY <1>1, <1>9, <3>1, <3>3 DEF StartPurge, PurgeTypes
  <2>4. UNCHANGED <<now, eventTime, rows, stored, requests, pc, writer, staged>>
    BY <1>9 DEF StartPurge, requests
  <2> QED
    BY <1>3, <1>4, <1>5, <2>2, <2>3, <2>4 DEF PurgeTypes
<1>10. CASE PurgeFails
  <2>1. purging' = FALSE /\ cutoff' \in Int /\ left' \in Int /\ purged' \in Int
    BY <1>1, <1>10 DEF PurgeFails, PurgeTypes
  <2>2. purging' \in BOOLEAN
    BY <2>1, Zenon
  <2>3. UNCHANGED <<now, eventTime, rows, stored, requests, pc, writer, staged>>
    BY <1>10 DEF PurgeFails, requests
  <2> QED
    BY <1>3, <1>4, <1>5, <2>1, <2>2, <2>3 DEF PurgeTypes
<1>11. CASE Crash
  <2>1. purging' = FALSE /\ cutoff' \in Int /\ left' \in Int /\ purged' \in Int
    BY <1>1, <1>11 DEF Crash, PurgeTypes
  <2>2. purging' \in BOOLEAN
    BY <2>1, Zenon
  <2>3. pc' = [h \in Handlers |-> "idle"]
    BY <1>11 DEF Crash
  <2>4. LockTypes'
    BY <1>11, <2>3, AnalyticsAssumption DEF Crash, LockTypes, AnalyticsAssumption
  <2>5. RequestTypes'
    BY <1>11, AnalyticsAssumption DEF Crash, RequestTypes, AnalyticsAssumption
  <2>6. UNCHANGED <<now, eventTime, rows, stored>>
    BY <1>11 DEF Crash
  <2> QED
    BY <1>5, <2>1, <2>2, <2>4, <2>5, <2>6 DEF PurgeTypes
<1>12. ASSUME NEW S \in SUBSET Events, DeleteBatch(S)
       PROVE  RequestTypes' /\ LockTypes' /\ TableTypes' /\ PurgeTypes'
  <2>1. /\ UNCHANGED <<now, eventTime, requests, pc, writer, staged, stored>>
        /\ rows' = [e \in DOMAIN rows \ S |-> rows[e]]
    BY <1>12 DEF DeleteBatch, Delete, requests
  <2>2. TableTypes'
    BY <1>1, <2>1 DEF TableTypes
  <2>3. purging' \in BOOLEAN
    BY <1>12 DEF DeleteBatch
  <2>4. cutoff' \in Int /\ left' \in Int /\ purged' \in Int
    BY <1>1, <1>12, AnalyticsAssumption
       DEF DeleteBatch, GoesOn, PurgeTypes, AnalyticsAssumption
  <2> QED
    BY <1>3, <1>4, <2>1, <2>2, <2>3, <2>4 DEF PurgeTypes
<1>13. ASSUME NEW h \in Handlers, NEW valid \in Batches, Receive(h, valid)
       PROVE  RequestTypes' /\ LockTypes' /\ TableTypes' /\ PurgeTypes'
  <2>1. PICK n \in 1..MaxBatchSize : valid \in [1..n -> Events]
    BY DEF Batches
  <2>2. n \in Nat
    BY <2>1
  <2>3. valid \in UNION {[1..k -> Events] : k \in Nat}
    BY <2>1, <2>2
  <2>4. valid \in Seq(Events)
    BY <2>3, SeqDef, Zenon
  <2>5. /\ UNCHANGED <<now, eventTime, rows, writer, staged, purge, stored, purged>>
        /\ accepted' = [accepted EXCEPT ![h] = 0]
        /\ pc[h] = "idle" /\ pc' = [pc EXCEPT ![h] = "begin"]
        /\ read' = [read EXCEPT ![h] = now] /\ queue' = [queue EXCEPT ![h] = valid]
    BY <1>13 DEF Receive, Goto
  <2>6. RequestTypes'
    <3>1. pc' \in [Handlers -> {"idle", "begin", "insert"}]
      BY <1>1, <2>5 DEF RequestTypes
    <3>2. read' \in [Handlers -> 0..MaxClock]
      BY <1>1, <2>5 DEF RequestTypes, TableTypes
    <3>3. queue' \in [Handlers -> Seq(Events)]
      BY <1>1, <2>4, <2>5 DEF RequestTypes
    <3>4. accepted' \in [Handlers -> Nat]
      BY <1>1, <2>5 DEF RequestTypes
    <3> QED
      BY <3>1, <3>2, <3>3, <3>4 DEF RequestTypes
  <2>7. LockTypes'
    BY <1>1, <2>5 DEF RequestTypes, LockTypes
  <2> QED
    BY <1>5, <1>6, <2>5, <2>6, <2>7
<1>14. ASSUME NEW h \in Handlers, Begin(h)
       PROVE  RequestTypes' /\ LockTypes' /\ TableTypes' /\ PurgeTypes'
  <2>1. /\ UNCHANGED <<now, eventTime, rows, read, queue, accepted, staged>>
        /\ UNCHANGED <<purge, stored, purged>>
        /\ writer = Nobody /\ writer' = h /\ pc' = [pc EXCEPT ![h] = "insert"]
    BY <1>14 DEF Begin, Goto
  <2>2. RequestTypes'
    BY <1>1, <2>1 DEF RequestTypes
  <2>3. LockTypes'
    BY <1>1, <2>1, AnalyticsAssumption DEF RequestTypes, LockTypes, AnalyticsAssumption
  <2> QED
    BY <1>5, <1>6, <2>1, <2>2, <2>3
<1>15. ASSUME NEW h \in Handlers, Insert(h)
       PROVE  RequestTypes' /\ LockTypes' /\ TableTypes' /\ PurgeTypes'
  <2> DEFINE e == Head(queue[h])
  <2>1. queue[h] \in Seq(Events) /\ queue[h] # <<>> /\ pc[h] = "insert"
    BY <1>1, <1>15 DEF Insert, RequestTypes
  <2>2. e \in Events /\ Tail(queue[h]) \in Seq(Events)
    BY <2>1
  <2>3. /\ UNCHANGED <<now, eventTime, rows, pc, read, writer, purge, stored, purged>>
        /\ queue' = [queue EXCEPT ![h] = Tail(queue[h])]
    BY <1>15 DEF Insert
  <2>4. \/ UNCHANGED <<staged, accepted>>
        \/ /\ staged' = staged \union {e}
           /\ accepted' = [accepted EXCEPT ![h] = accepted[h] + 1]
    BY <1>15 DEF Insert
  <2> HIDE DEF e
  <2>5. accepted' \in [Handlers -> Nat]
    <3>1. accepted \in [Handlers -> Nat]
      BY <1>1 DEF RequestTypes
    <3> QED
      BY <2>4, <3>1
  <2>6. queue' \in [Handlers -> Seq(Events)]
    BY <1>1, <2>2, <2>3 DEF RequestTypes
  <2>7. RequestTypes'
    BY <1>1, <2>3, <2>5, <2>6 DEF RequestTypes
  <2>8. LockTypes'
    BY <1>1, <2>1, <2>2, <2>3, <2>4, AnalyticsAssumption
       DEF LockTypes, AnalyticsAssumption
  <2> QED
    BY <1>5, <1>6, <2>3, <2>7, <2>8
<1>16. ASSUME NEW h \in Handlers, Commit(h)
       PROVE  RequestTypes' /\ LockTypes' /\ TableTypes' /\ PurgeTypes'
  <2>1. /\ UNCHANGED <<now, eventTime, purge, purged>> /\ writer' = Nobody /\ staged' = {}
        /\ pc[h] = "insert" /\ pc' = [pc EXCEPT ![h] = "idle"]
    BY <1>16 DEF Commit, Leave, Goto
  <2>2. writer = h
    BY <1>1, <2>1 DEF LockTypes
  <2>3. RequestTypes'
    BY <1>7, <1>16 DEF Commit
  <2>4. LockTypes'
    BY <1>1, <2>1, <2>2, AnalyticsAssumption
       DEF RequestTypes, LockTypes, AnalyticsAssumption
  <2>5. DOMAIN rows' \subseteq Events /\ rows' \in [DOMAIN rows' -> 0..MaxClock]
    <3>1. /\ rows' = [e \in DOMAIN rows \union staged |->
                        IF e \in staged THEN read[h] ELSE rows[e]]
          /\ read[h] \in 0..MaxClock /\ staged \subseteq Events
      BY <1>1, <1>16 DEF Commit, RequestTypes, LockTypes
    <3>2. DOMAIN rows \subseteq Events /\ rows \in [DOMAIN rows -> 0..MaxClock]
      BY <1>1 DEF TableTypes
    <3> QED
      BY <3>1, <3>2
  <2>6. stored' \in [Events -> Nat]
    <3>1. stored' = [e \in Events |-> IF e \in staged THEN stored[e] + 1 ELSE stored[e]]
      BY <1>16 DEF Commit
    <3> QED
      BY <1>1, <3>1 DEF TableTypes
  <2>7. TableTypes'
    BY <1>1, <2>1, <2>5, <2>6 DEF TableTypes
  <2> QED
    BY <1>6, <2>1, <2>3, <2>4, <2>7
<1>17. ASSUME NEW h \in Handlers, Fail(h)
       PROVE  RequestTypes' /\ LockTypes' /\ TableTypes' /\ PurgeTypes'
  <2>1. /\ UNCHANGED <<now, eventTime, rows, purge, stored, purged>>
        /\ pc' = [pc EXCEPT ![h] = "idle"]
    BY <1>17 DEF Fail, Leave, Goto
  <2>2. RequestTypes'
    BY <1>7, <1>17 DEF Fail
  <2>3. \/ writer = h /\ writer' = Nobody /\ staged' = {}
        \/ writer # h /\ UNCHANGED <<writer, staged>>
    BY <1>17 DEF Fail
  <2>4. LockTypes'
    BY <1>1, <2>1, <2>3, AnalyticsAssumption
       DEF RequestTypes, LockTypes, AnalyticsAssumption
  <2> QED
    BY <1>5, <1>6, <2>1, <2>2, <2>4
<1>18. CASE UNCHANGED vars
  <2>1. /\ UNCHANGED <<requests, pc, writer, staged, now, eventTime, rows, stored>>
        /\ UNCHANGED <<purge, purged>>
    BY <1>18 DEF vars, requests
  <2> QED
    BY <1>3, <1>4, <1>5, <1>6, <2>1
<1> QED
  BY <1>8, <1>9, <1>10, <1>11, <1>12, <1>13, <1>14, <1>15, <1>16, <1>17, <1>18 DEF Next

-----------------------------------------------------------------------------
(* What requests hold. *)

LEMMA RequestsRecentStep ==
  ASSUME TypeOK, RequestsRecent, [Next]_vars PROVE RequestsRecent'
<1>0. /\ now \in Nat /\ eventTime \in [Events -> Nat]
      /\ pc \in [Handlers -> {"idle", "begin", "insert"}]
      /\ read \in [Handlers -> Nat] /\ queue \in [Handlers -> Seq(Events)]
      /\ MaxLag \in Nat /\ MaxEventAge \in Nat /\ MaxEventFuture \in Nat
  <2>1. 0..MaxClock \subseteq Nat
    BY AnalyticsAssumption DEF AnalyticsAssumption
  <2>2. now \in Nat /\ eventTime \in [Events -> Nat] /\ read \in [Handlers -> Nat]
    BY <2>1 DEF TypeOK
  <2> QED
    BY <2>2, AnalyticsAssumption, Zenon DEF TypeOK, AnalyticsAssumption
<1> USE <1>0 DEF RequestsRecent, Recent, vars, requests, purge, Goto, Leave
<1>1. CASE Tick
  <2>1. /\ now \in Int /\ now' = now + 1 /\ UNCHANGED <<eventTime, pc, read, queue>>
        /\ \A h \in Handlers : pc[h] # "idle" => now < read[h] + MaxLag
    BY <1>1 DEF Tick
  <2>2. ASSUME NEW h \in Handlers, pc[h] # "idle" PROVE Recent(h)'
    <3>1. Recent(h) /\ read[h] \in Int /\ now < read[h] + MaxLag
      BY <2>1, <2>2
    <3>2. read[h] <= now' /\ now' <= read[h] + MaxLag
      BY <2>1, <3>1
    <3> QED
      BY <2>1, <3>1, <3>2
  <2> QED
    BY <2>1, <2>2
<1>2. CASE StartPurge
  BY <1>2 DEF StartPurge
<1>3. CASE PurgeFails
  BY <1>3 DEF PurgeFails
<1>4. CASE Crash
  BY <1>4 DEF Crash
<1>5. ASSUME NEW S \in SUBSET Events, DeleteBatch(S) PROVE RequestsRecent'
  BY <1>5 DEF DeleteBatch
<1>6. ASSUME NEW h \in Handlers, NEW valid \in Batches, Receive(h, valid)
      PROVE RequestsRecent'
  <2>1. /\ UNCHANGED <<now, eventTime>>
        /\ read' = [read EXCEPT ![h] = now] /\ queue' = [queue EXCEPT ![h] = valid]
        /\ pc' = [pc EXCEPT ![h] = "begin"]
    BY <1>6 DEF Receive
  <2>2. Recent(h)'
    <3>1. /\ \A i \in DOMAIN valid :
                eventTime[valid[i]] \in (now - MaxEventAge)..(now + MaxEventFuture)
          /\ now <= now + MaxLag
      BY <1>6 DEF Receive, Valid, Normal
    <3>2. read'[h] = now /\ queue'[h] = valid
      BY <2>1
    <3> QED
      BY <2>1, <3>1, <3>2
  <2>3. ASSUME NEW g \in Handlers, g # h, pc'[g] # "idle" PROVE Recent(g)'
    BY <2>1, <2>3
  <2> QED
    BY <2>2, <2>3
<1>7. ASSUME NEW h \in Handlers, Begin(h) PROVE RequestsRecent'
  BY <1>7 DEF Begin
<1>8. ASSUME NEW h \in Handlers, Insert(h) PROVE RequestsRecent'
  <2>1. queue[h] \in Seq(Events) /\ queue[h] # <<>>
    BY <1>8 DEF Insert
  <2>2. \A i \in DOMAIN Tail(queue[h]) :
          i + 1 \in DOMAIN queue[h] /\ Tail(queue[h])[i] = queue[h][i + 1]
    BY <2>1
  <2>3. queue' = [queue EXCEPT ![h] = Tail(queue[h])]
    BY <1>8 DEF Insert
  <2>4. UNCHANGED <<now, eventTime, pc, read>>
    BY <1>8 DEF Insert
  <2>5. Recent(h)'
    <3>1. Recent(h) /\ queue'[h] = Tail(queue[h])
      BY <2>3, <1>8 DEF Insert
    <3>2. ASSUME NEW i \in DOMAIN queue'[h]
          PROVE  eventTime[queue'[h][i]] \in
                   (read[h] - MaxEventAge)..(read[h] + MaxEventFuture)
      <4>1. i + 1 \in DOMAIN queue[h] /\ queue'[h][i] = queue[h][i + 1]
        BY <2>2, <3>1, <3>2
      <4> QED
        BY <3>1, <4>1
    <3> QED
      BY <2>4, <3>1, <3>2
  <2>6. ASSUME NEW g \in Handlers, g # h, pc'[g] # "idle" PROVE Recent(g)'
    BY <2>3, <2>4, <2>6
  <2> QED
    BY <2>5, <2>6
<1>9. ASSUME NEW h \in Handlers, Commit(h) PROVE RequestsRecent'
  <2>1. ASSUME NEW g \in Handlers, pc'[g] # "idle" PROVE Recent(g)'
    <3>1. /\ g # h /\ UNCHANGED <<now, eventTime>>
          /\ pc'[g] = pc[g] /\ read'[g] = read[g] /\ queue'[g] = queue[g]
      BY <1>9, <2>1 DEF Commit
    <3> QED
      BY <2>1, <3>1
  <2> QED
    BY <2>1
<1>10. ASSUME NEW h \in Handlers, Fail(h) PROVE RequestsRecent'
  <2>1. ASSUME NEW g \in Handlers, pc'[g] # "idle" PROVE Recent(g)'
    <3>1. /\ g # h /\ UNCHANGED <<now, eventTime>>
          /\ pc'[g] = pc[g] /\ read'[g] = read[g] /\ queue'[g] = queue[g]
      BY <1>10, <2>1 DEF Fail
    <3> QED
      BY <2>1, <3>1
  <2> QED
    BY <2>1
<1>11. CASE UNCHANGED vars
  BY <1>11
<1> QED
  BY <1>1, <1>2, <1>3, <1>4, <1>5, <1>6, <1>7, <1>8, <1>9, <1>10, <1>11 DEF Next

LEMMA StagedNewStep ==
  ASSUME TypeOK, RequestsRecent, StagedNew, [Next]_vars PROVE StagedNew'
<1> USE AnalyticsAssumption DEF TypeOK, StagedNew, vars, requests, purge, Goto, Leave
<1>1. CASE Tick
  BY <1>1 DEF Tick
<1>2. CASE StartPurge
  BY <1>2 DEF StartPurge
<1>3. CASE PurgeFails
  BY <1>3 DEF PurgeFails
<1>4. CASE Crash
  BY <1>4 DEF Crash
<1>5. ASSUME NEW S \in SUBSET Events, DeleteBatch(S) PROVE StagedNew'
  BY <1>5 DEF DeleteBatch
<1>6. ASSUME NEW h \in Handlers, NEW valid \in Batches, Receive(h, valid)
      PROVE StagedNew'
  BY <1>6 DEF Receive
<1>7. ASSUME NEW h \in Handlers, Begin(h) PROVE StagedNew'
  BY <1>7 DEF Begin
<1>8. ASSUME NEW h \in Handlers, Insert(h) PROVE StagedNew'
  <2> DEFINE e == Head(queue[h])
  <2>1. queue[h] \in Seq(Events) /\ queue[h] # <<>> /\ pc[h] = "insert" /\ writer = h
    BY <1>8 DEF Insert
  <2>2. e = queue[h][1] /\ 1 \in DOMAIN queue[h]
    BY <2>1
  <2>3. eventTime[e] \in (read[h] - MaxEventAge)..(read[h] + MaxEventFuture)
    BY <2>1, <2>2 DEF RequestsRecent, Recent
  <2>4. UNCHANGED <<eventTime, rows, read, writer>>
    BY <1>8 DEF Insert
  <2>5. CASE Stored(e)
    BY <1>8, <2>4, <2>5 DEF Insert
  <2>6. CASE ~Stored(e)
    <3>1. staged' = staged \union {e} /\ e \notin DOMAIN rows
      BY <1>8, <2>6 DEF Insert, Stored
    <3> HIDE DEF e
    <3> QED
      BY <2>1, <2>3, <2>4, <3>1
  <2> QED
    BY <2>5, <2>6
<1>9. ASSUME NEW h \in Handlers, Commit(h) PROVE StagedNew'
  BY <1>9 DEF Commit
<1>10. ASSUME NEW h \in Handlers, Fail(h) PROVE StagedNew'
  <2>1. CASE writer = h
    <3>1. staged' = {}
      BY <1>10, <2>1 DEF Fail
    <3> QED
      BY <3>1
  <2>2. CASE writer # h
    <3>1. UNCHANGED <<eventTime, rows, writer, staged>>
      BY <1>10, <2>2 DEF Fail
    <3>2. read' = [read EXCEPT ![h] = 0]
      BY <1>10 DEF Fail
    <3>3. CASE writer = Nobody
      BY <3>1, <3>3
    <3>4. CASE writer \in Handlers
      <4>1. read'[writer] = read[writer]
        BY <2>2, <3>2, <3>4
      <4> QED
        BY <3>1, <4>1
    <3> QED
      BY <3>3, <3>4
  <2> QED
    BY <2>1, <2>2
<1>11. CASE UNCHANGED vars
  BY <1>11
<1> QED
  BY <1>1, <1>2, <1>3, <1>4, <1>5, <1>6, <1>7, <1>8, <1>9, <1>10, <1>11 DEF Next

-----------------------------------------------------------------------------
(* What the table and the history remember. *)

LEMMA CutoffPastStep == ASSUME TypeOK, CutoffPast, [Next]_vars PROVE CutoffPast'
<1> USE AnalyticsAssumption DEF TypeOK, CutoffPast, vars, requests, purge
<1>1. CASE Tick
  BY <1>1 DEF Tick
<1>2. CASE StartPurge
  BY <1>2 DEF StartPurge
<1>3. CASE PurgeFails
  BY <1>3 DEF PurgeFails
<1>4. CASE Crash
  BY <1>4 DEF Crash
<1>5. ASSUME NEW S \in SUBSET Events, DeleteBatch(S) PROVE CutoffPast'
  <2>1. UNCHANGED now /\ purging
    BY <1>5 DEF DeleteBatch
  <2>2. purging' => cutoff' = cutoff
    BY <1>5 DEF DeleteBatch, GoesOn
  <2> QED
    BY <2>1, <2>2
<1>6. ASSUME UNCHANGED <<now, purge>> PROVE CutoffPast'
  BY <1>6
<1>7. ASSUME NEW h \in Handlers, NEW valid \in Batches, Receive(h, valid)
      PROVE CutoffPast'
  BY <1>6, <1>7 DEF Receive
<1>8. ASSUME NEW h \in Handlers, Begin(h) \/ Insert(h) \/ Commit(h) \/ Fail(h)
      PROVE CutoffPast'
  BY <1>6, <1>8 DEF Begin, Insert, Commit, Fail
<1>9. CASE UNCHANGED vars
  BY <1>6, <1>9
<1> QED
  BY <1>1, <1>2, <1>3, <1>4, <1>5, <1>7, <1>8, <1>9 DEF Next

LEMMA MemoryStep == ASSUME IInv, [Next]_vars PROVE Memory'
<1> USE AnalyticsAssumption DEF IInv, TypeOK, Memory
<1>1. ASSUME UNCHANGED <<eventTime, rows, stored>>, now' \in Nat, now' >= now
      PROVE Memory'
  <2>1. ASSUME NEW e \in Events
        PROVE  /\ e \in DOMAIN rows => /\ stored[e] >= 1
                                       /\ rows[e] >= eventTime[e] - MaxEventFuture
               /\ stored[e] >= 1 /\ e \notin DOMAIN rows =>
                    now' > eventTime[e] - MaxEventFuture + Retention
    <3>1. eventTime[e] \in Int /\ now \in Int /\ now' \in Int
      BY <1>1
    <3>2. /\ e \in DOMAIN rows => /\ stored[e] >= 1
                                  /\ rows[e] >= eventTime[e] - MaxEventFuture
          /\ stored[e] >= 1 /\ e \notin DOMAIN rows =>
               now > eventTime[e] - MaxEventFuture + Retention
      OBVIOUS
    <3>3. MaxEventFuture \in Int /\ Retention \in Int
      BY DEF AnalyticsAssumption
    <3> HIDE AnalyticsAssumption DEF IInv, TypeOK, Memory
    <3> QED
      BY <1>1, <3>1, <3>2, <3>3
  <2> QED
    BY <1>1, <2>1
<1>2. CASE Tick
  <2>1. UNCHANGED <<eventTime, rows, stored>> /\ now' \in Nat /\ now' >= now
    BY <1>2 DEF Tick
  <2> HIDE DEF IInv, TypeOK, Memory
  <2> QED
    BY <1>1, <2>1
<1>3. CASE StartPurge \/ PurgeFails \/ Crash
  BY <1>1, <1>3 DEF StartPurge, PurgeFails, Crash
<1>4. ASSUME NEW S \in SUBSET Events, DeleteBatch(S) PROVE Memory'
  <2>1. /\ UNCHANGED <<now, eventTime, stored>> /\ cutoff <= now - Retention
        /\ S \subseteq Old /\ rows' = [e \in DOMAIN rows \ S |-> rows[e]]
    BY <1>4 DEF DeleteBatch, Delete, CutoffPast
  <2>2. SUFFICES ASSUME NEW e \in Events
                 PROVE  /\ e \in DOMAIN rows' => /\ stored[e] >= 1
                                    /\ rows'[e] >= eventTime[e] - MaxEventFuture
                        /\ stored[e] >= 1 /\ e \notin DOMAIN rows' =>
                             now > eventTime[e] - MaxEventFuture + Retention
    BY <2>1
  <2>3. CASE e \in S
    <3>1. /\ e \in DOMAIN rows /\ rows[e] < cutoff
          /\ rows[e] \in Int /\ cutoff \in Int
      BY <2>1, <2>3 DEF Old
    <3>2. rows[e] >= eventTime[e] - MaxEventFuture
      BY <3>1
    <3>3. now > eventTime[e] - MaxEventFuture + Retention
      BY <2>1, <3>1, <3>2
    <3>4. e \notin DOMAIN rows'
      BY <2>1, <2>3
    <3> QED
      BY <3>3, <3>4
  <2>4. CASE e \notin S
    <3>1. e \in DOMAIN rows' <=> e \in DOMAIN rows
      BY <2>1, <2>4
    <3>2. e \in DOMAIN rows' => rows'[e] = rows[e]
      BY <2>1
    <3> QED
      BY <3>1, <3>2
  <2> QED
    BY <2>3, <2>4
<1>5. ASSUME NEW h \in Handlers, NEW valid \in Batches, Receive(h, valid)
      PROVE Memory'
  BY <1>1, <1>5 DEF Receive
<1>6. ASSUME NEW h \in Handlers, Begin(h) \/ Insert(h) \/ Fail(h) PROVE Memory'
  <2>1. UNCHANGED <<now, eventTime, rows, stored>>
    BY <1>6 DEF Begin, Insert, Fail
  <2> QED
    BY <1>1, <2>1
<1>7. ASSUME NEW h \in Handlers, Commit(h) PROVE Memory'
  <2>1. /\ UNCHANGED <<now, eventTime>> /\ writer = h /\ read[h] \in Nat
        /\ rows' = [e \in DOMAIN rows \union staged |->
                      IF e \in staged THEN read[h] ELSE rows[e]]
        /\ stored' = [e \in Events |-> IF e \in staged THEN stored[e] + 1 ELSE stored[e]]
    BY <1>7 DEF Commit
  <2>2. \A e \in staged : /\ eventTime[e] <= read[h] + MaxEventFuture
                          /\ eventTime[e] \in Nat /\ stored[e] \in Nat
    BY <2>1 DEF StagedNew
  <2>3. \A e \in Events :
          /\ e \in DOMAIN rows' <=> e \in DOMAIN rows \/ e \in staged
          /\ stored'[e] = IF e \in staged THEN stored[e] + 1 ELSE stored[e]
          /\ e \in staged => rows'[e] = read[h]
          /\ e \in DOMAIN rows /\ e \notin staged => rows'[e] = rows[e]
    BY <2>1
  <2>4. ASSUME NEW e \in Events, e \in staged
        PROVE  stored'[e] >= 1 /\ rows'[e] >= eventTime[e] - MaxEventFuture
    <3>1. /\ stored'[e] = stored[e] + 1 /\ rows'[e] = read[h] /\ stored[e] \in Nat
          /\ read[h] \in Int /\ eventTime[e] \in Int
          /\ eventTime[e] <= read[h] + MaxEventFuture
      BY <2>1, <2>2, <2>3, <2>4
    <3>2. MaxEventFuture \in Int
      BY DEF AnalyticsAssumption
    <3> HIDE AnalyticsAssumption DEF IInv, TypeOK, Memory
    <3> QED
      BY <3>1, <3>2
  <2> HIDE DEF IInv
  <2>5. ASSUME NEW e \in Events, e \notin staged
        PROVE  /\ stored'[e] = stored[e] /\ (e \in DOMAIN rows' <=> e \in DOMAIN rows)
               /\ e \in DOMAIN rows => rows'[e] = rows[e]
    BY <2>3, <2>5
  <2> QED
    BY <2>1, <2>3, <2>4, <2>5 DEF IInv
<1>8. CASE UNCHANGED vars
  BY <1>1, <1>8 DEF vars
<1> QED
  BY <1>2, <1>3, <1>4, <1>5, <1>6, <1>7, <1>8 DEF Next

-----------------------------------------------------------------------------
(* The theorems. *)

\* The inductive invariant: requests in flight hold only what was valid when
\* they read the clock, and what the purge forgot is older than that.
THEOREM Invariant == Spec => []IInv
<1>1. Init => IInv
  <2> SUFFICES ASSUME Init PROVE IInv
    OBVIOUS
  <2>1. TypeOK
    <3>1. purging \in BOOLEAN
      BY DEF Init
    <3> QED
      BY <3>1, AnalyticsAssumption DEF Init, TypeOK
  <2> QED
    BY <2>1 DEF Init, IInv, RequestsRecent, StagedNew, Memory, CutoffPast
<1>2. IInv /\ [Next]_vars => IInv'
  BY TypeCorrectStep, RequestsRecentStep, StagedNewStep, MemoryStep, CutoffPastStep
     DEF IInv
<1> QED
  BY <1>1, <1>2, PTL DEF Spec

\* Every variable keeps its type, and one transaction at a time holds the lock.
THEOREM TypeCorrect == Spec => []TypeOK
<1>1. IInv => TypeOK
  BY DEF IInv
<1> QED
  BY <1>1, Invariant, PTL

\* A batch that is committed stores nothing a second time.
LEMMA CountedOnceStep ==
  ASSUME IInv, CountedOnce, [Next]_vars PROVE CountedOnce'
<1> USE AnalyticsAssumption
<1> SUFFICES ASSUME Retention >= MaxEventAge + MaxEventFuture + MaxLag,
                    NEW e \in Events
             PROVE  stored'[e] <= 1
  BY DEF CountedOnce
<1>0. stored[e] <= 1
  BY DEF CountedOnce
<1>1. ASSUME NEW h \in Handlers, Commit(h) PROVE stored'[e] <= 1
  <2>1. stored'[e] = IF e \in staged THEN stored[e] + 1 ELSE stored[e]
    BY <1>1 DEF Commit, Leave
  <2>2. ASSUME e \in staged PROVE stored[e] = 0
    <3>1. pc[h] = "insert" /\ writer = h
      BY <1>1 DEF Commit, IInv, TypeOK
    <3>2. /\ read[h] \in Nat /\ eventTime[e] \in Nat /\ now \in Nat
          /\ now <= read[h] + MaxLag /\ stored[e] \in Nat
      BY <3>1 DEF IInv, TypeOK, RequestsRecent, Recent
    <3>3. e \notin DOMAIN rows /\ eventTime[e] >= read[h] - MaxEventAge
      BY <2>2, <3>1, <3>2 DEF IInv, StagedNew
    <3>4. stored[e] >= 1 => now > eventTime[e] - MaxEventFuture + Retention
      BY <3>3 DEF IInv, Memory
    <3> QED
      BY <3>2, <3>3, <3>4
  <2> QED
    BY <1>0, <2>1, <2>2 DEF IInv, TypeOK
<1>2. ASSUME UNCHANGED stored PROVE stored'[e] <= 1
  BY <1>0, <1>2
<1>3. CASE Tick \/ StartPurge \/ PurgeFails \/ Crash
  BY <1>2, <1>3 DEF Tick, StartPurge, PurgeFails, Crash
<1>4. ASSUME NEW S \in SUBSET Events, DeleteBatch(S) PROVE stored'[e] <= 1
  BY <1>2, <1>4 DEF DeleteBatch
<1>5. ASSUME NEW h \in Handlers, NEW valid \in Batches, Receive(h, valid)
      PROVE stored'[e] <= 1
  BY <1>2, <1>5 DEF Receive
<1>6. ASSUME NEW h \in Handlers, Begin(h) \/ Insert(h) \/ Fail(h)
      PROVE stored'[e] <= 1
  BY <1>2, <1>6 DEF Begin, Insert, Fail
<1>7. CASE UNCHANGED vars
  BY <1>2, <1>7 DEF vars
<1> QED
  BY <1>1, <1>3, <1>4, <1>5, <1>6, <1>7 DEF Next

\* An event is counted once, whenever and however often it is sent, under every
\* schedule of requests, purges and crashes.
THEOREM EventsCountedOnce == Spec => []CountedOnce
<1>1. Init => CountedOnce
  BY DEF Init, CountedOnce
<1>2. IInv /\ CountedOnce /\ [Next]_vars => CountedOnce'
  BY CountedOnceStep
<1> QED
  BY <1>1, <1>2, Invariant, PTL DEF Spec

-----------------------------------------------------------------------------
(* What a request reports. *)

\* The count goes with the transaction: while it is open, it is the number of
\* rows staged, and before it is nought.
Tally == /\ IsFiniteSet(staged)
         /\ \A h \in Handlers :
              /\ pc[h] = "insert" => accepted[h] = Cardinality(staged)
              /\ pc[h] = "begin" => accepted[h] = 0

LEMMA TallyStep == ASSUME TypeOK, Tally, [Next]_vars PROVE Tally'
<1>0. /\ pc \in [Handlers -> {"idle", "begin", "insert"}]
      /\ accepted \in [Handlers -> Nat]
      /\ \A h \in Handlers : pc[h] = "insert" <=> writer = h
      /\ writer = Nobody => staged = {}
      /\ Nobody \notin Handlers
  BY AnalyticsAssumption DEF TypeOK, AnalyticsAssumption
<1> USE <1>0 DEF Tally, Goto, Leave
<1>1. ASSUME UNCHANGED <<pc, accepted, staged>> PROVE Tally'
  BY <1>1
<1>2. CASE Tick \/ StartPurge \/ PurgeFails
  BY <1>1, <1>2 DEF Tick, StartPurge, PurgeFails, requests
<1>3. CASE Crash
  BY <1>3, FS_EmptySet DEF Crash
<1>4. ASSUME NEW S \in SUBSET Events, DeleteBatch(S) PROVE Tally'
  BY <1>1, <1>4 DEF DeleteBatch, requests
<1>5. ASSUME NEW h \in Handlers, NEW valid \in Batches, Receive(h, valid)
      PROVE Tally'
  BY <1>5 DEF Receive
<1>6. ASSUME NEW h \in Handlers, Begin(h) PROVE Tally'
  <2>1. /\ staged = {} /\ UNCHANGED <<staged, accepted>>
        /\ pc[h] = "begin" /\ pc' = [pc EXCEPT ![h] = "insert"]
    BY <1>6 DEF Begin
  <2>2. Cardinality({}) = 0
    BY FS_EmptySet
  <2>3. \A g \in Handlers : pc[g] # "insert"
    BY <1>6 DEF Begin
  <2> QED
    BY <2>1, <2>2, <2>3
<1>7. ASSUME NEW h \in Handlers, Insert(h) PROVE Tally'
  <2>1. UNCHANGED pc /\ pc[h] = "insert" /\ writer = h
    BY <1>7 DEF Insert
  <2>2. \A g \in Handlers : g # h => pc[g] # "insert"
    BY <2>1
  <2>3. CASE UNCHANGED <<staged, accepted>>
    BY <1>1, <2>1, <2>3
  <2>4. ASSUME NEW e, e \notin staged, staged' = staged \union {e},
               accepted' = [accepted EXCEPT ![h] = @ + 1]
        PROVE  Tally'
    <3>1. IsFiniteSet(staged') /\ Cardinality(staged') = Cardinality(staged) + 1
      BY <2>4, FS_AddElement
    <3> QED
      BY <2>1, <2>2, <2>4, <3>1
  <2> QED
    BY <1>7, <2>3, <2>4 DEF Insert, Stored
<1>8. ASSUME NEW h \in Handlers, Commit(h) \/ (Fail(h) /\ writer = h) PROVE Tally'
  <2>1. /\ staged' = {} /\ writer = h
        /\ pc' = [pc EXCEPT ![h] = "idle"]
        /\ \A g \in Handlers \ {h} : accepted'[g] = accepted[g]
    BY <1>8 DEF Commit, Fail
  <2>2. \A g \in Handlers : g # h => pc[g] # "insert"
    BY <2>1
  <2> QED
    BY <2>1, <2>2, FS_EmptySet
<1>9. ASSUME NEW h \in Handlers, Fail(h), writer # h PROVE Tally'
  BY <1>9 DEF Fail
<1>10. CASE UNCHANGED vars
  BY <1>1, <1>10 DEF vars, requests
<1> QED
  BY <1>2, <1>3, <1>4, <1>5, <1>6, <1>7, <1>8, <1>9, <1>10 DEF Next

LEMMA AcceptedStep ==
  ASSUME IInv, Tally, [Next]_vars
  PROVE  /\ DOMAIN rows' \ DOMAIN rows # {} =>
               \E h \in Handlers : pc[h] # "idle" /\ pc'[h] = "idle"
         /\ \A h \in Handlers :
               pc[h] # "idle" /\ pc'[h] = "idle" =>
                 accepted'[h] = Cardinality(DOMAIN rows' \ DOMAIN rows)
<1> DEFINE Ends(h) == pc[h] # "idle" /\ pc'[h] = "idle"
<1>1. pc \in [Handlers -> {"idle", "begin", "insert"}] /\ accepted \in [Handlers -> Nat]
  BY DEF IInv, TypeOK
<1>2. ASSUME NEW h \in Handlers, Commit(h)
      PROVE  /\ DOMAIN rows' \ DOMAIN rows = staged /\ Ends(h)
             /\ accepted'[h] = Cardinality(staged)
             /\ \A g \in Handlers : Ends(g) => g = h
  <2>1. DOMAIN rows' \ DOMAIN rows = staged
    BY <1>2 DEF Commit, IInv, StagedNew
  <2> QED
    BY <1>1, <1>2, <2>1 DEF Commit, Leave, Goto, Tally
<1>3. ASSUME NEW h \in Handlers, Fail(h)
      PROVE  /\ DOMAIN rows' \subseteq DOMAIN rows
             /\ \A g \in Handlers : Ends(g) => accepted'[g] = 0
  BY <1>1, <1>3 DEF Fail, Leave, Goto
<1>4. ASSUME Crash
      PROVE  /\ DOMAIN rows' \subseteq DOMAIN rows
             /\ \A g \in Handlers : Ends(g) => accepted'[g] = 0
  BY <1>4 DEF Crash
<1>5. ASSUME NEW h \in Handlers, NEW valid \in Batches, Receive(h, valid)
      PROVE  DOMAIN rows' \subseteq DOMAIN rows /\ \A g \in Handlers : ~Ends(g)
  BY <1>1, <1>5 DEF Receive, Goto
<1>6. ASSUME NEW h \in Handlers, Begin(h) \/ Insert(h)
      PROVE  DOMAIN rows' \subseteq DOMAIN rows /\ \A g \in Handlers : ~Ends(g)
  BY <1>1, <1>6 DEF Begin, Insert, Goto
<1>7. ASSUME NEW S \in SUBSET Events, DeleteBatch(S)
      PROVE  DOMAIN rows' \subseteq DOMAIN rows /\ \A g \in Handlers : ~Ends(g)
  BY <1>7 DEF DeleteBatch, Delete, requests
<1>8. ASSUME Tick \/ StartPurge \/ PurgeFails \/ UNCHANGED vars
      PROVE  DOMAIN rows' \subseteq DOMAIN rows /\ \A g \in Handlers : ~Ends(g)
  BY <1>8 DEF Tick, StartPurge, PurgeFails, vars, requests
<1>9. Cardinality({}) = 0
  BY FS_EmptySet
<1> DEFINE Goal == /\ DOMAIN rows' \ DOMAIN rows # {} => \E h \in Handlers : Ends(h)
                   /\ \A h \in Handlers :
                         Ends(h) => accepted'[h] = Cardinality(DOMAIN rows' \ DOMAIN rows)
<1>10. ASSUME DOMAIN rows' \subseteq DOMAIN rows,
              \A h \in Handlers : Ends(h) => accepted'[h] = 0
       PROVE  Goal
  <2>1. DOMAIN rows' \ DOMAIN rows = {}
    BY <1>10
  <2> QED
    BY <1>9, <1>10, <2>1
<1>11. ASSUME NEW h \in Handlers, Commit(h) PROVE Goal
  <2> HIDE DEF Ends
  <2> QED
    BY <1>2, <1>11
<1> HIDE DEF Ends, Goal
<1>12. Goal
  BY <1>3, <1>4, <1>5, <1>6, <1>7, <1>8, <1>10, <1>11 DEF Next
<1> QED
  BY <1>12 DEF Goal, Ends

\* However a request ends, what it answers as accepted is the number of rows
\* that this very step added to the table, whatever was retried, repeated or
\* purged meanwhile (InsertBatch).
THEOREM AcceptedCountIsTrue == Spec => AcceptedIsWhatAppears
<1>1. Init => Tally
  BY FS_EmptySet DEF Init, Tally
<1>2. TypeOK /\ Tally /\ [Next]_vars => Tally'
  BY TallyStep
<1>3. IInv /\ Tally /\ [Next]_vars =>
        [LET new == DOMAIN rows' \ DOMAIN rows
             Ends(h) == pc[h] # "idle" /\ pc'[h] = "idle"
         IN /\ new # {} => \E h \in Handlers : Ends(h)
            /\ \A h \in Handlers : Ends(h) => accepted'[h] = Cardinality(new)]_vars
  BY AcceptedStep
<1> QED
  BY <1>1, <1>2, <1>3, Invariant, TypeCorrect, PTL DEF Spec, AcceptedIsWhatAppears

-----------------------------------------------------------------------------
(* What a purge leaves, and how long it takes.                             *)

\* What a finished purge has deleted up to is past, like the cutoff of one
\* under way, and the table holds nothing older.
PurgedPast == purged = 0 \/ purged <= now - Retention

Younger == MaxLag <= Retention => \A e \in DOMAIN rows : rows[e] >= purged

\* The old rows that a purge has still to delete are no more than those it
\* began with, less its full batches: none is added.
Fewer == /\ ~purging => left = 0
         /\ MaxLag <= Retention /\ purging => Cardinality(Old) <= left

PurgeInv == PurgedPast /\ Younger /\ Fewer

\* A request inserts nothing older than any cutoff.
LEMMA InsertsYoung ==
  ASSUME IInv, PurgedPast, MaxLag <= Retention, NEW h \in Handlers, Commit(h)
  PROVE  /\ read[h] >= purged /\ (purging => read[h] >= cutoff)
         /\ \A e \in DOMAIN rows' : \/ e \in DOMAIN rows /\ rows'[e] = rows[e]
                                    \/ e \in staged /\ rows'[e] = read[h]
         /\ DOMAIN rows' = DOMAIN rows \union staged
         /\ \A e \in DOMAIN rows : rows'[e] = rows[e]
<1>1. /\ now \in Nat /\ read[h] \in Nat /\ cutoff \in Int /\ purged \in Int
      /\ MaxLag \in Nat /\ Retention \in Nat
  BY AnalyticsAssumption DEF IInv, TypeOK, AnalyticsAssumption
<1>2. now <= read[h] + MaxLag
  BY DEF Commit, IInv, RequestsRecent, Recent
<1>3. read[h] >= purged /\ (purging => read[h] >= cutoff)
  BY <1>1, <1>2 DEF PurgedPast, IInv, CutoffPast
<1>4. \A e \in staged : e \notin DOMAIN rows
  BY DEF IInv, StagedNew
<1> QED
  BY <1>3, <1>4 DEF Commit

LEMMA PurgeInvStep ==
  ASSUME IInv, PurgeInv, [Next]_vars PROVE PurgeInv'
<1>0. /\ now \in Nat /\ cutoff \in Int /\ purged \in Int /\ left \in Int
      /\ \A e \in DOMAIN rows : rows[e] \in Nat
      /\ Retention \in Nat /\ PurgeBatch \in Nat \ {0} /\ MaxLag \in Nat
      /\ IsFiniteSet(DOMAIN rows)
  BY AnalyticsAssumption, FS_Subset DEF IInv, TypeOK, AnalyticsAssumption
<1>1. ASSUME UNCHANGED <<rows, purge, purged>>, now' = now \/ now' = now + 1
      PROVE  PurgeInv'
  BY <1>0, <1>1 DEF PurgeInv, PurgedPast, Younger, Fewer, Old, purge
<1>2. CASE StartPurge
  <2>1. UNCHANGED <<now, rows, purged>> /\ purging' /\ left' = Cardinality(Old')
    BY <1>2 DEF StartPurge, Old
  <2>2. IsFiniteSet(Old')
    BY <1>0, <2>1, FS_Subset DEF Old
  <2>3. left' \in Nat
    BY <2>1, <2>2, FS_CardinalityType
  <2> QED
    BY <1>0, <2>1, <2>3 DEF PurgeInv, PurgedPast, Younger, Fewer
<1>3. CASE PurgeFails \/ Crash
  BY <1>0, <1>3 DEF PurgeFails, Crash, PurgeInv, PurgedPast, Younger, Fewer
<1>4. ASSUME NEW S \in SUBSET Events, DeleteBatch(S) PROVE PurgeInv'
  <2>1. /\ purging /\ S \subseteq Old /\ UNCHANGED now
        /\ rows' = [e \in DOMAIN rows \ S |-> rows[e]]
        /\ GoesOn
    BY <1>4 DEF DeleteBatch, Delete
  <2>2. IsFiniteSet(Old) /\ IsFiniteSet(S)
    BY <1>0, <2>1, FS_Subset DEF Old
  <2>3. CASE purging'
    <3>1. Cardinality(S) = PurgeBatch /\ UNCHANGED <<cutoff, purged>>
          /\ left' = left - PurgeBatch
      BY <1>4, <2>1, <2>3 DEF DeleteBatch, GoesOn
    <3>2. Old' = Old \ S
      BY <2>1, <3>1 DEF Old
    <3>3. Cardinality(Old \ S) = Cardinality(Old) - Cardinality(Old \cap S)
          /\ Old \cap S = S /\ Cardinality(Old) \in Nat
      BY <2>1, <2>2, FS_Difference, FS_CardinalityType
    <3>4. MaxLag <= Retention => Cardinality(Old') <= left'
      <4>1. Cardinality(Old') = Cardinality(Old) - PurgeBatch
        BY <3>1, <3>2, <3>3
      <4>2. MaxLag <= Retention => Cardinality(Old) <= left
        BY <2>1 DEF PurgeInv, Fewer
      <4> QED
        BY <1>0, <3>1, <3>3, <4>1, <4>2
    <3>5. \A e \in DOMAIN rows' : rows'[e] = rows[e] /\ e \in DOMAIN rows
      BY <2>1
    <3> QED
      BY <2>1, <2>2, <2>3, <3>1, <3>4, <3>5 DEF PurgeInv, PurgedPast, Younger, Fewer
  <2>4. CASE ~purging'
    <3>1. S = Old /\ purged' = cutoff /\ left' = 0
      BY <1>4, <2>1, <2>4 DEF DeleteBatch, GoesOn
    <3>2. \A e \in DOMAIN rows' : rows'[e] >= cutoff
      BY <1>0, <2>1, <3>1 DEF Old
    <3>3. cutoff <= now - Retention
      BY <2>1 DEF IInv, CutoffPast
    <3> QED
      BY <2>1, <2>2, <2>4, <3>1, <3>2, <3>3 DEF PurgeInv, PurgedPast, Younger, Fewer
  <2> QED
    BY <2>3, <2>4
<1>5. ASSUME NEW h \in Handlers, Commit(h) PROVE PurgeInv'
  <2>1. UNCHANGED <<now, purging, cutoff, left, purged>>
    BY <1>5 DEF Commit, purge
  <2>2. DOMAIN rows' = DOMAIN rows \union staged
    BY <1>5 DEF Commit
  <2>3. ASSUME MaxLag <= Retention
        PROVE  /\ \A e \in DOMAIN rows' : rows'[e] >= purged
               /\ purging => Old' = Old
    <3>0. read[h] \in Nat
      BY AnalyticsAssumption DEF IInv, TypeOK, AnalyticsAssumption
    <3>1. /\ read[h] >= purged /\ (purging => read[h] >= cutoff)
          /\ \A e \in DOMAIN rows' : \/ e \in DOMAIN rows /\ rows'[e] = rows[e]
                                     \/ e \in staged /\ rows'[e] = read[h]
          /\ \A e \in DOMAIN rows : rows'[e] = rows[e]
      BY <1>5, <2>3, InsertsYoung DEF PurgeInv
    <3>2. \A e \in DOMAIN rows' : rows'[e] >= purged
      BY <2>3, <3>1 DEF PurgeInv, Younger
    <3>3. purging => Old' = Old
      BY <1>0, <2>1, <2>2, <3>0, <3>1 DEF Old
    <3> QED
      BY <3>2, <3>3
  <2> QED
    BY <2>1, <2>3 DEF PurgeInv, PurgedPast, Younger, Fewer
<1>6. CASE Tick \/ UNCHANGED vars
  BY <1>1, <1>6 DEF Tick, vars
<1>7. ASSUME NEW h \in Handlers, NEW valid \in Batches, Receive(h, valid)
      PROVE  PurgeInv'
  BY <1>1, <1>7 DEF Receive
<1>8. ASSUME NEW h \in Handlers, Begin(h) \/ Insert(h) \/ Fail(h) PROVE PurgeInv'
  BY <1>1, <1>8 DEF Begin, Insert, Fail
<1> QED
  BY <1>2, <1>3, <1>4, <1>5, <1>6, <1>7, <1>8 DEF Next

\* A purge that ended by itself left nothing older than its cutoff, and nothing
\* older comes after it; and it makes no more batches than the old rows it
\* began with fill, for any size of batch and any number of requests between
\* them (PurgeOlderThan).
THEOREM PurgeLeavesNothingOld == Spec => []PurgeIsComplete
<1>1. Init => PurgeInv
  BY DEF Init, PurgeInv, PurgedPast, Younger, Fewer
<1>2. IInv /\ PurgeInv /\ [Next]_vars => PurgeInv'
  BY PurgeInvStep
<1>3. IInv /\ PurgeInv => PurgeIsComplete
  <2> SUFFICES ASSUME IInv, PurgeInv, MaxLag <= Retention
               PROVE  (\A e \in DOMAIN rows : rows[e] >= purged) /\ left >= 0
    BY DEF PurgeIsComplete
  <2>1. IsFiniteSet(Old)
    BY FS_Subset, AnalyticsAssumption DEF IInv, TypeOK, Old, AnalyticsAssumption
  <2>2. Cardinality(Old) \in Nat /\ left \in Int
    BY <2>1, FS_CardinalityType DEF IInv, TypeOK
  <2> QED
    BY <2>2 DEF PurgeInv, Younger, Fewer
<1> QED
  BY <1>1, <1>2, <1>3, Invariant, PTL DEF Spec
=============================================================================
