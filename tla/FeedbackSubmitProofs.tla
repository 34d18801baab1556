------------------------ MODULE FeedbackSubmitProofs ------------------------
(***************************************************************************)
(* Proofs about FeedbackSubmit, for any number of handlers, ids, faults    *)
(* and tokens.                                                             *)
(*                                                                         *)
(* The bound on the records is not inductive: a handler may only add one   *)
(* because its reservation says that nobody's record is already there.     *)
(* ReservedMeansNone says so.                                              *)
(***************************************************************************)
EXTENDS FeedbackSubmit, TLAPS

\* Where there is no row, or somebody is submitting, every record Feishu has
\* is one whose answer was lost.
ReservedMeansNone ==
  \A i \in Ids : i \notin ledger \/ Owners(i) # {} => records[i] <= lost[i]

IInv == /\ TypeOK /\ OneOwner /\ ReservedMeansNone /\ RecordsBounded
        /\ RowMeansRecord /\ FalseAckExplained

LEMMA InitHolds == Init => IInv
  <1> SUFFICES ASSUME Init PROVE IInv
    OBVIOUS
  <1> USE DEF Init
  <1>1. TypeOK
    BY FeedbackAssumption DEF TypeOK, Places, NoToken, FeedbackAssumption
  <1>2. OneOwner
    BY DEF OneOwner
  <1>3. ReservedMeansNone /\ RecordsBounded /\ RowMeansRecord /\ FalseAckExplained
    BY DEF ReservedMeansNone, RecordsBounded, RowMeansRecord, FalseAckExplained
  <1> QED BY <1>1, <1>2, <1>3 DEF IInv

\* The steps inside Submit that move one owner on and touch no row, record or
\* history keep everything that is about them.
LEMMA MovingOn ==
  ASSUME IInv, NEW h \in Handlers, NEW p \in Places \ {"idle"},
         pc[h] # "idle", Goto(h, p), TypeOK',
         UNCHANGED <<ledger, id, records, lost, hasty, orphans, acked>>
  PROVE  IInv'
  <1>1. \A g \in Handlers : pc'[g] # "idle" <=> pc[g] # "idle"
    BY DEF IInv, TypeOK, Goto
  <1>2. \A i \in Ids : Owners(i)' = Owners(i)
    BY <1>1 DEF Owners
  <1>3. OneOwner'
    BY <1>1 DEF IInv, OneOwner
  <1>4. ReservedMeansNone' /\ RecordsBounded' /\ RowMeansRecord' /\ FalseAckExplained'
    BY <1>2 DEF IInv, TypeOK, ReservedMeansNone, RecordsBounded, RowMeansRecord,
                FalseAckExplained
  <1> QED BY <1>3, <1>4 DEF IInv

LEMMA ReserveKeeps ==
  ASSUME IInv, NEW h \in Handlers, NEW i \in Ids, Reserve(h, i)
  PROVE  IInv'
  <1> USE DEF Reserve, Goto
  <1>1. TypeOK'
    BY DEF IInv, TypeOK, Places, token
  <1>2. \A g \in Handlers : /\ g # h => pc'[g] = pc[g] /\ id'[g] = id[g]
                            /\ g = h => pc'[g] = "token" /\ id'[g] = i
    BY DEF IInv, TypeOK
  <1>3. \A g \in Handlers : pc[g] # "idle" => id[g] # i
    BY DEF IInv, OneOwner
  <1>4. OneOwner'
    BY <1>2, <1>3 DEF IInv, OneOwner
  <1>5. /\ \A j \in Ids \ {i} : Owners(j)' = Owners(j)
        /\ h \in Owners(i)'
    BY <1>2, <1>3 DEF Owners, IInv
  <1>6. ReservedMeansNone' /\ RecordsBounded'
    BY <1>5 DEF IInv, ReservedMeansNone, RecordsBounded
  <1>7. RowMeansRecord' /\ FalseAckExplained'
    BY <1>5 DEF IInv, TypeOK, RowMeansRecord, FalseAckExplained
  <1> QED BY <1>1, <1>4, <1>6, <1>7 DEF IInv

LEMMA DuplicateKeeps ==
  ASSUME IInv, NEW h \in Handlers, NEW i \in Ids, Duplicate(h, i)
  PROVE  IInv'
  <1> USE DEF Duplicate, disk
  <1>1. TypeOK'
    BY DEF IInv, TypeOK, token
  <1>2. \A j \in Ids : Owners(j)' = Owners(j)
    BY DEF Owners
  <1>3. OneOwner' /\ ReservedMeansNone' /\ RecordsBounded' /\ RowMeansRecord'
    BY <1>2 DEF IInv, TypeOK, OneOwner, ReservedMeansNone, RecordsBounded, RowMeansRecord
  <1>4. FalseAckExplained'
    BY DEF IInv, RowMeansRecord, FalseAckExplained
  <1> QED BY <1>1, <1>3, <1>4 DEF IInv

\* An owner returns: nobody is left for its id, everybody else stays.
LEMMA OwnerLeaves ==
  ASSUME IInv, NEW h \in Handlers, pc[h] # "idle", Goto(h, "idle"), id' = id
  PROVE  /\ id[h] \in Ids /\ id[h] \in ledger
         /\ \A g \in Handlers : pc'[g] # "idle" => pc[g] # "idle" /\ g # h /\ id[g] # id[h]
         /\ Owners(id[h])' = {} /\ h \in Owners(id[h])
         /\ \A j \in Ids \ {id[h]} : Owners(j)' = Owners(j)
  <1>1. id[h] \in Ids /\ id[h] \in ledger
    BY DEF IInv, TypeOK, OneOwner
  <1>2. \A g \in Handlers : /\ g # h => pc'[g] = pc[g]
                            /\ g = h => pc'[g] = "idle"
    BY DEF IInv, TypeOK, Goto
  <1>3. \A g \in Handlers : pc[g] # "idle" /\ id[g] = id[h] => g = h
    BY DEF IInv, OneOwner
  <1> QED BY <1>1, <1>2, <1>3 DEF Owners

LEMMA PostSucceedsKeeps ==
  ASSUME IInv, NEW h \in Handlers, PostSucceeds(h) PROVE IInv'
  <1> DEFINE i == id[h]
  <1> USE DEF PostSucceeds, Record, disk
  <1>1. TypeOK'
    BY DEF IInv, TypeOK, token, Goto, Places
  <1>2. /\ i \in Ids /\ i \in ledger /\ h \in Owners(i) /\ Owners(i)' = {}
        /\ \A g \in Handlers : pc'[g] # "idle" => pc[g] # "idle"
        /\ \A j \in Ids \ {i} : Owners(j)' = Owners(j)
    BY OwnerLeaves
  <1>3. /\ records[i] \in Nat /\ lost[i] \in Nat /\ records[i] <= lost[i]
        /\ records'[i] = records[i] + 1
        /\ \A j \in Ids \ {i} : records'[j] = records[j]
    BY <1>2 DEF IInv, TypeOK, ReservedMeansNone
  <1>4. OneOwner'
    BY <1>2 DEF IInv, OneOwner
  <1>5. ReservedMeansNone' /\ RecordsBounded'
    BY <1>2, <1>3 DEF IInv, ReservedMeansNone, RecordsBounded
  <1>6. RowMeansRecord' /\ FalseAckExplained'
    BY <1>2, <1>3 DEF IInv, TypeOK, RowMeansRecord, FalseAckExplained
  <1> QED BY <1>1, <1>4, <1>5, <1>6 DEF IInv

LEMMA AnswerLostKeeps ==
  ASSUME IInv, NEW h \in Handlers, AnswerLost(h) PROVE IInv'
  <1> DEFINE i == id[h]
  <1> USE DEF AnswerLost, Record, disk
  <1>1. TypeOK'
    BY FeedbackAssumption DEF IInv, TypeOK, token, Goto, Places, Fault, FeedbackAssumption
  <1>2. \A g \in Handlers : pc'[g] # "idle" <=> pc[g] # "idle"
    BY DEF IInv, TypeOK, Goto
  <1>3. \A j \in Ids : Owners(j)' = Owners(j)
    BY <1>2 DEF Owners
  <1>4. /\ i \in Ids /\ h \in Owners(i)
        /\ records[i] \in Nat /\ lost[i] \in Nat /\ records[i] <= lost[i]
        /\ records'[i] = records[i] + 1 /\ lost'[i] = lost[i] + 1
        /\ \A j \in Ids \ {i} : records'[j] = records[j] /\ lost'[j] = lost[j]
    BY DEF IInv, TypeOK, ReservedMeansNone, Owners
  <1>5. OneOwner'
    BY <1>2 DEF IInv, OneOwner
  <1>6. ReservedMeansNone' /\ RecordsBounded'
    BY <1>3, <1>4 DEF IInv, ReservedMeansNone, RecordsBounded
  <1>7. RowMeansRecord' /\ FalseAckExplained'
    BY <1>3, <1>4 DEF IInv, TypeOK, RowMeansRecord, FalseAckExplained
  <1> QED BY <1>1, <1>5, <1>6, <1>7 DEF IInv

LEMMA UndoKeeps ==
  ASSUME IInv, NEW h \in Handlers, Undo(h) PROVE IInv'
  <1> USE DEF Undo
  <1>1. TypeOK'
    BY DEF IInv, TypeOK, token, Goto, Places
  <1>2. /\ id[h] \in Ids /\ h \in Owners(id[h])
        /\ \A g \in Handlers : pc'[g] # "idle" => pc[g] # "idle" /\ id[g] # id[h]
        /\ \A j \in Ids \ {id[h]} : Owners(j)' = Owners(j)
    BY OwnerLeaves
  <1>3. OneOwner'
    BY <1>2 DEF IInv, OneOwner
  <1>4. ReservedMeansNone' /\ RecordsBounded'
    BY <1>2 DEF IInv, ReservedMeansNone, RecordsBounded
  <1>5. RowMeansRecord' /\ FalseAckExplained'
    BY <1>2 DEF IInv, TypeOK, RowMeansRecord, FalseAckExplained
  <1> QED BY <1>1, <1>3, <1>4, <1>5 DEF IInv

LEMMA UndoFailsKeeps ==
  ASSUME IInv, NEW h \in Handlers, UndoFails(h) PROVE IInv'
  <1> USE DEF UndoFails, disk
  <1>1. TypeOK'
    BY FeedbackAssumption DEF IInv, TypeOK, token, Goto, Places, Fault, FeedbackAssumption
  <1>2. /\ id[h] \in Ids /\ id[h] \in ledger /\ Owners(id[h])' = {}
        /\ \A g \in Handlers : pc'[g] # "idle" => pc[g] # "idle"
        /\ \A j \in Ids \ {id[h]} : Owners(j)' = Owners(j)
    BY OwnerLeaves
  <1>3. OneOwner'
    BY <1>2 DEF IInv, OneOwner
  <1>4. ReservedMeansNone' /\ RecordsBounded'
    BY <1>2 DEF IInv, ReservedMeansNone, RecordsBounded
  <1>5. RowMeansRecord' /\ FalseAckExplained'
    BY <1>2 DEF IInv, TypeOK, RowMeansRecord, FalseAckExplained
  <1> QED BY <1>1, <1>3, <1>4, <1>5 DEF IInv

LEMMA CrashKeeps == ASSUME IInv, Crash PROVE IInv'
  <1> USE DEF Crash, disk
  <1>1. TypeOK'
    BY FeedbackAssumption
       DEF IInv, TypeOK, Places, Fault, FeedbackAssumption, NoToken
  <1>2. \A j \in Ids : Owners(j)' = {}
    BY DEF Owners
  <1>3. OneOwner'
    BY DEF OneOwner
  <1>4. ReservedMeansNone' /\ RecordsBounded'
    BY <1>2 DEF IInv, ReservedMeansNone, RecordsBounded
  <1>5. RowMeansRecord' /\ FalseAckExplained'
    BY <1>2 DEF IInv, TypeOK, RowMeansRecord, FalseAckExplained
  <1> QED BY <1>1, <1>3, <1>4, <1>5 DEF IInv

\* The rows a power loss takes away count as lost, those it brings back as
\* orphaned, and nobody is left to submit.
LEMMA PowerLossKeeps == ASSUME IInv, PowerLoss PROVE IInv'
  <1> USE DEF PowerLoss
  <1>1. TypeOK'
    BY FeedbackAssumption
       DEF IInv, TypeOK, Places, Fault, FeedbackAssumption, NoToken
  <1>2. \A j \in Ids : Owners(j)' = {}
    BY DEF Owners
  <1>3. OneOwner'
    BY DEF OneOwner
  <1>4. \A j \in Ids : /\ records'[j] = records[j] /\ records[j] \in Nat
                        /\ lost[j] \in Nat
                        /\ lost'[j] = IF j \in ledger \ durable
                                      THEN lost[j] + 1 ELSE lost[j]
    BY DEF IInv, TypeOK
  <1>5. ReservedMeansNone' /\ RecordsBounded'
    BY <1>2, <1>4 DEF IInv, ReservedMeansNone, RecordsBounded
  <1>6. RowMeansRecord' /\ FalseAckExplained'
    BY <1>2 DEF IInv, TypeOK, RowMeansRecord, FalseAckExplained
  <1> QED BY <1>1, <1>3, <1>5, <1>6 DEF IInv

\* The steps about the token, and a failure, move an owner on.
LEMMA TokenStepsKeep ==
  ASSUME IInv, NEW h \in Handlers,
         UseToken(h) \/ NeedToken(h) \/ FetchToken(h) \/ StoreToken(h) \/ SubmitFails(h)
  PROVE  IInv'
  <1>1. TypeOK'
    <2> USE FeedbackAssumption DEF IInv, TypeOK, Goto, Places, NoToken, FeedbackAssumption
    <2>1. CASE UseToken(h)
      BY <2>1 DEF UseToken, disk
    <2>2. CASE NeedToken(h)
      BY <2>2 DEF NeedToken, token, disk
    <2>3. CASE FetchToken(h)
      BY <2>3 DEF FetchToken, disk
    <2>4. CASE StoreToken(h)
      BY <2>4 DEF StoreToken, disk
    <2>5. CASE SubmitFails(h)
      BY <2>5 DEF SubmitFails, token, disk
    <2> QED BY <2>1, <2>2, <2>3, <2>4, <2>5
  <1>2. /\ pc[h] # "idle"
        /\ \E p \in Places \ {"idle"} : Goto(h, p)
        /\ UNCHANGED <<ledger, id, records, lost, hasty, orphans, acked>>
    BY DEF UseToken, NeedToken, FetchToken, StoreToken, SubmitFails, Places, disk
  <1> QED BY <1>1, <1>2, MovingOn

\* What nobody in Submit sees: the token expires or rotates, the disk catches
\* up, or nothing moves.
LEMMA OutsideKeeps ==
  ASSUME IInv, TokenExpires \/ TokenRotates \/ Sync \/ UNCHANGED vars
  PROVE  IInv'
  <1>1. /\ UNCHANGED <<ledger, pc, id, records, lost, hasty, orphans, acked>>
        /\ TypeOK'
    <2> USE FeedbackAssumption DEF IInv, TypeOK, NoToken, FeedbackAssumption
    <2>1. CASE TokenExpires
      BY <2>1 DEF TokenExpires, disk
    <2>2. CASE TokenRotates
      BY <2>2 DEF TokenRotates, disk
    <2>3. CASE Sync
      BY <2>3 DEF Sync, token
    <2>4. CASE UNCHANGED vars
      BY <2>4 DEF vars
    <2> QED BY <2>1, <2>2, <2>3, <2>4
  <1>2. \A j \in Ids : Owners(j)' = Owners(j)
    BY <1>1 DEF Owners
  <1> QED BY <1>1, <1>2
          DEF IInv, TypeOK, OneOwner, ReservedMeansNone, RecordsBounded,
              RowMeansRecord, FalseAckExplained

THEOREM Invariant == Spec => []IInv
  <1>1. IInv /\ [Next]_vars => IInv'
    BY ReserveKeeps, DuplicateKeeps, TokenStepsKeep, PostSucceedsKeeps,
       AnswerLostKeeps, UndoKeeps, UndoFailsKeeps, CrashKeeps,
       PowerLossKeeps, OutsideKeeps
       DEF Next, Advance
  <1> QED BY InitHolds, <1>1, PTL DEF Spec

\* The variables keep their types, and a handler that posts holds a token.
THEOREM TypeCorrect == Spec => []TypeOK
  BY Invariant, PTL DEF IInv

\* The inserted row is a lock: one handler at a time submits an id, whatever
\* fails or crashes (Submit).
THEOREM ReservationExclusive == Spec => []OneOwner
  BY Invariant, PTL DEF IInv

\* For any interleaving of retries, failed DELETEs, expired tokens and
\* crashes, only a lost answer, or a row lost with the power, can make Feishu
\* hold one more record (Submit).
THEOREM RecordsAreBounded == Spec => []RecordsBounded
  BY Invariant, PTL DEF IInv

\* An acknowledgement without a record has one of the two known causes
\* (Submit's duplicate branch).
THEOREM AcksExplained == Spec => [](RowMeansRecord /\ FalseAckExplained)
  BY Invariant, PTL DEF IInv
=============================================================================
