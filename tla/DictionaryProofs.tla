-------------------------- MODULE DictionaryProofs --------------------------
(***************************************************************************)
(* That the full-text index is in step with the table in every state, that *)
(* a search therefore answers with exactly the words it means and counts   *)
(* what it answers, and that an import that completes leaves what its file *)
(* says, for any files, batch size and number of readers.                  *)
(***************************************************************************)
EXTENDS Dictionary, FunctionTheorems, FiniteSetTheorems,
        WellFoundedInduction, TLAPS

\* The code points a string can hold, and the strings.
Runes == (0..MaxRune) \ (SurrogateLow..SurrogateHigh)
\* What the configuration and the validation of the handlers ensure of the
\* spellings and the queries (httpapi/dict.go refuses invalid UTF-8).
WellFormedText ==
  /\ MaxRune \in Nat /\ SurrogateLow \in Nat /\ SurrogateHigh \in Nat
  /\ \A w \in Spellings : Lower[w] \in Seq(Runes)
  /\ \A q \in Queries : q \in Seq(Runes)
-----------------------------------------------------------------------------
(* Least and greatest elements, by well-founded induction. *)

LEMMA LeastElement ==
  ASSUME NEW S \in SUBSET Nat, S # {}
  PROVE  \E m \in S : \A n \in S : m <= n
<1> DEFINE R == OpToRel(<, Nat)
<1>1. \A a, b \in Nat : <<a, b>> \in R <=> a < b
  BY DEF OpToRel
<1>2. IsWellFoundedOn(R, Nat)
  BY NatLessThanWellFounded
<1> HIDE DEF R
<1>3. PICK m \in S : \A n \in S : <<n, m>> \notin R
  BY <1>2, WFMin
<1>4. ASSUME NEW n \in S PROVE m <= n
  <2>1. m \in Nat /\ n \in Nat /\ ~(n < m)
    BY <1>1, <1>3
  <2> QED
    BY <2>1
<1> QED
  BY <1>4

LEMMA GreatestElement ==
  ASSUME NEW N \in Nat, NEW S \in SUBSET (1..N), S # {}
  PROVE  \E m \in S : \A n \in S : n <= m
<1> DEFINE T == {N - i : i \in S}
<1>1. T \in SUBSET Nat
  <2>1. ASSUME NEW i \in S PROVE N - i \in Nat
    <3>1. i \in 1..N
      OBVIOUS
    <3> QED
      BY <3>1
  <2> QED
    BY <2>1
<1>2. T # {}
  OBVIOUS
<1>3. PICK k \in T : \A n \in T : k <= n
  BY <1>1, <1>2, LeastElement
<1>4. PICK m \in S : k = N - m
  BY <1>3
<1>5. ASSUME NEW n \in S PROVE n <= m
  <2>1. k <= N - n
    BY <1>3
  <2>2. m \in 1..N /\ n \in 1..N
    OBVIOUS
  <2> QED
    BY <1>4, <2>1, <2>2
<1> QED
  BY <1>5
-----------------------------------------------------------------------------
(* The range of the words with a prefix. *)

LEMMA NextRuneIsNext ==
  ASSUME WellFormedText, NEW c \in Runes
  PROVE  /\ NextRune(c) \in Nat /\ c < NextRune(c)
         /\ \A d \in Runes : c < d => NextRune(c) <= d
BY DEF WellFormedText, Runes, NextRune

\* What PrefixUpperBound returns, where there is a code point to raise.
LEMMA UpperBoundShape ==
  ASSUME WellFormedText, NEW p \in Seq(Runes), Raisable(p) # {}
  PROVE  \E k \in 1..Len(p) :
           /\ NextRune(p[k]) <= MaxRune
           /\ \A i \in Raisable(p) : i <= k
           /\ Len(PrefixUpperBound(p)) = k
           /\ PrefixUpperBound(p)[k] = NextRune(p[k])
           /\ \A i \in 1..(k - 1) : PrefixUpperBound(p)[i] = p[i]
<1>1. Raisable(p) \in SUBSET (1..Len(p)) /\ Len(p) \in Nat
  BY DEF Raisable
<1>2. \E k \in Raisable(p) : \A i \in Raisable(p) : i <= k
  BY <1>1, GreatestElement
<1> DEFINE k == LastRaisable(p)
<1>3. k \in Raisable(p) /\ \A i \in Raisable(p) : i <= k
  BY <1>2 DEF LastRaisable
<1>4. PrefixUpperBound(p) = SubSeq(p, 1, k - 1) \o <<NextRune(p[k])>>
  BY DEF PrefixUpperBound
<1> HIDE DEF k
<1>5. k \in 1..Len(p) /\ NextRune(p[k]) <= MaxRune
  BY <1>3 DEF Raisable
<1>6. NextRune(p[k]) \in Nat
  <2>1. p[k] \in Runes
    BY <1>5
  <2> QED
    BY <2>1, NextRuneIsNext
<1> DEFINE head == SubSeq(p, 1, k - 1)
<1>7. /\ head \in Seq(Runes) /\ Len(head) = k - 1
      /\ \A i \in 1..(k - 1) : head[i] = p[i]
  BY <1>5
<1> HIDE DEF head
<1>8. /\ Len(head \o <<NextRune(p[k])>>) = k
      /\ (head \o <<NextRune(p[k])>>)[k] = NextRune(p[k])
      /\ \A i \in 1..(k - 1) : (head \o <<NextRune(p[k])>>)[i] = p[i]
  BY <1>5, <1>6, <1>7
<1> QED
  BY <1>3, <1>4, <1>5, <1>8 DEF head

\* The words between a prefix and its upper bound are exactly those that
\* start with it: PrefixUpperBound (word_repo.go) never leaves out a word nor
\* lets in another, carry, surrogate gap and missing bound included.
THEOREM PrefixRangeExact ==
  ASSUME WellFormedText, NEW p \in Seq(Runes), NEW l \in Seq(Runes)
  PROVE  PrefixRange(p, l) <=> StartsWith(l, p)
<1>0. /\ Len(p) \in Nat /\ Len(l) \in Nat
      /\ \A i \in 1..Len(p) : p[i] \in Runes /\ p[i] \in Nat
      /\ \A i \in 1..Len(l) : l[i] \in Runes /\ l[i] \in Nat
  <2>1. Runes \subseteq Nat
    BY DEF Runes
  <2>2. \A i \in 1..Len(p) : p[i] \in Runes
    OBVIOUS
  <2>3. \A i \in 1..Len(l) : l[i] \in Runes
    OBVIOUS
  <2>4. Len(p) \in Nat /\ Len(l) \in Nat
    OBVIOUS
  <2> HIDE DEF Runes
  <2> QED
    BY <2>1, <2>2, <2>3, <2>4, Zenon
<1>1. ASSUME StartsWith(l, p) PROVE PrefixRange(p, l)
  <2>1. ~Precedes(l, p)
    <3>1. \A i \in 1..Len(p) : i <= Len(l) /\ l[i] = p[i] /\ p[i] \in Nat
      BY <1>0, <1>1 DEF StartsWith
    <3> QED
      BY <1>0, <3>1 DEF Precedes
  <2>2. ASSUME Raisable(p) # {} PROVE Precedes(l, PrefixUpperBound(p))
    <3>1. PICK k \in 1..Len(p) :
            /\ Len(PrefixUpperBound(p)) = k
            /\ PrefixUpperBound(p)[k] = NextRune(p[k])
            /\ \A i \in 1..(k - 1) : PrefixUpperBound(p)[i] = p[i]
      BY <2>2, UpperBoundShape
    <3>2. p[k] \in Runes /\ l[k] = p[k] /\ k <= Len(l)
      BY <1>0, <1>1 DEF StartsWith
    <3>3. l[k] < PrefixUpperBound(p)[k]
      BY <3>1, <3>2, NextRuneIsNext
    <3>4. \A i \in 1..(k - 1) : l[i] = PrefixUpperBound(p)[i]
      BY <1>0, <1>1, <3>1 DEF StartsWith
    <3>5. k \in 1..Len(PrefixUpperBound(p)) /\ k <= Len(l) + 1
      BY <1>0, <3>1, <3>2
    <3> QED
      BY <3>3, <3>4, <3>5 DEF Precedes
  <2> QED
    BY <2>1, <2>2 DEF PrefixRange
<1>2. ASSUME PrefixRange(p, l), ~StartsWith(l, p) PROVE FALSE
  <2> DEFINE Bad == {i \in 1..Len(p) : i > Len(l) \/ l[i] # p[i]}
  <2>0. Bad \in SUBSET Nat
    BY <1>0
  <2>1. Bad # {}
    <3>1. ASSUME Bad = {} PROVE StartsWith(l, p)
      <4>1. \A i \in 1..Len(p) : i <= Len(l) /\ l[i] = p[i]
        BY <1>0, <3>1
      <4> QED
        BY <1>0, <4>1 DEF StartsWith
    <3> QED
      BY <1>2, <3>1
  <2> HIDE DEF Bad
  <2>2. PICK i \in Bad : \A j \in Bad : i <= j
    BY <2>0, <2>1, LeastElement
  <2>3. i \in 1..Len(p) /\ \A j \in 1..(i - 1) : j <= Len(l) /\ l[j] = p[j]
    <3>1. i \in 1..Len(p)
      BY DEF Bad
    <3>2. ASSUME NEW j \in 1..(i - 1) PROVE j \notin Bad /\ j \in 1..Len(p)
      BY <1>0, <2>2, <3>1
    <3> QED
      BY <1>0, <3>1, <3>2 DEF Bad
  <2>4. i <= Len(l) + 1
    <3>1. CASE i = 1
      BY <1>0, <3>1
    <3>2. CASE i > 1
      <4>1. i - 1 <= Len(l)
        BY <1>0, <2>3, <3>2
      <4> QED
        BY <1>0, <2>3, <4>1
    <3> QED
      BY <2>3, <3>1, <3>2
  <2>5. ~(i > Len(l) \/ l[i] < p[i])
    BY <1>2, <2>3, <2>4 DEF PrefixRange, Precedes
  <2>6. p[i] \in Runes /\ l[i] \in Runes /\ p[i] < l[i]
    <3>1. p[i] \in Runes /\ (i <= Len(l) => l[i] \in Runes)
      BY <1>0, <2>3
    <3>2. i <= Len(l)
      BY <1>0, <2>3, <2>5
    <3>3. l[i] # p[i]
      BY <1>0, <2>3, <3>2 DEF Bad
    <3> QED
      <4>1. p[i] \in Nat /\ l[i] \in Nat /\ ~(l[i] < p[i])
        BY <1>0, <2>3, <2>5, <3>2
      <4> QED
        BY <3>1, <3>2, <3>3, <4>1
  <2>7. NextRune(p[i]) <= l[i] /\ NextRune(p[i]) \in Nat
    BY <2>6, NextRuneIsNext
  <2>8. i \in Raisable(p)
    BY <2>3, <2>6, <2>7 DEF Raisable, WellFormedText, Runes
  <2>9. PICK k \in 1..Len(p) :
            /\ \A n \in Raisable(p) : n <= k
            /\ Len(PrefixUpperBound(p)) = k
            /\ PrefixUpperBound(p)[k] = NextRune(p[k])
            /\ \A n \in 1..(k - 1) : PrefixUpperBound(p)[n] = p[n]
    BY <2>8, UpperBoundShape
  <2>10. PICK j \in 1..k : /\ \A n \in 1..(j - 1) : l[n] = PrefixUpperBound(p)[n]
                           /\ j > Len(l) \/ l[j] < PrefixUpperBound(p)[j]
    BY <1>2, <2>8, <2>9 DEF PrefixRange, Precedes
  <2>11. i <= k
    BY <2>8, <2>9
  <2>12. CASE j < i
    <3>1. j <= Len(l) /\ l[j] = p[j] /\ PrefixUpperBound(p)[j] = p[j]
      BY <1>0, <2>3, <2>9, <2>11, <2>12
    <3>2. p[j] \in Nat
      BY <1>0, <2>9
    <3> QED
      BY <2>10, <3>1, <3>2
  <2>13. CASE j = i /\ i < k
    BY <1>0, <2>5, <2>6, <2>9, <2>10, <2>13
  <2>14. CASE j = i /\ i = k
    <3>1. l[i] \in Nat /\ i <= Len(l)
      BY <1>0, <2>3, <2>5
    <3>2. l[i] < NextRune(p[i])
      BY <2>9, <2>10, <2>14, <3>1
    <3> QED
      BY <2>7, <3>1, <3>2
  <2>15. CASE i < j
    <3>1. l[i] = p[i]
      BY <2>3, <2>9, <2>10, <2>15
    <3>2. p[i] \in Nat
      BY <1>0, <2>3
    <3> QED
      BY <2>6, <3>1, <3>2
  <2> QED
    BY <2>3, <2>11, <2>12, <2>13, <2>14, <2>15
<1> QED
  BY <1>1, <1>2
-----------------------------------------------------------------------------
(* The invariant. *)

WordRows == {r \in CsvRows : r.word # Blank}
BatchTyped == file \in Seq(CsvRows) /\ batch \in Seq(WordRows)

IsSearch(s) ==
  /\ s = [at |-> s.at, mode |-> s.mode, q |-> s.q, total |-> s.total, found |-> s.found]
  /\ s.at \in {"counted", "answered"} /\ s.mode \in Modes /\ s.q \in Queries
SearchTyped == /\ DOMAIN search = Readers
               /\ \A r \in Readers : search[r] = NoSearch \/ IsSearch(search[r])

Table(d) == Sound(d) /\ InStep(d)
\* A transaction drops no word: no search loses what it has found.
NoWordLost == DOMAIN db.rows \subseteq DOMAIN view.rows
IInv == TypeOK /\ IndexInStep /\ BatchTyped /\ SearchTyped /\ NoWordLost

\* An upsert keeps the words and ids unique and the index in step.
LEMMA UpsertedKeepsTable ==
  ASSUME NEW d, Table(d), NEW r \in WordRows
  PROVE  /\ Table(Upserted(d, r))
         /\ DOMAIN d.rows \subseteq DOMAIN Upserted(d, r).rows
<1> DEFINE l   == Lower[r.word]
           had == l \in DOMAIN d.rows
           row == Row(IF had THEN d.rows[l].id ELSE d.next, r)
           e   == Upserted(d, r)
<1>1. /\ e.rows = [k \in DOMAIN d.rows \union {l} |-> IF k = l THEN row ELSE d.rows[k]]
      /\ e.fts = (d.fts \ (IF had THEN {Posting(d.rows[l])} ELSE {})) \union {Posting(row)}
      /\ e.next = (IF had THEN d.next ELSE d.next + 1)
  BY DEF Upserted
<1>2. /\ r.word \in Spellings
      /\ r.definition \in Texts /\ r.translation \in Texts
  BY DEF WordRows, CsvRows
<1>3. /\ d.next \in Nat /\ d.fts \subseteq Entries
      /\ \A k \in DOMAIN d.rows : /\ d.rows[k] \in Entries /\ Lower[d.rows[k].word] = k
                                  /\ d.rows[k].id < d.next
      /\ \A k, m \in DOMAIN d.rows : d.rows[k].id = d.rows[m].id => k = m
      /\ DOMAIN d.rows \subseteq {Lower[w] : w \in Spellings}
      /\ d.fts = {Posting(d.rows[k]) : k \in DOMAIN d.rows}
  BY DEF Table, Sound, InStep
<1>4. /\ row \in Entries /\ row.word = r.word /\ Posting(row) = row
      /\ row.id = (IF had THEN d.rows[l].id ELSE d.next)
  BY <1>2, <1>3 DEF Row, Posting, Entries
<1>5. \A k \in DOMAIN d.rows : Posting(d.rows[k]) = d.rows[k] /\ d.rows[k].id \in Nat
  BY <1>3 DEF Posting, Row, Entries
<1> HIDE DEF row, e
<1>6. /\ DOMAIN e.rows = DOMAIN d.rows \union {l} /\ e.rows[l] = row
      /\ \A k \in DOMAIN d.rows : k # l => e.rows[k] = d.rows[k]
  BY <1>1
<1>7. e.next \in Nat /\ d.next <= e.next /\ row.id < e.next
  BY <1>1, <1>3, <1>4
<1>8. DOMAIN e.rows \subseteq {Lower[w] : w \in Spellings}
  BY <1>2, <1>3, <1>6
<1>9. \A k \in DOMAIN e.rows : /\ e.rows[k] \in Entries /\ Lower[e.rows[k].word] = k
                               /\ e.rows[k].id < e.next
  BY <1>3, <1>4, <1>5, <1>6, <1>7
<1>10. \A k \in DOMAIN d.rows : k # l => d.rows[k].id # row.id
  BY <1>3, <1>4, <1>5
<1>11. \A k, m \in DOMAIN e.rows : e.rows[k].id = e.rows[m].id => k = m
  BY <1>3, <1>6, <1>10
<1>12. e.fts = {e.rows[k] : k \in DOMAIN e.rows}
  <2>1. d.fts = {d.rows[k] : k \in DOMAIN d.rows}
    BY <1>3, <1>5
  <2>2. CASE had
    <3>1. e.fts = (d.fts \ {d.rows[l]}) \union {row}
      BY <1>1, <1>4, <1>5, <2>2
    <3>2. \A k \in DOMAIN d.rows : k # l => d.rows[k] # d.rows[l]
      BY <1>3, <2>2
    <3> QED
      BY <1>6, <2>1, <2>2, <3>1, <3>2
  <2>3. CASE ~had
    <3>1. e.fts = d.fts \union {row}
      BY <1>1, <1>4, <2>3
    <3> QED
      BY <1>6, <2>1, <2>3, <3>1
  <2> QED
    BY <2>2, <2>3
<1>13. \A k \in DOMAIN e.rows : Posting(e.rows[k]) = e.rows[k]
  BY <1>4, <1>5, <1>6
<1>14. e.fts = {Posting(e.rows[k]) : k \in DOMAIN e.rows} /\ e.fts \subseteq Entries
  BY <1>9, <1>12, <1>13
<1>15. Table(e) /\ DOMAIN d.rows \subseteq DOMAIN e.rows
  BY <1>6, <1>7, <1>8, <1>9, <1>11, <1>14 DEF Table, Sound, InStep
<1> QED
  BY <1>15 DEF e

LEMMA InitEstablishes == Init => IInv
<1> SUFFICES ASSUME Init PROVE IInv
  OBVIOUS
<1>1. db.rows = [l \in {} |-> 0] /\ db.fts = {} /\ db.next = 1 /\ view = db
  BY DEF Init
<1>2. DOMAIN db.rows = {}
  BY <1>1
<1>3. Sound(db) /\ InStep(db) /\ Sound(view) /\ InStep(view)
  BY <1>1, <1>2 DEF Sound, InStep
<1>4. torn \in [Readers -> BOOLEAN]
  <2>1. torn = [r \in Readers |-> FALSE]
    BY DEF Init
  <2> QED
    BY <2>1, Zenon
<1>5. BatchTyped /\ SearchTyped
  BY DEF Init, BatchTyped, SearchTyped
<1>6. /\ place = "idle" /\ file = <<>> /\ pos = 0 /\ batch = <<>>
      /\ \A r \in Readers : search[r] = NoSearch
  BY DEF Init
<1>7. NoWordLost
  BY <1>1 DEF NoWordLost
<1> QED
  BY <1>3, <1>4, <1>5, <1>6, <1>7, DictionaryAssumption DEF IInv, IndexInStep, TypeOK

\* A step of the importer; Exec and Commit are the ones that write.
LEMMA ImportKeepsInvariant == ASSUME IInv, Import PROVE IInv'
<1> USE DictionaryAssumption
<1>1. /\ Table(db) /\ Table(view) /\ BatchTyped /\ SearchTyped /\ NoWordLost /\ TypeOK
  BY DEF IInv, IndexInStep, TypeOK, Table
<1>2. /\ file \in Seq(CsvRows) /\ batch \in Seq(WordRows)
      /\ pos \in 0..Len(file) /\ Len(batch) <= BatchSize
  BY <1>1 DEF BatchTyped, TypeOK
<1>3. search' = search
  BY DEF Import, StartImport, ReadRow, BeginTx, Exec, Commit, Finish, Die
<1>4. torn' \in [Readers -> BOOLEAN]
  <2>1. CASE Commit
    <3>1. torn' = [r \in Readers |-> search[r].at = "counted" \/ torn[r]]
      BY <2>1 DEF Commit
    <3>2. \A r \in Readers : (search[r].at = "counted" \/ torn[r]) \in BOOLEAN
      BY Zenon
    <3> QED
      BY <3>1, <3>2, Zenon
  <2>2. CASE ~Commit
    <3>1. torn' = torn
      BY <2>2 DEF Import, StartImport, ReadRow, BeginTx, Exec, Finish, Die
    <3> QED
      BY <1>1, <3>1 DEF TypeOK
  <2> QED
    BY <2>1, <2>2
<1>5. /\ Table(db') /\ Table(view') /\ DOMAIN db.rows \subseteq DOMAIN db'.rows
      /\ DOMAIN db'.rows \subseteq DOMAIN view'.rows
  <2>1. CASE StartImport \/ ReadRow \/ Finish
    <3>1. db' = db /\ view' = view
      BY <2>1 DEF StartImport, ReadRow, Finish
    <3> QED
      BY <1>1, <3>1 DEF NoWordLost
  <2>2. CASE BeginTx \/ Die
    <3>1. db' = db /\ view' = db
      BY <2>2 DEF BeginTx, Die
    <3> QED
      BY <1>1, <3>1
  <2>3. CASE Exec
    <3>1. db' = db /\ view' = Upserted(view, Head(batch)) /\ batch # <<>>
      BY <2>3 DEF Exec
    <3>2. Head(batch) \in WordRows
      BY <1>2, <3>1
    <3>3. Table(view') /\ DOMAIN view.rows \subseteq DOMAIN view'.rows
      BY <1>1, <3>1, <3>2, UpsertedKeepsTable
    <3> QED
      BY <1>1, <3>1, <3>3 DEF NoWordLost
  <2>4. CASE Commit
    <3>1. db' = view /\ view' = view
      BY <2>4 DEF Commit
    <3> QED
      BY <1>1, <3>1 DEF NoWordLost
  <2> QED
    BY <2>1, <2>2, <2>3, <2>4 DEF Import
<1>6. /\ file' \in Seq(CsvRows) /\ batch' \in Seq(WordRows)
      /\ file' \in Files \union {<<>>} /\ pos' \in 0..Len(file')
      /\ Len(batch') <= BatchSize
  <2>1. file \in Files \union {<<>>}
    BY <1>1 DEF TypeOK
  <2>2. CASE StartImport
    BY <2>2 DEF StartImport
  <2>3. CASE ReadRow
    <3>1. /\ pos' = pos + 1 /\ file' = file /\ Len(batch) < BatchSize /\ pos < Len(file)
          /\ batch' = (IF file[pos'].word = Blank THEN batch ELSE Append(batch, file[pos']))
      BY <2>3 DEF ReadRow
    <3>2. pos' \in 1..Len(file) /\ file[pos'] \in CsvRows
      BY <1>2, <3>1
    <3>3. CASE file[pos'].word = Blank
      BY <1>2, <2>1, <3>1, <3>2, <3>3
    <3>4. CASE file[pos'].word # Blank
      <4>1. file[pos'] \in WordRows /\ batch' = Append(batch, file[pos'])
        BY <3>1, <3>2, <3>4 DEF WordRows
      <4>2. batch' \in Seq(WordRows) /\ Len(batch') = Len(batch) + 1
        BY <1>2, <4>1
      <4> QED
        BY <1>2, <2>1, <3>1, <3>2, <4>2
    <3> QED
      BY <3>3, <3>4
  <2>4. CASE Exec
    <3>1. batch # <<>> /\ batch' = Tail(batch) /\ UNCHANGED <<file, pos>>
      BY <2>4 DEF Exec
    <3>2. batch' \in Seq(WordRows) /\ Len(batch') = Len(batch) - 1
      BY <1>2, <3>1
    <3> QED
      BY <1>2, <2>1, <3>1, <3>2
  <2>5. CASE Die
    BY <1>2, <2>1, <2>5 DEF Die
  <2>6. CASE BeginTx \/ Commit \/ Finish
    BY <1>2, <2>1, <2>6 DEF BeginTx, Commit, Finish
  <2> QED
    BY <2>2, <2>3, <2>4, <2>5, <2>6 DEF Import
<1>7. place' \in {"idle", "reading", "writing"}
  BY <1>1 DEF Import, StartImport, ReadRow, BeginTx, Exec, Commit, Finish, Die, TypeOK
<1>8. \A i \in 1..Len(batch') : batch'[i].word # Blank
  <2>1. \A i \in 1..Len(batch') : batch'[i] \in WordRows
    BY <1>6
  <2> QED
    BY <2>1 DEF WordRows
<1>9. \A r \in Readers : search[r] # NoSearch =>
        /\ search[r].at \in {"counted", "answered"}
        /\ search[r].mode \in Modes /\ search[r].q \in Queries
        /\ search[r].found \subseteq DOMAIN db'.rows
  BY <1>1, <1>5 DEF TypeOK
<1>10. TypeOK'
  BY <1>3, <1>4, <1>5, <1>6, <1>7, <1>8, <1>9 DEF TypeOK, Table
<1> QED
  BY <1>1, <1>3, <1>5, <1>6, <1>10
     DEF IInv, IndexInStep, BatchTyped, SearchTyped, NoWordLost, Table

\* A step of a reader writes only its own search.
LEMMA ReadKeepsInvariant ==
  ASSUME IInv, NEW r \in Readers, Lookup(r) \/ Count(r) \/ Select(r) \/ Leave(r)
  PROVE  IInv'
<1>1. /\ UNCHANGED <<db, view, importer>>
      /\ TypeOK /\ IndexInStep /\ BatchTyped /\ SearchTyped /\ NoWordLost
  BY DEF IInv, Lookup, Count, Select, Leave
<1>2. /\ DOMAIN search' = Readers
      /\ \A s \in Readers : s # r => search'[s] = search[s]
      /\ \/ search'[r] = NoSearch
         \/ IsSearch(search'[r]) /\ search'[r].found \subseteq DOMAIN db.rows
  <2>1. CASE Lookup(r)
    <3>1. PICK mode \in {"get", "suggest"}, q \in Queries :
            search' = [search EXCEPT ![r] =
                         [at |-> "answered", mode |-> mode, q |-> q,
                          total |-> Cardinality(Selected(mode, q)),
                          found |-> Selected(mode, q)]]
      BY <2>1 DEF Lookup
    <3>2. Selected(mode, q) \subseteq DOMAIN db.rows
      BY DEF Selected
    <3> QED
      BY <1>1, <3>1, <3>2 DEF SearchTyped, IsSearch, Modes
  <2>2. CASE Count(r)
    <3>1. PICK mode \in {"prefix", "fuzzy"}, q \in Queries :
            search' = [search EXCEPT ![r] =
                         [at |-> "counted", mode |-> mode, q |-> q,
                          total |-> Total(mode, q), found |-> {}]]
      BY <2>2 DEF Count
    <3> QED
      BY <1>1, <3>1 DEF SearchTyped, IsSearch, Modes
  <2>3. CASE Select(r)
    <3>1. /\ search[r].at = "counted"
          /\ search' = [search EXCEPT ![r] =
               [search[r] EXCEPT !.at = "answered",
                                 !.found = Selected(search[r].mode, search[r].q)]]
      BY <2>3 DEF Select
    <3>2. IsSearch(search[r])
      BY <1>1, <3>1 DEF SearchTyped, NoSearch
    <3>3. search'[r] = [at |-> "answered", mode |-> search[r].mode, q |-> search[r].q,
                        total |-> search[r].total,
                        found |-> Selected(search[r].mode, search[r].q)]
      BY <1>1, <3>1, <3>2 DEF SearchTyped, IsSearch
    <3>4. Selected(search[r].mode, search[r].q) \subseteq DOMAIN db.rows
      BY DEF Selected
    <3> QED
      BY <1>1, <3>1, <3>2, <3>3, <3>4 DEF SearchTyped, IsSearch
  <2>4. CASE Leave(r)
    BY <1>1, <2>4 DEF Leave, SearchTyped
  <2> QED
    BY <2>1, <2>2, <2>3, <2>4
<1>3. torn' \in [Readers -> BOOLEAN]
  <2>1. CASE Leave(r)
    <3>1. torn' = [torn EXCEPT ![r] = FALSE]
      BY <2>1 DEF Leave
    <3>2. torn \in [Readers -> BOOLEAN]
      BY <1>1 DEF TypeOK
    <3> QED
      BY <3>1, <3>2, Zenon
  <2>2. CASE ~Leave(r)
    <3>1. torn' = torn
      BY <2>2 DEF Lookup, Count, Select
    <3> QED
      BY <1>1, <3>1 DEF TypeOK
  <2> QED
    BY <2>1, <2>2
<1>4. SearchTyped'
  BY <1>1, <1>2 DEF SearchTyped
<1>5. \A s \in Readers : search'[s] # NoSearch =>
        /\ search'[s].at \in {"counted", "answered"}
        /\ search'[s].mode \in Modes /\ search'[s].q \in Queries
        /\ search'[s].found \subseteq DOMAIN db.rows
  <2>1. ASSUME NEW s \in Readers, search'[s] # NoSearch, s # r
        PROVE  /\ search'[s].at \in {"counted", "answered"}
               /\ search'[s].mode \in Modes /\ search'[s].q \in Queries
               /\ search'[s].found \subseteq DOMAIN db.rows
    BY <1>1, <1>2, <2>1 DEF TypeOK
  <2> QED
    BY <1>2, <2>1 DEF IsSearch
<1>6. TypeOK'
  BY <1>1, <1>3, <1>5 DEF TypeOK, importer
<1> QED
  BY <1>1, <1>4, <1>6 DEF IInv, IndexInStep, InStep, BatchTyped, NoWordLost, importer

LEMMA StepKeepsInvariant == IInv /\ [Next]_vars => IInv'
<1>1. ASSUME IInv, UNCHANGED vars PROVE IInv'
  BY <1>1 DEF vars, importer, IInv, TypeOK, IndexInStep, InStep, BatchTyped, SearchTyped,
              NoWordLost, Sound
<1> QED
  BY <1>1, ImportKeepsInvariant, ReadKeepsInvariant DEF Next

\* The invariant the theorems below rest on: types, the index in step with the
\* table, rows with a word in the batch, and searches that keep their query.
THEOREM Invariant == Spec => []IInv
<1> QED
  BY InitEstablishes, StepKeepsInvariant, PTL DEF Spec

\* The tables, the importer and the searches keep their types: word_lower stays
\* unique, and no id is given twice, whatever upserts and crashes come.
THEOREM TypeCorrect == Spec => []TypeOK
<1>1. IInv => TypeOK
  BY DEF IInv
<1> QED
  BY <1>1, Invariant, PTL

\* The triggers keep words_fts in step with words, committed or in a
\* transaction: no posting outlives the text it was made from.
THEOREM IndexNeverStale == Spec => []IndexInStep
<1>1. IInv => IndexInStep
  BY DEF IInv
<1> QED
  BY <1>1, Invariant, PTL
-----------------------------------------------------------------------------
(* Searches. *)

\* What a statement selects through ranges and the index is what is meant.
LEMMA SelectedIsMeant ==
  ASSUME WellFormedText, IInv, NEW mode \in Modes, NEW q \in Queries
  PROVE  Selected(mode, q) = Meant(mode, q)
<1>1. \A l \in DOMAIN db.rows : l \in Seq(Runes) /\ Lower[db.rows[l].word] = l
  BY DEF IInv, TypeOK, Sound, WellFormedText
<1>2. q \in Seq(Runes)
  BY DEF WellFormedText
<1>3. \A l \in DOMAIN db.rows : PrefixRange(q, l) <=> StartsWith(l, q)
  BY <1>1, <1>2, PrefixRangeExact
<1>4. ASSUME NEW l \in DOMAIN db.rows
      PROVE  (\E p \in Hits(q) : p.id = db.rows[l].id) <=> Hit(Posting(db.rows[l]), q)
  <2>1. db.fts = {Posting(db.rows[k]) : k \in DOMAIN db.rows}
    BY DEF IInv, IndexInStep, InStep
  <2>2. \A k \in DOMAIN db.rows : Posting(db.rows[k]).id = db.rows[k].id
    BY DEF Posting, Row
  <2>3. \A k, m \in DOMAIN db.rows : db.rows[k].id = db.rows[m].id => k = m
    BY DEF IInv, TypeOK, Sound
  <2> QED
    BY <2>1, <2>2, <2>3 DEF Hits
<1>5. \A l \in DOMAIN db.rows : Hit(Posting(db.rows[l]), q) <=> Hit(db.rows[l], q)
  BY DEF Hit, Posting, Row
<1> QED
  BY <1>3, <1>4, <1>5 DEF Selected, Meant, Modes

\* Every search, of any mode, answers with exactly the words it means.
THEOREM SearchesExact == ASSUME WellFormedText PROVE Spec => SearchIsExact
<1>1. ASSUME IInv, [Next]_vars
      PROVE  [\A r \in Readers :
                search[r].at # "answered" /\ search'[r].at = "answered" =>
                  search'[r].found = Meant(search'[r].mode, search'[r].q)]_vars
  <2> SUFFICES ASSUME NEW s \in Readers, Next,
                      search[s].at # "answered", search'[s].at = "answered"
               PROVE  search'[s].found = Meant(search'[s].mode, search'[s].q)
    BY <1>1
  <2>1. DOMAIN search = Readers
    BY <1>1 DEF IInv, SearchTyped
  <2>2. CASE Import
    BY <2>2 DEF Import, StartImport, ReadRow, BeginTx, Exec, Commit, Finish, Die
  <2>3. ASSUME NEW r \in Readers, Lookup(r) PROVE search'[s].found = Meant(search'[s].mode, search'[s].q)
    <3>1. PICK mode \in {"get", "suggest"}, q \in Queries :
            search' = [search EXCEPT ![r] =
                         [at |-> "answered", mode |-> mode, q |-> q,
                          total |-> Cardinality(Selected(mode, q)),
                          found |-> Selected(mode, q)]]
      BY <2>3 DEF Lookup
    <3>2. s = r
      BY <2>1, <3>1
    <3>3. /\ search'[s].mode = mode /\ search'[s].q = q
          /\ search'[s].found = Selected(mode, q)
      BY <2>1, <3>1, <3>2
    <3>4. Selected(mode, q) = Meant(mode, q)
      BY <1>1, SelectedIsMeant DEF Modes
    <3> QED
      BY <3>3, <3>4
  <2>4. ASSUME NEW r \in Readers, Count(r) PROVE FALSE
    <3>1. search'[r].at = "counted" /\ \A t \in Readers : t # r => search'[t] = search[t]
      BY <2>1, <2>4 DEF Count
    <3> QED
      BY <3>1
  <2>5. ASSUME NEW r \in Readers, Select(r) PROVE search'[s].found = Meant(search'[s].mode, search'[s].q)
    <3>1. /\ search[r].at = "counted"
          /\ search' = [search EXCEPT ![r] =
               [search[r] EXCEPT !.at = "answered",
                                 !.found = Selected(search[r].mode, search[r].q)]]
      BY <2>5 DEF Select
    <3>2. IsSearch(search[r])
      BY <1>1, <3>1 DEF IInv, SearchTyped, NoSearch
    <3>3. s = r
      BY <2>1, <3>1
    <3>4. search'[s] = [at |-> "answered", mode |-> search[r].mode, q |-> search[r].q,
                        total |-> search[r].total,
                        found |-> Selected(search[r].mode, search[r].q)]
      BY <2>1, <3>1, <3>2, <3>3 DEF IsSearch
    <3>5. Selected(search[r].mode, search[r].q) = Meant(search[r].mode, search[r].q)
      BY <1>1, <3>2, SelectedIsMeant DEF IsSearch
    <3> QED
      BY <3>4, <3>5
  <2>6. ASSUME NEW r \in Readers, Leave(r) PROVE FALSE
    <3>1. search'[r] = NoSearch /\ \A t \in Readers : t # r => search'[t] = search[t]
      BY <2>1, <2>6 DEF Leave
    <3> QED
      BY <3>1 DEF NoSearch
  <2> QED
    BY <2>2, <2>3, <2>4, <2>5, <2>6 DEF Next
<1> QED
  BY <1>1, Invariant, PTL DEF Spec, SearchIsExact
-----------------------------------------------------------------------------
(* Totals. *)

FiniteTables == IsFiniteSet(DOMAIN db.rows) /\ IsFiniteSet(DOMAIN view.rows)

\* A count that no commit has overtaken is still the count.
Agrees ==
  \A r \in Readers : ~torn[r] =>
    /\ search[r].at = "counted" =>
         search[r].total = Total(search[r].mode, search[r].q)
    /\ search[r].at = "answered" =>
         search[r].total = Cardinality(search[r].found)

TotalInv == FiniteTables /\ Agrees

\* The index and the join behind it count the same: a posting for each row.
LEMMA TotalOfSelected ==
  ASSUME IInv, FiniteTables, NEW mode, NEW q
  PROVE  Total(mode, q) = Cardinality(Selected(mode, q))
<1>1. CASE mode # "fuzzy"
  BY <1>1 DEF Total
<1>2. CASE mode = "fuzzy"
  <2> DEFINE S == Selected("fuzzy", q)
             f == [l \in S |-> Posting(db.rows[l])]
  <2>1. /\ db.fts = {Posting(db.rows[k]) : k \in DOMAIN db.rows}
        /\ \A k \in DOMAIN db.rows : Posting(db.rows[k]).id = db.rows[k].id
        /\ \A k, m \in DOMAIN db.rows : db.rows[k].id = db.rows[m].id => k = m
    BY DEF IInv, IndexInStep, InStep, TypeOK, Sound, Posting, Row
  <2>2. S = {l \in DOMAIN db.rows : \E p \in Hits(q) : p.id = db.rows[l].id}
    BY DEF Selected
  <2>3. \A l \in DOMAIN db.rows : l \in S <=> Posting(db.rows[l]) \in Hits(q)
    BY <2>1, <2>2 DEF Hits
  <2>4. IsFiniteSet(S)
    BY <2>2, FS_Subset DEF FiniteTables
  <2>5. f \in [S -> Hits(q)] /\ \A l \in S : l \in DOMAIN db.rows
    BY <2>2, <2>3
  <2> HIDE DEF S
  <2>6. \A l, m \in S : l # m => f[l] # f[m]
    BY <2>1, <2>5
  <2>7. \A p \in Hits(q) : \E l \in S : f[l] = p
    BY <2>1, <2>3 DEF Hits
  <2>8. f \in Bijection(S, Hits(q))
    BY <2>5, <2>6, <2>7 DEF Bijection, Injection, Surjection, IsInjective
  <2>9. Cardinality(Hits(q)) = Cardinality(S)
    BY <2>4, <2>8, FS_Bijection DEF ExistsBijection
  <2> QED
    BY <1>2, <2>9 DEF Total, S
<1> QED
  BY <1>1, <1>2

LEMMA FiniteTablesStep == ASSUME FiniteTables, [Next]_vars PROVE FiniteTables'
<1>1. CASE UNCHANGED <<db, view>>
  BY <1>1 DEF FiniteTables
<1>2. CASE BeginTx \/ Commit \/ Die
  BY <1>2 DEF FiniteTables, BeginTx, Commit, Die
<1>3. CASE Exec
  <2>1. db' = db /\ view' = Upserted(view, Head(batch))
    BY <1>3 DEF Exec
  <2>2. \E l : DOMAIN view'.rows = DOMAIN view.rows \union {l}
    BY <2>1 DEF Upserted
  <2> QED
    BY <2>1, <2>2, FS_AddElement DEF FiniteTables
<1> QED
  BY <1>1, <1>2, <1>3
     DEF Next, Import, StartImport, ReadRow, Finish, Lookup, Count, Select, Leave, vars

LEMMA AgreesStep == ASSUME IInv, FiniteTables, Agrees, [Next]_vars PROVE Agrees'
<1>0. /\ DOMAIN search = Readers /\ torn \in [Readers -> BOOLEAN]
      /\ \A r \in Readers : search[r] = NoSearch \/ IsSearch(search[r])
      /\ NoSearch.at = "idle"
  BY DEF IInv, SearchTyped, TypeOK, NoSearch
<1>1. ASSUME UNCHANGED <<db, search, torn>> PROVE Agrees'
  BY <1>1 DEF Agrees, Total, Selected, Hits
<1>2. CASE Commit
  <2>1. search' = search /\ torn' = [r \in Readers |-> search[r].at = "counted" \/ torn[r]]
    BY <1>2 DEF Commit
  <2>2. ASSUME NEW r \in Readers, ~torn'[r] PROVE search[r].at # "counted" /\ ~torn[r]
    BY <2>1, <2>2, Zenon
  <2> QED
    BY <2>1, <2>2, Zenon DEF Agrees
<1>3. CASE Import /\ ~Commit
  BY <1>1, <1>3 DEF Import, StartImport, ReadRow, BeginTx, Exec, Finish, Die
<1>4. ASSUME NEW r \in Readers, UNCHANGED db,
             \A s \in Readers : s # r => search'[s] = search[s] /\ (torn'[s] <=> torn[s]),
             ~torn'[r] /\ search'[r].at = "counted" =>
               search'[r].total = Total(search'[r].mode, search'[r].q),
             ~torn'[r] /\ search'[r].at = "answered" =>
               search'[r].total = Cardinality(search'[r].found)
      PROVE  Agrees'
  <2>1. \A mode, q : Total(mode, q)' = Total(mode, q)
    BY <1>4 DEF Total, Selected, Hits
  <2>2. ASSUME NEW s \in Readers, ~torn'[s]
        PROVE  /\ search'[s].at = "counted" =>
                    search'[s].total = Total(search'[s].mode, search'[s].q)
               /\ search'[s].at = "answered" =>
                    search'[s].total = Cardinality(search'[s].found)
    <3>1. CASE s = r
      BY <1>4, <2>2, <3>1, Zenon
    <3>2. CASE s # r
      BY <1>4, <2>2, <3>2, Zenon DEF Agrees
    <3> QED
      BY <3>1, <3>2
  <2>3. ASSUME NEW s \in Readers
        PROVE  Total(search'[s].mode, search'[s].q) = Total(search[s].mode, search[s].q)'
    BY <1>4 DEF Total, Selected, Hits
  <2> QED
    BY <2>2, <2>3, Zenon DEF Agrees
<1>5. ASSUME NEW r \in Readers, Lookup(r) PROVE Agrees'
  <2>1. PICK mode \in {"get", "suggest"}, q \in Queries :
          search' = [search EXCEPT ![r] =
                       [at |-> "answered", mode |-> mode, q |-> q,
                        total |-> Cardinality(Selected(mode, q)),
                        found |-> Selected(mode, q)]]
    BY <1>5 DEF Lookup
  <2>2. UNCHANGED <<db, torn>>
    BY <1>5 DEF Lookup
  <2>3. /\ search'[r].at = "answered"
        /\ search'[r].total = Cardinality(search'[r].found)
        /\ \A s \in Readers : s # r => search'[s] = search[s]
    BY <1>0, <2>1
  <2> QED
    BY <1>4, <2>2, <2>3
<1>6. ASSUME NEW r \in Readers, Count(r) PROVE Agrees'
  <2>1. PICK mode \in {"prefix", "fuzzy"}, q \in Queries :
          search' = [search EXCEPT ![r] =
                       [at |-> "counted", mode |-> mode, q |-> q,
                        total |-> Total(mode, q), found |-> {}]]
    BY <1>6 DEF Count
  <2>2. UNCHANGED <<db, torn>>
    BY <1>6 DEF Count
  <2>3. /\ search'[r].at = "counted"
        /\ search'[r].total = Total(search'[r].mode, search'[r].q)
        /\ \A s \in Readers : s # r => search'[s] = search[s]
    BY <1>0, <2>1
  <2> QED
    BY <1>4, <2>2, <2>3
<1>7. ASSUME NEW r \in Readers, Select(r) PROVE Agrees'
  <2> DEFINE found == Selected(search[r].mode, search[r].q)
  <2>1. /\ search[r].at = "counted" /\ UNCHANGED <<db, torn>>
        /\ search' = [search EXCEPT ![r] =
             [search[r] EXCEPT !.at = "answered", !.found = found]]
    BY <1>7 DEF Select
  <2>2. IsSearch(search[r])
    BY <1>0, <2>1
  <2>3. search'[r] = [at |-> "answered", mode |-> search[r].mode, q |-> search[r].q,
                      total |-> search[r].total, found |-> found]
    BY <1>0, <2>1, <2>2 DEF IsSearch
  <2>4. ~torn[r] => search[r].total = Cardinality(found)
    BY <2>1, TotalOfSelected DEF Agrees
  <2> HIDE DEF found
  <2>5. /\ search'[r].at = "answered" /\ search'[r].total = search[r].total
        /\ search'[r].found = found
        /\ \A s \in Readers : s # r => search'[s] = search[s]
    BY <1>0, <2>1, <2>3
  <2> QED
    BY <1>4, <2>1, <2>4, <2>5
<1>8. ASSUME NEW r \in Readers, Leave(r) PROVE Agrees'
  <2>1. /\ search' = [search EXCEPT ![r] = NoSearch] /\ UNCHANGED db
        /\ torn' = [torn EXCEPT ![r] = FALSE]
    BY <1>8 DEF Leave
  <2>2. /\ search'[r].at = "idle"
        /\ \A s \in Readers : s # r => search'[s] = search[s] /\ torn'[s] = torn[s]
    BY <1>0, <2>1
  <2> QED
    BY <1>4, <2>1, <2>2
<1>9. CASE UNCHANGED vars
  BY <1>1, <1>9 DEF vars
<1> QED
  BY <1>2, <1>3, <1>5, <1>6, <1>7, <1>8, <1>9 DEF Next

\* The total of every answer is the number of words on its pages, unless a
\* commit came between its two statements; the index never counts otherwise
\* than the join selects.
THEOREM TotalsAgree == Spec => []TotalAgrees
<1>1. Init => TotalInv
  <2> SUFFICES ASSUME Init PROVE TotalInv
    OBVIOUS
  <2>1. DOMAIN db.rows = {} /\ DOMAIN view.rows = {}
    BY DEF Init
  <2>2. \A r \in Readers : search[r].at = "idle"
    BY DEF Init, NoSearch
  <2> QED
    BY <2>1, <2>2, FS_EmptySet DEF TotalInv, FiniteTables, Agrees
<1>2. IInv /\ TotalInv /\ [Next]_vars => TotalInv'
  BY FiniteTablesStep, AgreesStep DEF TotalInv
<1>3. TotalInv => TotalAgrees
  BY DEF TotalInv, Agrees, TotalAgrees
<1> QED
  BY <1>1, <1>2, <1>3, Invariant, PTL DEF Spec
-----------------------------------------------------------------------------
(* Imports. *)

\* The table the importer works on, and whether row i of the file is the last
\* one for its word among those read so far.
Working == IF place = "writing" THEN view ELSE db
LastSoFar(i) == \A j \in (i + 1)..pos :
                  file[j].word # Blank => Lower[file[j].word] # Lower[file[i].word]

\* It is the last one for its word in the batch, or it is in the table and the
\* batch has none for that word.
InBatch(i) == \E k \in 1..Len(batch) :
                /\ batch[k] = file[i]
                /\ \A m \in (k + 1)..Len(batch) :
                      Lower[batch[m].word] # Lower[file[i].word]
Written(d, i) == LET l == Lower[file[i].word]
                 IN  l \in DOMAIN d.rows /\ d.rows[l] = Row(d.rows[l].id, file[i])
InTable(i) == /\ \A k \in 1..Len(batch) : Lower[batch[k].word] # Lower[file[i].word]
              /\ Written(Working, i)

Progress == place # "idle" =>
              \A i \in 1..pos : file[i].word # Blank /\ LastSoFar(i) =>
                                  InBatch(i) \/ InTable(i)

\* Reading appends a row that is the last one for its word so far.
LEMMA ReadProgress == ASSUME IInv, Progress, ReadRow PROVE Progress'
<1> SUFFICES ASSUME NEW i \in 1..pos', file[i].word # Blank, LastSoFar(i)'
             PROVE  InBatch(i)' \/ InTable(i)'
  BY DEF Progress, ReadRow
<1>1. /\ pos' = pos + 1 /\ pos \in Nat /\ pos < Len(file)
      /\ UNCHANGED <<db, view, place, file>> /\ place = "reading"
      /\ batch \in Seq(WordRows) /\ file \in Seq(CsvRows) /\ Len(file) \in Nat
      /\ batch' = IF file[pos + 1].word = Blank THEN batch ELSE Append(batch, file[pos + 1])
  BY DEF ReadRow, IInv, TypeOK, BatchTyped
<1>2. i \in 1..(pos + 1) /\ Working' = Working
  BY <1>1 DEF Working
<1>3. CASE i <= pos
  <2>1. i \in 1..pos /\ LastSoFar(i)
    BY <1>1, <1>2, <1>3 DEF LastSoFar
  <2>2. InBatch(i) \/ InTable(i)
    BY <1>1, <2>1 DEF Progress
  <2>3. CASE file[pos + 1].word = Blank
    BY <1>1, <1>2, <2>2, <2>3 DEF InBatch, InTable, Written
  <2>4. CASE file[pos + 1].word # Blank
    <3>1. Lower[file[pos + 1].word] # Lower[file[i].word]
      <4>1. pos + 1 \in (i + 1)..(pos + 1)
        BY <1>1, <1>2, <1>3
      <4> QED
        BY <1>1, <2>4, <4>1 DEF LastSoFar
    <3>2. file[pos + 1] \in WordRows
      BY <1>1, <2>4 DEF WordRows
    <3>3. /\ Len(batch') = Len(batch) + 1 /\ Len(batch) \in Nat
          /\ batch'[Len(batch) + 1] = file[pos + 1]
          /\ \A k \in 1..Len(batch) : batch'[k] = batch[k]
      BY <1>1, <2>4, <3>2
    <3>4. CASE InBatch(i)
      <4>1. PICK k \in 1..Len(batch) :
              /\ batch[k] = file[i]
              /\ \A m \in (k + 1)..Len(batch) : Lower[batch[m].word] # Lower[file[i].word]
        BY <3>4 DEF InBatch
      <4>2. /\ k \in 1..Len(batch') /\ batch'[k] = file[i]
            /\ \A m \in (k + 1)..Len(batch') : Lower[batch'[m].word] # Lower[file[i].word]
        BY <3>1, <3>3, <4>1
      <4> QED
        BY <1>1, <4>2 DEF InBatch
    <3>5. CASE InTable(i)
      <4>1. \A k \in 1..Len(batch') : Lower[batch'[k].word] # Lower[file[i].word]
        BY <3>1, <3>3, <3>5 DEF InTable
      <4> QED
        BY <1>1, <1>2, <3>5, <4>1 DEF InTable, Written
    <3> QED
      BY <2>2, <3>4, <3>5
  <2> QED
    BY <2>3, <2>4
<1>4. CASE i = pos + 1
  <2>1. file[pos + 1] \in WordRows
    BY <1>1, <1>4 DEF WordRows
  <2>2. /\ Len(batch') = Len(batch) + 1 /\ Len(batch) \in Nat
        /\ batch'[Len(batch) + 1] = file[i]
    BY <1>1, <1>4, <2>1
  <2>3. (Len(batch) + 1) \in 1..Len(batch') /\ (Len(batch) + 1 + 1)..Len(batch') = {}
    BY <2>2
  <2> QED
    BY <1>1, <2>2, <2>3 DEF InBatch
<1> QED
  BY <1>1, <1>2, <1>3, <1>4

\* Executing takes the first row of the batch into the table.
LEMMA ExecProgress == ASSUME IInv, Progress, Exec PROVE Progress'
<1> DEFINE r == Head(batch)
<1> SUFFICES ASSUME NEW i \in 1..pos, file[i].word # Blank, LastSoFar(i)
             PROVE  InBatch(i)' \/ InTable(i)'
  BY DEF Progress, Exec, LastSoFar
<1>1. /\ UNCHANGED <<db, place, file, pos>> /\ place = "writing" /\ batch # <<>>
      /\ batch \in Seq(WordRows) /\ batch' = Tail(batch) /\ view' = Upserted(view, r)
  BY DEF Exec, IInv, BatchTyped
<1>2. /\ r = batch[1] /\ 1 \in 1..Len(batch) /\ Len(batch) \in Nat
      /\ Len(batch') = Len(batch) - 1
      /\ \A k \in 1..Len(batch') : k + 1 \in 1..Len(batch) /\ batch'[k] = batch[k + 1]
  BY <1>1
<1>3. /\ DOMAIN view'.rows = DOMAIN view.rows \union {Lower[r.word]}
      /\ \E id : view'.rows[Lower[r.word]] = Row(id, r)
      /\ \A l \in DOMAIN view.rows : l # Lower[r.word] => view'.rows[l] = view.rows[l]
  BY <1>1 DEF Upserted
<1>4. Working' = view' /\ Working = view
  BY <1>1 DEF Working
<1> HIDE DEF r
<1>5. InBatch(i) \/ InTable(i)
  BY <1>1 DEF Progress
<1>6. ASSUME NEW k \in 1..Len(batch), batch[k] = file[i], k # 1,
             \A m \in (k + 1)..Len(batch) : Lower[batch[m].word] # Lower[file[i].word]
      PROVE  InBatch(i)'
  <2>1. k - 1 \in 1..Len(batch') /\ batch'[k - 1] = file[i]
    BY <1>2, <1>6
  <2>2. \A m \in ((k - 1) + 1)..Len(batch') : Lower[batch'[m].word] # Lower[file[i].word]
    BY <1>2, <1>6
  <2> QED
    BY <1>1, <2>1, <2>2 DEF InBatch
<1>7. ASSUME batch[1] = file[i],
             \A m \in 2..Len(batch) : Lower[batch[m].word] # Lower[file[i].word]
      PROVE  InTable(i)'
  <2>1. \A k \in 1..Len(batch') : Lower[batch'[k].word] # Lower[file[i].word]
    BY <1>2, <1>7
  <2>2. r = file[i]
    BY <1>2, <1>7
  <2>3. PICK id : view'.rows[Lower[file[i].word]] = Row(id, file[i])
    BY <1>3, <2>2
  <2>4. Row(id, file[i]).id = id
    BY DEF Row
  <2>5. Written(view', i)
    BY <1>3, <2>2, <2>3, <2>4 DEF Written
  <2> QED
    BY <1>1, <1>4, <2>1, <2>5 DEF InTable, Written
<1>8. CASE InTable(i)
  <2>1. /\ \A k \in 1..Len(batch') : Lower[batch'[k].word] # Lower[file[i].word]
        /\ Lower[r.word] # Lower[file[i].word]
    BY <1>2, <1>8 DEF InTable
  <2>2. Written(view', i)
    BY <1>3, <1>4, <1>8, <2>1 DEF InTable, Written
  <2> QED
    BY <1>1, <1>4, <2>1, <2>2 DEF InTable, Written
<1>9. CASE InBatch(i)
  BY <1>6, <1>7, <1>9 DEF InBatch
<1> QED
  BY <1>5, <1>8, <1>9

LEMMA ProgressStep == ASSUME IInv, Progress, [Next]_vars PROVE Progress'
<1>1. ASSUME UNCHANGED <<place, file, pos, batch>>, Working' = Working PROVE Progress'
  BY <1>1 DEF Progress, LastSoFar, InBatch, InTable, Written
<1>2. CASE StartImport
  BY <1>2 DEF StartImport, Progress
<1>3. CASE BeginTx \/ Commit
  <2>1. /\ UNCHANGED <<file, pos, batch>> /\ place # "idle" /\ Working' = Working
    BY <1>3 DEF BeginTx, Commit, Working
  <2> QED
    BY <2>1 DEF Progress, LastSoFar, InBatch, InTable, Written
<1>4. CASE Finish \/ Die
  BY <1>4 DEF Finish, Die, Progress
<1>5. ASSUME NEW r \in Readers, Lookup(r) \/ Count(r) \/ Select(r) \/ Leave(r)
      PROVE  Progress'
  BY <1>1, <1>5 DEF Lookup, Count, Select, Leave, importer, Working
<1>6. CASE UNCHANGED vars
  BY <1>1, <1>6 DEF vars, importer, Working
<1> QED
  BY <1>2, <1>3, <1>4, <1>5, <1>6, ReadProgress, ExecProgress DEF Next, Import

\* Whatever imports died before, an import that reaches the end of its file
\* leaves every word as the file's last row for it says.
THEOREM ImportsConverge == Spec => ImportConverges
<1>1. Init => Progress
  BY DEF Init, Progress
<1>2. IInv /\ Progress /\ [Next]_vars => Progress'
  BY ProgressStep
<1>3. ASSUME IInv, Progress, Finish PROVE Imported
  <2> SUFFICES ASSUME NEW i \in 1..Len(file), file[i].word # Blank, LastRow(i)
               PROVE  Written(db, i)
    BY DEF Imported, Written
  <2>1. place = "reading" /\ pos = Len(file) /\ batch = <<>>
    BY <1>3 DEF Finish
  <2>2. LastSoFar(i)
    BY <2>1 DEF LastSoFar, LastRow
  <2>3. InBatch(i) \/ InTable(i)
    BY <1>3, <2>1, <2>2 DEF Progress
  <2>4. ~InBatch(i)
    BY <2>1 DEF InBatch
  <2> QED
    BY <2>1, <2>3, <2>4 DEF InTable, Working
<1>4. IInv /\ Progress => [Finish => Imported]_vars
  BY <1>3
<1> QED
  BY <1>1, <1>2, <1>4, Invariant, PTL DEF Spec, ImportConverges
=============================================================================
