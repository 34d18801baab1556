----------------------------- MODULE Dictionary -----------------------------
(***************************************************************************)
(* cmd/importer, internal/repo and migrations/schema.sql: an import writes *)
(* a CSV file into the words table batch by batch, while searches read it. *)
(* The full-text index keeps no text of its own: triggers keep it in step  *)
(* with the table.  An import that dies is run again, perhaps on a newer   *)
(* release of the file.                                                    *)
(*                                                                         *)
(* Texts are sequences of code points; a word has its lower-case form, for *)
(* SQLite's tokenizer and LIKE, which are not of this repository, fold the *)
(* case themselves.  ORDER BY, LIMIT and OFFSET are left out: `found'      *)
(* stands for all the pages of an answer.                                  *)
(***************************************************************************)
EXTENDS Integers, FiniteSets, Sequences

CONSTANTS Files,       \* CSV files: sequences of rows
          Lower,       \* strings.ToLower, as a function on the spellings
          Blank,       \* the word of a row that has none
          Texts,       \* definitions and translations
          Queries,     \* trimmed, lower-case, not empty
          Spaces,      \* the code points that strings.Fields splits at
          Tokens(_),   \* FTS5's tokens of a text, in their order, each a sequence
          Contains(_, _),  \* LIKE: the text contains the query
          BatchSize,
          SurrogateLow, SurrogateHigh, MaxRune,  \* 0xD800, 0xDFFF, utf8.MaxRune
          Readers

Spellings == DOMAIN Lower
CsvRows == [word : Spellings \union {Blank},
            definition : Texts, translation : Texts]

ASSUME DictionaryAssumption ==
  /\ Blank \notin Spellings
  /\ \A f \in Files : f \in Seq(CsvRows)
  /\ BatchSize \in Nat \ {0}

VARIABLES db,      \* what is committed: the table by word_lower, the index
                   \* (words_fts), and the next AUTOINCREMENT id
          view,    \* the same, as the importer's transaction sees it
          place,   \* where the importer is,
          file,    \* the file it imports,
          pos,     \* how many rows of it are read,
          batch,   \* and the rows read but not yet written
          search,  \* the search each reader makes
          torn     \* history: was there a commit since the reader's COUNT?

importer == <<place, file, pos, batch>>
vars == <<db, view, importer, search, torn>>

Modes == {"get", "suggest", "prefix", "fuzzy"}
NoSearch == [at |-> "idle"]

Init == /\ db = [rows |-> [l \in {} |-> 0], fts |-> {}, next |-> 1]
        /\ view = db
        /\ place = "idle" /\ file = <<>> /\ pos = 0 /\ batch = <<>>
        /\ search = [r \in Readers |-> NoSearch]
        /\ torn = [r \in Readers |-> FALSE]
-----------------------------------------------------------------------------
(* What the searches select. *)

\* a precedes b in the order of code points, SQLite's BINARY collation.
Precedes(a, b) ==
  \E i \in 1..Len(b) : /\ i <= Len(a) + 1
                       /\ \A j \in 1..(i - 1) : a[j] = b[j]
                       /\ i > Len(a) \/ a[i] < b[i]

NextRune(c) == IF c + 1 \in SurrogateLow..SurrogateHigh THEN SurrogateHigh + 1
                                                        ELSE c + 1
\* The places of p whose code point can be raised.
Raisable(p) == {i \in 1..Len(p) : NextRune(p[i]) <= MaxRune}
LastRaisable(p) == CHOOSE i \in Raisable(p) : \A j \in Raisable(p) : j <= i
BoundUntruncated(p) == [p EXCEPT ![LastRaisable(p)] = NextRune(p[LastRaisable(p)])]
PrefixUpperBound(p) ==
  SubSeq(p, 1, LastRaisable(p) - 1) \o <<NextRune(p[LastRaisable(p)])>>

PrefixRange(p, l) == /\ ~Precedes(l, p)
                     /\ Raisable(p) # {} => Precedes(l, PrefixUpperBound(p))

StartsWith(l, p) == Len(p) <= Len(l) /\ \A i \in 1..Len(p) : l[i] = p[i]

\* FTSMatch: the terms are the query's maximal runs without a space, ...
IsTerm(q, i, j) == /\ i <= j /\ \A k \in i..j : q[k] \notin Spaces
                   /\ i = 1 \/ q[i - 1] \in Spaces
                   /\ j = Len(q) \/ q[j + 1] \in Spaces
Terms(q) == {SubSeq(q, r[1], r[2]) :
               r \in {r \in (1..Len(q)) \X (1..Len(q)) : IsTerm(q, r[1], r[2])}}
\* ... each a quoted phrase: its tokens follow each other in the text, the last
\* one by its beginning.  A phrase without tokens matches nothing.
Phrase(text, term) ==
  LET t == Tokens(text)
      p == Tokens(term)
  IN \E k \in 0..(Len(t) - Len(p)) :
       /\ p # <<>> /\ \A i \in 1..(Len(p) - 1) : t[k + i] = p[i]
       /\ StartsWith(t[k + Len(p)], p[Len(p)])
\* The terms are joined by AND: each may be in a column of its own.
Hit(posting, q) ==
  \A term \in Terms(q) :
     \E text \in {Lower[posting.word], posting.definition, posting.translation} :
        Phrase(text, term)
Hits(q) == {p \in db.fts : Hit(p, q)}

Selected(mode, q) ==
  {l \in DOMAIN db.rows :
     \/ mode = "get" /\ l = q
     \/ mode \in {"suggest", "prefix"} /\ PrefixRange(q, l)
     \/ mode = "prefix" /\ Contains(db.rows[l].translation, q)
     \/ mode = "fuzzy" /\ \E p \in Hits(q) : p.id = db.rows[l].id}
TotalOfRange(mode, q) ==
  Cardinality(IF mode = "fuzzy" THEN Hits(q) ELSE Selected("suggest", q))
\* The total of a paged search; the fuzzy one counts the index alone.
Total(mode, q) == Cardinality(IF mode = "fuzzy" THEN Hits(q) ELSE Selected(mode, q))
-----------------------------------------------------------------------------
(* The importer. *)

StartImport ==
  /\ place = "idle"
  /\ \E f \in Files : file' = f
  /\ place' = "reading" /\ pos' = 0 /\ batch' = <<>>
  /\ UNCHANGED <<db, view, search, torn>>

\* A row without a word is skipped.
ReadRow ==
  /\ place = "reading" /\ pos < Len(file) /\ Len(batch) < BatchSize
  /\ pos' = pos + 1
  /\ batch' = IF file[pos'].word = Blank THEN batch ELSE Append(batch, file[pos'])
  /\ UNCHANGED <<db, view, place, file, search, torn>>

\* A full batch, or the rest at the end of the file.
FlushDue == Len(batch) >= BatchSize \/ (pos = Len(file) /\ batch # <<>>)
BeginTx ==
  /\ place = "reading" /\ FlushDue
  /\ place' = "writing" /\ view' = db
  /\ UNCHANGED <<db, file, pos, batch, search, torn>>

Row(id, r) == [id |-> id, word |-> r.word,
               definition |-> r.definition, translation |-> r.translation]
\* What the index holds of a row: columns word, definition and translation.
Posting(row) == Row(row.id, row)

\* As INSERT OR REPLACE would: a new id, and no trigger for the row it drops.
Replaced(d, r) ==
  LET l   == Lower[r.word]
      row == Row(d.next, r)
  IN  [rows |-> [k \in DOMAIN d.rows \union {l} |-> IF k = l THEN row ELSE d.rows[k]],
       fts  |-> d.fts \union {Posting(row)},
       next |-> d.next + 1]
\* INSERT ... ON CONFLICT(word_lower) DO UPDATE, with the triggers words_ai
\* and words_au: a row that is there keeps its id.
Upserted(d, r) ==
  LET l   == Lower[r.word]
      had == l \in DOMAIN d.rows
      row == Row(IF had THEN d.rows[l].id ELSE d.next, r)
      old == IF had THEN {Posting(d.rows[l])} ELSE {}
  IN  [rows |-> [k \in DOMAIN d.rows \union {l} |-> IF k = l THEN row ELSE d.rows[k]],
       fts  |-> (d.fts \ old) \union {Posting(row)},
       next |-> IF had THEN d.next ELSE d.next + 1]

Exec ==
  /\ place = "writing" /\ batch # <<>>
  /\ view' = Upserted(view, Head(batch))
  /\ batch' = Tail(batch)
  /\ UNCHANGED <<db, place, file, pos, search, torn>>

Commit ==
  /\ place = "writing" /\ batch = <<>>
  /\ db' = view /\ place' = "reading"
  /\ torn' = [r \in Readers |-> search[r].at = "counted" \/ torn[r]]
  /\ UNCHANGED <<view, file, pos, batch, search>>

FinishUnflushed ==
  /\ place = "reading" /\ pos = Len(file)
  /\ place' = "idle"
  /\ UNCHANGED <<db, view, file, pos, batch, search, torn>>
Finish ==
  /\ place = "reading" /\ pos = Len(file) /\ batch = <<>>
  /\ place' = "idle"
  /\ UNCHANGED <<db, view, file, pos, batch, search, torn>>

\* A bad row, a failing statement or commit (log.Fatal), a crash: what is
\* not committed is rolled back.
Die ==
  /\ place # "idle"
  /\ place' = "idle" /\ view' = db /\ batch' = <<>>
  /\ UNCHANGED <<db, file, pos, search, torn>>
-----------------------------------------------------------------------------
(* The readers.  Each statement sees what is committed when it starts. *)

\* GetByWord and Suggest: one statement.
Lookup(r) ==
  /\ search[r] = NoSearch
  /\ \E mode \in {"get", "suggest"}, q \in Queries :
       search' = [search EXCEPT ![r] =
                    [at |-> "answered", mode |-> mode, q |-> q,
                     total |-> Cardinality(Selected(mode, q)),
                     found |-> Selected(mode, q)]]
  /\ UNCHANGED <<db, view, importer, torn>>

\* Search: a COUNT, and then the page, with no transaction around them.
Count(r) ==
  /\ search[r] = NoSearch
  /\ \E mode \in {"prefix", "fuzzy"}, q \in Queries :
       search' = [search EXCEPT ![r] =
                    [at |-> "counted", mode |-> mode, q |-> q,
                     total |-> Total(mode, q), found |-> {}]]
  /\ UNCHANGED <<db, view, importer, torn>>

Select(r) ==
  /\ search[r].at = "counted"
  /\ search' = [search EXCEPT ![r].at = "answered",
                              ![r].found = Selected(search[r].mode, search[r].q)]
  /\ UNCHANGED <<db, view, importer, torn>>

\* The answer is sent, or (before that) a statement failed or was cancelled.
Leave(r) ==
  /\ search[r] # NoSearch
  /\ search' = [search EXCEPT ![r] = NoSearch]
  /\ torn' = [torn EXCEPT ![r] = FALSE]
  /\ UNCHANGED <<db, view, importer>>

Import == StartImport \/ ReadRow \/ BeginTx \/ Exec \/ Commit \/ Finish \/ Die
Next == Import \/ \E r \in Readers : Lookup(r) \/ Count(r) \/ Select(r) \/ Leave(r)
Spec == Init /\ [][Next]_vars
-----------------------------------------------------------------------------
Entries == [id : Nat, word : Spellings,
            definition : Texts, translation : Texts]
\* word_lower is unique and the lower case of word; ids are never given twice.
Sound(d) ==
  /\ DOMAIN d.rows \subseteq {Lower[w] : w \in Spellings}
  /\ \A l \in DOMAIN d.rows : /\ d.rows[l] \in Entries
                              /\ Lower[d.rows[l].word] = l
                              /\ d.rows[l].id < d.next
  /\ \A l, m \in DOMAIN d.rows : d.rows[l].id = d.rows[m].id => l = m
  /\ d.fts \subseteq Entries /\ d.next \in Nat

\* Types of the tables, of the importer (which never holds more than a
\* batch, nor a row without a word) and of the searches.
TypeOK ==
  /\ Sound(db) /\ Sound(view)
  /\ place \in {"idle", "reading", "writing"}
  /\ file \in Files \union {<<>>} /\ pos \in 0..Len(file)
  /\ Len(batch) <= BatchSize
  /\ \A i \in 1..Len(batch) : batch[i].word # Blank
  /\ \A r \in Readers : search[r] # NoSearch =>
        /\ search[r].at \in {"counted", "answered"}
        /\ search[r].mode \in Modes /\ search[r].q \in Queries
        /\ search[r].found \subseteq DOMAIN db.rows
  /\ torn \in [Readers -> BOOLEAN]

\* The index holds the postings of the rows as they are now, and no posting
\* of a row as it was before an update: words_au deletes before it inserts.
InStep(d) == d.fts = {Posting(d.rows[l]) : l \in DOMAIN d.rows}
IndexInStep == InStep(db) /\ InStep(view)

\* What a search means, said without ranges of code points or an index.
Meant(mode, q) ==
  {l \in DOMAIN db.rows :
     \/ mode = "get" /\ l = q
     \/ mode \in {"suggest", "prefix"} /\ StartsWith(l, q)
     \/ mode = "prefix" /\ Contains(db.rows[l].translation, q)
     \/ mode = "fuzzy" /\ Hit(db.rows[l], q)}
\* A search answers with the words it means, neither more nor fewer: the
\* range of code points below PrefixUpperBound holds exactly the words with
\* the prefix, and the index leads to every row in which each term of the
\* query is found, as it is now, and to no row that has since changed.
SearchIsExact ==
  [][\A r \in Readers :
       search[r].at # "answered" /\ search'[r].at = "answered" =>
         search'[r].found = Meant(search'[r].mode, search'[r].q)]_vars

\* The total a search reports is the number of words on its pages, unless an
\* import committed between its two statements; the fuzzy total, counted in
\* the index alone, agrees with the join that selects the rows.
TotalAgrees ==
  \A r \in Readers : search[r].at = "answered" /\ ~torn[r] =>
    search[r].total = Cardinality(search[r].found)

\* An import that completes leaves every word of its file as its last row for
\* that word has it, however many imports died before or at which batch.
LastRow(i) == \A j \in (i + 1)..Len(file) :
                file[j].word # Blank => Lower[file[j].word] # Lower[file[i].word]
Imported == \A i \in 1..Len(file) : file[i].word # Blank /\ LastRow(i) =>
              LET l == Lower[file[i].word] IN
              l \in DOMAIN db.rows /\ db.rows[l] = Row(db.rows[l].id, file[i])
ImportConverges == [][Finish => Imported]_vars
=============================================================================
