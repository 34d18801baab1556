---------------------------- MODULE MCDictionary ----------------------------
\* Model checking of Dictionary.  Code point 0 is a space, 1 an apostrophe, 3
\* the surrogates, and 5 the last one.  Two spellings of one word, a word of two
\* tokens, a blank row, and a newer release of the file.
EXTENDS Dictionary, TLC

S == INSTANCE SequencesExt

MCLower == "Ba" :> <<2, 4>> @@ "ba" :> <<2, 4>> @@ "b" :> <<2>>
           @@ "bz" :> <<2, 5>> @@ "b z" :> <<2, 0, 5>> @@ "d" :> <<4>>
           @@ "z" :> <<5, 5>>
\* b, bz, d and z; z and b, in two terms; b'z, a phrase of two tokens.
MCQueries == {<<2>>, <<2, 5>>, <<4>>, <<5>>, <<5, 0, 2>>, <<2, 1, 5>>}

\* A space and an apostrophe end a token.
MCTokens(text) ==
  LET Grow(ts, c) == IF c \in {0, 1} THEN Append(ts, <<>>)
                     ELSE [ts EXCEPT ![Len(ts)] = Append(@, c)]
      Token(t)    == t # <<>>
  IN SelectSeq(S!FoldLeft(Grow, <<<<>>>>, text), Token)
MCContains(text, q) ==
  \E k \in 0..(Len(text) - Len(q)) : SubSeq(text, k + 1, k + Len(q)) = q

Entry(w, d, t) == [word |-> w, definition |-> d, translation |-> t]
Release1 == <<Entry("Ba", <<4>>, <<>>), Entry("b z", <<>>, <<>>), Entry("", <<>>, <<>>),
              Entry("ba", <<>>, <<5, 0, 2, 5>>), Entry("d", <<2, 0, 5>>, <<>>)>>
Release2 == <<Entry("b", <<>>, <<5>>), Entry("ba", <<>>, <<>>), Entry("bz", <<2>>, <<>>),
              Entry("z", <<2>>, <<>>), Entry("d", <<>>, <<5, 0, 2>>)>>
MCFiles == {Release1, Release2}
MCTexts == {f[i].definition : f \in MCFiles, i \in 1..5}
           \union {f[i].translation : f \in MCFiles, i \in 1..5}
=============================================================================
