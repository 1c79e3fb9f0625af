------------------------------ MODULE MCScoring ------------------------------
(***************************************************************************)
(* Instances of Scoring for TLC: small lattices with ambiguous words, with *)
(* words that nothing leads to, with segmentations that overlap, scored    *)
(* with all kinds of beams; for a full annotation, words that agree or     *)
(* differ in two training fields, and for a partial one, boundaries that   *)
(* are required or forbidden and words with tags.                          *)
(***************************************************************************)
EXTENDS Scoring

CONSTANT Scores      \* of one connection

Word(s, e, d) == [start |-> s, end |-> e, data |-> d]

\* Two words of one character in each place, and one of two characters
Square == [n |-> 2, nodes |-> <<Word(0, 1, <<>>), Word(0, 1, <<>>), Word(0, 2, <<>>),
                                Word(1, 2, <<>>), Word(1, 2, <<>>)>>]

\* The same with a single word at the end
Narrow == [n |-> 2, nodes |-> <<Word(0, 1, <<>>), Word(0, 1, <<>>), Word(0, 2, <<>>),
                                Word(1, 2, <<>>)>>]

\* Words 3 and 4 start where no word ends, and boundary 2 starts no word.
Dead == [n |-> 3, nodes |-> <<Word(0, 3, <<>>), Word(0, 3, <<>>), Word(1, 2, <<>>), Word(1, 3, <<>>)>>]

\* Words that overlap, words that compete for one place, and a choice that only
\* the context of later words tells apart
Overlap == [n |-> 3, nodes |-> <<Word(0, 1, <<1, 1>>), Word(0, 2, <<1, 2>>), Word(1, 3, <<2, 1>>),
                                 Word(2, 3, <<1, 1>>), Word(2, 3, <<2, 1>>)>>]
Chain == [n |-> 3, nodes |-> <<Word(0, 1, <<1, 1>>), Word(0, 1, <<2, 1>>), Word(1, 2, <<1, 1>>),
                               Word(2, 3, <<1, 1>>), Word(2, 3, <<1, 2>>)>>]
Thread == [n |-> 3, nodes |-> <<Word(0, 1, <<1, 1>>), Word(0, 1, <<2, 1>>), Word(1, 2, <<1, 1>>),
                                Word(2, 3, <<1, 1>>)>>]

\* A word that spans the middle of the sentence, and homographs at both ends
Span == [n |-> 4, nodes |-> <<Word(0, 1, <<1, 1>>), Word(0, 1, <<1, 2>>), Word(1, 2, <<2, 1>>),
                              Word(1, 3, <<3, 1>>), Word(2, 4, <<4, 1>>), Word(3, 4, <<5, 1>>),
                              Word(3, 4, <<5, 2>>)>>]

\* Words that no feature tells apart, with two ways to the end or to the middle
Alike == [n |-> 5, nodes |-> <<Word(0, 1, <<1, 1>>), Word(0, 3, <<1, 1>>), Word(1, 2, <<1, 1>>),
                               Word(2, 4, <<1, 1>>), Word(3, 4, <<1, 1>>), Word(4, 5, <<1, 1>>)>>]
Forked == [n |-> 4, nodes |-> <<Word(0, 1, <<1, 1>>), Word(0, 2, <<1, 1>>), Word(1, 2, <<1, 1>>),
                                Word(2, 3, <<1, 1>>), Word(2, 4, <<1, 1>>), Word(3, 4, <<1, 1>>)>>]

\* The connections of a lattice
Edges(g) ==
  LET eos == Len(g.nodes) + 1
      s == [r \in 1 .. eos |-> IF r = eos THEN g.n ELSE g.nodes[r].start]
      e == [r \in 0 .. eos - 1 |-> IF r = 0 THEN 0 ELSE g.nodes[r].end]
  IN {p \in (0 .. eos - 1) \X (1 .. eos) : e[p[1]] = s[p[2]]}

Problem(g, user, lines, score, extra) ==
  [n |-> g.n, nodes |-> g.nodes, user |-> user, lines |-> lines, score |-> score, extra |-> extra]

Plain(g, score) == [t \in Linked(g) |-> score[<<t[2], t[3]>>]]
NoExtra(g) == [t \in Linked(g) |-> 0]

\* Scores of the connections of the second half of the sentence vary; the
\* others favour the words with the smaller numbers.
LateBigram(g) ==
  {Problem(g, "analysis", <<>>,
     [t \in Linked(g) |-> IF <<t[2], t[3]>> \in DOMAIN f THEN f[<<t[2], t[3]>>] ELSE t[3] % 2],
     [t \in Linked(g) |-> IF <<t[2], t[3]>> \in DOMAIN f THEN 1 - f[<<t[2], t[3]>>] ELSE 0])
     : f \in [{p \in Edges(g) : p[1] # 0} -> Scores]}

AllTrigram(g) ==
  {Problem(g, "analysis", <<>>, f,
     [t \in Linked(g) |-> IF t[3] = Len(g.nodes) + 1 THEN t[2] % 2 ELSE t[3] % 2])
     : f \in [Linked(g) -> Scores]}

Bigram(g) == {Problem(g, "fullTraining", <<>>, Plain(g, f), NoExtra(g)) : f \in [Edges(g) -> Scores]}
Trigram(g) == {Problem(g, "fullTraining", <<>>, f, NoExtra(g)) : f \in [Linked(g) -> Scores]}

\* Annotations of Span: a joined or a required boundary in the middle, words
\* with tags around them, and one that no path of the lattice agrees with
SpanAnnotations ==
  {<<Text(4, {2})>>, <<Text(2, {}), Text(2, {})>>, <<Text(4, {1, 2})>>,
   <<TaggedWord(1, 2 :> 2), Text(3, {1})>>,
   <<TaggedWord(1, 2 :> 2), TaggedWord(2, <<>>), TaggedWord(1, 2 :> 2)>>,
   <<TaggedWord(1, <<1, 1>>), Text(1, {}), TaggedWord(2, <<4>>)>>}

\* Annotations of Alike and Forked.  For the first, the words in place of another
\* have no feature of their own; for the second, they have the same features; for
\* the last, one more.
AlikeAnnotations == {<<Text(5, {3})>>, <<TaggedWord(1, <<>>), Text(4, {})>>}
ForkedAnnotations == {<<Text(3, {}), Text(1, {})>>}

Annotated(g, annotations, users) ==
  {Problem(g, user, lines,
     [t \in Linked(g) |-> IF <<t[2], t[3]>> \in DOMAIN f THEN f[<<t[2], t[3]>>] ELSE 0],
     [t \in Linked(g) |-> IF user = "partialInput" THEN t[3] % 3 ELSE 0])
     : f \in [{p \in Edges(g) : p[1] # 0 /\ p[2] <= Len(g.nodes)} -> Scores], lines \in annotations, user \in users}

Setting(beam, global, check, right, extra) ==
  [beam |-> beam, global |-> global, check |-> check, right |-> right, extra |-> extra]

MCJobs ==
  {[problems |-> LateBigram(Square) \cup LateBigram(Dead) \cup AllTrigram(Narrow),
    configs |-> {Setting(b, 0, 0, 0, FALSE) : b \in {1, 2}}
                  \cup {Setting(2, g, 0, 0, x) : g \in {1, 2, 10}, x \in BOOLEAN}
                  \cup {Setting(2, 2, 1, 1, x) : x \in BOOLEAN}
                  \cup {Setting(1, 2, 2, 1, FALSE)}],
   [problems |-> Bigram(Overlap) \cup Bigram(Chain) \cup Trigram(Thread),
    configs |-> {Setting(1, 0, 0, 0, FALSE), Setting(2, 0, 0, 0, FALSE), Setting(2, 1, 0, 0, FALSE)}],
   [problems |-> Annotated(Span, SpanAnnotations, {"partialInput"}),
    configs |-> {Setting(1, 0, 0, 0, FALSE), Setting(2, 1, 0, 0, TRUE), Setting(2, 2, 1, 1, FALSE)}],
   [problems |-> Annotated(Span, SpanAnnotations, {"partialTraining"})
                   \cup Annotated(Alike, AlikeAnnotations, {"partialTraining"})
                   \cup Annotated(Forked, ForkedAnnotations, {"partialTraining"}),
    configs |-> {Setting(1, 0, 0, 0, FALSE), Setting(2, 0, 0, 0, FALSE), Setting(2, 1, 0, 0, FALSE)}]}

TrainingJobs ==
  {[problems |-> Bigram(Overlap) \cup Bigram(Chain), configs |-> {Setting(2, 0, 0, 0, FALSE)}]}

MCFieldWeights == <<1, 2>>
===============================================================================
