--------------------------- MODULE InputDriverProofs ---------------------------
(***************************************************************************)
(* Proofs about InputDriver for any files and both readers: no line of the *)
(* input is lost or read twice, and raw sentences have their own comments. *)
(*                                                                         *)
(* The inductive invariant adds to the properties what is known of the     *)
(* stream: it is at the end of its file if eof says so, a stream that      *)
(* failed without that is of a file that was never opened, and a good one  *)
(* that is at the end all the same is of a file that ends with a newline.  *)
(***************************************************************************)
EXTENDS InputDriver, SequenceTheorems, TLAPS

Line == Nat \X Nat

TypeOK ==
  /\ input \in Inputs
  /\ pc \in {"start", "next", "line", "example", "analyze", "exit"}
  /\ current \in 0 .. Len(input.files)
  /\ stream \in [file : Nat, pos : Nat, eof : BOOLEAN, fail : BOOLEAN]
  /\ buffer \in Seq(Line)
  /\ taken \in Seq(Line)
  /\ \E S : sentences \in Seq(S)

\* The numbers kept with the sentences
Numbered ==
  \A k \in DOMAIN sentences : sentences[k].upto \in 0 .. Len(taken)

\* Where the stream is
StreamInv ==
  /\ stream.file = current
  /\ stream.pos \in 0 .. Len(File(current).lines)
  /\ stream.eof => AtEnd
  /\ stream.fail => stream.eof \/ buffer = <<>>
  /\ current = 0 => pc = "start" \/ input.files = <<>>
  /\ pc = "start" => current = 0 /\ stream.pos = 0
  /\ pc \in {"start", "next", "exit"} => buffer = <<>>
  /\ Good /\ AtEnd => AllTerminated(File(stream.file))
  /\ pc = "exit" => AtEnd
  /\ pc = "exit" /\ stream.file < Len(input.files) => AllTerminated(File(stream.file))

\* What the raw reader knows of the comment
CommentInv ==
  input.reader = "Raw" =>
    /\ pc = "line" /\ buffer # <<>> =>
         comment = <<Last(buffer)>> /\ \A k \in DOMAIN buffer : IsComment(buffer[k])
    /\ pc \in {"example", "analyze"} => comment = OwnComment(buffer)
    /\ \A k \in DOMAIN sentences : sentences[k].comment = OwnComment(sentences[k].lines)

Inv ==
  /\ TypeOK
  /\ Numbered
  /\ StreamInv
  /\ CommentInv
  /\ LinesTakenInOrder
  /\ SentencesPartitionLines

-------------------------------------------------------------------------------
(* Where the stream is                                                     *)

\* A file of the input is a sequence of lines.
LEMMA FileType ==
  ASSUME input \in Inputs, NEW i \in 0 .. Len(input.files)
  PROVE  /\ File(i) \in Files /\ Len(File(i).lines) \in Nat
         /\ DOMAIN File(i).lines = 1 .. Len(File(i).lines)
         /\ Len(File(i).lines) = 0 => AllTerminated(File(i))
<1>1. input.files \in Seq(Files) /\ input.stdin \in Files
  BY InputConstants
<1>2. File(i) \in Files
  BY <1>1 DEF File
<1>3. File(i).lines \in Seq(LineKinds)
  BY <1>2 DEF Files
<1> QED
  BY <1>2, <1>3 DEF AllTerminated

\* What getline does with a stream, seen from its reader: either nothing is
\* taken, at the end of the file, or the next line.
LEMMA GetlineCases ==
  ASSUME TypeOK, StreamInv, pc = "line", buffer = <<>> => ~stream.fail, Getline
  PROVE  \/ /\ AtEnd /\ taken' = taken /\ ~GotLine
            /\ stream' = [stream EXCEPT !.eof = TRUE, !.fail = TRUE]
         \/ /\ Good /\ ~AtEnd /\ taken' = Append(taken, <<stream.file, stream.pos + 1>>) /\ GotLine
            /\ stream' = [stream EXCEPT !.pos = @ + 1,
                            !.eof = stream.pos + 1 = Len(File(stream.file).lines)
                                      /\ ~File(stream.file).closed]
<1>1. CASE ~Good \/ AtEnd
  <2>1. AtEnd
    BY <1>1 DEF Good, StreamInv, TypeOK
  <2> QED
    BY <1>1, <2>1 DEF Getline, GotLine
<1>2. CASE ~(~Good \/ AtEnd)
  <2>1. Append(taken, <<stream.file, stream.pos + 1>>) # taken
    <3>1. Len(Append(taken, <<stream.file, stream.pos + 1>>)) = Len(taken) + 1 /\ Len(taken) \in Nat
      BY DEF TypeOK
    <3> QED
      BY <3>1
  <2> QED
    BY <1>2, <2>1 DEF Getline, GotLine
<1> QED
  BY <1>1, <1>2

-------------------------------------------------------------------------------
(* The lines                                                               *)

\* A sequence with one more element: what is at its positions.
LEMMA AppendAt ==
  ASSUME NEW S, NEW s \in Seq(S), NEW x \in S
  PROVE  /\ Append(s, x) \in Seq(S)
         /\ Len(s) \in Nat /\ Len(Append(s, x)) = Len(s) + 1
         /\ DOMAIN s = 1 .. Len(s) /\ DOMAIN Append(s, x) = 1 .. Len(s) + 1
         /\ \A i \in 1 .. Len(s) : Append(s, x)[i] = s[i]
         /\ Append(s, x)[Len(s) + 1] = x
  OBVIOUS

\* Lines of a file before the current one, or of it as far as it has been read
Read(y, file, pos) ==
  \/ \E i \in 1 .. file - 1 : \E l \in DOMAIN File(i).lines : y = <<i, l>>
  \/ \E l \in 1 .. pos : y = <<file, l>>

LEMMA ReadLines == \A y : y \in LinesRead <=> Read(y, stream.file, stream.pos)
BY DEF LinesRead, Read

\* Where the files and the stream stay, so do the lines that have been read.
LEMMA LinesSame ==
  ASSUME UNCHANGED <<input, taken>>, stream'.file = stream.file, stream'.pos = stream.pos,
         LinesTakenInOrder
  PROVE  LinesTakenInOrder'
<1>1. LinesRead' = LinesRead
  BY DEF LinesRead, File
<1> QED
  BY <1>1 DEF LinesTakenInOrder, Earlier, ToSet

\* The next line comes after all the others, and they remain.
LEMMA LineAdded ==
  ASSUME TypeOK, StreamInv, LinesTakenInOrder, UNCHANGED input, ~AtEnd,
         taken' = Append(taken, <<stream.file, stream.pos + 1>>),
         stream'.file = stream.file, stream'.pos = stream.pos + 1
  PROVE  LinesTakenInOrder'
<1> DEFINE x == <<stream.file, stream.pos + 1>>
<1>1. taken \in Seq(Line) /\ x \in Line /\ stream.file \in Nat /\ stream.pos \in Nat
  BY DEF TypeOK, Line
<1>2. /\ DOMAIN taken = 1 .. Len(taken) /\ DOMAIN taken' = 1 .. Len(taken) + 1 /\ Len(taken) \in Nat
      /\ \A i \in 1 .. Len(taken) : taken'[i] = taken[i]
      /\ taken'[Len(taken) + 1] = x
  BY <1>1, AppendAt
<1>3. LinesRead' = LinesRead \cup {x}
  <2>1. \A y : y \in LinesRead' <=> Read(y, stream.file, stream.pos + 1)
    BY DEF LinesRead, Read, File
  <2>2. 1 .. stream.pos + 1 = 1 .. stream.pos \cup {stream.pos + 1}
    BY <1>1
  <2>3. \A y : Read(y, stream.file, stream.pos + 1) <=> Read(y, stream.file, stream.pos) \/ y = x
    BY <2>2 DEF Read
  <2> QED
    BY <2>1, <2>3, ReadLines
<1>4. ToSet(taken') = ToSet(taken) \cup {x}
  <2> HIDE DEF x
  <2>1. ToSet(taken') = {taken'[i] : i \in 1 .. Len(taken) + 1}
    BY <1>2 DEF ToSet
  <2>2. ToSet(taken) = {taken[i] : i \in 1 .. Len(taken)}
    BY <1>2 DEF ToSet
  <2>3. 1 .. Len(taken) + 1 = 1 .. Len(taken) \cup {Len(taken) + 1}
    BY <1>2
  <2> QED
    BY <1>2, <2>1, <2>2, <2>3
<1>5. \A y \in LinesRead : Earlier(y, x)
  <2>1. SUFFICES ASSUME NEW y \in LinesRead
                 PROVE  Earlier(y, x)
    OBVIOUS
  <2>2. CASE \E i \in 1 .. stream.file - 1 : \E l \in DOMAIN File(i).lines : y = <<i, l>>
    BY <1>1, <2>2 DEF Earlier
  <2>3. CASE \E l \in 1 .. stream.pos : y = <<stream.file, l>>
    BY <1>1, <2>3 DEF Earlier
  <2> QED
    BY <2>1, <2>2, <2>3, ReadLines DEF Read
<1> HIDE DEF x
<1>6. ASSUME NEW j \in DOMAIN taken', NEW k \in DOMAIN taken', j < k
      PROVE  Earlier(taken'[j], taken'[k])
  <2>1. j \in 1 .. Len(taken) /\ taken'[j] = taken[j]
    BY <1>2, <1>6
  <2>2. CASE k \in 1 .. Len(taken)
    BY <1>2, <1>6, <2>1, <2>2 DEF LinesTakenInOrder
  <2>3. CASE k = Len(taken) + 1
    <3>1. taken[j] \in LinesRead
      BY <1>2, <2>1 DEF LinesTakenInOrder, ToSet
    <3> QED
      BY <1>2, <1>5, <2>1, <2>3, <3>1
  <2> QED
    BY <1>2, <2>2, <2>3
<1>7. ToSet(taken)' = LinesRead'
  BY <1>3, <1>4 DEF LinesTakenInOrder, ToSet
<1> QED
  BY <1>6, <1>7 DEF LinesTakenInOrder, Earlier

\* Another file begins where all of the one before it has been read.
LEMMA FileAdded ==
  ASSUME TypeOK, StreamInv, LinesTakenInOrder, UNCHANGED <<input, taken>>,
         AtEnd \/ current = 0, current = 0 => stream.pos = 0,
         stream'.file = current + 1, stream'.pos = 0
  PROVE  LinesTakenInOrder'
<1>1. stream.file = current /\ current \in Nat /\ stream.pos \in Nat
  BY DEF StreamInv, TypeOK
<1>2. \A y : y \in LinesRead' <=> Read(y, current + 1, 0)
  BY DEF LinesRead, Read, File
<1>3. \A y : Read(y, current + 1, 0) <=>
              \E i \in 1 .. current : \E l \in DOMAIN File(i).lines : y = <<i, l>>
  BY <1>1 DEF Read
<1>4. ASSUME NEW y
      PROVE  y \in LinesRead' <=> y \in LinesRead
  <2>1. CASE current = 0
    <3>1. ~Read(y, current + 1, 0)
      BY <1>1, <1>3, <2>1
    <3>2. ~Read(y, current, stream.pos)
      BY <1>1, <2>1 DEF Read
    <3> QED
      BY <1>1, <1>2, <3>1, <3>2, ReadLines
  <2>2. CASE current # 0 /\ AtEnd
    <3>1. DOMAIN File(current).lines = 1 .. stream.pos
      BY <1>1, <2>2, FileType DEF AtEnd, TypeOK
    <3>2. 1 .. current = 1 .. current - 1 \cup {current}
      BY <1>1, <2>2
    <3>3. (\E i \in 1 .. current : \E l \in DOMAIN File(i).lines : y = <<i, l>>)
            <=> \/ \E i \in 1 .. current - 1 : \E l \in DOMAIN File(i).lines : y = <<i, l>>
                \/ \E l \in DOMAIN File(current).lines : y = <<current, l>>
      BY <3>2
    <3>4. Read(y, current + 1, 0) <=> Read(y, current, stream.pos)
      BY <1>3, <3>1, <3>3 DEF Read
    <3> QED
      BY <1>1, <1>2, <3>4, ReadLines
  <2> QED
    BY <2>1, <2>2
<1>6. LinesRead' = LinesRead
  BY <1>4
<1> QED
  BY <1>6 DEF LinesTakenInOrder, ToSet, Earlier

-------------------------------------------------------------------------------
(* The sentences                                                           *)

\* Where their sentences and lines stay, the lines of the sentences do.
LEMMA PartitionSame ==
  ASSUME UNCHANGED <<taken, buffer, sentences>>, Numbered, SentencesPartitionLines
  PROVE  Numbered' /\ SentencesPartitionLines'
BY DEF Numbered, SentencesPartitionLines, Before

\* One more line changes none of the lines before it, and is added to those
\* since a place.
LEMMA SubSeqRead ==
  ASSUME NEW S, NEW s \in Seq(S), NEW x \in S, NEW m \in Nat \ {0}
  PROVE  /\ \A n \in 0 .. Len(s) : SubSeq(Append(s, x), m, n) = SubSeq(s, m, n)
         /\ m <= Len(s) + 1 =>
              SubSeq(Append(s, x), m, Len(s) + 1) = Append(SubSeq(s, m, Len(s)), x)
<1>1. /\ Append(s, x) \in Seq(S) /\ Len(s) \in Nat /\ Len(Append(s, x)) = Len(s) + 1
      /\ \A i \in 1 .. Len(s) : Append(s, x)[i] = s[i] /\ s[i] \in S
      /\ Append(s, x)[Len(s) + 1] = x
  BY AppendAt
<1>2. ASSUME NEW n \in 0 .. Len(s)
      PROVE  SubSeq(Append(s, x), m, n) = SubSeq(s, m, n)
  <2>1. CASE n < m
    BY <2>1, SubSeqEmpty
  <2>2. CASE m <= n
    <3>1. \A i \in m .. n : i \in 1 .. Len(s)
      OBVIOUS
    <3>2. \A i \in m .. n : Append(s, x)[i] = s[i] /\ s[i] \in S
      BY <1>1, <3>1
    <3>3. /\ SubSeq(s, m, n) \in Seq(S) /\ Len(SubSeq(s, m, n)) = n - m + 1
          /\ \A i \in 1 .. n - m + 1 : SubSeq(s, m, n)[i] = s[m + i - 1]
      BY <2>2, <3>2, SubSeqProperties
    <3>4. /\ SubSeq(Append(s, x), m, n) \in Seq(S) /\ Len(SubSeq(Append(s, x), m, n)) = n - m + 1
          /\ \A i \in 1 .. n - m + 1 : SubSeq(Append(s, x), m, n)[i] = Append(s, x)[m + i - 1]
      BY <2>2, <3>2, SubSeqProperties
    <3>5. \A i \in 1 .. n - m + 1 : m + i - 1 \in m .. n
      BY <2>2
    <3> QED
      BY <3>2, <3>3, <3>4, <3>5, SeqEqual
  <2> QED
    BY <2>1, <2>2
<1>3. ASSUME m <= Len(s) + 1
      PROVE  SubSeq(Append(s, x), m, Len(s) + 1) = Append(SubSeq(s, m, Len(s)), x)
  <2>1. m \in 1 .. Len(Append(s, x)) /\ Len(s) + 1 \in m .. Len(Append(s, x))
    BY <1>1, <1>3
  <2>2. SubSeq(Append(s, x), m, Len(s) + 1)
          = Append(SubSeq(Append(s, x), m, (Len(s) + 1) - 1), Append(s, x)[Len(s) + 1])
    BY <1>1, <2>1, SubSeqRecursiveSecond
  <2>3. (Len(s) + 1) - 1 = Len(s) /\ Len(s) \in 0 .. Len(s)
    BY <1>1
  <2> QED
    BY <1>1, <1>2, <2>2, <2>3
<1> QED
  BY <1>2, <1>3

\* Reading a line
LEMMA PartitionRead ==
  ASSUME TypeOK, Numbered, SentencesPartitionLines, NEW x \in Line,
         taken' = Append(taken, x), buffer' = Append(buffer, x), UNCHANGED sentences
  PROVE  Numbered' /\ SentencesPartitionLines'
<1>1. taken \in Seq(Line) /\ Len(taken) \in Nat /\ Len(taken') = Len(taken) + 1
  BY AppendAt DEF TypeOK
<1>2. Len(sentences') = Len(sentences)
  OBVIOUS
<1>3. \A k \in DOMAIN sentences : sentences[k].upto \in Nat /\ sentences[k].upto <= Len(taken)
  BY <1>1 DEF Numbered
<1>4. \A k \in 1 .. Len(sentences) + 1 : Before(sentences, k) \in Nat
  <2>1. Len(sentences) \in Nat /\ DOMAIN sentences = 1 .. Len(sentences)
    BY DEF TypeOK
  <2> QED
    BY <1>3, <2>1 DEF Before
<1>5. Len(sentences) \in Nat /\ DOMAIN sentences = 1 .. Len(sentences)
  BY DEF TypeOK
<1>6. Numbered'
  BY <1>1, <1>3 DEF Numbered
<1>7. ASSUME NEW k \in DOMAIN sentences
      PROVE  /\ Before(sentences, k) <= sentences[k].upto
             /\ sentences[k].lines = SubSeq(taken', Before(sentences, k) + 1, sentences[k].upto)
  <2>1. Before(sentences, k) + 1 \in Nat \ {0} /\ sentences[k].upto \in 0 .. Len(taken)
    BY <1>1, <1>3, <1>4, <1>5
  <2> QED
    BY <1>1, <2>1, SubSeqRead DEF SentencesPartitionLines
<1>8. Before(sentences, Len(sentences) + 1) \in Nat /\ Before(sentences, Len(sentences) + 1) <= Len(taken)
  BY <1>4, <1>5 DEF SentencesPartitionLines
<1>9. buffer' = SubSeq(taken', Before(sentences, Len(sentences) + 1) + 1, Len(taken'))
  <2>1. /\ Before(sentences, Len(sentences) + 1) + 1 \in Nat \ {0}
        /\ Before(sentences, Len(sentences) + 1) + 1 <= Len(taken) + 1
    BY <1>1, <1>8
  <2>2. SubSeq(taken', Before(sentences, Len(sentences) + 1) + 1, Len(taken) + 1)
          = Append(SubSeq(taken, Before(sentences, Len(sentences) + 1) + 1, Len(taken)), x)
    BY <1>1, <2>1, SubSeqRead
  <2> QED
    BY <1>1, <2>2 DEF SentencesPartitionLines
<1>10. \A k \in DOMAIN sentences' :
         /\ Before(sentences', k) <= sentences'[k].upto
         /\ sentences'[k].lines = SubSeq(taken', Before(sentences', k) + 1, sentences'[k].upto)
  BY <1>7
<1>11. Before(sentences', Len(sentences') + 1) <= Len(taken')
  BY <1>1, <1>8
<1>12. buffer' = SubSeq(taken', Before(sentences', Len(sentences') + 1) + 1, Len(taken'))
  BY <1>9
<1> QED
  BY <1>6, <1>10, <1>11, <1>12 DEF SentencesPartitionLines

\* The main loop with what it has read
LEMMA PartitionSentence ==
  ASSUME TypeOK, Numbered, SentencesPartitionLines, NEW r,
         r.lines = buffer, r.upto = Len(taken),
         sentences' = Append(sentences, r), buffer' = <<>>, UNCHANGED taken
  PROVE  /\ Numbered' /\ SentencesPartitionLines'
         /\ \E S : sentences' \in Seq(S)
         /\ DOMAIN sentences' = DOMAIN sentences \cup {Len(sentences) + 1}
         /\ \A k \in DOMAIN sentences : sentences'[k] = sentences[k]
         /\ sentences'[Len(sentences) + 1] = r
<1>1. PICK S : sentences \in Seq(S)
  BY DEF TypeOK
<1> DEFINE n == Len(sentences)
<1>2. sentences \in Seq(S \cup {r})
  BY <1>1
<1>3. /\ sentences' \in Seq(S \cup {r}) /\ n \in Nat /\ Len(sentences') = n + 1
      /\ DOMAIN sentences = 1 .. n /\ DOMAIN sentences' = 1 .. n + 1
      /\ \A k \in 1 .. n : sentences'[k] = sentences[k]
      /\ sentences'[n + 1] = r
  BY <1>2, AppendAt
<1>4. Len(taken) \in Nat
  BY DEF TypeOK
<1> HIDE DEF n
<1>5. 1 .. n + 1 = 1 .. n \cup {n + 1}
  BY <1>3
<1>6. \A k \in 1 .. n + 1 : Before(sentences', k) = Before(sentences, k)
  <2>1. \A k \in 1 .. n + 1 : k # 1 => k - 1 \in 1 .. n
    BY <1>3
  <2> QED
    BY <1>3, <2>1 DEF Before
<1>7. Before(sentences', n + 2) = Len(taken)
  <2>1. n + 2 # 1 /\ (n + 2) - 1 = n + 1
    BY <1>3
  <2> QED
    BY <1>3, <2>1 DEF Before
<1>8. Numbered'
  BY <1>3, <1>4, <1>5 DEF Numbered
<1>9. ASSUME NEW k \in 1 .. n + 1
      PROVE  /\ Before(sentences', k) <= sentences'[k].upto
             /\ sentences'[k].lines = SubSeq(taken, Before(sentences', k) + 1, sentences'[k].upto)
  <2>1. CASE k \in 1 .. n
    BY <1>3, <1>6, <2>1 DEF SentencesPartitionLines
  <2>2. CASE k = n + 1
    BY <1>3, <1>6, <2>2 DEF SentencesPartitionLines, n
  <2> QED
    BY <1>5, <2>1, <2>2
<1>10. SubSeq(taken, Len(taken) + 1, Len(taken)) = <<>>
  BY <1>4, SubSeqEmpty
<1>11. SentencesPartitionLines'
  <2>1. Len(sentences') + 1 = n + 2
    BY <1>3
  <2>2. Before(sentences', Len(sentences') + 1) = Len(taken)
    BY <1>7, <2>1
  <2>3. buffer' = SubSeq(taken, Before(sentences', Len(sentences') + 1) + 1, Len(taken))
    BY <1>10, <2>2
  <2> QED
    BY <1>3, <1>4, <1>9, <2>2, <2>3 DEF SentencesPartitionLines
<1> QED
  BY <1>3, <1>5, <1>8, <1>11 DEF n

-------------------------------------------------------------------------------
(* The comments                                                            *)

\* Lines of which none is a comment have none.
LEMMA NoComment ==
  ASSUME NEW s, \A k \in DOMAIN s : ~IsComment(s[k])
  PROVE  OwnComment(s) = <<>>
BY DEF OwnComment

\* The comment of lines is their last one that is a comment.
LEMMA LastComment ==
  ASSUME NEW s \in Seq(Line), NEW m \in DOMAIN s, IsComment(s[m]),
         \A k \in DOMAIN s : m < k => ~IsComment(s[k])
  PROVE  OwnComment(s) = <<s[m]>>
<1> DEFINE at == {k \in DOMAIN s : IsComment(s[k])}
<1>1. m \in at /\ at \subseteq Nat
  OBVIOUS
<1>2. \A k \in at : k <= m
  <2>1. \A k \in DOMAIN s : k \in Nat
    OBVIOUS
  <2> QED
    BY <1>1, <2>1
<1>3. \A k \in at : (\A j \in at : j <= k) => k = m
  BY <1>1, <1>2
<1>4. (CHOOSE k \in at : \A j \in at : j <= k) = m
  BY <1>1, <1>2, <1>3
<1>5. at # {}
  BY <1>1
<1> HIDE DEF at
<1>6. OwnComment(s) = IF at = {} THEN <<>> ELSE <<s[CHOOSE k \in at : \A j \in at : j <= k]>>
  BY DEF OwnComment, at
<1> QED
  BY <1>4, <1>5, <1>6

\* It depends on the files only.
LEMMA SameFiles ==
  ASSUME UNCHANGED input
  PROVE  /\ \A i : File(i)' = File(i)
         /\ \A i : AllTerminated(File(i))' <=> AllTerminated(File(i))
         /\ \A line : IsComment(line)' = IsComment(line)
         /\ \A s : OwnComment(s)' = OwnComment(s)
BY DEF File, Kind, IsComment, OwnComment, AllTerminated

-------------------------------------------------------------------------------
(* The steps                                                               *)

\* Steps that take no line
LEMMA QuietStep ==
  ASSUME Inv, UNCHANGED <<input, buffer, taken, sentences>>,
         TypeOK', StreamInv', LinesTakenInOrder', CommentInv'
  PROVE  Inv'
BY PartitionSame DEF Inv

LEMMA InitInv == Init => Inv
<1> SUFFICES ASSUME Init PROVE Inv
  OBVIOUS
<1>1. input \in Inputs /\ Len(input.files) \in Nat /\ input.files \in Seq(Files)
  BY InputConstants DEF Init
<1>2. File(0) \in Files /\ Len(File(0).lines) \in Nat /\ (Len(File(0).lines) = 0 => AllTerminated(File(0)))
  <2>1. 0 \in 0 .. Len(input.files)
    BY <1>1
  <2> QED
    BY <1>1, <2>1, FileType
<1>3. TypeOK
  <2>1. sentences \in Seq({})
    BY DEF Init
  <2> QED
    BY <1>1, <2>1 DEF Init, TypeOK
<1>4. StreamInv
  BY <1>2 DEF Init, StreamInv, AtEnd, Good
<1>5. Numbered /\ CommentInv
  BY DEF Init, Numbered, CommentInv
<1>6. SentencesPartitionLines
  <2>1. Before(<<>>, 1) = 0
    BY DEF Before
  <2>2. SubSeq(<<>>, 1, 0) = <<>>
    BY SubSeqEmpty
  <2> QED
    BY <2>1, <2>2 DEF Init, SentencesPartitionLines
<1>7. LinesTakenInOrder
  <2>1. \A y : ~Read(y, 0, 0)
    BY DEF Read
  <2>2. LinesRead = {}
    BY <2>1, ReadLines DEF Init
  <2> QED
    BY <2>2 DEF Init, LinesTakenInOrder, ToSet
<1> QED
  BY <1>3, <1>4, <1>5, <1>6, <1>7 DEF Inv

\* The comments of the sentences, when the raw reader has none of a new one
LEMMA CommentsQuiet ==
  ASSUME Inv, UNCHANGED <<input, buffer, comment, sentences>>,
         buffer = <<>> \/ pc' = pc,
         pc' \in {"start", "next", "line", "exit"}
  PROVE  CommentInv'
BY SameFiles DEF Inv, CommentInv

LEMMA InitializeStep == Inv /\ Initialize => Inv'
<1> SUFFICES ASSUME Inv, Initialize PROVE Inv'
  OBVIOUS
<1>1. /\ UNCHANGED <<input, buffer, comment, taken, sentences>> /\ pc' = "next" /\ pc = "start"
      /\ current = 0 /\ stream.file = 0 /\ stream.pos = 0 /\ buffer = <<>>
  BY DEF Inv, Initialize, StreamInv
<1>2. input.files \in Seq(Files) /\ Len(input.files) \in Nat /\ input \in Inputs
  BY InputConstants DEF Inv, TypeOK
<1>3. CommentInv'
  BY <1>1, CommentsQuiet
<1>4. CASE input.files # <<>> /\ MoveToNextFile
  <2>1. current' = 1 /\ stream' = [file |-> 1, pos |-> 0, eof |-> FALSE, fail |-> ~File(1).opens]
    BY <1>1, <1>4 DEF MoveToNextFile, Opened
  <2>2. 1 \in 0 .. Len(input.files)
    BY <1>2, <1>4
  <2>3. File(1) \in Files /\ Len(File(1).lines) \in Nat /\ (Len(File(1).lines) = 0 => AllTerminated(File(1)))
    BY <1>2, <2>2, FileType
  <2>4. TypeOK'
    BY <1>1, <2>1, <2>2 DEF Inv, TypeOK
  <2>5. StreamInv'
    BY <1>1, <2>1, <2>3, SameFiles DEF StreamInv, AtEnd, Good
  <2>6. LinesTakenInOrder'
    BY <1>1, <2>1, FileAdded DEF Inv
  <2> QED
    BY <1>1, <1>3, <2>4, <2>5, <2>6, QuietStep
<1>5. CASE input.files = <<>> /\ UNCHANGED <<stream, current>>
  <2>1. TypeOK'
    BY <1>1, <1>5 DEF Inv, TypeOK
  <2>2. StreamInv'
    BY <1>1, <1>5, SameFiles DEF Inv, StreamInv, AtEnd, Good
  <2>3. LinesTakenInOrder'
    BY <1>1, <1>5, LinesSame DEF Inv
  <2> QED
    BY <1>1, <1>3, <2>1, <2>2, <2>3, QuietStep
<1> QED
  BY <1>4, <1>5 DEF Initialize

\* hasNext answers from the stream as it is; failed streams are not read.
LEMMA AnswerStep == Inv /\ (HasNext \/ FailedStream) => Inv'
<1> SUFFICES ASSUME Inv, HasNext \/ FailedStream PROVE Inv'
  OBVIOUS
<1>1. /\ UNCHANGED <<input, current, stream, buffer, comment, taken, sentences>>
      /\ buffer = <<>> /\ pc \in {"next", "line"} /\ pc' \in {"next", "line", "exit"}
      /\ pc' = "exit" => stream.eof /\ ~(current < Len(input.files))
  BY DEF Inv, HasNext, HasNextFile, Good, Following, FailedStream, StreamInv
<1>2. TypeOK'
  BY <1>1 DEF Inv, TypeOK
<1>3. StreamInv'
  BY <1>1, SameFiles DEF Inv, StreamInv, AtEnd, Good
<1>4. LinesTakenInOrder'
  BY <1>1, LinesSame DEF Inv
<1>5. CommentInv'
  BY <1>1, CommentsQuiet
<1> QED
  BY <1>1, <1>2, <1>3, <1>4, <1>5, QuietStep

LEMMA PeekEndStep == Inv /\ PeekEnd => Inv'
<1> SUFFICES ASSUME Inv, PeekEnd PROVE Inv'
  OBVIOUS
<1>1. /\ UNCHANGED <<input, current, buffer, comment, taken, sentences>>
      /\ buffer = <<>> /\ pc = "next" /\ pc' = "exit" /\ AtEnd /\ Good
      /\ stream' = [stream EXCEPT !.eof = TRUE]
      /\ stream \in [file : Nat, pos : Nat, eof : BOOLEAN, fail : BOOLEAN]
  BY DEF Inv, PeekEnd, StreamInv, TypeOK
<1>2. /\ stream'.file = stream.file /\ stream'.pos = stream.pos
      /\ stream' \in [file : Nat, pos : Nat, eof : BOOLEAN, fail : BOOLEAN]
  BY <1>1
<1>3. TypeOK'
  BY <1>1, <1>2 DEF Inv, TypeOK
<1>4. StreamInv'
  BY <1>1, <1>2, SameFiles DEF Inv, StreamInv, AtEnd, Good
<1>5. LinesTakenInOrder'
  BY <1>1, <1>2, LinesSame DEF Inv
<1>6. CommentInv'
  BY <1>1, CommentsQuiet
<1> QED
  BY <1>1, <1>3, <1>4, <1>5, <1>6, QuietStep

\* Another file is opened only at the end of the one before it.
LEMMA NextFileStep == Inv /\ NextFile => Inv'
<1> SUFFICES ASSUME Inv, NextFile PROVE Inv'
  OBVIOUS
<1>1. /\ UNCHANGED <<input, buffer, comment, taken, sentences>>
      /\ buffer = <<>> /\ pc = "next" /\ pc' = "line"
      /\ AtEnd /\ current < Len(input.files)
      /\ current' = current + 1
      /\ stream' = [file |-> current + 1, pos |-> 0, eof |-> FALSE,
                    fail |-> ~File(current + 1).opens]
  BY DEF Inv, NextFile, HasNextFile, MoveToNextFile, Opened, StreamInv
<1>2. input.files \in Seq(Files) /\ Len(input.files) \in Nat /\ input \in Inputs
  BY InputConstants DEF Inv, TypeOK
<1>3. current \in Nat /\ current # 0 /\ current + 1 \in 1 .. Len(input.files)
  BY <1>1, <1>2 DEF Inv, TypeOK, StreamInv
<1>4. /\ File(current + 1) \in Files /\ Len(File(current + 1).lines) \in Nat
      /\ Len(File(current + 1).lines) = 0 => AllTerminated(File(current + 1))
  <2>1. current + 1 \in 0 .. Len(input.files)
    BY <1>2, <1>3
  <2> QED
    BY <1>2, <2>1, FileType
<1>5. TypeOK'
  BY <1>1, <1>3 DEF Inv, TypeOK
<1>6. StreamInv'
  BY <1>1, <1>3, <1>4, SameFiles DEF StreamInv, AtEnd, Good
<1>7. LinesTakenInOrder'
  BY <1>1, <1>3, FileAdded DEF Inv
<1>8. CommentInv'
  BY <1>1, CommentsQuiet
<1> QED
  BY <1>1, <1>5, <1>6, <1>7, <1>8, QuietStep

\* A stream that has moved
LEMMA StreamMoved ==
  ASSUME NEW s \in [file : Nat, pos : Nat, eof : BOOLEAN, fail : BOOLEAN],
         NEW p \in Nat, NEW e \in BOOLEAN, NEW r, r = [s EXCEPT !.pos = p, !.eof = e]
  PROVE  /\ r \in [file : Nat, pos : Nat, eof : BOOLEAN, fail : BOOLEAN]
         /\ r.file = s.file /\ r.pos = p /\ r.eof = e /\ r.fail = s.fail
<1>1. s = [file |-> s.file, pos |-> s.pos, eof |-> s.eof, fail |-> s.fail]
  OBVIOUS
<1>2. r = [file |-> s.file, pos |-> p, eof |-> e, fail |-> s.fail]
  BY <1>1, Zenon
<1>3. s.file \in Nat /\ s.fail \in BOOLEAN
  OBVIOUS
<1>4. r \in [file : Nat, pos : Nat, eof : BOOLEAN, fail : BOOLEAN]
  BY <1>2, <1>3, Zenon
<1>5. r.file = s.file /\ r.pos = p /\ r.eof = e /\ r.fail = s.fail
  BY <1>2, Zenon
<1> QED
  BY <1>4, <1>5

\* A line, or the end of the file: all but the comment.
LEMMA LineRead ==
  ASSUME Inv, pc = "line", buffer = <<>> => ~stream.fail, Getline,
         buffer' = IF GotLine THEN Append(buffer, Last(taken')) ELSE buffer,
         pc' \in {"line", "example"}, pc' = "line" => GotLine,
         UNCHANGED <<input, current, sentences>>
  PROVE  /\ TypeOK' /\ StreamInv' /\ LinesTakenInOrder'
         /\ Numbered' /\ SentencesPartitionLines'
<1> DEFINE T == [file : Nat, pos : Nat, eof : BOOLEAN, fail : BOOLEAN]
<1>1. /\ input \in Inputs /\ current \in 0 .. Len(input.files) /\ stream \in T
      /\ stream.file = current /\ stream.file \in Nat /\ stream.pos \in Nat
      /\ stream.pos <= Len(File(current).lines) /\ Len(File(current).lines) \in Nat
      /\ current = 0 => input.files = <<>>
      /\ taken \in Seq(Line) /\ buffer \in Seq(Line)
  <2>1. input \in Inputs /\ current \in 0 .. Len(input.files)
    BY DEF Inv, TypeOK
  <2>2. Len(File(current).lines) \in Nat
    BY <2>1, FileType
  <2> QED
    BY <2>1, <2>2 DEF Inv, TypeOK, StreamInv
<1>2. CASE /\ AtEnd /\ taken' = taken /\ ~GotLine
           /\ stream' = [stream EXCEPT !.eof = TRUE, !.fail = TRUE]
  <2>1. stream' \in T /\ stream'.file = stream.file /\ stream'.pos = stream.pos
        /\ stream'.eof
    BY <1>1, <1>2
  <2>2. buffer' = buffer /\ pc' = "example"
    BY <1>2
  <2>3. TypeOK'
    BY <1>1, <1>2, <2>1, <2>2 DEF Inv, TypeOK
  <2>4. StreamInv'
    BY <1>1, <1>2, <2>1, <2>2, SameFiles DEF StreamInv, AtEnd, Good
  <2>5. LinesTakenInOrder'
    BY <1>2, <2>1, LinesSame DEF Inv
  <2> QED
    BY <1>2, <2>2, <2>3, <2>4, <2>5, PartitionSame DEF Inv
<1>3. CASE /\ Good /\ ~AtEnd /\ taken' = Append(taken, <<stream.file, stream.pos + 1>>) /\ GotLine
           /\ stream' = [stream EXCEPT !.pos = @ + 1,
                            !.eof = stream.pos + 1 = Len(File(stream.file).lines)
                                      /\ ~File(stream.file).closed]
  <2> DEFINE x == <<stream.file, stream.pos + 1>>
             e == stream.pos + 1 = Len(File(stream.file).lines) /\ ~File(stream.file).closed
  <2>1. x \in Line
    BY <1>1 DEF Line
  <2>2. /\ stream' \in T /\ stream'.file = stream.file /\ stream'.pos = stream.pos + 1
        /\ stream'.eof = e /\ stream'.fail = stream.fail
    <3>1. e \in BOOLEAN
      OBVIOUS
    <3>2. stream' = [stream EXCEPT !.pos = stream.pos + 1, !.eof = e]
      BY <1>1, <1>3
    <3> HIDE DEF e
    <3>3. stream.pos + 1 \in Nat
      BY <1>1
    <3> QED
      BY <1>1, <3>1, <3>2, <3>3, StreamMoved
  <2>3. stream.pos + 1 <= Len(File(current).lines) /\ ~stream'.fail
    BY <1>1, <1>3, <2>2 DEF AtEnd, Good
  <2>4. /\ stream'.eof => stream.pos + 1 = Len(File(current).lines)
        /\ stream.pos + 1 = Len(File(current).lines) => stream'.eof \/ AllTerminated(File(current))
    BY <1>1, <2>2 DEF AllTerminated
  <2>5. taken' \in Seq(Line) /\ Last(taken') = x
    <3>1. /\ Append(taken, x) \in Seq(Line) /\ Len(Append(taken, x)) = Len(taken) + 1
          /\ Append(taken, x)[Len(taken) + 1] = x
      BY <1>1, <2>1, AppendAt
    <3> QED
      BY <1>3, <3>1 DEF Last
  <2> HIDE DEF x, e
  <2>6. buffer' = Append(buffer, x) /\ buffer' \in Seq(Line)
    BY <1>1, <1>3, <2>1, <2>5, AppendAt
  <2>7. TypeOK'
    BY <1>1, <2>2, <2>5, <2>6 DEF Inv, TypeOK
  <2>8. StreamInv'
    BY <1>1, <2>2, <2>3, <2>4, SameFiles DEF StreamInv, AtEnd, Good
  <2>9. LinesTakenInOrder'
    BY <1>3, <2>2, LineAdded DEF Inv
  <2> QED
    BY <1>3, <2>1, <2>6, <2>7, <2>8, <2>9, PartitionRead DEF Inv, x
<1> QED
  BY <1>2, <1>3, GetlineCases DEF Inv

\* A line is a line.
LEMMA GotLineType ==
  ASSUME Inv, pc = "line", buffer = <<>> => ~stream.fail, Getline, GotLine
  PROVE  Last(taken') \in Line
<1> DEFINE x == <<stream.file, stream.pos + 1>>
<1>1. taken' = Append(taken, x)
  BY GetlineCases DEF Inv
<1>2. taken \in Seq(Line) /\ x \in Line
  BY DEF Inv, TypeOK, Line
<1>3. Len(taken') = Len(taken) + 1 /\ taken'[Len(taken) + 1] = x
  BY <1>1, <1>2, AppendAt
<1> QED
  BY <1>2, <1>3 DEF Last

\* The comments of the sentences stay while one is being read.
LEMMA RawCommentRead ==
  ASSUME Inv, input.reader = "Raw", pc = "line", UNCHANGED <<input, sentences>>, NEW line,
         \/ line = <<>> /\ buffer' = buffer
         \/ \E x \in Line : line = <<x>> /\ buffer' = Append(buffer, x),
         IF line # <<>> /\ IsComment(line[1])
         THEN comment' = line /\ pc' = "line"
         ELSE comment' = ClearedComment(buffer) /\ pc' = "example"
  PROVE  CommentInv'
<1>1. /\ buffer \in Seq(Line) /\ Len(buffer) \in Nat /\ DOMAIN buffer = 1 .. Len(buffer)
      /\ buffer # <<>> => /\ comment = <<Last(buffer)>>
                          /\ \A k \in DOMAIN buffer : IsComment(buffer[k])
      /\ \A k \in DOMAIN sentences : sentences[k].comment = OwnComment(sentences[k].lines)
  BY DEF Inv, TypeOK, CommentInv
<1>2. \A k \in DOMAIN sentences' : sentences'[k].comment = OwnComment(sentences'[k].lines)
  BY <1>1
<1>3. SUFFICES /\ pc' = "line" => /\ comment' = <<Last(buffer')>>
                                  /\ \A k \in DOMAIN buffer' : IsComment(buffer'[k])
               /\ pc' = "example" => comment' = OwnComment(buffer')
  <2>1. pc' \in {"line", "example"}
    OBVIOUS
  <2> QED
    BY <1>2, <1>3, <2>1, SameFiles DEF CommentInv
<1>4. CASE line = <<>> /\ buffer' = buffer
  <2>1. comment' = ClearedComment(buffer) /\ pc' = "example"
    BY <1>4
  <2>2. CASE buffer = <<>>
    <3>1. OwnComment(<<>>) = <<>>
      BY NoComment
    <3> QED
      BY <1>4, <2>1, <2>2, <3>1 DEF ClearedComment
  <2>3. CASE buffer # <<>>
    <3>1. Len(buffer) \in DOMAIN buffer
      BY <1>1, <2>3
    <3>2. OwnComment(buffer) = <<buffer[Len(buffer)]>>
      <4>1. \A k \in DOMAIN buffer : ~(Len(buffer) < k)
        BY <1>1
      <4> QED
        BY <1>1, <2>3, <3>1, <4>1, LastComment
    <3> QED
      BY <1>1, <1>4, <2>1, <2>3, <3>2 DEF ClearedComment, Last
  <2> QED
    BY <2>2, <2>3
<1>5. ASSUME NEW x \in Line, line = <<x>>, buffer' = Append(buffer, x)
      PROVE  /\ pc' = "line" => /\ comment' = <<Last(buffer')>>
                                /\ \A k \in DOMAIN buffer' : IsComment(buffer'[k])
             /\ pc' = "example" => comment' = OwnComment(buffer')
  <2> DEFINE n == Len(buffer)
  <2>1. /\ buffer' \in Seq(Line) /\ Len(buffer') = n + 1 /\ DOMAIN buffer' = 1 .. n + 1
        /\ \A k \in 1 .. n : buffer'[k] = buffer[k]
        /\ buffer'[n + 1] = x
    BY <1>1, <1>5, AppendAt
  <2>2. line # <<>> /\ line[1] = x
    BY <1>5
  <2>3. 1 .. n + 1 = 1 .. n \cup {n + 1} /\ n \in Nat
    BY <1>1
  <2>4. \A k \in 1 .. n : IsComment(buffer'[k])
    <3>1. CASE buffer = <<>>
      BY <3>1
    <3>2. CASE buffer # <<>>
      BY <1>1, <2>1, <3>2
    <3> QED
      BY <3>1, <3>2
  <2>5. CASE IsComment(x)
    <3>1. comment' = <<x>> /\ pc' = "line"
      BY <1>5, <2>2, <2>5
    <3>2. \A k \in DOMAIN buffer' : IsComment(buffer'[k])
      BY <2>1, <2>3, <2>4, <2>5
    <3>3. Last(buffer') = x
      BY <2>1 DEF Last
    <3> QED
      BY <3>1, <3>2, <3>3
  <2>6. CASE ~IsComment(x)
    <3>1. comment' = ClearedComment(buffer) /\ pc' = "example"
      BY <1>5, <2>2, <2>6
    <3>2. CASE buffer = <<>>
      <4>1. n = 0
        BY <3>2
      <4>2. \A k \in DOMAIN buffer' : ~IsComment(buffer'[k])
        BY <2>1, <2>6, <4>1
      <4>3. OwnComment(buffer') = <<>>
        BY <4>2, NoComment
      <4> QED
        BY <3>1, <3>2, <4>3 DEF ClearedComment
    <3>3. CASE buffer # <<>>
      <4>1. n \in DOMAIN buffer' /\ buffer'[n] = buffer[n] /\ n \in 1 .. n
        BY <1>1, <2>1, <3>3
      <4>2. \A k \in DOMAIN buffer' : n < k => ~IsComment(buffer'[k])
        BY <2>1, <2>3, <2>6
      <4>3. OwnComment(buffer') = <<buffer'[n]>>
        BY <2>1, <2>4, <4>1, <4>2, LastComment
      <4>4. comment = <<buffer[n]>>
        BY <1>1, <3>3 DEF Last
      <4> QED
        BY <3>1, <3>3, <4>1, <4>3, <4>4 DEF ClearedComment
    <3> QED
      BY <3>2, <3>3
  <2> QED
    BY <2>5, <2>6
<1> QED
  BY <1>4, <1>5

LEMMA RawLineStep == Inv /\ RawLine => Inv'
<1> SUFFICES ASSUME Inv, RawLine PROVE Inv'
  OBVIOUS
<1> DEFINE line == IF GotLine THEN <<Last(taken')>> ELSE <<>>
<1>1. /\ pc = "line" /\ input.reader = "Raw" /\ (buffer = <<>> => ~stream.fail)
      /\ Getline /\ UNCHANGED <<input, current, result, sentences>>
      /\ buffer' = buffer \o line
      /\ IF GotLine /\ IsComment(line[1])
         THEN comment' = line /\ pc' = "line"
         ELSE comment' = ClearedComment(buffer) /\ pc' = "example"
  BY DEF RawLine
<1>2. buffer \in Seq(Line)
  BY DEF Inv, TypeOK
<1>3. CASE GotLine
  <2>1. Last(taken') \in Line
    BY <1>1, <1>3, GotLineType
  <2>2. line = <<Last(taken')>> /\ line # <<>>
    BY <1>3
  <2> HIDE DEF line
  <2>3. buffer' = Append(buffer, Last(taken'))
    BY <1>1, <1>2, <2>1, <2>2, AppendIsConcat
  <2>4. CommentInv'
    BY <1>1, <1>3, <2>1, <2>2, <2>3, RawCommentRead
  <2>5. /\ TypeOK' /\ StreamInv' /\ LinesTakenInOrder'
        /\ Numbered' /\ SentencesPartitionLines'
    BY <1>1, <1>3, <2>3, LineRead
  <2> QED
    BY <2>4, <2>5 DEF Inv
<1>4. CASE ~GotLine
  <2>1. line = <<>>
    BY <1>4
  <2> HIDE DEF line
  <2>2. buffer' = buffer
    BY <1>1, <1>2, <2>1
  <2>3. CommentInv'
    BY <1>1, <1>4, <2>1, <2>2, RawCommentRead
  <2>4. /\ TypeOK' /\ StreamInv' /\ LinesTakenInOrder'
        /\ Numbered' /\ SentencesPartitionLines'
    BY <1>1, <1>4, <2>2, LineRead
  <2> QED
    BY <2>3, <2>4 DEF Inv
<1> QED
  BY <1>3, <1>4

LEMMA PartialLineStep == Inv /\ PartialLine => Inv'
<1> SUFFICES ASSUME Inv, PartialLine PROVE Inv'
  OBVIOUS
<1>1. /\ pc = "line" /\ input.reader = "Partial" /\ (buffer = <<>> => ~stream.fail)
      /\ Getline /\ UNCHANGED <<input, current, comment, result, sentences>>
      /\ buffer' = IF GotLine THEN Append(buffer, Last(taken')) ELSE buffer
      /\ pc' \in {"line", "example"} /\ (pc' = "line" => GotLine)
  BY DEF PartialLine
<1>2. CommentInv'
  BY <1>1 DEF CommentInv
<1> QED
  BY <1>1, <1>2, LineRead DEF Inv

\* The raw reader leaves the comment as it is when it takes the text apart.
LEMMA AcceptStep == Inv /\ AcceptExample => Inv'
<1> SUFFICES ASSUME Inv, AcceptExample PROVE Inv'
  OBVIOUS
<1>1. /\ pc = "example" /\ pc' = "analyze" /\ comment' = CommentRead
      /\ UNCHANGED <<input, current, stream, buffer, taken, sentences>>
  BY DEF AcceptExample
<1>2. TypeOK'
  BY <1>1 DEF Inv, TypeOK
<1>3. StreamInv'
  BY <1>1, SameFiles DEF Inv, StreamInv, AtEnd, Good
<1>4. LinesTakenInOrder'
  BY <1>1, LinesSame DEF Inv
<1>5. CommentInv'
  <2>1. CASE input.reader = "Raw"
    <3>1. comment' = comment
      BY <1>1, <2>1 DEF CommentRead
    <3> QED
      BY <1>1, <2>1, <3>1, SameFiles DEF Inv, CommentInv
  <2>2. CASE input.reader # "Raw"
    BY <1>1, <2>2 DEF CommentInv
  <2> QED
    BY <2>1, <2>2
<1> QED
  BY <1>1, <1>2, <1>3, <1>4, <1>5, QuietStep

\* The main loop with an input that was read, or was not
LEMMA SentenceStep == Inv /\ (RejectExample \/ Analyze) => Inv'
<1> SUFFICES ASSUME Inv, RejectExample \/ Analyze PROVE Inv'
  OBVIOUS
<1>1. PICK r :
        /\ r.lines = buffer /\ r.upto = Len(taken) /\ r.comment = comment'
        /\ sentences' = Append(sentences, r)
  <2>1. CASE RejectExample
    BY <2>1 DEF RejectExample, ReadingFails
  <2>2. CASE Analyze
    BY <2>2 DEF Analyze
  <2> QED
    BY <2>1, <2>2
<1>2. /\ pc \in {"example", "analyze"} /\ pc' = "next" /\ buffer' = <<>>
      /\ UNCHANGED <<input, current, stream, taken>>
      /\ comment' = comment \/ comment' = CommentRead
  BY DEF RejectExample, ReadingFails, Analyze
<1>3. /\ Numbered' /\ SentencesPartitionLines'
      /\ \E S : sentences' \in Seq(S)
      /\ DOMAIN sentences' = DOMAIN sentences \cup {Len(sentences) + 1}
      /\ \A k \in DOMAIN sentences : sentences'[k] = sentences[k]
      /\ sentences'[Len(sentences) + 1] = r
  BY <1>1, <1>2, PartitionSentence DEF Inv
<1>4. TypeOK'
  BY <1>2, <1>3 DEF Inv, TypeOK
<1>5. StreamInv'
  BY <1>2, SameFiles DEF Inv, StreamInv, AtEnd, Good
<1>6. LinesTakenInOrder'
  BY <1>2, LinesSame DEF Inv
<1>7. CommentInv'
  <2>1. CASE input.reader = "Raw"
    <3>1. comment' = comment
      BY <1>2, <2>1 DEF CommentRead
    <3>2. r.comment = OwnComment(r.lines)
      BY <1>1, <1>2, <2>1, <3>1 DEF Inv, CommentInv
    <3>3. \A k \in DOMAIN sentences' : sentences'[k].comment = OwnComment(sentences'[k].lines)
      BY <1>3, <2>1, <3>2 DEF Inv, CommentInv
    <3> QED
      BY <1>2, <3>3, SameFiles DEF CommentInv
  <2>2. CASE input.reader # "Raw"
    BY <1>2, <2>2 DEF CommentInv
  <2> QED
    BY <2>1, <2>2
<1> QED
  BY <1>3, <1>4, <1>5, <1>6, <1>7 DEF Inv

\* A step of nobody
LEMMA Stutter == Inv /\ UNCHANGED vars => Inv'
<1> SUFFICES ASSUME Inv, UNCHANGED vars PROVE Inv'
  OBVIOUS
<1>1. UNCHANGED <<input, pc, current, stream, buffer, comment, taken, sentences>>
  BY DEF vars
<1>2. TypeOK'
  BY <1>1 DEF Inv, TypeOK
<1>3. StreamInv'
  BY <1>1, SameFiles DEF Inv, StreamInv, AtEnd, Good
<1>4. LinesTakenInOrder'
  BY <1>1, LinesSame DEF Inv
<1>5. CommentInv'
  BY <1>1, SameFiles DEF Inv, CommentInv
<1> QED
  BY <1>1, <1>2, <1>3, <1>4, <1>5, QuietStep

LEMMA NextInv == Inv /\ [Next]_vars => Inv'
BY InitializeStep, PeekEndStep, NextFileStep, AnswerStep, RawLineStep, PartialLineStep,
   SentenceStep, AcceptStep, Stutter DEF Next, Step, Exit

\* The variables keep their types, and the stream is where the reader thinks:
\* at the end of its file once eof is set.
THEOREM StreamCorrect == Spec => [](TypeOK /\ StreamInv)
<1>1. Inv => TypeOK /\ StreamInv
  BY DEF Inv
<1> QED
  BY <1>1, InitInv, NextInv, PTL DEF Spec

\* Whatever the files and the reader, every line of a file that was read and left
\* has been taken once, in order, and belongs to one sentence.
THEOREM EveryLineOnce == Spec => []NoLineLostOrRepeated
<1>1. Inv => NoLineLostOrRepeated
  BY DEF Inv, StreamInv, NoLineLostOrRepeated
<1> QED
  BY <1>1, InitInv, NextInv, PTL DEF Spec

\* Whatever the files, raw sentences have the comment lines before them.
THEOREM RawCommentsKept == Spec => []RawCommentsAreTheirOwn
<1>1. Inv => RawCommentsAreTheirOwn
  BY DEF Inv, CommentInv, RawCommentsAreTheirOwn, CommentsAreTheirOwn
<1> QED
  BY <1>1, InitInv, NextInv, PTL DEF Spec
===============================================================================
