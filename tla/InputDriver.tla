------------------------------ MODULE InputDriver ------------------------------
(***************************************************************************)
(* How jumanpp reads its input: the loop of main with InputOutput          *)
(* (jumandic/main/jumanpp.cc), which goes from one input file to the next, *)
(* and the two readers, PlainStreamReader (core/input/stream_reader.cc)    *)
(* and PexStreamReader (pex_stream_reader.cc, partial_example_io.cc), that *)
(* take sentences and their comments from a stream.                        *)
(*                                                                         *)
(* A line is what the reader makes of it.  A stream is a std::istream:     *)
(* good as long as neither eof nor fail.  Lines are named by their place,  *)
(* <<file, line>>; file 0 is the standard input.                           *)
(***************************************************************************)
EXTENDS Integers, Sequences, SequencesExt

CONSTANT Inputs   \* [reader, files, stdin]: what the program is run on

LineKinds == {"text", "blank", "comment", "bad", "badComment"}

\* closed: the last line of the file ends with a newline.
Files == [opens : BOOLEAN, closed : BOOLEAN, lines : Seq(LineKinds)]

ASSUME InputConstants ==
  Inputs \subseteq [reader : {"Raw", "Partial"}, files : Seq(Files), stdin : Files]

VARIABLES input,      \* the command line and the files
          pc,         \* "start", "next", "line", "example", "analyze", "exit"
          current,    \* currentInFile_: files that have been opened
          stream,     \* input_: [file, pos, eof, fail]
          buffer,     \* the lines of the sentence being read
          comment,    \* comment_ of the reader, <<>> if it is empty
          result,     \* the exit code
          taken,      \* history: the lines read
          sentences   \* history: what readExample returned, the output, and
                      \* how many lines had been taken by then

vars == <<input, pc, current, stream, buffer, comment, result, taken, sentences>>

File(i) == IF i = 0 THEN input.stdin ELSE input.files[i]
Kind(line) == File(line[1]).lines[line[2]]
IsComment(line) == Kind(line) \in {"comment", "badComment"}

AtEnd == stream.pos = Len(File(stream.file).lines)
Good == ~stream.eof /\ ~stream.fail

\* A stream as the constructor of std::ifstream leaves it
Opened(i) == [file |-> i, pos |-> 0, eof |-> FALSE, fail |-> ~File(i).opens]

Init ==
  /\ input \in Inputs
  /\ pc = "start"
  /\ current = 0
  /\ stream = [file |-> 0, pos |-> 0, eof |-> FALSE, fail |-> FALSE]
  /\ buffer = <<>>
  /\ comment = <<>>
  /\ result = 0
  /\ taken = <<>>
  /\ sentences = <<>>

\* moveToNextFile; bad() is false for a file that could not be opened.
MoveToNextFile ==
  /\ stream' = Opened(current + 1)
  /\ current' = current + 1

\* InputOutput::initialize
Initialize ==
  /\ pc = "start"
  /\ IF input.files # <<>> THEN MoveToNextFile ELSE UNCHANGED <<stream, current>>
  /\ pc' = "next"
  /\ UNCHANGED <<input, buffer, comment, result, taken, sentences>>

\* hasNext: at the end of a good stream, peek finds that nothing follows.
PeekEnd ==
  /\ pc = "next"
  /\ Good /\ AtEnd
  /\ stream' = [stream EXCEPT !.eof = TRUE]
  /\ pc' = "exit"
  /\ UNCHANGED <<input, current, buffer, comment, result, taken, sentences>>

\* Mutation of HasNextFile: the last file is not opened.
HasNextFileButLast == stream.eof /\ current + 1 < Len(input.files)

HasNextFile == stream.eof /\ current < Len(input.files)

\* hasNext: the stream is at its end, and there is another file.
NextFile ==
  /\ pc = "next"
  /\ ~Good /\ HasNextFile
  /\ MoveToNextFile
  /\ pc' = "line"
  /\ UNCHANGED <<input, buffer, comment, result, taken, sentences>>

\* Mutation of Following: a failure is asked for before the end.
FollowingFailure == IF stream.eof /\ ~stream.fail THEN "exit" ELSE "line"

\* What hasNext answers, by the end of the stream
Following == IF stream.eof THEN "exit" ELSE "line"

\* hasNext: otherwise all depends on the end of the stream.
HasNext ==
  /\ pc = "next"
  /\ IF Good THEN ~AtEnd ELSE ~HasNextFile
  /\ pc' = Following
  /\ UNCHANGED <<input, current, stream, buffer, comment, result, taken, sentences>>

\* The main loop after an input that could not be read
ReadingFails ==
  /\ sentences' = Append(sentences, [lines |-> buffer, comment |-> comment', output |-> "error",
                                       upto |-> Len(taken)])
  /\ result' = 1
  /\ buffer' = <<>>
  /\ pc' = "next"

\* nextInput on a stream that has failed
FailedStream ==
  /\ pc = "line" /\ buffer = <<>>
  /\ stream.fail
  /\ pc' = "next"
  /\ result' = 1
  /\ UNCHANGED <<input, current, stream, buffer, comment, taken, sentences>>

\* Mutation of Getline: the last line comes again at the end of the stream.
GetlineAgain ==
  IF AtEnd /\ stream.pos > 0
  THEN /\ stream' = [stream EXCEPT !.eof = TRUE, !.fail = TRUE]
       /\ taken' = Append(taken, <<stream.file, stream.pos>>)
  ELSE IF ~Good \/ AtEnd
  THEN /\ stream' = [stream EXCEPT !.eof = TRUE, !.fail = TRUE]
       /\ UNCHANGED taken
  ELSE /\ stream' = [stream EXCEPT !.pos = @ + 1,
                                   !.eof = stream.pos + 1 = Len(File(stream.file).lines)
                                             /\ ~File(stream.file).closed]
       /\ taken' = Append(taken, <<stream.file, stream.pos + 1>>)

\* std::getline: the last line of a file that does not end with a newline also
\* meets the end of the stream, and a line after the last one fails.
Getline ==
  IF ~Good \/ AtEnd
  THEN /\ stream' = [stream EXCEPT !.eof = TRUE, !.fail = TRUE]
       /\ UNCHANGED taken
  ELSE /\ stream' = [stream EXCEPT !.pos = @ + 1,
                                   !.eof = stream.pos + 1 = Len(File(stream.file).lines)
                                             /\ ~File(stream.file).closed]
       /\ taken' = Append(taken, <<stream.file, stream.pos + 1>>)

GotLine == taken' # taken

\* Mutation of ClearedComment: a comment waits for its sentence.
ClearedCommentNever(line) == comment

\* PlainStreamReader::readExample begins without a comment.
ClearedComment(line) == IF line = <<>> THEN <<>> ELSE comment

\* PlainStreamReader::readExample, one line; a comment is followed by another
\* line, and the end of the stream is an empty one.
RawLine ==
  /\ pc = "line"
  /\ input.reader = "Raw"
  /\ buffer = <<>> => ~stream.fail
  /\ Getline
  /\ LET line == IF GotLine THEN <<Last(taken')>> ELSE <<>>
     IN IF GotLine /\ IsComment(line[1])
        THEN comment' = line /\ buffer' = buffer \o line /\ pc' = "line"
        ELSE comment' = ClearedComment(buffer) /\ buffer' = buffer \o line /\ pc' = "example"
  /\ UNCHANGED <<input, current, result, sentences>>

\* PexStreamReader::readExample, one line, up to a blank one or the end
PartialLine ==
  /\ pc = "line"
  /\ input.reader = "Partial"
  /\ buffer = <<>> => ~stream.fail
  /\ Getline
  /\ buffer' = IF GotLine THEN Append(buffer, Last(taken')) ELSE buffer
  /\ pc' = IF GotLine /\ Kind(Last(taken')) # "blank" THEN "line" ELSE "example"
  /\ UNCHANGED <<input, current, comment, result, sentences>>

\* The lines that PartialExampleReader::readExample parses: up to a bad one
Parsed == SelectSeq(buffer, LAMBDA line : \A k \in DOMAIN buffer :
                      Kind(buffer[k]) = "bad" => line[2] < buffer[k][2])

\* The comment afterwards.  The raw reader has it; the other one sets it with
\* each comment it parses, and begins with that of the example before.
CommentRead ==
  LET comments == SelectSeq(Parsed, IsComment)
  IN IF input.reader = "Raw" \/ comments = <<>> THEN comment ELSE <<Last(comments)>>

\* What makes readExample fail: a line or, for the raw reader, the comment
Unreadable ==
  \/ \E k \in DOMAIN buffer : Kind(buffer[k]) = "bad"
  \/ input.reader = "Raw" /\ comment # <<>> /\ Kind(comment[1]) = "badComment"

RejectExample ==
  /\ pc = "example"
  /\ Unreadable
  /\ comment' = CommentRead
  /\ ReadingFails
  /\ UNCHANGED <<input, current, stream, taken>>

AcceptExample ==
  /\ pc = "example"
  /\ ~Unreadable
  /\ comment' = CommentRead
  /\ result' = 0
  /\ pc' = "analyze"
  /\ UNCHANGED <<input, current, stream, buffer, taken, sentences>>

\* The main loop after a sentence was read: the output is the empty result, or
\* nothing, or the sentence with its comment.
Analyze ==
  /\ pc = "analyze"
  /\ \E output \in {"empty", "none", "printed"} :
       sentences' = Append(sentences, [lines |-> buffer, comment |-> comment, output |-> output,
                                         upto |-> Len(taken)])
  /\ buffer' = <<>>
  /\ pc' = "next"
  /\ UNCHANGED <<input, current, stream, comment, result, taken>>

Exit == pc = "exit" /\ UNCHANGED vars

Step == \/ Initialize \/ PeekEnd \/ NextFile \/ HasNext \/ FailedStream
        \/ RawLine \/ PartialLine \/ RejectExample \/ AcceptExample \/ Analyze

Next == Step \/ Exit

\* The program goes on as long as it can: its files are read without waiting.
Spec == Init /\ [][Next]_vars /\ WF_vars(Step)

-------------------------------------------------------------------------------

\* The lines of the files before the current one, and of that the ones that
\* have been read
LinesRead ==
  (UNION {{<<i, l>> : l \in DOMAIN File(i).lines} : i \in 1 .. stream.file - 1})
    \cup {<<stream.file, l>> : l \in 1 .. stream.pos}

\* A line is before another: in an earlier file, or earlier in the same one.
Earlier(x, y) == x[1] < y[1] \/ (x[1] = y[1] /\ x[2] < y[2])

\* How many lines were taken before one of some sentences
Before(made, k) == IF k = 1 THEN 0 ELSE made[k - 1].upto

\* Just the lines that could be read were taken, in order.
LinesTakenInOrder ==
  /\ ToSet(taken) = LinesRead
  /\ \A j, k \in DOMAIN taken : j < k => Earlier(taken[j], taken[k])

\* Each sentence has the lines taken since the one before it.
SentencesPartitionLines ==
  /\ \A k \in DOMAIN sentences :
       /\ Before(sentences, k) <= sentences[k].upto
       /\ sentences[k].lines = SubSeq(taken, Before(sentences, k) + 1, sentences[k].upto)
  /\ Before(sentences, Len(sentences) + 1) <= Len(taken)
  /\ buffer = SubSeq(taken, Before(sentences, Len(sentences) + 1) + 1, Len(taken))

\* Every line of a file, if it has any, ends with a newline.
AllTerminated(file) == file.closed \/ file.lines = <<>>

\* Over all the files that are read and with either reader, every line is taken
\* once, in order, and becomes part of just one sentence, answered or reported;
\* a file is left only when all of it has been read, and so the program ends
\* at the end of a file; and files are left out only behind one whose lines all
\* end with a newline, where hasNext meets the end before a read does.
NoLineLostOrRepeated ==
  /\ LinesTakenInOrder
  /\ SentencesPartitionLines
  /\ pc = "exit" => AtEnd
  /\ pc = "exit" /\ stream.file < Len(input.files) => AllTerminated(File(stream.file))

\* The comment of a sentence, from the lines before it: the last one
OwnComment(lines) ==
  LET at == {k \in DOMAIN lines : IsComment(lines[k])}
  IN IF at = {} THEN <<>> ELSE <<lines[CHOOSE k \in at : \A j \in at : j <= k]>>

CommentsAreTheirOwn ==
  \A k \in DOMAIN sentences :
    sentences[k].output = "printed" => sentences[k].comment = OwnComment(sentences[k].lines)

\* Raw sentences are printed with the last of the comment lines right before
\* them, and with no other: not with one before a line that was too long, nor
\* with one that ended the file before.
RawCommentsAreTheirOwn == input.reader = "Raw" => CommentsAreTheirOwn

\* The program ends, however its files end and whatever fails in between, unless
\* it comes to a file that cannot be opened.
EndsIfFilesOpen == <>(pc = "exit" \/ ~File(stream.file).opens)

\* docs/output.md: "Each sentence can be prefixed by a comment. [...] Comments
\* are copied into the output."
SentencesHaveTheirComments == CommentsAreTheirOwn
===============================================================================
