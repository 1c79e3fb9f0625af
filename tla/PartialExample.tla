----------------------------- MODULE PartialExample -----------------------------
(***************************************************************************)
(* Partial annotation of a sentence: PartialExampleReader::readExample     *)
(* (core/input/partial_example_io.cc), PartialExample::checkViolation      *)
(* (partial_example.cc) and the score plugin of PexStreamReader            *)
(* (pex_stream_reader.cc).                                                 *)
(*                                                                         *)
(* A line of the annotation is a piece of text, with the offsets at which  *)
(* it holds the sign for "no word boundary", or a whole word with some of  *)
(* its tags.  Boundaries are counted from 0, the start of the sentence.    *)
(***************************************************************************)
EXTENDS Integers, Sequences, SequencesExt, FiniteSetsExt

Text(length, joined) == [kind |-> "text", length |-> length, joined |-> joined, tags |-> <<>>]
TaggedWord(length, tags) == [kind |-> "word", length |-> length, joined |-> {}, tags |-> tags]

\* One line: what it forbids, the boundary after it, the word it may be.
ReadLine(example, line) ==
  [boundary |-> example.boundary + line.length,
   noBreak |-> example.noBreak \cup
                 {example.boundary + i :
                    i \in IF line.kind = "text" THEN line.joined ELSE 1 .. line.length - 1},
   boundaries |-> example.boundaries \cup {example.boundary + line.length},
   words |-> IF line.kind = "text" THEN example.words
             ELSE example.words \cup {[start |-> example.boundary, length |-> line.length,
                                       tags |-> line.tags]}]

\* readExample: the lines of one example
ReadExample(lines) ==
  LET upTo[i \in 0 .. Len(lines)] ==
        IF i = 0 THEN [boundary |-> 0, noBreak |-> {}, boundaries |-> {}, words |-> {}]
        ELSE ReadLine(upTo[i - 1], lines[i])
  IN upTo[Len(lines)]

Violation(kind, parameter) == [kind |-> kind, parameter |-> parameter]
NoViolation == Violation("None", 0)

\* The required boundaries strictly inside a word
Inside(example, word) == {b \in example.boundaries : word.start < b /\ b < word.end}

WrongTags(example, word) ==
  \E w \in example.words : w.start = word.start /\ \E f \in DOMAIN w.tags : word.data[f] # w.tags[f]

WrongLength(example, word) ==
  \E w \in example.words : w.start = word.start /\ w.length # word.end - word.start

\* Mutation of CheckViolation: the end of a word may be anywhere.
CheckViolationOfStart(example, word) ==
  CASE word.start \in example.noBreak -> Violation("WordStart", word.start)
    [] Inside(example, word) # {} -> Violation("NoBoundary", Min(Inside(example, word)))
    [] WrongTags(example, word) -> Violation("Tag", 0)
    [] OTHER -> NoViolation

\* Mutation of CheckViolation: the length of an annotated word is asked for first.
CheckViolationOfLength(example, word) ==
  IF word.start \in example.noBreak THEN Violation("WordStart", word.start)
  ELSE IF WrongLength(example, word) THEN Violation("WordEnd", word.end)
  ELSE IF word.end \in example.noBreak THEN Violation("WordEnd", word.end)
  ELSE IF Inside(example, word) # {} THEN Violation("NoBoundary", Min(Inside(example, word)))
  ELSE IF WrongTags(example, word) THEN Violation("Tag", 0)
  ELSE NoViolation

\* checkViolation: forbidden boundaries, which are in order, come first, then
\* required ones, then the word that is annotated at the same start.
CheckViolation(example, word) ==
  IF word.start \in example.noBreak THEN Violation("WordStart", word.start)
  ELSE IF word.end \in example.noBreak THEN Violation("WordEnd", word.end)
  ELSE IF Inside(example, word) # {} THEN Violation("NoBoundary", Min(Inside(example, word)))
  ELSE IF WrongLength(example, word) THEN Violation("WordEnd", word.end)
  ELSE IF WrongTags(example, word) THEN Violation("Tag", 0)
  ELSE NoViolation

\* Mutation of PluginPenalty: tags are a matter of the trainer alone.
PluginPenaltyOfBoundaries(violation) ==
  IF violation.kind \in {"None", "Tag"} THEN 0 ELSE 10000

\* updateScore of the plugin: what a word loses that violates the annotation
PluginPenalty(violation) ==
  CASE violation.kind = "None" -> 0
    [] violation.kind = "Tag" -> 1000
    [] OTHER -> 10000

-------------------------------------------------------------------------------
(* What an annotation means, said without looking at single words          *)

\* Where the lines of an annotation start
LineStart(lines, i) ==
  LET before[k \in 0 .. Len(lines)] == IF k = 0 THEN 0 ELSE before[k - 1] + lines[k].length
  IN before[i - 1]

\* The lines of an annotation of a text of n characters
AnnotationOf(lines, n) ==
  /\ lines \in Seq(ToSet(lines))
  /\ \A i \in DOMAIN lines : /\ lines[i].kind \in {"text", "word"}
                             /\ lines[i].length \in Nat
                             /\ lines[i].joined \subseteq 0 .. lines[i].length
  /\ lines # <<>> => LineStart(lines, Len(lines) + 1) = n

\* No line is empty, and none says "no word boundary" at its own ends.
Tidy(lines) ==
  \A i \in DOMAIN lines : /\ lines[i].length > 0
                         /\ lines[i].joined \subseteq 1 .. lines[i].length - 1

\* The words of a segmentation agree with an annotation when every line ends
\* at one of their boundaries, none of these is at a joined place, and a tagged
\* word is one of them.
Conforms(lines, words) ==
  LET cuts == {w.start : w \in words} \cup {w.end : w \in words}
  IN \A i \in DOMAIN lines :
       LET from == LineStart(lines, i)
           to == from + lines[i].length
       IN /\ to \in cuts
          /\ \A j \in lines[i].joined : from + j \notin cuts
          /\ lines[i].kind = "word" =>
               \E w \in words : /\ w.start = from /\ w.end = to
                                /\ \A f \in DOMAIN lines[i].tags : w.data[f] = lines[i].tags[f]

\* The tags for a word of its own that some line asks for, if any
TagsFor(lines, from, to) ==
  LET asking == {i \in DOMAIN lines : /\ lines[i].kind = "word"
                                      /\ LineStart(lines, i) = from /\ lines[i].length = to - from}
  IN IF asking = {} THEN <<>> ELSE lines[Min(asking)].tags

\* Is a word of a text of n characters a word of some segmentation that agrees
\* with an annotation, if all the other words are as one likes?
MayOccur(lines, n, word) ==
  \E cuts \in SUBSET (0 .. n) :
    /\ {0, n, word.start, word.end} \subseteq cuts
    /\ \A c \in cuts : ~(word.start < c /\ c < word.end)
    /\ LET After(c) == Min({d \in cuts : c < d})
           free == {[start |-> c, end |-> After(c), data |-> TagsFor(lines, c, After(c))]
                      : c \in cuts \ {n, word.start}}
       IN Conforms(lines, free \cup {word})

\* The boundaries of the segmentations that agree with an annotation, if the
\* words are as one likes
Agreeing(lines, n) ==
  {cuts \in SUBSET (0 .. n) :
     /\ {0, n} \subseteq cuts
     /\ LET After(c) == Min({d \in cuts : c < d})
        IN Conforms(lines, {[start |-> c, end |-> After(c), data |-> TagsFor(lines, c, After(c))]
                              : c \in cuts \ {n}})}

\* Does a violation name what keeps a word from occurring?  No segmentation that
\* agrees has a boundary where the word starts, or none where it ends, or all of
\* them have some inside it, the first of which is named, or the word has other tags.
NamesFault(lines, n, word, violation) ==
  LET agreeing == Agreeing(lines, n)
      starting == {cuts \in agreeing : word.start \in cuts}
      both == {cuts \in starting : word.end \in cuts}
      inner == {b \in word.start + 1 .. word.end - 1 : \A cuts \in agreeing : b \in cuts}
  IN /\ violation.kind = "WordStart" <=> starting = {}
     /\ violation.kind = "WordEnd" <=> starting # {} /\ both = {}
     /\ violation.kind = "NoBoundary" <=> both # {} /\ inner # {}
     /\ violation.kind = "NoBoundary" => violation.parameter = Min(inner)
     /\ violation.kind = "Tag" <=> both # {} /\ inner = {} /\ ~MayOccur(lines, n, word)
===============================================================================
