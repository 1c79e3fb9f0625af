----------------------------- MODULE PartialTrainer -----------------------------
(***************************************************************************)
(* Learning from a partially annotated sentence: PartialTrainer            *)
(* (core/training/partial_trainer.cc).  The best path is walked from its   *)
(* end; for every word that violates the annotation the beams are searched *)
(* for words that do not and that would take its place.  The n-gram        *)
(* features of those gain what the features of the word lose.              *)
(*                                                                         *)
(* The beam element of a word is named by its place, [node, beam]; a       *)
(* candidate is a beam element with its node.  A feature is the values of  *)
(* one, two or three nodes in a row.                                       *)
(***************************************************************************)
EXTENDS BeamSearch

CONSTANTS BlockSize,   \* of the beam of one boundary in findCandidatesSpanning: 5
          Unit         \* the score -1 of a feature, in integers

ASSUME PartialConstants == {BlockSize, Unit} \subseteq Nat \ {0}

VARIABLES stage,       \* "walk", "eos", "finalize", "finished"
          walk,        \* the places visited, EOS first: ..., prev, nodeEnd, nodeStart
          violations,  \* words that violate the annotation
          features,    \* features_: the scores of the features, once for every
                       \* call of addFeatures
          partialLoss, \* loss_ times the number of nodes
          corrected    \* history: [violation, bad, good, scores] for every word
                       \* corrected, with the scores that were added for it

partialVars == <<stage, walk, violations, features, partialLoss, corrected>>

Place(node, beam) == [node |-> node, beam |-> beam]
ElementAt(place) == beams[place.node][place.beam]
Previous(place) == Place(ElementAt(place).left, ElementAt(place).beam)

ViolationAt(r) == CheckViolation(lat.example, WordAt(lat, r))

\* doesNodeMatch; nothing is annotated before the sentence.
Matches(r) == r <= Bos \/ ViolationAt(r) = NoViolation

\* A candidate, and the elements of the beam of a node as candidates
Candidate(node, left, beam, total) ==
  [node |-> node, left |-> left, beam |-> beam, total |-> total]
BeamOf(r) == {Candidate(r, el.left, el.beam, el.total) : el \in ToSet(beams[r])}

Context(c) == <<T2(c), c.left, c.node>>

\* Mutation of IsValid: the word two places back is not looked at.
IsValidBigram(c) == Matches(c.node) /\ Matches(c.left)

IsValid(c) == Matches(c.node) /\ Matches(c.left) /\ Matches(T2(c))

-------------------------------------------------------------------------------
(* The search for words in place of another                                *)

\* EntryBeam: the best so many elements; among equals, any
EntryBeams(S, k) ==
  LET size == IF k < Cardinality(S) THEN k ELSE Cardinality(S)
  IN {T \in kSubset(size, S) : \A x \in T, y \in S \ T : x.total >= y.total}

\* Words that end at a boundary and start before another one
EndingNodes(b, before) == {r \in Left(b) : Start(r) < before}

\* candidatesEndingOn
EndingOn(b, before) == {c \in UNION {BeamOf(r) : r \in EndingNodes(b, before)} : IsValid(c)}

\* candidatesStartingOn
StartingOn(b) == {c \in UNION {BeamOf(r) : r \in Right(b)} : IsValid(c)}

\* makeUpCandidatesEndingOn: words after a valid beam element that is not in
\* their own beam, with a score that is far below
MadeUpEndingOn(b, before) ==
  UNION {{Candidate(p[1], p[2], k, beams[p[2]][k].total - 1000)
            : k \in {k \in DOMAIN beams[p[2]] : Matches(beams[p[2]][k].left)}}
           : p \in {p \in EndingNodes(b, before) \X (0 .. Eos - 1) :
                     /\ p[2] \in Left(Start(p[1]))
                     /\ Matches(p[1]) /\ Matches(p[2])}}

\* The boundaries after b that findCandidatesSpanning tries; not that of EOS
Beyond(b) == b + 1 .. lat.n - 1

\* findCandidatesSpanning with the elements found in the beams: the best few of
\* each boundary, up to the one that fills the beam
SpanningOfBeams(b) ==
  LET upTo[e \in b .. lat.n - 1] ==
        IF e = b THEN {{}}
        ELSE UNION {IF Cardinality(found) = cfg.beam THEN {found}
                    ELSE UNION {EntryBeams(found \cup block, cfg.beam)
                                  : block \in EntryBeams(EndingOn(e, b), BlockSize)}
                      : found \in upTo[e - 1]}
  IN upTo[lat.n - 1]

\* findCandidatesSpanning with made-up elements: those of the first boundary
\* that has some
SpanningMadeUp(b) ==
  LET some == {e \in Beyond(b) : MadeUpEndingOn(e, b) # {}}
  IN IF some = {} THEN {{}}
     ELSE UNION {EntryBeams(T, cfg.beam) : T \in EntryBeams(MadeUpEndingOn(Min(some), b), BlockSize)}

Spanning(b) ==
  IF \E e \in Beyond(b) : EndingOn(e, b) # {} THEN SpanningOfBeams(b) ELSE SpanningMadeUp(b)

\* What handleBoundaryConstraints may find for a word that violates the
\* annotation, by the kind of the violation
Found(violation, word) ==
  CASE violation.kind = "NoBoundary" ->
         EntryBeams(EndingOn(violation.parameter, violation.parameter), cfg.beam)
    [] violation.kind = "WordStart" -> Spanning(word.start)
    [] violation.kind = "WordEnd" -> Spanning(word.end)
    [] violation.kind = "Tag" -> EntryBeams(StartingOn(word.start), cfg.beam)

-------------------------------------------------------------------------------
(* The features                                                            *)

\* What the features see of a node
Value(r) == CASE r = -1 -> <<>> [] r = Bos -> <<0>> [] r = Eos -> <<0, 0>> [] OTHER -> lat.nodes[r].data

\* calculateNgramFeatures
FeaturesOf(t) ==
  {<<Value(t[3])>>, <<Value(t[2]), Value(t[3])>>, <<Value(t[1]), Value(t[2]), Value(t[3])>>}

AllFeaturesOf(trigrams) == UNION {FeaturesOf(t) : t \in trigrams}

End(r) == IF r = Bos THEN 0 ELSE lat.nodes[r].end

\* addBiTriCorrections: the contexts of the words after the one replaced, where
\* they match and the best candidate ends there.  after is what has been
\* visited before, the nearest word last.
Following(node, left, after) ==
  IF after = <<>> \/ ~Matches(Last(after).node) THEN {}
  ELSE {<<left, node, Last(after).node>>} \cup
       (IF Len(after) < 2 \/ ~Matches(after[Len(after) - 1].node) THEN {}
        ELSE {<<node, Last(after).node, after[Len(after) - 1].node>>})

Fits(c, after) == after # <<>> /\ End(c.node) = Start(Last(after).node)

\* Mutation of GoodWeight: the share of all features of the candidates.
GoodWeightOfAll(good, bad) == (Unit * Cardinality(bad \ good)) \div Cardinality(good)

\* goodWeight
GoodWeight(good, bad) ==
  IF good \subseteq bad THEN 0
  ELSE (Unit * Cardinality(bad \ good)) \div Cardinality(good \ bad)

\* addFeatures, for the candidates of which the best one is first: the scores
\* that it adds
AddFeatures(candidates, first, place, after) ==
  LET bad == ElementAt(place)
      badContext == <<T2(bad), bad.left, place.node>>
      extraGood == IF Fits(first, after) THEN Following(first.node, first.left, after) ELSE {}
      extraBad == IF Fits(first, after) THEN Following(place.node, bad.left, after) ELSE {}
      goodFeatures == AllFeaturesOf({Context(c) : c \in candidates} \cup extraGood)
      badFeatures == AllFeaturesOf({badContext} \cup extraBad)
  IN [f \in (badFeatures \ goodFeatures) \cup (goodFeatures \ badFeatures) |->
        IF f \in badFeatures THEN -Unit ELSE GoodWeight(goodFeatures, badFeatures)]

Correction(violation, place, candidates, scores) ==
  [violation |-> violation, bad |-> place, good |-> candidates, scores |-> scores]

\* Replaces a word by some candidates, or does nothing if there are none.
Replace(violation, candidates, place, after) ==
  IF candidates = {} THEN UNCHANGED <<features, corrected>>
  ELSE \E first \in candidates :
         /\ \A c \in candidates : first.total >= c.total
         /\ LET scores == AddFeatures(candidates, first, place, after)
            IN /\ features' = Append(features, scores)
               /\ corrected' = Append(corrected, Correction(violation, place, candidates, scores))

-------------------------------------------------------------------------------

PartialInit ==
  /\ stage = "walk"
  /\ walk = <<>>
  /\ violations = 0
  /\ features = <<>>
  /\ partialLoss = 0
  /\ corrected = <<>>

\* compute, after computeScores and fillIn: the walk begins at EOS.
BeginWalk ==
  /\ pc = "done" /\ stage = "walk"
  /\ walk = <<>>
  /\ walk' = <<Place(Eos, 1), Previous(Place(Eos, 1))>>
  /\ UNCHANGED <<stage, violations, features, partialLoss, corrected>>

AtWord == stage = "walk" /\ walk # <<>> /\ Last(walk).node # Bos

\* handleBoundaryConstraints, one word: it is in order,
WordMatches ==
  /\ AtWord
  /\ Matches(Last(walk).node)
  /\ walk' = Append(walk, Previous(Last(walk)))
  /\ UNCHANGED <<stage, violations, features, partialLoss, corrected>>

\* or others are looked for.
WordViolates ==
  /\ AtWord
  /\ ~Matches(Last(walk).node)
  /\ LET violation == ViolationAt(Last(walk).node)
     IN \E candidates \in Found(violation, WordAt(lat, Last(walk).node)) :
          Replace(violation, candidates, Last(walk), Front(walk))
  /\ violations' = violations + 1
  /\ walk' = Append(walk, Previous(Last(walk)))
  /\ UNCHANGED <<stage, partialLoss>>

EndWalk ==
  /\ stage = "walk" /\ walk # <<>> /\ Last(walk).node = Bos
  /\ stage' = "eos"
  /\ UNCHANGED <<walk, violations, features, partialLoss, corrected>>

\* The elements of EOS but the first after two words that match
EosCandidates ==
  {c \in {Candidate(Eos, beams[Eos][k].left, beams[Eos][k].beam, beams[Eos][k].total)
            : k \in DOMAIN beams[Eos] \ {1}} : Matches(c.left) /\ Matches(T2(c))}

\* handleEos: if one of the last two words of the best path violates the
\* annotation, EOS prefers the paths of its beam in which none of them does.
HandleEos ==
  /\ stage = "eos"
  /\ LET top == beams[Eos][1]
     IN IF Matches(top.left) /\ Matches(T2(top)) THEN UNCHANGED <<features, corrected>>
        ELSE Replace(Violation("Eos", 0), EosCandidates, Place(Eos, 1), <<>>)
  /\ stage' = "finalize"
  /\ UNCHANGED <<walk, violations, partialLoss>>

\* finalizeFeatures: what the entries of a feature add up to
Total(x) ==
  SumTo([i \in DOMAIN features |-> IF x \in DOMAIN features[i] THEN features[i][x] ELSE 0], Len(features))

Entries == SumTo([i \in DOMAIN features |-> Cardinality(DOMAIN features[i])], Len(features))

\* compute, at its end: a single entry is no reason for an update.
Finalize ==
  /\ stage = "finalize"
  /\ features' = <<[x \in UNION {DOMAIN features[i] : i \in DOMAIN features} |-> Total(x)]>>
  /\ partialLoss' = IF Entries <= 1 THEN 0 ELSE violations
  /\ stage' = "finished"
  /\ UNCHANGED <<walk, violations, corrected>>

PartialStep == BeginWalk \/ WordMatches \/ WordViolates \/ EndWalk \/ HandleEos \/ Finalize

-------------------------------------------------------------------------------

Words(trace) == {WordAt(lat, trace[i]) : i \in DOMAIN trace}

\* Without a look at single words: does a path agree with the annotation?
Allowed(trace) == Conforms(lat.lines, Words(trace))

\* The violations found word by word are those of the annotation: checkViolation
\* objects to a word exactly if no segmentation that has this word agrees with
\* the lines that were read, and a path of the lattice agrees with them exactly
\* if there is no objection to any of its words.  And the objection is the first
\* of those that the lines give reason for, which decides where candidates to
\* replace the word are looked for.
AnnotationDecides ==
  pc = "score" /\ bnd = 0 /\ lat.lines # <<>> =>
    /\ \A r \in 1 .. Len(lat.nodes) : Matches(r) <=> MayOccur(lat.lines, lat.n, lat.nodes[r])
    /\ \A trace \in Histories[Eos] : Allowed(trace) <=> \A i \in DOMAIN trace : Matches(trace[i])
    /\ \A r \in 1 .. Len(lat.nodes) : NamesFault(lat.lines, lat.n, lat.nodes[r], ViolationAt(r))

\* Partially annotated text is analysed as annotated if the lattice has a path
\* like that, however narrow the beams: the plugin takes from the scores in
\* all the places where they are computed, so that no beam prefers a path that
\* violates the annotation.
ConstraintsHonoured ==
  pc = "done" /\ lat.user = "partialInput" =>
    (Allowed(path) \/ \A trace \in Histories[Eos] : ~Allowed(trace))

\* The scores of a path without what the plugin takes
PlainScore(history, r) == SumOver(LAMBDA t : lat.score[t], history, r)
PlainScores(history) ==
  FeatureWeight * PlainScore(history, Eos) + ExtraWeight * SumOver(LAMBDA t : lat.extra[t], history, Eos)

\* Nodes between whose paths a beam may choose
Rivals(r, s) == r = s \/ \E b \in 1 .. lat.n : {r, s} \subseteq Left(b)

\* What the penalties of the plugin are made for: they are larger than the
\* differences between the scores of paths that compete with each other.
ScoresAreSmall ==
  /\ \A r, s \in 1 .. Eos :
       Rivals(r, s) => \A g \in Histories[r], h \in Histories[s] : PlainScore(g, r) - PlainScore(h, s) < 1000
  /\ cfg.extra => /\ FeatureWeight > 0
                  /\ \A g, h \in Histories[Eos] : PlainScores(g) - PlainScores(h) < 1000 * FeatureWeight

\* Does a candidate stand where the violation asks for a word?
Resolves(c, violation, bad) ==
  LET word == WordAt(lat, bad.node)
  IN CASE violation.kind = "WordStart" -> Start(c.node) < word.start /\ word.start < End(c.node)
       [] violation.kind = "WordEnd" -> Start(c.node) < word.end /\ word.end < End(c.node)
       [] violation.kind = "NoBoundary" -> End(c.node) = violation.parameter
       [] violation.kind = "Tag" -> Start(c.node) = word.start
       [] violation.kind = "Eos" -> c.node = Eos

\* What gains from a violation are words in their contexts of beams, in a row
\* and each in agreement with the annotation, that stand where the violation
\* asks for it; the path to correct is not one of them.
GoodCandidatesAreAllowed ==
  \A i \in DOMAIN corrected :
    \A c \in corrected[i].good :
      /\ c.left \in Left(Start(c.node)) /\ T2(c) \in (IF c.left = Bos THEN {-1} ELSE Left(Start(c.left)))
      /\ Matches(c.left) /\ Matches(T2(c)) /\ (c.node # Eos => Matches(c.node))
      /\ Resolves(c, corrected[i].violation, corrected[i].bad)
      /\ Context(c) # <<T2(ElementAt(corrected[i].bad)), ElementAt(corrected[i].bad).left, corrected[i].bad.node>>

\* What the features of one correction lose and gain
Lost(scores) == {x \in DOMAIN scores : scores[x] < 0}
Gained(scores) == DOMAIN scores \ Lost(scores)

\* What the scores of one correction add up to: what is lost is split among the
\* features that gain, as far as Unit holds the fractions, and just lost if the
\* words in place of another have no feature that it has not.
Imbalance(scores) ==
  IF Gained(scores) = {} THEN -(Unit * Cardinality(Lost(scores)))
  ELSE -((Unit * Cardinality(Lost(scores))) % Cardinality(Gained(scores)))

\* How many entries some corrections have together
EntriesIn(corrections) ==
  SumTo([i \in DOMAIN corrections |-> Cardinality(DOMAIN corrections[i].scores)], Len(corrections))

\* The loss counts the words of the best path that violate the annotation,
\* unless the corrections have one entry at most between them; with a loss there
\* are features to update; a path that agrees with the annotation changes
\* nothing; and what some features lose others gain, but for the corrections
\* in which none gains.
UpdateMatchesLoss ==
  stage = "finished" =>
    /\ partialLoss \in {0, Cardinality({i \in DOMAIN path : ~Matches(path[i])})}
    /\ partialLoss = 0 => EntriesIn(corrected) <= 1
    /\ partialLoss > 0 => DOMAIN features[1] # {}
    /\ Allowed(path) => corrected = <<>>
    /\ SumFunction(features[1]) =
         SumTo([i \in DOMAIN corrected |-> Imbalance(corrected[i].scores)], Len(corrected))
===============================================================================
