# Juman++ in TLA+

This directory is a verification companion of Juman++ v2 (`src/src/` of the
repository), a morphological analyser for Japanese written in C++14 together
with the trainer that produces its models.  It holds TLA+ modules translated
from the source, TLC configurations that check them on small instances, and
proofs that the TLA+ proof system (TLAPS) checks for every value of the
constants.

1. [The system](#1-the-system)
2. [The modules](#2-the-modules)
3. [What the runs check](#3-what-the-runs-check)
4. [Fairness](#4-fairness)
5. [What is proved](#5-what-is-proved)
6. [What is only model-checked](#6-what-is-only-model-checked)
7. [Where code and documentation disagree](#7-where-code-and-documentation-disagree)
8. [What is not modelled](#8-what-is-not-modelled)
9. [Plan](#9-plan)

Paths are relative to `src/src/`.

## 1. The system

A sentence goes through the analyser in one thread: the *node makers* look up
every substring in the dictionary and guess unknown words, the *lattice
builder* sorts these seeds, tests that they cover the sentence and builds a
lattice of nodes by boundaries; the *score processor* runs a beam search over
it; the *analysis result* follows the best path back.  The *trainer* runs many
analysers at once: the *training environment* on the main thread fills a batch
of trainers with examples, hands them to the worker threads of the *executor*
through one bounded queue, gets them back through another, and moves the
weights by the difference of the features of the annotated path and the best
path found, which the *loss calculator* computes on the scored lattice.
Where only parts of a sentence are annotated, the *partial trainer* looks in the
beams for words that agree with the annotation.  The *command line driver* feeds
the analyser sentence by sentence from its input files, through a reader of raw
text or of partially annotated text; the latter hands the score processor a
plugin that penalises words that violate the annotation.

| component | source | state | operations | what makes it correct |
|---|---|---|---|---|
| bounded queue | `util/bounded_queue.h` | ring, two wrapping counters, capacity, mutex, condition variable | initialize, offer, recieve, waitFor, unblock_all | FIFO, each item once, never overfull, no lost wakeup |
| training executor | `core/training/training_executor.*` | worker threads, queue of trainers, queue of results | initialize, submitNext, waitOne, resultWithoutWait, destructor | one result per submitted trainer, no trainer in two hands, shutdown ends |
| training environment | `core/training/training_env.*`, `trainer.*` | batch of trainers, shuffled order, epoch flags, loss | trainOneEpoch, trainOneBatch, readOneBatch, prepareTrainers | main thread and workers never touch one trainer together; every example is learnt in every epoch; a batch ends quiescent |
| loss and feature difference | `core/training/loss.*` | gold path, best path, comparison steps, scored features | computeComparison, fallOffBeam, maxViolation, computeLoss, computeFeatureDiff | the comparison merges two segmentations; the update moves the weights towards the annotation |
| gold example adapter | `core/training/gold_example.*`, `trainer.cc` | gold path, added seeds | Trainer::prepare, ensureNodes, nodeSeedExists | the annotation is a path of the lattice |
| lattice builder | `core/analysis/lattice_builder.*`, `lattice_types.*` | seeds, boundary descriptions, lattice | reset, appendSeed, prepare, checkConnectability, makeBos, constructSingleBoundary, fillEnds, makeEos | a lattice is built exactly if the seeds cover the input; every node is entered where it ends |
| analyzer | `core/analysis/analyzer_impl.*`, `analyzer.*` | pipeline stage, configuration, score processor | resetForInput, prepareNodeSeeds, buildLattice, computeScores, setGlobalBeam | stages in order, unknown-word fallback, no stale lattice |
| node makers | `core/analysis/*_creator.*`, `charlattice.*` | seeds | spawnNodes | every word is a candidate; of the two kinds modelled, unknown words do not compete with words |
| score processor | `core/analysis/score_processor.*` | beams, candidate buffers | makeBeams, makeGlobalBeam, makeT0Beam, makeT0cutoffBeam, adjustBeamScores, remakeEosBeam | beams hold paths with their scores, the best ones where nothing is pruned |
| analysis result | `core/analysis/analysis_result.*` | best path | fillIn | the path covers the input and has the score of EOS |
| selection utilities | `util/stl_util.h` | an array, a range with two bounds | partition, part_step | a permutation whose first part holds the best; the bounds fit the range; it ends |
| partial annotation | `core/input/partial_example*`, `pex_stream_reader.cc` | forbidden and required boundaries, tagged words | readExample, checkViolation, updateScore | a word is objected to exactly if the lines exclude it; the analysis honours them |
| partial trainer | `core/training/partial_trainer.*` | best path, scored features, loss | compute: handleBoundaryConstraints, handleEos, finalizeFeatures | what gains is allowed and stands where the violation asks for it; gains and losses balance |
| command line driver | `jumandic/main/jumanpp.cc`, `core/input/stream_reader.cc`, `pex_stream_reader.cc` | input files, current stream, comment | hasNext, nextInput, readExample, main loop | every line of the files read is analysed once, with its own comment, and it ends |
| training drivers | `jumandic/main/jumanpp_train.cc`, `core/tool/train_cmd.cc` | epoch counter | doTrain, saveModel | ends; failures are reported |
| training corpus readers | `core/training/full_example.*`, `core/input/training_io.*` | position in the corpus | readExample, finished | every example is read once |
| dictionary and model files | `core/dic/*`, `core/impl/model_io.*` | tries, columns, files | build, save, load | what is saved is what is loaded |
| feature compiler, code generation | `core/spec/*`, `core/features_api*`, `core/codegen/*` | specification | compile, validate | both ways to compute a feature agree |
| RNN scorer | `core/analysis/rnn_*`, `rnn/*` | matrices, per-beam contexts | numeric kernels | - |

The hard behaviours, each listed with its line under `hazards` in
`PROJECT.json`, are of five kinds.

* **Threads.** Queues with a hand-written ring and condition variable; workers
  that start before the queues have a capacity; a destructor that shares the
  queue it stops the workers with; one trainer object that main thread and
  workers write in turn without a lock of its own.
* **Reuse.** An analyzer, its lattice and its buffers serve one sentence after
  another, also after a failure; totals in beams are overwritten while other
  elements are computed from them; pointers into beams are followed long after
  they were made.
* **Indices predicted and kept.** Positions of nodes as offsets into seeds that
  are sorted again, steps "two behind" that may lie past the end, sentences of
  no characters, counters that wrap.
* **Streams.** End of file met by a look ahead or by a read, failure and end told
  apart by different bits, a last line without a newline; a comment that is
  kept from one sentence to the next.
* **Merges.** Two segmentations, and two sorted lists of features, walked in
  one loop with three branches and tails of their own.

## 2. The modules

```
 FifoQueue <--implements-- BoundedQueue <-- MCBoundedQueue
                                ^---------- BoundedQueueProofs
 TaskPool  <--implements-- TrainingExecutor <-- MCTrainingExecutor
                                ^-- TrainingEnv <-- MCTrainingEnv
                                         ^---- TrainingEnvProofs
 LatticeBuilder <-- Analysis <-- TrainerPrepare <-- MCLattice
                                     ^------------- LatticeProofs
 PartialExample <-- BeamSearch <-- Comparison <------.
 BestPath  <--implements--'   ^-- PartialTrainer <--- Scoring <-- MCScoring
                              ^-- BeamSearchProofs <-- ScoringProofs --^
 Selection   <-- MCSelection
      ^--------- SelectionProofs
 InputDriver <-- MCInputDriver
      ^--------- InputDriverProofs
 FeatureDiff <-- MCFeatureDiff
      ^--------- FeatureDiffProofs
```

An arrow without a label is EXTENDS.  `map` in `PROJECT.json` names the source
lines of every definition that stands for code.

**BoundedQueue** (`util/bounded_queue.h`).  `items`, `head`, `tail`, `capa` are
the fields `items_`, `head_`, `tail_`, `capa_`; the counters wrap at `Modulus`,
which stands for 2^32, and `Slot` is the code's `counter % capa_`.  Every
operation holds the mutex from its first read to its last write and is one
action; `waitFor` is cut where `cv_.wait` releases the mutex, into `WaitFor`
and `Resume`.  `waiters` and `woken` are the threads inside `cv_.wait` and
those coming out of it; `NotifyOne` wakes any waiter, `SpuriousWakeup` and
`UnblockAll` wake without an item.  *Refines* **FifoQueue**: a bounded sequence
with Put and Get.

**TrainingExecutor** (`core/training/training_executor.*`) uses two such queues
as sequences.  `exec` is the life of the object (`initialize`, use,
destructor), `wpc`/`wjob` the place of each worker in `run()` and the trainer
and status it holds.  Threads start one by one, possibly fail to, and only then
do the queues get their capacity, in the code's order.  `Prepare` and `Compute`
succeed or fail; `OfferResult` is the spin on a full queue; `OfferNull`,
`QueueFilled`, `JoinAll` are the destructor.  The client is open: it submits
what it owns and destroys the executor with at most `CloseLimit` trainers out.
*Refines* **TaskPool**: every trainer is idle, pending, ready, idle again.

**TrainingEnv** (`jumandic/main/jumanpp_train.cc`, `core/training/training_env.cc`,
`trainer.cc`) is the client of the program: `pc` runs through `initOther`, the
epochs of `doTrain`, `readOneBatch`, the two steps of `trainOneBatch` (submit
until the queue is full, then wait for one result), the batch iterations and the
destructor, with the error exits.  Full trainer `i` of the batch is `i`, partial
trainer `i` is `~i`, as in `indices_`; `example` is what each full trainer
holds.  `updates` and `learnt` are history: which trainers, and which examples,
have moved the weights.  Losses are left out; whether an iteration or an epoch
is the last is a choice.

**LatticeBuilder** holds the state and the operators of `LatticeBuilder` and
`Lattice`; **Analysis** is the pipeline of `Analyzer::analyze` over it, from
`resetForInput` to the built lattice.  A sentence is what the makers see of it:
its length, the dictionary's answer for every substring (a trie, so that nothing
is found behind a dead end) and the positions whose character is of a maker's
class.  After a sentence, built, failed or rejected, another follows on the same
analyzer.  **TrainerPrepare** composes it with the annotation of a training
example (`Trainer::prepare`, `ensureNodes`, `nodeSeedExists`); without an
annotation it is the plain analysis, so that one run checks both.

**BeamSearch** (`analyzer_impl.cc`, `score_processor.cc`, `analysis_result.cc`)
scores a built lattice boundary by boundary, in the full mode or with global
beam, right check and right beam, then adjusts by the additional scorers,
remakes the beam of EOS and follows the best path.  A beam element is a pointer
(left node, place in its beam) and a total, as `ConnectionPtr` and
`ConnectionBeamElement`.  Scores of n-grams are integers and a function of three
nodes, so that the trigram context matters.  Where the code may keep any of
equal candidates, the model keeps any.  `penalty` is what the plugin takes from
the score of a node, in each of the places where the code asks it (full beams,
prescores, global beams).  *Refines* **BestPath**: one of the segmentations, a
best one when nothing is pruned.

**PartialExample** (`partial_example_io.cc`, `partial_example.cc`,
`pex_stream_reader.cc`) is what partial annotation means to the code: the
boundaries forbidden and required by the lines read, `checkViolation` with its
order, and the plugin's penalty.  `Conforms`, `MayOccur` and `Agreeing` say from the
lines alone, and of whole segmentations, what agrees with them; they are the reference
that the code's tests of single words are compared with.

**Comparison** (`core/training/loss.cc`, `loss.h`, `trainer.cc`) walks the best
path of a scored lattice against an annotation, one action per branch of
`computeComparison`, and computes the loss and the n-grams to update for the
three training modes.

**PartialTrainer** (`core/training/partial_trainer.cc`) walks the best path from its
end.  `walk` is the sequence of places visited, so that its last elements are
the code's `prev`, `nodeEnd` and `nodeStart`; `Found` are the searches of
`handleBoundaryConstraints`, with made-up candidates where no beam has one;
`AddFeatures` collects n-grams as `addFeatures` and `addBiTriCorrections` do.  A
feature is the values of the nodes it sees, not its hash, and its score is
counted in units of 1/`Unit`.

**Scoring** puts the three together: a lattice is scored for plain analysis, for
partially annotated input, for full training or for partial training, and the
trainer concerned then reads the beams that the analysis left behind.

**FeatureDiff** is `computeFeatureDiff`: mask, sort, merge with `mergeOne`, two
tails, rescaling.  Its positions are the two pointers of the loop.

**Selection** (`util/stl_util.h`) is `partition` with `part_step`, one action per
comparison, as `processBeamCandidates` and `makeT0Beam` call it.  `order` is the
buffer, `start`, `end`, `min` and `max` are the variables of `partition`, `left` and
`right` those of the scan.  It says why BeamSearch may take the best candidates
of a set (`Best`, `BestBeams`).

**InputDriver** (`jumandic/main/jumanpp.cc` with the two stream readers) has the
state of a `std::istream`: position, end and failure bits.  A file is the kinds of its
lines, whether the last one ends with a newline, and whether it can be opened.
One line read is one action; `hasNext`, its look ahead and the move to the next
file are others.  `taken` and `sentences` are history; `upto` is how many lines had been
taken when a sentence was finished.

A definition whose comment begins with "Mutation of" is a plausible bug in that
definition.  It is used by no specification; `mutants` in `PROJECT.json` pairs
it with the properties that notice it.

## 3. What the runs check

| run | instance | states | question and properties |
|---|---|---|---|
| `bounded_queue` | three consumers, two values, capacity 2, counters of 6 values | 28,596 | Is the ring a FIFO queue through every wrap-around (`ImplementsFifo`)?  Is a notification per item enough although items may be stolen (`NoLostWakeup`), so that somebody gets an item whenever there is one and a thread waits (`WaitingThreadIsServed`)? |
| `executor` | two workers, five trainers over queues of four, thread starts may fail, at most two trainers out at destruction | 115,446 | Is a trainer ever in two hands (`OneHolder`)?  Is each processed and handed back once (`ImplementsTaskPool`)?  Does the destructor end (`ShutdownEnds`)? |
| `training_env` | two workers, batches of three, one partial example, corpus of four, two iterations, two epochs, anything may fail | 340,729 | Does the main thread touch only trainers no worker can have (`MainTouchesOnlyItsOwn`)?  Do batches end quiescent, update once per iteration and learn the whole corpus (`BatchEndsQuiescent`, `OneUpdatePerIteration`, `EveryExampleLearnt`)?  Does the program end (`TrainingEnds`)? |
| `lattice` | sentences of 0 to 3 characters, every trie, every assignment of characters to one maker of each stage, without annotation or with every segmentation into words that are known, unknown or matched by nothing, then a second sentence on the same analyzer | 983,288 | Is every word a candidate, and an unknown one only where no word is (`SeedsOfEveryWord`)?  Is a lattice built exactly if the seeds, with the fallback, cover the sentence (`PreparedIffCovered`), with every node on both sides of its boundaries, and none left after a failure (`BoundariesHoldTheSeeds`)?  Is the annotation a path of the lattice after seeds were added, only where needed, and sorted again (`GoldPathIsTheExample`)?  Do added words always repair connectability, as trainer.cc claims (`GoldFixesConnectability`)? |
| `scoring` | four groups of lattices and settings, see below | 304,373 | *Analysis.*  Does pruning ever cut a node off (`NoNodeLost`)?  Do totals belong to the paths the pointers spell (`BeamsHoldScoredPaths`), also after adjustment (`ExtraScoresApplied`)?  Are the best paths kept when nothing is pruned (`BeamsHoldBestPaths`, `ImplementsBestPath`) and is the path printed the one scored (`ResultHasTopScore`)?  *Full training.*  Does the walk over two segmentations lose nothing (`EveryWordComparedOnce`)?  Are scores compared at one place (`ViolationsCompareSamePlace`)?  Does the loss measure the difference (`LossMeasuresDifference`)?  Is the gold path never declared lost while it is in the beam (`GoldInBeamIsSeen`), and do n-grams come from their own path (`FeaturesOfOwnPath`)?  *Partial annotation.*  Does `checkViolation` object exactly to the words the lines exclude and name what is wrong with each of them (`AnnotationDecides`)?  Does the analysis honour the lines under every beam (`ConstraintsHonoured`)?  Are the words that gain allowed, and where the violation asks for them (`GoodCandidatesAreAllowed`)?  Does the loss count the violations, and the update balance where anything can gain (`UpdateMatchesLoss`)? |
| `feature_diff` | all pairs of paths of up to three features, five hashes over four weights | 32,887 | Has a feature one entry although `mergeOne` looks at the back only (`OneEntryPerFeature`), with the difference of its counts (`ScoresAreDifferences`), and is the update balanced without a division by zero (`BalancedUpdate`)? |
| `selection` | up to seven candidates, all patterns of three scores, beams of one to four with both limits | 289,708 | Do the bounds of `partition` fit every range it goes on with (`RangeHasRoom`)?  Is the beam as full as it can be, of the best there is (`BeamHoldsBest`)?  Does the loop end with many equal scores (`SelectionEnds`)? |
| `input_driver` | one file of up to three lines, two of up to two, or the standard input, every kind of line, with and without a last newline, files that cannot be opened, both readers | 384,757 | Is every line of the files read taken once and in order, and answered or reported, and are files left out only behind one that ends with a newline (`NoLineLostOrRepeated`)?  Do raw sentences have their own comments (`RawCommentsAreTheirOwn`)?  Does the program end unless it comes to a file that cannot be opened (`EndsIfFilesOpen`)? |
| `training_start_failure` | two workers, thread starts may fail | - | *violated*: `StartFailureIsReported` |
| `feature_signs` | paths of two features | - | *violated*: `PositiveIsGold` |
| `empty_update` | lattices for full training, beams of 2, mode MaxViolation | - | *violated*: `LossHasFeatures` |
| `input_comments` | the files of `input_driver`, partially annotated | - | *violated*: `SentencesHaveTheirComments` |

The type invariants of the components (`TypeOK`, `ExecTypeOK`) are not among the
properties of the runs; those of the queue, the executor, the training
environment, the beam search, the feature difference, the selection and the
driver are proved.

### The bounds, and why they are enough

* *bounded_queue*: the counters go around three times the ring before they
  wrap, and wrap while the ring is empty, half full and full.  Three consumers
  are one thief, one sleeper and one woken thread at a time; two values tell the
  order apart.  **The capacity divides `Modulus`.**  With a capacity of 3 and 8
  counter values `ImplementsFifo` is violated: at the wrap the slot jumps and an
  item is overwritten.  In the program the capacity is 2n and the counter has
  2^32 values, so that this needs 2^32 items through a queue of a thread count
  that is not a power of two; it is recorded as a hazard, not as a finding.
* *executor*: five trainers overfill queues of four, so that both the refused
  `submitNext` and the spin on a full result queue happen.  `CloseLimit` is 2:
  `ShutdownEnds` needs that no more trainers are out than there are workers, so that
  the results never fill their queue at destruction.
  With more, the queue can be full of trainers before it holds a stop request
  for each worker, and `join` waits for the one that got none.  The program's own destructor runs with none out
  (`Flight` in TrainingEnvProofs).  After a failed thread start the destructor
  may hang, hence `CHECK_DEADLOCK FALSE`.
* *training_env*: a corpus of four over batches of three gives one full and one
  partial batch, and an empty third when the corpus is a multiple; the second
  epoch adds the partial example, whose batch of four just fills the queue of
  two workers.  Five or more trainers,
  which would overfill it, have 7.5 million states and took too long for a run kept
  beside the code, so that `TrainingEnds` does not show that the main thread goes on
  when it is refused; that a full queue of results loses none is
  checked by *executor*, and the theorems of TrainingEnvProofs hold for any number.
* *lattice*: three characters are the least with a word in
  the middle, words that overlap, and a gap that only one maker fills.  Every
  dictionary over them is an initial state, not a sample; for annotated
  sentences the dictionary has no prefix without a word, and in those of three characters
  the second maker covers nothing, the middle or everything.  Lengths do not
  wrap: the code's 16-bit positions are safe below the 4096 bytes that
  `AnalyzerConfig` sets as the limit of an input.
* *scoring*: four groups of problems, each with settings of its own.
  For the analysis, lattices of two and three characters with boundaries that
  have two nodes on either side, words that start where no word ends, and
  boundaries no word starts at, with all scores 0/1 of the connections behind
  the first word or of all trigrams, under eleven settings of global beam, right
  check, right beam and extra scorers.  For full training, lattices with
  overlapping and competing words, every segmentation as annotation, all
  bigram scores (one with all trigram scores), beams of 1 and 2, a global beam of
  1, three modes.  For partial annotation, a lattice of four characters with a
  word across its middle and homographs at both ends, and annotations with
  boundaries forbidden or required, tags, all of them, and lines that no path of
  the lattice agrees with; and two lattices of words that no feature tells
  apart, in which the words that take the place of another have no feature that it
  has not, the same features, or one more, so that a correction gives nothing to
  anybody, changes nothing, or has one entry and no loss.  Beams of 1 and 2 are smaller than the numbers of
  paths, so that pruning happens in every setting; scores of 0 and 1 are enough
  for ties, and for every preference between two ways to a node.  All four kinds
  of violation occur, with candidates from beams, made-up ones and none; so do
  two corrections on one path and a correction at EOS.  `BlockSize` is 2 where
  the code has 5, so that there are more candidates than a block holds.
* *feature_diff*: five hashes over four weights collide; up to three features
  per path give empty, equal, interleaved and one-sided lists.
* *selection*: seven candidates give ranges of all sizes that `part_step` tells
  apart (1, 2, 3, more) after one or two narrowings; three scores give all
  different, partly and completely equal candidates; beams of one to four give
  limits equal to the beam and above it.  The theorems hold for every size.
* *input_driver*: three lines are a comment, a sentence and what follows it, or a
  blank line between two; two files of two are what a comment needs to
  end one file and a sentence to start the next.

## 4. Fairness

Only weak fairness is assumed, always of whole threads.

* In *bounded_queue* a woken thread eventually gets the mutex (`Resume`):
  `cv_.wait` returns once it was notified.  No spurious wakeup, no caller and no
  offer is promised.
* In *executor* each worker and the thread inside the destructor run when they
  can; nobody has to submit, collect or destroy.  A worker's whole loop is one
  fairness condition, as the operating system schedules threads, not
  statements; `Prepare` and `Compute` are assumed to return.
* In *training_env* the main thread and each worker run when they can, until the
  process exits.  The thread that starts workers and joins them is the main
  thread: its steps inside the executor have a condition of their own because
  they are the executor's actions.
* In *selection* and *input_driver* a sequential program goes on as long as it
  can (`WF` of its next step): its thread waits for nothing, as the
  input is files; of the standard input `InputDriver` says what it
  says of a file, once somebody closes it.
* The other runs check safety only: their programs are sequential, and the
  number of steps is bounded by the sentence.

## 5. What is proved

Eight modules hold theorems.  All hold for every value of the constants that the
`ASSUME`s of the modules allow; TLC evaluates those on every run.

**BoundedQueueProofs** (any threads, capacity and width with `Capa < Modulus`):
`TypeCorrect`; `CapacityRespected`, the assertion in `size()`: each operation
moves the distance of the counters by at most one, also where one of them wraps
(`SizeAfterOffer`, `SizeAfterTake`), and `offer` tests `remaining()` first;
`WakeupsSuffice` (`NoLostWakeup`): an offer adds one item and, if anybody
sleeps, one woken thread; a thread goes back to sleep only when there is no item;
an item taken by anybody else only helps.  It is inductive together with the
types and needs that the set of threads is finite.

Its second part (any values; `CapaDivides`: the counters wrap at a multiple of the
capacity) is `RingIsFifo`, the ring implements FifoQueue.
`SlotWraps` lets the ring be read as if the counters never wrapped; then items that
are in it together are less than a capacity apart and have different slots
(`SlotsDiffer`), so that an offer overwrites none of them and appends
(`OfferPuts`), a take removes the head and leaves the slots of the others
(`TakeFrontTakes`), and all else is a stutter.  `CapaDivides` is needed: see
*bounded_queue* above.

**TrainingEnvProofs** has two parts.  About the executor (any finite set of
workers, any trainers, any `CloseLimit`): `ExecutorTypes` and `TrainersHaveOneHolder` from the invariant
`Inv`, the types together with `OneHolder`: neither is inductive alone, since
that a worker offers a trainer and not `nullptr` is a conjunct of `OneHolder`.
`ExecutorImplementsTaskPool` maps each action to a step of the pool or to none:
Submit is `SubmitNext`, Process is `OfferResult`, Collect is `WaitOne`, and
every other action leaves the stage of each trainer alone (a trainer in the
queue or in a worker's hand is pending).

About the whole (any batch size, corpus, number of partial examples,
iterations, epochs and workers; `EnvTrainers`: the executor's trainers are the
batch's) all rests on one invariant, `EnvInv`:
`Inv` of the executor; `NoStopRequest`, no worker stops before the destructor;
`Control`, the executor serves from the first epoch to the last; `Batch`, the
trainers of a batch are different ones; `Flight`, the trainers in the executor
are among those submitted and `Cardinality(InFlight) + processed = submitted`;
`Updated`, who has moved the weights in which iteration; `Learning`, what was
read was learnt or is held by a trainer of the batch that has not moved the
weights.  `Flight` is the heart: the code counts and never looks at the queues,
and it is right because the counters differ by exactly what is out.  Hence
`MainThreadIsAlone`, `BatchesEndQuiescent`, `OneUpdateEach`, `EnvTypes`; and
`EpochsAreComplete`, for which `LastTerminated` is assumed, since a csv example
that no EOS line follows is read and dropped (`Readable`).

**FeatureDiffProofs** (any hashes, table size and lengths): `EntriesAreUnique`.
The merge never runs ahead of what is left: the entry at the back is not above
the next element of either list (`BackBehind`), which needs sorted lists and,
in the tails, that one list is used up (`OneTail`).  `FeatureTypes` adds that no
position runs past its list.

Its second part is `ScoresAreRight`: at the end the score of a feature is the
difference of its counts up to its sign, and only the first entry may be zero.
`Balance` says what the merge owes to each feature at any moment: its score is the
difference of what was consumed or, in the tails, the negative of it; and if one
list had it more often so far, the other has passed it.  Therefore a tail, which
turns the sign around, meets only features whose score is still zero or already
turned, and cannot cancel one.  This is why the sign is wrong for whole features
and not for parts of them (section 7).

The third part is `UpdatesAreBalanced`: the quotient is that of the sums of both
signs (`WeightSet`); the weighted score of every entry is a combination of what it
adds to either sum, so that the weighted scores sum up to the same combination of
the sums (`SumsCombine`, by induction on their number), which is zero.

**LatticeProofs** (sentences of any length, any dictionary and classes of
characters, any makers of either kind, any annotation: `AnalysisConstants`,
`TrainerConstants`) proves the five properties of the analysis and of the
preparation of an example, `EveryWordIsACandidate`, `PassFindsTheCover`,
`LatticeHoldsTheSeeds`, `GoldPathLeadsThere` and `AddedWordsConnect`, from one
invariant, `LatticeInv`.  The properties speak of the end of the pipeline or
leave out what the next function needs, so that none is inductive.  `SeedsAt` says
what each function may rely on: all seeds are spans of the sentence (`SeedsOn`);
every word is among them (`Words`) and no unknown word spans one or is made twice
(`Unknown`), for which a stage must be known to add makers that have not run
(`FromMakers`); whether they cover the sentence (`Covered`); from the check on
that they are in order (`Ordered`).  `LatticeHolds` adds that the descriptions of
the boundaries were made from these very seeds (`InfoOf`) and how many boundaries
of the lattice stand (`Rows`) or are filled with the ends of how many seeds
(`FilledTo`); `ExampleHolds`, that the path of the annotation leads to the right
seeds (`GoldAt`).

* *The pass.*  `Covered` is a definition without recursion: the end of the sentence
  is in every set that is closed under the seeds.  `MarksCover` shows that the
  marks of `checkConnectability` say the same, which needs the order: no later
  seed ends where an earlier one starts (`MarkOne`).  `ReachedCovers` relates it to `Reached`.
* *Sorting.*  `SortedFacts`: the same seeds, ordered, and those of one boundary in
  the order they had.  The last is why an added word becomes the last node of its
  boundary (`AppendStarts`), where `ensureNodes` has already said it would be
  (`EnsureAdds`), and why sorting again leaves the path as it is (`SortedGold`).
* *Offsets.*  Among ordered seeds those of a boundary are a block that begins behind
  the seeds of all earlier ones (`OrderedBlocks`); the sums of `prepare` count these
  (`BoundaryInfoTells`).  From this follow the slices (`InfoLeads`) and the
  positions of the ending nodes (`FillStep`).
* *Recursive functions of a LET* (`Marked`, `FillEnds`, `BoundaryInfo`, `Reached`)
  are defined by CHOOSE; `RecursionExists` proves that there is one, and
  `SetInduction` what it computes.

**BeamSearchProofs** (any lattice whose words cover the sentence and whose trigrams
have integer scores, any width of beams, global beam, right check and right beam,
any weights of the scorers: `LatticeConstants`, `BeamConstants`) has the inductive
invariant of the beams, `IInv`, and `IInvAlways`.  None of the properties of
BeamSearch is inductive: they speak of whole paths, which Trace and Histories
compute by recursion.  `IInv` speaks of one pointer at a time.  `MadeOf`: every
element of the beam of a node points into a beam on its left, no two at one
place, and the beam is empty only if all those beams are.  `ScoredOf`: its total
is that of the element it points at and its own score.  `CompleteOf`: what
was left out is no better than what is in a full beam.  `FromGlobal`: all that is
in a beam comes from the global beam of its boundary; it is what lets
`adjustBeamScores` change the elements of the global beams only.  `AdjustedOK`
and `RemadeOK` say how far the scorers have come; the totals that an adjustment reads
are those to the left, which are final.  Each step changes beams at which nothing
points yet, or totals at one boundary, so that preservation needs no
induction.  `Ranks` and `BestIsBestBeam` say that the best so many of a finite set
exist in order, and that the deterministic selection of the full mode is one of
those that a selection among equals may make.

Its second part draws the conclusions for paths.  `LeastElement` and
`SetInduction` are the induction it uses: over the sets of boundaries, or of
numbers, for which something holds (`NodeInduction`), as no prover takes a
predicate for a parameter.  `TracesUnroll` and `HistoriesUnroll` show that the
recursive functions satisfy their equations, which needs that words are not
empty.  Then `WaysArePaths` (an element stands for a path of the lattice, and its
trigram is that path's), `WaysDiffer` (different elements stand for different
paths), `SumOfLongerPath` and `BestOfPaths` are inductions over nodes from left to
right.  The theorems are `NoNodeIsLost`, where `EndIsReached` says that EOS has
a path, so that there always is a result; `BeamsHoldPaths`; `ScorersAreApplied`;
`ResultIsTop`; `BeamsHoldTheBest`, that the k-best search is exact if scores
depend on neighbours only; and `BestPathIsImplemented`.  The last
maps every step but `FillIn` to a stutter, and `FillIn` to the choice of a
segmentation, whose candidates and scores no step has changed (`SentenceStays`).

**ScoringProofs** (any lattice, beams, annotation that is a segmentation of the
sentence, weights of the fields with one above zero; `ScoringUsers`: trainers
score with the features alone) composes analysis and comparison: `ScoringInv` is
`IInv` with `CompareInv`, and `ScoringInvAlways` its theorem.  The code of the
comparison sees numbers only: the boundary of the next word of either path and the
score of an element.  What they mean needs `IInv`: that following the pointers
from EOS gives a segmentation, and that the element at each place on the way
carries the score of the prefix up to it (`BestPathWords`).  `WalkOf` is the heart
of `CompareInv`: the boundaries of the steps grow; no step is at or behind the
next word of either path; every word behind has its step; and if both paths have
the same boundaries, all steps are matches.  `StepOK` says that the gold score of
a step is that of the gold path up to the boundary of the step, also where the
gold path has no word there and the code uses the last score it met
(`LastGoldScore`); it follows from `ScoreOfPrefix` and `GoldWordsBehind`.
Each branch of the loop has a lemma (`CompareBothStep` and so on) that
gives `WalkOn` what the step appends.  The theorems are `WordsComparedOnce`,
`ViolationsAreAligned`, `GoldIsNotLostEarly` (an element in the beam whose
trigram is the gold one makes `GoldStillInBeam` true), `LossIsDistance`, for
which sums of natural numbers are zero only if all summands are
(`SumOfNats`), and `FeaturesEndInside`, that the two steps added to the place of
the fall or of the violation never lead past the end.  `TrainersOnlyRead`
carries every theorem about the analysis over to the trainers.

Its second part is about the trainer of partial annotations (`AnnotationConstants`:
the lines of an annotation make up the text, since `readExample` puts the text
together from them).  `CorrectInv` is inductive together with `IInv`.  `WalkOK`: the
places walked are those of the best path from its end, with their nodes and
elements (`OnPath`), behind the two places of EOS.  `CorrectionsOK`: every
candidate that gains from a correction is good (`GoodFor`): it is a trigram of the
lattice, whose words agree with the annotation; it stands where the kind of the
violation asks for it; and it is not the trigram to correct.  Each search for
candidates has a lemma (`EndingOnIsAllowed`, `StartingOnIsAllowed`, `MadeUpIsAllowed`,
`SpanningIsAllowed`), as they prove it in different ways: those from beams follow a pointer, those made
up are put together from nodes that meet at a boundary, those that span need that
the boundary is inside the text (`BoundaryBehindStart`), which comes from the
annotation having been read line by line (`AnnotationRead`, `ExampleOfLines`).
The theorems are `CorrectionsAreAllowed` and `LossCountsViolations`; the features have a part
of their own below.

It ends with `AnnotationIsDecided`, which relates what the code asks of a single word
to what the lines mean for a segmentation (`Conforms`, `MayOccur`).
`NoObjection` spells out that `checkViolation` finds nothing exactly if
the word is in order with every line (`InOrderWith`).  `WordsDecide`: a segmentation
agrees with the lines exactly if each word is in order with each line; in one
direction because the word at the start of a tagged line is the only one there, in
the other because some word covers every place and a word in order cannot reach across the end of a
line.  `PathsAreSegments` applies it to the paths of a
lattice.  `AgreeingCuts` says it of boundaries alone: what agrees are the cuts at the ends of all
lines that no line forbids; hence `FaultsAreNamed`, that `checkViolation` names the
first thing that keeps a word from occurring, for which a line that is a word of
another length must forbid the end of the word or end inside it.  `InOrderMayOccur`
builds, for a word in order, a segmentation around it: cut
at the ends of all lines and of the word, with the tags of the line where a piece is
one (`TagsOfLine`).  The hypothesis `Tidy` says that no line is empty or
joined at its own ends.  The code accepts such lines, a trailing sign for "no
boundary" for instance; they contradict themselves, so that no segmentation agrees with them, while
`checkViolation` still accepts the words elsewhere.  All annotations of the run
are tidy.

Its third part is `AnnotationsAreHonoured`: the analysis prefers what agrees with the
annotation, whatever is pruned.  `HonourInv` says that the first element of every
beam agrees if any path to the node does (`TopsAreClean`).  It is kept because a
candidate that violates the annotation pays a penalty and one that does not pays
none: the cleanest elements of the beams to the left are first there, so that
their extension scores more than anything with a violation, in the full mode
(`ScoreFullHonours`) and from a global beam (`ScoreGlobalHonours`), which therefore
never drops all of it.  Additional scorers reorder at the end, with scores of their own;
there the invariant is that some agreeing element is in the last global beam
(`CleanInGlobal`), that `adjustBeamScores` keeps it (`CleanInGlobalStays`) and
that the sums with the additional scores still put it first
(`RemakeEosBeamHonours`).  The theorem has two hypotheses.  `Tidy` is that of the
second part.  `ScoresAreSmall`: paths that compete for a beam differ by less than the
smaller penalty of the plugin, 1000, before penalties are taken.  The code means its
penalties to be larger than any score and does not check it; with larger weights the
plugin can lose, and the theorem is false.  All instances of *scoring* are tidy and
have small scores.

Its fourth part is `FeaturesAreOfOwnPath`.  A step of the comparison keeps a pointer
into the beams and, for gold, a number, from which the n-grams are looked up later.
`FeaturesInv` says that both lead to the trigram of the word compared:
`TrigramOnWay` follows two pointers back from the element of a word, as
`addTopNgrams` does, and finds the two words before it on the same path;
`TrigramsOfGold` says it of the numbered gold nodes, the two places before the
first word included.  The boundaries of the steps grow, so that each step has its own
place in its path (`PlacesInOrder`), and what a loop appends is picked in order
(`InOrderPicks`).

Its last part is `UpdatesMatchLosses`, about what the partial trainer hands to the
learner.  `UpdateInv`, inductive together with the invariants of the beams and of the
corrections: features have been added once for every correction, each that is lost
with the same weight and each that is gained with the same share of what was lost
(`UpdatesOK`); something was corrected only if a word of the best path violates the
annotation; and at the end the features add up to what the corrections could not
hand out.  A share is lost times unit divided by gained, so that a correction leaves
the rest of this division or, if no feature gains, all that was lost (`Imbalance`,
`HandedOut`, `CorrectionBalances`); and adding
up equal features afterwards is adding up the same numbers by columns and not by rows
(`SumOfRows`, `CorrectionsBalance`); `SumOverSet` says that the sum over
a function of the library, which takes a set in any order, is the sum over
its numbered members.  The loss is dropped as
nothing to learn from only if the corrections have one entry at most between them
(`EntriesHaveFeatures`).  `VisitedNodes` and
`FeaturesAreFinite` say that a correction has finitely many features, as all of them
are of nodes of the lattice.  That a path in agreement with the lines corrects nothing uses
`AnnotationIsDecided`, hence `Tidy`.  Nothing is assumed
about the features: where those of the words are the same, `numGood` is zero, and what
is lost is given to nobody (`partial_trainer.cc:310-320`).  The rest of the division is a
matter of the model alone, where weights are whole numbers of units; the code has floats.

**SelectionProofs** (any number of candidates, scores, beam and limit):
`SelectionTypes`, `SelectionRange`, `SelectionSelects` and `SelectionKeepsBest`
from one invariant `Inv`.  `Bounds`: the beam and the limit, less `start`, are
`min` and `max`, and fit in the range.  `Divided`: no candidate was lost, none in
front of `start` is worse than one behind it, and none in front of `end` worse than one
from there on.  `ScanInv`: what the scan has passed on its left comes before the
pivot, and what it has put on its right does not.  `KeptInv`: what is kept in
the end.  A part_step cuts the range at the place it returns, and each of the three
outcomes keeps the invariant (`ReturnedKeeps`): a return has at least the beam
and at most the limit in front; going left leaves a range longer than `max`;
going right takes as much from the bounds as from the range.  That the sort
picks a beam of the best follows from the parts of `KeptInv`.  `SelectionEnds`
is left to TLC.

**InputDriverProofs** (any number of files of any lengths, both readers, files that
open or not): `StreamCorrect`, `EveryLineOnce` (`NoLineLostOrRepeated`) and
`RawCommentsKept` (`RawCommentsAreTheirOwn`) from one invariant `Inv`.
`StreamInv` relates the bits of the stream to its position: eof means that all
lines are read, failure without eof that no line of the sentence has been, and the
end without either that the last line had a newline.  It is
why the driver, which moves on when eof is set, leaves no line behind.  The lines
taken are then those of the files up to the current position
(`LinesTakenInOrder`), and each line is appended behind all of them.
`SentencesPartitionLines` cuts them where sentences were finished.  `CommentInv`
says that while the raw reader is inside a sentence it has met comments only, and
holds the last of them; hence what it returns is the last comment of its lines
(`OwnComment`), whatever became of the sentence before.

## 6. What is only model-checked

* Liveness (`WaitingThreadIsServed`, `ShutdownEnds`, `TrainingEnds`,
  `SelectionEnds`, `EndsIfFilesOpen`): TLAPS does not reason about ENABLED.
* That the instances meet the hypotheses of theorems which are not assumptions on
  constants (`Tidy`, `ScoresAreSmall`).  Every safety invariant and every refinement
  that a passing run checks is also a theorem.
* The initial states of those runs enumerate all dictionaries, segmentations and
  scores of their size, so that a passing run covers every input of the size.

## 7. Where code and documentation disagree

* `training_start_failure`.  If starting a later worker fails, initialize()
  reports an error, but the destructor cannot stop the workers that run: the
  queues still have capacity 0 and refuse its stop requests
  (`training_executor.cc:80`), a woken worker finds nothing and sleeps on, and
  `join` blocks for ever.  The program never returns its error.
* `feature_signs`.  The merge gives gold features +1 and features of the best
  path -1, the loops behind it +1 to the best path and -1 to gold
  (`loss.cc:238-245`).  Features past the end of the shorter list move the
  weights the wrong way.
* `input_comments`.  The reader of partially annotated text clears its example
  field by field and forgets the comment: a sentence without one is printed with
  that of an earlier sentence.
* `empty_update`.  In the MaxViolation mode a path that differs without a
  violation gives a loss and no features; `scw.cc` then divides by a variance of
  zero, which its assertions exclude.

Seen while modelling, without a run of their own:

* `fallOffBeam`, "index of comparison position where golden example falls off the
  beam" (`loss.h:116`), looks at neighbours only (`loss.cc:172-193`): if another
  way to the same two nodes is in the beam, the gold path counts as being there.
  `GoldInBeamIsSeen` is the direction that holds.
* If a file ends with a newline, `hasNext` meets its end by `peek` and answers
  false at once (`jumanpp.cc:83-87`): the files after it, which the command line
  calls "Input files" (`jumandic/shared/jumanpp_args.cc:68`), are never read.
  `NoLineLostOrRepeated` says that what is read is read completely, and that nothing
  else makes the program leave files out.
* A file that cannot be opened has failbit and neither badbit nor eofbit:
  `moveToNextFile` does not report the error it has for this, `hasNext` answers
  true for ever and `nextInput` fails each time, so that the program does not end
  (`jumanpp.cc:28, 43, 95`).  `EndsIfFilesOpen` says that it goes on for ever there
  and nowhere else.
* The exit code is that of the last input that was read (`jumanpp.cc:160, 164`).
* In partial training a word can be replaced by words that span the boundary in
  question, but not by those that end the sentence: the search leaves their
  boundary out (`partial_trainer.cc:216`).  Such a violation may teach nothing;
  `UpdateMatchesLoss` is what holds.

## 8. What is not modelled

* *Numbers.*  Scores are integers, the quotient of `computeFeatureDiff` and the
  division of the loss are left as fractions.  The weights, and the race of
  `scw_.update` with workers that read them (`training_env.cc:102`), are not
  state: the code accepts any mixture of old and new weights.
* *Code nothing calls*: `compactBoundary` and `LatticeCompactor`, with
  `util/array_slice_util.h`.  *Options*: `JPP_TRAIN_MID_NGRAMS`.
* *Makers with character tables* (numeric, onomatopoeia, normalising): the two
  kinds modelled append seeds under the same protocol.
* *Sentences without characters* have a lattice (`lattice`) and no beams: scoring
  begins with one character.  `handleEos` of the partial trainer reads
  the beam of EOS even then (`partial_trainer.cc:143`), which is listed as a hazard.
* *Hashes in the partial trainer*: `finalizeFeatures` adds up what has the same
  hash; the model adds up what is the same feature.
* *Sequential parts that are parsing, input and output or arithmetic*: readers of
  full annotations, output formats, dictionary and model files, the
  specification compiler, code generation, the RNN, the SCW learner.  Each is
  listed in `PROJECT.json` with its reason.

Most lines of the repository are of these kinds, or are not its own: the vendored
libraries under `libs/` (test framework, stack traces, option parsing, paths), a
formatting library and a double-array trie copied into `util/` and `core/dic/`,
and generated tables.  What has state and control of its own is the analysis, the
trainers, the threads and the driver, and the models are of these.

## 9. Plan

Done: the queue, the executor and the training environment with their proofs; the
lattice with and without annotation and its proofs; beam search, comparison and the
partial trainer, on one scored lattice, with their proofs; the feature difference, the
selection and the command line driver with their proofs.  What could follow:

1. A training run whose batch overfills the queues, for which the order of the trainers
   already submitted would have to be forgotten.
2. The last steps of `jumanpp_train` (the loss that decides about the last epoch,
   the saving of the model) as part of TrainingEnv.
