------------------------------ MODULE TrainingEnv ------------------------------
(***************************************************************************)
(* The main thread of the training programs on top of TrainingExecutor:    *)
(* doTrain and doTrainJpp (jumandic/main/jumanpp_train.cc), TrainingEnv    *)
(* (core/training/training_env.cc) and TrainerBatch                        *)
(* (core/training/trainer.cc).                                             *)
(*                                                                         *)
(* A trainer is named by its entry of TrainerBatch::indices_: full trainer *)
(* i by i, partial trainer i by ~i.  An example is its position in the     *)
(* corpus.  Losses are left out: whether an iteration converged, and       *)
(* whether an epoch was the last, are choices.                             *)
(***************************************************************************)
EXTENDS TrainingExecutor, Integers, SequencesExt

CONSTANTS BatchSize,           \* --batch
          NumPartial,          \* number of partially annotated examples
          NumExamples,         \* number of examples in the corpus
          LastTerminated,      \* the last csv example is followed by EOS
          BatchMaxIterations,  \* --max-batch-iters
          MaxEpochs,           \* --max-epochs
          MayFail              \* examples may be malformed or not analysable

ASSUME EnvConstants ==
  /\ BatchSize \in Nat \ {0}
  /\ {NumPartial, NumExamples} \subseteq Nat
  /\ {LastTerminated, MayFail} \subseteq BOOLEAN
  /\ LastTerminated \/ NumExamples > 0
  /\ {BatchMaxIterations, MaxEpochs} \subseteq Nat \ {0}

VARIABLES pc,          \* where the main thread is
          epoch,       \* epochs completed by doTrain
          firstEpoch,  \* firstEpoch_
          read,        \* examples the reader has delivered in this epoch
          finished,    \* fullReader_.finished()
          example,     \* the example each full trainer holds, 0 for none
          order,       \* indices_ after the shuffle
          iter,        \* batchIter
          submitted,   \* submittedTrainers
          processed,   \* processedTrainers
          updates,     \* weight updates made for each trainer in this batch
          learnt       \* examples with a weight update in this epoch

batchVars == <<example, order, iter, submitted, processed, updates>>
corpusVars == <<epoch, firstEpoch, read, finished, learnt>>
mainVars == <<pc, epoch, firstEpoch, read, finished, example, order, iter,
              submitted, processed, updates, learnt>>
vars == <<execVars, mainVars>>

FullTrainer == 0 .. BatchSize - 1
PartialTrainer == {-1 - i : i \in 0 .. NumPartial - 1}
AnyTrainer == FullTrainer \cup PartialTrainer

ASSUME EnvTrainers == Trainer = AnyTrainer

Total == Len(order)
NoUpdates == [t \in AnyTrainer |-> 0]

-------------------------------------------------------------------------------

Init ==
  /\ ExecInit
  /\ pc = "initOther"
  /\ epoch = 0
  /\ firstEpoch = TRUE
  /\ read = 0
  /\ finished = FALSE
  /\ example = [t \in FullTrainer |-> 0]
  /\ order = <<>>
  /\ iter = 0
  /\ submitted = 0
  /\ processed = 0
  /\ updates = NoUpdates
  /\ learnt = {}

Goto(label) == pc' = label

(* initOther and the loading of the corpora: an error returns from         *)
(* doTrainJpp, whose TrainingEnv is then destroyed.                        *)

InitDone ==
  /\ pc = "initOther"
  /\ exec \in {"ready", "failed"}
  /\ \/ exec = "ready" /\ Goto("epoch")
     \/ (exec = "failed" \/ MayFail) /\ Goto("leave")
  /\ UNCHANGED <<execVars, corpusVars, batchVars>>

\* doTrain: the next epoch starts from the beginning of the corpus
StartEpoch ==
  /\ pc = "epoch"
  /\ read' = 0
  /\ finished' = FALSE
  /\ learnt' = {}
  /\ Goto("read")
  /\ UNCHANGED <<execVars, epoch, firstEpoch, batchVars>>

\* Mutation of Readable: the last example always meets the end of the file.
ReadableDropsLast == (NumExamples - 1) - read

\* The examples that readFullBatch can still make trainers of: an example
\* that reaches the end of the file sets finished_ and is not counted.
Readable == (IF LastTerminated THEN NumExamples ELSE NumExamples - 1) - read

(* readOneBatch and prepareTrainers: full trainers are reset and filled    *)
(* from 0 on; then the trainers of the batch are put in a random order.    *)

ReadBatch ==
  /\ pc = "read"
  /\ ~finished
  /\ LET count == IF Readable >= BatchSize THEN BatchSize ELSE Readable
         batch == (0 .. count - 1) \cup (IF firstEpoch THEN {} ELSE PartialTrainer)
     IN /\ example' = [t \in FullTrainer |->
                         IF t < count THEN read + t + 1
                         ELSE IF t > count THEN example[t]
                         ELSE IF LastTerminated THEN 0 ELSE NumExamples]
        /\ read' = read + count
        /\ finished' = (count < BatchSize)
        /\ order' \in SetToSeqs(batch)
        /\ Goto(IF batch = {} THEN "epochEnd" ELSE "submit")
  /\ iter' = 0
  /\ submitted' = 0
  /\ processed' = 0
  /\ updates' = NoUpdates
  /\ UNCHANGED <<execVars, epoch, firstEpoch, learnt>>

\* A malformed example ends trainOneEpoch with an error: exit(1).
ReadFails ==
  /\ pc = "read"
  /\ ~finished
  /\ MayFail
  /\ Goto("exit")
  /\ UNCHANGED <<execVars, corpusVars, batchVars>>

CorpusRead ==
  /\ pc = "read"
  /\ finished
  /\ Goto("epochEnd")
  /\ UNCHANGED <<execVars, corpusVars, batchVars>>

(* trainOneBatch, step 1: configure the beam of the next trainer and       *)
(* submit it; a full queue, or the end of the batch, leads to step 2.      *)

Submit ==
  /\ pc = "submit"
  /\ submitted < Total
  /\ SubmitNext(order[submitted + 1])
  /\ submitted' = submitted + 1
  /\ UNCHANGED <<pc, corpusVars, example, order, iter, processed, updates>>

StopSubmitting ==
  /\ pc = "submit"
  /\ submitted = Total \/ Len(trainers) >= capa
  /\ Goto("wait")
  /\ UNCHANGED <<execVars, corpusVars, batchVars>>

(* trainOneBatch, step 2: wait for a result and update the weights with it *)

UpdateWeights(t) ==
  /\ updates' = [updates EXCEPT ![t] = @ + 1]
  /\ learnt' = learnt \cup (IF t >= 0 THEN {example[t]} ELSE {})

\* Mutation of HandleProcessed: the batch ends when all were submitted.
HandleUntilSubmitted ==
  /\ pc = "wait"
  /\ WaitOne
  /\ processed' = processed + 1
  /\ UpdateWeights(Head(results).trainer)
  /\ Goto(IF submitted < Total THEN "submit" ELSE "batchDone")
  /\ UNCHANGED <<epoch, firstEpoch, read, finished, example, order, iter, submitted>>

\* Mutation of HandleProcessed: a failed batch is given up for the next one.
HandleSkipsBatch ==
  /\ pc = "wait"
  /\ WaitOne
  /\ IF Head(results).ok
     THEN /\ processed' = processed + 1
          /\ UpdateWeights(Head(results).trainer)
          /\ Goto(IF processed + 1 < Total THEN "submit" ELSE "batchDone")
     ELSE /\ Goto("read")
          /\ UNCHANGED <<processed, updates, learnt>>
  /\ UNCHANGED <<epoch, firstEpoch, read, finished, example, order, iter, submitted>>

\* Mutation of HandleProcessed: a failed example is counted and passed over.
HandleSkipsExample ==
  /\ pc = "wait"
  /\ WaitOne
  /\ processed' = processed + 1
  /\ IF Head(results).ok
     THEN UpdateWeights(Head(results).trainer)
     ELSE UNCHANGED <<updates, learnt>>
  /\ Goto(IF processed + 1 < Total THEN "submit" ELSE "batchDone")
  /\ UNCHANGED <<epoch, firstEpoch, read, finished, example, order, iter, submitted>>

HandleProcessed ==
  /\ pc = "wait"
  /\ WaitOne
  /\ IF Head(results).ok
     THEN /\ processed' = processed + 1
          /\ UpdateWeights(Head(results).trainer)
          /\ Goto(IF processed + 1 < Total THEN "submit" ELSE "batchDone")
     ELSE /\ Goto("exit")
          /\ UNCHANGED <<processed, updates, learnt>>
  /\ UNCHANGED <<epoch, firstEpoch, read, finished, example, order, iter, submitted>>

\* The loop over batchIter in trainOneEpoch: again, or the next batch
BatchDone ==
  /\ pc = "batchDone"
  /\ \/ /\ iter + 1 < BatchMaxIterations
        /\ iter' = iter + 1
        /\ submitted' = 0
        /\ processed' = 0
        /\ Goto("submit")
     \/ /\ Goto("read")
        /\ UNCHANGED <<iter, submitted, processed>>
  /\ UNCHANGED <<execVars, corpusVars, example, order, updates>>

\* End of trainOneEpoch, and doTrain's decision to stop
EpochEnd ==
  /\ pc = "epochEnd"
  /\ firstEpoch' = FALSE
  /\ epoch' = epoch + 1
  /\ \/ epoch + 1 < MaxEpochs /\ Goto("epoch")
     \/ Goto("leave")
  /\ UNCHANGED <<execVars, read, finished, learnt, batchVars>>

\* doTrainJpp returns: ~TrainingEnv destroys the executor
Leave ==
  /\ pc = "leave"
  /\ Destroy
  /\ Goto("destroying")
  /\ UNCHANGED <<corpusVars, batchVars>>

Left ==
  /\ pc = "destroying"
  /\ exec = "destroyed"
  /\ Goto("exit")
  /\ UNCHANGED <<execVars, corpusVars, batchVars>>

Running == pc # "exit"

\* The process is gone, with all its threads.
Exited ==
  /\ ~Running
  /\ UNCHANGED vars

MainStep ==
  \/ InitDone \/ StartEpoch \/ ReadBatch \/ ReadFails \/ CorpusRead
  \/ Submit \/ StopSubmitting \/ HandleProcessed \/ BatchDone \/ EpochEnd
  \/ Leave \/ Left

ExecutorStep ==
  /\ Running
  /\ Starting \/ Closing \/ \E w \in Worker : WorkerStep(w)
  /\ UNCHANGED mainVars

Next == MainStep \/ ExecutorStep \/ Exited

Spec == Init /\ [][Next]_vars

\* Every thread of the process runs when it can: the main thread (which also
\* starts the workers and joins them) and each worker.
Fairness ==
  /\ WF_vars(MainStep)
  /\ WF_vars(Running /\ (Starting \/ Closing) /\ UNCHANGED mainVars)
  /\ \A w \in Worker : WF_vars(Running /\ WorkerStep(w) /\ UNCHANGED mainVars)

FairSpec == Spec /\ Fairness

-------------------------------------------------------------------------------
\* Types of the main thread's state.
TypeOK ==
  /\ ExecTypeOK
  /\ pc \in {"initOther", "epoch", "read", "submit", "wait", "batchDone",
             "epochEnd", "leave", "destroying", "exit"}
  /\ epoch \in 0 .. MaxEpochs
  /\ {firstEpoch, finished} \subseteq BOOLEAN
  /\ read \in 0 .. NumExamples
  /\ example \in [FullTrainer -> 0 .. NumExamples]
  /\ order \in Seq(AnyTrainer)
  /\ iter \in 0 .. BatchMaxIterations - 1
  /\ processed \in 0 .. submitted
  /\ submitted \in 0 .. Total
  /\ updates \in [AnyTrainer -> 0 .. BatchMaxIterations]
  /\ learnt \subseteq 1 .. NumExamples

\* The trainers the main thread is about to write to: readFullBatch resets
\* full trainers, setGlobalBeam the next trainer of the batch (also when the
\* queue then turns out to be full), and it reads the one it got back.
Touched ==
  CASE pc = "read" /\ ~finished -> FullTrainer
    [] pc = "submit" /\ submitted < Total -> {order[submitted + 1]}
    [] pc = "wait" /\ results # <<>> -> {Head(results).trainer}
    [] OTHER -> {}

\* The main thread never touches a trainer that a worker has or may get.
MainTouchesOnlyItsOwn == Touched \cap (Queued \cup Held) = {}

\* trainOneBatch's assertion that no result is left at its end, and what it
\* stands for: nothing is queued either and every worker sleeps.
BatchEndsQuiescent ==
  pc \in {"batchDone", "read", "epochEnd", "leave"} =>
    InFlight = {} /\ \A w \in Worker : wpc[w] \in {"none", "wait"}

\* At the end of an iteration over a batch each of its trainers, full or
\* partial, has updated the weights exactly once per iteration.
OneUpdatePerIteration ==
  pc = "batchDone" =>
    \A t \in AnyTrainer : updates[t] = IF t \in ToSet(order) THEN iter + 1 ELSE 0

\* An epoch learns from every example of the corpus, whatever the batch size
\* and the order of the results.
EveryExampleLearnt == pc = "epochEnd" => learnt = 1 .. NumExamples

\* The program ends: no batch waits for a result that does not come, and the
\* destructor finds every worker.
TrainingEnds == <>(pc = "exit")

\* A failing start of the executor is reported by the program, which exits.
StartFailureIsReported == exec = "failed" ~> pc = "exit"
===============================================================================
