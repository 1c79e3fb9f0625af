--------------------------- MODULE TrainingExecutor ---------------------------
(***************************************************************************)
(* TrainingExecutor and TrainingExecutorThread                             *)
(* (core/training/training_executor.{h,cc}): n worker threads between a    *)
(* queue of trainers and a queue of results, both util::bounded_queue of   *)
(* capacity 2n.  The queues are the FIFO queues that BoundedQueue          *)
(* implements; a thread inside waitFor is a thread whose action is not     *)
(* enabled.                                                                *)
(*                                                                         *)
(* The thread that owns the executor (the client) is left open here: it    *)
(* submits trainers it owns, collects results and destroys the executor.   *)
(* TrainingEnv is the client of the program.                               *)
(***************************************************************************)
EXTENDS Naturals, Sequences, FiniteSets

CONSTANTS Worker,         \* the worker threads
          Trainer,        \* the ITrainer objects
          Null,           \* nullptr, the request to stop
          StartMayFail,   \* std::thread may throw system_error
          CloseLimit      \* how many trainers may be out at destruction

ASSUME ExecutorConstants ==
  /\ IsFiniteSet(Worker) /\ Worker # {}
  /\ Null \notin Trainer
  /\ StartMayFail \in BOOLEAN
  /\ CloseLimit \in Nat

VARIABLES exec,      \* life of the TrainingExecutor object
          capa,      \* capacity of both queues: 0 until initialized
          trainers,  \* trainers_: submitted trainers and stop requests
          results,   \* results_: processed trainers with their status
          wpc,       \* where each worker is
          wjob       \* what each worker holds: its trainer and status

execVars == <<exec, capa, trainers, results, wpc, wjob>>

FullCapa == 2 * Cardinality(Worker)
NoJob == [trainer |-> Null, ok |-> TRUE]
Job == [trainer : Trainer \cup {Null}, ok : BOOLEAN]

Queued == {t \in Trainer : \E i \in DOMAIN trainers : trainers[i] = t}
Held == {t \in Trainer : \E w \in Worker : wjob[w].trainer = t}
Done == {t \in Trainer : \E i \in DOMAIN results : results[i].trainer = t}
InFlight == Queued \cup Held \cup Done

-------------------------------------------------------------------------------

ExecInit ==
  /\ exec = "starting"
  /\ capa = 0
  /\ trainers = <<>>
  /\ results = <<>>
  /\ wpc = [w \in Worker |-> "none"]
  /\ wjob = [w \in Worker |-> NoJob]

(* initialize(): the threads are started first, the queues get their      *)
(* capacity last; until then the running workers sleep on an empty queue. *)

StartThread(w) ==
  /\ exec = "starting"
  /\ wpc[w] = "none"
  /\ wpc' = [wpc EXCEPT ![w] = "wait"]
  /\ UNCHANGED <<exec, capa, trainers, results, wjob>>

ThreadStartFails ==
  /\ StartMayFail
  /\ exec = "starting"
  /\ \E w \in Worker : wpc[w] = "none"
  /\ exec' = "failed"
  /\ UNCHANGED <<capa, trainers, results, wpc, wjob>>

InitializeQueues ==
  /\ exec = "starting"
  /\ \A w \in Worker : wpc[w] # "none"
  /\ exec' = "ready"
  /\ capa' = FullCapa
  /\ UNCHANGED <<trainers, results, wpc, wjob>>

\* submitNext returns false, and changes nothing, if the queue is full.
SubmitNext(t) ==
  /\ exec = "ready"
  /\ Len(trainers) < capa
  /\ trainers' = Append(trainers, t)
  /\ UNCHANGED <<exec, capa, results, wpc, wjob>>

\* waitOne, once there is a result, and a successful resultWithoutWait
WaitOne ==
  /\ exec = "ready"
  /\ results # <<>>
  /\ results' = Tail(results)
  /\ UNCHANGED <<exec, capa, trainers, wpc, wjob>>

(* run(): one iteration of the worker's loop is Receive, Prepare, Compute, *)
(* OfferResult; a failing or throwing step leaves an error status.         *)

\* Mutation of Receive: the item is read and not removed.
ReceivePeek(w) ==
  /\ wpc[w] = "wait"
  /\ trainers # <<>>
  /\ Head(trainers) # Null
  /\ wpc' = [wpc EXCEPT ![w] = "prepare"]
  /\ wjob' = [wjob EXCEPT ![w] = [trainer |-> Head(trainers), ok |-> TRUE]]
  /\ UNCHANGED <<exec, capa, trainers, results>>

Receive(w) ==
  /\ wpc[w] = "wait"
  /\ trainers # <<>>
  /\ trainers' = Tail(trainers)
  /\ IF Head(trainers) = Null
     THEN /\ wpc' = [wpc EXCEPT ![w] = "exited"]
          /\ UNCHANGED wjob
     ELSE /\ wpc' = [wpc EXCEPT ![w] = "prepare"]
          /\ wjob' = [wjob EXCEPT ![w] = [trainer |-> Head(trainers), ok |-> TRUE]]
  /\ UNCHANGED <<exec, capa, results>>

Prepare(w) ==
  /\ wpc[w] = "prepare"
  /\ \/ /\ wpc' = [wpc EXCEPT ![w] = "compute"]
        /\ UNCHANGED wjob
     \/ /\ wpc' = [wpc EXCEPT ![w] = "offer"]
        /\ wjob' = [wjob EXCEPT ![w].ok = FALSE]
  /\ UNCHANGED <<exec, capa, trainers, results>>

Compute(w) ==
  /\ wpc[w] = "compute"
  /\ wpc' = [wpc EXCEPT ![w] = "offer"]
  /\ \E ok \in BOOLEAN : wjob' = [wjob EXCEPT ![w].ok = ok]
  /\ UNCHANGED <<exec, capa, trainers, results>>

\* Mutation of OfferResult: one attempt, a full queue drops the result.
OfferResultOnce(w) ==
  /\ wpc[w] = "offer"
  /\ results' = IF Len(results) < capa THEN Append(results, wjob[w]) ELSE results
  /\ wjob' = [wjob EXCEPT ![w] = NoJob]
  /\ wpc' = [wpc EXCEPT ![w] = "wait"]
  /\ UNCHANGED <<exec, capa, trainers>>

\* The worker spins until the result queue has room.
OfferResult(w) ==
  /\ wpc[w] = "offer"
  /\ Len(results) < capa
  /\ results' = Append(results, wjob[w])
  /\ wjob' = [wjob EXCEPT ![w] = NoJob]
  /\ wpc' = [wpc EXCEPT ![w] = "wait"]
  /\ UNCHANGED <<exec, capa, trainers>>

WorkerStep(w) == Receive(w) \/ Prepare(w) \/ Compute(w) \/ OfferResult(w)

(* ~TrainingExecutor(): stop requests until the queue is full, then       *)
(* unblock_all (sleepers test size() again and sleep on), then join.      *)

Destroy ==
  /\ exec \in {"ready", "failed"}
  /\ exec' = "closing"
  /\ UNCHANGED <<capa, trainers, results, wpc, wjob>>

OfferNull ==
  /\ exec = "closing"
  /\ Len(trainers) < capa
  /\ trainers' = Append(trainers, Null)
  /\ UNCHANGED <<exec, capa, results, wpc, wjob>>

\* Mutation of QueueFilled: a single stop request.
OneStopRequest ==
  /\ exec = "closing"
  /\ Len(trainers) >= 1
  /\ exec' = "joining"
  /\ UNCHANGED <<capa, trainers, results, wpc, wjob>>

QueueFilled ==
  /\ exec = "closing"
  /\ Len(trainers) >= capa
  /\ exec' = "joining"
  /\ UNCHANGED <<capa, trainers, results, wpc, wjob>>

JoinAll ==
  /\ exec = "joining"
  /\ \A w \in Worker : wpc[w] \in {"none", "exited"}
  /\ exec' = "destroyed"
  /\ UNCHANGED <<capa, trainers, results, wpc, wjob>>

Starting == (\E w \in Worker : StartThread(w)) \/ InitializeQueues \/ ThreadStartFails
Closing == OfferNull \/ QueueFilled \/ JoinAll

-------------------------------------------------------------------------------
(* A client that submits a trainer only while it owns it and destroys the  *)
(* executor with at most CloseLimit trainers out.                          *)

ClientStep ==
  \/ \E t \in Trainer \ InFlight : SubmitNext(t)
  \/ WaitOne
  \/ Destroy /\ Cardinality(InFlight) <= CloseLimit

Destroyed == exec = "destroyed" /\ UNCHANGED execVars

ExecNext ==
  \/ Starting
  \/ ClientStep
  \/ Closing
  \/ \E w \in Worker : WorkerStep(w)
  \/ Destroyed

ExecSpec == ExecInit /\ [][ExecNext]_execVars

\* The operating system runs every runnable thread, the destructor's too;
\* nothing obliges the client to submit, collect or destroy.
FairExecSpec ==
  /\ ExecSpec
  /\ \A w \in Worker : WF_execVars(WorkerStep(w))
  /\ WF_execVars(Closing)

-------------------------------------------------------------------------------
\* Types of the state.
ExecTypeOK ==
  /\ exec \in {"starting", "ready", "failed", "closing", "joining", "destroyed"}
  /\ capa \in {0, FullCapa}
  /\ trainers \in Seq(Trainer \cup {Null})
  /\ results \in Seq([trainer : Trainer, ok : BOOLEAN])
  /\ wpc \in [Worker -> {"none", "wait", "prepare", "compute", "offer", "exited"}]
  /\ wjob \in [Worker -> Job]

\* A trainer is never in two hands: waiting in one queue slot, held by one
\* worker or listed in one result, and a worker holds one exactly while it
\* processes it.  Two workers on one trainer would share its analyzer.
OneHolder ==
  /\ \A i, j \in DOMAIN trainers :
       trainers[i] = trainers[j] /\ trainers[i] # Null => i = j
  /\ \A v, w \in Worker :
       wjob[v].trainer = wjob[w].trainer /\ wjob[v].trainer # Null => v = w
  /\ \A i, j \in DOMAIN results : results[i].trainer = results[j].trainer => i = j
  /\ Queued \cap Held = {} /\ Queued \cap Done = {} /\ Held \cap Done = {}
  /\ \A w \in Worker :
       wjob[w].trainer # Null <=> wpc[w] \in {"prepare", "compute", "offer"}

\* Where the client's trainers are, as the task pool sees it.
Stage == [t \in Trainer |-> CASE t \in Queued \cup Held -> "pending"
                              [] t \in Done -> "ready"
                              [] OTHER -> "idle"]

Pool == INSTANCE TaskPool WITH Task <- Trainer, stage <- Stage

\* Every submitted trainer is processed once and handed back once.
ImplementsTaskPool == Pool!Spec

\* Destroying an executor that had started ends: every worker finds a stop
\* request behind the trainers that were still queued.
ShutdownEnds == exec = "closing" /\ capa = FullCapa ~> exec = "destroyed"
===============================================================================
