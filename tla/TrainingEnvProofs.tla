--------------------------- MODULE TrainingEnvProofs ---------------------------
(***************************************************************************)
(* Proofs about TrainingExecutor for every number of workers and trainers, *)
(* and about TrainingEnv, which composes it with the main thread, for      *)
(* every batch size, corpus, number of partial examples and number of      *)
(* workers.                                                                *)
(*                                                                         *)
(* Inv, the inductive invariant of the executor, is the types together     *)
(* with OneHolder: that the queue of results holds trainers and no Null    *)
(* follows from the last conjunct of OneHolder, and OneHolder speaks of    *)
(* typed sequences.                                                        *)
(*                                                                         *)
(* EnvInv, the inductive invariant of the whole, adds to Inv what the      *)
(* main thread knows of a batch: its trainers are different ones, those in *)
(* flight are among those submitted, and their number is the difference of *)
(* the two counters (Flight).  This is why a batch that has processed as   *)
(* many results as it has trainers leaves nothing behind.  Learning says   *)
(* who has updated the weights, and so what the epoch has learnt from.     *)
(***************************************************************************)
EXTENDS TrainingEnv, FiniteSetTheorems, TLAPS

-------------------------------------------------------------------------------
(* The executor                                                            *)

Inv == ExecTypeOK /\ OneHolder

\* A step that leaves both queues and the jobs alone moves no trainer.
LEMMA SameHands ==
  ASSUME UNCHANGED <<trainers, results, wjob>>
  PROVE  Queued' = Queued /\ Held' = Held /\ Done' = Done
  BY DEF Queued, Held, Done

\* A sequence with one more element: what is at its positions.
LEMMA AppendAt ==
  ASSUME NEW S, NEW s \in Seq(S), NEW x \in S
  PROVE  /\ Append(s, x) \in Seq(S)
         /\ DOMAIN Append(s, x) = DOMAIN s \cup {Len(s) + 1}
         /\ Len(s) + 1 \notin DOMAIN s
         /\ \A i \in DOMAIN s : Append(s, x)[i] = s[i]
         /\ Append(s, x)[Len(s) + 1] = x
  OBVIOUS

\* A sequence without its head: what is at its positions.
LEMMA TailAt ==
  ASSUME NEW S, NEW s \in Seq(S), s # <<>>
  PROVE  /\ Tail(s) \in Seq(S)
         /\ Head(s) = s[1] /\ 1 \in DOMAIN s /\ Head(s) \in S
         /\ \A i \in DOMAIN Tail(s) :
              i \in Nat /\ i + 1 \in DOMAIN s /\ Tail(s)[i] = s[i + 1] /\ i + 1 # 1
         /\ \A i \in DOMAIN s : i # 1 =>
              i \in Nat /\ i - 1 \in DOMAIN Tail(s) /\ Tail(s)[i - 1] = s[i]
  OBVIOUS

\* Submitting a trainer, or a stop request, adds it to the queued ones.
LEMMA AppendTrainer ==
  ASSUME Inv, NEW x \in Trainer \cup {Null}, x \notin Queued,
         trainers' = Append(trainers, x)
  PROVE  /\ trainers' \in Seq(Trainer \cup {Null})
         /\ Queued' = Queued \cup ({x} \cap Trainer)
         /\ \A i, j \in DOMAIN trainers' :
              trainers'[i] = trainers'[j] /\ trainers'[i] # Null => i = j
  <1>1. trainers \in Seq(Trainer \cup {Null})
    BY DEF Inv, ExecTypeOK
  <1>2. /\ trainers' \in Seq(Trainer \cup {Null})
        /\ DOMAIN trainers' = DOMAIN trainers \cup {Len(trainers) + 1}
        /\ \A i \in DOMAIN trainers : trainers'[i] = trainers[i]
        /\ trainers'[Len(trainers) + 1] = x
    BY <1>1, AppendAt
  <1>3. Queued' = Queued \cup ({x} \cap Trainer)
    BY <1>2 DEF Queued
  <1>4. ASSUME NEW i \in DOMAIN trainers', NEW j \in DOMAIN trainers',
               trainers'[i] = trainers'[j], trainers'[i] # Null
        PROVE  i = j
    <2>1. \A k \in DOMAIN trainers : trainers[k] = x => x = Null
      BY <1>1 DEF Queued
    <2>2. QED
      BY <1>2, <1>4, <2>1 DEF Inv, OneHolder
  <1>5. QED
    BY <1>2, <1>3, <1>4

\* Receiving takes the head, and nothing else, out of the queued ones.
LEMMA TakeTrainer ==
  ASSUME Inv, trainers # <<>>, trainers' = Tail(trainers)
  PROVE  /\ trainers' \in Seq(Trainer \cup {Null})
         /\ Head(trainers) \in Trainer \cup {Null}
         /\ Head(trainers) \in Trainer => Head(trainers) \in Queued
         /\ Queued' = Queued \ {Head(trainers)}
         /\ \A i, j \in DOMAIN trainers' :
              trainers'[i] = trainers'[j] /\ trainers'[i] # Null => i = j
  <1> DEFINE T == Trainer \cup {Null}
  <1>1. trainers \in Seq(T)
    BY DEF Inv, ExecTypeOK
  <1>2. /\ trainers' \in Seq(T)
        /\ Head(trainers) = trainers[1] /\ 1 \in DOMAIN trainers /\ Head(trainers) \in T
        /\ \A i \in DOMAIN trainers' :
             i \in Nat /\ i + 1 \in DOMAIN trainers /\ trainers'[i] = trainers[i + 1] /\ i + 1 # 1
        /\ \A i \in DOMAIN trainers : i # 1 =>
             i \in Nat /\ i - 1 \in DOMAIN trainers' /\ trainers'[i - 1] = trainers[i]
    BY <1>1, TailAt
  <1>3. Null \notin Trainer
    BY ExecutorConstants
  <1>4. \A i, j \in DOMAIN trainers :
          trainers[i] = trainers[j] /\ trainers[i] # Null => i = j
    BY DEF Inv, OneHolder
  <1>5. Queued' \subseteq Queued \ {Head(trainers)}
    BY <1>2, <1>3, <1>4 DEF Queued
  <1>6. Queued \ {Head(trainers)} \subseteq Queued'
    <2>1. SUFFICES ASSUME NEW t \in Trainer, t # Head(trainers),
                          NEW i \in DOMAIN trainers, trainers[i] = t
                   PROVE  \E k \in DOMAIN trainers' : trainers'[k] = t
      BY DEF Queued
    <2>2. i # 1
      BY <1>2, <2>1
    <2>3. QED
      BY <1>2, <2>1, <2>2
  <1>7. \A i, j \in DOMAIN trainers' :
          trainers'[i] = trainers'[j] /\ trainers'[i] # Null => i = j
    BY <1>2, <1>4
  <1>8. Head(trainers) \in Trainer => Head(trainers) \in Queued
    BY <1>2 DEF Queued
  <1>9. QED
    BY <1>2, <1>5, <1>6, <1>7, <1>8

\* Offering a result adds its trainer to those that are done.
LEMMA AppendResult ==
  ASSUME Inv, NEW x \in [trainer : Trainer, ok : BOOLEAN], x.trainer \notin Done,
         results' = Append(results, x)
  PROVE  /\ results' \in Seq([trainer : Trainer, ok : BOOLEAN])
         /\ Done' = Done \cup {x.trainer}
         /\ \A i, j \in DOMAIN results' : results'[i].trainer = results'[j].trainer => i = j
  <1> DEFINE R == [trainer : Trainer, ok : BOOLEAN]
  <1>1. results \in Seq(R)
    BY DEF Inv, ExecTypeOK
  <1>2. /\ results' \in Seq(R)
        /\ DOMAIN results' = DOMAIN results \cup {Len(results) + 1}
        /\ \A i \in DOMAIN results : results'[i] = results[i]
        /\ results'[Len(results) + 1] = x
    BY <1>1, AppendAt
  <1>3. Done' = Done \cup {x.trainer}
    BY <1>2 DEF Done
  <1>4. \A k \in DOMAIN results : results[k].trainer # x.trainer
    BY <1>1 DEF Done
  <1>5. \A i, j \in DOMAIN results' : results'[i].trainer = results'[j].trainer => i = j
    BY <1>2, <1>4 DEF Inv, OneHolder
  <1>6. QED
    BY <1>2, <1>3, <1>5

\* Collecting takes the trainer of the first result out of those done.
LEMMA TakeResult ==
  ASSUME Inv, results # <<>>, results' = Tail(results)
  PROVE  /\ results' \in Seq([trainer : Trainer, ok : BOOLEAN])
         /\ Head(results).trainer \in Done
         /\ Done' = Done \ {Head(results).trainer}
         /\ \A i, j \in DOMAIN results' : results'[i].trainer = results'[j].trainer => i = j
  <1> DEFINE R == [trainer : Trainer, ok : BOOLEAN]
  <1>1. results \in Seq(R)
    BY DEF Inv, ExecTypeOK
  <1>2. /\ results' \in Seq(R)
        /\ Head(results) = results[1] /\ 1 \in DOMAIN results /\ Head(results) \in R
        /\ \A i \in DOMAIN results' :
             i \in Nat /\ i + 1 \in DOMAIN results /\ results'[i] = results[i + 1] /\ i + 1 # 1
        /\ \A i \in DOMAIN results : i # 1 =>
             i \in Nat /\ i - 1 \in DOMAIN results' /\ results'[i - 1] = results[i]
    BY <1>1, TailAt
  <1>3. \A i, j \in DOMAIN results : results[i].trainer = results[j].trainer => i = j
    BY DEF Inv, OneHolder
  <1>4. Done' \subseteq Done \ {Head(results).trainer}
    BY <1>2, <1>3 DEF Done
  <1>5. Done \ {Head(results).trainer} \subseteq Done'
    <2>1. SUFFICES ASSUME NEW t \in Trainer, t # Head(results).trainer,
                          NEW i \in DOMAIN results, results[i].trainer = t
                   PROVE  \E k \in DOMAIN results' : results'[k].trainer = t
      BY DEF Done
    <2>2. i # 1
      BY <1>2, <2>1
    <2>3. QED
      BY <1>2, <2>1, <2>2
  <1>6. \A i, j \in DOMAIN results' : results'[i].trainer = results'[j].trainer => i = j
    BY <1>2, <1>3
  <1>7. Head(results).trainer \in Done
    BY <1>2 DEF Done
  <1>8. QED
    BY <1>2, <1>4, <1>5, <1>6, <1>7

\* A worker that takes a trainer nobody holds, gives its trainer away, or only
\* changes the status of its job
LEMMA JobChange ==
  ASSUME Inv, NEW w \in Worker, NEW job \in Job,
         wjob' = [wjob EXCEPT ![w] = job],
         job.trainer \notin Held \ {wjob[w].trainer}
  PROVE  /\ wjob' \in [Worker -> Job]
         /\ Held' = (Held \ {wjob[w].trainer}) \cup ({job.trainer} \cap Trainer)
         /\ \A u, v \in Worker :
              wjob'[u].trainer = wjob'[v].trainer /\ wjob'[u].trainer # Null => u = v
  <1>1. wjob \in [Worker -> Job] /\ Null \notin Trainer
    BY ExecutorConstants DEF Inv, ExecTypeOK
  <1>2. \A u, v \in Worker :
          wjob[u].trainer = wjob[v].trainer /\ wjob[u].trainer # Null => u = v
    BY DEF Inv, OneHolder
  <1>3. /\ wjob' \in [Worker -> Job]
        /\ wjob'[w] = job
        /\ \A v \in Worker \ {w} : wjob'[v] = wjob[v]
    BY <1>1
  <1>4. \A v \in Worker \ {w} : wjob[v].trainer = job.trainer => job.trainer = Null
    BY <1>1, <1>2 DEF Held, Job
  <1>5. Held' = (Held \ {wjob[w].trainer}) \cup ({job.trainer} \cap Trainer)
    BY <1>1, <1>2, <1>3 DEF Held
  <1>6. \A u, v \in Worker :
          wjob'[u].trainer = wjob'[v].trainer /\ wjob'[u].trainer # Null => u = v
    BY <1>1, <1>2, <1>3, <1>4
  <1>7. QED
    BY <1>3, <1>5, <1>6

-------------------------------------------------------------------------------
(* Every step keeps the invariant.                                         *)

\* What a worker holds is a trainer exactly while it processes it.
HoldsWhileBusy ==
  \A w \in Worker : wjob[w].trainer # Null <=> wpc[w] \in {"prepare", "compute", "offer"}

\* A trainer the client owns goes into the queue.
LEMMA SubmitKeepsInv ==
  ASSUME Inv, NEW t \in Trainer \ InFlight, SubmitNext(t)
  PROVE  Inv' /\ Queued' = Queued \cup {t} /\ Held' = Held /\ Done' = Done
  <1>1. /\ trainers' \in Seq(Trainer \cup {Null})
        /\ Queued' = Queued \cup {t}
        /\ \A i, j \in DOMAIN trainers' :
             trainers'[i] = trainers'[j] /\ trainers'[i] # Null => i = j
    BY AppendTrainer DEF SubmitNext, InFlight
  <1>2. Held' = Held /\ Done' = Done
    BY DEF SubmitNext, Held, Done
  <1>3. ExecTypeOK'
    BY <1>1 DEF Inv, ExecTypeOK, SubmitNext, FullCapa
  <1>4. OneHolder'
    BY <1>1, <1>2 DEF Inv, OneHolder, SubmitNext, InFlight
  <1>5. QED
    BY <1>1, <1>2, <1>3, <1>4 DEF Inv

\* Stop requests are no trainers.
LEMMA OfferNullKeepsInv ==
  ASSUME Inv, OfferNull
  PROVE  Inv' /\ Queued' = Queued /\ Held' = Held /\ Done' = Done
  <1>0. Null \notin Trainer /\ Null \notin Queued
    BY ExecutorConstants DEF Queued
  <1>1. /\ trainers' \in Seq(Trainer \cup {Null})
        /\ Queued' = Queued
        /\ \A i, j \in DOMAIN trainers' :
             trainers'[i] = trainers'[j] /\ trainers'[i] # Null => i = j
    <2>1. trainers' = Append(trainers, Null) /\ Null \in Trainer \cup {Null}
      BY DEF OfferNull
    <2>2. Queued' = Queued \cup ({Null} \cap Trainer)
      BY <1>0, <2>1, AppendTrainer
    <2>3. QED
      BY <1>0, <2>1, <2>2, AppendTrainer
  <1>2. Held' = Held /\ Done' = Done
    BY DEF OfferNull, Held, Done
  <1>3. ExecTypeOK'
    BY <1>1 DEF Inv, ExecTypeOK, OfferNull, FullCapa
  <1>4. OneHolder'
    BY <1>1, <1>2 DEF Inv, OneHolder, OfferNull
  <1>5. QED
    BY <1>1, <1>2, <1>3, <1>4 DEF Inv

\* The client gets back a trainer that no worker holds any more.
LEMMA WaitOneKeepsInv ==
  ASSUME Inv, WaitOne
  PROVE  /\ Inv'
         /\ Head(results).trainer \in Done
         /\ Queued' = Queued /\ Held' = Held /\ Done' = Done \ {Head(results).trainer}
  <1>1. /\ results' \in Seq([trainer : Trainer, ok : BOOLEAN])
        /\ Head(results).trainer \in Done
        /\ Done' = Done \ {Head(results).trainer}
        /\ \A i, j \in DOMAIN results' : results'[i].trainer = results'[j].trainer => i = j
    BY TakeResult DEF WaitOne
  <1>2. Queued' = Queued /\ Held' = Held
    BY DEF WaitOne, Queued, Held
  <1>3. ExecTypeOK'
    BY <1>1 DEF Inv, ExecTypeOK, WaitOne, FullCapa
  <1>4. OneHolder'
    BY <1>1, <1>2 DEF Inv, OneHolder, WaitOne
  <1>5. QED
    BY <1>1, <1>2, <1>3, <1>4 DEF Inv

\* A worker takes the first trainer of the queue, or a stop request.
LEMMA ReceiveKeepsInv ==
  ASSUME Inv, NEW w \in Worker, Receive(w)
  PROVE  /\ Inv'
         /\ Queued' \cup Held' = Queued \cup Held
         /\ Done' = Done
  <1> DEFINE t == Head(trainers)
  <1>1. /\ trainers' \in Seq(Trainer \cup {Null})
        /\ t \in Trainer \cup {Null}
        /\ t \in Trainer => t \in Queued
        /\ Queued' = Queued \ {t}
        /\ \A i, j \in DOMAIN trainers' :
             trainers'[i] = trainers'[j] /\ trainers'[i] # Null => i = j
    BY TakeTrainer DEF Receive
  <1>2. Done' = Done /\ results' = results /\ capa' = capa /\ exec' = exec
    BY DEF Receive, Done
  <1>3. Null \notin Trainer /\ Null \notin Queued /\ Null \notin Held
    BY ExecutorConstants DEF Queued, Held
  <1>4. wjob[w].trainer = Null /\ wpc[w] = "wait"
    BY DEF Inv, OneHolder, Receive
  <1>5. CASE t = Null
    <2>1. wjob' = wjob /\ wpc' = [wpc EXCEPT ![w] = "exited"]
      BY <1>5 DEF Receive
    <2>2. Held' = Held /\ Queued' = Queued
      BY <1>1, <1>3, <1>5, <2>1 DEF Held
    <2>3. ExecTypeOK'
      BY <1>1, <1>2, <2>1 DEF Inv, ExecTypeOK, FullCapa
    <2>4. HoldsWhileBusy'
      BY <1>4, <2>1 DEF Inv, ExecTypeOK, OneHolder, HoldsWhileBusy
    <2>5. OneHolder'
      BY <1>1, <1>2, <2>1, <2>2, <2>4 DEF Inv, OneHolder, HoldsWhileBusy
    <2>6. QED
      BY <1>2, <2>2, <2>3, <2>5 DEF Inv
  <1>6. CASE t # Null
    <2>0. t \in Trainer /\ t \in Queued /\ t \notin Held /\ t \notin Done
      BY <1>1, <1>6 DEF Inv, OneHolder
    <2>1. /\ wjob' = [wjob EXCEPT ![w] = [trainer |-> t, ok |-> TRUE]]
          /\ wpc' = [wpc EXCEPT ![w] = "prepare"]
      BY <1>6 DEF Receive
    <2>2. /\ wjob' \in [Worker -> Job]
          /\ Held' = Held \cup {t}
          /\ \A u, v \in Worker :
               wjob'[u].trainer = wjob'[v].trainer /\ wjob'[u].trainer # Null => u = v
      <3> DEFINE job == [trainer |-> t, ok |-> TRUE]
      <3>1. job \in Job /\ job.trainer = t
        BY <2>0 DEF Job
      <3>2. wjob' = [wjob EXCEPT ![w] = job]
        BY <2>1
      <3> HIDE DEF job
      <3>3. job.trainer \notin Held \ {wjob[w].trainer}
        BY <2>0, <3>1
      <3>4. /\ wjob' \in [Worker -> Job]
            /\ Held' = (Held \ {wjob[w].trainer}) \cup ({job.trainer} \cap Trainer)
            /\ \A u, v \in Worker :
                 wjob'[u].trainer = wjob'[v].trainer /\ wjob'[u].trainer # Null => u = v
        BY <3>1, <3>2, <3>3, JobChange
      <3>5. QED
        BY <1>3, <1>4, <2>0, <3>1, <3>4
    <2>3. ExecTypeOK'
      BY <1>1, <1>2, <2>1, <2>2 DEF Inv, ExecTypeOK, FullCapa, Job
    <2>4. HoldsWhileBusy'
      BY <1>3, <2>0, <2>1 DEF Inv, ExecTypeOK, OneHolder, HoldsWhileBusy
    <2>5. OneHolder'
      BY <1>1, <1>2, <2>0, <2>2, <2>4 DEF Inv, OneHolder, HoldsWhileBusy
    <2>6. QED
      BY <1>1, <1>2, <2>0, <2>2, <2>3, <2>5 DEF Inv
  <1>7. QED
    BY <1>5, <1>6

\* Preparing and computing change the status of the job at most.
LEMMA WorkKeepsInv ==
  ASSUME Inv, NEW w \in Worker, Prepare(w) \/ Compute(w)
  PROVE  Inv' /\ Queued' = Queued /\ Held' = Held /\ Done' = Done
  <1>1. PICK ok \in BOOLEAN, at \in {"compute", "offer"} :
          /\ wjob' = [wjob EXCEPT ![w] = [trainer |-> wjob[w].trainer, ok |-> ok]]
          /\ wpc' = [wpc EXCEPT ![w] = at]
    <2>1. wjob \in [Worker -> Job] /\ wjob[w] \in Job
      BY DEF Inv, ExecTypeOK
    <2>2. \A ok : [wjob EXCEPT ![w].ok = ok]
                   = [wjob EXCEPT ![w] = [trainer |-> wjob[w].trainer, ok |-> ok]]
      <3>1. \A ok : [wjob[w] EXCEPT !.ok = ok] = [trainer |-> wjob[w].trainer, ok |-> ok]
        BY <2>1 DEF Job
      <3>2. QED
        BY <3>1
    <2>3. wjob = [wjob EXCEPT ![w] = [trainer |-> wjob[w].trainer, ok |-> wjob[w].ok]]
      <3>1. wjob[w] = [trainer |-> wjob[w].trainer, ok |-> wjob[w].ok]
        BY <2>1 DEF Job
      <3>2. QED
        BY <2>1, <3>1
    <2>4. wjob[w].ok \in BOOLEAN
      BY <2>1 DEF Job
    <2>5. CASE Prepare(w)
      BY <2>2, <2>3, <2>4, <2>5 DEF Prepare
    <2>6. CASE Compute(w)
      BY <2>2, <2>6 DEF Compute
    <2>7. QED
      BY <2>5, <2>6
  <1>2. UNCHANGED <<exec, capa, trainers, results>> /\ wpc[w] \in {"prepare", "compute"}
    BY DEF Prepare, Compute
  <1>3. wjob[w].trainer \in Trainer /\ wjob[w].trainer # Null /\ wjob[w].trainer \in Held
    BY <1>2, ExecutorConstants DEF Inv, ExecTypeOK, OneHolder, Job, Held
  <1>4. [trainer |-> wjob[w].trainer, ok |-> ok] \in Job
    BY <1>3 DEF Job
  <1>5. /\ wjob' \in [Worker -> Job]
        /\ Held' = Held
        /\ \A u, v \in Worker :
             wjob'[u].trainer = wjob'[v].trainer /\ wjob'[u].trainer # Null => u = v
    <2> DEFINE job == [trainer |-> wjob[w].trainer, ok |-> ok]
    <2>1. job.trainer = wjob[w].trainer
      OBVIOUS
    <2>2. job \in Job /\ job.trainer \notin Held \ {wjob[w].trainer}
      BY <1>4, <2>1
    <2>3. wjob' = [wjob EXCEPT ![w] = job]
      BY <1>1
    <2> HIDE DEF job
    <2>4. /\ wjob' \in [Worker -> Job]
          /\ Held' = (Held \ {wjob[w].trainer}) \cup ({job.trainer} \cap Trainer)
          /\ \A u, v \in Worker :
               wjob'[u].trainer = wjob'[v].trainer /\ wjob'[u].trainer # Null => u = v
      BY <2>2, <2>3, JobChange
    <2>5. QED
      BY <1>3, <2>1, <2>4
  <1>6. Queued' = Queued /\ Done' = Done
    BY <1>2 DEF Queued, Done
  <1>7. ExecTypeOK'
    BY <1>1, <1>2, <1>5 DEF Inv, ExecTypeOK, FullCapa, Job
  <1>8. HoldsWhileBusy'
    BY <1>1, <1>2, <1>3 DEF Inv, ExecTypeOK, OneHolder, HoldsWhileBusy
  <1>9. OneHolder'
    BY <1>2, <1>5, <1>6, <1>8 DEF Inv, OneHolder, HoldsWhileBusy
  <1>10. QED
    BY <1>5, <1>6, <1>7, <1>9 DEF Inv

\* The worker gives its trainer away with the result.
LEMMA OfferResultKeepsInv ==
  ASSUME Inv, NEW w \in Worker, OfferResult(w)
  PROVE  /\ Inv'
         /\ wjob[w].trainer \in Held
         /\ Queued' = Queued
         /\ Held' = Held \ {wjob[w].trainer}
         /\ Done' = Done \cup {wjob[w].trainer}
  <1> DEFINE t == wjob[w].trainer
  <1>1. t \in Trainer /\ t \in Held /\ t \notin Done /\ t \notin Queued
    <2>1. t \in Trainer
      BY DEF Inv, ExecTypeOK, OneHolder, OfferResult, Job
    <2>2. QED
      BY <2>1 DEF Inv, OneHolder, Held
  <1>2. wjob[w] \in [trainer : Trainer, ok : BOOLEAN]
    BY <1>1 DEF Inv, ExecTypeOK, Job
  <1>3. /\ results' \in Seq([trainer : Trainer, ok : BOOLEAN])
        /\ Done' = Done \cup {t}
        /\ \A i, j \in DOMAIN results' : results'[i].trainer = results'[j].trainer => i = j
    BY <1>1, <1>2, AppendResult DEF OfferResult
  <1>4. /\ wjob' \in [Worker -> Job]
        /\ Held' = Held \ {t}
        /\ \A u, v \in Worker :
             wjob'[u].trainer = wjob'[v].trainer /\ wjob'[u].trainer # Null => u = v
    <2>1. NoJob \in Job /\ NoJob.trainer \notin Trainer /\ NoJob.trainer \notin Held
      BY ExecutorConstants DEF NoJob, Job, Held
    <2>2. wjob' = [wjob EXCEPT ![w] = NoJob]
      BY DEF OfferResult
    <2>3. /\ wjob' \in [Worker -> Job]
          /\ Held' = (Held \ {t}) \cup ({NoJob.trainer} \cap Trainer)
          /\ \A u, v \in Worker :
               wjob'[u].trainer = wjob'[v].trainer /\ wjob'[u].trainer # Null => u = v
      BY <2>1, <2>2, JobChange
    <2>4. QED
      BY <2>1, <2>3
  <1>5. Queued' = Queued
    BY DEF OfferResult, Queued
  <1>6. ExecTypeOK'
    BY <1>3, <1>4 DEF Inv, ExecTypeOK, OfferResult, FullCapa, Job
  <1>7. HoldsWhileBusy'
    BY ExecutorConstants DEF Inv, ExecTypeOK, OneHolder, HoldsWhileBusy, OfferResult, NoJob
  <1>8. OneHolder'
    BY <1>1, <1>3, <1>4, <1>5, <1>7 DEF Inv, OneHolder, HoldsWhileBusy, OfferResult
  <1>9. QED
    BY <1>1, <1>3, <1>4, <1>5, <1>6, <1>8 DEF Inv

\* Starting, closing and joining move no trainer.
LEMMA LifeCycleKeepsInv ==
  ASSUME Inv, \/ \E w \in Worker : StartThread(w)
              \/ InitializeQueues \/ ThreadStartFails \/ Destroy \/ QueueFilled
              \/ JoinAll \/ UNCHANGED execVars
  PROVE  Inv' /\ Queued' = Queued /\ Held' = Held /\ Done' = Done
  <1>1. UNCHANGED <<trainers, results, wjob>>
    BY DEF StartThread, InitializeQueues, ThreadStartFails, Destroy, QueueFilled, JoinAll, execVars
  <1>2. Queued' = Queued /\ Held' = Held /\ Done' = Done
    BY <1>1, SameHands
  <1>3. /\ exec' \in {"starting", "ready", "failed", "closing", "joining", "destroyed"}
        /\ capa' \in {0, FullCapa}
    BY DEF Inv, ExecTypeOK, StartThread, InitializeQueues, ThreadStartFails, Destroy,
           QueueFilled, JoinAll, execVars
  <1>4. /\ wpc' \in [Worker -> {"none", "wait", "prepare", "compute", "offer", "exited"}]
        /\ HoldsWhileBusy'
    BY <1>1 DEF Inv, ExecTypeOK, OneHolder, HoldsWhileBusy, StartThread, InitializeQueues,
           ThreadStartFails, Destroy, QueueFilled, JoinAll, execVars
  <1>5. ExecTypeOK'
    BY <1>1, <1>3, <1>4 DEF Inv, ExecTypeOK, FullCapa, Job
  <1>6. OneHolder'
    BY <1>1, <1>2, <1>4 DEF Inv, OneHolder, HoldsWhileBusy
  <1>7. QED
    BY <1>2, <1>5, <1>6 DEF Inv

\* Any step of the system, whatever the client does with its own trainers.
LEMMA StepKeepsInv ==
  ASSUME Inv, [ExecNext]_execVars
  PROVE  Inv'
  <1>1. ASSUME NEW t \in Trainer \ InFlight, SubmitNext(t)
        PROVE  Inv'
    BY <1>1, SubmitKeepsInv
  <1>2. CASE WaitOne
    BY <1>2, WaitOneKeepsInv
  <1>3. CASE OfferNull
    BY <1>3, OfferNullKeepsInv
  <1>4. ASSUME NEW w \in Worker, WorkerStep(w)
        PROVE  Inv'
    BY <1>4, ReceiveKeepsInv, WorkKeepsInv, OfferResultKeepsInv DEF WorkerStep
  <1>5. CASE Starting \/ Destroy \/ QueueFilled \/ JoinAll \/ UNCHANGED execVars
    BY <1>5, LifeCycleKeepsInv DEF Starting
  <1>6. QED
    BY <1>1, <1>2, <1>3, <1>4, <1>5 DEF ExecNext, ClientStep, Closing, Destroyed

\* Before the threads are started nobody holds anything.
LEMMA InitInv ==
  ASSUME ExecInit
  PROVE  Inv /\ Queued = {} /\ Held = {} /\ Done = {}
  <1>1. Queued = {} /\ Held = {} /\ Done = {}
    BY ExecutorConstants DEF ExecInit, Queued, Held, Done, NoJob
  <1>2. ExecTypeOK
    BY DEF ExecInit, ExecTypeOK, Job, NoJob
  <1>3. OneHolder
    BY <1>1 DEF ExecInit, OneHolder, NoJob
  <1>4. QED
    BY <1>1, <1>2, <1>3 DEF Inv

\* The inductive invariant holds in every reachable state.
THEOREM InvHolds == ExecSpec => []Inv
  BY InitInv, StepKeepsInv, PTL DEF ExecSpec

\* The types of the executor's state hold in every reachable state.
THEOREM ExecutorTypes == ExecSpec => []ExecTypeOK
  BY InvHolds, PTL DEF Inv

\* No trainer is ever in two hands, however many workers there are: two
\* threads never share the analyzer of a trainer.
THEOREM TrainersHaveOneHolder == ExecSpec => []OneHolder
  BY InvHolds, PTL DEF Inv

-------------------------------------------------------------------------------
(* The executor implements TaskPool.                                       *)

\* A step that moves a single trainer moves a single task.
LEMMA OneMove ==
  ASSUME NEW t \in Trainer, NEW from, NEW to,
         Stage[t] = from, Stage'[t] = to,
         \A u \in Trainer \ {t} : Stage'[u] = Stage[u]
  PROVE  Pool!Move(t, from, to)
  <1>1. Stage = [u \in Trainer |-> Stage[u]] /\ Stage' = [u \in Trainer |-> Stage'[u]]
    BY DEF Stage
  <1>2. Stage' = [Stage EXCEPT ![t] = to]
    BY <1>1
  <1>3. QED
    BY <1>2 DEF Pool!Move

\* Trainers that stay where they are keep their stage.
LEMMA SameStage ==
  ASSUME Queued' \cup Held' = Queued \cup Held, Done' = Done
  PROVE  Stage' = Stage
  BY DEF Stage

\* Submitting, processing and collecting are steps of the task pool; all
\* others, the stop requests and the threads' ends among them, are none.
LEMMA PoolStep ==
  ASSUME Inv, Inv', [ExecNext]_execVars
  PROVE  [Pool!Next]_Stage
  <1>1. ASSUME NEW t \in Trainer \ InFlight, SubmitNext(t)
        PROVE  Pool!Submit(t)
    <2>1. Queued' = Queued \cup {t} /\ Held' = Held /\ Done' = Done
      BY <1>1, SubmitKeepsInv
    <2>2. Stage[t] = "idle" /\ Stage'[t] = "pending"
      BY <2>1 DEF Stage, InFlight
    <2>3. \A u \in Trainer \ {t} : Stage'[u] = Stage[u]
      BY <2>1 DEF Stage
    <2>4. QED
      BY <2>2, <2>3, OneMove DEF Pool!Submit
  <1>2. ASSUME WaitOne
        PROVE  \E t \in Trainer : Pool!Collect(t)
    <2> DEFINE t == Head(results).trainer
    <2>1. t \in Done /\ Queued' = Queued /\ Held' = Held /\ Done' = Done \ {t}
      BY <1>2, WaitOneKeepsInv
    <2>2. t \in Trainer /\ t \notin Queued /\ t \notin Held
      BY <2>1 DEF Done, Inv, OneHolder
    <2> HIDE DEF t
    <2>3. Stage[t] = "ready" /\ Stage'[t] = "idle"
      BY <2>1, <2>2 DEF Stage
    <2>4. \A u \in Trainer \ {t} : Stage'[u] = Stage[u]
      BY <2>1 DEF Stage
    <2>5. Pool!Collect(t)
      BY <2>2, <2>3, <2>4, OneMove DEF Pool!Collect
    <2>6. QED
      BY <2>2, <2>5
  <1>3. ASSUME NEW w \in Worker, OfferResult(w)
        PROVE  \E t \in Trainer : Pool!Process(t)
    <2> DEFINE t == wjob[w].trainer
    <2>1. /\ t \in Held /\ Queued' = Queued
          /\ Held' = Held \ {t} /\ Done' = Done \cup {t}
      BY <1>3, OfferResultKeepsInv
    <2>2. t \in Trainer /\ t \notin Queued /\ t \notin Done
      BY <2>1 DEF Held, Inv, OneHolder
    <2> HIDE DEF t
    <2>3. Stage[t] = "pending" /\ Stage'[t] = "ready"
      BY <2>1, <2>2 DEF Stage
    <2>4. \A u \in Trainer \ {t} : Stage'[u] = Stage[u]
      BY <2>1 DEF Stage
    <2>5. Pool!Process(t)
      BY <2>2, <2>3, <2>4, OneMove DEF Pool!Process
    <2>6. QED
      BY <2>2, <2>5
  <1>4. ASSUME NEW w \in Worker, Receive(w) \/ Prepare(w) \/ Compute(w)
        PROVE  Stage' = Stage
    <2>1. Queued' \cup Held' = Queued \cup Held /\ Done' = Done
      BY <1>4, ReceiveKeepsInv, WorkKeepsInv
    <2>2. QED
      BY <2>1, SameStage
  <1>5. CASE OfferNull
    BY <1>5, OfferNullKeepsInv, SameStage
  <1>6. CASE Starting \/ Destroy \/ QueueFilled \/ JoinAll \/ UNCHANGED execVars
    BY <1>6, LifeCycleKeepsInv, SameStage DEF Starting
  <1>7. QED
    BY <1>1, <1>2, <1>3, <1>4, <1>5, <1>6
    DEF ExecNext, ClientStep, Closing, Destroyed, WorkerStep, Pool!Next

\* Every trainer submitted is processed once and handed back once, for every
\* number of workers and trainers.
THEOREM ExecutorImplementsTaskPool == ExecSpec => ImplementsTaskPool
  <1>1. ExecInit => Pool!Init
    <2>1. SUFFICES ASSUME ExecInit PROVE Stage = [t \in Trainer |-> "idle"]
      BY DEF Pool!Init
    <2>2. QED
      BY <2>1, InitInv DEF Stage
  <1>2. QED
    BY <1>1, PoolStep, InvHolds, PTL DEF ExecSpec, ImplementsTaskPool, Pool!Spec

-------------------------------------------------------------------------------
(* The main thread and the batches                                         *)

InEpoch == {"epoch", "read", "submit", "wait", "batchDone", "epochEnd"}
InBatch == {"submit", "wait", "batchDone"}
Outside == {"initOther", "epoch", "read", "batchDone", "epochEnd", "leave"}

SubmittedSoFar == {order[i] : i \in 1 .. submitted}

\* Nobody asks a worker to stop, and none does, before the destruction.
NoStopRequest ==
  exec \in {"starting", "ready", "failed"} =>
    /\ \A i \in DOMAIN trainers : trainers[i] # Null
    /\ \A w \in Worker : wpc[w] # "exited"

\* The program's control: the executor serves for the length of an epoch.
Control ==
  /\ pc \in InEpoch \cup {"initOther", "leave", "destroying", "exit"}
  /\ pc \in InEpoch => exec = "ready"
  /\ pc \in {"initOther", "leave"} => exec \in {"starting", "ready", "failed"}
  /\ epoch \in 0 .. MaxEpochs
  /\ pc \in InEpoch \cup {"initOther"} => epoch < MaxEpochs
  /\ {firstEpoch, finished} \subseteq BOOLEAN

\* The batch: different trainers, and counters within it.
Batch ==
  /\ order \in Seq(AnyTrainer)
  /\ \A i, j \in 1 .. Total : order[i] = order[j] => i = j
  /\ submitted \in 0 .. Total
  /\ processed \in 0 .. submitted
  /\ iter \in 0 .. BatchMaxIterations - 1

\* The trainers in flight are those submitted and not yet processed.
Flight ==
  /\ IsFiniteSet(InFlight)
  /\ pc \in {"submit", "wait"} =>
       /\ InFlight \subseteq SubmittedSoFar
       /\ Cardinality(InFlight) + processed = submitted
       /\ processed < Total
  /\ pc \in Outside => InFlight = {}
  /\ pc = "batchDone" => submitted = Total /\ Total > 0

\* A trainer has updated the weights once per iteration, in this one if it
\* has been submitted and is no longer in flight.
Updated ==
  /\ updates \in [AnyTrainer -> 0 .. BatchMaxIterations]
  /\ pc \in InBatch =>
       \A t \in AnyTrainer :
         updates[t] = IF t \notin ToSet(order) THEN 0
                      ELSE IF t \in SubmittedSoFar \ InFlight THEN iter + 1
                      ELSE iter

\* What has been read of the corpus has been learnt from, or is held by a
\* trainer of the batch that has not updated the weights yet.
Learning ==
  /\ read \in 0 .. NumExamples
  /\ Readable >= 0
  /\ example \in [FullTrainer -> 0 .. NumExamples]
  /\ learnt \subseteq 1 .. read
  /\ finished => Readable = 0
  /\ pc \in {"read", "epochEnd"} => learnt = 1 .. read
  /\ pc = "epochEnd" => Readable = 0
  /\ pc \in InBatch =>
       /\ \A t \in ToSet(order) : t >= 0 => example[t] \in 1 .. read
       /\ \A e \in 1 .. read :
            \/ e \in learnt
            \/ \E t \in ToSet(order) : t >= 0 /\ example[t] = e /\ updates[t] = 0

EnvInv ==
  Inv /\ NoStopRequest /\ Control /\ Batch /\ Flight /\ Updated /\ Learning

-------------------------------------------------------------------------------
(* Steps of the executor.                                                  *)

\* A worker's step moves a trainer from hand to hand within the executor.
LEMMA WorkerKeepsFlight ==
  ASSUME Inv, NEW w \in Worker, WorkerStep(w)
  PROVE  Inv' /\ InFlight' = InFlight
  <1>1. CASE Receive(w)
    BY <1>1, ReceiveKeepsInv DEF InFlight
  <1>2. CASE Prepare(w) \/ Compute(w)
    BY <1>2, WorkKeepsInv DEF InFlight
  <1>3. CASE OfferResult(w)
    BY <1>3, OfferResultKeepsInv DEF InFlight
  <1>4. QED
    BY <1>1, <1>2, <1>3 DEF WorkerStep

\* Starting and closing the executor moves no trainer.
LEMMA LifeKeepsFlight ==
  ASSUME Inv, Starting \/ Closing \/ Destroy \/ UNCHANGED execVars
  PROVE  Inv' /\ InFlight' = InFlight
  <1>1. CASE OfferNull
    BY <1>1, OfferNullKeepsInv DEF InFlight
  <1>2. CASE ~OfferNull
    <2>1. \/ \E w \in Worker : StartThread(w)
          \/ InitializeQueues \/ ThreadStartFails \/ Destroy \/ QueueFilled
          \/ JoinAll \/ UNCHANGED execVars
      BY <1>2 DEF Starting, Closing
    <2>2. QED
      BY <2>1, LifeCycleKeepsInv DEF InFlight
  <1>3. QED
    BY <1>1, <1>2

\* No step but the destructor's asks a worker to stop.
LEMMA NoStopRequestKept ==
  ASSUME Inv, NoStopRequest,
         \/ Starting \/ Closing \/ Destroy \/ UNCHANGED execVars \/ WaitOne
         \/ \E w \in Worker : WorkerStep(w)
         \/ \E t \in Trainer : SubmitNext(t)
  PROVE  NoStopRequest'
  <1> USE DEF NoStopRequest
  <1>0. /\ trainers \in Seq(Trainer \cup {Null})
        /\ wpc \in [Worker -> {"none", "wait", "prepare", "compute", "offer", "exited"}]
    BY DEF Inv, ExecTypeOK
  <1>1. CASE Starting
    BY <1>0, <1>1 DEF Starting, StartThread, InitializeQueues, ThreadStartFails
  <1>2. CASE Closing \/ Destroy
    BY <1>2 DEF Closing, OfferNull, QueueFilled, JoinAll, Destroy
  <1>3. CASE UNCHANGED execVars \/ WaitOne
    BY <1>3 DEF execVars, WaitOne
  <1>4. ASSUME NEW w \in Worker, WorkerStep(w)
        PROVE  NoStopRequest'
    <2>1. CASE Receive(w)
      <3> SUFFICES ASSUME exec \in {"starting", "ready", "failed"}
                   PROVE  /\ \A i \in DOMAIN trainers' : trainers'[i] # Null
                          /\ \A v \in Worker : wpc'[v] # "exited"
        BY <2>1 DEF Receive
      <3>1. trainers # <<>> /\ trainers' = Tail(trainers)
        BY <2>1 DEF Receive
      <3>2. /\ 1 \in DOMAIN trainers /\ Head(trainers) = trainers[1]
            /\ \A i \in DOMAIN Tail(trainers) :
                 i + 1 \in DOMAIN trainers /\ Tail(trainers)[i] = trainers[i + 1]
        BY <1>0, <3>1, TailAt
      <3>3. Head(trainers) # Null
        BY <3>2
      <3>4. wpc' = [wpc EXCEPT ![w] = "prepare"]
        BY <2>1, <3>3 DEF Receive
      <3>5. QED
        BY <1>0, <3>1, <3>2, <3>4
    <2>2. CASE Prepare(w) \/ Compute(w) \/ OfferResult(w)
      BY <1>0, <2>2 DEF Prepare, Compute, OfferResult
    <2>3. QED
      BY <1>4, <2>1, <2>2 DEF WorkerStep
  <1>5. ASSUME NEW t \in Trainer, SubmitNext(t)
        PROVE  NoStopRequest'
    <2>1. trainers' = Append(trainers, t) /\ UNCHANGED <<exec, wpc>> /\ t # Null
      BY <1>5, ExecutorConstants DEF SubmitNext
    <2>2. /\ DOMAIN Append(trainers, t) = DOMAIN trainers \cup {Len(trainers) + 1}
          /\ \A i \in DOMAIN trainers : Append(trainers, t)[i] = trainers[i]
          /\ Append(trainers, t)[Len(trainers) + 1] = t
      BY <1>0, AppendAt
    <2>3. QED
      BY <2>1, <2>2
  <1>6. QED
    BY <1>1, <1>2, <1>3, <1>4, <1>5

\* The workers and the life of the executor leave the main thread's view of
\* a batch alone.
LEMMA ExecutorStepKeeps ==
  ASSUME EnvInv, ExecutorStep
  PROVE  EnvInv'
  <1>1. Inv' /\ InFlight' = InFlight
    BY WorkerKeepsFlight, LifeKeepsFlight DEF EnvInv, ExecutorStep
  <1>2. NoStopRequest'
    BY NoStopRequestKept DEF EnvInv, ExecutorStep
  <1>3. UNCHANGED mainVars
    BY DEF ExecutorStep
  <1>4. Control'
    <2>1. exec = "ready" => ~Starting /\ ~Closing
      BY DEF ExecutorStep, Starting, Closing, StartThread, InitializeQueues,
             ThreadStartFails, OfferNull, QueueFilled, JoinAll, WorkerStep,
             Receive, Prepare, Compute, OfferResult
    <2>2. exec = "ready" => exec' = "ready"
      BY <2>1 DEF ExecutorStep, WorkerStep, Receive, Prepare, Compute, OfferResult
    <2>3. exec \in {"starting", "ready", "failed"} => exec' \in {"starting", "ready", "failed"}
      BY DEF ExecutorStep, Starting, Closing, StartThread, InitializeQueues,
             ThreadStartFails, OfferNull, QueueFilled, JoinAll, WorkerStep,
             Receive, Prepare, Compute, OfferResult
    <2>4. QED
      BY <1>3, <2>2, <2>3 DEF EnvInv, Control, mainVars
  <1>5. Batch'
    BY <1>3 DEF EnvInv, Batch, Total, mainVars
  <1>6. Flight'
    BY <1>1, <1>3 DEF EnvInv, Flight, Total, SubmittedSoFar, mainVars
  <1>7. Updated'
    BY <1>1, <1>3 DEF EnvInv, Updated, SubmittedSoFar, mainVars
  <1>8. Learning'
    BY <1>3 DEF EnvInv, Learning, Readable, mainVars
  <1>9. QED
    BY <1>1, <1>2, <1>4, <1>5, <1>6, <1>7, <1>8 DEF EnvInv

-------------------------------------------------------------------------------
(* Steps of the main thread.                                               *)

\* The steps between batches, and the one that stops submitting.
LEMMA PassingStepKeeps ==
  ASSUME EnvInv,
         \/ InitDone \/ StartEpoch \/ ReadFails \/ CorpusRead \/ StopSubmitting
         \/ EpochEnd \/ Leave \/ Left \/ UNCHANGED vars
  PROVE  EnvInv'
  <1> USE DEF Goto
  <1>1. UNCHANGED execVars \/ (Destroy /\ pc = "leave" /\ pc' = "destroying")
    BY DEF InitDone, StartEpoch, ReadFails, CorpusRead, StopSubmitting, EpochEnd,
           Leave, Left, vars
  <1>2. Inv' /\ InFlight' = InFlight
    BY <1>1, LifeKeepsFlight DEF EnvInv
  <1>3. NoStopRequest'
    BY <1>1, NoStopRequestKept DEF EnvInv
  <1>4. UNCHANGED batchVars
    BY DEF InitDone, StartEpoch, ReadFails, CorpusRead, StopSubmitting, EpochEnd,
           Leave, Left, vars, mainVars, batchVars
  <1>5. Control'
    <2>1. MaxEpochs \in Nat /\ MaxEpochs > 0
      BY EnvConstants
    <2>2. exec' = exec \/ pc' = "destroying"
      BY <1>1 DEF execVars
    <2>3. CASE EpochEnd
      <3>1. epoch' \in 0 .. MaxEpochs /\ (pc' = "epoch" => epoch' < MaxEpochs)
        BY <2>1, <2>3 DEF EnvInv, Control, InEpoch, EpochEnd
      <3>2. pc' \in {"epoch", "leave"} /\ exec' = "ready"
        BY <2>2, <2>3 DEF EnvInv, Control, InEpoch, EpochEnd
      <3>3. {firstEpoch', finished'} \subseteq BOOLEAN
        BY <2>3 DEF EnvInv, Control, EpochEnd
      <3>4. QED
        BY <3>1, <3>2, <3>3 DEF Control, InEpoch
    <2>4. CASE ~EpochEnd
      BY <2>2, <2>4 DEF EnvInv, Control, InEpoch, InitDone, StartEpoch, ReadFails,
         CorpusRead, StopSubmitting, Leave, Left, vars, mainVars, corpusVars
    <2>5. QED
      BY <2>3, <2>4
  <1>6. Batch'
    BY <1>4 DEF EnvInv, Batch, Total, batchVars
  <1>7. Flight'
    BY <1>2, <1>4 DEF EnvInv, Flight, Outside, Total, SubmittedSoFar, batchVars,
       InitDone, StartEpoch, ReadFails, CorpusRead, StopSubmitting, EpochEnd,
       Leave, Left, vars, mainVars
  <1>8. Updated'
    BY <1>2, <1>4 DEF EnvInv, Updated, InBatch, SubmittedSoFar, batchVars, InitDone,
       StartEpoch, ReadFails, CorpusRead, StopSubmitting, EpochEnd, Leave, Left,
       vars, mainVars
  <1>9. Learning'
    <2>1. CASE StartEpoch
      BY <1>4, <2>1, EnvConstants
      DEF EnvInv, Learning, InBatch, Readable, StartEpoch, batchVars
    <2>2. CASE ~StartEpoch
      <3>1. UNCHANGED <<read, finished, learnt, example, order, updates>>
        BY <1>4, <2>2 DEF InitDone, ReadFails, CorpusRead, StopSubmitting, EpochEnd,
           Leave, Left, vars, mainVars, corpusVars, batchVars
      <3>2. /\ pc' \in InBatch => pc \in InBatch
            /\ pc' \in {"read", "epochEnd"} => pc \in {"read", "epochEnd"}
            /\ pc' = "epochEnd" => pc = "epochEnd" \/ finished
        BY <2>2 DEF InBatch, InitDone, ReadFails, CorpusRead, StopSubmitting,
           EpochEnd, Leave, Left, vars, mainVars
      <3>3. QED
        BY <3>1, <3>2 DEF EnvInv, Learning, Readable
    <2>3. QED
      BY <2>1, <2>2
  <1>10. QED
    BY <1>2, <1>3, <1>5, <1>6, <1>7, <1>8, <1>9 DEF EnvInv

\* Submitting the next trainer of the batch, which is not in flight.
LEMMA SubmitKeeps ==
  ASSUME EnvInv, Submit
  PROVE  EnvInv'
  <1> DEFINE t == order[submitted + 1]
  <1>1. /\ Len(order) \in Nat /\ submitted \in Nat /\ processed \in Nat
        /\ submitted + 1 \in 1 .. Len(order)
        /\ t \in AnyTrainer
    BY DEF EnvInv, Batch, Submit, Total
  <1>2. t \notin SubmittedSoFar
    BY <1>1 DEF EnvInv, Batch, SubmittedSoFar, Total
  <1>3. t \in Trainer \ InFlight
    BY <1>1, <1>2, EnvTrainers DEF EnvInv, Flight, Submit
  <1>4. /\ Inv'
        /\ InFlight' = InFlight \cup {t}
    BY <1>3, SubmitKeepsInv DEF EnvInv, Submit, InFlight
  <1>5. /\ pc = "submit" /\ pc' = "submit" /\ exec' = exec
        /\ submitted' = submitted + 1
        /\ UNCHANGED <<corpusVars, example, order, iter, processed, updates>>
    BY DEF Submit, SubmitNext
  <1>6. SubmittedSoFar' = SubmittedSoFar \cup {t}
    <2>1. 1 .. (submitted + 1) = (1 .. submitted) \cup {submitted + 1}
      BY <1>1
    <2>2. QED
      BY <1>5, <2>1 DEF SubmittedSoFar
  <1>7. NoStopRequest'
    BY <1>3, NoStopRequestKept DEF EnvInv, Submit
  <1>8. Control'
    BY <1>5 DEF EnvInv, Control, InEpoch, corpusVars
  <1>9. Batch'
    BY <1>1, <1>5 DEF EnvInv, Batch, Total
  <1>10. Flight'
    <2>1. /\ IsFiniteSet(InFlight')
          /\ Cardinality(InFlight') = Cardinality(InFlight) + 1
      BY <1>3, <1>4, FS_AddElement DEF EnvInv, Flight
    <2>2. Cardinality(InFlight) \in Nat
      BY FS_CardinalityType DEF EnvInv, Flight
    <2>3. QED
      BY <1>1, <1>4, <1>5, <1>6, <2>1, <2>2 DEF EnvInv, Flight, Outside, Total
  <1>11. Updated'
    BY <1>2, <1>3, <1>4, <1>5, <1>6 DEF EnvInv, Updated, InBatch
  <1>12. Learning'
    BY <1>5 DEF EnvInv, Learning, Readable, InBatch, corpusVars
  <1>13. QED
    BY <1>4, <1>7, <1>8, <1>9, <1>10, <1>11, <1>12 DEF EnvInv

\* A result takes its trainer out of flight and, unless it is an error, one
\* update of the weights into the books.
LEMMA HandleProcessedKeeps ==
  ASSUME EnvInv, HandleProcessed
  PROVE  EnvInv'
  <1> DEFINE t == Head(results).trainer
  <1>1. /\ Inv' /\ t \in Done
        /\ Queued' = Queued /\ Held' = Held /\ Done' = Done \ {t}
    BY WaitOneKeepsInv DEF EnvInv, HandleProcessed
  <1>2. t \in InFlight /\ InFlight' = InFlight \ {t} /\ t \in AnyTrainer
    BY <1>1, EnvTrainers DEF EnvInv, Inv, OneHolder, InFlight, Done
  <1>3. /\ pc = "wait" /\ exec' = exec
        /\ UNCHANGED <<epoch, firstEpoch, read, finished, example, order, iter, submitted>>
    BY DEF HandleProcessed, WaitOne
  <1>4. \/ /\ processed' = processed + 1
           /\ updates' = [updates EXCEPT ![t] = @ + 1]
           /\ learnt' = learnt \cup (IF t >= 0 THEN {example[t]} ELSE {})
           /\ pc' = IF processed + 1 < Total THEN "submit" ELSE "batchDone"
        \/ /\ pc' = "exit"
           /\ UNCHANGED <<processed, updates, learnt>>
    BY DEF HandleProcessed, UpdateWeights, Goto
  <1>5. NoStopRequest'
    BY NoStopRequestKept DEF EnvInv, HandleProcessed
  <1>6. Control'
    BY <1>3, <1>4 DEF EnvInv, Control, InEpoch
  <1>7. /\ Len(order) \in Nat /\ submitted \in Nat /\ processed \in Nat
        /\ submitted <= Len(order) /\ processed <= submitted /\ processed < Len(order)
        /\ IsFiniteSet(InFlight) /\ Cardinality(InFlight) + processed = submitted
        /\ InFlight \subseteq SubmittedSoFar
    BY <1>3 DEF EnvInv, Batch, Flight, Total
  <1>8. /\ IsFiniteSet(InFlight')
        /\ Cardinality(InFlight) \in Nat /\ Cardinality(InFlight') \in Nat
        /\ Cardinality(InFlight') = Cardinality(InFlight) - 1
    BY <1>2, <1>7, FS_RemoveElement, FS_CardinalityType
  <1>9. Batch'
    <2>1. processed' \in 0 .. submitted
      BY <1>4, <1>7, <1>8
    <2>2. QED
      BY <1>3, <2>1 DEF EnvInv, Batch, Total
  <1>10. SubmittedSoFar' = SubmittedSoFar
    BY <1>3 DEF SubmittedSoFar
  <1>11. Flight'
    <2>1. CASE pc' = "submit"
      <3>1. Cardinality(InFlight') + processed' = submitted' /\ processed' < Len(order')
        BY <1>3, <1>4, <1>7, <1>8, <2>1 DEF Total
      <3>2. QED
        BY <1>2, <1>7, <1>8, <1>10, <2>1, <3>1 DEF Flight, Outside, Total
    <2>2. CASE pc' = "batchDone"
      <3>1. /\ submitted' = Len(order') /\ Len(order') > 0
            /\ Cardinality(InFlight') = 0
        BY <1>3, <1>4, <1>7, <1>8, <2>2 DEF Total
      <3>2. InFlight' = {}
        BY <1>8, <3>1, FS_EmptySet
      <3>3. QED
        BY <1>8, <2>2, <3>1, <3>2 DEF Flight, Total
    <2>3. CASE pc' = "exit"
      BY <1>8, <2>3 DEF Flight, Outside
    <2>4. QED
      BY <1>4, <2>1, <2>2, <2>3
  <1>12. Updated'
    <2>1. /\ updates \in [AnyTrainer -> 0 .. BatchMaxIterations]
          /\ iter \in Nat /\ iter + 1 \in 0 .. BatchMaxIterations /\ BatchMaxIterations \in Nat
      BY EnvConstants DEF EnvInv, Updated, Batch
    <2>2. t \in SubmittedSoFar /\ t \in ToSet(order)
      BY <1>2, <1>7 DEF SubmittedSoFar, ToSet
    <2>3. \A u \in AnyTrainer :
            updates[u] = IF u \notin ToSet(order) THEN 0
                         ELSE IF u \in SubmittedSoFar \ InFlight THEN iter + 1
                         ELSE iter
      BY <1>3 DEF EnvInv, Updated, InBatch
    <2>4. CASE pc' = "exit"
      BY <1>4, <2>1, <2>4 DEF Updated, InBatch
    <2>5. CASE pc' # "exit"
      <3>1. updates' = [updates EXCEPT ![t] = iter + 1]
        BY <1>2, <1>4, <2>1, <2>2, <2>3, <2>5
      <3>2. updates' \in [AnyTrainer -> 0 .. BatchMaxIterations]
        BY <2>1, <3>1
      <3>3. \A u \in AnyTrainer :
              updates'[u] = IF u \notin ToSet(order) THEN 0
                            ELSE IF u \in SubmittedSoFar \ (InFlight \ {t}) THEN iter + 1
                            ELSE iter
        BY <1>2, <2>1, <2>2, <2>3, <3>1
      <3>4. QED
        BY <1>2, <1>3, <1>10, <3>2, <3>3 DEF Updated
    <2>6. QED
      BY <2>4, <2>5
  <1>13. Learning'
    <2>1. CASE pc' = "exit"
      BY <1>3, <1>4, <2>1 DEF EnvInv, Learning, Readable, InBatch
    <2>2. CASE pc' # "exit"
      <3>1. t \in ToSet(order)
        BY <1>2, <1>7 DEF SubmittedSoFar, ToSet
      <3>2. learnt' \subseteq 1 .. read
        <4>1. learnt \subseteq 1 .. read /\ (t >= 0 => example[t] \in 1 .. read)
          BY <1>3, <3>1 DEF EnvInv, Learning, InBatch
        <4>2. (learnt' = learnt \cup {example[t]} /\ t >= 0) \/ learnt' = learnt
          BY <1>4, <2>2
        <4>3. QED
          BY <4>1, <4>2
      <3>3. ASSUME NEW e \in 1 .. read
            PROVE  \/ e \in learnt'
                   \/ \E u \in ToSet(order) : u >= 0 /\ example[u] = e /\ updates'[u] = 0
        <4>1. CASE e \in learnt
          BY <1>4, <2>2, <4>1
        <4>2. ASSUME NEW u \in ToSet(order), u >= 0, example[u] = e, updates[u] = 0
              PROVE  \/ e \in learnt'
                     \/ \E v \in ToSet(order) : v >= 0 /\ example[v] = e /\ updates'[v] = 0
          <5>1. CASE u = t
            BY <1>4, <2>2, <4>2, <5>1
          <5>2. CASE u # t
            <6>1. updates'[u] = updates[u]
              <7>1. u \in AnyTrainer
                BY DEF EnvInv, Batch, ToSet
              <7>2. QED
                BY <1>4, <2>2, <5>2, <7>1 DEF EnvInv, Updated
            <6>2. QED
              BY <4>2, <6>1
          <5>3. QED
            BY <5>1, <5>2
        <4>3. QED
          BY <1>3, <4>1, <4>2 DEF EnvInv, Learning, InBatch
      <3>4. QED
        BY <1>3, <1>4, <2>2, <3>2, <3>3 DEF EnvInv, Learning, Readable, InBatch
    <2>3. QED
      BY <2>1, <2>2
  <1>14. QED
    BY <1>1, <1>5, <1>6, <1>9, <1>11, <1>12, <1>13 DEF EnvInv

\* The end of an iteration: each trainer of the batch has made its update, so
\* the examples read so far have all been learnt from.
LEMMA BatchDoneKeeps ==
  ASSUME EnvInv, BatchDone
  PROVE  EnvInv'
  <1>1. /\ pc = "batchDone" /\ submitted = Len(order) /\ Len(order) > 0
        /\ Len(order) \in Nat /\ order \in Seq(AnyTrainer)
        /\ InFlight = {}
    BY DEF BatchDone, EnvInv, Flight, Batch, Total, Outside
  <1>2. /\ UNCHANGED execVars /\ UNCHANGED <<corpusVars, example, order, updates>>
        /\ \/ /\ iter + 1 < BatchMaxIterations /\ iter' = iter + 1
              /\ submitted' = 0 /\ processed' = 0 /\ pc' = "submit"
           \/ pc' = "read" /\ UNCHANGED <<iter, submitted, processed>>
    BY DEF BatchDone, Goto
  <1>3. Inv' /\ InFlight' = {}
    BY <1>1, <1>2, LifeKeepsFlight DEF EnvInv
  <1>4. NoStopRequest'
    BY <1>2, NoStopRequestKept DEF EnvInv
  <1>5. Control'
    BY <1>1, <1>2 DEF EnvInv, Control, InEpoch, execVars, corpusVars
  <1>6. iter \in Nat /\ BatchMaxIterations \in Nat
    BY EnvConstants DEF EnvInv, Batch
  <1>7. Batch'
    BY <1>1, <1>2, <1>6 DEF EnvInv, Batch, Total
  <1>8. Flight'
    <2>1. IsFiniteSet(InFlight') /\ Cardinality(InFlight') = 0
      BY <1>3, FS_EmptySet
    <2>2. pc' = "submit" => Cardinality(InFlight') + processed' = submitted' /\ processed' < Len(order')
      BY <1>1, <1>2, <2>1
    <2>3. QED
      BY <1>2, <1>3, <2>1, <2>2 DEF Flight, Outside, Total
  <1>9. SubmittedSoFar = ToSet(order)
    BY <1>1 DEF SubmittedSoFar, ToSet
  <1>10. \A t \in AnyTrainer : updates[t] = IF t \in ToSet(order) THEN iter + 1 ELSE 0
    BY <1>1, <1>9 DEF EnvInv, Updated, InBatch
  <1>11. Updated'
    <2>1. CASE pc' = "read"
      BY <1>2, <2>1 DEF EnvInv, Updated, InBatch
    <2>2. CASE pc' = "submit"
      <3>1. SubmittedSoFar' = {}
        BY <1>2, <2>2 DEF SubmittedSoFar
      <3>2. QED
        BY <1>2, <1>10, <2>2, <3>1 DEF EnvInv, Updated, InBatch
    <2>3. QED
      BY <1>2, <2>1, <2>2
  <1>12. Learning'
    <2>1. learnt = 1 .. read
      <3>1. learnt \subseteq 1 .. read
        BY DEF EnvInv, Learning
      <3>2. ASSUME NEW t \in ToSet(order)
            PROVE  updates[t] # 0
        <4>1. t \in AnyTrainer
          BY <1>1 DEF ToSet
        <4>2. QED
          BY <1>6, <1>10, <3>2, <4>1
      <3>3. 1 .. read \subseteq learnt
        BY <1>1, <3>2 DEF EnvInv, Learning, InBatch
      <3>4. QED
        BY <3>1, <3>3
    <2>2. QED
      BY <1>1, <1>2, <2>1 DEF EnvInv, Learning, Readable, InBatch, corpusVars
  <1>13. QED
    BY <1>3, <1>4, <1>5, <1>7, <1>8, <1>11, <1>12 DEF EnvInv

\* The trainers of a batch are finitely many, and a shuffle lists each once.
LEMMA Shuffled ==
  ASSUME NEW S, IsFiniteSet(S), NEW s \in SetToSeqs(S)
  PROVE  /\ s \in Seq(S)
         /\ \A i, j \in 1 .. Len(s) : s[i] = s[j] => i = j
         /\ ToSet(s) = S
         /\ S # {} => Len(s) > 0
  <1>1. Cardinality(S) \in Nat
    BY FS_CardinalityType
  <1> DEFINE D == 1 .. Cardinality(S)
  <1>2. /\ s \in [D -> S]
        /\ \A i, j \in D : i # j => s[i] # s[j]
    BY DEF SetToSeqs
  <1>3. s \in Seq(S) /\ Len(s) = Cardinality(S) /\ DOMAIN s = D
    BY <1>1, <1>2
  <1>4. s \in Injection(D, S)
    BY <1>2 DEF Injection, IsInjective
  <1>5. IsFiniteSet(D) /\ Cardinality(D) = Cardinality(S)
    BY <1>1, FS_Interval
  <1>6. s \in Surjection(D, S)
    BY <1>4, <1>5, FS_Injection
  <1>7. ToSet(s) = S
    BY <1>3, <1>6 DEF ToSet, Surjection
  <1>8. S # {} => Len(s) > 0
    BY <1>1, <1>3, FS_EmptySet
  <1>9. QED
    BY <1>2, <1>3, <1>7, <1>8

LEMMA BatchesAreFinite ==
  ASSUME NEW count \in Nat
  PROVE  /\ IsFiniteSet((0 .. count - 1) \cup PartialTrainer)
         /\ IsFiniteSet(0 .. count - 1)
  <1>1. NumPartial \in Nat
    BY EnvConstants
  <1>2. PartialTrainer \in SUBSET ((-1 - NumPartial) .. -1)
    BY <1>1 DEF PartialTrainer
  <1>3. IsFiniteSet(PartialTrainer)
    <2>1. IsFiniteSet((-1 - NumPartial) .. -1)
      BY <1>1, FS_Interval
    <2>2. QED
      BY <1>2, <2>1, FS_Subset
  <1>4. IsFiniteSet(0 .. count - 1)
    BY FS_Interval
  <1>5. QED
    BY <1>3, <1>4, FS_Union

\* A new batch: the next examples of the corpus go into the first trainers.
LEMMA ReadBatchKeeps ==
  ASSUME EnvInv, ReadBatch
  PROVE  EnvInv'
  <1> DEFINE count == IF Readable >= BatchSize THEN BatchSize ELSE Readable
             batch == (0 .. count - 1) \cup (IF firstEpoch THEN {} ELSE PartialTrainer)
  <1>1. /\ read \in Nat /\ Readable \in Nat /\ NumExamples \in Nat /\ NumPartial \in Nat
        /\ BatchSize \in Nat /\ BatchSize > 0 /\ BatchMaxIterations \in Nat
        /\ BatchMaxIterations > 0
    BY EnvConstants DEF EnvInv, Learning, Readable
  <1>2. count \in Nat /\ count <= Readable /\ count <= BatchSize
        /\ (count < BatchSize => count = Readable)
    BY <1>1
  <1>3. read + count \in 0 .. NumExamples
    BY <1>1, <1>2 DEF Readable, EnvInv, Learning
  <1>4. /\ pc = "read" /\ UNCHANGED <<execVars, epoch, firstEpoch, learnt>>
        /\ example' = [t \in FullTrainer |->
                        IF t < count THEN read + t + 1
                        ELSE IF t > count THEN example[t]
                        ELSE IF LastTerminated THEN 0 ELSE NumExamples]
        /\ read' = read + count
        /\ finished' = (count < BatchSize)
        /\ order' \in SetToSeqs(batch)
        /\ pc' = IF batch = {} THEN "epochEnd" ELSE "submit"
        /\ iter' = 0 /\ submitted' = 0 /\ processed' = 0 /\ updates' = NoUpdates
    BY DEF ReadBatch, Goto
  <1>5. batch \subseteq AnyTrainer
    BY <1>1, <1>2 DEF AnyTrainer, FullTrainer
  <1>6. IsFiniteSet(batch)
    BY <1>2, BatchesAreFinite
  <1>7. \A t \in batch : t >= 0 => t \in 0 .. count - 1
    BY <1>1 DEF PartialTrainer
  <1>8. \A t \in 0 .. count - 1 : t \in batch
    OBVIOUS
  <1> HIDE DEF count, batch
  <1>9. /\ order' \in Seq(AnyTrainer)
        /\ \A i, j \in 1 .. Len(order') : order'[i] = order'[j] => i = j
        /\ ToSet(order') = batch
        /\ batch # {} => Len(order') > 0
        /\ Len(order') \in Nat
    <2>1. /\ order' \in Seq(batch)
          /\ \A i, j \in 1 .. Len(order') : order'[i] = order'[j] => i = j
          /\ ToSet(order') = batch
          /\ batch # {} => Len(order') > 0
      BY <1>4, <1>6, Shuffled
    <2>2. QED
      BY <1>5, <2>1
  <1>10. Inv' /\ InFlight' = {} /\ NoStopRequest'
    BY <1>4, LifeKeepsFlight, NoStopRequestKept DEF EnvInv, Flight, Outside
  <1>11. Control'
    <2>1. {firstEpoch', finished'} \subseteq BOOLEAN
      BY <1>4 DEF EnvInv, Control
    <2>2. QED
      BY <1>4, <2>1 DEF EnvInv, Control, InEpoch, execVars
  <1>12. Batch'
    BY <1>1, <1>4, <1>9 DEF Batch, Total
  <1>13. Flight'
    <2>1. IsFiniteSet(InFlight') /\ Cardinality(InFlight') = 0
      BY <1>10, FS_EmptySet
    <2>2. pc' = "submit" => Cardinality(InFlight') + processed' = submitted' /\ processed' < Len(order')
      BY <1>1, <1>4, <1>9, <2>1
    <2>3. QED
      BY <1>4, <1>10, <2>1, <2>2 DEF Flight, Outside, Total
  <1>14. Updated'
    <2>1. SubmittedSoFar' = {}
      BY <1>4 DEF SubmittedSoFar
    <2>2. updates' \in [AnyTrainer -> 0 .. BatchMaxIterations]
      BY <1>1, <1>4 DEF NoUpdates
    <2>3. \A t \in AnyTrainer : updates'[t] = 0
      BY <1>4 DEF NoUpdates
    <2>4. QED
      BY <1>4, <2>1, <2>2, <2>3 DEF Updated
  <1>15. Learning'
    <2>1. learnt = 1 .. read
      BY <1>4 DEF EnvInv, Learning
    <2>2. Readable' = Readable - count
      BY <1>1, <1>2, <1>4 DEF Readable
    <2>3. example' \in [FullTrainer -> 0 .. NumExamples]
      <3>1. ASSUME NEW t \in FullTrainer
            PROVE  example'[t] \in 0 .. NumExamples
        <4>1. t \in Int /\ t >= 0 /\ example[t] \in 0 .. NumExamples
          BY <1>1 DEF FullTrainer, EnvInv, Learning
        <4>2. QED
          BY <1>1, <1>2, <1>3, <1>4, <4>1
      <3>2. QED
        BY <1>4, <3>1
    <2>4. ASSUME NEW t \in 0 .. count - 1
          PROVE  example'[t] = read + t + 1 /\ t \in batch /\ updates'[t] = 0 /\ t >= 0
      <3>1. t \in FullTrainer /\ t < count
        BY <1>1, <1>2 DEF FullTrainer
      <3>2. t \in AnyTrainer
        BY <3>1 DEF AnyTrainer
      <3>3. QED
        BY <1>4, <1>8, <3>1, <3>2 DEF NoUpdates
    <2>5. \A t \in ToSet(order') : t >= 0 => example'[t] \in 1 .. read'
      BY <1>1, <1>2, <1>4, <1>7, <1>9, <2>4
    <2>6. ASSUME NEW e \in 1 .. read'
          PROVE  \/ e \in learnt'
                 \/ \E t \in ToSet(order') : t >= 0 /\ example'[t] = e /\ updates'[t] = 0
      <3>1. CASE e <= read
        BY <1>1, <1>4, <2>1, <3>1
      <3>2. CASE e > read
        <4>1. e - read - 1 \in 0 .. count - 1 /\ read + (e - read - 1) + 1 = e
          BY <1>1, <1>2, <1>4, <3>2
        <4>2. QED
          BY <1>9, <2>4, <4>1
      <3>3. QED
        BY <1>1, <1>2, <1>4, <3>1, <3>2
    <2>7. learnt' \subseteq 1 .. read'
      BY <1>1, <1>2, <1>4, <2>1
    <2>8. pc' = "epochEnd" => count = 0 /\ Readable = 0
      <3>1. pc' = "epochEnd" => ~(0 \in 0 .. count - 1)
        BY <1>4, <1>8
      <3>2. QED
        BY <1>1, <1>2, <3>1
    <2>9. pc' = "epochEnd" => learnt' = 1 .. read'
      BY <1>1, <1>4, <2>1, <2>8
    <2>10. read' \in 0 .. NumExamples /\ Readable' >= 0
      BY <1>1, <1>2, <1>3, <1>4, <2>2
    <2>11. finished' => Readable' = 0
      <3>1. finished' = (count < BatchSize)
        BY <1>4
      <3>2. CASE count < BatchSize
        BY <1>1, <1>2, <2>2, <3>2
      <3>3. QED
        BY <3>1, <3>2
    <2>12. pc' = "epochEnd" => Readable' = 0
      BY <2>2, <2>8
    <2>13. QED
      BY <1>4, <2>3, <2>5, <2>6, <2>7, <2>9, <2>10, <2>11, <2>12 DEF Learning
  <1>16. QED
    BY <1>10, <1>11, <1>12, <1>13, <1>14, <1>15 DEF EnvInv

LEMMA InitEnvInv ==
  ASSUME Init
  PROVE  EnvInv
  <1>1. Inv /\ InFlight = {}
    BY InitInv DEF Init, InFlight
  <1>2. NoStopRequest /\ Control
    <2>1. NoStopRequest
      BY DEF Init, ExecInit, NoStopRequest
    <2>2. epoch \in 0 .. MaxEpochs /\ epoch < MaxEpochs
      BY EnvConstants DEF Init
    <2>3. {firstEpoch, finished} \subseteq BOOLEAN
      BY DEF Init
    <2>4. QED
      BY <2>1, <2>2, <2>3 DEF Init, ExecInit, Control, InEpoch
  <1>3. order = <<>> /\ Len(order) = 0 /\ pc = "initOther"
    BY DEF Init
  <1>4. Batch
    BY <1>3, EnvConstants DEF Init, Batch, Total
  <1>5. Flight
    BY <1>1, <1>3, FS_EmptySet DEF Flight, Outside
  <1>6. Updated
    BY <1>3, EnvConstants DEF Init, Updated, InBatch, NoUpdates
  <1>7. Learning
    BY <1>3, EnvConstants DEF Init, Learning, Readable, InBatch
  <1>8. QED
    BY <1>1, <1>2, <1>4, <1>5, <1>6, <1>7 DEF EnvInv

-------------------------------------------------------------------------------

\* The inductive invariant holds in every reachable state.
THEOREM EnvInvHolds == Spec => []EnvInv
  <1>1. ASSUME EnvInv, [Next]_vars
        PROVE  EnvInv'
    <2>1. CASE ExecutorStep
      BY <1>1, <2>1, ExecutorStepKeeps
    <2>2. CASE ReadBatch
      BY <1>1, <2>2, ReadBatchKeeps
    <2>3. CASE Submit
      BY <1>1, <2>3, SubmitKeeps
    <2>4. CASE HandleProcessed
      BY <1>1, <2>4, HandleProcessedKeeps
    <2>5. CASE BatchDone
      BY <1>1, <2>5, BatchDoneKeeps
    <2>6. CASE \/ InitDone \/ StartEpoch \/ ReadFails \/ CorpusRead
               \/ StopSubmitting \/ EpochEnd \/ Leave \/ Left \/ UNCHANGED vars
      BY <1>1, <2>6, PassingStepKeeps
    <2>7. QED
      BY <1>1, <2>1, <2>2, <2>3, <2>4, <2>5, <2>6 DEF Next, MainStep, Exited
  <1>2. QED
    BY <1>1, InitEnvInv, PTL DEF Spec

\* Whatever the batch size and the number of workers, the main thread never
\* touches a trainer that is queued or that a worker holds.
THEOREM MainThreadIsAlone == Spec => []MainTouchesOnlyItsOwn
  <1>1. ASSUME EnvInv
        PROVE  MainTouchesOnlyItsOwn
    <2>1. Inv /\ Queued \cup Held \subseteq InFlight
      BY <1>1 DEF EnvInv, InFlight
    <2>2. CASE pc = "read" /\ ~finished
      BY <1>1, <2>1, <2>2 DEF EnvInv, Flight, Outside, MainTouchesOnlyItsOwn
    <2>3. CASE pc = "submit" /\ submitted < Total
      <3>1. order[submitted + 1] \notin SubmittedSoFar
        BY <1>1, <2>3 DEF EnvInv, Batch, SubmittedSoFar, Total
      <3>2. Touched = {order[submitted + 1]}
        BY <2>3 DEF Touched
      <3>3. QED
        BY <1>1, <2>1, <2>3, <3>1, <3>2 DEF EnvInv, Flight, MainTouchesOnlyItsOwn
    <2>4. CASE pc = "wait" /\ results # <<>>
      <3>1. results \in Seq([trainer : Trainer, ok : BOOLEAN])
        BY <2>1 DEF Inv, ExecTypeOK
      <3>2. Head(results) = results[1] /\ 1 \in DOMAIN results
            /\ Head(results) \in [trainer : Trainer, ok : BOOLEAN]
        BY <2>4, <3>1, TailAt
      <3>3. Head(results).trainer \in Done
        BY <3>2 DEF Done
      <3>4. Touched = {Head(results).trainer}
        BY <2>4 DEF Touched
      <3>5. QED
        BY <2>1, <3>3, <3>4 DEF Inv, OneHolder, MainTouchesOnlyItsOwn
    <2>5. CASE /\ ~(pc = "read" /\ ~finished)
               /\ ~(pc = "submit" /\ submitted < Total)
               /\ ~(pc = "wait" /\ results # <<>>)
      <3>1. Touched = {}
        BY <2>5 DEF Touched
      <3>2. QED
        BY <3>1 DEF MainTouchesOnlyItsOwn
    <2>6. QED
      BY <2>2, <2>3, <2>4, <2>5
  <1>2. QED
    BY <1>1, EnvInvHolds, PTL

\* A batch ends with every trainer back and every worker asleep.
THEOREM BatchesEndQuiescent == Spec => []BatchEndsQuiescent
  <1>1. ASSUME EnvInv, pc \in {"batchDone", "read", "epochEnd", "leave"}
        PROVE  InFlight = {} /\ \A w \in Worker : wpc[w] \in {"none", "wait"}
    <2>1. InFlight = {} /\ exec \in {"starting", "ready", "failed"}
      BY <1>1 DEF EnvInv, Flight, Outside, Control, InEpoch
    <2>2. ASSUME NEW w \in Worker
          PROVE  wpc[w] \in {"none", "wait"}
      <3>1. wpc[w] \in {"none", "wait", "prepare", "compute", "offer", "exited"}
            /\ wjob[w].trainer \in Trainer \cup {Null}
        BY <1>1 DEF EnvInv, Inv, ExecTypeOK, Job
      <3>2. wpc[w] # "exited"
        BY <1>1, <2>1 DEF EnvInv, NoStopRequest
      <3>3. wjob[w].trainer = Null
        BY <2>1, <3>1 DEF InFlight, Held
      <3>4. wpc[w] \notin {"prepare", "compute", "offer"}
        BY <1>1, <3>3 DEF EnvInv, Inv, OneHolder
      <3>5. QED
        BY <3>1, <3>2, <3>4
    <2>3. QED
      BY <2>1, <2>2
  <1>2. EnvInv => BatchEndsQuiescent
    BY <1>1 DEF BatchEndsQuiescent
  <1>3. QED
    BY <1>2, EnvInvHolds, PTL

\* Each trainer of a batch updates the weights once per iteration over it.
THEOREM OneUpdateEach == Spec => []OneUpdatePerIteration
  <1>1. ASSUME EnvInv, pc = "batchDone"
        PROVE  \A t \in AnyTrainer : updates[t] = IF t \in ToSet(order) THEN iter + 1 ELSE 0
    <2>1. InFlight = {} /\ submitted = Len(order) /\ order \in Seq(AnyTrainer)
      BY <1>1 DEF EnvInv, Flight, Outside, Batch, Total
    <2>2. SubmittedSoFar = ToSet(order)
      BY <2>1 DEF SubmittedSoFar, ToSet
    <2>3. QED
      BY <1>1, <2>1, <2>2 DEF EnvInv, Updated, InBatch
  <1>2. EnvInv => OneUpdatePerIteration
    BY <1>1 DEF OneUpdatePerIteration
  <1>3. QED
    BY <1>2, EnvInvHolds, PTL

\* If the last example of the corpus is terminated, an epoch learns from all.
THEOREM EpochsAreComplete == ASSUME LastTerminated PROVE Spec => []EveryExampleLearnt
  <1>1. EnvInv => EveryExampleLearnt
    <2>1. SUFFICES ASSUME EnvInv, pc = "epochEnd"
                   PROVE  learnt = 1 .. NumExamples
      BY DEF EveryExampleLearnt
    <2>2. learnt = 1 .. read /\ Readable = 0 /\ read \in Nat /\ NumExamples \in Nat
      BY <2>1, EnvConstants DEF EnvInv, Learning
    <2>3. Readable = NumExamples - read
      BY DEF Readable
    <2>4. read = NumExamples
      BY <2>2, <2>3
    <2>5. QED
      BY <2>2, <2>4
  <1>2. QED
    BY <1>1, EnvInvHolds, PTL

\* The types of the main thread's state hold in every reachable state.
THEOREM EnvTypes == Spec => []TypeOK
  <1>1. EnvInv => TypeOK
    <2>1. SUFFICES ASSUME EnvInv
                   PROVE  TypeOK
      OBVIOUS
    <2>2. ExecTypeOK
      BY <2>1 DEF EnvInv, Inv
    <2>3. learnt \subseteq 1 .. NumExamples
      BY <2>1, EnvConstants DEF EnvInv, Learning
    <2>4. QED
      BY <2>1, <2>2, <2>3
      DEF EnvInv, Control, InEpoch, Batch, Updated, Learning, TypeOK
  <1>2. QED
    BY <1>1, EnvInvHolds, PTL

===============================================================================
