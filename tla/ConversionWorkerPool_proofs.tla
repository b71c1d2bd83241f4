--------------------- MODULE ConversionWorkerPool_proofs ---------------------
(***************************************************************************)
(* IndInv is an inductive invariant of ConversionWorkerPool for every pool *)
(* size, every number of jobs and every supply of worker threads, and the  *)
(* safety half of the pool implements the safety half of ConversionRunner. *)
(* Four callbacks end in dispatch(), so what dispatch() needs and restores *)
(* is stated once: BeforeDispatch and the lemma DispatchStep.              *)
(***************************************************************************)
EXTENDS ConversionWorkerPool, FiniteSetTheorems, TLAPS

\* The state a callback hands to dispatch(): free, asg and wj are the idle
\* list, the workers of the jobs and workerJob at that moment.
BeforeDispatch(free, asg, wj) ==
  /\ pending' \in SUBSET Jobs
  /\ workers' \in SUBSET Worker
  /\ free \in SUBSET workers'
  /\ asg \in [Jobs -> Worker \cup {NoWorker}]
  /\ wj \in [Worker -> 0..MaxJobs]
  /\ inHand \in [Worker -> SUBSET Jobs]
  /\ inbox' \in SUBSET Answer
  /\ shutdown' = "open" =>
       \A w \in workers' \ free : wj[w] \in pending' /\ asg[wj[w]] = w
  /\ \A w \in free : wj[w] = 0
  /\ \A j, k \in pending' : j < k /\ asg[k] # NoWorker => asg[j] # NoWorker
  /\ \A w \in Worker : \A j, k \in inHand[w] : j = k
  /\ \A m \in inbox' :
       /\ m.from \in workers' => m.from \notin free /\ wj[m.from] = m.id
       /\ m.id \in pending' => asg[m.id] = m.from
       /\ promise'[m.id] # "none"
       /\ m.ok <=> m.id \in converted'
       /\ \A w \in Worker : m.id \notin inHand[w]
       /\ \A n \in inbox' : n.id = m.id => n = m
  /\ \A j \in Jobs \ pending' : asg[j] = NoWorker
  /\ shutdown' # "done" =>
       \A j \in pending' :
         asg[j] # NoWorker => asg[j] \in workers' \ free /\ wj[asg[j]] = j
  /\ \A w \in Worker : \A j \in inHand[w] :
       /\ w \in workers' => w \notin free /\ wj[w] = j
       /\ j \in pending' => asg[j] = w
       /\ j \notin converted'
       /\ promise'[j] # "none"
       /\ \A v \in Worker : j \in inHand[v] => v = w
  /\ \A j \in converted' : promise'[j] # "none" /\ j \notin Waiting(pending', asg)
  /\ \A j \in pending' : promise'[j] # "none"
  /\ \A w \in Worker :
       thread'[w] = "unborn" =>
         w \notin workers' /\ wj[w] = 0 /\ inHand[w] = {} /\ \A m \in inbox' : m.from # w
  /\ \/ free = {}
     \/ \E w \in Worker : free = {w}
     \/ Waiting(pending', asg) = {}
     \/ \E j \in Jobs : Waiting(pending', asg) \subseteq {j}

\* The parts of IndInv that dispatch() can disturb.
AfterDispatch ==
  /\ idle \in SUBSET workers
  /\ assigned \in [Jobs -> Worker \cup {NoWorker}]
  /\ workerJob \in [Worker -> 0..MaxJobs]
  /\ inHand \in [Worker -> SUBSET Jobs]
  /\ NoCapacityLeak /\ IdleHasNoJob /\ WorkConserving /\ NoOvertaking /\ OneJobPerWorker
  /\ AnswersMatch /\ SettledIsUnassigned /\ StartedIsBusy /\ HandsMatch
  /\ OneAnswerPerJob /\ UnstartedIsUntouched /\ UnbornIsClean

\* dispatch(), called in a state in which everything but work conservation and
\* the size of the pool is in order, re-establishes those parts (AfterDispatch).
LEMMA DispatchStep ==
  ASSUME PoolAssumption, NEW free, NEW asg, NEW wj,
         BeforeDispatch(free, asg, wj), Dispatch(free, asg, wj)
  PROVE  AfterDispatch'
<1>1. CASE /\ free = {} \/ Waiting(pending', asg) = {}
           /\ idle' = free
           /\ assigned' = asg
           /\ workerJob' = wj
           /\ UNCHANGED inHand
  BY <1>1 DEF BeforeDispatch, AfterDispatch, NoCapacityLeak, IdleHasNoJob, WorkConserving,
     NoOvertaking, OneJobPerWorker, AnswersMatch, SettledIsUnassigned,
     StartedIsBusy, HandsMatch, OneAnswerPerJob, UnstartedIsUntouched,
     UnbornIsClean
<1>2. ASSUME NEW j \in Waiting(pending', asg), NEW w \in free,
             \A k \in Waiting(pending', asg) : j <= k,
             idle' = free \ {w},
             assigned' = [asg EXCEPT ![j] = w],
             workerJob' = [wj EXCEPT ![w] = j],
             inHand' = [inHand EXCEPT ![w] = @ \cup {j}]
      PROVE  AfterDispatch'
  <2>1. /\ j \in pending' /\ asg[j] = NoWorker /\ j \in Jobs
        /\ w \in workers' /\ w \in Worker /\ w # NoWorker
    BY <1>2 DEF BeforeDispatch, Waiting, PoolAssumption
  <2>2. inHand[w] = {} /\ \A v \in Worker : j \notin inHand[v]
    BY <1>2, <2>1 DEF BeforeDispatch
  <2>3. \A m \in inbox' : m.id # j /\ m.from # w
    BY <1>2, <2>1 DEF BeforeDispatch, Answer
  <2>4. j \notin converted'
    BY <1>2 DEF BeforeDispatch
  <2>5. /\ idle' \in SUBSET workers'
        /\ assigned' \in [Jobs -> Worker \cup {NoWorker}]
        /\ workerJob' \in [Worker -> 0..MaxJobs]
        /\ inHand' \in [Worker -> SUBSET Jobs]
    BY <1>2, <2>1 DEF BeforeDispatch, Jobs
  <2>6. NoCapacityLeak'
    BY <1>2, <2>1 DEF BeforeDispatch, NoCapacityLeak
  <2>17. IdleHasNoJob'
    BY <1>2, <2>1 DEF BeforeDispatch, IdleHasNoJob
  <2>7. WorkConserving'
    BY <1>2, <2>1 DEF BeforeDispatch, WorkConserving, Waiting
  <2>8. NoOvertaking'
    BY <1>2, <2>1 DEF BeforeDispatch, NoOvertaking, Waiting, Jobs
  <2>9. OneJobPerWorker'
    BY <1>2, <2>1, <2>2 DEF BeforeDispatch, OneJobPerWorker
  <2>10. AnswersMatch'
    BY <1>2, <2>1, <2>3 DEF BeforeDispatch, AnswersMatch, Answer
  <2>11. SettledIsUnassigned'
    BY <1>2, <2>1 DEF BeforeDispatch, SettledIsUnassigned
  <2>12. StartedIsBusy'
    BY <1>2, <2>1 DEF BeforeDispatch, StartedIsBusy
  <2>13. HandsMatch'
    BY <1>2, <2>1, <2>2, <2>4 DEF BeforeDispatch, HandsMatch
  <2>14. OneAnswerPerJob'
    BY <1>2, <2>1, <2>3 DEF BeforeDispatch, OneAnswerPerJob, Answer
  <2>15. UnstartedIsUntouched'
    BY <1>2, <2>1, <2>4 DEF BeforeDispatch, UnstartedIsUntouched, Waiting
  <2>16. UnbornIsClean'
    BY <1>2, <2>1 DEF BeforeDispatch, UnbornIsClean
  <2> QED
    BY <2>5, <2>6, <2>7, <2>8, <2>9, <2>10, <2>11, <2>12, <2>13, <2>14,
       <2>15, <2>16, <2>17 DEF AfterDispatch
<1> QED
  BY <1>1, <1>2 DEF Dispatch

\* Expands IndInv once, so that a leaf can cite the parts it needs.
Parts ==
  /\ NoCapacityLeak /\ IdleHasNoJob /\ WorkConserving /\ NoOvertaking /\ OneJobPerWorker
  /\ AnswersMatch /\ PendingIsTimed /\ IdsInOrder /\ SettledIsUnassigned
  /\ StartedIsBusy /\ DoneIsEmpty /\ HandsMatch /\ OneAnswerPerJob
  /\ UnstartedIsUntouched /\ UnbornIsClean

\* A pool the constructor has built is in order.
LEMMA InitStep == PoolAssumption /\ Init => IndInv
<1> SUFFICES ASSUME PoolAssumption, Init PROVE IndInv
  OBVIOUS
<1>1. TypeOK
  BY DEF PoolAssumption, Init, TypeOK, Jobs, Promises, Threads
<1>2. PoolFull
  BY DEF Init, PoolFull
<1>3. Parts
  BY DEF PoolAssumption, Init, Parts, NoCapacityLeak, IdleHasNoJob, WorkConserving, Waiting,
     NoOvertaking, OneJobPerWorker, AnswersMatch, PendingIsTimed, IdsInOrder,
     SettledIsUnassigned, StartedIsBusy, DoneIsEmpty, HandsMatch,
     OneAnswerPerJob, UnstartedIsUntouched, UnbornIsClean, Jobs
<1> QED
  BY <1>1, <1>2, <1>3 DEF IndInv, Parts

\* run(): a new job is queued behind the others and, with an idle worker,
\* started at once.
LEMMA RunStep == PoolAssumption /\ IndInv /\ Run => IndInv'
<1> SUFFICES ASSUME PoolAssumption, IndInv, Run PROVE IndInv'
  OBVIOUS
<1> USE DEF IndInv
<1>1. nextId \in Jobs /\ nextId \notin pending /\ promise[nextId] = "none"
  BY DEF Run, IdsInOrder, PendingIsTimed, TypeOK, Jobs
<1>2. \A j \in pending : j < nextId
  BY DEF IdsInOrder, PendingIsTimed, TypeOK, Jobs
<1>3. \A j \in Jobs : promise[j] # "none" => promise'[j] # "none"
  BY <1>1 DEF Run, TypeOK
<1>4. assigned[nextId] = NoWorker
  BY <1>1 DEF SettledIsUnassigned
<1>5. BeforeDispatch(idle, assigned, workerJob)
  <2>1. /\ pending' \in SUBSET Jobs /\ pending' = pending \cup {nextId}
        /\ \A j \in pending' : promise'[j] # "none"
    BY <1>1, <1>3 DEF Run, TypeOK, PendingIsTimed
  <2>2. \A j, k \in pending' : j < k /\ assigned[k] # NoWorker => assigned[j] # NoWorker
    BY <1>1, <1>2, <1>4, <2>1 DEF NoOvertaking, TypeOK, Jobs
  <2>3. \/ idle = {}
        \/ \E j \in Jobs : Waiting(pending', assigned) \subseteq {j}
    BY <1>1, <2>1 DEF Waiting, WorkConserving
  <2> QED
    BY <1>1, <1>3, <1>4, <2>1, <2>2, <2>3
    DEF BeforeDispatch, Run, TypeOK, NoCapacityLeak, IdleHasNoJob, OneJobPerWorker,
        AnswersMatch, PendingIsTimed, SettledIsUnassigned, StartedIsBusy,
        HandsMatch, OneAnswerPerJob, UnstartedIsUntouched, UnbornIsClean, Waiting
<1>6. AfterDispatch'
  BY <1>5, DispatchStep DEF Run
<1>7. TypeOK'
  BY <1>1, <1>6 DEF Run, TypeOK, AfterDispatch, Jobs, PoolAssumption, Promises
<1>8. PoolFull' /\ PendingIsTimed' /\ IdsInOrder' /\ DoneIsEmpty'
  BY <1>1 DEF Run, PoolFull, PendingIsTimed, IdsInOrder, DoneIsEmpty, TypeOK, Jobs
<1> QED
  BY <1>6, <1>7, <1>8 DEF AfterDispatch

\* Settling the job of a worker and replacing that worker, which is what
\* failTimeout and the error and exit listeners do.
LEMMA ReplaceStep ==
  ASSUME PoolAssumption, IndInv,
         NEW w \in Worker, NEW after \in Threads \ {"unborn"},
         NEW outcome \in Outcomes, NEW js,
         js = {workerJob[w]} \cap pending,
         Replaceable(w), Settle(js, outcome), Replace(w, Unassign(js), after),
         UNCHANGED <<nextId, shutdown, inbox, converted, crashes>>
  PROVE  IndInv'
<1> USE DEF IndInv
<1> DEFINE asg == Unassign(js)
           wj  == [workerJob EXCEPT ![w] = 0]
<1>1. PICK v \in Worker :
        /\ thread[v] = "unborn"
        /\ workers' = (workers \ {w}) \cup {v}
        /\ thread' = [thread EXCEPT ![w] = after, ![v] = "up"]
        /\ Dispatch((idle \ {w}) \cup {v}, asg, wj)
  BY DEF Replace
<1>2. w \in workers /\ shutdown = "open" /\ v # w /\ v \notin workers
  BY <1>1 DEF Replaceable, UnbornIsClean
<1>3. inHand[v] = {} /\ \A m \in inbox : m.from # v
  BY <1>1 DEF UnbornIsClean
<1>4. /\ pending' \in SUBSET Jobs /\ pending' = pending \ js
      /\ timers' = timers \ js
      /\ promise' \in [Jobs -> Promises]
      /\ \A j \in Jobs : promise[j] # "none" <=> promise'[j] # "none"
      /\ \A j \in pending' : promise'[j] # "none"
      /\ pending' = {j \in Jobs : promise'[j] = "waiting"}
  BY DEF Settle, TypeOK, PendingIsTimed, Promises, Outcomes
<1>5. /\ asg \in [Jobs -> Worker \cup {NoWorker}]
      /\ \A j \in Jobs : asg[j] = IF j \in js THEN NoWorker ELSE assigned[j]
      /\ wj \in [Worker -> 0..MaxJobs]
      /\ \A u \in Worker : wj[u] = IF u = w THEN 0 ELSE workerJob[u]
  BY DEF Unassign, TypeOK, PoolAssumption
<1> HIDE DEF asg, wj
\* Nothing else was assigned to w.
<1>6. \A j \in pending' : asg[j] # w
  <2> SUFFICES ASSUME NEW j \in pending', asg[j] = w PROVE FALSE
    OBVIOUS
  <2>1. j \in pending /\ j \in Jobs /\ j \notin js /\ assigned[j] = w
    BY <1>4, <1>5 DEF PoolAssumption
  <2>2. workerJob[w] = j
    BY <1>2, <2>1 DEF StartedIsBusy, PoolAssumption
  <2> QED BY <2>1, <2>2
<1>7. \A j, k \in pending' : j < k /\ asg[k] # NoWorker => asg[j] # NoWorker
  BY <1>4, <1>5 DEF NoOvertaking, TypeOK
<1>8. \/ (idle \ {w}) \cup {v} = {v}
      \/ Waiting(pending', asg) = {}
  <2>1. \A j \in Waiting(pending', asg) : j \in Waiting(pending, assigned)
    BY <1>4, <1>5 DEF Waiting, TypeOK
  <2> QED BY <2>1 DEF WorkConserving
<1>9. \A u \in Worker :
        thread'[u] = "unborn" =>
          u \notin workers' /\ wj[u] = 0 /\ inHand[u] = {} /\ \A m \in inbox' : m.from # u
  BY <1>1, <1>2, <1>5 DEF UnbornIsClean, TypeOK, Threads
<1>10. \A u \in workers' \ ((idle \ {w}) \cup {v}) :
         wj[u] \in pending' /\ asg[wj[u]] = u
  <2> SUFFICES ASSUME NEW u \in workers, u \notin idle, u # w
               PROVE  wj[u] \in pending' /\ asg[wj[u]] = u
    BY <1>1, <1>2
  <2>1. workerJob[u] \in pending /\ assigned[workerJob[u]] = u
    BY <1>2 DEF NoCapacityLeak
  <2>2. workerJob[u] \notin js
    BY <2>1, <1>2 DEF NoCapacityLeak, IdleHasNoJob, TypeOK, Jobs
  <2> QED BY <2>1, <2>2, <1>4, <1>5 DEF TypeOK
<1>11. \A m \in inbox :
         /\ m.from \in workers' => m.from \notin (idle \ {w}) \cup {v} /\ wj[m.from] = m.id
         /\ m.id \in pending' => asg[m.id] = m.from
  BY <1>1, <1>2, <1>3, <1>4, <1>5 DEF AnswersMatch, TypeOK, Answer
<1>12. \A u \in Worker : \A j \in inHand[u] :
         /\ u \in workers' => u \notin (idle \ {w}) \cup {v} /\ wj[u] = j
         /\ j \in pending' => asg[j] = u
  BY <1>1, <1>2, <1>3, <1>4, <1>5 DEF HandsMatch, TypeOK
<1>13. \A j \in pending' :
         asg[j] # NoWorker =>
           asg[j] \in workers' \ ((idle \ {w}) \cup {v}) /\ wj[asg[j]] = j
  <2> SUFFICES ASSUME NEW j \in pending', asg[j] # NoWorker
               PROVE  asg[j] \in workers' \ ((idle \ {w}) \cup {v}) /\ wj[asg[j]] = j
    OBVIOUS
  <2>1. j \in pending /\ j \in Jobs /\ asg[j] = assigned[j] /\ asg[j] # w
    BY <1>4, <1>5, <1>6
  <2>2. assigned[j] \in workers \ idle /\ workerJob[assigned[j]] = j
    BY <1>2, <2>1 DEF StartedIsBusy
  <2> QED BY <2>1, <2>2, <1>1, <1>2, <1>5 DEF TypeOK
<1>14. \A j \in Jobs \ pending' : asg[j] = NoWorker
  BY <1>4, <1>5 DEF SettledIsUnassigned
<1>15. \A j \in converted' : promise'[j] # "none" /\ j \notin Waiting(pending', asg)
  BY <1>4, <1>5 DEF UnstartedIsUntouched, Waiting, TypeOK
<1>16. BeforeDispatch((idle \ {w}) \cup {v}, asg, wj)
  <2>1. \A u \in (idle \ {w}) \cup {v} : wj[u] = 0
    BY <1>1, <1>2, <1>5 DEF IdleHasNoJob, UnbornIsClean, TypeOK
  <2>2. /\ workers' \in SUBSET Worker
        /\ (idle \ {w}) \cup {v} \in SUBSET workers'
        /\ inHand \in [Worker -> SUBSET Jobs]
        /\ inbox' \in SUBSET Answer /\ inbox' = inbox
        /\ converted' = converted
    BY <1>1, <1>2 DEF TypeOK
  <2>3. \A m \in inbox' :
          /\ promise'[m.id] # "none"
          /\ m.ok <=> m.id \in converted'
          /\ \A u \in Worker : m.id \notin inHand[u]
          /\ \A n \in inbox' : n.id = m.id => n = m
    BY <2>2, <1>4 DEF OneAnswerPerJob, Answer
  <2>4. \A u \in Worker : \A j \in inHand[u] :
          /\ j \notin converted'
          /\ promise'[j] # "none"
          /\ \A x \in Worker : j \in inHand[x] => x = u
    BY <2>2, <1>4 DEF HandsMatch
  <2>5. \/ \E u \in Worker : (idle \ {w}) \cup {v} = {u}
        \/ Waiting(pending', asg) = {}
    BY <1>8
  <2>6. \A m \in inbox' :
          /\ m.from \in workers' => m.from \notin (idle \ {w}) \cup {v} /\ wj[m.from] = m.id
          /\ m.id \in pending' => asg[m.id] = m.from
    BY <1>11, <2>2
  <2> HIDE DEF IndInv
  <2>7. \A u \in Worker : \A j, k \in inHand[u] : j = k
    BY DEF IndInv, OneJobPerWorker
  <2>8. \A m \in inbox' :
         /\ m.from \in workers' => m.from \notin (idle \ {w}) \cup {v} /\ wj[m.from] = m.id
         /\ m.id \in pending' => asg[m.id] = m.from
         /\ promise'[m.id] # "none"
         /\ m.ok <=> m.id \in converted'
         /\ \A u \in Worker : m.id \notin inHand[u]
         /\ \A n \in inbox' : n.id = m.id => n = m
    BY <2>3, <2>6
  <2>9. \A u \in Worker : \A j \in inHand[u] :
         /\ u \in workers' => u \notin (idle \ {w}) \cup {v} /\ wj[u] = j
         /\ j \in pending' => asg[j] = u
         /\ j \notin converted'
         /\ promise'[j] # "none"
         /\ \A x \in Worker : j \in inHand[x] => x = u
    BY <2>4, <1>12
  <2> QED
    BY <2>1, <2>2, <2>5, <2>7, <2>8, <2>9, <1>4, <1>5, <1>7, <1>9, <1>10,
       <1>13, <1>14, <1>15, Zenon
    DEF BeforeDispatch
<1>17. AfterDispatch'
  BY <1>1, <1>16, DispatchStep
<1>18. TypeOK'
  BY <1>1, <1>4, <1>17 DEF TypeOK, AfterDispatch, Threads
<1>19. PoolFull'
  <2>1. IsFiniteSet(workers) /\ Cardinality(workers) = PoolSize
    BY <1>2 DEF PoolFull
  <2>2. /\ IsFiniteSet(workers \ {w})
        /\ Cardinality(workers \ {w}) = PoolSize - 1
    BY <1>2, <2>1, FS_RemoveElement
  <2>3. IsFiniteSet(workers') /\ Cardinality(workers') = PoolSize - 1 + 1
    BY <1>1, <1>2, <2>2, FS_AddElement
  <2> QED
    BY <2>3 DEF PoolFull, PoolAssumption
<1>20. PendingIsTimed' /\ IdsInOrder' /\ DoneIsEmpty'
  BY <1>2, <1>4 DEF PendingIsTimed, IdsInOrder, DoneIsEmpty
<1> QED
  BY <1>17, <1>18, <1>19, <1>20 DEF AfterDispatch

\* onMessage: an answer settles the job it belongs to, if that is pending, and
\* frees the worker that sent it, if that is still in the pool.
LEMMA OnMessageStep ==
  ASSUME PoolAssumption, IndInv, NEW m \in inbox, OnMessage(m)
  PROVE  IndInv'
<1> USE DEF IndInv
<1> DEFINE w    == m.from
           js   == {m.id} \cap pending
           asg  == Unassign(js)
           wj   == [workerJob EXCEPT ![w] = 0]
           free == idle \cup ({w} \cap workers)
<1>1. /\ inbox' = inbox \ {m} /\ w \in Worker /\ m.id \in Jobs /\ m \in Answer
      /\ Settle(js, IF m.ok THEN "result" ELSE "failed")
      /\ Dispatch(free, asg, wj)
      /\ UNCHANGED <<nextId, workers, shutdown, thread, converted, crashes>>
  BY DEF OnMessage, Release, TypeOK, Answer
<1>2. /\ pending' \in SUBSET Jobs /\ pending' = pending \ js
      /\ timers' = timers \ js
      /\ promise' \in [Jobs -> Promises]
      /\ \A j \in Jobs : promise[j] # "none" <=> promise'[j] # "none"
      /\ \A j \in pending' : promise'[j] # "none"
      /\ pending' = {j \in Jobs : promise'[j] = "waiting"}
  BY <1>1 DEF Settle, TypeOK, PendingIsTimed, Promises, Outcomes
<1>3. /\ asg \in [Jobs -> Worker \cup {NoWorker}]
      /\ \A j \in Jobs : asg[j] = IF j \in js THEN NoWorker ELSE assigned[j]
      /\ wj \in [Worker -> 0..MaxJobs]
      /\ \A u \in Worker : wj[u] = IF u = w THEN 0 ELSE workerJob[u]
  <2>1. \A i \in Worker : wj[i] \in 0..MaxJobs
    BY DEF TypeOK, PoolAssumption
  <2>2. wj = [u \in Worker |-> IF u = w THEN 0 ELSE workerJob[u]]
    BY DEF TypeOK
  <2>3. asg \in [Jobs -> Worker \cup {NoWorker}]
    BY DEF Unassign, TypeOK
  <2>4. \A j \in Jobs : asg[j] = IF j \in js THEN NoWorker ELSE assigned[j]
    BY DEF Unassign
  <2> QED BY <2>1, <2>2, <2>3, <2>4
<1>4. free \in SUBSET workers
  BY DEF TypeOK
<1>5. w \in workers => w \notin idle /\ workerJob[w] = m.id
  BY DEF AnswersMatch
<1>6. m.id \in pending => assigned[m.id] = w
  BY DEF AnswersMatch
<1> HIDE DEF asg, wj, free
<1>7. shutdown = "open" =>
        \A u \in workers \ free : wj[u] \in pending' /\ asg[wj[u]] = u
  <2> SUFFICES ASSUME shutdown = "open", NEW u \in workers, u \notin idle, u # w
               PROVE  wj[u] \in pending' /\ asg[wj[u]] = u
    BY <1>5 DEF free
  <2>1. workerJob[u] \in pending /\ assigned[workerJob[u]] = u
    BY DEF NoCapacityLeak
  <2>2. workerJob[u] # m.id
    BY <2>1, <1>6
  <2> QED BY <2>1, <2>2, <1>2, <1>3 DEF TypeOK
<1>8. \A u \in free : wj[u] = 0
  BY <1>1, <1>3, <1>4 DEF free, IdleHasNoJob, TypeOK
<1>9. \A j, k \in pending' : j < k /\ asg[k] # NoWorker => asg[j] # NoWorker
  BY <1>2, <1>3 DEF NoOvertaking, TypeOK
<1>10. \A n \in inbox' :
         /\ n \in inbox /\ n # m /\ n \in Answer /\ n.id # m.id
         /\ n.from \in workers => n.from # w
  BY <1>1, <1>5 DEF OneAnswerPerJob, AnswersMatch, TypeOK, Answer
<1>11. \A n \in inbox' :
         /\ n.from \in workers' => n.from \notin free /\ wj[n.from] = n.id
         /\ n.id \in pending' => asg[n.id] = n.from
         /\ promise'[n.id] # "none"
         /\ n.ok <=> n.id \in converted'
         /\ \A u \in Worker : n.id \notin inHand[u]
         /\ \A x \in inbox' : x.id = n.id => x = n
  BY <1>1, <1>2, <1>3, <1>10 DEF free, OneAnswerPerJob, AnswersMatch, TypeOK, Answer
<1>12. \A j \in Jobs \ pending' : asg[j] = NoWorker
  BY <1>2, <1>3 DEF SettledIsUnassigned
<1>13. shutdown # "done" =>
         \A j \in pending' :
           asg[j] # NoWorker => asg[j] \in workers \ free /\ wj[asg[j]] = j
  <2> SUFFICES ASSUME shutdown # "done", NEW j \in pending', asg[j] # NoWorker
               PROVE  asg[j] \in workers \ free /\ wj[asg[j]] = j
    OBVIOUS
  <2>1. j \in pending /\ j \in Jobs /\ j # m.id /\ asg[j] = assigned[j]
    BY <1>2, <1>3
  <2>2. assigned[j] \in workers \ idle /\ workerJob[assigned[j]] = j
    BY <2>1 DEF StartedIsBusy
  <2>3. assigned[j] # w
    BY <2>1, <2>2, <1>5
  <2> QED BY <2>1, <2>2, <2>3, <1>3 DEF free, TypeOK
<1>14. \A u \in Worker : \A j \in inHand[u] :
         /\ u \in workers' => u \notin free /\ wj[u] = j
         /\ j \in pending' => asg[j] = u
         /\ j \notin converted'
         /\ promise'[j] # "none"
         /\ \A x \in Worker : j \in inHand[x] => x = u
  <2> SUFFICES ASSUME NEW u \in Worker, NEW j \in inHand[u]
               PROVE  /\ u \in workers' => u \notin free /\ wj[u] = j
                      /\ j \in pending' => asg[j] = u
                      /\ j \notin converted'
                      /\ promise'[j] # "none"
                      /\ \A x \in Worker : j \in inHand[x] => x = u
    OBVIOUS
  <2>1. j \in Jobs /\ j # m.id
    BY DEF OneAnswerPerJob, TypeOK
  <2>2. u \in workers => u # w
    BY <2>1, <1>5 DEF HandsMatch
  <2> QED BY <2>1, <2>2, <1>1, <1>2, <1>3 DEF free, HandsMatch
<1>15. \A j \in converted' : promise'[j] # "none" /\ j \notin Waiting(pending', asg)
  BY <1>1, <1>2, <1>3 DEF UnstartedIsUntouched, Waiting, TypeOK
<1>16. \A u \in Worker :
         thread'[u] = "unborn" =>
           u \notin workers' /\ wj[u] = 0 /\ inHand[u] = {} /\ \A n \in inbox' : n.from # u
  BY <1>1, <1>3 DEF UnbornIsClean
<1>17. \/ free = {}
       \/ \E u \in Worker : free = {u}
       \/ Waiting(pending', asg) = {}
  <2>1. \A j \in Waiting(pending', asg) : j \in Waiting(pending, assigned)
    BY <1>2, <1>3 DEF Waiting, TypeOK
  <2> QED BY <2>1, <1>1 DEF WorkConserving, free
<1>18. /\ inHand \in [Worker -> SUBSET Jobs]
       /\ inbox' \in SUBSET Answer
       /\ workers \in SUBSET Worker
       /\ \A u \in Worker : \A j, k \in inHand[u] : j = k
  BY <1>1 DEF TypeOK, OneJobPerWorker
<1>19. BeforeDispatch(free, asg, wj)
  BY <1>1, <1>2, <1>3, <1>4, <1>7, <1>8, <1>9, <1>11, <1>12, <1>13, <1>14,
     <1>15, <1>16, <1>17, <1>18, Zenon
  DEF BeforeDispatch
<1>20. AfterDispatch'
  BY <1>1, <1>19, DispatchStep
<1>21. TypeOK'
  BY <1>1, <1>2, <1>20, <1>18 DEF TypeOK, AfterDispatch
<1>22. PoolFull' /\ PendingIsTimed' /\ IdsInOrder' /\ DoneIsEmpty'
  BY <1>1, <1>2 DEF PoolFull, PendingIsTimed, IdsInOrder, DoneIsEmpty
<1> QED
  BY <1>20, <1>21, <1>22 DEF AfterDispatch

\* The 'error' listener replaces a worker once; the exit event that follows
\* finds it gone.
LEMMA OnErrorStep ==
  ASSUME PoolAssumption, IndInv, NEW w \in Worker, OnError(w)
  PROVE  IndInv'
<1>1. CASE Replaceable(w)
  BY <1>1, ReplaceStep DEF OnError, ReplaceLost, Threads, Outcomes
<1>2. CASE ~Replaceable(w)
  <2> USE DEF IndInv
  <2>1. /\ thread' = [thread EXCEPT ![w] = "exit1"]
        /\ UNCHANGED <<nextId, pending, timers, promise, workers, idle, assigned,
                       workerJob, inHand, shutdown, inbox, converted, crashes>>
    BY <1>2 DEF OnError
  <2>2. TypeOK'
    BY <2>1 DEF TypeOK, Threads
  <2>3. PoolFull' /\ Parts'
    BY <2>1 DEF TypeOK, PoolFull, Parts, NoCapacityLeak, IdleHasNoJob,
       WorkConserving, Waiting, NoOvertaking, OneJobPerWorker, AnswersMatch,
       PendingIsTimed, IdsInOrder, SettledIsUnassigned, StartedIsBusy,
       DoneIsEmpty, HandsMatch, OneAnswerPerJob, UnstartedIsUntouched,
       UnbornIsClean
  <2> QED BY <2>2, <2>3 DEF Parts
<1> QED BY <1>1, <1>2

\* The 'exit' listener replaces a worker that is still in the pool.
LEMMA OnExitStep ==
  ASSUME PoolAssumption, IndInv, NEW w \in Worker, OnExit(w)
  PROVE  IndInv'
<1>1. CASE Replaceable(w) /\ thread[w] = "exit1"
  BY <1>1, ReplaceStep DEF OnExit, ReplaceLost, Threads, Outcomes
<1>2. CASE ~(Replaceable(w) /\ thread[w] = "exit1")
  <2> USE DEF IndInv
  <2>1. /\ thread' = [thread EXCEPT ![w] = "gone"]
        /\ UNCHANGED <<nextId, pending, timers, promise, workers, idle, assigned,
                       workerJob, inHand, shutdown, inbox, converted, crashes>>
    BY <1>2 DEF OnExit
  <2>2. TypeOK'
    BY <2>1 DEF TypeOK, Threads
  <2>3. PoolFull' /\ Parts'
    BY <2>1 DEF TypeOK, PoolFull, Parts, NoCapacityLeak, IdleHasNoJob,
       WorkConserving, Waiting, NoOvertaking, OneJobPerWorker, AnswersMatch,
       PendingIsTimed, IdsInOrder, SettledIsUnassigned, StartedIsBusy,
       DoneIsEmpty, HandsMatch, OneAnswerPerJob, UnstartedIsUntouched,
       UnbornIsClean
  <2> QED BY <2>2, <2>3 DEF Parts
<1> QED BY <1>1, <1>2

\* failTimeout rejects one call and replaces the worker that held its job.
LEMMA FailTimeoutStep ==
  ASSUME PoolAssumption, IndInv, NEW j \in Jobs, FailTimeout(j)
  PROVE  IndInv'
<1> DEFINE w == assigned[j]
<1>1. j \in pending
  BY DEF FailTimeout, IndInv, PendingIsTimed
<1>2. CASE Replaceable(w)
  <2>1. w \in Worker
    BY <1>2 DEF IndInv, TypeOK, Replaceable
  <2>2. workerJob[w] = j
    BY <1>1, <1>2, <2>1 DEF IndInv, StartedIsBusy, Replaceable, PoolAssumption
  <2>3. {j} = {workerJob[w]} \cap pending
    BY <1>1, <2>2
  <2> DEFINE after == IF thread[w] = "up" THEN "terminating" ELSE thread[w]
  <2>4. after \in Threads \ {"unborn"}
    BY <2>1, <1>2 DEF IndInv, TypeOK, UnbornIsClean, Threads, Replaceable
  <2>5. /\ Settle({j}, "timeout")
        /\ Replace(w, Unassign({j}), after)
        /\ UNCHANGED <<nextId, shutdown, inbox, converted, crashes>>
    BY <1>2 DEF FailTimeout
  <2> HIDE DEF after, w
  <2> QED BY <1>2, <2>1, <2>3, <2>4, <2>5, ReplaceStep DEF Outcomes
<1>3. CASE ~Replaceable(w)
  <2> USE DEF IndInv
  <2>1. /\ Settle({j}, "timeout") /\ assigned' = Unassign({j})
        /\ UNCHANGED <<workers, idle, workerJob, thread, inHand, nextId,
                       shutdown, inbox, converted, crashes>>
    BY <1>3 DEF FailTimeout
  <2>2. /\ pending' \in SUBSET Jobs /\ pending' = pending \ {j}
        /\ timers' = timers \ {j}
        /\ promise' \in [Jobs -> Promises]
        /\ \A k \in Jobs : promise[k] # "none" <=> promise'[k] # "none"
        /\ \A k \in pending' : promise'[k] # "none"
        /\ pending' = {k \in Jobs : promise'[k] = "waiting"}
    BY <1>1, <2>1 DEF Settle, TypeOK, PendingIsTimed, Promises, Outcomes
  <2>3. /\ assigned' \in [Jobs -> Worker \cup {NoWorker}]
        /\ \A k \in Jobs : assigned'[k] = IF k = j THEN NoWorker ELSE assigned[k]
    BY <2>1 DEF Unassign, TypeOK
  <2>4. TypeOK'
    BY <2>1, <2>2, <2>3 DEF TypeOK
  <2>5. shutdown = "open" => assigned[j] = NoWorker
    BY <1>1, <1>3 DEF StartedIsBusy, Replaceable
  <2>6. NoCapacityLeak'
    <3> SUFFICES ASSUME shutdown = "open", NEW u \in workers, u \notin idle
                 PROVE  workerJob[u] \in pending' /\ assigned'[workerJob[u]] = u
      BY <2>1 DEF NoCapacityLeak
    <3>1. workerJob[u] \in pending /\ assigned[workerJob[u]] = u
      BY DEF NoCapacityLeak
    <3>2. workerJob[u] # j
      BY <3>1, <2>5 DEF TypeOK, PoolAssumption
    <3> QED BY <3>1, <3>2, <2>2, <2>3
  <2>7. WorkConserving'
    BY <2>1, <2>2, <2>3 DEF WorkConserving, Waiting, TypeOK
  <2>8. NoOvertaking' /\ StartedIsBusy' /\ SettledIsUnassigned'
    BY <2>1, <2>2, <2>3 DEF NoOvertaking, StartedIsBusy, SettledIsUnassigned, TypeOK
  <2>9. AnswersMatch' /\ OneAnswerPerJob'
    BY <2>1, <2>2, <2>3 DEF AnswersMatch, OneAnswerPerJob, TypeOK, Answer
  <2>10. HandsMatch' /\ OneJobPerWorker'
    <3>1. UNCHANGED <<inHand, workers, idle, workerJob, converted>>
      BY <2>1
    <3>2. ASSUME NEW v \in Worker, NEW k \in inHand'[v] PROVE HandsMatch!(v)!(k)'
      <4>1. HandsMatch!(v)!(k) /\ k \in Jobs
        BY <3>1 DEF HandsMatch, TypeOK
      <4>2. k \in pending' => assigned'[k] = v
        BY <4>1, <2>2, <2>3
      <4>3. promise'[k] # "none"
        BY <4>1, <2>2
      <4> QED BY <4>1, <4>2, <4>3, <3>1
    <3>3. HandsMatch'
      BY <3>2 DEF HandsMatch
    <3> QED BY <3>1, <3>3 DEF OneJobPerWorker
  <2>11. UnstartedIsUntouched'
    BY <2>1, <2>2, <2>3 DEF UnstartedIsUntouched, Waiting, TypeOK
  <2>12. /\ PoolFull' /\ IdleHasNoJob' /\ PendingIsTimed' /\ IdsInOrder'
         /\ DoneIsEmpty' /\ UnbornIsClean'
    BY <2>1, <2>2 DEF PoolFull, IdleHasNoJob, PendingIsTimed, IdsInOrder,
       DoneIsEmpty, UnbornIsClean
  <2> QED BY <2>4, <2>6, <2>7, <2>8, <2>9, <2>10, <2>11, <2>12
<1> QED BY <1>2, <1>3

\* Both halves of onModuleDestroy leave the jobs in flight to their timers.
LEMMA DestroyStep ==
  ASSUME PoolAssumption, IndInv, OnModuleDestroy \/ DestroyFinish
  PROVE  IndInv'
<1> USE DEF IndInv
<1>1. CASE OnModuleDestroy
  <2>1. TypeOK'
    BY <1>1 DEF OnModuleDestroy, TypeOK, Threads
  <2>2. PoolFull' /\ Parts'
    BY <1>1 DEF OnModuleDestroy, TypeOK, PoolFull, Parts, NoCapacityLeak,
       IdleHasNoJob, WorkConserving, Waiting, NoOvertaking, OneJobPerWorker,
       AnswersMatch, PendingIsTimed, IdsInOrder, SettledIsUnassigned,
       StartedIsBusy, DoneIsEmpty, HandsMatch, OneAnswerPerJob,
       UnstartedIsUntouched, UnbornIsClean
  <2> QED BY <2>1, <2>2 DEF Parts
<1>2. CASE DestroyFinish
  <2>1. TypeOK'
    BY <1>2 DEF DestroyFinish, outside, TypeOK
  <2>2. PoolFull'
    BY <1>2, FS_EmptySet DEF DestroyFinish, PoolFull
  <2>3. Parts'
    BY <1>2 DEF DestroyFinish, outside, TypeOK, Parts, NoCapacityLeak,
       IdleHasNoJob, WorkConserving, Waiting, NoOvertaking, OneJobPerWorker,
       AnswersMatch, PendingIsTimed, IdsInOrder, SettledIsUnassigned,
       StartedIsBusy, DoneIsEmpty, HandsMatch, OneAnswerPerJob,
       UnstartedIsUntouched, UnbornIsClean
  <2> QED BY <2>1, <2>2, <2>3 DEF Parts
<1> QED BY <1>1, <1>2

\* A thread answers a job in its hands: the answer matches what the main thread
\* believes the worker to be doing.
LEMMA ThreadReplyStep ==
  ASSUME PoolAssumption, IndInv,
         NEW w \in Worker, NEW j \in Jobs, NEW ok \in BOOLEAN, ThreadReply(w, j, ok)
  PROVE  IndInv'
<1> USE DEF IndInv
<1> DEFINE m == [from |-> w, id |-> j, ok |-> ok]
<1>1. /\ thread[w] # "unborn" /\ j \in inHand[w]
      /\ inHand' = [inHand EXCEPT ![w] = @ \ {j}]
      /\ inbox' = inbox \cup {m}
      /\ converted' = IF ok THEN converted \cup {j} ELSE converted
      /\ UNCHANGED <<fields, thread, crashes>>
  BY DEF ThreadReply
<1>2. /\ m \in Answer /\ m.from = w /\ m.id = j /\ m.ok = ok
  BY DEF Answer
<1> HIDE DEF m
<1>3. /\ w \in workers => w \notin idle /\ workerJob[w] = j
      /\ j \in pending => assigned[j] = w
      /\ j \notin converted /\ promise[j] # "none"
      /\ \A v \in Worker : j \in inHand[v] => v = w
  BY <1>1 DEF HandsMatch
<1>4. \A n \in inbox : n.id # j
  BY <1>1 DEF OneAnswerPerJob
<1>5. TypeOK'
  BY <1>1, <1>2 DEF TypeOK, fields
<1>6. AnswersMatch'
  BY <1>1, <1>2, <1>3 DEF AnswersMatch, fields
<1>7. OneJobPerWorker'
  BY <1>1 DEF OneJobPerWorker, TypeOK
<1>8. HandsMatch'
  <2> SUFFICES ASSUME NEW u \in Worker, NEW k \in inHand'[u]
               PROVE  /\ u \in workers => u \notin idle /\ workerJob[u] = k
                      /\ k \in pending => assigned[k] = u
                      /\ k \notin converted'
                      /\ promise[k] # "none"
                      /\ \A v \in Worker : k \in inHand'[v] => v = u
    BY <1>1 DEF HandsMatch, fields
  <2>1. k \in inHand[u] /\ \A v \in Worker : k \in inHand'[v] => k \in inHand[v]
    BY <1>1 DEF TypeOK
  <2>2. k # j
    BY <2>1, <1>1, <1>3 DEF TypeOK
  <2> QED BY <2>1, <2>2, <1>1 DEF HandsMatch
<1>9. OneAnswerPerJob'
  <2>1. \A u \in Worker : j \notin inHand'[u]
    BY <1>1, <1>3 DEF TypeOK
  <2>2. \A n \in inbox : \A u \in Worker : n.id \notin inHand'[u]
    BY <1>1 DEF OneAnswerPerJob, TypeOK
  <2>3. promise' = promise
    BY <1>1 DEF fields
  <2>4. ok <=> j \in converted'
    BY <1>1, <1>3
  <2>5. \A n \in inbox : n.ok <=> n.id \in converted'
    BY <1>1, <1>4 DEF OneAnswerPerJob
  <2> QED BY <2>1, <2>2, <2>3, <2>4, <2>5, <1>1, <1>2, <1>3, <1>4 DEF OneAnswerPerJob
<1>10. UnstartedIsUntouched'
  BY <1>1, <1>3, PoolAssumption DEF UnstartedIsUntouched, Waiting, fields, PoolAssumption
<1>11. UnbornIsClean'
  BY <1>1, <1>2 DEF UnbornIsClean, fields, TypeOK
<1>12. /\ PoolFull' /\ NoCapacityLeak' /\ IdleHasNoJob' /\ WorkConserving'
       /\ NoOvertaking' /\ PendingIsTimed' /\ IdsInOrder'
       /\ SettledIsUnassigned' /\ StartedIsBusy' /\ DoneIsEmpty'
  BY <1>1 DEF fields, PoolFull, NoCapacityLeak, IdleHasNoJob, WorkConserving,
     Waiting, NoOvertaking, PendingIsTimed, IdsInOrder, SettledIsUnassigned,
     StartedIsBusy, DoneIsEmpty
<1> QED BY <1>5, <1>6, <1>7, <1>8, <1>9, <1>10, <1>11, <1>12

\* A thread that dies or is stopped changes nothing the pool knows.
LEMMA ThreadEndStep ==
  ASSUME PoolAssumption, IndInv, NEW w \in Worker,
         NEW how \in {"error", "exit0", "exit1"},
         ThreadDie(w, how) \/ ThreadStop(w)
  PROVE  IndInv'
<1> USE DEF IndInv
<1>1. /\ thread[w] # "unborn"
      /\ \E s \in Threads \ {"unborn"} : thread' = [thread EXCEPT ![w] = s]
      /\ UNCHANGED <<fields, inHand, inbox, converted>>
      /\ crashes' \in 0..MaxCrashes
  BY DEF ThreadDie, ThreadStop, Threads, TypeOK, PoolAssumption
<1>2. TypeOK'
  BY <1>1 DEF TypeOK, fields, Threads
<1>3. PoolFull' /\ Parts'
  BY <1>1 DEF fields, TypeOK, PoolFull, Parts, NoCapacityLeak, IdleHasNoJob,
     WorkConserving, Waiting, NoOvertaking, OneJobPerWorker, AnswersMatch,
     PendingIsTimed, IdsInOrder, SettledIsUnassigned, StartedIsBusy,
     DoneIsEmpty, HandsMatch, OneAnswerPerJob, UnstartedIsUntouched,
     UnbornIsClean
<1> QED BY <1>2, <1>3 DEF Parts

\* A step that changes nothing preserves everything.
LEMMA StutterStep == IndInv /\ UNCHANGED vars => IndInv'
BY DEF IndInv, vars, fields, outside, TypeOK, PoolFull, NoCapacityLeak,
   IdleHasNoJob, WorkConserving, Waiting, NoOvertaking, OneJobPerWorker,
   AnswersMatch, PendingIsTimed, IdsInOrder, SettledIsUnassigned, StartedIsBusy,
   DoneIsEmpty, HandsMatch, OneAnswerPerJob, UnstartedIsUntouched, UnbornIsClean

\* IndInv holds in every reachable state of the pool.
THEOREM Invariance == Spec => []IndInv
<1>1. Init => IndInv
  BY InitStep, PoolAssumption
<1>2. IndInv /\ [Next]_vars => IndInv'
  <2> SUFFICES ASSUME IndInv, [Next]_vars PROVE IndInv'
    OBVIOUS
  <2>1. CASE Run
    BY <2>1, RunStep, PoolAssumption
  <2>2. CASE \E m \in inbox : OnMessage(m)
    BY <2>2, OnMessageStep, PoolAssumption
  <2>3. CASE \E w \in Worker : OnError(w)
    BY <2>3, OnErrorStep, PoolAssumption
  <2>4. CASE \E w \in Worker : OnExit(w)
    BY <2>4, OnExitStep, PoolAssumption
  <2>5. CASE \E j \in Jobs : FailTimeout(j)
    BY <2>5, FailTimeoutStep, PoolAssumption
  <2>6. CASE OnModuleDestroy \/ DestroyFinish
    BY <2>6, DestroyStep, PoolAssumption
  <2>7. CASE \E w \in Worker, j \in Jobs, ok \in BOOLEAN : ThreadReply(w, j, ok)
    BY <2>7, ThreadReplyStep, PoolAssumption
  <2>8. CASE \/ \E w \in Worker, how \in {"error", "exit0", "exit1"} : ThreadDie(w, how)
             \/ \E w \in Worker : ThreadStop(w)
    BY <2>8, ThreadEndStep, PoolAssumption
  <2>9. CASE UNCHANGED vars
    BY <2>9, StutterStep
  <2> QED
    BY <2>1, <2>2, <2>3, <2>4, <2>5, <2>6, <2>7, <2>8, <2>9 DEF Next
<1> QED
  BY <1>1, <1>2, PTL DEF Spec, Safety

\* Every variable keeps its type.
THEOREM TypeCorrect == Spec => []TypeOK
BY Invariance, PTL DEF IndInv

\* An open pool always has exactly PoolSize workers.
THEOREM PoolStaysFull == Spec => []PoolFull
BY Invariance, PTL DEF IndInv

\* A busy worker of an open pool always has a pending job, so the job's timer
\* gives the worker back; with PoolStaysFull, capacity is never lost.
THEOREM CapacityKept == Spec => []NoCapacityLeak
BY Invariance, PTL DEF IndInv

\* No callback leaves a job waiting beside an idle worker.
THEOREM NeverIdleWithWork == Spec => []WorkConserving
BY Invariance, PTL DEF IndInv

\* Jobs start in the order run() was called.
THEOREM FirstComeFirstServed == Spec => []NoOvertaking
BY Invariance, PTL DEF IndInv

\* Late answers never free a busy worker or settle another worker's job.
THEOREM LateAnswersAreHarmless == Spec => [](AnswersMatch /\ OneJobPerWorker)
BY Invariance, PTL DEF IndInv

\* The map of pending jobs, the armed timers and the unsettled calls agree.
THEOREM NoCallForgotten == Spec => []PendingIsTimed
BY Invariance, PTL DEF IndInv

-----------------------------------------------------------------------------
(* The refinement.                                                         *)

\* Settling a set with at most one job that is pending is a Settle step of
\* the abstract runner, or changes nothing its callers see.
LEMMA SettleStep ==
  ASSUME PoolAssumption, IndInv, NEW j \in Nat, NEW js, NEW o \in Outcomes,
         js = {j} \cap pending, Settle(js, o),
         j \in pending =>
           /\ o = "result" => j \in converted
           /\ o = "failed" => j \notin converted
           /\ o = "internal" => shutdown = "open",
         UNCHANGED <<converted, shutdown>>
  PROVE  [Runner!RunnerNext]_Runner!runnerVars
<1> USE DEF IndInv
<1>1. CASE j \in pending
  <2>1. j \in Runner!Jobs /\ o \in Runner!Outcomes /\ promise[j] = "waiting"
    BY <1>1 DEF PendingIsTimed, Runner!Jobs, Jobs, Runner!Outcomes, Outcomes
  <2>2. promise' = [promise EXCEPT ![j] = o]
    BY <1>1 DEF Settle, TypeOK
  <2>3. Runner!Settle(j, o)
    BY <1>1, <2>1, <2>2 DEF Runner!Settle
  <2> QED BY <2>1, <2>3 DEF Runner!RunnerNext
<1>2. CASE j \notin pending
  BY <1>2 DEF Settle, TypeOK, Runner!runnerVars
<1> QED BY <1>1, <1>2

\* Each step of the pool is a step of the abstract runner or a stutter.
LEMMA RefinementStep ==
  PoolAssumption /\ IndInv /\ [Next]_vars => [Runner!RunnerNext]_Runner!runnerVars
<1> SUFFICES ASSUME PoolAssumption, IndInv, [Next]_vars
             PROVE  [Runner!RunnerNext]_Runner!runnerVars
  OBVIOUS
<1> USE DEF IndInv
<1>1. CASE Run
  <2>1. nextId \in Runner!Jobs /\ promise[nextId] = "none"
        /\ \A k \in Runner!Jobs : k < nextId => promise[k] # "none"
    BY <1>1 DEF Run, IdsInOrder, Runner!Jobs, Jobs
  <2>2. Runner!Accept(nextId)
    BY <1>1, <2>1 DEF Run, Runner!Accept
  <2> QED BY <2>1, <2>2 DEF Runner!RunnerNext
<1>2. ASSUME NEW m \in inbox, OnMessage(m)
      PROVE  [Runner!RunnerNext]_Runner!runnerVars
  <2>1. m.id \in Nat /\ (m.ok <=> m.id \in converted)
    BY DEF TypeOK, Answer, Jobs, OneAnswerPerJob
  <2>2. (IF m.ok THEN "result" ELSE "failed") \in Outcomes
    BY DEF Outcomes
  <2> QED BY <1>2, <2>1, <2>2, SettleStep DEF OnMessage
<1>3. ASSUME NEW w \in Worker, OnError(w) \/ OnExit(w)
      PROVE  [Runner!RunnerNext]_Runner!runnerVars
  <2>1. workerJob[w] \in Nat
    BY DEF TypeOK, PoolAssumption
  <2>2. CASE \E after \in Threads : Replaceable(w) /\ ReplaceLost(w, after)
    BY <1>3, <2>1, <2>2, SettleStep
    DEF OnError, OnExit, ReplaceLost, Replaceable, Outcomes
  <2>3. CASE UNCHANGED promise
    BY <1>3, <2>3 DEF OnError, OnExit, Runner!runnerVars
  <2> QED BY <1>3, <2>2, <2>3 DEF OnError, OnExit, Threads
<1>4. ASSUME NEW j \in Jobs, FailTimeout(j)
      PROVE  [Runner!RunnerNext]_Runner!runnerVars
  <2>1. j \in pending /\ j \in Nat
    BY <1>4 DEF FailTimeout, PendingIsTimed, Jobs
  <2> QED BY <1>4, <2>1, SettleStep DEF FailTimeout, Outcomes
<1>5. CASE OnModuleDestroy
  BY <1>5 DEF OnModuleDestroy, Runner!RunnerNext, Runner!Close
<1>6. CASE DestroyFinish
  BY <1>6 DEF DestroyFinish, outside, Runner!runnerVars
<1>7. ASSUME NEW w \in Worker, NEW j \in Jobs, NEW ok \in BOOLEAN,
             ThreadReply(w, j, ok)
      PROVE  [Runner!RunnerNext]_Runner!runnerVars
  <2>1. CASE ok
    <3>1. j \notin converted /\ promise[j] # "none" /\ j \in Runner!Jobs
      BY <1>7 DEF ThreadReply, HandsMatch, Runner!Jobs, Jobs
    <3>2. Runner!Convert(j)
      BY <1>7, <2>1, <3>1 DEF ThreadReply, fields, Runner!Convert
    <3> QED BY <3>1, <3>2 DEF Runner!RunnerNext
  <2>2. CASE ~ok
    BY <1>7, <2>2 DEF ThreadReply, fields, Runner!runnerVars
  <2> QED BY <2>1, <2>2
<1>8. CASE \/ \E w \in Worker, how \in {"error", "exit0", "exit1"} : ThreadDie(w, how)
           \/ \E w \in Worker : ThreadStop(w)
  BY <1>8 DEF ThreadDie, ThreadStop, fields, Runner!runnerVars
<1>9. CASE UNCHANGED vars
  BY <1>9 DEF vars, fields, outside, Runner!runnerVars
<1> QED
  BY <1>1, <1>2, <1>3, <1>4, <1>5, <1>6, <1>7, <1>8, <1>9 DEF Next

\* Every behaviour of the pool is one its callers may expect: each accepted
\* call settles at most once and in agreement with what the worker did.
THEOREM PoolImplementsRunner == Spec => Runner!RunnerSafety
<1>1. Init => Runner!RunnerInit
  BY DEF Init, Runner!RunnerInit, Runner!Jobs, Jobs
<1>2. IndInv /\ [Next]_vars => [Runner!RunnerNext]_Runner!runnerVars
  BY RefinementStep, PoolAssumption
<1> QED
  BY <1>1, <1>2, Invariance, PTL DEF Spec, Safety, Runner!RunnerSafety
=============================================================================
