------------------------ MODULE ConversionWorkerPool ------------------------
(***************************************************************************)
(* modules/convert/workers/conversion-worker.pool.ts: a fixed number of    *)
(* worker threads serving a FIFO of conversion jobs, each job armed with a *)
(* timer when it is queued.  Every callback of the main event loop (run,   *)
(* onMessage, the 'error' and 'exit' listeners, failTimeout, both halves   *)
(* of onModuleDestroy) is one atomic action.  The worker threads run       *)
(* beside it: they answer, die, or keep computing until terminate() really *)
(* stops them, and what they posted before is still delivered.             *)
(***************************************************************************)
EXTENDS Naturals, FiniteSets

CONSTANTS
  PoolSize,    \* CONVERT_WORKER_POOL_SIZE
  Worker,      \* identities new Worker() can return; none is used twice
  NoWorker,    \* PendingJob.worker is still undefined
  MaxJobs,     \* bound: calls of run()
  MaxCrashes   \* bound: threads that die on their own

ASSUME PoolAssumption ==
  /\ PoolSize \in Nat \ {0}
  /\ MaxJobs \in Nat
  /\ MaxCrashes \in Nat
  /\ NoWorker \notin Worker

VARIABLES
  \* fields of the pool
  nextId,     \* the id the next run() takes
  pending,    \* keys of the map `pending`
  assigned,   \* assigned[j]: PendingJob.worker
  timers,     \* jobs whose setTimeout is armed
  promise,    \* promise[j]: what the caller of run() holds
  workers, idle,
  workerJob,  \* workerJob[w]: value of the map workerJob, 0 when absent
  shutdown,   \* "open"; "closing" (closed, awaiting terminate()); "done"
  \* the worker threads and the message ports
  thread,     \* life cycle of each thread
  inHand,     \* inHand[w]: jobs posted to w that it has not answered
  inbox,      \* answers posted to the main thread, not yet delivered
  converted,  \* jobs for which a thread reported an output file
  crashes

fields  == <<nextId, pending, assigned, timers, promise, workers, idle,
             workerJob, shutdown>>
outside == <<thread, inHand, inbox, converted, crashes>>
vars    == <<fields, outside>>

Jobs     == 1..MaxJobs
Outcomes == {"result", "failed", "internal", "timeout"}
Promises == {"none", "waiting"} \cup Outcomes
\* "terminating": terminate() was called, the thread may still be running.
\* "error", "exit0", "exit1": the thread is over and the 'error' event, or
\* the 'exit' event with code 0 or another code, has not been delivered.
Threads  == {"unborn", "up", "terminating", "error", "exit0", "exit1", "gone"}
Answer   == [from : Worker, id : Jobs, ok : BOOLEAN]

TypeOK ==
  /\ nextId \in 1..(MaxJobs + 1)
  /\ pending \in SUBSET Jobs
  /\ assigned \in [Jobs -> Worker \cup {NoWorker}]
  /\ timers \in SUBSET Jobs
  /\ promise \in [Jobs -> Promises]
  /\ workers \in SUBSET Worker /\ idle \in SUBSET workers
  /\ workerJob \in [Worker -> 0..MaxJobs]
  /\ shutdown \in {"open", "closing", "done"}
  /\ thread \in [Worker -> Threads]
  /\ inHand \in [Worker -> SUBSET Jobs]
  /\ inbox \in SUBSET Answer
  /\ converted \in SUBSET Jobs
  /\ crashes \in 0..MaxCrashes

\* The constructor: spawnWorker and track, PoolSize times.
Init ==
  /\ workers \in SUBSET Worker /\ IsFiniteSet(workers)
  /\ Cardinality(workers) = PoolSize
  /\ idle = workers
  /\ nextId = 1
  /\ pending = {} /\ timers = {}
  /\ assigned = [j \in Jobs |-> NoWorker]
  /\ promise = [j \in Jobs |-> "none"]
  /\ workerJob = [w \in Worker |-> 0]
  /\ shutdown = "open"
  /\ thread = [w \in Worker |-> IF w \in workers THEN "up" ELSE "unborn"]
  /\ inHand = [w \in Worker |-> {}]
  /\ inbox = {} /\ converted = {}
  /\ crashes = 0

-----------------------------------------------------------------------------
(* What the callbacks are built from.  In these operators the arguments    *)
(* are the fields as the callback has left them so far.                    *)


\* Fault: clearTimeout is forgotten.
SettleKeepsTimer(js, outcome) ==
  /\ pending' = pending \ js
  /\ promise' = [j \in Jobs |-> IF j \in js \cap pending THEN outcome
                                                       ELSE promise[j]]
  /\ UNCHANGED timers

\* pending.delete for each j in js, whose timer is cleared or has fired; the
\* promise of those that were pending settles.
Settle(js, outcome) ==
  /\ pending' = pending \ js
  /\ timers' = timers \ js
  /\ promise' = [j \in Jobs |-> IF j \in js \cap pending THEN outcome
                                                       ELSE promise[j]]

Unassign(js) == [j \in Jobs |-> IF j \in js THEN NoWorker ELSE assigned[j]]

Waiting(pend, asg) == {j \in pend : asg[j] = NoWorker}


\* Fault: the newest waiting job is taken instead of the oldest.
DispatchNewest(free, asg, wj) ==
  LET queue == Waiting(pending', asg) IN
  \/ /\ free = {} \/ queue = {}
     /\ idle' = free
     /\ assigned' = asg
     /\ workerJob' = wj
     /\ UNCHANGED inHand
  \/ \E j \in queue, w \in free :
       /\ \A k \in queue : k <= j
       /\ idle' = free \ {w}
       /\ assigned' = [asg EXCEPT ![j] = w]
       /\ workerJob' = [wj EXCEPT ![w] = j]
       /\ inHand' = [inHand EXCEPT ![w] = @ \cup {j}]

\* dispatch(): the first entry of `pending` without a worker (a Map keeps
\* insertion order, which is id order) goes to the worker idle.pop() returns,
\* abstracted to some idle worker.  One pass is enough: there is never both
\* an idle worker and a waiting job (WorkConserving), and each callback
\* adds one of either before it calls dispatch.
Dispatch(free, asg, wj) ==
  LET queue == Waiting(pending', asg) IN
  \/ /\ free = {} \/ queue = {}
     /\ idle' = free
     /\ assigned' = asg
     /\ workerJob' = wj
     /\ UNCHANGED inHand
  \/ \E j \in queue, w \in free :
       /\ \A k \in queue : j <= k
       /\ idle' = free \ {w}
       /\ assigned' = [asg EXCEPT ![j] = w]
       /\ workerJob' = [wj EXCEPT ![w] = j]
       /\ inHand' = [inHand EXCEPT ![w] = @ \cup {j}]

\* release(w): a worker that is no longer in `workers` is not idle again.
Release(w, asg) ==
  Dispatch(idle \cup ({w} \cap workers), asg, [workerJob EXCEPT ![w] = 0])

\* replaceWorker past its guard: w leaves every list, terminate() is called,
\* a fresh worker is tracked and the queue is dispatched again.
Replace(w, asg, after) ==
  \E v \in Worker :
    /\ thread[v] = "unborn"
    /\ workers' = (workers \ {w}) \cup {v}
    /\ thread' = [thread EXCEPT ![w] = after, ![v] = "up"]
    /\ Dispatch((idle \ {w}) \cup {v}, asg, [workerJob EXCEPT ![w] = 0])


\* Fault: replaceWorker without the test that the worker is still there.
ReplaceableTwice(w) == shutdown = "open"

Replaceable(w) == shutdown = "open" /\ w \in workers


\* Fault: the job of a lost worker is not rejected.
ReplaceSilently(w, after) ==
  /\ Settle({}, "internal")
  /\ Replace(w, assigned, after)

\* replaceWorker(w, CONVERT_INTERNAL): the job w was busy with is rejected.
ReplaceLost(w, after) ==
  LET lost == {workerJob[w]} \cap pending IN
  /\ Settle(lost, "internal")
  /\ Replace(w, Unassign(lost), after)

-----------------------------------------------------------------------------
(* Callbacks of the main event loop.                                       *)


\* Fault: run() queues the job without calling dispatch.
RunWithoutDispatch ==
  /\ shutdown = "open"
  /\ nextId \in Jobs
  /\ nextId' = nextId + 1
  /\ pending' = pending \cup {nextId}
  /\ timers' = timers \cup {nextId}
  /\ promise' = [promise EXCEPT ![nextId] = "waiting"]
  /\ UNCHANGED <<assigned, idle, workerJob, inHand>>
  /\ UNCHANGED <<workers, shutdown, thread, inbox, converted, crashes>>

\* run().  A call made once `closed` is set is rejected at once and takes
\* no id: it leaves every variable as it is.
Run ==
  /\ shutdown = "open"
  /\ nextId \in Jobs
  /\ nextId' = nextId + 1
  /\ pending' = pending \cup {nextId}
  /\ timers' = timers \cup {nextId}
  /\ promise' = [promise EXCEPT ![nextId] = "waiting"]
  /\ Dispatch(idle, assigned, workerJob)
  /\ UNCHANGED <<workers, shutdown, thread, inbox, converted, crashes>>


\* Fault: the ok flag of the answer is not looked at.
OnMessageResolvesAll(m) ==
  LET settled == {m.id} \cap pending IN
  /\ inbox' = inbox \ {m}
  /\ Settle(settled, "result")
  /\ Release(m.from, Unassign(settled))
  /\ UNCHANGED <<nextId, workers, shutdown, thread, converted, crashes>>

\* onMessage(m.from, m).  The answer to a job that is no longer pending only
\* releases its worker.
OnMessage(m) ==
  LET settled == {m.id} \cap pending IN
  /\ inbox' = inbox \ {m}
  /\ Settle(settled, IF m.ok THEN "result" ELSE "failed")
  /\ Release(m.from, Unassign(settled))
  /\ UNCHANGED <<nextId, workers, shutdown, thread, converted, crashes>>

\* The 'error' listener: the exit event of the same thread follows.
OnError(w) ==
  /\ thread[w] = "error"
  /\ IF Replaceable(w)
     THEN ReplaceLost(w, "exit1")
     ELSE /\ thread' = [thread EXCEPT ![w] = "exit1"]
          /\ UNCHANGED <<pending, timers, promise, workers, idle, assigned,
                         workerJob, inHand>>
  /\ UNCHANGED <<nextId, shutdown, inbox, converted, crashes>>


\* Fault: only 'error' is listened to.
OnExitIgnored(w) ==
  /\ thread[w] \in {"exit0", "exit1"}
  /\ \A m \in inbox : m.from # w
  /\ thread' = [thread EXCEPT ![w] = "gone"]
  /\ UNCHANGED <<pending, timers, promise, workers, idle, assigned,
                 workerJob, inHand>>
  /\ UNCHANGED <<nextId, shutdown, inbox, converted, crashes>>

\* The 'exit' listener.  The port of a thread that ended is drained before
\* its exit event.  A thread that exits with code 0 is left in `workers`.
OnExit(w) ==
  /\ thread[w] \in {"exit0", "exit1"}
  /\ \A m \in inbox : m.from # w
  /\ IF Replaceable(w) /\ thread[w] = "exit1"
     THEN ReplaceLost(w, "gone")
     ELSE /\ thread' = [thread EXCEPT ![w] = "gone"]
          /\ UNCHANGED <<pending, timers, promise, workers, idle, assigned,
                         workerJob, inHand>>
  /\ UNCHANGED <<nextId, shutdown, inbox, converted, crashes>>


\* Fault: a timeout rejects the caller and forgets the worker.
FailTimeoutKeepsWorker(j) ==
  /\ j \in timers
  /\ Settle({j}, "timeout")
  /\ assigned' = Unassign({j})
  /\ UNCHANGED <<workers, idle, workerJob, thread, inHand>>
  /\ UNCHANGED <<nextId, shutdown, inbox, converted, crashes>>

\* Fault: a timeout releases the worker, which is still computing.
FailTimeoutReleases(j) ==
  LET w == assigned[j] IN
  /\ j \in timers
  /\ Settle({j}, "timeout")
  /\ IF Replaceable(w)
     THEN Release(w, Unassign({j}))
     ELSE /\ assigned' = Unassign({j})
          /\ UNCHANGED <<idle, workerJob, inHand>>
  /\ UNCHANGED <<nextId, workers, thread, shutdown, inbox, converted, crashes>>

\* failTimeout(j): the worker that holds the job is replaced, not released.
FailTimeout(j) ==
  LET w == assigned[j] IN
  /\ j \in timers
  /\ Settle({j}, "timeout")
  /\ IF Replaceable(w)
     THEN Replace(w, Unassign({j}),
                  IF thread[w] = "up" THEN "terminating" ELSE thread[w])
     ELSE /\ assigned' = Unassign({j})
          /\ UNCHANGED <<workers, idle, workerJob, thread, inHand>>
  /\ UNCHANGED <<nextId, shutdown, inbox, converted, crashes>>


\* Fault: the workers are not terminated.
OnModuleDestroyWaits ==
  /\ shutdown = "open"
  /\ shutdown' = "closing"
  /\ UNCHANGED <<nextId, pending, assigned, timers, promise, workers, idle,
                 workerJob, outside>>

\* onModuleDestroy up to its await: jobs in flight are left to their timers.
OnModuleDestroy ==
  /\ shutdown = "open"
  /\ shutdown' = "closing"
  /\ thread' = [w \in Worker |-> IF w \in workers /\ thread[w] = "up"
                                 THEN "terminating" ELSE thread[w]]
  /\ UNCHANGED <<nextId, pending, assigned, timers, promise, workers, idle,
                 workerJob, inHand, inbox, converted, crashes>>

\* onModuleDestroy after its await: every terminate() has resolved.
DestroyFinish ==
  /\ shutdown = "closing"
  /\ \A w \in workers : thread[w] = "gone"
  /\ shutdown' = "done"
  /\ workers' = {} /\ idle' = {}
  /\ UNCHANGED <<nextId, pending, assigned, timers, promise, workerJob,
                 outside>>

-----------------------------------------------------------------------------
(* The worker threads.                                                     *)

\* conversion.worker.ts: handle() ends in exactly one reply() per job.
ThreadReply(w, j, ok) ==
  /\ thread[w] \in {"up", "terminating"}
  /\ j \in inHand[w]
  /\ inHand' = [inHand EXCEPT ![w] = @ \ {j}]
  /\ inbox' = inbox \cup {[from |-> w, id |-> j, ok |-> ok]}
  /\ converted' = IF ok THEN converted \cup {j} ELSE converted
  /\ UNCHANGED <<fields, thread, crashes>>

\* A thread dies by an error nothing caught, or by process.exit.
ThreadDie(w, how) ==
  /\ thread[w] = "up"
  /\ crashes < MaxCrashes
  /\ crashes' = crashes + 1
  /\ thread' = [thread EXCEPT ![w] = how]
  /\ UNCHANGED <<fields, inHand, inbox, converted>>

\* terminate() takes effect; the exit code of a terminated thread is 1.
ThreadStop(w) ==
  /\ thread[w] = "terminating"
  /\ thread' = [thread EXCEPT ![w] = "exit1"]
  /\ UNCHANGED <<fields, inHand, inbox, converted, crashes>>

Next ==
  \/ Run
  \/ \E m \in inbox : OnMessage(m)
  \/ \E w \in Worker : OnError(w)
  \/ \E w \in Worker : OnExit(w)
  \/ \E j \in Jobs : FailTimeout(j)
  \/ OnModuleDestroy
  \/ DestroyFinish
  \/ \E w \in Worker, j \in Jobs, ok \in BOOLEAN : ThreadReply(w, j, ok)
  \/ \E w \in Worker, how \in {"error", "exit0", "exit1"} : ThreadDie(w, how)
  \/ \E w \in Worker : ThreadStop(w)

Safety == Init /\ [][Next]_vars

\* The event loop delivers timers, messages and events, and a terminated
\* thread stops.  A thread is never assumed to answer.
Fairness ==
  /\ \A j \in Jobs : WF_vars(FailTimeout(j))
  /\ WF_vars(\E m \in inbox : OnMessage(m))
  /\ \A w \in Worker : WF_vars(OnError(w)) /\ WF_vars(OnExit(w))
  /\ \A w \in Worker : WF_vars(ThreadStop(w))
  /\ WF_vars(DestroyFinish)

Spec == Safety /\ Fairness

-----------------------------------------------------------------------------
(* Safety.                                                                 *)

\* Replacing a worker never shrinks or grows the pool: while it is open it
\* has exactly CONVERT_WORKER_POOL_SIZE workers, however timeouts, error
\* events, exit events and late answers of one thread are ordered.
PoolFull ==
  /\ IsFiniteSet(workers)
  /\ shutdown = "open" => Cardinality(workers) = PoolSize

\* No capacity leaks: a worker of an open pool that is not idle is busy with
\* a job that is still pending, so its timer will give the worker back.
NoCapacityLeak ==
  shutdown = "open" =>
    \A w \in workers \ idle :
      workerJob[w] \in pending /\ assigned[workerJob[w]] = w

\* The death of an idle worker rejects nobody's job.
IdleHasNoJob == \A w \in idle : workerJob[w] = 0

\* No callback returns with both an idle worker and a job nobody started:
\* every path that frees a worker or queues a job dispatches.
WorkConserving == idle = {} \/ Waiting(pending, assigned) = {}

\* Jobs start in the order run() was called.
NoOvertaking ==
  \A j, k \in pending :
    j < k /\ assigned[k] # NoWorker => assigned[j] # NoWorker

\* A worker is never handed a second job before the main thread has seen its
\* answer to the first, also when the first one's timer fired meanwhile.
OneJobPerWorker ==
  \A w \in Worker : \A j, k \in inHand[w] : j = k

\* An answer that releases a worker of the pool is the answer to the job
\* that worker was dispatched with: a late answer never frees a busy worker,
\* and a pending job is only settled by the worker it was given to.
AnswersMatch ==
  \A m \in inbox :
    /\ m.from \in workers => m.from \notin idle /\ workerJob[m.from] = m.id
    /\ m.id \in pending => assigned[m.id] = m.from

\* Exactly the calls that have not settled are in the map and on a timer: no
\* caller is forgotten, no timer outlives its job.
PendingIsTimed ==
  /\ timers = pending
  /\ pending = {j \in Jobs : promise[j] = "waiting"}

\* The rest of the inductive invariant.
IdsInOrder == \A j \in Jobs : promise[j] = "none" <=> j >= nextId

SettledIsUnassigned == \A j \in Jobs \ pending : assigned[j] = NoWorker

StartedIsBusy ==
  shutdown # "done" =>
    \A j \in pending :
      assigned[j] # NoWorker => /\ assigned[j] \in workers \ idle
                                /\ workerJob[assigned[j]] = j

DoneIsEmpty == shutdown = "done" => workers = {}

HandsMatch ==
  \A w \in Worker : \A j \in inHand[w] :
    /\ w \in workers => w \notin idle /\ workerJob[w] = j
    /\ j \in pending => assigned[j] = w
    /\ j \notin converted
    /\ promise[j] # "none"
    /\ \A v \in Worker : j \in inHand[v] => v = w

OneAnswerPerJob ==
  \A m \in inbox :
    /\ m.ok <=> m.id \in converted
    /\ promise[m.id] # "none"
    /\ \A w \in Worker : m.id \notin inHand[w]
    /\ \A n \in inbox : n.id = m.id => n = m

UnstartedIsUntouched ==
  \A j \in converted : promise[j] # "none" /\ j \notin Waiting(pending, assigned)

UnbornIsClean ==
  \A w \in Worker :
    thread[w] = "unborn" =>
      /\ w \notin workers
      /\ workerJob[w] = 0
      /\ inHand[w] = {}
      /\ \A m \in inbox : m.from # w

IndInv ==
  /\ TypeOK
  /\ PoolFull /\ NoCapacityLeak /\ IdleHasNoJob /\ WorkConserving
  /\ NoOvertaking
  /\ OneJobPerWorker /\ AnswersMatch /\ PendingIsTimed
  /\ IdsInOrder /\ SettledIsUnassigned /\ StartedIsBusy /\ DoneIsEmpty
  /\ HandsMatch /\ OneAnswerPerJob /\ UnstartedIsUntouched /\ UnbornIsClean

-----------------------------------------------------------------------------
(* Refinement and liveness.                                                *)

Runner == INSTANCE ConversionRunner WITH accepting <- shutdown = "open"

\* The pool keeps the promise its callers rely on, for every interleaving of
\* answers, timers, dying threads and shutdown: each call settles once, with
\* an outcome that agrees with what the worker did.
ImplementsRunner == Runner!RunnerSpec

\* A worker that failed or exited with an error leaves the pool, also when it
\* was idle and no job's timer would ever notice.
DeadWorkerReplaced ==
  \A w \in Worker :
    thread[w] \in {"error", "exit1"} ~> w \notin workers \/ shutdown # "open"

\* onModuleDestroy finishes whatever the threads are doing.
DestroyCompletes == shutdown = "closing" ~> shutdown = "done"
=============================================================================
