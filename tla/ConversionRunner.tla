-------------------------- MODULE ConversionRunner --------------------------
(***************************************************************************)
(* What ConversionWorkerPool promises to the services that call            *)
(* run(job): every accepted call is settled exactly once, "result" is only *)
(* ever returned for a job whose output file a worker reported, a job a    *)
(* worker converted is never reported as a failed conversion, and once the *)
(* module is destroyed no further call is accepted.  Threads, queues and   *)
(* messages are not mentioned: the pool is shown to implement this module. *)
(***************************************************************************)
EXTENDS Naturals

CONSTANT MaxJobs   \* bound: calls of run()

ASSUME RunnerAssumption == MaxJobs \in Nat

VARIABLES
  promise,    \* promise[j]: what the caller of the j-th run() holds
  converted,  \* jobs for which a worker reported an output file
  accepting   \* FALSE once onModuleDestroy ran

runnerVars == <<promise, converted, accepting>>

Jobs     == 1..MaxJobs
Outcomes == {"result", "failed", "internal", "timeout"}
Promises == {"none", "waiting"} \cup Outcomes

RunnerInit ==
  /\ promise = [j \in Jobs |-> "none"]
  /\ converted = {}
  /\ accepting = TRUE

\* run(): calls are numbered in the order they are made.
Accept(j) ==
  /\ accepting
  /\ promise[j] = "none"
  /\ \A k \in Jobs : k < j => promise[k] # "none"
  /\ promise' = [promise EXCEPT ![j] = "waiting"]
  /\ UNCHANGED <<converted, accepting>>

\* A worker reports the output of a job, perhaps after the caller gave up.
Convert(j) ==
  /\ promise[j] # "none"
  /\ j \notin converted
  /\ converted' = converted \cup {j}
  /\ UNCHANGED <<promise, accepting>>

\* The call settles.  Only a converted job has a result, only one that was
\* not converted failed, a lost worker is reported only while the pool is
\* open, and the timer may fire at any moment.
Settle(j, o) ==
  /\ promise[j] = "waiting"
  /\ o = "result"   => j \in converted
  /\ o = "failed"   => j \notin converted
  /\ o = "internal" => accepting
  /\ promise' = [promise EXCEPT ![j] = o]
  /\ UNCHANGED <<converted, accepting>>

Close ==
  /\ accepting
  /\ accepting' = FALSE
  /\ UNCHANGED <<promise, converted>>

RunnerNext ==
  \/ \E j \in Jobs : Accept(j)
  \/ \E j \in Jobs : Convert(j)
  \/ \E j \in Jobs, o \in Outcomes : Settle(j, o)
  \/ Close

RunnerSafety == RunnerInit /\ [][RunnerNext]_runnerVars

\* The caller's await always ends, whatever the worker threads do.
RunnerFairness ==
  \A j \in Jobs : WF_runnerVars(\E o \in Outcomes : Settle(j, o))

RunnerSpec == RunnerSafety /\ RunnerFairness
=============================================================================
