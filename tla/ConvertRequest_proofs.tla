----------------------- MODULE ConvertRequest_proofs ------------------------
(***************************************************************************)
(* Proofs about ConvertRequest for every set of requests and every number  *)
(* of pool calls: no spool file is removed under a reader, none outlives   *)
(* its last reader, and the history row agrees with the reply.             *)
(***************************************************************************)
EXTENDS ConvertRequest, TLAPS

\* Ids of the pool start at 1, so 0 is free for "no call yet".
LEMMA ZeroIsNoJob == 0 \notin Jobs /\ 0..MaxJobs = Jobs \cup {0}
BY RunnerAssumption DEF Jobs

USE DEF Go, Settled

\* The parts of the invariant, for one request.
Fine(r) ==
  /\ step[r] \in {"checking", "running", "copying", "recording", "returning"}
       => <<r, "source">> \in spool
  /\ step[r] \in {"copying", "recording", "returning", "sending"}
       => <<r, "output">> \in spool /\ Settled(r, {"result"})
  /\ saver[r] \/ (step[r] = "recording" /\ wantSave[r]) => <<r, "save">> \in spool
  /\ <<r, "source">> \in spool => step[r] \notin {"new", "spooling", "done"}
  /\ <<r, "output">> \in spool => step[r] # "done" \/ ~Settled(r, {"result"})
  /\ <<r, "save">> \in spool => saver[r] \/ step[r] = "recording"
  /\ row[r] = "success" =>
       step[r] \in {"returning", "sending", "done"} /\ reply[r] # "error"
       /\ Settled(r, {"result"})
  /\ row[r] = "error" => reply[r] # "converted" /\ step[r] \in {"throwing", "done"}
  /\ reply[r] = "converted" => Settled(r, {"result"})
  /\ reply[r] # "none" => step[r] \in {"sending", "done"}
  /\ step[r] \in {"new", "spooling", "checking"} => job[r] = 0
  /\ job[r] # 0 => promise[job[r]] # "none"
  /\ job[r] # 0 /\ step[r] # "running" => promise[job[r]] # "waiting"
  /\ Settled(r, {"result"}) => job[r] \in converted
  /\ saver[r] => step[r] \in {"returning", "sending", "done"}
  /\ job[r] \in converted /\ step[r] = "running" => <<r, "output">> \in spool
  /\ step[r] \in {"recordingError", "throwing"} /\ Settled(r, {"result"})
       => <<r, "output">> \notin spool
  /\ job[r] = 0 => <<r, "output">> \notin spool
  /\ step[r] = "sending" => <<r, "source">> \notin spool
  /\ step[r] = "copying" \/ <<r, "save">> \in spool => wantSave[r]

\* No two requests share a call of the pool, and only calls are converted.
OwnCalls ==
  /\ \A r, q \in Request : job[r] # 0 /\ job[q] = job[r] => q = r
  /\ \A j \in converted : promise[j] # "none"

\* The invariant is a statement about each request and OwnCalls.
LEMMA Split == IndInv <=> TypeOK /\ OwnCalls /\ \A r \in Request : Fine(r)
BY DEF IndInv, OwnCalls, Fine, FilesOutliveReaders, FilesHaveOwners,
   HistoryAgreesWithReply, CallsHaveOwners, StepsFollowOutcomes, FilesFollowSteps

\* The same after a step.
LEMMA SplitNext ==
  ASSUME TypeOK', OwnCalls', \A r \in Request : Fine(r)'
  PROVE  IndInv'
BY DEF IndInv, OwnCalls, Fine, FilesOutliveReaders, FilesHaveOwners,
   HistoryAgreesWithReply, CallsHaveOwners, StepsFollowOutcomes, FilesFollowSteps

\* What the handler of one request does leaves the others alone.
Apart(r) ==
  \A q \in Request \ {r} :
    /\ step'[q] = step[q] /\ job'[q] = job[q] /\ wantSave'[q] = wantSave[q]
    /\ row'[q] = row[q] /\ saver'[q] = saver[q] /\ reply'[q] = reply[q]
    /\ \A k \in {"source", "output", "save"} : <<q, k>> \in spool' <=> <<q, k>> \in spool
    /\ job[q] # 0 => /\ promise'[job[q]] = promise[job[q]]
                     /\ job[q] \in converted' <=> job[q] \in converted

\* A request that is left alone stays fine.
LEMMA OthersStayFine ==
  ASSUME IndInv, NEW r \in Request, Apart(r), NEW q \in Request, q # r,
         0 \notin converted'
  PROVE  Fine(q)'
<1>1. Fine(q) /\ 0 \notin converted
  BY Split, ZeroIsNoJob DEF TypeOK
<1>2. job[q] = 0 => ~(job[q] \in converted') /\ ~(job[q] \in converted)
  BY <1>1
<1> QED
  BY <1>1, <1>2 DEF Apart, Fine

\* The initial states are fine.
LEMMA InitStep == Init => IndInv
<1> SUFFICES ASSUME Init PROVE TypeOK /\ OwnCalls /\ \A r \in Request : Fine(r)
  BY Split
<1>1. TypeOK
  BY ZeroIsNoJob DEF Init, RunnerInit, TypeOK, Steps, Promises, File
<1> QED
  BY <1>1, ZeroIsNoJob DEF Init, RunnerInit, OwnCalls, Fine

\* The steps of the handler that do not call the pool.
Local(r) ==
  \/ Receive(r) \/ Spool(r) \/ Refuse(r) \/ Resume(r) \/ Copy(r)
  \/ RecordSuccess(r) \/ DropOutput(r) \/ RecordError(r) \/ Finish(r)
  \/ Release(r) \/ PersistEnd(r)

\* Such a step changes the request it is about and no other, and neither the
\* request's call nor the pool.
LEMMA LocalFrame ==
  ASSUME IndInv, NEW r \in Request, Local(r)
  PROVE  TypeOK' /\ Apart(r) /\ UNCHANGED <<job, wantSave, runnerVars>>
<1>1. CASE Receive(r) \/ Spool(r) \/ Refuse(r)
  BY <1>1 DEF Receive, Spool, Refuse, IndInv, TypeOK, Apart, Steps, File, runnerVars
<1>2. CASE Resume(r) \/ Copy(r)
  BY <1>2 DEF Resume, Copy, IndInv, TypeOK, Apart, Steps, File, runnerVars
<1>3. CASE RecordSuccess(r)
  BY <1>3 DEF RecordSuccess, IndInv, TypeOK, Apart, Steps, File, runnerVars
<1>4. CASE DropOutput(r) \/ RecordError(r)
  BY <1>4 DEF DropOutput, RecordError, IndInv, TypeOK, Apart, Steps, File, runnerVars
<1>5. CASE Finish(r)
  BY <1>5 DEF Finish, IndInv, TypeOK, Apart, Steps, File, runnerVars
<1>6. CASE Release(r) \/ PersistEnd(r)
  BY <1>6 DEF Release, PersistEnd, IndInv, TypeOK, Apart, Steps, File, runnerVars
<1> QED
  BY <1>1, <1>2, <1>3, <1>4, <1>5, <1>6 DEF Local

\* Each step of the handler leaves its own request fine.
LEMMA LocalStep ==
  ASSUME IndInv, NEW r \in Request, Local(r)
  PROVE  Fine(r)'
<1>1. Fine(r) /\ TypeOK
  BY Split
<1>2. UNCHANGED <<job, wantSave, promise, converted>>
  BY LocalFrame DEF runnerVars
<1>3. job[r] # 0 => promise[job[r]] \in Promises
  BY <1>1, ZeroIsNoJob DEF TypeOK
<1>4. CASE Receive(r)
  BY <1>1, <1>2, <1>4 DEF Receive, Fine, TypeOK
<1>5. CASE Spool(r)
  BY <1>1, <1>2, <1>5 DEF Spool, Fine, TypeOK
<1>6. CASE Refuse(r)
  BY <1>1, <1>2, <1>6 DEF Refuse, Fine, TypeOK
<1>7. CASE Resume(r)
  BY <1>1, <1>2, <1>3, <1>7 DEF Resume, Fine, TypeOK, Promises, Outcomes
<1>8. CASE Copy(r)
  BY <1>1, <1>2, <1>8 DEF Copy, Fine, TypeOK
<1>9. CASE RecordSuccess(r)
  <2>1. /\ step[r] = "recording" /\ step'[r] = "returning"
        /\ \/ saver'[r] = wantSave[r] /\ spool' = spool
           \/ saver'[r] = saver[r] /\ spool' = spool \ {<<r, "save">>}
        /\ row'[r] \in {row[r], "success"}
        /\ reply' = reply
    BY <1>1, <1>9 DEF RecordSuccess, TypeOK
  <2>2. reply[r] = "none" /\ row[r] = "none" /\ ~saver[r]
    BY <1>1, <2>1 DEF Fine, TypeOK
  <2>3. CASE saver'[r] = wantSave[r] /\ spool' = spool
    BY <1>1, <1>2, <2>1, <2>2, <2>3 DEF Fine, TypeOK
  <2>4. CASE saver'[r] = saver[r] /\ spool' = spool \ {<<r, "save">>}
    BY <1>1, <1>2, <2>1, <2>2, <2>4 DEF Fine, TypeOK
  <2> QED
    BY <2>1, <2>3, <2>4
<1>10. CASE DropOutput(r)
  BY <1>1, <1>2, <1>10 DEF DropOutput, Fine, TypeOK
<1>11. CASE RecordError(r)
  BY <1>1, <1>2, <1>11 DEF RecordError, Fine, TypeOK
<1>12. CASE Finish(r)
  BY <1>1, <1>2, <1>12 DEF Finish, Fine, TypeOK
<1>13. CASE Release(r)
  BY <1>1, <1>2, <1>13 DEF Release, Fine, TypeOK
<1>14. CASE PersistEnd(r)
  BY <1>1, <1>2, <1>14 DEF PersistEnd, Fine, TypeOK
<1> QED
  BY <1>4, <1>5, <1>6, <1>7, <1>8, <1>9, <1>10, <1>11, <1>12, <1>13, <1>14
  DEF Local

\* A local step preserves the invariant.
LEMMA LocalInvariance ==
  ASSUME IndInv, NEW r \in Request, Local(r)
  PROVE  IndInv'
<1>1. TypeOK' /\ Apart(r) /\ UNCHANGED <<job, wantSave, runnerVars>>
  BY LocalFrame
<1>2. 0 \notin converted'
  BY <1>1, ZeroIsNoJob DEF TypeOK
<1>3. \A q \in Request : Fine(q)'
  BY <1>1, <1>2, LocalStep, OthersStayFine
<1>4. OwnCalls'
  BY <1>1, Split DEF OwnCalls, runnerVars
<1> QED
  BY <1>1, <1>3, <1>4, SplitNext

\* Submitting a request takes a call no other request has.
LEMMA SubmitStep ==
  ASSUME IndInv, NEW r \in Request, Submit(r)
  PROVE  IndInv'
<1>1. TypeOK /\ OwnCalls /\ \A q \in Request : Fine(q)
  BY Split
<1>2. PICK j \in Jobs : Accept(j) /\ job' = [job EXCEPT ![r] = j]
  BY DEF Submit
<1>3. j # 0 /\ j \in 0..MaxJobs /\ promise[j] = "none"
  BY <1>2, ZeroIsNoJob DEF Accept
<1>4. \A q \in Request : job[q] # j
  BY <1>1, <1>3 DEF Fine
<1>5. /\ step[r] = "checking" /\ job[r] = 0
      /\ step' = [step EXCEPT ![r] = "running"]
      /\ promise' = [promise EXCEPT ![j] = "waiting"]
      /\ UNCHANGED <<wantSave, spool, row, saver, reply, converted, accepting>>
  BY <1>1, <1>2 DEF Submit, Accept, Fine
<1>6. TypeOK'
  BY <1>1, <1>2, <1>3, <1>5 DEF TypeOK, Steps, Promises
<1>7. Apart(r)
  BY <1>1, <1>2, <1>4, <1>5, ZeroIsNoJob DEF Apart, TypeOK
<1>8. j \notin converted
  BY <1>1, <1>3 DEF OwnCalls
<1>9. Fine(r)'
  BY <1>1, <1>2, <1>3, <1>5, <1>8 DEF Fine, TypeOK
<1>10. OwnCalls'
  BY <1>1, <1>2, <1>3, <1>4, <1>5 DEF OwnCalls, TypeOK, Promises
<1>11. 0 \notin converted'
  BY <1>6, ZeroIsNoJob DEF TypeOK
<1> QED
  BY <1>6, <1>7, <1>9, <1>10, <1>11, OthersStayFine, SplitNext

\* A thread writes only for a request whose result is not yet known.
LEMMA WorkerWriteStep ==
  ASSUME IndInv, NEW r \in Request, WorkerWrite(r)
  PROVE  IndInv'
<1>1. TypeOK /\ OwnCalls /\ Fine(r)
  BY Split
<1>2. TypeOK' /\ Apart(r)
  BY <1>1 DEF WorkerWrite, TypeOK, File, Apart, runnerVars
<1>3. Fine(r)'
  BY <1>1 DEF WorkerWrite, Fine, runnerVars
<1>4. OwnCalls' /\ 0 \notin converted'
  BY <1>1, ZeroIsNoJob DEF WorkerWrite, OwnCalls, TypeOK, runnerVars
<1> QED
  BY <1>2, <1>3, <1>4, OthersStayFine, SplitNext

\* A report, or an outcome, of a call concerns the one request that owns it.
LEMMA PoolStep ==
  ASSUME IndInv, NEW r \in Request, WorkerReport(r) \/ PoolSettle(r)
  PROVE  IndInv'
<1>1. TypeOK /\ OwnCalls /\ Fine(r)
  BY Split
<1>2. job[r] # 0 /\ job[r] \in Jobs
  BY <1>1, ZeroIsNoJob DEF WorkerReport, PoolSettle, TypeOK
<1>3. UNCHANGED <<step, job, wantSave, spool, row, saver, reply, accepting>>
  BY DEF WorkerReport, PoolSettle, Convert, Settle, requestVars
<1>4. CASE WorkerReport(r)
  <2>1. /\ converted' = converted \cup {job[r]} /\ promise' = promise
        /\ <<r, "output">> \in spool
    BY <1>4 DEF WorkerReport, Convert
  <2>2. TypeOK' /\ OwnCalls' /\ Apart(r) /\ Fine(r)'
    BY <1>1, <1>2, <1>3, <2>1, ZeroIsNoJob DEF TypeOK, OwnCalls, Apart, Fine
  <2> QED
    BY <2>2, OthersStayFine, SplitNext, ZeroIsNoJob DEF TypeOK
<1>5. CASE PoolSettle(r)
  <2>1. PICK o \in Outcomes : Settle(job[r], o)
    BY <1>5 DEF PoolSettle
  <2>2. /\ promise[job[r]] = "waiting" /\ promise' = [promise EXCEPT ![job[r]] = o]
        /\ o = "result" => job[r] \in converted
        /\ converted' = converted
        /\ o \in Promises \ {"none", "waiting"}
    BY <2>1 DEF Settle, Promises, Outcomes
  <2>3. step[r] = "running"
    BY <1>1, <1>2, <2>2 DEF Fine
  <2>4. promise'[job[r]] = o
    BY <1>1, <1>2, <2>2 DEF TypeOK
  <2>5. TypeOK' /\ OwnCalls'
    BY <1>1, <1>3, <2>2 DEF TypeOK, OwnCalls
  <2>6. Apart(r)
    BY <1>1, <1>2, <1>3, <2>2, ZeroIsNoJob DEF TypeOK, OwnCalls, Apart
  <2>7. Fine(r)'
    BY <1>1, <1>2, <1>3, <2>2, <2>3, <2>4 DEF Fine
  <2> QED
    BY <2>5, <2>6, <2>7, OthersStayFine, SplitNext, ZeroIsNoJob DEF TypeOK
<1> QED
  BY <1>4, <1>5

\* Closing the pool, or doing nothing, changes nothing the invariant is about.
LEMMA IdleStep ==
  ASSUME IndInv, PoolClose \/ UNCHANGED vars
  PROVE  IndInv'
<1>1. UNCHANGED <<requestVars, promise, converted>> /\ accepting' \in BOOLEAN
  BY DEF PoolClose, Close, vars, runnerVars, IndInv, TypeOK
<1>2. TypeOK /\ OwnCalls /\ \A q \in Request : Fine(q)
  BY Split
<1>3. TypeOK' /\ OwnCalls'
  BY <1>1, <1>2 DEF requestVars, TypeOK, OwnCalls
<1>4. ASSUME NEW q \in Request PROVE Fine(q)'
  <2>1. Fine(q)
    BY <1>2
  <2> QED
    BY <1>1, <2>1 DEF requestVars, Fine
<1> QED
  BY <1>3, <1>4, SplitNext

\* IndInv holds in every reachable state of the request handlers.
THEOREM Invariance == Spec => []IndInv
<1>1. IndInv /\ [Next]_vars => IndInv'
  <2> SUFFICES ASSUME IndInv, [Next]_vars PROVE IndInv'
    OBVIOUS
  <2>1. ASSUME NEW r \in Request, Receive(r) PROVE IndInv'
    BY <2>1, LocalInvariance DEF Local
  <2>2. ASSUME NEW r \in Request, Handler(r) PROVE IndInv'
    BY <2>2, LocalInvariance, SubmitStep DEF Handler, Local
  <2>3. ASSUME NEW r \in Request, PersistEnd(r) PROVE IndInv'
    BY <2>3, LocalInvariance DEF Local
  <2>4. ASSUME NEW r \in Request, WorkerWrite(r) PROVE IndInv'
    BY <2>4, WorkerWriteStep
  <2>5. ASSUME NEW r \in Request, WorkerReport(r) \/ PoolSettle(r) PROVE IndInv'
    BY <2>5, PoolStep
  <2>6. CASE PoolClose \/ UNCHANGED vars
    BY <2>6, IdleStep
  <2> QED
    BY <2>1, <2>2, <2>3, <2>4, <2>5, <2>6 DEF Next
<1> QED
  BY <1>1, InitStep, PTL DEF Spec

\* Every variable keeps its type.
THEOREM TypeCorrect == Spec => []TypeOK
BY Invariance, PTL DEF IndInv

\* No spool file is removed while its reader still needs it.
THEOREM ReadersFindTheirFiles == Spec => []FilesOutliveReaders
BY Invariance, PTL DEF IndInv

\* No spool file is left once nobody can read it any more, but the outputs
\* written for callers that had already been rejected.
THEOREM NoFileIsForgotten == Spec => []FilesHaveOwners
BY Invariance, PTL DEF IndInv

\* History rows and replies never contradict each other.
THEOREM HistoryIsTrue == Spec => []HistoryAgreesWithReply
BY Invariance, PTL DEF IndInv

\* The handlers use the pool only as ConversionRunner allows: whatever they do
\* with rows and files between two awaits, to the pool it is a call of run(),
\* the end of one, or nothing.  So the pool, which implements ConversionRunner,
\* can take its place in the proofs above.
THEOREM RequestsRespectRunner == Spec => RunnerSafety
<1>1. Init => RunnerInit
  BY DEF Init
<1>2. IndInv /\ [Next]_vars => [RunnerNext]_runnerVars
  <2> SUFFICES ASSUME IndInv, [Next]_vars PROVE [RunnerNext]_runnerVars
    OBVIOUS
  <2>1. CASE \E r \in Request :
               \/ Receive(r) \/ PersistEnd(r) \/ WorkerWrite(r)
               \/ Spool(r) \/ Refuse(r) \/ Resume(r) \/ Copy(r) \/ RecordSuccess(r)
               \/ DropOutput(r) \/ RecordError(r) \/ Finish(r) \/ Release(r)
    BY <2>1 DEF Receive, PersistEnd, WorkerWrite, Spool, Refuse, Resume, Copy,
       RecordSuccess, DropOutput, RecordError, Finish, Release
  <2>2. ASSUME NEW r \in Request, Submit(r) PROVE RunnerNext
    BY <2>2 DEF Submit, RunnerNext
  <2>3. ASSUME NEW r \in Request, WorkerReport(r) \/ PoolSettle(r) PROVE RunnerNext
    <3>1. job[r] \in Jobs
      BY <2>3, ZeroIsNoJob DEF WorkerReport, PoolSettle, IndInv, TypeOK
    <3> QED
      BY <2>3, <3>1 DEF WorkerReport, PoolSettle, RunnerNext
  <2>4. CASE PoolClose \/ UNCHANGED vars
    BY <2>4 DEF PoolClose, RunnerNext, vars
  <2> QED
    BY <2>1, <2>2, <2>3, <2>4 DEF Next, Handler
<1> QED
  BY <1>1, <1>2, Invariance, PTL DEF Spec, RunnerSafety
=============================================================================
