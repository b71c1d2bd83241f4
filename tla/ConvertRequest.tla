--------------------------- MODULE ConvertRequest ---------------------------
(***************************************************************************)
(* A POST to /convert or /images/convert: ConvertService.convert and       *)
(* ImageConvertService.convert (the same control in both), the controller  *)
(* in front of them and sendAttachment behind them.  Each await ends an    *)
(* action.  The conversion itself is a call of the abstract pool,          *)
(* ConversionRunner, whose steps are conjoined here with what they do to   *)
(* the spool directory; a saved result is uploaded in the background       *)
(* after the reply (TransformationHistoryService.persist, detailed in      *)
(* TransformationHistory).                                                 *)
(***************************************************************************)
EXTENDS ConversionRunner

CONSTANT Request

VARIABLES
  step,      \* where the handler of the request is
  job,       \* id its run() got from the pool, 0 before
  wantSave,  \* trace.save
  spool,     \* files in the spool directory
  row,       \* the transformation_history row of the request
  saver,     \* the background save is running
  reply

requestVars == <<step, job, wantSave, spool, row, saver, reply>>
vars        == <<requestVars, runnerVars>>

Steps == {"new", "spooling", "checking", "running", "copying", "recording",
          "failing", "recordingError", "returning", "throwing", "sending",
          "done"}
File  == Request \X {"source", "output", "save"}

TypeOK ==
  /\ step \in [Request -> Steps]
  /\ job \in [Request -> 0..MaxJobs]
  /\ wantSave \in [Request -> BOOLEAN]
  /\ spool \in SUBSET File
  /\ row \in [Request -> {"none", "success", "error"}]
  /\ saver \in [Request -> BOOLEAN]
  /\ reply \in [Request -> {"none", "converted", "error"}]
  /\ promise \in [Jobs -> Promises]
  /\ converted \in SUBSET Jobs
  /\ accepting \in BOOLEAN

Init ==
  /\ step = [r \in Request |-> "new"]
  /\ job = [r \in Request |-> 0]
  /\ wantSave \in [Request -> BOOLEAN]
  /\ spool = {}
  /\ row = [r \in Request |-> "none"]
  /\ saver = [r \in Request |-> FALSE]
  /\ reply = [r \in Request |-> "none"]
  /\ RunnerInit

Go(r, from, to) == step[r] = from /\ step' = [step EXCEPT ![r] = to]

\* What a job the pool knows about has come to.
Settled(r, outcomes) == job[r] # 0 /\ promise[job[r]] \in outcomes

-----------------------------------------------------------------------------
(* The handler.                                                            *)

\* request.file() and the test of the field name: a part, no part (`null` is
\* passed on and rejected inside the service), or an exception that leaves
\* the controller before the service is called.
Receive(r) ==
  /\ \/ Go(r, "new", "spooling") /\ UNCHANGED reply
     \/ Go(r, "new", "failing") /\ UNCHANGED reply
     \/ Go(r, "new", "done") /\ reply' = [reply EXCEPT ![r] = "error"]
  /\ UNCHANGED <<job, wantSave, spool, row, saver, runnerVars>>

\* spoolStream: a failed pipeline removes what it wrote.
Spool(r) ==
  /\ \/ Go(r, "spooling", "checking") /\ spool' = spool \cup {<<r, "source">>}
     \/ Go(r, "spooling", "failing") /\ UNCHANGED spool
  /\ UNCHANGED <<job, wantSave, row, saver, reply, runnerVars>>

\* Target format, save flag, size, source format, pair and options: one of
\* them is refused, or the pool is closed and run() rejects.
Refuse(r) ==
  /\ Go(r, "checking", "failing")
  /\ UNCHANGED <<job, wantSave, spool, row, saver, reply, runnerVars>>

Submit(r) ==
  /\ Go(r, "checking", "running")
  /\ \E j \in Jobs : Accept(j) /\ job' = [job EXCEPT ![r] = j]
  /\ UNCHANGED <<wantSave, spool, row, saver, reply>>

\* Fault: a job lost with its worker is not awaited properly.
ResumeUnlessLost(r) ==
  /\ \/ Settled(r, {"result"}) /\ wantSave[r] /\ Go(r, "running", "copying")
     \/ Settled(r, {"result"}) /\ ~wantSave[r] /\ Go(r, "running", "recording")
     \/ Settled(r, {"failed", "timeout"}) /\ Go(r, "running", "failing")
  /\ UNCHANGED <<job, wantSave, spool, row, saver, reply, runnerVars>>

\* withTimeout(run(...)) settles.  The outer timer is armed after the pool's
\* own with the same delay and can only repeat its CONVERSION_TIMEOUT.
Resume(r) ==
  /\ \/ Settled(r, {"result"}) /\ wantSave[r] /\ Go(r, "running", "copying")
     \/ Settled(r, {"result"}) /\ ~wantSave[r] /\ Go(r, "running", "recording")
     \/ Settled(r, Outcomes \ {"result"}) /\ Go(r, "running", "failing")
  /\ UNCHANGED <<job, wantSave, spool, row, saver, reply, runnerVars>>

\* copyFile(output, output.save); libuv unlinks a copy that failed.
Copy(r) ==
  /\ \/ Go(r, "copying", "recording") /\ spool' = spool \cup {<<r, "save">>}
     \/ Go(r, "copying", "failing") /\ UNCHANGED spool
  /\ UNCHANGED <<job, wantSave, row, saver, reply, runnerVars>>

\* Fault: no return after startSave, the copy is removed at once.
RecordSuccessFallsThrough(r) ==
  /\ Go(r, "recording", "returning")
  /\ \/ /\ row' = [row EXCEPT ![r] = "success"]
        /\ saver' = [saver EXCEPT ![r] = wantSave[r]]
     \/ /\ row' \in {row, [row EXCEPT ![r] = "success"]}
        /\ UNCHANGED saver
  /\ spool' = spool \ {<<r, "save">>}
  /\ UNCHANGED <<job, wantSave, reply, runnerVars>>

\* Fault: remember() lets the exception of record() through.
RecordSuccessThrows(r) ==
  /\ \/ /\ Go(r, "recording", "returning")
        /\ row' = [row EXCEPT ![r] = "success"]
        /\ saver' = [saver EXCEPT ![r] = wantSave[r]]
        /\ UNCHANGED spool
     \/ /\ Go(r, "recording", "failing")
        /\ row' \in {row, [row EXCEPT ![r] = "success"]}
        /\ spool' = spool \ {<<r, "save">>}
        /\ UNCHANGED saver
  /\ UNCHANGED <<job, wantSave, reply, runnerVars>>

\* remember(success): the row is written and, with `save`, startSave takes
\* the copy over; when record() throws (the row may be there all the same, its
\* answer lost), the copy is removed and the conversion goes on.
RecordSuccess(r) ==
  /\ Go(r, "recording", "returning")
  /\ \/ /\ row' = [row EXCEPT ![r] = "success"]
        /\ saver' = [saver EXCEPT ![r] = wantSave[r]]
        /\ UNCHANGED spool
     \/ /\ row' \in {row, [row EXCEPT ![r] = "success"]}
        /\ spool' = spool \ {<<r, "save">>}
        /\ UNCHANGED saver
  /\ UNCHANGED <<job, wantSave, reply, runnerVars>>

\* Fault: the catch block does not remove the output.
DropNothing(r) ==
  /\ Go(r, "failing", "recordingError")
  /\ UNCHANGED <<job, wantSave, spool, row, saver, reply, runnerVars>>

\* The catch block: outputPath is set only once the conversion returned.
DropOutput(r) ==
  /\ Go(r, "failing", "recordingError")
  /\ spool' = IF Settled(r, {"result"}) THEN spool \ {<<r, "output">>} ELSE spool
  /\ UNCHANGED <<job, wantSave, row, saver, reply, runnerVars>>

RecordError(r) ==
  /\ Go(r, "recordingError", "throwing")
  /\ row' \in {row, [row EXCEPT ![r] = "error"]}
  /\ UNCHANGED <<job, wantSave, spool, saver, reply, runnerVars>>

\* Fault: what the pool answered is sent, a conversion that failed as well.
FinishSendsOutcome(r) ==
  /\ \/ Go(r, "returning", "sending")
        /\ reply' = [reply EXCEPT ![r] = "converted"]
     \/ Go(r, "throwing", "done")
        /\ reply' = [reply EXCEPT ![r] =
                       IF job[r] = 0 THEN "error" ELSE promise[job[r]]]
  /\ spool' = spool \ {<<r, "source">>}
  /\ UNCHANGED <<job, wantSave, row, saver, runnerVars>>

\* The finally block, then the controller: sendAttachment or the error.
Finish(r) ==
  /\ \/ Go(r, "returning", "sending")
        /\ reply' = [reply EXCEPT ![r] = "converted"]
     \/ Go(r, "throwing", "done")
        /\ reply' = [reply EXCEPT ![r] = "error"]
  /\ spool' = spool \ {<<r, "source">>}
  /\ UNCHANGED <<job, wantSave, row, saver, runnerVars>>

\* Fault: the file is not removed when the response stream closes.
ReleaseKeepsFile(r) ==
  /\ Go(r, "sending", "done")
  /\ UNCHANGED <<job, wantSave, spool, row, saver, reply, runnerVars>>

\* The stream of the response closes or fails: rmSync.
Release(r) ==
  /\ Go(r, "sending", "done")
  /\ spool' = spool \ {<<r, "output">>}
  /\ UNCHANGED <<job, wantSave, row, saver, reply, runnerVars>>

\* persist() ends, with or without success: its finally removes the copy.
PersistEnd(r) ==
  /\ saver[r]
  /\ saver' = [saver EXCEPT ![r] = FALSE]
  /\ spool' = spool \ {<<r, "save">>}
  /\ UNCHANGED <<step, job, wantSave, row, reply, runnerVars>>

-----------------------------------------------------------------------------
(* The pool and its worker threads.                                        *)

\* A thread writes the output file: writeBufferFile, or toFile of an image.
\* It does not know whether the caller still waits.
WorkerWrite(r) ==
  /\ job[r] # 0 /\ job[r] \notin converted
  /\ spool' = spool \cup {<<r, "output">>}
  /\ UNCHANGED <<step, job, wantSave, row, saver, reply, runnerVars>>

\* Its answer reports the file, which is complete.
WorkerReport(r) ==
  /\ job[r] # 0
  /\ <<r, "output">> \in spool
  /\ Convert(job[r])
  /\ UNCHANGED requestVars

PoolSettle(r) ==
  /\ job[r] # 0
  /\ \E o \in Outcomes : Settle(job[r], o)
  /\ UNCHANGED requestVars

PoolClose == Close /\ UNCHANGED requestVars

\* The handler once the request is in.
Handler(r) ==
  \/ Spool(r) \/ Refuse(r) \/ Submit(r) \/ Resume(r) \/ Copy(r)
  \/ RecordSuccess(r) \/ DropOutput(r) \/ RecordError(r) \/ Finish(r)
  \/ Release(r)

Next ==
  \/ \E r \in Request : Receive(r)
  \/ \E r \in Request : Handler(r)
  \/ \E r \in Request : PersistEnd(r)
  \/ \E r \in Request : WorkerWrite(r)
  \/ \E r \in Request : WorkerReport(r)
  \/ \E r \in Request : PoolSettle(r)
  \/ PoolClose

\* Each await of the handler ends (disk, database, response stream), persist()
\* ends, and the pool keeps the liveness ConversionRunner promises.
Fairness ==
  \A r \in Request :
    WF_vars(Handler(r)) /\ WF_vars(PersistEnd(r)) /\ WF_vars(PoolSettle(r))

Spec == Init /\ [][Next]_vars /\ Fairness

-----------------------------------------------------------------------------
(* Properties.                                                             *)

\* No file is removed under a reader: the source while the conversion is
\* awaited, the output until the response stream is closed, the copy until
\* the background upload is over.
FilesOutliveReaders ==
  \A r \in Request :
    /\ step[r] = "checking" => <<r, "source">> \in spool
    /\ step[r] = "running" /\ Settled(r, {"waiting"}) => <<r, "source">> \in spool
    /\ step[r] \in {"copying", "recording", "returning", "sending"}
         => <<r, "output">> \in spool
    /\ saver[r] \/ (step[r] = "recording" /\ wantSave[r])
         => <<r, "save">> \in spool

\* No file outlives its last reader, with one exception the code has: the
\* output of a conversion whose caller was rejected belongs to nobody.
FilesHaveOwners ==
  \A r \in Request :
    /\ <<r, "source">> \in spool => step[r] \notin {"new", "spooling", "done"}
    /\ <<r, "output">> \in spool =>
         step[r] # "done" \/ ~Settled(r, {"result"})
    /\ <<r, "save">> \in spool => saver[r] \/ step[r] = "recording"

\* What the history says of a request is what its caller was told: a success
\* row is only written for a converted file that is then returned, an error
\* row only for a request that ends in an error.
HistoryAgreesWithReply ==
  \A r \in Request :
    /\ row[r] = "success" =>
         step[r] \in {"returning", "sending", "done"} /\ reply[r] # "error"
         /\ Settled(r, {"result"})
    /\ row[r] = "error" => reply[r] # "converted"
    /\ reply[r] = "converted" => Settled(r, {"result"})

\* The rest of the inductive invariant: which request a call of the pool belongs
\* to, what the handler knows of it at each step, and where the files are.
CallsHaveOwners ==
  /\ \A j \in converted : promise[j] # "none"
  /\ \A r \in Request :
       /\ step[r] \in {"new", "spooling", "checking"} => job[r] = 0
       /\ job[r] # 0 => promise[job[r]] # "none"
       /\ job[r] # 0 /\ step[r] # "running" => promise[job[r]] # "waiting"
       /\ \A q \in Request : job[r] # 0 /\ job[q] = job[r] => q = r

StepsFollowOutcomes ==
  \A r \in Request :
    /\ Settled(r, {"result"}) => job[r] \in converted
    /\ step[r] \in {"copying", "recording", "returning", "sending"}
         => Settled(r, {"result"})
    /\ reply[r] # "none" => step[r] \in {"sending", "done"}
    /\ row[r] = "error" => step[r] \in {"throwing", "done"}
    /\ saver[r] => step[r] \in {"returning", "sending", "done"}

FilesFollowSteps ==
  \A r \in Request :
    /\ step[r] \in {"checking", "running", "copying", "recording", "returning"}
         => <<r, "source">> \in spool
    /\ job[r] \in converted /\ step[r] = "running" => <<r, "output">> \in spool
    /\ step[r] \in {"recordingError", "throwing"} /\ Settled(r, {"result"})
         => <<r, "output">> \notin spool
    /\ job[r] = 0 => <<r, "output">> \notin spool
    /\ step[r] = "sending" => <<r, "source">> \notin spool
    /\ step[r] = "copying" \/ <<r, "save">> \in spool => wantSave[r]

IndInv ==
  /\ TypeOK /\ FilesOutliveReaders /\ FilesHaveOwners /\ HistoryAgreesWithReply
  /\ CallsHaveOwners /\ StepsFollowOutcomes /\ FilesFollowSteps

\* Every request ends, whatever the pool, the disk and the database do.
EveryRequestEnds == \A r \in Request : step[r] # "new" ~> step[r] = "done"

\* Once a result was returned, its source, output and copy are all removed.
ReturnedFilesGo ==
  \A r \in Request :
    step[r] = "sending" ~> \A k \in {"source", "output", "save"} : <<r, k>> \notin spool

\* README: "If saving fails, the converted file is still returned".
ConvertedIsReturned ==
  \A r \in Request : Settled(r, {"result"}) => reply[r] # "error"
=============================================================================
