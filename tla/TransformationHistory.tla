------------------------ MODULE TransformationHistory -----------------------
(***************************************************************************)
(* modules/transformations: the rows of transformation_history, the saved  *)
(* results in the bucket, and the audit of saves.  A save runs in the      *)
(* background (persist: bucket, then row, then audit); an hourly sweep     *)
(* (removeExpired: bucket, then row) removes what has expired; deleting a  *)
(* user cascades to the rows in the database.  Each await is a step, each  *)
(* call of the database or the bucket may fail, with or without its effect *)
(* (the answer is lost), and the process may crash between any two steps.  *)
(*                                                                         *)
(* Rows are numbered in the order they are written, which is the order of  *)
(* expires_at since the retention period is one constant.                  *)
(***************************************************************************)
EXTENDS Naturals, FiniteSets

CONSTANTS
  MaxRows,     \* bound: rows ever written
  User,
  Sweep,       \* runs of removeExpired that may overlap: @Cron does not wait
  BatchSize,   \* `take` of a sweep (100 in the code)
  MaxBatches,  \* rounds of a sweep (20 in the code)
  Stuck,       \* rows whose stored object can never be deleted
  MaxCrashes   \* bound: restarts of the process

Rows == 1..MaxRows

ASSUME HistoryAssumption ==
  /\ MaxRows \in Nat /\ MaxCrashes \in Nat
  /\ BatchSize \in Nat \ {0} /\ MaxBatches \in Nat \ {0}
  /\ Stuck \subseteq Rows

VARIABLES
  users,    \* rows of the table users
  nextRow,
  row,      \* row[i]: "none", "live" or "gone"
  owner,    \* owner[i]: its user_id
  keyed,    \* keyed[i]: storage_key is set
  expired,  \* expires_at is in the past
  object,   \* results present in the bucket
  saver,    \* where persist() of a row is
  audits,   \* save audits written: <<row, result>>
  round,    \* round[s]: batch number of sweep s, 0 when it is not running
  batch,    \* batch[s]: rows it read and has not handled
  todo,     \* todo[s]: those whose storageKey, as read, is still to delete
  crashes

bucketVars == <<object, saver, audits>>
sweepVars  == <<round, batch, todo>>
rowVars    == <<users, nextRow, row, owner, keyed, expired>>
vars       == <<rowVars, bucketVars, sweepVars, crashes>>

TypeOK ==
  /\ users \in SUBSET User
  /\ nextRow \in 1..(MaxRows + 1)
  /\ row \in [Rows -> {"none", "live", "gone"}]
  /\ owner \in [1..(nextRow - 1) -> User]
  /\ keyed \in [Rows -> BOOLEAN]
  /\ expired \in [Rows -> BOOLEAN]
  /\ object \in SUBSET Rows
  /\ saver \in [Rows -> {"off", "put", "update", "success", "error"}]
  /\ audits \in SUBSET (Rows \X {"success", "error"})
  /\ round \in [Sweep -> 0..MaxBatches]
  /\ batch \in [Sweep -> SUBSET Rows]
  /\ todo \in [Sweep -> SUBSET Rows]
  /\ crashes \in 0..MaxCrashes

Init ==
  /\ users = User
  /\ nextRow = 1
  /\ row = [i \in Rows |-> "none"]
  /\ owner \in [1..0 -> User]
  /\ keyed = [i \in Rows |-> FALSE]
  /\ expired = [i \in Rows |-> FALSE]
  /\ object = {} /\ audits = {}
  /\ saver = [i \in Rows |-> "off"]
  /\ round = [s \in Sweep |-> 0]
  /\ batch = [s \in Sweep |-> {}]
  /\ todo = [s \in Sweep |-> {}]
  /\ crashes = 0

-----------------------------------------------------------------------------
(* record() and the background save.                                       *)

\* A row can only be written for a user who still exists (foreign key).
Record(u, save) ==
  /\ nextRow \in Rows
  /\ u \in users
  /\ nextRow' = nextRow + 1
  /\ row' = [row EXCEPT ![nextRow] = "live"]
  /\ owner' = [i \in 1..nextRow |-> IF i = nextRow THEN u ELSE owner[i]]
  /\ saver' = [saver EXCEPT ![nextRow] = IF save THEN "put" ELSE "off"]
  /\ UNCHANGED <<users, keyed, expired, object, audits, sweepVars, crashes>>

\* Fault: the failure of putObject is swallowed.
PutObjectUnchecked(i) ==
  /\ saver[i] = "put"
  /\ object' \in {object, object \cup {i}}
  /\ saver' = [saver EXCEPT ![i] = "update"]
  /\ UNCHANGED <<rowVars, audits, sweepVars, crashes>>

\* putObject: false error answers included, so the object may be there.
PutObject(i) ==
  /\ saver[i] = "put"
  /\ \/ object' = object \cup {i} /\ saver' = [saver EXCEPT ![i] = "update"]
     \/ object' \in {object, object \cup {i}}
        /\ saver' = [saver EXCEPT ![i] = "error"]
  /\ UNCHANGED <<rowVars, audits, sweepVars, crashes>>

\* Fault: the failure of the update is swallowed.
UpdateRowUnchecked(i) ==
  /\ saver[i] = "update"
  /\ keyed' \in {keyed, [keyed EXCEPT ![i] = @ \/ row[i] = "live"]}
  /\ saver' = [saver EXCEPT ![i] = "success"]
  /\ UNCHANGED <<users, nextRow, row, owner, expired, object, audits,
                 sweepVars, crashes>>

\* history.update: no error when the row is not there any more.
UpdateRow(i) ==
  /\ saver[i] = "update"
  /\ \/ /\ keyed' = [keyed EXCEPT ![i] = @ \/ row[i] = "live"]
        /\ saver' = [saver EXCEPT ![i] = "success"]
     \/ /\ keyed' \in {keyed, [keyed EXCEPT ![i] = @ \/ row[i] = "live"]}
        /\ saver' = [saver EXCEPT ![i] = "error"]
  /\ UNCHANGED <<users, nextRow, row, owner, expired, object, audits,
                 sweepVars, crashes>>

\* audit.record: a failure after a successful save is audited as an error.
AuditSave(i) ==
  /\ saver[i] \in {"success", "error"}
  /\ \/ /\ audits' = audits \cup {<<i, saver[i]>>}
        /\ saver' = [saver EXCEPT ![i] = "off"]
     \/ /\ audits' \in {audits, audits \cup {<<i, saver[i]>>}}
        /\ saver' = [saver EXCEPT ![i] = IF @ = "success" THEN "error" ELSE "off"]
  /\ UNCHANGED <<rowVars, object, sweepVars, crashes>>

-----------------------------------------------------------------------------
(* removeExpired().                                                        *)

\* The retention period is at least a day: the save of a row is over, or was
\* cut off by a crash, before the row expires.
Expire(i) ==
  /\ row[i] = "live" /\ ~expired[i]
  /\ saver[i] = "off"
  /\ \A k \in Rows : k < i => row[k] # "live" \/ expired[k]
  /\ expired' = [expired EXCEPT ![i] = TRUE]
  /\ UNCHANGED <<users, nextRow, row, owner, keyed, bucketVars, sweepVars, crashes>>

\* Fault: the oldest rows, expired or not.
OldestAny == LET due == {i \in Rows : row[i] = "live"} IN
             {i \in due : Cardinality({k \in due : k < i}) < BatchSize}

\* find: the BatchSize oldest expired rows.
Oldest == LET due == {i \in Rows : row[i] = "live" /\ expired[i]} IN
          {i \in due : Cardinality({k \in due : k < i}) < BatchSize}

FindBatch(s) ==
  /\ batch[s] = {}
  /\ LET more == Oldest # {} /\ round[s] < MaxBatches IN
     /\ round' = [round EXCEPT ![s] = IF more THEN @ + 1 ELSE 0]
     /\ batch' = [batch EXCEPT ![s] = IF more THEN Oldest ELSE {}]
     /\ todo' = [todo EXCEPT ![s] = IF more THEN {i \in Oldest : keyed[i]} ELSE {}]
  /\ UNCHANGED <<rowVars, bucketVars, crashes>>

\* The row the loop is at, and the end of its iteration.
At(s, i)      == i \in batch[s] /\ \A k \in batch[s] : i <= k
Handled(s, i) == /\ batch' = [batch EXCEPT ![s] = @ \ {i}]
                 /\ todo' = [todo EXCEPT ![s] = @ \ {i}]

\* storage.deleteObject, which treats a missing object as deleted.
DeleteObject(s, i) ==
  /\ At(s, i) /\ i \in todo[s] /\ i \notin Stuck
  /\ object' = object \ {i}
  /\ todo' = [todo EXCEPT ![s] = @ \ {i}]
  /\ UNCHANGED <<rowVars, saver, audits, round, batch, crashes>>

\* Fault: the failure is swallowed and the row removed.
DeleteObjectUnchecked(s, i) ==
  /\ At(s, i) /\ i \in todo[s]
  /\ object' \in {object, object \ ({i} \ Stuck)}
  /\ todo' = [todo EXCEPT ![s] = @ \ {i}]
  /\ UNCHANGED <<rowVars, saver, audits, round, batch, crashes>>

\* Fault: the try stands around the loop, the first failure ends the batch.
DeleteObjectAborts(s, i) ==
  /\ At(s, i) /\ i \in todo[s]
  /\ object' \in {object, object \ ({i} \ Stuck)}
  /\ batch' = [batch EXCEPT ![s] = {}]
  /\ todo' = [todo EXCEPT ![s] = {}]
  /\ UNCHANGED <<rowVars, saver, audits, round, crashes>>

\* It fails, perhaps after the object went: the row is left for a later run.
DeleteObjectFails(s, i) ==
  /\ At(s, i) /\ i \in todo[s]
  /\ object' \in {object, object \ ({i} \ Stuck)}
  /\ Handled(s, i)
  /\ UNCHANGED <<rowVars, saver, audits, round, crashes>>

\* history.delete, by id and whatever the row holds by now.
DeleteRow(s, i) ==
  /\ At(s, i) /\ i \notin todo[s]
  /\ row' = [row EXCEPT ![i] = "gone"]
  /\ Handled(s, i)
  /\ UNCHANGED <<users, nextRow, owner, keyed, expired, bucketVars, round, crashes>>

DeleteRowFails(s, i) ==
  /\ At(s, i) /\ i \notin todo[s]
  /\ row' \in {row, [row EXCEPT ![i] = "gone"]}
  /\ Handled(s, i)
  /\ UNCHANGED <<users, nextRow, owner, keyed, expired, bucketVars, round, crashes>>

-----------------------------------------------------------------------------
(* UsersService.deleteUser with ON DELETE CASCADE, and a crash.            *)

DeleteUser(u) ==
  /\ u \in users
  /\ users' = users \ {u}
  /\ row' = [i \in Rows |-> IF row[i] = "live" /\ owner[i] = u
                            THEN "gone" ELSE row[i]]
  /\ UNCHANGED <<nextRow, owner, keyed, expired, bucketVars, sweepVars, crashes>>

Crash ==
  /\ crashes < MaxCrashes
  /\ crashes' = crashes + 1
  /\ saver' = [i \in Rows |-> "off"]
  /\ round' = [s \in Sweep |-> 0]
  /\ batch' = [s \in Sweep |-> {}]
  /\ todo' = [s \in Sweep |-> {}]
  /\ UNCHANGED <<rowVars, object, audits>>

Next ==
  \/ \E u \in User, save \in BOOLEAN : Record(u, save)
  \/ \E i \in Rows : PutObject(i) \/ UpdateRow(i) \/ AuditSave(i)
  \/ \E i \in Rows : Expire(i)
  \/ \E s \in Sweep : FindBatch(s)
  \/ \E s \in Sweep, i \in Rows : DeleteObject(s, i)
  \/ \E s \in Sweep, i \in Rows : DeleteObjectFails(s, i)
  \/ \E s \in Sweep, i \in Rows : DeleteRow(s, i)
  \/ \E s \in Sweep, i \in Rows : DeleteRowFails(s, i)
  \/ \E u \in User : DeleteUser(u)
  \/ Crash

SweepStep(s) ==
  \/ FindBatch(s)
  \/ \E i \in Rows : \/ DeleteObject(s, i) \/ DeleteObjectFails(s, i)
                     \/ DeleteRow(s, i) \/ DeleteRowFails(s, i)

\* The cron job runs again and again, each call of it ends, and a delete that
\* is tried again and again succeeds in the end, stuck objects excepted.
Fairness ==
  \A s \in Sweep :
    /\ WF_vars(SweepStep(s))
    /\ \A i \in Rows : SF_vars(DeleteObject(s, i))
    /\ \A i \in Rows : SF_vars(DeleteRow(s, i))

Safety == Init /\ [][Next]_vars
Spec   == Safety /\ Fairness

-----------------------------------------------------------------------------
(* Properties.                                                             *)

\* hasFile never lies: until it expires, a row that has a storage key has its
\* object, whatever failed, crashed or was swept meanwhile.
SavedIsDownloadable ==
  \A i \in Rows :
    row[i] = "live" /\ keyed[i] /\ ~expired[i] => i \in object

\* A sweep only takes rows whose retention period is over.
SweptIsExpired ==
  \A s \in Sweep : \A i \in batch[s] : expired[i] /\ row[i] # "none"

\* "Removed together": a sweep removes a row with a saved result only after
\* the result is gone from the bucket, also when another sweep, a failed
\* delete or a restart came between.
RemovedTogether ==
  [][\A i \in Rows :
       row[i] = "live" /\ keyed[i] /\ row'[i] = "gone" /\ users' = users
         => i \notin object']_vars

\* A save that was audited as a success is stored: its row, while there is
\* one, has the key.
AuditedSaveIsStored ==
  \A i \in Rows : <<i, "success">> \in audits /\ row[i] = "live" => keyed[i]

\* What the user sees of all this: the rows that are there, and those of them
\* that are offered for download.
Listed == {i \in Rows : row[i] = "live"}

Results == INSTANCE ResultHistory
             WITH recorded <- nextRow - 1, of <- owner, listed <- Listed,
                  offered <- {i \in Listed : keyed[i] /\ ~expired[i]},
                  due <- {i \in Rows : expired[i]}

\* Whatever overlaps, fails or crashes, a row leaves the history only when its
\* time is over or its user goes, a result that was offered is not withdrawn
\* before that, and nothing comes back.
ImplementsResults == Results!ResultsSpec

\* The rest of the inductive invariant: what persist() of a row relies on, and
\* what a sweep that has passed the object of a row relies on.
SaveInOrder ==
  \A i \in Rows :
    /\ saver[i] # "off" => row[i] # "none" /\ ~expired[i]
    /\ saver[i] = "update" => i \in object
    /\ saver[i] = "success" /\ row[i] = "live" => keyed[i]

UnwrittenIsClean ==
  \A i \in Rows :
    /\ row[i] = "none" <=> i >= nextRow
    /\ row[i] = "none" => ~keyed[i] /\ ~expired[i]
    /\ row[i] = "none" => <<i, "success">> \notin audits

ObjectGoesFirst ==
  \A s \in Sweep :
    /\ todo[s] \subseteq batch[s]
    /\ \A i \in batch[s] \ todo[s] : keyed[i] => i \notin object

IndInv ==
  /\ TypeOK /\ SavedIsDownloadable /\ SweptIsExpired /\ AuditedSaveIsStored
  /\ SaveInOrder /\ UnwrittenIsClean /\ ObjectGoesFirst

\* Expired rows go, although the same oldest rows may fail at every attempt,
\* as long as fewer of them than a batch holds are stuck.
ExpiredRowsGo ==
  \A i \in Rows \ Stuck :
    row[i] = "live" /\ expired[i] ~> row[i] = "gone"

\* .env.example: "History rows and saved results are removed together after
\* this many days."
NoResultWithoutRow ==
  \A i \in Rows : i \in object /\ saver[i] = "off" => row[i] = "live"
=============================================================================
