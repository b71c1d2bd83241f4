-------------------- MODULE TransformationHistory_proofs --------------------
(***************************************************************************)
(* Proofs about TransformationHistory for every number of rows, users and  *)
(* sweeps, every batch size and every set of stuck objects: a saved result *)
(* stays downloadable until it expires, and a sweep never removes a row    *)
(* whose result is still in the bucket.  One lemma per action shows that   *)
(* the inductive invariant is preserved.                                   *)
(*                                                                         *)
(* Then about HistoryDownloads, for every number of readers, too.          *)
(* Downloads only read what TransformationHistory writes, so its invariant *)
(* is theirs as well.                                                      *)
(***************************************************************************)
EXTENDS HistoryDownloads, TLAPS

\* An empty table, an empty bucket and no sweep are in order.
LEMMA InitStep == HistoryAssumption /\ Init => IndInv
BY DEF HistoryAssumption, Init, IndInv, TypeOK, Rows, SavedIsDownloadable,
   SweptIsExpired, AuditedSaveIsStored, SaveInOrder, UnwrittenIsClean,
   ObjectGoesFirst

\* record(): the new row has no key, no object and no audit yet, and no sweep
\* has read it.
LEMMA RecordStep ==
  ASSUME HistoryAssumption, IndInv, NEW u \in User, NEW save \in BOOLEAN,
         Record(u, save)
  PROVE  IndInv'
<1>1. TypeOK'
  <2>1. owner' \in [1..(nextRow' - 1) -> User]
    BY DEF HistoryAssumption, Record, IndInv, TypeOK, Rows
  <2>2. UNCHANGED <<round, batch, todo, crashes>>
    BY DEF Record, sweepVars
  <2> QED
    BY <2>1, <2>2 DEF HistoryAssumption, Record, IndInv, TypeOK, Rows
<1>2. /\ nextRow \in Rows /\ row[nextRow] = "none"
      /\ ~keyed[nextRow] /\ <<nextRow, "success">> \notin audits
      /\ nextRow' = nextRow + 1
      /\ \A i \in Rows : i # nextRow => row'[i] = row[i] /\ saver'[i] = saver[i]
      /\ row'[nextRow] = "live" /\ saver'[nextRow] \in {"put", "off"}
      /\ UNCHANGED <<keyed, expired, object, audits>>
  BY DEF HistoryAssumption, Record, IndInv, TypeOK, Rows, UnwrittenIsClean
<1>5. SavedIsDownloadable' /\ AuditedSaveIsStored'
  BY <1>2 DEF IndInv, SavedIsDownloadable, AuditedSaveIsStored
<1>3. SweptIsExpired' /\ ObjectGoesFirst'
  BY DEF Record, IndInv, TypeOK, SweptIsExpired, ObjectGoesFirst, sweepVars
<1>4. SaveInOrder'
  BY <1>2 DEF IndInv, SaveInOrder, UnwrittenIsClean
<1>6. UnwrittenIsClean'
  <2>1. nextRow \in Nat /\ \A i \in Rows : i \in Nat
    BY DEF HistoryAssumption, Rows, IndInv, TypeOK
  <2>2. \A i \in Rows : row'[i] = "none" <=> i >= nextRow'
    <3> SUFFICES ASSUME NEW i \in Rows
                 PROVE  row'[i] = "none" <=> i >= nextRow + 1
      BY <1>2
    <3>1. CASE i = nextRow
      BY <1>2, <2>1, <3>1
    <3>2. CASE i # nextRow
      <4>1. row'[i] = "none" <=> i >= nextRow
        BY <1>2, <3>2 DEF IndInv, UnwrittenIsClean
      <4> QED
        BY <4>1, <3>2, <2>1
    <3> QED
      BY <3>1, <3>2
  <2>3. \A i \in Rows : row'[i] = "none" => row[i] = "none"
    BY <1>2
  <2> QED
    BY <1>2, <2>2, <2>3 DEF IndInv, UnwrittenIsClean
<1> QED
  BY <1>1, <1>3, <1>4, <1>5, <1>6 DEF IndInv

\* The steps of persist() touch a row that has not expired, so no sweep holds
\* it: the object comes before the key, and the key before the audit.
LEMMA SaveStep ==
  ASSUME HistoryAssumption, IndInv, NEW i \in Rows,
         PutObject(i) \/ UpdateRow(i) \/ AuditSave(i)
  PROVE  IndInv'
<1>1. saver[i] # "off" /\ ~expired[i] /\ row[i] # "none"
  BY DEF IndInv, SaveInOrder, PutObject, UpdateRow, AuditSave
<1>2. \A s \in Sweep : i \notin batch[s]
  BY <1>1 DEF IndInv, SweptIsExpired
<1>3. CASE PutObject(i)
  <2>1. /\ saver' = [saver EXCEPT ![i] = saver'[i]]
        /\ saver'[i] \in {"update", "error"}
        /\ saver'[i] = "update" => i \in object'
        /\ object \subseteq object' /\ object' \subseteq object \cup {i}
        /\ UNCHANGED <<rowVars, audits, sweepVars, crashes>>
    BY <1>3 DEF PutObject, IndInv, TypeOK
  <2>2. TypeOK'
    BY <2>1 DEF IndInv, TypeOK, rowVars, sweepVars
  <2>3. SaveInOrder'
    BY <1>1, <2>1 DEF IndInv, TypeOK, SaveInOrder, rowVars
  <2>4. SavedIsDownloadable' /\ ObjectGoesFirst'
    BY <1>2, <2>1 DEF IndInv, SavedIsDownloadable, ObjectGoesFirst, rowVars, sweepVars
  <2> QED
    BY <2>1, <2>2, <2>3, <2>4 DEF IndInv, SweptIsExpired, AuditedSaveIsStored,
       UnwrittenIsClean, rowVars, sweepVars
<1>4. CASE UpdateRow(i)
  <2>1. /\ saver' = [saver EXCEPT ![i] = saver'[i]]
        /\ saver'[i] \in {"success", "error"}
        /\ saver'[i] = "success" /\ row[i] = "live" => keyed'[i]
        /\ i \in object
        /\ keyed' \in [Rows -> BOOLEAN]
        /\ \A k \in Rows : /\ keyed[k] => keyed'[k]
                           /\ keyed'[k] => keyed[k] \/ k = i
        /\ UNCHANGED <<users, nextRow, row, owner, expired, object, audits,
                       sweepVars, crashes>>
    BY <1>4 DEF UpdateRow, IndInv, TypeOK, SaveInOrder
  <2>2. TypeOK'
    BY <2>1 DEF IndInv, TypeOK, sweepVars
  <2>3. SaveInOrder'
    BY <1>1, <2>1 DEF IndInv, TypeOK, SaveInOrder
  <2>4. SavedIsDownloadable' /\ AuditedSaveIsStored'
    BY <2>1 DEF IndInv, SavedIsDownloadable, AuditedSaveIsStored
  <2>5. ObjectGoesFirst' /\ SweptIsExpired'
    BY <1>2, <2>1 DEF IndInv, TypeOK, ObjectGoesFirst, SweptIsExpired, sweepVars
  <2>6. UnwrittenIsClean'
    BY <1>1, <2>1 DEF IndInv, UnwrittenIsClean
  <2> QED
    BY <2>2, <2>3, <2>4, <2>5, <2>6 DEF IndInv
<1>5. CASE AuditSave(i)
  <2>1. /\ saver[i] \in {"success", "error"}
        /\ audits' \in {audits, audits \cup {<<i, saver[i]>>}}
        /\ saver' = [saver EXCEPT ![i] = saver'[i]]
        /\ saver'[i] \in {"error", "off"}
        /\ UNCHANGED <<rowVars, object, sweepVars, crashes>>
    BY <1>5 DEF AuditSave, IndInv, TypeOK
  <2>2. audits' \in SUBSET (Rows \X {"success", "error"})
    BY <2>1 DEF IndInv, TypeOK
  <2>3. TypeOK'
    BY <2>1, <2>2 DEF IndInv, TypeOK, rowVars, sweepVars
  <2>4. \A k \in Rows : <<k, "success">> \in audits' =>
          <<k, "success">> \in audits \/ (k = i /\ saver[i] = "success")
    BY <2>1
  <2>5. AuditedSaveIsStored'
    BY <2>1, <2>4 DEF IndInv, AuditedSaveIsStored, SaveInOrder, rowVars
  <2>6. UnwrittenIsClean'
    BY <1>1, <2>1, <2>4 DEF IndInv, UnwrittenIsClean, rowVars
  <2>7. SaveInOrder'
    BY <1>1, <2>1 DEF IndInv, TypeOK, SaveInOrder, rowVars
  <2> QED
    BY <2>1, <2>3, <2>5, <2>6, <2>7 DEF IndInv, SavedIsDownloadable,
       SweptIsExpired, ObjectGoesFirst, rowVars, sweepVars
<1> QED
  BY <1>3, <1>4, <1>5

\* A row expires only when its save is over.
LEMMA ExpireStep ==
  ASSUME HistoryAssumption, IndInv, NEW i \in Rows, Expire(i)
  PROVE  IndInv'
BY DEF Expire, IndInv, TypeOK, SavedIsDownloadable, SweptIsExpired,
   AuditedSaveIsStored, SaveInOrder, UnwrittenIsClean, ObjectGoesFirst,
   bucketVars, sweepVars

\* A batch holds expired rows, and what it reads of their keys is still true
\* when it comes to them.
LEMMA FindBatchStep ==
  ASSUME HistoryAssumption, IndInv, NEW s \in Sweep, FindBatch(s)
  PROVE  IndInv'
<1>1. Oldest \in SUBSET Rows /\ \A i \in Oldest : expired[i] /\ row[i] = "live"
  BY DEF Oldest
<1>2. /\ batch'[s] \in SUBSET Oldest
      /\ todo'[s] = {i \in batch'[s] : keyed[i]}
      /\ round'[s] \in 0..MaxBatches
      /\ batch' = [batch EXCEPT ![s] = batch'[s]]
      /\ todo' = [todo EXCEPT ![s] = todo'[s]]
      /\ round' = [round EXCEPT ![s] = round'[s]]
  BY DEF FindBatch, IndInv, TypeOK, HistoryAssumption
<1>3. UNCHANGED <<rowVars, bucketVars, crashes>>
  BY DEF FindBatch
<1>4. TypeOK'
  BY <1>1, <1>2, <1>3 DEF IndInv, TypeOK, rowVars, bucketVars, Rows
<1>5. SweptIsExpired' /\ ObjectGoesFirst'
  <2> SUFFICES ASSUME NEW t \in Sweep
               PROVE  /\ \A i \in batch'[t] : expired[i] /\ row[i] # "none"
                      /\ todo'[t] \subseteq batch'[t]
                      /\ \A i \in batch'[t] \ todo'[t] : keyed[i] => i \notin object
    BY <1>3 DEF SweptIsExpired, ObjectGoesFirst, rowVars, bucketVars
  <2>1. CASE t = s
    BY <1>1, <1>2, <2>1
  <2>2. CASE t # s
    <3>1. batch'[t] = batch[t] /\ todo'[t] = todo[t]
      BY <1>2, <2>2 DEF IndInv, TypeOK
    <3> QED
      BY <3>1 DEF IndInv, SweptIsExpired, ObjectGoesFirst
  <2> QED
    BY <2>1, <2>2
<1>6. /\ SavedIsDownloadable' /\ AuditedSaveIsStored'
      /\ SaveInOrder' /\ UnwrittenIsClean'
  BY <1>3 DEF IndInv, SavedIsDownloadable, AuditedSaveIsStored, SaveInOrder,
     UnwrittenIsClean, rowVars, bucketVars
<1> QED
  BY <1>4, <1>5, <1>6 DEF IndInv

\* A sweep deletes the objects of expired rows only, whose saves are over.
LEMMA DeleteObjectStep ==
  ASSUME HistoryAssumption, IndInv, NEW s \in Sweep, NEW i \in Rows,
         DeleteObject(s, i) \/ DeleteObjectFails(s, i)
  PROVE  IndInv'
<1>1. i \in batch[s] /\ expired[i] /\ saver[i] = "off"
  BY DEF DeleteObject, DeleteObjectFails, At, IndInv, SweptIsExpired, SaveInOrder
<1>2. CASE DeleteObject(s, i)
  BY <1>1, <1>2
  DEF DeleteObject, IndInv, TypeOK, SavedIsDownloadable, SweptIsExpired,
      AuditedSaveIsStored, SaveInOrder, UnwrittenIsClean, ObjectGoesFirst,
      rowVars
<1>3. CASE DeleteObjectFails(s, i)
  BY <1>1, <1>3
  DEF DeleteObjectFails, Handled, IndInv, TypeOK, SavedIsDownloadable,
      SweptIsExpired, AuditedSaveIsStored, SaveInOrder, UnwrittenIsClean,
      ObjectGoesFirst, rowVars
<1> QED
  BY <1>2, <1>3

\* Removing a row, or failing to, only shrinks what is live.
LEMMA DeleteRowStep ==
  ASSUME HistoryAssumption, IndInv, NEW s \in Sweep, NEW i \in Rows,
         DeleteRow(s, i) \/ DeleteRowFails(s, i)
  PROVE  IndInv'
<1>1. i \in batch[s] /\ row[i] # "none"
  BY DEF DeleteRow, DeleteRowFails, At, IndInv, SweptIsExpired
<1>2. /\ row' = row \/ row' = [row EXCEPT ![i] = "gone"]
      /\ Handled(s, i)
      /\ UNCHANGED <<users, nextRow, owner, keyed, expired, bucketVars, round, crashes>>
  BY DEF DeleteRow, DeleteRowFails
<1> QED
  BY <1>1, <1>2
  DEF Handled, IndInv, TypeOK, SavedIsDownloadable, SweptIsExpired,
      AuditedSaveIsStored, SaveInOrder, UnwrittenIsClean, ObjectGoesFirst,
      bucketVars

\* Deleting a user removes rows and leaves everything else where it is.
LEMMA DeleteUserStep ==
  ASSUME HistoryAssumption, IndInv, NEW u \in User, DeleteUser(u)
  PROVE  IndInv'
BY DEF DeleteUser, IndInv, TypeOK, SavedIsDownloadable, SweptIsExpired,
   AuditedSaveIsStored, SaveInOrder, UnwrittenIsClean, ObjectGoesFirst,
   bucketVars, sweepVars

\* A restart forgets the saves and sweeps under way.
LEMMA CrashStep ==
  ASSUME HistoryAssumption, IndInv, Crash
  PROVE  IndInv'
BY DEF HistoryAssumption, Crash, IndInv, TypeOK, SavedIsDownloadable,
   SweptIsExpired, AuditedSaveIsStored, SaveInOrder, UnwrittenIsClean,
   ObjectGoesFirst, rowVars

\* IndInv holds in every reachable state of the history.
THEOREM Invariance == Safety => []IndInv
<1>1. Init => IndInv
  BY InitStep, HistoryAssumption
<1>2. IndInv /\ [Next]_vars => IndInv'
  <2> SUFFICES ASSUME IndInv, [Next]_vars PROVE IndInv'
    OBVIOUS
  <2> USE HistoryAssumption
  <2>1. ASSUME NEW u \in User, NEW save \in BOOLEAN, Record(u, save) PROVE IndInv'
    BY <2>1, RecordStep
  <2>2. ASSUME NEW i \in Rows, PutObject(i) \/ UpdateRow(i) \/ AuditSave(i)
        PROVE  IndInv'
    BY <2>2, SaveStep
  <2>3. ASSUME NEW i \in Rows, Expire(i) PROVE IndInv'
    BY <2>3, ExpireStep
  <2>4. ASSUME NEW s \in Sweep, FindBatch(s) PROVE IndInv'
    BY <2>4, FindBatchStep
  <2>5. ASSUME NEW s \in Sweep, NEW i \in Rows,
               DeleteObject(s, i) \/ DeleteObjectFails(s, i)
        PROVE  IndInv'
    BY <2>5, DeleteObjectStep
  <2>6. ASSUME NEW s \in Sweep, NEW i \in Rows, DeleteRow(s, i) \/ DeleteRowFails(s, i)
        PROVE  IndInv'
    BY <2>6, DeleteRowStep
  <2>7. ASSUME NEW u \in User, DeleteUser(u) PROVE IndInv'
    BY <2>7, DeleteUserStep
  <2>8. CASE Crash
    BY <2>8, CrashStep
  <2>9. CASE UNCHANGED vars
    BY <2>9 DEF vars, rowVars, bucketVars, sweepVars, IndInv, TypeOK,
       SavedIsDownloadable, SweptIsExpired, AuditedSaveIsStored, SaveInOrder,
       UnwrittenIsClean, ObjectGoesFirst
  <2> QED
    BY <2>1, <2>2, <2>3, <2>4, <2>5, <2>6, <2>7, <2>8, <2>9 DEF Next
<1> QED
  BY <1>1, <1>2, PTL DEF Safety

\* Every variable keeps its type.
THEOREM TypeCorrect == Safety => []TypeOK
BY Invariance, PTL DEF IndInv

\* A row that offers a file and has not expired has the file: hasFile is true
\* whatever failed, was swept, or was cut off by a restart.
THEOREM SavedStaysDownloadable == Safety => []SavedIsDownloadable
BY Invariance, PTL DEF IndInv

\* A sweep only ever holds rows whose retention period is over.
THEOREM OnlyExpiredIsSwept == Safety => []SweptIsExpired
BY Invariance, PTL DEF IndInv

\* A save that was audited as a success gave its row the key.
THEOREM AuditTellsTheTruth == Safety => []AuditedSaveIsStored
BY Invariance, PTL DEF IndInv

\* No sweep, alone or beside others, removes a row while its result is still
\* in the bucket.
THEOREM ObjectIsRemovedFirst == Safety => RemovedTogether
<1> DEFINE Removes == \A i \in Rows :
                        row[i] = "live" /\ keyed[i] /\ row'[i] = "gone"
                          /\ users' = users => i \notin object'
<1>1. IndInv /\ [Next]_vars => [Removes]_vars
  <2> SUFFICES ASSUME IndInv, Next, NEW k \in Rows, row[k] = "live", keyed[k],
                      row'[k] = "gone", users' = users
               PROVE  k \notin object'
    OBVIOUS
  <2>1. CASE \E u \in User, save \in BOOLEAN : Record(u, save)
    BY <2>1 DEF Record, IndInv, TypeOK, Rows
  <2>2. CASE \E i \in Rows : PutObject(i) \/ UpdateRow(i) \/ AuditSave(i)
    BY <2>2 DEF PutObject, UpdateRow, AuditSave, rowVars
  <2>3. CASE \E i \in Rows : Expire(i)
    BY <2>3 DEF Expire
  <2>4. CASE \E s \in Sweep : FindBatch(s)
    BY <2>4 DEF FindBatch, rowVars
  <2>5. CASE \E s \in Sweep, i \in Rows : DeleteObject(s, i) \/ DeleteObjectFails(s, i)
    BY <2>5 DEF DeleteObject, DeleteObjectFails, rowVars
  <2>6. ASSUME NEW s \in Sweep, NEW i \in Rows, DeleteRow(s, i) \/ DeleteRowFails(s, i)
        PROVE  k \notin object'
    <3>1. k = i /\ i \in batch[s] \ todo[s] /\ object' = object
      BY <2>6 DEF DeleteRow, DeleteRowFails, At, bucketVars, IndInv, TypeOK
    <3> QED
      BY <3>1 DEF IndInv, ObjectGoesFirst
  <2>7. CASE \E u \in User : DeleteUser(u)
    BY <2>7 DEF DeleteUser, IndInv, TypeOK
  <2>8. CASE Crash
    BY <2>8 DEF Crash, rowVars
  <2> QED
    BY <2>1, <2>2, <2>3, <2>4, <2>5, <2>6, <2>7, <2>8 DEF Next
<1> QED
  BY <1>1, Invariance, PTL DEF Safety, RemovedTogether
-----------------------------------------------------------------------------
(* What the user sees of it.                                               *)

\* A step that leaves rows, keys and retention alone shows nothing.
LEMMA HiddenStep ==
  ASSUME UNCHANGED <<users, nextRow, row, owner, keyed, expired>>
  PROVE  UNCHANGED Results!resultVars
BY DEF Results!resultVars, Listed

\* Each step is one of ResultHistory, or shows nothing.
LEMMA ResultsRefined ==
  ASSUME IndInv, [Next]_vars
  PROVE  [Results!NextResults]_Results!resultVars
<1> DEFINE offered == {i \in Listed : keyed[i] /\ ~expired[i]}
           due     == {i \in Rows : expired[i]}
<1>1. /\ row \in [Rows -> {"none", "live", "gone"}]
      /\ keyed \in [Rows -> BOOLEAN] /\ expired \in [Rows -> BOOLEAN]
      /\ nextRow \in 1..(MaxRows + 1) /\ owner \in [1..(nextRow - 1) -> User]
      /\ MaxRows \in Nat /\ Rows = 1..MaxRows
  BY HistoryAssumption DEF IndInv, TypeOK, Rows
<1>2. ASSUME NEW u \in User, NEW save \in BOOLEAN, Record(u, save) PROVE Results!NextResults
  <2>1. /\ nextRow \in Rows /\ u \in users /\ nextRow' = nextRow + 1
        /\ row' = [row EXCEPT ![nextRow] = "live"]
        /\ owner' = [i \in 1..nextRow |-> IF i = nextRow THEN u ELSE owner[i]]
        /\ UNCHANGED <<users, keyed, expired>>
    BY <1>2 DEF Record
  <2>2. row[nextRow] = "none" /\ ~keyed[nextRow]
    <3>1. nextRow >= nextRow
      BY <1>1
    <3> QED BY <2>1, <3>1 DEF IndInv, UnwrittenIsClean
  <2>3. Listed' = Listed \cup {nextRow}
    BY <1>1, <2>1 DEF Listed
  <2>4. offered' = offered /\ due' = due
    BY <2>1, <2>2, <2>3
  <2>5. nextRow' - 1 = nextRow /\ (nextRow - 1) + 1 = nextRow /\ nextRow - 1 < MaxRows
    BY <1>1, <2>1
  <2>6. Results!Remember(u)
    BY <2>1, <2>3, <2>4, <2>5 DEF Results!Remember
  <2> QED BY <2>6 DEF Results!NextResults
<1>3. ASSUME NEW i \in Rows, UpdateRow(i) PROVE [Results!NextResults]_Results!resultVars
  <2>1. /\ UNCHANGED <<users, nextRow, row, owner, expired>>
        /\ keyed' \in {keyed, [keyed EXCEPT ![i] = @ \/ row[i] = "live"]}
    BY <1>3 DEF UpdateRow
  <2>2. ~expired[i]
    BY <1>3 DEF UpdateRow, IndInv, SaveInOrder
  <2>3. Listed' = Listed
    BY <2>1 DEF Listed
  <2>4. CASE row[i] = "live" /\ keyed' # keyed
    <3>1. keyed' = [keyed EXCEPT ![i] = TRUE]
      BY <1>1, <2>1, <2>4
    <3>2. offered' = offered \cup {i}
      BY <1>1, <2>1, <2>2, <2>3, <2>4, <3>1 DEF Listed
    <3>3. i \in Listed \ due
      BY <2>2, <2>4 DEF Listed
    <3>4. Results!Offer(i)
      BY <2>1, <2>3, <3>2, <3>3 DEF Results!Offer
    <3> QED BY <1>1, <3>4 DEF Results!NextResults
  <2>5. CASE row[i] # "live" \/ keyed' = keyed
    <3>1. keyed' = keyed
      BY <1>1, <2>1, <2>5
    <3> QED BY <2>1, <3>1, HiddenStep
  <2> QED BY <2>4, <2>5
<1>4. ASSUME NEW i \in Rows, Expire(i) PROVE Results!NextResults
  <2>1. /\ row[i] = "live" /\ ~expired[i]
        /\ \A k \in Rows : k < i => row[k] # "live" \/ expired[k]
        /\ expired' = [expired EXCEPT ![i] = TRUE]
        /\ UNCHANGED <<users, nextRow, row, owner, keyed>>
    BY <1>4 DEF Expire
  <2>2. i \in Listed \ due /\ \A k \in Listed \ due : i =< k
    BY <1>1, <2>1 DEF Listed
  <2>3. Listed' = Listed /\ due' = due \cup {i} /\ offered' = offered \ {i}
    BY <1>1, <2>1 DEF Listed
  <2>4. Results!ComeDue(i)
    BY <2>1, <2>2, <2>3 DEF Results!ComeDue
  <2> QED BY <1>1, <2>4 DEF Results!NextResults
<1>5. ASSUME NEW s \in Sweep, NEW i \in Rows, DeleteRow(s, i) \/ DeleteRowFails(s, i)
      PROVE  [Results!NextResults]_Results!resultVars
  <2>1. /\ i \in batch[s] /\ row' \in {row, [row EXCEPT ![i] = "gone"]}
        /\ UNCHANGED <<users, nextRow, owner, keyed, expired>>
    BY <1>5 DEF DeleteRow, DeleteRowFails, At
  <2>2. expired[i]
    BY <2>1 DEF IndInv, SweptIsExpired
  <2>3. CASE row[i] = "live" /\ row' # row
    <3>1. Listed' = Listed \ {i} /\ i \in Listed \cap due
      BY <1>1, <2>1, <2>2, <2>3 DEF Listed
    <3>2. offered' = offered /\ due' = due
      BY <2>1, <2>2, <3>1
    <3>3. Results!Forget(i)
      BY <2>1, <3>1, <3>2 DEF Results!Forget
    <3> QED BY <1>1, <3>3 DEF Results!NextResults
  <2>4. CASE row[i] # "live" \/ row' = row
    <3>1. Listed' = Listed
      BY <1>1, <2>1, <2>4 DEF Listed
    <3> QED BY <2>1, <3>1 DEF Results!resultVars
  <2> QED BY <2>3, <2>4
<1>6. ASSUME NEW u \in User, DeleteUser(u) PROVE Results!NextResults
  <2>1. /\ u \in users /\ users' = users \ {u}
        /\ row' = [i \in Rows |-> IF row[i] = "live" /\ owner[i] = u THEN "gone" ELSE row[i]]
        /\ UNCHANGED <<nextRow, owner, keyed, expired>>
    BY <1>6 DEF DeleteUser
  <2>2. Listed' = {i \in Listed : owner[i] # u}
    BY <1>1, <2>1 DEF Listed
  <2>3. offered' = {i \in offered : owner[i] # u} /\ due' = due
    BY <2>1, <2>2
  <2>4. Results!Leave(u)
    BY <2>1, <2>2, <2>3 DEF Results!Leave
  <2> QED BY <2>4 DEF Results!NextResults
<1>7. CASE \/ \E i \in Rows : PutObject(i) \/ AuditSave(i)
           \/ \E s \in Sweep : FindBatch(s)
           \/ \E s \in Sweep, i \in Rows : DeleteObject(s, i) \/ DeleteObjectFails(s, i)
           \/ Crash \/ UNCHANGED vars
  BY <1>7, HiddenStep DEF PutObject, AuditSave, FindBatch, DeleteObject, DeleteObjectFails,
     Crash, vars, rowVars
<1> QED BY <1>2, <1>3, <1>4, <1>5, <1>6, <1>7 DEF Next

\* The history implements ResultHistory: saves, sweeps, failures and restarts
\* never show but as one of its steps.
THEOREM HistoryImplementsResults == Safety => ImplementsResults
<1>1. Init => Results!InitResults
  <2> SUFFICES ASSUME Init PROVE Results!InitResults
    OBVIOUS
  <2>1. Listed = {}
    BY DEF Init, Listed
  <2> QED BY <2>1 DEF Init, Results!InitResults
<1>2. IndInv /\ [Next]_vars => [Results!NextResults]_Results!resultVars
  BY ResultsRefined
<1> QED
  BY <1>1, <1>2, Invariance, PTL DEF Safety, ImplementsResults, Results!ResultsSpec

-----------------------------------------------------------------------------
(* Downloads.                                                              *)

\* What a download under way relies on.
DownloadsInv ==
  /\ DownloadsTypeOK /\ OnlyExpiryBreaksDownloads /\ SentIsAudited
  /\ \A d \in Reader : ~Stands(d, "idle") =>
       /\ reader[d].row \in 1..(nextRow - 1)
       /\ reader[d].actor \in User /\ reader[d].target \in User
       /\ owner[reader[d].row] = reader[d].target

\* A step of a download changes nothing of the history.
THEOREM DownloadsKeepHistory == DownloadsSpec => Safety
<1>1. InitDownloads => Init
  BY DEF InitDownloads
<1>2. [DownloadStep \/ HistoryStep]_<<vars, downloadVars>> => [Next]_vars
  BY DEF DownloadStep, HistoryStep
<1> QED
  BY <1>1, <1>2, PTL DEF DownloadsSpec, Safety

LEMMA DownloadsInit == InitDownloads => DownloadsInv
<1> SUFFICES ASSUME InitDownloads PROVE DownloadsInv
  OBVIOUS
<1>1. \A d \in Reader : reader[d] = NoDownload /\ reader[d].at = "idle"
  BY DEF InitDownloads, NoDownload
<1>2. NoDownload \in Downloads
  BY HistoryAssumption DEF NoDownload, Downloads
<1>3. DownloadsTypeOK
  BY <1>2 DEF InitDownloads, DownloadsTypeOK
<1> QED
  BY <1>1, <1>3 DEF DownloadsInv, OnlyExpiryBreaksDownloads, SentIsAudited, Stands

\* No step of the history takes an object from under a download whose row has
\* not expired, nor gives a row to another user.
LEMMA HistoryKeepsDownloads ==
  ASSUME IndInv, DownloadsInv, HistoryStep
  PROVE  DownloadsInv'
<1> USE HistoryAssumption, DownloadsAssumption DEF HistoryStep
<1>1. DownloadsTypeOK'
  BY DEF DownloadsInv, DownloadsTypeOK, Downloads, NoDownload, Rows
<1>2. \A i \in Rows : i \in object /\ i \notin object' => expired[i]
  BY DEF Next, IndInv, SweptIsExpired, At, Record, PutObject, UpdateRow, AuditSave, Expire,
         FindBatch, DeleteObject, DeleteObjectFails, DeleteRow, DeleteRowFails, DeleteUser, Crash,
         bucketVars
<1>3. \A i \in Rows : expired[i] => expired'[i]
  BY DEF Next, IndInv, TypeOK, Record, PutObject, UpdateRow, AuditSave, Expire, FindBatch,
         DeleteObject, DeleteObjectFails, DeleteRow, DeleteRowFails, DeleteUser, Crash, rowVars
<1>4. nextRow' >= nextRow /\ \A i \in 1..(nextRow - 1) : owner'[i] = owner[i]
  BY DEF Next, IndInv, TypeOK, Rows, Record, PutObject, UpdateRow, AuditSave, Expire, FindBatch,
         DeleteObject, DeleteObjectFails, DeleteRow, DeleteRowFails, DeleteUser, Crash, rowVars
<1>5. nextRow \in Nat /\ nextRow' \in Nat /\ 1..(nextRow - 1) \subseteq Rows
  BY DEF Next, IndInv, TypeOK, Rows, Record, PutObject, UpdateRow, AuditSave, Expire, FindBatch,
         DeleteObject, DeleteObjectFails, DeleteRow, DeleteRowFails, DeleteUser, Crash, rowVars
<1>6. \A d \in Reader : reader'[d] = reader[d] \/ reader'[d] = NoDownload
  BY DEF DownloadsInv, DownloadsTypeOK
<1> QED
  BY <1>1, <1>2, <1>3, <1>4, <1>5, <1>6 DEF DownloadsInv, OnlyExpiryBreaksDownloads,
     SentIsAudited, Audit, Stands, NoDownload

\* Each step of a download keeps it.
LEMMA DownloadsKeepThemselves ==
  ASSUME IndInv, DownloadsInv, DownloadStep
  PROVE  DownloadsInv'
<1> USE HistoryAssumption, DownloadsAssumption
    DEF DownloadsInv, OnlyExpiryBreaksDownloads, SentIsAudited, Audit, Stands, vars, rowVars,
        bucketVars, sweepVars
<1>1. UNCHANGED vars
  BY DEF DownloadStep
<1>2. nextRow - 1 \in Nat /\ 1..(nextRow - 1) \subseteq Rows
  BY DEF IndInv, TypeOK, Rows
<1>3. PICK d \in Reader :
        \/ \E actor, target \in User, i \in Rows : Open(d, actor, target, i)
        \/ GetObject(d) \/ AuditDownload(d) \/ Send(d) \/ DownloadFails(d)
  BY DEF DownloadStep
<1>4. ASSUME NEW actor \in User, NEW target \in User, NEW i \in Rows, Open(d, actor, target, i)
      PROVE  DownloadsInv'
  <2>1. i \in object /\ i \in 1..(nextRow - 1) /\ owner[i] = target
    <3>1. row[i] = "live" /\ keyed[i] /\ ~expired[i] /\ owner[i] = target
      BY <1>4 DEF Open
    <3>2. i \in object
      BY <3>1 DEF IndInv, SavedIsDownloadable
    <3>3. ~(i >= nextRow)
      BY <3>1 DEF IndInv, UnwrittenIsClean
    <3> QED
      BY <3>1, <3>2, <3>3 DEF IndInv, TypeOK, Rows
  <2> DEFINE new == [at |-> "get", actor |-> actor, target |-> target, row |-> i]
  <2>2. /\ new \in Downloads
        /\ new.at = "get" /\ new.actor = actor /\ new.target = target /\ new.row = i
    BY DEF Downloads, Rows
  <2>3. reader' = [reader EXCEPT ![d] = new] /\ downloads' = downloads
    BY <1>4 DEF Open
  <2> HIDE DEF new
  <2>4. /\ reader'[d] = new
        /\ \A e \in Reader \ {d} : reader'[e] = reader[e]
    BY <2>3 DEF DownloadsTypeOK
  <2>5. DownloadsTypeOK'
    BY <2>2, <2>3 DEF DownloadsTypeOK
  <2> QED
    BY <1>1, <2>1, <2>2, <2>3, <2>4, <2>5
<1>5. CASE GetObject(d)
  BY <1>1, <1>5 DEF GetObject, Go, DownloadsTypeOK, Downloads
<1>6. CASE AuditDownload(d)
  BY <1>1, <1>2, <1>6 DEF AuditDownload, Go, DownloadsTypeOK, Downloads
<1>7. CASE Send(d)
  BY <1>1, <1>7 DEF Send, End, NoDownload, DownloadsTypeOK, Downloads, Rows
<1>8. CASE DownloadFails(d)
  BY <1>1, <1>2, <1>8 DEF DownloadFails, End, NoDownload, DownloadsTypeOK, Downloads, Rows
<1> QED
  BY <1>3, <1>4, <1>5, <1>6, <1>7, <1>8

\* The inductive invariant of downloads, on top of that of the history.
THEOREM DownloadsInvariance == DownloadsSpec => []DownloadsInv
<1>1. DownloadsSpec => []IndInv
  BY DownloadsKeepHistory, Invariance, PTL
<1>2. IndInv /\ DownloadsInv /\ [DownloadStep \/ HistoryStep]_<<vars, downloadVars>>
        => DownloadsInv'
  <2> SUFFICES ASSUME IndInv, DownloadsInv, UNCHANGED <<vars, downloadVars>>
               PROVE  DownloadsInv'
    BY HistoryKeepsDownloads, DownloadsKeepThemselves
  <2> QED
    BY DEF DownloadsInv, DownloadsTypeOK, OnlyExpiryBreaksDownloads, SentIsAudited, Audit, Stands,
           vars, rowVars, bucketVars, sweepVars, downloadVars
<1> QED
  BY <1>1, <1>2, DownloadsInit, PTL DEF DownloadsSpec

\* The object of a download is gone only if its row has expired meanwhile.
THEOREM DownloadsFindTheirObject == DownloadsSpec => []OnlyExpiryBreaksDownloads
BY DownloadsInvariance, PTL DEF DownloadsInv

\* No bytes leave before the audit that names the owner of their row.
THEOREM SendingIsAudited == DownloadsSpec => []SentIsAudited
BY DownloadsInvariance, PTL DEF DownloadsInv

\* Beside any number of downloads the history still implements ResultHistory.
THEOREM DownloadsImplementResults == DownloadsSpec => ImplementsResults
BY DownloadsKeepHistory, HistoryImplementsResults, PTL
=============================================================================
