-------------------------- MODULE HistoryDownloads --------------------------
(***************************************************************************)
(* Downloads from the history (downloadOwn, downloadForAdmin and           *)
(* sendStoredFile): they read a row, then its object, then write an audit, *)
(* while saves, sweeps and deletions of TransformationHistory go on.       *)
(***************************************************************************)
EXTENDS TransformationHistory

CONSTANTS
  Reader,
  MaxDownloads,  \* bound: downloads that are audited
  None

ASSUME DownloadsAssumption == MaxDownloads \in Nat /\ None \notin User

VARIABLES
  reader,      \* reader[d]: the download under way
  downloads    \* download audits written: <<actor, target, row>>

downloadVars == <<reader, downloads>>

NoDownload == [at |-> "idle", actor |-> None, target |-> None, row |-> 0]

Downloads == [at : {"idle", "get", "audit", "send"},
              actor : User \cup {None}, target : User \cup {None}, row : 0..MaxRows]

DownloadsTypeOK ==
  /\ reader \in [Reader -> Downloads]
  /\ downloads \in SUBSET (User \X User \X Rows)

InitDownloads ==
  /\ Init
  /\ reader = [d \in Reader |-> NoDownload]
  /\ downloads = {}

Stands(d, step) == reader[d].at = step
Go(d, step)     == reader' = [reader EXCEPT ![d].at = step]
End(d)          == reader' = [reader EXCEPT ![d] = NoDownload]

\* What an audit of the download says.
Audit(d) == <<reader[d].actor, reader[d].target, reader[d].row>>

\* The row is found by its id, belongs to the target and has a result to offer.
Open(d, actor, target, i) ==
  /\ Stands(d, "idle") /\ Cardinality(downloads) < MaxDownloads
  /\ {actor, target} \subseteq users
  /\ row[i] = "live" /\ owner[i] = target /\ keyed[i] /\ ~expired[i]
  /\ reader' = [reader EXCEPT ![d] =
                  [at |-> "get", actor |-> actor, target |-> target, row |-> i]]
  /\ UNCHANGED downloads

\* storage.getObject, for which a missing object is a failure.
GetObject(d) ==
  /\ Stands(d, "get")
  /\ reader[d].row \in object
  /\ Go(d, "audit")
  /\ UNCHANGED downloads

\* Fault: the bytes are sent whether or not the audit could be written.
AuditDownloadUnchecked(d) ==
  /\ Stands(d, "audit")
  /\ downloads' \in {downloads, downloads \cup {Audit(d)}}
  /\ Go(d, "send")

AuditDownload(d) ==
  /\ Stands(d, "audit")
  /\ downloads' = downloads \cup {Audit(d)}
  /\ Go(d, "send")

Send(d) == Stands(d, "send") /\ End(d) /\ UNCHANGED downloads

\* An await rejects; the audit may have been written all the same.
DownloadFails(d) ==
  /\ Stands(d, "get") \/ Stands(d, "audit")
  /\ downloads' \in {downloads} \cup (IF Stands(d, "audit") THEN {downloads \cup {Audit(d)}} ELSE {})
  /\ End(d)

\* Steps of a download, and what a step of the rest does to downloads.
DownloadStep ==
  /\ \E d \in Reader :
       \/ \E actor, target \in User, i \in Rows : Open(d, actor, target, i)
       \/ GetObject(d) \/ AuditDownload(d) \/ Send(d) \/ DownloadFails(d)
  /\ UNCHANGED vars

HistoryStep ==
  /\ Next
  /\ reader' = IF crashes' = crashes THEN reader ELSE [d \in Reader |-> NoDownload]
  /\ UNCHANGED downloads

DownloadsSpec == InitDownloads /\ [][DownloadStep \/ HistoryStep]_<<vars, downloadVars>>

-----------------------------------------------------------------------------
(* Properties.                                                             *)

\* The row was checked before the object is read: if the object is gone by then
\* the row has expired meanwhile, whatever saves, sweeps, deletions and restarts
\* did in between.  No other download of an offered file fails for that reason.
OnlyExpiryBreaksDownloads ==
  \A d \in Reader : Stands(d, "get") /\ ~expired[reader[d].row] => reader[d].row \in object

\* What is sent was audited before, under the user the row was recorded for,
\* although the audit may fail and the row go while the object is read.
SentIsAudited ==
  \A d \in Reader : Stands(d, "send") =>
    Audit(d) \in downloads /\ owner[reader[d].row] = reader[d].target
=============================================================================
