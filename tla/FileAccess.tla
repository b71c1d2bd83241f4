----------------------------- MODULE FileAccess -----------------------------
(***************************************************************************)
(* Uploads (FilesService.upload) behind the guard of AccessControl: a      *)
(* request that was allowed to create files stores the object and then     *)
(* writes its row, while users are deleted and rights change.              *)
(***************************************************************************)
EXTENDS AccessControl

CONSTANTS
  File,         \* ids, each used once
  MyFiles,      \* RBAC_RESOURCES.MY_FILES
  Create        \* RBAC_ACTIONS.CREATE

ASSUME FileAssumption == MyFiles \in Name /\ Create \in Action /\ None \notin File

VARIABLES
  publisher,    \* publisher[f]: whose upload f is, None before it
  stored,       \* objects in the bucket
  listed,       \* rows of the table files
  upload        \* upload[c]: the file c has stored and not yet listed

fileVars == <<publisher, stored, listed, upload>>

FilesTypeOK ==
  /\ publisher \in [File -> User \cup {None}]
  /\ stored \in SUBSET File /\ listed \in SUBSET File
  /\ upload \in [Caller -> File \cup {None}]

InitFiles ==
  /\ Init
  /\ publisher = [f \in File |-> None]
  /\ stored = {} /\ listed = {}
  /\ upload = [c \in Caller |-> None]

MayUpload(c) ==
  At(c, "allowed") /\ call[c].name = MyFiles /\ call[c].action = Create /\ upload[c] = None

\* Fault: the failure of putObject is swallowed.
StoreUnchecked(c, f) ==
  /\ MayUpload(c) /\ publisher[f] = None
  /\ publisher' = [publisher EXCEPT ![f] = call[c].user]
  /\ stored' \in {stored, stored \cup {f}}
  /\ upload' = [upload EXCEPT ![c] = f]
  /\ UNCHANGED <<vars, listed>>

\* storage.putObject
Store(c, f) ==
  /\ MayUpload(c) /\ publisher[f] = None
  /\ publisher' = [publisher EXCEPT ![f] = call[c].user]
  /\ stored' = stored \cup {f}
  /\ upload' = [upload EXCEPT ![c] = f]
  /\ UNCHANGED <<vars, listed>>

\* It fails, perhaps after the object was written.
StoreFails(c, f) ==
  /\ MayUpload(c) /\ publisher[f] = None
  /\ publisher' = [publisher EXCEPT ![f] = call[c].user]
  /\ stored' \in {stored, stored \cup {f}}
  /\ Decide(c)
  /\ UNCHANGED <<listed, upload>>

\* filesRepository.save; the foreign key wants the publisher to be there.
List(c) ==
  /\ upload[c] # None /\ call[c].user \in users
  /\ listed' = listed \cup {upload[c]}
  /\ upload' = [upload EXCEPT ![c] = None]
  /\ Decide(c)
  /\ UNCHANGED <<publisher, stored>>

\* It fails, or the row cannot be read again: nothing removes the object.
ListFails(c) ==
  /\ upload[c] # None
  /\ listed' \in {listed, listed \cup {f \in {upload[c]} : call[c].user \in users}}
  /\ upload' = [upload EXCEPT ![c] = None]
  /\ Decide(c)
  /\ UNCHANGED <<publisher, stored>>

\* Everything else goes on; the rows of a user go with the user.
Rest ==
  /\ Next
  /\ \A c \in Caller : upload[c] # None => call'[c] = call[c]
  /\ listed' = {f \in listed : publisher[f] \in users'}
  /\ UNCHANGED <<publisher, stored, upload>>

UploadStep == \E c \in Caller :
  \/ \E f \in File : Store(c, f) \/ StoreFails(c, f)
  \/ List(c) \/ ListFails(c)

FilesSpec == InitFiles /\ [][UploadStep \/ Rest]_<<vars, fileVars>>

-----------------------------------------------------------------------------
(* Properties.                                                             *)

\* A file that is listed can be had, and belongs to a user who exists, whichever
\* of object, row and user failed or went first.
ListedFileIsStored ==
  \A f \in listed : f \in stored /\ publisher[f] \in users
=============================================================================
