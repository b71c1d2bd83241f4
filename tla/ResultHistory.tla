---------------------------- MODULE ResultHistory ---------------------------
(***************************************************************************)
(* What the history promises the user who reads it: a conversion stays     *)
(* listed until its time is over or its user goes; a saved result that is  *)
(* once offered for download is offered that long; and nothing comes back. *)
(* Bucket, background saves, sweeps, failures and restarts are not         *)
(* mentioned: TransformationHistory is shown to implement this module.     *)
(***************************************************************************)
EXTENDS Naturals

CONSTANTS
  MaxRows,  \* bound: conversions ever recorded
  User

VARIABLES
  users,     \* who has an account
  recorded,  \* number of conversions recorded so far
  of,        \* of[i]: whose conversion the i-th is
  listed,    \* conversions in a history
  offered,   \* those with a result to download
  due        \* those whose time is over

resultVars == <<users, recorded, of, listed, offered, due>>

InitResults ==
  /\ users = User
  /\ recorded = 0 /\ of \in [1..0 -> User]
  /\ listed = {} /\ offered = {} /\ due = {}

Remember(u) ==
  /\ u \in users
  /\ recorded < MaxRows
  /\ recorded' = recorded + 1
  /\ of' = [i \in 1..recorded' |-> IF i = recorded' THEN u ELSE of[i]]
  /\ listed' = listed \cup {recorded'}
  /\ UNCHANGED <<users, offered, due>>

Offer(i) ==
  /\ i \in listed \ due
  /\ offered' = offered \cup {i}
  /\ UNCHANGED <<users, recorded, of, listed, due>>

\* The oldest of the histories comes due first.
ComeDue(i) ==
  /\ i \in listed \ due
  /\ \A k \in listed \ due : i <= k
  /\ due' = due \cup {i}
  /\ offered' = offered \ {i}
  /\ UNCHANGED <<users, recorded, of, listed>>

Forget(i) ==
  /\ i \in listed \cap due
  /\ listed' = listed \ {i}
  /\ UNCHANGED <<users, recorded, of, offered, due>>

Leave(u) ==
  /\ u \in users
  /\ users' = users \ {u}
  /\ listed' = {i \in listed : of[i] # u}
  /\ offered' = {i \in offered : of[i] # u}
  /\ UNCHANGED <<recorded, of, due>>

NextResults ==
  \/ \E u \in User : Remember(u) \/ Leave(u)
  \/ \E i \in 1..MaxRows : Offer(i) \/ ComeDue(i) \/ Forget(i)

ResultsSpec == InitResults /\ [][NextResults]_resultVars
=============================================================================
