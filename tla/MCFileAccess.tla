---------------------------- MODULE MCFileAccess ----------------------------
(* A small instance of FileAccess, and with it of AccessControl, for TLC:   *)
(* one permission with two actions, a grant of the default role that names  *)
(* one of them, and room for one more row of each kind.                     *)
EXTENDS FileAccess, TLC

CONSTANTS r1, r2, p1, p2, g1, g2, user, myFiles, read

MCSeedRoles == r1 :> [name |-> user] @@ r2 :> None

MCSeedPermissions ==
  p1 :> [name |-> myFiles, actions |-> {read, Create}] @@ p2 :> None

MCSeedGrants ==
  g1 :> [role |-> r1, permission |-> p1, actions |-> {Create}] @@ g2 :> None

FileAccessSymmetry == Permutations(Caller)
=============================================================================
