------------------------------ MODULE Sessions ------------------------------
(***************************************************************************)
(* What authentication promises about sessions: an account is signed in    *)
(* from a login on, and a logout, or the end of the account, ends all its  *)
(* sessions at once and for good.  Codes, tokens, versions and requests    *)
(* under way are not mentioned: Accounts is shown to implement it.         *)
(***************************************************************************)
EXTENDS Naturals

CONSTANTS
  User,
  MaxLogouts  \* bound: logouts of an account

VARIABLES
  begun,  \* sessions there ever were: the account, and which of its sessions
  open    \* those whose tokens are accepted

sessionVars == <<begun, open>>

\* The logins of an account between two of its logouts are one session.
Session == User \X (0..MaxLogouts)

InitSessions == begun = {} /\ open = {}

\* A login.  When a logout overtakes it, the session is over as it begins.
Begin(s) ==
  /\ s \notin begun
  /\ begun' = begun \cup {s}
  /\ open' \in {open, open \cup {s}}

\* A logout, or the end of the account.
EndAll(u) ==
  /\ open' = {s \in open : s[1] # u}
  /\ UNCHANGED begun

NextSessions ==
  \/ \E s \in Session : Begin(s)
  \/ \E u \in User : EndAll(u)

SessionsSpec == InitSessions /\ [][NextSessions]_sessionVars
=============================================================================
