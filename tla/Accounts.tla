------------------------------ MODULE Accounts ------------------------------
(***************************************************************************)
(* modules/auth, otp, users and jwt: registration with a one-time code,    *)
(* its verification, and sessions that a logout ends.                      *)
(*                                                                         *)
(* A caller is one request under way; call[c] holds where it stands and    *)
(* what it has read.  Each await is a step.  A request that is refused     *)
(* before it changes anything (wrong password, unknown account, missing    *)
(* cookie) is no step at all.  Any await may reject, which ends the        *)
(* request where it is (Fail); nothing is rolled back.                     *)
(***************************************************************************)
EXTENDS Naturals

CONSTANTS
  Email,
  User,         \* ids of accounts, each used once
  Code,         \* ids of one-time codes, each used once
  Caller,
  MaxAttempts,  \* OTP_MAX_ATTEMPTS
  MaxRequests,  \* bound: requests that are looked at
  MaxInserts,   \* bound: rows ever written to the table otp
  None

ASSUME AccountsAssumption ==
  /\ MaxAttempts \in Nat \ {0} /\ MaxRequests \in Nat /\ MaxInserts \in Nat
  /\ None \notin Email \cup User \cup Code

VARIABLES
  account,   \* account[u]: "none", "live" or "gone", a row of the table users
  address,   \* its email
  active,    \* its is_active
  version,   \* its token_version
  member,    \* accounts that hold the role `user`
  code,      \* code[k]: "none", "live" or "gone", a row of the table otp
  owner,     \* its email
  attempts,
  created,   \* its created_at, as a place in the order of all of them
  clock,     \* the last such place
  expired,   \* codes whose expires_at is in the past
  mailed,    \* codes that were sent
  tokens,    \* token pairs that were handed out
  call,
  requests,  \* counts up to MaxRequests
  \* history, for the properties
  logouts,   \* logouts[u]: how often u was logged out
  had,       \* had[u]: every email u ever had
  granted,   \* accounts that were activated by updateUser
  tries,     \* tries[k]: wrong guesses at k that were saved
  used,      \* codes that were accepted
  raced,     \* emails for which two operations on codes overlapped
  registered \* accounts whose registration was answered

userVars  == <<account, address, active, version, member>>
codeVars  == <<code, owner, attempts, created, clock, expired>>
ghostVars == <<logouts, had, granted, tries, used, raced, registered>>
vars == <<userVars, codeVars, mailed, tokens, call, requests, ghostVars>>

Steps == {"idle", "insert", "role", "forget", "code", "mail",
          "compare", "burn", "find", "activate", "sign"}

Calls == [at : Steps, email : Email \cup {None}, user : User \cup {None},
          code : Code \cup {None}, guess : Code \cup {None}, seen : Nat, since : Nat]

Tokens == [user : User, ver : Nat, since : Nat]

Idle == [at |-> "idle", email |-> None, user |-> None, code |-> None,
         guess |-> None, seen |-> 0, since |-> 0]

TypeOK ==
  /\ account \in [User -> {"none", "live", "gone"}]
  /\ address \in [User -> Email \cup {None}]
  /\ active \in [User -> BOOLEAN]
  /\ version \in [User -> Nat]
  /\ member \in SUBSET User
  /\ code \in [Code -> {"none", "live", "gone"}]
  /\ owner \in [Code -> Email \cup {None}]
  /\ attempts \in [Code -> 0..MaxAttempts]
  /\ created \in [Code -> Nat] /\ clock \in Nat
  /\ expired \in SUBSET Code /\ mailed \in SUBSET Code
  /\ tokens \in SUBSET Tokens
  /\ call \in [Caller -> Calls] /\ requests \in 0..MaxRequests
  /\ logouts \in [User -> Nat]
  /\ had \in [User -> SUBSET Email]
  /\ granted \in SUBSET User
  /\ tries \in [Code -> Nat]
  /\ used \in SUBSET Code
  /\ raced \in SUBSET Email
  /\ registered \in SUBSET User

Init ==
  /\ account = [u \in User |-> "none"]
  /\ address = [u \in User |-> None]
  /\ active = [u \in User |-> FALSE]
  /\ version = [u \in User |-> 0]
  /\ member = {}
  /\ code = [k \in Code |-> "none"]
  /\ owner = [k \in Code |-> None]
  /\ attempts = [k \in Code |-> 0]
  /\ created = [k \in Code |-> 0] /\ clock = 0
  /\ expired = {} /\ mailed = {} /\ tokens = {}
  /\ call = [c \in Caller |-> Idle] /\ requests = 0
  /\ logouts = [u \in User |-> 0]
  /\ had = [u \in User |-> {}]
  /\ granted = {}
  /\ tries = [k \in Code |-> 0]
  /\ used = {} /\ raced = {} /\ registered = {}

-----------------------------------------------------------------------------

Counted         == requests < MaxRequests /\ requests' = requests + 1
Begins(c, what) == call[c] = Idle /\ Counted /\ call' = [call EXCEPT ![c] = what]
At(c, step)     == call[c].at = step
Go(c, what)     == call' = [call EXCEPT ![c] = what]
Return(c)       == call' = [call EXCEPT ![c] = Idle]

\* The unique row of an email, if there is one.
Holds(u, e) == account[u] = "live" /\ address[u] = e
Taken(e)    == \E u \in User : Holds(u, e)

\* Callers between the first and the last statement of an operation on the
\* codes of e, and what it means that another one starts.
Busy(e)      == \E c \in Caller : call[c].email = e /\ call[c].at \in {"code", "compare", "burn"}
MarkRaced(e) == raced' = IF Busy(e) THEN raced \cup {e} ELSE raced

\* delete({ email })
CodesDeleted(e) == [k \in Code |-> IF owner[k] = e /\ code[k] = "live" THEN "gone" ELSE code[k]]

-----------------------------------------------------------------------------
(* AuthService.register: createUser, createOtp, sendMail.                  *)

FindByEmail(c, e) ==
  /\ ~Taken(e)
  /\ Begins(c, [Idle EXCEPT !.at = "insert", !.email = e])
  /\ UNCHANGED <<userVars, codeVars, mailed, tokens, ghostVars>>

\* The unique constraint on users.email decides between two registrations.
InsertUser(c) ==
  LET e == call[c].email IN
  /\ At(c, "insert")
  /\ ~Taken(e)
  /\ \E u \in User :
       /\ account[u] = "none"
       /\ account' = [account EXCEPT ![u] = "live"]
       /\ address' = [address EXCEPT ![u] = e]
       /\ had' = [had EXCEPT ![u] = {e}]
       /\ Go(c, [call[c] EXCEPT !.at = "role", !.user = u])
  /\ UNCHANGED <<active, version, member, codeVars, mailed, tokens,
                 logouts, granted, tries, used, raced, registered, requests>>

\* Fault: a role that cannot be assigned is shrugged off.
AssignRoleUnchecked(c) ==
  /\ At(c, "role")
  /\ member' \in {member, member \cup {call[c].user}}
  /\ Go(c, [call[c] EXCEPT !.at = "forget"])
  /\ UNCHANGED <<account, address, active, version, codeVars, mailed, tokens, ghostVars, requests>>

\* assignDefaultUserRole; the foreign key wants the account to be there still.
AssignRole(c) ==
  /\ At(c, "role")
  /\ account[call[c].user] = "live"
  /\ member' = member \cup {call[c].user}
  /\ Go(c, [call[c] EXCEPT !.at = "forget"])
  /\ UNCHANGED <<account, address, active, version, codeVars, mailed, tokens, ghostVars, requests>>

ForgetCodes(c) ==
  /\ At(c, "forget")
  /\ code' = CodesDeleted(call[c].email)
  /\ MarkRaced(call[c].email)
  /\ Go(c, [call[c] EXCEPT !.at = "code"])
  /\ UNCHANGED <<userVars, owner, attempts, created, clock, expired, mailed, tokens,
                 logouts, had, granted, tries, used, registered, requests>>

SaveCode(c) ==
  /\ At(c, "code")
  /\ clock < MaxInserts
  /\ \E k \in Code :
       /\ code[k] = "none"
       /\ code' = [code EXCEPT ![k] = "live"]
       /\ owner' = [owner EXCEPT ![k] = call[c].email]
       /\ created' = [created EXCEPT ![k] = clock + 1]
       /\ Go(c, [call[c] EXCEPT !.at = "mail", !.code = k])
  /\ clock' = clock + 1
  /\ UNCHANGED <<userVars, attempts, expired, mailed, tokens, ghostVars, requests>>

\* The mail may be on its way although sendMail reports a failure.
SendMail(c) ==
  /\ At(c, "mail")
  /\ mailed' = mailed \cup {call[c].code}
  /\ registered' \in {registered, registered \cup {call[c].user}}
  /\ Return(c)
  /\ UNCHANGED <<userVars, codeVars, tokens, logouts, had, granted, tries, used, raced, requests>>

-----------------------------------------------------------------------------
(* AuthService.verifyOTP and OtpService.verifyOtp.                         *)

\* Fault: the query does not ask for the email.
ValidForAnyone(k, e) == code[k] = "live" /\ k \notin expired

Valid(k, e) == code[k] = "live" /\ owner[k] = e /\ k \notin expired

Newest(k, e) == Valid(k, e) /\ \A j \in Code : Valid(j, e) => created[j] <= created[k]

\* Fault: one attempt too many.
ReadCodeOnceMore(c, e, guess) ==
  /\ guess \in mailed \cup {None}
  /\ \E k \in Code :
       /\ Newest(k, e) /\ attempts[k] <= MaxAttempts
       /\ Begins(c, [Idle EXCEPT !.at = "compare", !.email = e, !.code = k,
                                 !.guess = guess, !.seen = attempts[k]])
  /\ MarkRaced(e)
  /\ UNCHANGED <<userVars, codeVars, mailed, tokens, logouts, had, granted, tries,
                 used, registered>>

\* A guess is a code somebody was sent, or a wrong one.
ReadCode(c, e, guess) ==
  /\ guess \in mailed \cup {None}
  /\ \E k \in Code :
       /\ Newest(k, e) /\ attempts[k] < MaxAttempts
       /\ Begins(c, [Idle EXCEPT !.at = "compare", !.email = e, !.code = k,
                                 !.guess = guess, !.seen = attempts[k]])
  /\ MarkRaced(e)
  /\ UNCHANGED <<userVars, codeVars, mailed, tokens, logouts, had, granted, tries,
                 used, registered>>

RightCode(c) ==
  LET k == call[c].code IN
  /\ At(c, "compare") /\ call[c].guess = k
  /\ code' = CodesDeleted(call[c].email)
  /\ used' = used \cup {k}
  /\ Go(c, [call[c] EXCEPT !.at = "find"])
  /\ UNCHANGED <<userVars, owner, attempts, created, clock, expired, mailed, tokens,
                 logouts, had, granted, tries, raced, registered, requests>>

\* save() writes the count that follows the one that was read.  A row that is
\* gone is written anew, with a new created_at, or, when it goes between the two
\* statements of save(), not at all.
WrongCode(c) ==
  LET k    == call[c].code
      seen == call[c].seen + 1 IN
  /\ At(c, "compare") /\ call[c].guess # k
  /\ \/ /\ code[k] = "live"
        /\ attempts' = [attempts EXCEPT ![k] = seen]
        /\ UNCHANGED <<code, created, clock>>
     \/ /\ code[k] = "gone" /\ clock < MaxInserts
        /\ code' = [code EXCEPT ![k] = "live"]
        /\ attempts' = [attempts EXCEPT ![k] = seen]
        /\ created' = [created EXCEPT ![k] = clock + 1]
        /\ clock' = clock + 1
     \/ code[k] = "gone" /\ UNCHANGED <<code, attempts, created, clock>>
  /\ tries' = [tries EXCEPT ![k] = @ + 1]
  /\ IF seen >= MaxAttempts THEN Go(c, [call[c] EXCEPT !.at = "burn"]) ELSE Return(c)
  /\ UNCHANGED <<userVars, owner, expired, mailed, tokens, logouts, had, granted,
                 used, raced, registered, requests>>

BurnCode(c) ==
  /\ At(c, "burn")
  /\ code' = [code EXCEPT ![call[c].code] = "gone"]
  /\ Return(c)
  /\ UNCHANGED <<userVars, owner, attempts, created, clock, expired, mailed, tokens, ghostVars, requests>>

\* The account is looked up by the email, not by the user_id of the code; a
\* code that expired during the comparison is refused, deleted as it is.
FindVerified(c) ==
  /\ At(c, "find")
  /\ \/ \E u \in User :
          /\ call[c].code \notin expired
          /\ Holds(u, call[c].email)
          /\ Go(c, [call[c] EXCEPT !.at = "activate", !.user = u])
     \/ /\ call[c].code \in expired \/ ~Taken(call[c].email)
        /\ Return(c)
  /\ UNCHANGED <<userVars, codeVars, mailed, tokens, ghostVars, requests>>

Activate(c) ==
  LET u == call[c].user IN
  /\ At(c, "activate")
  /\ active' = [active EXCEPT ![u] = @ \/ account[u] = "live"]
  /\ Return(c)
  /\ UNCHANGED <<account, address, version, member, codeVars, mailed, tokens, ghostVars, requests>>

\* OtpService.removeExpiredOtps, every five minutes.
Expire(k) ==
  /\ code[k] # "none"
  /\ expired' = expired \cup {k}
  /\ UNCHANGED <<userVars, code, owner, attempts, created, clock, mailed, tokens, call, ghostVars, requests>>

RemoveExpiredOtps ==
  /\ code' = [k \in Code |-> IF k \in expired /\ code[k] = "live" THEN "gone" ELSE code[k]]
  /\ UNCHANGED <<userVars, owner, attempts, created, clock, expired, mailed, tokens, call, ghostVars, requests>>

-----------------------------------------------------------------------------
(* login, refresh, logout, and the guard of every other request.  A pair   *)
(* of tokens carries the account and its tokenVersion; since is the number *)
(* of logouts before the login it goes back to.                            *)

\* JwtAuthGuard.canActivate; it does not ask for isActive.
Accepted(t) == account[t.user] = "live" /\ version[t.user] = t.ver

ReadForLogin(c, u) ==
  /\ account[u] = "live" /\ active[u]
  /\ Begins(c, [Idle EXCEPT !.at = "sign", !.user = u, !.seen = version[u],
                            !.since = logouts[u]])
  /\ UNCHANGED <<userVars, codeVars, mailed, tokens, ghostVars>>

\* Fault: the version in the refresh token is not compared.
ReadForRefreshUnchecked(c, t) ==
  /\ account[t.user] = "live" /\ active[t.user]
  /\ Begins(c, [Idle EXCEPT !.at = "sign", !.user = t.user, !.seen = version[t.user],
                            !.since = t.since])
  /\ UNCHANGED <<userVars, codeVars, mailed, tokens, ghostVars>>

ReadForRefresh(c, t) ==
  /\ account[t.user] = "live" /\ active[t.user] /\ version[t.user] = t.ver
  /\ Begins(c, [Idle EXCEPT !.at = "sign", !.user = t.user, !.seen = version[t.user],
                            !.since = t.since])
  /\ UNCHANGED <<userVars, codeVars, mailed, tokens, ghostVars>>

\* createTokenPair, with the version that was read before.
Sign(c) ==
  /\ At(c, "sign")
  /\ tokens' = tokens \cup {[user |-> call[c].user, ver |-> call[c].seen,
                             since |-> call[c].since]}
  /\ Return(c)
  /\ UNCHANGED <<userVars, codeVars, mailed, ghostVars, requests>>

\* incrementTokenVersion, one statement; any genuine token of the account will
\* do, also one that is not accepted any more.
Logout(t) ==
  LET u == t.user IN
  /\ Counted
  /\ account[u] = "live"
  /\ version' = [version EXCEPT ![u] = @ + 1]
  /\ logouts' = [logouts EXCEPT ![u] = @ + 1]
  /\ UNCHANGED <<account, address, active, member, codeVars, mailed, tokens, call,
                 had, granted, tries, used, raced, registered>>

-----------------------------------------------------------------------------
(* UsersController: PUT /users/me and /users/:id, DELETE /users/:id.       *)

\* updateUser writes the fields it is given and no other; a new email is not
\* verified again.
UpdateUser(u, e, on) ==
  /\ Counted
  /\ account[u] = "live"
  /\ address[u] = e \/ ~Taken(e)
  /\ address' = [address EXCEPT ![u] = e]
  /\ active' = [active EXCEPT ![u] = on]
  /\ had' = [had EXCEPT ![u] = @ \cup {e}]
  /\ granted' = IF on /\ ~active[u] THEN granted \cup {u} ELSE granted
  /\ UNCHANGED <<account, version, member, codeVars, mailed, tokens, call,
                 logouts, tries, used, raced, registered>>

\* The roles go with the account, its one-time codes stay.
DeleteUser(u) ==
  /\ Counted
  /\ account[u] = "live"
  /\ account' = [account EXCEPT ![u] = "gone"]
  /\ member' = member \ {u}
  /\ UNCHANGED <<address, active, version, codeVars, mailed, tokens, call, ghostVars>>

\* An await rejects, or the process restarts.
Fail(c) ==
  /\ ~At(c, "idle")
  /\ Return(c)
  /\ UNCHANGED <<userVars, codeVars, mailed, tokens, ghostVars, requests>>

Next ==
  \/ \E c \in Caller :
       \/ \E e \in Email : FindByEmail(c, e)
       \/ \E e \in Email, guess \in Code \cup {None} : ReadCode(c, e, guess)
       \/ InsertUser(c) \/ AssignRole(c) \/ ForgetCodes(c) \/ SaveCode(c) \/ SendMail(c)
       \/ RightCode(c) \/ WrongCode(c) \/ BurnCode(c) \/ FindVerified(c) \/ Activate(c)
       \/ \E u \in User : ReadForLogin(c, u)
       \/ \E t \in tokens : ReadForRefresh(c, t)
       \/ Sign(c) \/ Fail(c)
  \/ \E t \in tokens : Logout(t)
  \/ \E u \in User, e \in Email, on \in BOOLEAN : UpdateUser(u, e, on)
  \/ \E u \in User : DeleteUser(u)
  \/ \E k \in Code : Expire(k)
  \/ RemoveExpiredOtps

Spec == Init /\ [][Next]_vars

-----------------------------------------------------------------------------
(* Properties.                                                             *)

\* A logout ends every session that began before it, those kept alive by
\* refreshing included and whatever login or refresh was under way; and until
\* a logout comes, a session stays accepted.
TokensFollowLogouts ==
  \A t \in tokens :
    account[t.user] = "live" => (Accepted(t) <=> logouts[t.user] = t.since)

\* A session is one login, however often it is refreshed, and those between the
\* same two logouts are one: they begin and end together.  It is open as long as
\* a token of it is accepted.
SessionOf(t) == <<t.user, t.since>>

Abstract == INSTANCE Sessions
              WITH MaxLogouts <- MaxRequests,
                   begun <- {SessionOf(t) : t \in tokens},
                   open  <- {SessionOf(t) : t \in {x \in tokens : Accepted(x)}}

\* Logins, refreshes, logouts and deletions of accounts, interleaved anyhow, do
\* what Sessions says: no refresh and no late login opens a session again that
\* was over, and all sessions of an account that are open end in one step.
ImplementsSessions == Abstract!SessionsSpec

\* As long as no two operations on the codes of an email overlap, the email has
\* at most one row, that of the last code made for it; a code is tried at most
\* MaxAttempts times, and one that was accepted or tried that often is refused.
\* When they do overlap, attempts can be lost and a deleted code come back.
QuietCodesAreExact ==
  \A e \in Email \ raced : \A k \in Code :
    owner[k] = e =>
      /\ tries[k] <= MaxAttempts
      /\ code[k] = "live" =>
           /\ k \notin used
           /\ attempts[k] = tries[k]
           /\ \A j \in Code \ {k} : owner[j] = e =>
                code[j] # "live" /\ created[j] < created[k]

\* An account that is active was made so by updateUser, or by a code that was
\* sent to an email of that account, however its email changed meanwhile and
\* whichever codes came back.
ActivationIsEarned ==
  \A u \in User :
    active[u] => u \in granted \/ \E k \in mailed : owner[k] \in had[u]

\* Who is told that the registration succeeded has an account with the role
\* of a user and was sent a code for its email; a registration that fails half
\* way is never answered like that.
RegisteredIsComplete ==
  \A u \in registered :
    /\ account[u] = "live" => u \in member
    /\ \E k \in mailed : owner[k] \in had[u]

\* The rest of the inductive invariant.  Versions count logouts, in tokens and
\* in requests that are about to sign one.
VersionsCountLogouts ==
  /\ version = logouts
  /\ \A t \in tokens : t.ver = t.since
  /\ \A c \in Caller : At(c, "sign") => call[c].user \in User /\ call[c].seen = call[c].since

\* What a request knows of the account and of the code it is about.
CallsAreSound ==
  \A c \in Caller :
    /\ call[c].at \in {"insert", "role", "forget", "code", "mail",
                       "compare", "burn", "find", "activate"} => call[c].email \in Email
    /\ call[c].at \in {"role", "forget", "code", "mail", "activate"} =>
         /\ call[c].user \in User
         /\ account[call[c].user] # "none"
         /\ call[c].email \in had[call[c].user]
    /\ call[c].at \in {"forget", "code", "mail"} /\ account[call[c].user] = "live" =>
         call[c].user \in member
    /\ call[c].at \in {"mail", "compare", "burn", "find", "activate"} =>
         /\ call[c].code \in Code
         /\ code[call[c].code] # "none"
         /\ owner[call[c].code] = call[c].email
    /\ At(c, "compare") => call[c].guess \in mailed \cup {None} /\ call[c].seen < MaxAttempts
    /\ call[c].at \in {"find", "activate"} => call[c].code \in mailed

\* Nothing is known of an id before it is used.
UnusedIsClean ==
  /\ \A u \in User : account[u] = "none" => ~active[u] /\ u \notin registered
  /\ \A u \in User : account[u] = "live" => address[u] \in had[u]
  /\ \A k \in Code : created[k] <= clock
  /\ \A k \in Code : code[k] = "none" =>
       /\ owner[k] = None /\ attempts[k] = 0 /\ tries[k] = 0
       /\ k \notin mailed /\ k \notin used

\* While nothing overlaps for an email, the one operation under way still
\* stands where it looked.
QuietCallsAreAlone ==
  \A c \in Caller :
    call[c].at \in {"code", "compare", "burn"} /\ call[c].email \notin raced =>
      /\ \A d \in Caller \ {c} :
           call[d].at \in {"code", "compare", "burn"} => call[d].email # call[c].email
      /\ At(c, "code") => \A k \in Code : owner[k] = call[c].email => code[k] # "live"
      /\ At(c, "compare") =>
           LET k == call[c].code IN
           /\ k \notin used
           /\ attempts[k] = tries[k] /\ tries[k] = call[c].seen
           /\ \A j \in Code \ {k} : owner[j] = call[c].email =>
                code[j] # "live" /\ created[j] < created[k]

IndInv ==
  /\ TypeOK
  /\ VersionsCountLogouts /\ CallsAreSound /\ UnusedIsClean
  /\ QuietCallsAreAlone /\ QuietCodesAreExact
  /\ ActivationIsEarned /\ RegisteredIsComplete

\* No session and no request about to sign is ahead of the logouts, and none is
\* of an account that does not exist yet: what ImplementsSessions needs besides.
SessionsArePast ==
  /\ \A u \in User : logouts[u] <= requests
  /\ \A t \in tokens : t.since <= logouts[t.user] /\ account[t.user] # "none"
  /\ \A c \in Caller : At(c, "sign") =>
       call[c].since <= logouts[call[c].user] /\ account[call[c].user] # "none"
=============================================================================
