--------------------------- MODULE Accounts_proofs ---------------------------
(***************************************************************************)
(* Proofs about Accounts, for every number of accounts, codes, callers and *)
(* requests: sessions end with a logout, codes are exact while nothing     *)
(* overlaps, and registration and activation are what they claim to be.    *)
(***************************************************************************)
EXTENDS Accounts, TLAPS

\* The empty tables satisfy the invariant.
LEMMA InitStep == Init => IndInv
BY AccountsAssumption
   DEF Init, Idle, At, IndInv, TypeOK, Calls, Steps, VersionsCountLogouts, CallsAreSound,
       UnusedIsClean, QuietCallsAreAlone, QuietCodesAreExact, ActivationIsEarned,
       RegisteredIsComplete

\* Each step of a request keeps it.
LEMMA StepIndInv == IndInv /\ [Next]_vars => IndInv'
<1> SUFFICES ASSUME IndInv, [Next]_vars PROVE IndInv'
  OBVIOUS
<1> USE AccountsAssumption DEF IndInv, Idle, Begins, At, Go, Return, Counted,
             vars, userVars, codeVars, ghostVars
<1>a. \A c \in Caller : call[c] \in Calls
  BY DEF TypeOK
<1>b. Idle \in Calls
  BY DEF Calls, Steps
<1>c. \A c \in Caller :
        /\ call[c].at \in Steps /\ call[c].email \in Email \cup {None}
        /\ call[c].user \in User \cup {None} /\ call[c].code \in Code \cup {None}
        /\ call[c].seen \in Nat /\ call[c].since \in Nat
  BY <1>a DEF Calls
<1>1. ASSUME NEW c \in Caller, NEW e \in Email, FindByEmail(c, e) PROVE IndInv'
  <2>1. TypeOK'
    <3>1. [Idle EXCEPT !.at = "insert", !.email = e] \in Calls
      BY <1>1, <1>a, <1>b DEF FindByEmail, Calls, Steps
    <3>2. call' \in [Caller -> Calls]
      BY <1>1, <3>1 DEF FindByEmail, TypeOK
    <3> QED BY <1>1, <3>2 DEF FindByEmail, TypeOK
  <2>2. VersionsCountLogouts'
    BY <1>1 DEF FindByEmail, VersionsCountLogouts
  <2>3. CallsAreSound'
    BY <1>1 DEF FindByEmail, CallsAreSound, UnusedIsClean
  <2>4. UnusedIsClean'
    BY <1>1 DEF FindByEmail, UnusedIsClean
  <2>5. QuietCallsAreAlone'
    BY <1>1 DEF FindByEmail, QuietCallsAreAlone, QuietCodesAreExact
  <2>6. QuietCodesAreExact'
    BY <1>1 DEF FindByEmail, QuietCodesAreExact
  <2>7. ActivationIsEarned'
    BY <1>1 DEF FindByEmail, ActivationIsEarned
  <2>8. RegisteredIsComplete'
    BY <1>1 DEF FindByEmail, RegisteredIsComplete
  <2> QED BY <2>1, <2>2, <2>3, <2>4, <2>5, <2>6, <2>7, <2>8
<1>2. ASSUME NEW c \in Caller, InsertUser(c) PROVE IndInv'
  <2>1. TypeOK'
    <3>0. PICK u \in User :
      /\ account' = [account EXCEPT ![u] = "live"]
      /\ address' = [address EXCEPT ![u] = call[c].email]
      /\ had' = [had EXCEPT ![u] = {call[c].email}]
      /\ call' = [call EXCEPT ![c] = [call[c] EXCEPT !.at = "role", !.user = u]]
      BY <1>2 DEF InsertUser
    <3>1. [call[c] EXCEPT !.at = "role", !.user = u] \in Calls
      BY <1>2, <3>0, <1>a, <1>b DEF InsertUser, Calls, Steps, CallsAreSound
    <3>2. call' \in [Caller -> Calls]
      BY <1>2, <3>0, <3>1 DEF InsertUser, TypeOK
    <3> QED BY <1>2, <3>0, <3>2, <1>c DEF InsertUser, TypeOK, CallsAreSound
  <2>2. VersionsCountLogouts'
    BY <1>2 DEF InsertUser, VersionsCountLogouts, TypeOK
  <2>3. CallsAreSound'
    BY <1>2 DEF InsertUser, CallsAreSound, UnusedIsClean, TypeOK
  <2>4. UnusedIsClean'
    BY <1>2 DEF InsertUser, UnusedIsClean, TypeOK
  <2>5. QuietCallsAreAlone'
    BY <1>2 DEF InsertUser, QuietCallsAreAlone, QuietCodesAreExact
  <2>6. QuietCodesAreExact'
    BY <1>2 DEF InsertUser, QuietCodesAreExact, UnusedIsClean
  <2>7. ActivationIsEarned'
    BY <1>2 DEF InsertUser, ActivationIsEarned, UnusedIsClean
  <2>8. RegisteredIsComplete'
    BY <1>2 DEF InsertUser, RegisteredIsComplete, UnusedIsClean
  <2> QED BY <2>1, <2>2, <2>3, <2>4, <2>5, <2>6, <2>7, <2>8
<1>3. ASSUME NEW c \in Caller, AssignRole(c) PROVE IndInv'
  <2>1. TypeOK'
    <3>1. [call[c] EXCEPT !.at = "forget"] \in Calls
      BY <1>3, <1>a, <1>b DEF AssignRole, Calls, Steps, CallsAreSound
    <3>2. call' \in [Caller -> Calls]
      BY <1>3, <3>1 DEF AssignRole, TypeOK
    <3> QED BY <1>3, <3>2, <1>c DEF AssignRole, TypeOK, CallsAreSound
  <2>2. VersionsCountLogouts'
    BY <1>3 DEF AssignRole, VersionsCountLogouts
  <2>3. CallsAreSound'
    BY <1>3 DEF AssignRole, CallsAreSound, UnusedIsClean
  <2>4. UnusedIsClean'
    BY <1>3 DEF AssignRole, UnusedIsClean
  <2>5. QuietCallsAreAlone'
    BY <1>3 DEF AssignRole, QuietCallsAreAlone, QuietCodesAreExact
  <2>6. QuietCodesAreExact'
    BY <1>3 DEF AssignRole, QuietCodesAreExact
  <2>7. ActivationIsEarned'
    BY <1>3 DEF AssignRole, ActivationIsEarned
  <2>8. RegisteredIsComplete'
    BY <1>3 DEF AssignRole, RegisteredIsComplete
  <2> QED BY <2>1, <2>2, <2>3, <2>4, <2>5, <2>6, <2>7, <2>8
<1>4. ASSUME NEW c \in Caller, ForgetCodes(c) PROVE IndInv'
  <2>1. TypeOK'
    <3>1. [call[c] EXCEPT !.at = "code"] \in Calls
      BY <1>4, <1>a, <1>b DEF ForgetCodes, Calls, Steps, CodesDeleted, MarkRaced, CallsAreSound
    <3>2. call' \in [Caller -> Calls]
      BY <1>4, <3>1 DEF ForgetCodes, TypeOK
    <3> QED BY <1>4, <3>2, <1>c DEF ForgetCodes, TypeOK, CodesDeleted, MarkRaced, CallsAreSound
  <2>2. VersionsCountLogouts'
    BY <1>4 DEF ForgetCodes, CodesDeleted, VersionsCountLogouts
  <2>3. CallsAreSound'
    BY <1>4 DEF ForgetCodes, CodesDeleted, CallsAreSound, UnusedIsClean
  <2>4. UnusedIsClean'
    BY <1>4 DEF ForgetCodes, CodesDeleted, MarkRaced, UnusedIsClean
  <2>5. QuietCallsAreAlone'
    BY <1>4 DEF ForgetCodes, CodesDeleted, MarkRaced, QuietCallsAreAlone,
       QuietCodesAreExact, Busy
  <2>6. QuietCodesAreExact'
    BY <1>4 DEF ForgetCodes, CodesDeleted, MarkRaced, QuietCodesAreExact
  <2>7. ActivationIsEarned'
    BY <1>4 DEF ForgetCodes, ActivationIsEarned
  <2>8. RegisteredIsComplete'
    BY <1>4 DEF ForgetCodes, RegisteredIsComplete
  <2> QED BY <2>1, <2>2, <2>3, <2>4, <2>5, <2>6, <2>7, <2>8
<1>5. ASSUME NEW c \in Caller, SaveCode(c) PROVE IndInv'
  <2>1. TypeOK'
    <3>0. PICK k \in Code :
      /\ code' = [code EXCEPT ![k] = "live"]
      /\ owner' = [owner EXCEPT ![k] = call[c].email]
      /\ created' = [created EXCEPT ![k] = clock + 1]
      /\ call' = [call EXCEPT ![c] = [call[c] EXCEPT !.at = "mail", !.code = k]]
      BY <1>5 DEF SaveCode
    <3>1. [call[c] EXCEPT !.at = "mail", !.code = k] \in Calls
      BY <1>5, <3>0, <1>a, <1>b DEF SaveCode, Calls, Steps
    <3>2. call' \in [Caller -> Calls]
      BY <1>5, <3>0, <3>1 DEF SaveCode, TypeOK
    <3> QED BY <1>5, <3>0, <3>2, <1>c DEF SaveCode, TypeOK
  <2>2. VersionsCountLogouts'
    BY <1>5 DEF SaveCode, VersionsCountLogouts, TypeOK
  <2>3. CallsAreSound'
    BY <1>5 DEF SaveCode, CallsAreSound, UnusedIsClean, TypeOK
  <2>4. UnusedIsClean'
    BY <1>5 DEF SaveCode, UnusedIsClean, TypeOK
  <2>5. QuietCallsAreAlone'
    BY <1>5 DEF SaveCode, QuietCallsAreAlone, QuietCodesAreExact, UnusedIsClean,
       TypeOK
  <2>6. QuietCodesAreExact'
    BY <1>5 DEF SaveCode, QuietCodesAreExact, QuietCallsAreAlone, UnusedIsClean,
       TypeOK
  <2>7. ActivationIsEarned'
    BY <1>5 DEF SaveCode, ActivationIsEarned, UnusedIsClean
  <2>8. RegisteredIsComplete'
    BY <1>5 DEF SaveCode, RegisteredIsComplete, UnusedIsClean
  <2> QED BY <2>1, <2>2, <2>3, <2>4, <2>5, <2>6, <2>7, <2>8
<1>6. ASSUME NEW c \in Caller, SendMail(c) PROVE IndInv'
  <2>1. TypeOK'
    <3>2. call' \in [Caller -> Calls] BY <1>6, <1>b DEF SendMail, TypeOK
    <3> QED BY <1>6, <3>2, <1>c DEF SendMail, TypeOK, CallsAreSound
  <2>2. VersionsCountLogouts'
    BY <1>6 DEF SendMail, VersionsCountLogouts
  <2>3. CallsAreSound'
    BY <1>6 DEF SendMail, CallsAreSound, UnusedIsClean
  <2>4. UnusedIsClean'
    BY <1>6 DEF SendMail, UnusedIsClean, CallsAreSound
  <2>5. QuietCallsAreAlone'
    BY <1>6 DEF SendMail, QuietCallsAreAlone, QuietCodesAreExact
  <2>6. QuietCodesAreExact'
    BY <1>6 DEF SendMail, QuietCodesAreExact
  <2>7. ActivationIsEarned'
    BY <1>6 DEF SendMail, ActivationIsEarned, CallsAreSound
  <2>8. RegisteredIsComplete'
    BY <1>6 DEF SendMail, RegisteredIsComplete, CallsAreSound
  <2> QED BY <2>1, <2>2, <2>3, <2>4, <2>5, <2>6, <2>7, <2>8
<1>7. ASSUME NEW c \in Caller, NEW e \in Email, NEW guess \in Code \cup {None}, ReadCode(c, e, guess) PROVE IndInv'
  <2>1. TypeOK'
    <3>0. PICK k \in Code :
      call' = [call EXCEPT ![c] = [Idle EXCEPT !.at = "compare", !.email = e, !.code = k,
                                               !.guess = guess, !.seen = attempts[k]]]
      BY <1>7 DEF ReadCode
    <3>1. attempts[k] \in Nat
      BY DEF TypeOK
    <3>2. [Idle EXCEPT !.at = "compare", !.email = e, !.code = k,
                       !.guess = guess, !.seen = attempts[k]] \in Calls
      BY <3>1 DEF Calls, Steps
    <3>3. call' \in [Caller -> Calls]
      BY <3>0, <3>2 DEF TypeOK
    <3>4. raced' \in SUBSET Email /\ requests' \in 0..MaxRequests
      BY <1>7 DEF ReadCode, MarkRaced, TypeOK
    <3> QED BY <1>7, <3>3, <3>4 DEF ReadCode, TypeOK
  <2>2. VersionsCountLogouts'
    BY <1>7 DEF ReadCode, Newest, Valid, VersionsCountLogouts
  <2>3. CallsAreSound'
    BY <1>7 DEF ReadCode, Newest, Valid, CallsAreSound, UnusedIsClean
  <2>4. UnusedIsClean'
    BY <1>7 DEF ReadCode, MarkRaced, Newest, Valid, UnusedIsClean
  <2>5. QuietCallsAreAlone'
    BY <1>7 DEF ReadCode, MarkRaced, Newest, Valid, QuietCallsAreAlone,
       QuietCodesAreExact, Busy
  <2>6. QuietCodesAreExact'
    BY <1>7 DEF ReadCode, MarkRaced, QuietCodesAreExact
  <2>7. ActivationIsEarned'
    BY <1>7 DEF ReadCode, ActivationIsEarned
  <2>8. RegisteredIsComplete'
    BY <1>7 DEF ReadCode, RegisteredIsComplete
  <2> QED BY <2>1, <2>2, <2>3, <2>4, <2>5, <2>6, <2>7, <2>8
<1>8. ASSUME NEW c \in Caller, RightCode(c) PROVE IndInv'
  <2>1. TypeOK'
    <3>1. [call[c] EXCEPT !.at = "find"] \in Calls
      BY <1>8, <1>a, <1>b DEF RightCode, Calls, Steps, CodesDeleted, CallsAreSound
    <3>2. call' \in [Caller -> Calls]
      BY <1>8, <3>1 DEF RightCode, TypeOK
    <3> QED BY <1>8, <3>2, <1>c DEF RightCode, TypeOK, CodesDeleted, CallsAreSound
  <2>2. VersionsCountLogouts'
    BY <1>8 DEF RightCode, CodesDeleted, VersionsCountLogouts
  <2>3. CallsAreSound'
    BY <1>8 DEF RightCode, CodesDeleted, CallsAreSound, UnusedIsClean
  <2>4. UnusedIsClean'
    BY <1>8 DEF RightCode, CodesDeleted, UnusedIsClean, CallsAreSound, TypeOK
  <2>5. QuietCallsAreAlone'
    BY <1>8 DEF RightCode, CodesDeleted, QuietCallsAreAlone, QuietCodesAreExact,
       CallsAreSound, TypeOK
  <2>6. QuietCodesAreExact'
    BY <1>8 DEF RightCode, CodesDeleted, QuietCodesAreExact, CallsAreSound
  <2>7. ActivationIsEarned'
    BY <1>8 DEF RightCode, ActivationIsEarned
  <2>8. RegisteredIsComplete'
    BY <1>8 DEF RightCode, RegisteredIsComplete
  <2> QED BY <2>1, <2>2, <2>3, <2>4, <2>5, <2>6, <2>7, <2>8
<1>9. ASSUME NEW c \in Caller, WrongCode(c) PROVE IndInv'
  <2>1. TypeOK'
    <3>1. [call[c] EXCEPT !.at = "burn"] \in Calls
      BY <1>a DEF Calls, Steps
    <3>2. \/ call' = [call EXCEPT ![c] = [call[c] EXCEPT !.at = "burn"]]
          \/ call' = [call EXCEPT ![c] = Idle]
      BY <1>9 DEF WrongCode
    <3>3. call' \in [Caller -> Calls]
      BY <1>b, <3>1, <3>2 DEF TypeOK
    <3>4. /\ call[c].code \in Code /\ call[c].seen + 1 \in 0..MaxAttempts
          /\ clock' \in Nat /\ created' \in [Code -> Nat]
      BY <1>9, <1>c DEF WrongCode, CallsAreSound, TypeOK
    <3>5. attempts' \in [Code -> 0..MaxAttempts] /\ code' \in [Code -> {"none", "live", "gone"}]
      BY <1>9, <3>4 DEF WrongCode, TypeOK
    <3>6. tries' \in [Code -> Nat]
      BY <1>9, <3>4 DEF WrongCode, TypeOK
    <3> QED BY <1>9, <3>3, <3>4, <3>5, <3>6 DEF WrongCode, TypeOK
  <2>2. VersionsCountLogouts'
    BY <1>9 DEF WrongCode, VersionsCountLogouts, TypeOK, Calls
  <2>3. CallsAreSound'
    <3>1. /\ \A d \in Caller \ {c} : call'[d] = call[d]
          /\ \/ call'[c] = Idle
             \/ call'[c] = [call[c] EXCEPT !.at = "burn"]
      BY <1>9 DEF WrongCode, TypeOK
    <3>2. /\ call[c].email \in Email /\ call[c].code \in Code
          /\ code[call[c].code] # "none" /\ owner[call[c].code] = call[c].email
      BY <1>9 DEF WrongCode, CallsAreSound
    <3>3. \A k \in Code : code[k] # "none" => code'[k] # "none"
      BY <1>9 DEF WrongCode, TypeOK
    <3>4. UNCHANGED <<account, had, member, owner, mailed>>
      BY <1>9 DEF WrongCode
    <3>5. /\ call'[c].at \in {"burn", "idle"}
          /\ call'[c].at = "burn" =>
               call'[c].email = call[c].email /\ call'[c].code = call[c].code
      BY <3>1, <1>a DEF Calls
    <3>6. ASSUME NEW d \in Caller \ {c} PROVE CallsAreSound!(d)'
      BY <3>1, <3>3, <3>4 DEF CallsAreSound
    <3>7. CallsAreSound!(c)'
      BY <3>2, <3>3, <3>4, <3>5
    <3> QED BY <3>6, <3>7 DEF CallsAreSound
  <2>4. UnusedIsClean'
    BY <1>9 DEF WrongCode, UnusedIsClean, TypeOK
  <2>5. QuietCallsAreAlone'
    <3>1. /\ call[c].code \in Code /\ owner[call[c].code] = call[c].email
          /\ \A d \in Caller \ {c} : call'[d] = call[d]
          /\ call'[c].at \in {"burn", "idle"}
          /\ call'[c].at = "burn" => call'[c].email = call[c].email
          /\ \A k \in Code \ {call[c].code} :
               code'[k] = code[k] /\ attempts'[k] = attempts[k]
                 /\ tries'[k] = tries[k] /\ created'[k] = created[k]
          /\ UNCHANGED <<owner, raced, used>>
      BY <1>9 DEF WrongCode, CallsAreSound, TypeOK, Calls
    <3>2. \A d \in Caller \ {c} :
            call[d].at \in {"code", "compare", "burn"} /\ call[d].email \notin raced =>
              call[d].email # call[c].email
      BY <1>9 DEF WrongCode, QuietCallsAreAlone
    <3> QED BY <1>9, <3>1, <3>2 DEF WrongCode, QuietCallsAreAlone, CallsAreSound
  <2>6. QuietCodesAreExact'
    BY <1>9 DEF WrongCode, QuietCodesAreExact, QuietCallsAreAlone,
       CallsAreSound, UnusedIsClean, TypeOK
  <2>7. ActivationIsEarned'
    BY <1>9 DEF WrongCode, ActivationIsEarned
  <2>8. RegisteredIsComplete'
    BY <1>9 DEF WrongCode, RegisteredIsComplete
  <2> QED BY <2>1, <2>2, <2>3, <2>4, <2>5, <2>6, <2>7, <2>8
<1>10. ASSUME NEW c \in Caller, BurnCode(c) PROVE IndInv'
  <2>1. TypeOK'
    <3>2. call' \in [Caller -> Calls]
      BY <1>10, <1>b DEF BurnCode, TypeOK
    <3> QED BY <1>10, <3>2, <1>c DEF BurnCode, TypeOK
  <2>2. VersionsCountLogouts'
    BY <1>10 DEF BurnCode, VersionsCountLogouts
  <2>3. CallsAreSound'
    BY <1>10 DEF BurnCode, CallsAreSound, UnusedIsClean
  <2>4. UnusedIsClean'
    BY <1>10 DEF BurnCode, UnusedIsClean
  <2>5. QuietCallsAreAlone'
    BY <1>10 DEF BurnCode, QuietCallsAreAlone, QuietCodesAreExact
  <2>6. QuietCodesAreExact'
    BY <1>10 DEF BurnCode, QuietCodesAreExact
  <2>7. ActivationIsEarned'
    BY <1>10 DEF BurnCode, ActivationIsEarned
  <2>8. RegisteredIsComplete'
    BY <1>10 DEF BurnCode, RegisteredIsComplete
  <2> QED BY <2>1, <2>2, <2>3, <2>4, <2>5, <2>6, <2>7, <2>8
<1>11. ASSUME NEW c \in Caller, FindVerified(c) PROVE IndInv'
  <2>a. UNCHANGED <<userVars, codeVars, mailed, tokens, ghostVars, requests>> /\ At(c, "find")
    BY <1>11 DEF FindVerified
  <2>b. \E r \in Calls :
          /\ call' = [call EXCEPT ![c] = r]
          /\ r.at \in {"activate", "idle"}
          /\ r.at = "activate" =>
               /\ r.user \in User /\ account[r.user] = "live"
               /\ address[r.user] = call[c].email
               /\ r.email = call[c].email /\ r.code = call[c].code
    <3>1. CASE \E u \in User : Holds(u, call[c].email)
                 /\ Go(c, [call[c] EXCEPT !.at = "activate", !.user = u])
      <4>1. PICK u \in User : /\ account[u] = "live" /\ address[u] = call[c].email
                             /\ call' = [call EXCEPT ![c] = [call[c] EXCEPT !.at = "activate", !.user = u]]
        BY <3>1 DEF Holds
      <4>2. [call[c] EXCEPT !.at = "activate", !.user = u] \in Calls
        BY <1>a DEF Calls, Steps
      <4>3. /\ [call[c] EXCEPT !.at = "activate", !.user = u].at = "activate"
            /\ [call[c] EXCEPT !.at = "activate", !.user = u].user = u
            /\ [call[c] EXCEPT !.at = "activate", !.user = u].email = call[c].email
            /\ [call[c] EXCEPT !.at = "activate", !.user = u].code = call[c].code
        BY <1>a DEF Calls
      <4> QED BY <4>1, <4>2, <4>3
    <3>2. CASE call' = [call EXCEPT ![c] = Idle]
      BY <3>2, <1>b
    <3> QED BY <1>11, <3>1, <3>2 DEF FindVerified
  <2>c. PICK r \in Calls :
          /\ call' = [call EXCEPT ![c] = r]
          /\ r.at \in {"activate", "idle"}
          /\ r.at = "activate" =>
               /\ r.user \in User /\ account[r.user] = "live"
               /\ address[r.user] = call[c].email
               /\ r.email = call[c].email /\ r.code = call[c].code
    BY <2>b
  <2>1. TypeOK' BY <2>a, <2>c DEF TypeOK
  <2>2. VersionsCountLogouts' BY <2>a, <2>c DEF VersionsCountLogouts, TypeOK
  <2>3. CallsAreSound' BY <2>a, <2>c DEF CallsAreSound, UnusedIsClean, TypeOK
  <2>4. UnusedIsClean'
    BY <1>11 DEF FindVerified, UnusedIsClean
  <2>5. QuietCallsAreAlone' BY <2>a, <2>c DEF QuietCallsAreAlone, TypeOK
  <2>6. QuietCodesAreExact' BY <2>a, <2>c DEF QuietCodesAreExact, TypeOK
  <2>7. ActivationIsEarned'
    BY <1>11 DEF FindVerified, ActivationIsEarned
  <2>8. RegisteredIsComplete'
    BY <1>11 DEF FindVerified, RegisteredIsComplete
  <2> QED BY <2>1, <2>2, <2>3, <2>4, <2>5, <2>6, <2>7, <2>8
<1>12. ASSUME NEW c \in Caller, Activate(c) PROVE IndInv'
  <2>1. TypeOK'
    <3>2. call' \in [Caller -> Calls]
      BY <1>12, <1>b DEF Activate, TypeOK
    <3> QED BY <1>12, <3>2, <1>c DEF Activate, TypeOK
  <2>2. VersionsCountLogouts'
    BY <1>12 DEF Activate, VersionsCountLogouts
  <2>3. CallsAreSound'
    BY <1>12 DEF Activate, CallsAreSound, UnusedIsClean, TypeOK
  <2>4. UnusedIsClean'
    BY <1>12 DEF Activate, UnusedIsClean, TypeOK
  <2>5. QuietCallsAreAlone'
    BY <1>12 DEF Activate, QuietCallsAreAlone, QuietCodesAreExact
  <2>6. QuietCodesAreExact'
    BY <1>12 DEF Activate, QuietCodesAreExact, CallsAreSound
  <2>7. ActivationIsEarned'
    BY <1>12 DEF Activate, ActivationIsEarned, CallsAreSound
  <2>8. RegisteredIsComplete'
    BY <1>12 DEF Activate, RegisteredIsComplete
  <2> QED BY <2>1, <2>2, <2>3, <2>4, <2>5, <2>6, <2>7, <2>8
<1>13. ASSUME NEW c \in Caller, NEW u \in User, ReadForLogin(c, u) PROVE IndInv'
  <2>1. TypeOK'
    <3>1. [Idle EXCEPT !.at = "sign", !.user = u, !.seen = version[u], !.since = logouts[u]] \in Calls
      BY <1>13, <1>a, <1>b DEF ReadForLogin, Calls, Steps, TypeOK
    <3>2. call' \in [Caller -> Calls]
      BY <1>13, <3>1 DEF ReadForLogin, TypeOK
    <3>3. requests' \in 0..MaxRequests
      BY <1>13 DEF ReadForLogin, TypeOK
    <3>4. UNCHANGED <<userVars, codeVars, mailed, tokens, ghostVars>>
      BY <1>13 DEF ReadForLogin
    <3> QED BY <3>2, <3>3, <3>4 DEF TypeOK
  <2>2. VersionsCountLogouts'
    BY <1>13 DEF ReadForLogin, VersionsCountLogouts
  <2>3. CallsAreSound'
    BY <1>13 DEF ReadForLogin, CallsAreSound, UnusedIsClean
  <2>4. UnusedIsClean'
    BY <1>13 DEF ReadForLogin, UnusedIsClean
  <2>5. QuietCallsAreAlone'
    BY <1>13 DEF ReadForLogin, QuietCallsAreAlone, QuietCodesAreExact
  <2>6. QuietCodesAreExact'
    BY <1>13 DEF ReadForLogin, QuietCodesAreExact
  <2>7. ActivationIsEarned'
    BY <1>13 DEF ReadForLogin, ActivationIsEarned
  <2>8. RegisteredIsComplete'
    BY <1>13 DEF ReadForLogin, RegisteredIsComplete
  <2> QED BY <2>1, <2>2, <2>3, <2>4, <2>5, <2>6, <2>7, <2>8
<1>14. ASSUME NEW c \in Caller, NEW t \in tokens, ReadForRefresh(c, t) PROVE IndInv'
  <2>1. TypeOK'
    <3>1. [Idle EXCEPT !.at = "sign", !.user = t.user, !.seen = version[t.user], !.since = t.since] \in Calls
      BY <1>14, <1>a, <1>b DEF ReadForRefresh, Calls, Steps, TypeOK, Tokens
    <3>2. call' \in [Caller -> Calls]
      BY <1>14, <3>1 DEF ReadForRefresh, TypeOK
    <3> QED BY <1>14, <3>2 DEF ReadForRefresh, TypeOK, TypeOK, Tokens
  <2>2. VersionsCountLogouts'
    BY <1>14 DEF ReadForRefresh, VersionsCountLogouts, TypeOK, Tokens
  <2>3. CallsAreSound'
    BY <1>14 DEF ReadForRefresh, CallsAreSound, UnusedIsClean
  <2>4. UnusedIsClean'
    BY <1>14 DEF ReadForRefresh, UnusedIsClean
  <2>5. QuietCallsAreAlone'
    BY <1>14 DEF ReadForRefresh, QuietCallsAreAlone, QuietCodesAreExact
  <2>6. QuietCodesAreExact'
    BY <1>14 DEF ReadForRefresh, QuietCodesAreExact
  <2>7. ActivationIsEarned'
    BY <1>14 DEF ReadForRefresh, ActivationIsEarned
  <2>8. RegisteredIsComplete'
    BY <1>14 DEF ReadForRefresh, RegisteredIsComplete
  <2> QED BY <2>1, <2>2, <2>3, <2>4, <2>5, <2>6, <2>7, <2>8
<1>15. ASSUME NEW c \in Caller, Sign(c) PROVE IndInv'
  <2>1. TypeOK'
    <3>2. call' \in [Caller -> Calls] BY <1>15, <1>b DEF Sign, TypeOK
    <3> QED BY <1>15, <3>2, <1>c DEF Sign, TypeOK, Tokens, VersionsCountLogouts
  <2>2. VersionsCountLogouts'
    BY <1>15 DEF Sign, VersionsCountLogouts
  <2>3. CallsAreSound'
    BY <1>15 DEF Sign, CallsAreSound, UnusedIsClean
  <2>4. UnusedIsClean'
    BY <1>15 DEF Sign, UnusedIsClean
  <2>5. QuietCallsAreAlone'
    BY <1>15 DEF Sign, QuietCallsAreAlone, QuietCodesAreExact
  <2>6. QuietCodesAreExact'
    BY <1>15 DEF Sign, QuietCodesAreExact
  <2>7. ActivationIsEarned'
    BY <1>15 DEF Sign, ActivationIsEarned
  <2>8. RegisteredIsComplete'
    BY <1>15 DEF Sign, RegisteredIsComplete
  <2> QED BY <2>1, <2>2, <2>3, <2>4, <2>5, <2>6, <2>7, <2>8
<1>16. ASSUME NEW c \in Caller, Fail(c) PROVE IndInv'
  <2>1. TypeOK'
    <3>2. call' \in [Caller -> Calls] BY <1>16, <1>b DEF Fail, TypeOK
    <3> QED BY <1>16, <3>2 DEF Fail, TypeOK
  <2>2. VersionsCountLogouts'
    BY <1>16 DEF Fail, VersionsCountLogouts
  <2>3. CallsAreSound'
    BY <1>16 DEF Fail, CallsAreSound, UnusedIsClean
  <2>4. UnusedIsClean'
    BY <1>16 DEF Fail, UnusedIsClean
  <2>5. QuietCallsAreAlone'
    BY <1>16 DEF Fail, QuietCallsAreAlone, QuietCodesAreExact
  <2>6. QuietCodesAreExact'
    BY <1>16 DEF Fail, QuietCodesAreExact
  <2>7. ActivationIsEarned'
    BY <1>16 DEF Fail, ActivationIsEarned
  <2>8. RegisteredIsComplete'
    BY <1>16 DEF Fail, RegisteredIsComplete
  <2> QED BY <2>1, <2>2, <2>3, <2>4, <2>5, <2>6, <2>7, <2>8
<1>17. ASSUME NEW t \in tokens, Logout(t) PROVE IndInv'
  <2>1. TypeOK'
    BY <1>17 DEF Logout, TypeOK, Tokens
  <2>2. VersionsCountLogouts'
    BY <1>17 DEF Logout, VersionsCountLogouts
  <2>3. CallsAreSound'
    BY <1>17 DEF Logout, CallsAreSound, UnusedIsClean
  <2>4. UnusedIsClean'
    BY <1>17 DEF Logout, UnusedIsClean
  <2>5. QuietCallsAreAlone'
    BY <1>17 DEF Logout, QuietCallsAreAlone, QuietCodesAreExact
  <2>6. QuietCodesAreExact'
    BY <1>17 DEF Logout, QuietCodesAreExact
  <2>7. ActivationIsEarned'
    BY <1>17 DEF Logout, ActivationIsEarned
  <2>8. RegisteredIsComplete'
    BY <1>17 DEF Logout, RegisteredIsComplete
  <2> QED BY <2>1, <2>2, <2>3, <2>4, <2>5, <2>6, <2>7, <2>8
<1>18. ASSUME NEW u \in User, NEW e \in Email, NEW on \in BOOLEAN, UpdateUser(u, e, on) PROVE IndInv'
  <2>1. TypeOK'
    BY <1>18 DEF UpdateUser, TypeOK
  <2>2. VersionsCountLogouts'
    BY <1>18 DEF UpdateUser, VersionsCountLogouts
  <2>3. CallsAreSound'
    BY <1>18 DEF UpdateUser, CallsAreSound, UnusedIsClean, TypeOK
  <2>4. UnusedIsClean'
    BY <1>18 DEF UpdateUser, UnusedIsClean, TypeOK
  <2>5. QuietCallsAreAlone'
    BY <1>18 DEF UpdateUser, QuietCallsAreAlone, QuietCodesAreExact
  <2>6. QuietCodesAreExact'
    BY <1>18 DEF UpdateUser, QuietCodesAreExact
  <2>7. ActivationIsEarned'
    BY <1>18 DEF UpdateUser, ActivationIsEarned
  <2>8. RegisteredIsComplete'
    BY <1>18 DEF UpdateUser, RegisteredIsComplete
  <2> QED BY <2>1, <2>2, <2>3, <2>4, <2>5, <2>6, <2>7, <2>8
<1>19. ASSUME NEW u \in User, DeleteUser(u) PROVE IndInv'
  <2>1. TypeOK'
    BY <1>19 DEF DeleteUser, TypeOK
  <2>2. VersionsCountLogouts'
    BY <1>19 DEF DeleteUser, VersionsCountLogouts, TypeOK
  <2>3. CallsAreSound'
    BY <1>19 DEF DeleteUser, CallsAreSound, UnusedIsClean, TypeOK
  <2>4. UnusedIsClean'
    BY <1>19 DEF DeleteUser, UnusedIsClean
  <2>5. QuietCallsAreAlone'
    BY <1>19 DEF DeleteUser, QuietCallsAreAlone, QuietCodesAreExact
  <2>6. QuietCodesAreExact'
    BY <1>19 DEF DeleteUser, QuietCodesAreExact
  <2>7. ActivationIsEarned'
    BY <1>19 DEF DeleteUser, ActivationIsEarned, TypeOK
  <2>8. RegisteredIsComplete'
    BY <1>19 DEF DeleteUser, RegisteredIsComplete, TypeOK
  <2> QED BY <2>1, <2>2, <2>3, <2>4, <2>5, <2>6, <2>7, <2>8
<1>20. ASSUME NEW k \in Code, Expire(k) PROVE IndInv'
  <2>1. TypeOK'
    BY <1>20 DEF Expire, TypeOK
  <2>2. VersionsCountLogouts'
    BY <1>20 DEF Expire, VersionsCountLogouts
  <2>3. CallsAreSound'
    BY <1>20 DEF Expire, CallsAreSound, UnusedIsClean
  <2>4. UnusedIsClean'
    BY <1>20 DEF Expire, UnusedIsClean
  <2>5. QuietCallsAreAlone'
    BY <1>20 DEF Expire, QuietCallsAreAlone, QuietCodesAreExact
  <2>6. QuietCodesAreExact'
    BY <1>20 DEF Expire, QuietCodesAreExact
  <2>7. ActivationIsEarned'
    BY <1>20 DEF Expire, ActivationIsEarned
  <2>8. RegisteredIsComplete'
    BY <1>20 DEF Expire, RegisteredIsComplete
  <2> QED BY <2>1, <2>2, <2>3, <2>4, <2>5, <2>6, <2>7, <2>8
<1>21. ASSUME RemoveExpiredOtps PROVE IndInv'
  <2>1. TypeOK'
    BY <1>21 DEF RemoveExpiredOtps, TypeOK
  <2>2. VersionsCountLogouts'
    BY <1>21 DEF RemoveExpiredOtps, VersionsCountLogouts
  <2>3. CallsAreSound'
    BY <1>21 DEF RemoveExpiredOtps, CallsAreSound, UnusedIsClean
  <2>4. UnusedIsClean'
    BY <1>21 DEF RemoveExpiredOtps, UnusedIsClean
  <2>5. QuietCallsAreAlone'
    BY <1>21 DEF RemoveExpiredOtps, QuietCallsAreAlone, QuietCodesAreExact
  <2>6. QuietCodesAreExact'
    BY <1>21 DEF RemoveExpiredOtps, QuietCodesAreExact
  <2>7. ActivationIsEarned'
    BY <1>21 DEF RemoveExpiredOtps, ActivationIsEarned
  <2>8. RegisteredIsComplete'
    BY <1>21 DEF RemoveExpiredOtps, RegisteredIsComplete
  <2> QED BY <2>1, <2>2, <2>3, <2>4, <2>5, <2>6, <2>7, <2>8
<1>22. CASE UNCHANGED vars
  BY <1>22 DEF TypeOK, Calls, Tokens, VersionsCountLogouts, CallsAreSound, UnusedIsClean, QuietCallsAreAlone, QuietCodesAreExact, ActivationIsEarned, RegisteredIsComplete
<1> QED BY <1>1, <1>2, <1>3, <1>4, <1>5, <1>6, <1>7, <1>8, <1>9, <1>10, <1>11, <1>12, <1>13, <1>14, <1>15, <1>16, <1>17, <1>18, <1>19, <1>20, <1>21, <1>22 DEF Next

\* The inductive invariant of accounts, codes, sessions and the requests under way.
THEOREM Invariance == Spec => []IndInv
BY InitStep, StepIndInv, PTL DEF Spec

\* Every variable keeps its type; in particular attempts never pass the limit.
THEOREM TypeCorrect == Spec => []TypeOK
BY Invariance, PTL DEF IndInv

\* A session is accepted until its account is logged out, and never after.
THEOREM LogoutsEndSessions == Spec => []TokensFollowLogouts
<1>1. IndInv => TokensFollowLogouts
  BY DEF IndInv, TypeOK, Tokens, VersionsCountLogouts, TokensFollowLogouts, Accepted
<1> QED
  BY <1>1, Invariance, PTL

\* An email whose operations never overlapped has one code, with an exact count.
THEOREM QuietCodesStayExact == Spec => []QuietCodesAreExact
BY Invariance, PTL DEF IndInv

\* No account is activated but by updateUser or by a code sent to its email.
THEOREM ActivationStaysEarned == Spec => []ActivationIsEarned
BY Invariance, PTL DEF IndInv

\* A registration that was answered left an account with its role and a code.
THEOREM RegistrationIsComplete == Spec => []RegisteredIsComplete
BY Invariance, PTL DEF IndInv

-----------------------------------------------------------------------------
(* Sessions.                                                               *)

\* The steps that sessions do not notice: they leave accounts, versions and
\* tokens alone, and no request comes to sign a pair by them.
QuietStep ==
  /\ UNCHANGED <<account, version, tokens, logouts>>
  /\ requests' >= requests
  /\ \A c \in Caller : At(c, "sign")' => call'[c] = call[c]

\* Every step is one of those, or one of six actions.
LEMMA SessionSteps ==
  ASSUME IndInv, [Next]_vars
  PROVE  \/ QuietStep
         \/ \E c \in Caller, u \in User : ReadForLogin(c, u)
         \/ \E c \in Caller, t \in tokens : ReadForRefresh(c, t)
         \/ \E c \in Caller : InsertUser(c) \/ Sign(c)
         \/ \E t \in tokens : Logout(t)
         \/ \E u \in User : DeleteUser(u)
<1>1. TypeOK /\ requests \in Nat
  BY AccountsAssumption DEF IndInv, TypeOK
<1>2. ASSUME NEW c \in Caller
      PROVE  /\ call \in [Caller -> Calls] /\ call[c] \in Calls
             /\ Idle.at = "idle"
  BY <1>1 DEF TypeOK, Idle
<1>3. ASSUME NEW c \in Caller,
             \/ \E e \in Email : FindByEmail(c, e)
             \/ \E e \in Email, guess \in Code \cup {None} : ReadCode(c, e, guess)
      PROVE  QuietStep
  <2>1. /\ UNCHANGED <<account, version, tokens, logouts>> /\ requests' = requests + 1
    BY <1>3 DEF FindByEmail, ReadCode, Begins, Counted, userVars, ghostVars
  <2>2. /\ call'[c].at # "sign"
        /\ \A d \in Caller \ {c} : call'[d] = call[d]
    <3>1. ASSUME NEW e \in Email, FindByEmail(c, e)
          PROVE  /\ call'[c].at # "sign"
                 /\ \A d \in Caller \ {c} : call'[d] = call[d]
      BY <1>1, <3>1 DEF FindByEmail, Begins, Idle, TypeOK
    <3>2. ASSUME NEW e \in Email, NEW guess \in Code \cup {None}, ReadCode(c, e, guess)
          PROVE  /\ call'[c].at # "sign"
                 /\ \A d \in Caller \ {c} : call'[d] = call[d]
      <4>1. PICK k \in Code :
              call' = [call EXCEPT ![c] = [Idle EXCEPT !.at = "compare", !.email = e,
                           !.code = k, !.guess = guess, !.seen = attempts[k]]]
        BY <3>2 DEF ReadCode, Begins
      <4> QED BY <1>1, <4>1 DEF Idle, TypeOK
    <3> QED BY <1>3, <3>1, <3>2
  <2> QED BY <1>1, <2>1, <2>2 DEF QuietStep, At
<1>4. ASSUME NEW c \in Caller,
             \/ AssignRole(c) \/ ForgetCodes(c) \/ SaveCode(c) \/ SendMail(c)
             \/ RightCode(c) \/ WrongCode(c) \/ BurnCode(c) \/ FindVerified(c)
             \/ Activate(c) \/ Fail(c)
      PROVE  QuietStep
  <2>1. UNCHANGED <<account, version, tokens, logouts, requests>>
    BY <1>4 DEF AssignRole, ForgetCodes, SaveCode, SendMail, RightCode, WrongCode, BurnCode,
       FindVerified, Activate, Fail, userVars, ghostVars
  <2>2. /\ call'[c].at # "sign"
        /\ \A d \in Caller \ {c} : call'[d] = call[d]
    <3>1. CASE Return(c)
      BY <1>2, <3>1 DEF Return
    <3>3. CASE AssignRole(c)
      BY <1>2, <3>3 DEF AssignRole, Go, Calls
    <3>4. CASE ForgetCodes(c)
      BY <1>2, <3>4 DEF ForgetCodes, Go, Calls
    <3>5. CASE RightCode(c)
      BY <1>2, <3>5 DEF RightCode, Go, Calls
    <3>6. CASE SaveCode(c)
      BY <1>2, <3>6 DEF SaveCode, Go, Calls
    <3>7. CASE WrongCode(c)
      <4>1. Return(c) \/ Go(c, [call[c] EXCEPT !.at = "burn"])
        BY <3>7 DEF WrongCode
      <4> QED BY <1>2, <3>1, <4>1 DEF Go, Calls
    <3>8. CASE FindVerified(c)
      <4>1. Return(c) \/ \E u \in User : Go(c, [call[c] EXCEPT !.at = "activate", !.user = u])
        BY <3>8 DEF FindVerified
      <4> QED BY <1>2, <3>1, <4>1 DEF Go, Calls
    <3>9. SendMail(c) \/ BurnCode(c) \/ Activate(c) \/ Fail(c) => Return(c)
      BY DEF SendMail, BurnCode, Activate, Fail
    <3> QED BY <1>4, <3>1, <3>3, <3>4, <3>5, <3>6, <3>7, <3>8, <3>9
  <2> QED BY <1>1, <2>1, <2>2 DEF QuietStep, At
<1>5. ASSUME \/ \E u \in User, e \in Email, on \in BOOLEAN : UpdateUser(u, e, on)
             \/ \E k \in Code : Expire(k)
             \/ RemoveExpiredOtps
             \/ UNCHANGED vars
      PROVE  QuietStep
  <2>1. UNCHANGED <<account, version, tokens, logouts, call>> /\ requests' \in {requests, requests + 1}
    BY <1>5 DEF UpdateUser, Expire, RemoveExpiredOtps, Counted, vars, userVars, ghostVars
  <2> QED BY <1>1, <2>1 DEF QuietStep
<1> QED BY <1>3, <1>4, <1>5 DEF Next

\* Sessions stay behind the logouts of accounts that exist.
LEMMA SessionsStayPast ==
  ASSUME IndInv, SessionsArePast, [Next]_vars
  PROVE  SessionsArePast'
<1> USE DEF SessionsArePast
<1>1. /\ TypeOK /\ requests \in Nat /\ \A u \in User : logouts[u] \in Nat
      /\ \A c \in Caller : At(c, "sign") => call[c].user \in User
      /\ \A c \in Caller : call[c].since \in Nat
      /\ \A t \in tokens : t.user \in User /\ t.since \in Nat
  BY AccountsAssumption DEF IndInv, TypeOK, Tokens, Calls, VersionsCountLogouts
<1>2. CASE QuietStep
  <2>1. UNCHANGED <<account, tokens, logouts>> /\ requests' >= requests
    BY <1>2 DEF QuietStep
  <2>2. \A c \in Caller : call'[c].at = "sign" => call'[c] = call[c]
    BY <1>2 DEF QuietStep, At
  <2>3. requests' \in Nat
    BY StepIndInv, AccountsAssumption DEF IndInv, TypeOK
  <2> QED BY <1>1, <2>1, <2>2, <2>3 DEF At
<1>3. ASSUME NEW c \in Caller, NEW u \in User, ReadForLogin(c, u) PROVE SessionsArePast'
  <2>1. /\ UNCHANGED <<account, tokens, logouts>> /\ requests' = requests + 1
        /\ account[u] # "none"
    BY <1>3 DEF ReadForLogin, Begins, Counted, userVars, ghostVars
  <2>2. /\ call'[c].user = u /\ call'[c].since = logouts[u]
        /\ \A d \in Caller \ {c} : call'[d] = call[d]
    BY <1>1, <1>3 DEF ReadForLogin, Begins, Idle, TypeOK
  <2> QED BY <1>1, <2>1, <2>2 DEF At
<1>4. ASSUME NEW c \in Caller, NEW t \in tokens, ReadForRefresh(c, t) PROVE SessionsArePast'
  <2>1. /\ UNCHANGED <<account, tokens, logouts>> /\ requests' = requests + 1
    BY <1>4 DEF ReadForRefresh, Begins, Counted, userVars, ghostVars
  <2>2. /\ call'[c].user = t.user /\ call'[c].since = t.since
        /\ \A d \in Caller \ {c} : call'[d] = call[d]
    BY <1>1, <1>4 DEF ReadForRefresh, Begins, Idle, TypeOK
  <2> QED BY <1>1, <2>1, <2>2 DEF At
<1>5. ASSUME NEW c \in Caller, InsertUser(c) PROVE SessionsArePast'
  <2>1. PICK u \in User :
          /\ account' = [account EXCEPT ![u] = "live"]
          /\ Go(c, [call[c] EXCEPT !.at = "role", !.user = u])
    BY <1>5 DEF InsertUser
  <2>2. UNCHANGED <<tokens, logouts, requests>>
    BY <1>5 DEF InsertUser
  <2>3. [call[c] EXCEPT !.at = "role", !.user = u].at # "sign"
    BY <1>1 DEF TypeOK, Calls
  <2>4. \A d \in Caller : At(d, "sign")' => call'[d] = call[d]
    BY <1>1, <2>1, <2>3 DEF Go, At, TypeOK
  <2>5. \A v \in User : account[v] # "none" => account'[v] # "none"
    BY <1>1, <2>1 DEF TypeOK
  <2> QED BY <1>1, <2>2, <2>4, <2>5 DEF At
<1>6. ASSUME NEW c \in Caller, Sign(c) PROVE SessionsArePast'
  <2> DEFINE t == [user |-> call[c].user, ver |-> call[c].seen, since |-> call[c].since]
  <2>1. /\ tokens' = tokens \cup {t} /\ At(c, "sign")
        /\ UNCHANGED <<account, logouts, requests>>
        /\ call' = [call EXCEPT ![c] = Idle]
    BY <1>6 DEF Sign, Return, userVars, ghostVars
  <2>2. \A d \in Caller : At(d, "sign")' => call'[d] = call[d]
    BY <1>1, <2>1 DEF Idle, At, TypeOK
  <2>3. t.since =< logouts[t.user] /\ account[t.user] # "none"
    BY <2>1
  <2> QED BY <1>1, <2>1, <2>2, <2>3 DEF At
<1>7. ASSUME NEW t \in tokens, Logout(t) PROVE SessionsArePast'
  <2>1. /\ UNCHANGED <<account, tokens, call>> /\ requests' = requests + 1
        /\ logouts' = [logouts EXCEPT ![t.user] = @ + 1]
    BY <1>7 DEF Logout, Counted
  <2>2. \A u \in User : logouts'[u] \in {logouts[u], logouts[u] + 1}
    BY <1>1, <2>1 DEF TypeOK
  <2> QED BY <1>1, <2>1, <2>2 DEF At
<1>8. ASSUME NEW u \in User, DeleteUser(u) PROVE SessionsArePast'
  <2>1. /\ UNCHANGED <<tokens, call, logouts>> /\ requests' = requests + 1
        /\ account' = [account EXCEPT ![u] = "gone"]
    BY <1>8 DEF DeleteUser, Counted, ghostVars
  <2>2. \A v \in User : account[v] # "none" => account'[v] # "none"
    BY <1>1, <2>1 DEF TypeOK
  <2> QED BY <1>1, <2>1, <2>2 DEF At
<1> QED BY <1>2, <1>3, <1>4, <1>5, <1>6, <1>7, <1>8, SessionSteps

\* A step begins one session, ends all those of one account, or does nothing.
LEMMA SessionsRefined ==
  ASSUME IndInv, SessionsArePast, [Next]_vars
  PROVE  [Abstract!NextSessions]_Abstract!sessionVars
<1> DEFINE begun == {SessionOf(t) : t \in tokens}
           open  == {SessionOf(t) : t \in {x \in tokens : Accepted(x)}}
<1>1. /\ TypeOK /\ requests \in Nat /\ requests =< MaxRequests /\ MaxRequests \in Nat
      /\ \A u \in User : version[u] = logouts[u] /\ logouts[u] \in Nat /\ logouts[u] =< requests
      /\ \A t \in tokens : /\ t \in Tokens /\ t.user \in User /\ t.since \in Nat
                           /\ t.ver = t.since /\ t.since =< logouts[t.user]
                           /\ account[t.user] # "none"
  BY AccountsAssumption DEF IndInv, TypeOK, Tokens, VersionsCountLogouts, SessionsArePast
\* A pair of tokens is its session: the version is the number of logouts.
<1>2. \A t, x \in tokens : SessionOf(t) = SessionOf(x) => t = x
  BY <1>1 DEF SessionOf, Tokens
<1>3. ASSUME UNCHANGED tokens, \A t \in tokens : Accepted(t)' <=> Accepted(t)
      PROVE  UNCHANGED Abstract!sessionVars
  <2>1. \A t : SessionOf(t)' = SessionOf(t)
    BY DEF SessionOf
  <2> QED BY <1>3, <2>1 DEF Abstract!sessionVars, SessionOf
<1>4. ASSUME NEW u \in User, UNCHANGED tokens,
             \A t \in tokens : Accepted(t)' <=> Accepted(t) /\ t.user # u
      PROVE  Abstract!NextSessions
  <2>1. Abstract!EndAll(u)
    BY <1>4 DEF Abstract!EndAll, SessionOf
  <2> QED BY <2>1 DEF Abstract!NextSessions
<1>5. CASE QuietStep \/ (\E c \in Caller, u \in User : ReadForLogin(c, u))
                     \/ (\E c \in Caller, t \in tokens : ReadForRefresh(c, t))
  <2>1. UNCHANGED <<account, version, tokens>>
    BY <1>5 DEF QuietStep, ReadForLogin, ReadForRefresh, userVars
  <2> QED BY <1>3, <2>1 DEF Accepted
<1>6. ASSUME NEW c \in Caller, InsertUser(c) PROVE UNCHANGED Abstract!sessionVars
  <2>1. PICK u \in User : account[u] = "none" /\ account' = [account EXCEPT ![u] = "live"]
    BY <1>6 DEF InsertUser
  <2>2. UNCHANGED <<version, tokens>>
    BY <1>6 DEF InsertUser
  <2>3. \A t \in tokens : account'[t.user] = account[t.user]
    BY <1>1, <2>1 DEF TypeOK
  <2> QED BY <1>3, <2>2, <2>3 DEF Accepted
<1>7. ASSUME NEW c \in Caller, Sign(c) PROVE [Abstract!NextSessions]_Abstract!sessionVars
  <2> DEFINE t == [user |-> call[c].user, ver |-> call[c].seen, since |-> call[c].since]
             s == SessionOf(t)
  <2>1. /\ tokens' = tokens \cup {t} /\ At(c, "sign")
        /\ UNCHANGED <<account, version>>
    BY <1>7 DEF Sign, userVars
  <2>2. /\ call[c].user \in User /\ call[c].seen = call[c].since /\ call[c].since \in Nat
        /\ call[c].since =< logouts[call[c].user]
    BY <1>1, <2>1 DEF IndInv, VersionsCountLogouts, SessionsArePast, TypeOK, Calls
  <2>3. \A x : Accepted(x)' <=> Accepted(x)
    BY <2>1 DEF Accepted
  <2>4. CASE t \in tokens
    BY <1>3, <2>1, <2>3, <2>4
  <2>5. CASE t \notin tokens
    <3>1. s \notin begun
      <4>1. SUFFICES ASSUME NEW x \in tokens, SessionOf(x) = s PROVE FALSE
        OBVIOUS
      <4>2. x.user = t.user /\ x.since = t.since /\ x.ver = t.ver
        BY <1>1, <2>2, <4>1 DEF SessionOf
      <4>3. x = t
        BY <1>1, <4>2 DEF Tokens
      <4> QED BY <2>5, <4>3
    <3>2. s \in Abstract!Session
      BY <1>1, <2>2 DEF Abstract!Session, SessionOf
    <3>3. begun' = begun \cup {s}
      BY <2>1 DEF SessionOf
    <3>4. open' = IF Accepted(t) THEN open \cup {s} ELSE open
      BY <2>1, <2>3 DEF SessionOf
    <3>5. Abstract!Begin(s)
      BY <3>1, <3>3, <3>4 DEF Abstract!Begin
    <3> QED BY <3>2, <3>5 DEF Abstract!NextSessions
  <2> QED BY <2>4, <2>5
<1>8. ASSUME NEW t \in tokens, Logout(t) PROVE Abstract!NextSessions
  <2>1. /\ UNCHANGED <<account, tokens>>
        /\ version' = [version EXCEPT ![t.user] = @ + 1]
    BY <1>8 DEF Logout
  <2>2. \A x \in tokens : Accepted(x)' <=> Accepted(x) /\ x.user # t.user
    BY <1>1, <2>1 DEF Accepted, TypeOK
  <2> QED BY <1>1, <1>4, <2>1, <2>2
<1>9. ASSUME NEW u \in User, DeleteUser(u) PROVE Abstract!NextSessions
  <2>1. /\ UNCHANGED <<version, tokens>>
        /\ account' = [account EXCEPT ![u] = "gone"]
    BY <1>9 DEF DeleteUser
  <2>2. \A x \in tokens : Accepted(x)' <=> Accepted(x) /\ x.user # u
    BY <1>1, <2>1 DEF Accepted, TypeOK
  <2> QED BY <1>4, <2>1, <2>2
<1> QED BY <1>5, <1>6, <1>7, <1>8, <1>9, SessionSteps

\* Accounts implement Sessions.
THEOREM AccountsImplementSessions == Spec => ImplementsSessions
<1>1. Init => SessionsArePast /\ Abstract!InitSessions
  BY AccountsAssumption DEF Init, Idle, At, SessionsArePast, Abstract!InitSessions
<1>2. IndInv /\ SessionsArePast /\ [Next]_vars => SessionsArePast'
  BY SessionsStayPast
<1>3. IndInv /\ SessionsArePast /\ [Next]_vars => [Abstract!NextSessions]_Abstract!sessionVars
  BY SessionsRefined
<1> QED
  BY <1>1, <1>2, <1>3, Invariance, PTL DEF Spec, ImplementsSessions, Abstract!SessionsSpec
=============================================================================
