---------------------------- MODULE AccountsProofs ----------------------------
(***************************************************************************)
(* Theorems about Accounts, for any number of users, tokens and requests   *)
(* and any times.                                                          *)
(***************************************************************************)
EXTENDS Accounts, FiniteSetTheorems, TLAPS

-----------------------------------------------------------------------------
\* The inductive invariant.

LoginLabels == {"find", "compare", "status"}
TokenLabels == {"get", "del", "owner", "save"}

\* A request is at the steps of its call, and a token that is presented has
\* been mailed.  Tokens are issued to registered users.
CallInv ==
  /\ \A r \in Requests :
       /\ pc[r] \in LoginLabels => call[r].kind = "login"
       /\ pc[r] \in TokenLabels => call[r].kind \in {"reset", "verify"}
       /\ pc[r] \in {"lookup", "store"} => call[r].kind = "forgot"
       /\ pc[r] = "insert" => call[r].kind = "register"
       /\ pc[r] = "store" => call[r].user \in registered
       /\ pc[r] # "idle" /\ call[r].kind \in {"reset", "verify"} => call[r].token \in mailed
       /\ pc[r] = "save" => Owner(r) \in registered
  /\ \A t \in Tokens : issued[t] # NotIssued => issued[t].user \in registered

\* A count of failures never exceeds the wrong passwords that there have been,
\* and a lock needs MaxFailed of them, in the database and in a request.
CountInv ==
  /\ \A u \in Users :
       /\ failed[u] <= Cardinality(Misses(u))
       /\ \A r \in Requests : pc[r] \in {"compare", "status"} /\ call[r].user = u =>
            snap[r].failed <= Cardinality(Misses(u))
       /\ lock[u] > 0 => failed[u] >= MaxFailed
  /\ \A r \in Requests :
       /\ pc[r] \in {"idle", "insert", "find", "compare"} => ~snap[r].missed
       /\ pc[r] = "compare" => snap[r].lock = 0
       /\ pc[r] = "status" /\ snap[r].lock > 0 => snap[r].failed >= MaxFailed

\* A login that has read what is still there has found no lock.
VersionInv ==
  \A r \in Requests : pc[r] \in {"compare", "status"} =>
    /\ snap[r].version <= version[call[r].user]
    /\ snap[r].version = version[call[r].user] => lock[call[r].user] = 0

\* Consumed and gone tokens have no key any more.
TokenInv ==
  \A r \in Requests :
    /\ Serves(r, {"owner", "save", "answered"}) => ttl[call[r].token] = 0
    /\ \A t \in snap[r].gone : issued[t] # NotIssued /\ ttl[t] = 0

IInv == TypeOK /\ CallInv /\ CountInv /\ VersionInv /\ TokenInv

-----------------------------------------------------------------------------
\* What requests know.

LEMMA EmptySnapFits == EmptySnap \in Snaps
BY AccountsAssumption DEF EmptySnap, Snaps, AnyPassword

\* What a request knows when it begins.
LEMMA FreshSnap ==
  ASSUME NEW gone \in SUBSET Tokens
  PROVE  LET s == [EmptySnap EXCEPT !.gone = gone]
         IN s \in Snaps /\ ~s.missed /\ s.gone = gone
BY EmptySnapFits DEF EmptySnap, Snaps

\* What a login knows when it has read the account.
LEMMA ReadSnap ==
  ASSUME TypeOK, NEW s \in Snaps, NEW u \in Users
  PROVE  LET new == [s EXCEPT !.password = password[u], !.verified = verified[u],
                              !.failed = failed[u], !.lock = lock[u], !.version = version[u]]
         IN /\ new \in Snaps
            /\ new.failed = failed[u] /\ new.lock = lock[u] /\ new.version = version[u]
            /\ new.missed = s.missed /\ new.gone = s.gone
<1> DEFINE new == [s EXCEPT !.password = password[u], !.verified = verified[u],
                            !.failed = failed[u], !.lock = lock[u], !.version = version[u]]
<1>1. /\ password[u] \in Passwords /\ verified[u] \in BOOLEAN
      /\ failed[u] \in Nat /\ lock[u] \in 0 .. LockTime /\ version[u] \in Nat
  BY AccountsAssumption DEF TypeOK
<1>2. new \in Snaps
  BY <1>1, ZenonT(30) DEF Snaps
<1>3. /\ new.failed = failed[u] /\ new.lock = lock[u] /\ new.version = version[u]
      /\ new.missed = s.missed /\ new.gone = s.gone
  BY DEF Snaps
<1> QED BY <1>2, <1>3

\* And when it has compared the password.
LEMMA ComparedSnap ==
  ASSUME NEW s \in Snaps
  PROVE  /\ RecordFailedLogin(s) \in Snaps
         /\ RecordFailedLogin(s).failed = s.failed + 1 /\ RecordFailedLogin(s).missed
         /\ RecordFailedLogin(s).lock = IF s.failed + 1 >= MaxFailed THEN LockTime ELSE s.lock
         /\ RecordFailedLogin(s).version = s.version /\ RecordFailedLogin(s).gone = s.gone
         /\ RecordSuccessfulLogin(s) \in Snaps
         /\ RecordSuccessfulLogin(s).lock = 0 /\ RecordSuccessfulLogin(s).failed = 0
         /\ RecordSuccessfulLogin(s).version = s.version /\ RecordSuccessfulLogin(s).gone = s.gone
         /\ RecordSuccessfulLogin(s).missed = s.missed
<1> DEFINE lost == IF s.failed + 1 >= MaxFailed THEN LockTime ELSE s.lock
<1>1. /\ s.failed \in Nat /\ s.failed + 1 \in Nat /\ lost \in 0 .. LockTime
      /\ s.password \in Passwords /\ s.verified \in BOOLEAN /\ s.version \in Nat
      /\ s.gone \in SUBSET Tokens /\ s.missed \in BOOLEAN
  BY AccountsAssumption DEF Snaps
<1>2. [s EXCEPT !.failed = s.failed + 1, !.missed = TRUE, !.lock = lost] \in Snaps
  <2> HIDE DEF lost
  <2> QED BY <1>1, ZenonT(30) DEF Snaps
<1>3. /\ RecordFailedLogin(s) \in Snaps
      /\ RecordFailedLogin(s).failed = s.failed + 1 /\ RecordFailedLogin(s).missed
      /\ RecordFailedLogin(s).lock = lost
      /\ RecordFailedLogin(s).version = s.version /\ RecordFailedLogin(s).gone = s.gone
  BY <1>2 DEF Snaps, RecordFailedLogin
<1>4. RecordSuccessfulLogin(s) \in Snaps
  <2>1. 0 \in Nat /\ 0 \in 0 .. LockTime
    BY AccountsAssumption
  <2> QED BY <1>1, <2>1, ZenonT(30) DEF Snaps, RecordSuccessfulLogin
<1>5. /\ RecordSuccessfulLogin(s).lock = 0 /\ RecordSuccessfulLogin(s).failed = 0
      /\ RecordSuccessfulLogin(s).version = s.version /\ RecordSuccessfulLogin(s).gone = s.gone
      /\ RecordSuccessfulLogin(s).missed = s.missed
  BY DEF Snaps, RecordSuccessfulLogin
<1> QED BY <1>3, <1>4, <1>5

LEMMA EarlierFits ==
  ASSUME NEW n \in Nat
  PROVE  /\ Earlier(n) \in Nat /\ Earlier(n) <= n
         /\ Earlier(n) = IF n > 0 THEN n - 1 ELSE 0
BY DEF Earlier

LEMMA AgedSnap ==
  ASSUME NEW s \in Snaps
  PROVE  LET new == [s EXCEPT !.lock = Earlier(@)]
         IN /\ new \in Snaps
            /\ new.lock = Earlier(s.lock)
            /\ new.failed = s.failed /\ new.version = s.version
            /\ new.missed = s.missed /\ new.gone = s.gone
<1>1. s.lock \in 0 .. LockTime
  BY DEF Snaps
<1>2. Earlier(s.lock) \in 0 .. LockTime
  BY <1>1, AccountsAssumption, EarlierFits
<1> QED BY <1>2 DEF Snaps

-----------------------------------------------------------------------------
\* Types.

\* The request whose step it is changes its label, and only that.
LEMMA LabelsKept ==
  ASSUME TypeOK, NEW r \in Requests,
         NEW label \in {"insert", "find", "compare", "status", "lookup", "store", "get", "del",
                        "owner", "save", "answered", "refused", "failed"},
         pc' = [pc EXCEPT ![r] = label]
  PROVE  pc' \in [Requests -> {"idle", "insert", "find", "compare", "status", "lookup", "store",
                               "get", "del", "owner", "save", "answered", "refused", "failed"}]
BY DEF TypeOK

LEMMA TypeKept == TypeOK /\ CallInv /\ [Next]_vars => TypeOK'
<1> SUFFICES ASSUME TypeOK, CallInv, [Next]_vars PROVE TypeOK'
  OBVIOUS
<1> USE AccountsAssumption
<1>1. ASSUME NEW r \in Requests, Begin(r) PROVE TypeOK'
  <2>1. Gone \in SUBSET Tokens
    BY DEF Gone
  <2>2. [EmptySnap EXCEPT !.gone = Gone] \in Snaps
    BY <2>1, FreshSnap
  <2>3. snap' \in [Requests -> Snaps] /\ UNCHANGED <<users, emails>>
    BY <1>1, <2>2 DEF Begin, TypeOK
  <2>4. PICK c \in Calls : call' = [call EXCEPT ![r] = c] /\ Goes(r, FirstStep(c))
    BY <1>1 DEF Begin
  <2>5. FirstStep(c) \in {"insert", "find", "lookup", "get", "refused"}
    <3>1. c.kind \in Kinds
      OBVIOUS
    <3> QED BY <3>1 DEF FirstStep, MeetsPolicy, Kinds
  <2>6. call' \in [Requests -> Calls]
    BY <2>4 DEF TypeOK
  <2> QED BY <2>3, <2>4, <2>5, <2>6, LabelsKept DEF TypeOK, Goes, users, emails
<1>2. ASSUME NEW r \in Requests, RegisterUser(r) PROVE TypeOK'
  <2> DEFINE u == call[r].user
  <2>1. u \in Users /\ call[r].password \in Passwords
    BY DEF TypeOK
  <2>2. CASE u \in registered
    BY <1>2, <2>2, LabelsKept DEF RegisterUser, Register, TypeOK, Goes
  <2>3. CASE u \notin registered
    <3>1. /\ registered' = registered \cup {u}
          /\ password' = [password EXCEPT ![u] = call[r].password]
          /\ asked' = asked \cup {[type |-> "verify", user |-> u]}
          /\ Ends(r, "answered")
          /\ UNCHANGED <<verified, failed, lock, version, issued, ttl, mailed, call, snap>>
      BY <1>2, <2>3 DEF RegisterUser, Register
    <3>2. asked' \subseteq [type : {"verify", "reset"}, user : registered']
      BY <3>1 DEF TypeOK
    <3>3. registered' \subseteq Users /\ password' \in [Users -> Passwords]
      BY <2>1, <3>1 DEF TypeOK
    <3> QED BY <3>1, <3>2, <3>3, LabelsKept DEF TypeOK, Ends, Goes
  <2> QED BY <2>2, <2>3
<1>3. ASSUME NEW r \in Requests, FindByEmailWithPassword(r) PROVE TypeOK'
  <2> DEFINE u == call[r].user
             read == [snap[r] EXCEPT !.password = password[u], !.verified = verified[u],
                        !.failed = failed[u], !.lock = lock[u], !.version = version[u]]
  <2>1. u \in Users /\ snap[r] \in Snaps
    BY DEF TypeOK
  <2>2. read \in Snaps
    BY <2>1, ReadSnap
  <2>3. snap' = snap \/ snap' = [snap EXCEPT ![r] = read]
    BY <1>3 DEF FindByEmailWithPassword, TypeOK
  <2>4. snap' \in [Requests -> Snaps]
    <3> HIDE DEF read
    <3> QED BY <2>2, <2>3 DEF TypeOK
  <2>5. Goes(r, "refused") \/ Goes(r, "compare")
    BY <1>3 DEF FindByEmailWithPassword
  <2>6. UNCHANGED <<users, emails, call>>
    BY <1>3 DEF FindByEmailWithPassword
  <2> QED BY <2>4, <2>5, <2>6, LabelsKept DEF TypeOK, Goes, users, emails
<1>4. ASSUME NEW r \in Requests, ComparePassword(r) PROVE TypeOK'
  <2>1. snap[r] \in Snaps
    BY DEF TypeOK
  <2>2. RecordFailedLogin(snap[r]) \in Snaps /\ RecordSuccessfulLogin(snap[r]) \in Snaps
    BY <2>1, ComparedSnap
  <2>3. snap' \in [Requests -> Snaps]
    BY <1>4, <2>2 DEF ComparePassword, TypeOK
  <2> QED BY <1>4, <2>3, LabelsKept DEF ComparePassword, TypeOK, Goes, users, emails
<1>5. ASSUME NEW r \in Requests, UpdateLoginStatus(r) PROVE TypeOK'
  <2>1. snap[r].failed \in Nat /\ snap[r].lock \in 0 .. LockTime /\ call[r].user \in Users
    BY DEF TypeOK, Snaps
  <2>2. failed' \in [Users -> Nat] /\ version' \in [Users -> Nat]
    BY <1>5, <2>1 DEF UpdateLoginStatus, TypeOK
  <2>3. lock' \in [Users -> 0 .. LockTime]
    BY <1>5, <2>1 DEF UpdateLoginStatus, TypeOK
  <2>4. Ends(r, "refused") \/ Ends(r, "answered")
    BY <1>5 DEF UpdateLoginStatus
  <2>5. UNCHANGED <<registered, password, verified, emails, call, snap>>
    BY <1>5 DEF UpdateLoginStatus, WriteNothingElse
  <2> QED BY <2>2, <2>3, <2>4, <2>5, LabelsKept DEF TypeOK, Ends, Goes, emails
<1>6. ASSUME NEW r \in Requests, LookUpEmail(r) PROVE TypeOK'
  BY <1>6, LabelsKept DEF LookUpEmail, TypeOK, Goes, users, emails
<1>7. ASSUME NEW r \in Requests, StoreResetRequested(r) PROVE TypeOK'
  <2>1. call[r].user \in registered
    BY <1>7 DEF StoreResetRequested, CallInv
  <2>2. asked' \subseteq [type : {"verify", "reset"}, user : registered]
    BY <1>7, <2>1 DEF StoreResetRequested, TypeOK
  <2> QED BY <1>7, <2>2, LabelsKept DEF StoreResetRequested, TypeOK, Ends, Goes, users
<1>8. ASSUME NEW t \in Tokens, GenerateToken(t) PROVE TypeOK'
  <2>1. PICK ask \in asked :
          /\ issued' = [issued EXCEPT ![t] = ask]
          /\ ttl' = [ttl EXCEPT ![t] = IF ask.type = "verify" THEN VerifyTtl ELSE ResetTtl]
    BY <1>8 DEF GenerateToken
  <2>2. ask \in Asks
    BY DEF TypeOK, Asks
  <2>3. issued' \in [Tokens -> Asks \cup {NotIssued}] /\ ttl' \in [Tokens -> Nat]
    BY <2>1, <2>2 DEF TypeOK
  <2>4. mailed' \subseteq {x \in Tokens : issued'[x] # NotIssued}
    BY <1>8, <2>1 DEF GenerateToken, TypeOK
  <2> QED BY <1>8, <2>3, <2>4 DEF GenerateToken, TypeOK, users
<1>9. ASSUME NEW t \in Tokens, SendEmail(t) PROVE TypeOK'
  BY <1>9 DEF SendEmail, TypeOK, users
<1>10. ASSUME NEW r \in Requests, GetToken(r) PROVE TypeOK'
  BY <1>10, LabelsKept DEF GetToken, TypeOK, Goes, users, emails
<1>11. ASSUME NEW r \in Requests, DelToken(r) PROVE TypeOK'
  BY <1>11, LabelsKept DEF DelToken, TypeOK, Goes, users
<1>12. ASSUME NEW r \in Requests, FindOwner(r) PROVE TypeOK'
  BY <1>12, LabelsKept DEF FindOwner, TypeOK, Goes, users, emails
<1>13. ASSUME NEW r \in Requests, UpdatePassword(r) PROVE TypeOK'
  <2>1. call[r].password \in Passwords
    BY DEF TypeOK
  <2>2. password' \in [Users -> Passwords]
    BY <1>13, <2>1 DEF UpdatePassword, TypeOK
  <2> QED BY <1>13, <2>2, LabelsKept DEF UpdatePassword, TypeOK, Ends, Goes, emails
<1>14. ASSUME NEW r \in Requests, UpdateEmailVerification(r) PROVE TypeOK'
  BY <1>14, LabelsKept DEF UpdateEmailVerification, MarkVerified, TypeOK, Ends, Goes, emails
<1>15. ASSUME NEW r \in Requests, RequestFails(r) PROVE TypeOK'
  BY <1>15, LabelsKept DEF RequestFails, TypeOK, Goes, users, emails
<1>16. CASE Tick
  <2>1. /\ \A u \in Users : Earlier(lock[u]) \in 0 .. LockTime
        /\ \A t \in Tokens : Earlier(ttl[t]) \in Nat
    BY EarlierFits DEF TypeOK
  <2>2. snap' \in [Requests -> Snaps]
    BY <1>16, AgedSnap DEF Tick, TypeOK
  <2> QED BY <1>16, <2>1, <2>2 DEF Tick, TypeOK
<1>17. CASE UNCHANGED vars
  BY <1>17 DEF TypeOK, vars, users, emails
<1> QED BY <1>1, <1>2, <1>3, <1>4, <1>5, <1>6, <1>7, <1>8, <1>9, <1>10, <1>11, <1>12, <1>13, <1>14,
           <1>15, <1>16, <1>17 DEF Next, LoginStep, TokenStep

LEMMA Fields ==
  ASSUME TypeOK, NEW r \in Requests
  PROVE  /\ call[r].user \in Users /\ call[r].password \in Passwords /\ call[r].token \in Tokens
         /\ snap[r] \in Snaps /\ snap[r].gone \subseteq Tokens
         /\ snap[r].failed \in Nat /\ snap[r].version \in Nat /\ snap[r].lock \in Nat
<1>1. call[r] \in Calls
  BY DEF TypeOK
<1>2. call[r] \in [kind : Kinds, user : Users, password : Passwords, token : Tokens]
  BY <1>1, AccountsAssumption
<1>3. snap[r] \in Snaps
  BY DEF TypeOK
<1> QED BY <1>2, <1>3, AccountsAssumption DEF Snaps

\* A login that goes on has read an account that is not locked.
LEMMA LoginReads ==
  ASSUME TypeOK, NEW r \in Requests, FindByEmailWithPassword(r)
  PROVE  /\ \A q \in Requests \ {r} : snap'[q] = snap[q] /\ pc'[q] = pc[q]
         /\ snap'[r].gone = snap[r].gone /\ snap'[r].missed = snap[r].missed
         /\ \/ pc'[r] = "refused"
            \/ /\ pc'[r] = "compare" /\ lock[call[r].user] = 0
               /\ snap'[r].failed = failed[call[r].user]
               /\ snap'[r].lock = 0
               /\ snap'[r].version = version[call[r].user]
<1> DEFINE u == call[r].user
           read == [snap[r] EXCEPT !.password = password[u], !.verified = verified[u],
                      !.failed = failed[u], !.lock = lock[u], !.version = version[u]]
<1>1. u \in Users /\ snap[r] \in Snaps
  BY Fields
<1>2. /\ read.failed = failed[u] /\ read.lock = lock[u] /\ read.version = version[u]
      /\ read.missed = snap[r].missed /\ read.gone = snap[r].gone
  BY <1>1, ReadSnap
<1>3. \/ Goes(r, "refused") /\ snap' = snap
      \/ Goes(r, "compare") /\ lock[u] = 0 /\ snap' = [snap EXCEPT ![r] = read]
  <2>1. lock[u] > 0 \/ lock[u] = 0
    BY <1>1, AccountsAssumption DEF TypeOK
  <2> QED BY <2>1 DEF FindByEmailWithPassword, IsLocked, TypeOK
<1> HIDE DEF read
<1> QED BY <1>1, <1>2, <1>3 DEF TypeOK, Goes

-----------------------------------------------------------------------------
\* Calls.

LEMMA CallKept == TypeOK /\ CallInv /\ [Next]_vars => CallInv'
<1> SUFFICES ASSUME TypeOK, CallInv, [Next]_vars PROVE CallInv'
  OBVIOUS
<1> USE DEF CallInv, LoginLabels, TokenLabels, Owner
<1>1. ASSUME NEW r \in Requests, Begin(r) PROVE CallInv'
  <2>1. PICK c \in Calls :
          /\ c.kind \in {"reset", "verify"} => c.token \in mailed
          /\ call' = [call EXCEPT ![r] = c]
          /\ pc' = [pc EXCEPT ![r] = FirstStep(c)]
    BY <1>1 DEF Begin, Goes
  <2>2. c.kind \in Kinds
    BY AccountsAssumption
  <2>3. /\ FirstStep(c) \in {"insert", "find", "lookup", "get", "refused"}
        /\ FirstStep(c) = "insert" => c.kind = "register"
        /\ FirstStep(c) = "find" => c.kind = "login"
        /\ FirstStep(c) = "lookup" => c.kind = "forgot"
        /\ FirstStep(c) = "get" => c.kind \in {"reset", "verify"}
    BY <2>2 DEF FirstStep, MeetsPolicy, Kinds
  <2>4. UNCHANGED <<registered, issued, mailed>>
    BY <1>1 DEF Begin, users, emails
  <2>5. \A q \in Requests \ {r} : pc'[q] = pc[q] /\ call'[q] = call[q]
    BY <2>1 DEF TypeOK
  <2>6. pc'[r] = FirstStep(c) /\ call'[r] = c
    BY <2>1 DEF TypeOK
  <2> QED BY <2>1, <2>3, <2>4, <2>5, <2>6
<1>2. ASSUME NEW r \in Requests, RegisterUser(r) PROVE CallInv'
  <2>1. /\ registered \subseteq registered'
        /\ UNCHANGED <<issued, mailed, call>>
        /\ Ends(r, "answered") \/ Goes(r, "refused")
        /\ pc[r] = "insert"
    BY <1>2 DEF RegisterUser, Register
  <2> QED BY <2>1 DEF TypeOK, Ends, Goes
<1>3. ASSUME NEW r \in Requests, FindByEmailWithPassword(r) PROVE CallInv'
  <2>1. /\ Goes(r, "refused") \/ Goes(r, "compare")
        /\ pc[r] = "find" /\ UNCHANGED <<users, emails, call>>
    BY <1>3 DEF FindByEmailWithPassword
  <2> QED BY <2>1 DEF TypeOK, Goes, users, emails
<1>4. ASSUME NEW r \in Requests, ComparePassword(r) PROVE CallInv'
  BY <1>4 DEF ComparePassword, TypeOK, Goes, users, emails
<1>5. ASSUME NEW r \in Requests, UpdateLoginStatus(r) PROVE CallInv'
  <2>1. /\ Ends(r, "refused") \/ Ends(r, "answered")
        /\ pc[r] = "status" /\ UNCHANGED <<registered, emails, call>>
    BY <1>5 DEF UpdateLoginStatus
  <2> QED BY <2>1 DEF TypeOK, Ends, Goes, emails
<1>6. ASSUME NEW r \in Requests, LookUpEmail(r) PROVE CallInv'
  BY <1>6 DEF LookUpEmail, TypeOK, Goes, users, emails
<1>7. ASSUME NEW r \in Requests, StoreResetRequested(r) PROVE CallInv'
  BY <1>7 DEF StoreResetRequested, TypeOK, Ends, Goes, users
<1>8. ASSUME NEW t \in Tokens, GenerateToken(t) PROVE CallInv'
  <2>1. PICK ask \in asked : issued' = [issued EXCEPT ![t] = ask]
    BY <1>8 DEF GenerateToken
  <2>2. ask.user \in registered
    BY DEF TypeOK
  <2>3. \A x \in Tokens : issued'[x] # NotIssued => issued'[x].user \in registered
    BY <2>1, <2>2 DEF TypeOK
  <2>4. t \notin mailed /\ \A x \in mailed : issued'[x] = issued[x]
    BY <1>8, <2>1 DEF GenerateToken, TypeOK
  <2>5. UNCHANGED <<registered, mailed, pc, call>>
    BY <1>8 DEF GenerateToken, users
  <2> QED BY <2>3, <2>4, <2>5
<1>9. ASSUME NEW t \in Tokens, SendEmail(t) PROVE CallInv'
  BY <1>9 DEF SendEmail, TypeOK, users
<1>10. ASSUME NEW r \in Requests, GetToken(r) PROVE CallInv'
  <2>1. /\ Goes(r, "del") \/ Goes(r, "refused")
        /\ pc[r] = "get" /\ UNCHANGED <<users, emails, call>>
    BY <1>10 DEF GetToken
  <2> QED BY <2>1 DEF TypeOK, Goes, users, emails
<1>11. ASSUME NEW r \in Requests, DelToken(r) PROVE CallInv'
  BY <1>11 DEF DelToken, TypeOK, Goes, users
<1>12. ASSUME NEW r \in Requests, FindOwner(r) PROVE CallInv'
  <2>1. /\ \/ Goes(r, "refused") \/ Goes(r, "answered")
           \/ Goes(r, "save") /\ Owner(r) \in registered
        /\ pc[r] = "owner" /\ UNCHANGED <<users, emails, call>>
    BY <1>12 DEF FindOwner
  <2> QED BY <2>1 DEF TypeOK, Goes, users, emails
<1>13. ASSUME NEW r \in Requests, UpdatePassword(r) PROVE CallInv'
  BY <1>13 DEF UpdatePassword, TypeOK, Ends, Goes, emails
<1>14. ASSUME NEW r \in Requests, UpdateEmailVerification(r) PROVE CallInv'
  BY <1>14 DEF UpdateEmailVerification, MarkVerified, TypeOK, Ends, Goes, emails
<1>15. ASSUME NEW r \in Requests, RequestFails(r) PROVE CallInv'
  BY <1>15 DEF RequestFails, TypeOK, Goes, users, emails
<1>16. CASE Tick
  BY <1>16 DEF Tick
<1>17. CASE UNCHANGED vars
  BY <1>17 DEF vars, users, emails
<1> QED BY <1>1, <1>2, <1>3, <1>4, <1>5, <1>6, <1>7, <1>8, <1>9, <1>10, <1>11, <1>12, <1>13, <1>14,
           <1>15, <1>16, <1>17 DEF Next, LoginStep, TokenStep

-----------------------------------------------------------------------------
\* Tokens.

LEMMA TokenKept == TypeOK /\ CallInv /\ TokenInv /\ [Next]_vars => TokenInv'
<1> SUFFICES ASSUME TypeOK, CallInv, TokenInv, [Next]_vars PROVE TokenInv'
  OBVIOUS
<1> USE DEF TokenInv, Serves
<1>1. ASSUME NEW r \in Requests, Begin(r) PROVE TokenInv'
  <2>1. PICK c \in Calls :
          call' = [call EXCEPT ![r] = c] /\ pc' = [pc EXCEPT ![r] = FirstStep(c)]
    BY <1>1 DEF Begin, Goes
  <2>2. FirstStep(c) \notin {"owner", "save", "answered"}
    BY AccountsAssumption DEF FirstStep, MeetsPolicy, Kinds
  <2>3. UNCHANGED <<issued, ttl>>
    BY <1>1 DEF Begin, emails
  <2>4. Gone \in SUBSET Tokens
    BY DEF Gone
  <2>5. \A t \in Gone : issued[t] # NotIssued /\ ttl[t] = 0
    BY DEF Gone, Consumed
  <2>6. snap'[r].gone = Gone
    BY <1>1, <2>4, FreshSnap DEF Begin, TypeOK
  <2>7. \A q \in Requests \ {r} : pc'[q] = pc[q] /\ call'[q] = call[q] /\ snap'[q] = snap[q]
    BY <1>1, <2>1 DEF Begin, TypeOK
  <2>8. pc'[r] = FirstStep(c)
    BY <2>1 DEF TypeOK
  <2> QED BY <2>2, <2>3, <2>5, <2>6, <2>7, <2>8
<1>2. ASSUME NEW r \in Requests, RegisterUser(r) PROVE TokenInv'
  <2>1. /\ UNCHANGED <<issued, ttl, call, snap>>
        /\ Ends(r, "answered") \/ Goes(r, "refused")
        /\ call[r].kind = "register"
    BY <1>2 DEF RegisterUser, Register, CallInv
  <2> QED BY <2>1 DEF TypeOK, Ends, Goes
<1>3. ASSUME NEW r \in Requests, FindByEmailWithPassword(r) PROVE TokenInv'
  <2>1. /\ Goes(r, "refused") \/ Goes(r, "compare")
        /\ UNCHANGED <<emails, call>>
    BY <1>3 DEF FindByEmailWithPassword
  <2>3. \A q \in Requests : snap'[q].gone = snap[q].gone
    BY <1>3, LoginReads
  <2> QED BY <2>1, <2>3 DEF TypeOK, Goes, emails
<1>4. ASSUME NEW r \in Requests, ComparePassword(r) PROVE TokenInv'
  <2>1. snap[r] \in Snaps
    BY DEF TypeOK
  <2>2. \A q \in Requests : snap'[q].gone = snap[q].gone
    BY <1>4, <2>1, ComparedSnap DEF ComparePassword, TypeOK
  <2> QED BY <1>4, <2>2 DEF ComparePassword, TypeOK, Goes, emails
<1>5. ASSUME NEW r \in Requests, UpdateLoginStatus(r) PROVE TokenInv'
  <2>1. /\ Ends(r, "refused") \/ Ends(r, "answered")
        /\ call[r].kind = "login" /\ UNCHANGED <<emails, call, snap>>
    BY <1>5 DEF UpdateLoginStatus, CallInv, LoginLabels
  <2> QED BY <2>1 DEF TypeOK, Ends, Goes, emails
<1>6. ASSUME NEW r \in Requests, LookUpEmail(r) PROVE TokenInv'
  <2>1. call[r].kind = "forgot"
    BY <1>6 DEF LookUpEmail, CallInv
  <2> QED BY <1>6, <2>1 DEF LookUpEmail, TypeOK, Goes, emails
<1>7. ASSUME NEW r \in Requests, StoreResetRequested(r) PROVE TokenInv'
  <2>1. call[r].kind = "forgot"
    BY <1>7 DEF StoreResetRequested, CallInv
  <2> QED BY <1>7, <2>1 DEF StoreResetRequested, TypeOK, Ends, Goes
<1>8. ASSUME NEW t \in Tokens, GenerateToken(t) PROVE TokenInv'
  <2>1. PICK ask \in asked : issued' = [issued EXCEPT ![t] = ask]
    BY <1>8 DEF GenerateToken
  <2>2. \A x \in Tokens : issued[x] # NotIssued => issued'[x] = issued[x] /\ ttl'[x] = ttl[x]
    BY <1>8, <2>1 DEF GenerateToken, TypeOK
  <2>3. \A q \in Requests : Serves(q, {"owner", "save", "answered"}) =>
          call[q].token \in Tokens /\ issued[call[q].token] # NotIssued
    BY DEF CallInv, TypeOK
  <2>4. \A q \in Requests : snap[q].gone \subseteq Tokens
    BY Fields
  <2> QED BY <1>8, <2>2, <2>3, <2>4 DEF GenerateToken
<1>9. ASSUME NEW t \in Tokens, SendEmail(t) PROVE TokenInv'
  BY <1>9 DEF SendEmail
<1>10. ASSUME NEW r \in Requests, GetToken(r) PROVE TokenInv'
  <2>1. /\ Goes(r, "del") \/ Goes(r, "refused")
        /\ UNCHANGED <<emails, call, snap>>
    BY <1>10 DEF GetToken
  <2> QED BY <2>1 DEF TypeOK, Goes, emails
<1>11. ASSUME NEW r \in Requests, DelToken(r) PROVE TokenInv'
  <2>1. call[r].token \in Tokens
    BY <1>11 DEF DelToken, CallInv, TokenLabels, TypeOK
  <2>2. \A x \in Tokens : ttl[x] = 0 => ttl'[x] = 0
    BY <1>11 DEF DelToken, TypeOK
  <2>3. ttl'[call[r].token] = 0
    BY <1>11, <2>1 DEF DelToken, TypeOK
  <2>4. \A q \in Requests : call[q].token \in Tokens /\ snap[q].gone \subseteq Tokens
    BY Fields
  <2> QED BY <1>11, <2>2, <2>3, <2>4 DEF DelToken, TypeOK, Goes
<1>12. ASSUME NEW r \in Requests, FindOwner(r) PROVE TokenInv'
  BY <1>12 DEF FindOwner, TypeOK, Goes, emails
<1>13. ASSUME NEW r \in Requests, UpdatePassword(r) PROVE TokenInv'
  BY <1>13 DEF UpdatePassword, TypeOK, Ends, Goes, emails
<1>14. ASSUME NEW r \in Requests, UpdateEmailVerification(r) PROVE TokenInv'
  BY <1>14 DEF UpdateEmailVerification, MarkVerified, TypeOK, Ends, Goes, emails
<1>15. ASSUME NEW r \in Requests, RequestFails(r) PROVE TokenInv'
  BY <1>15 DEF RequestFails, TypeOK, Goes, emails
<1>16. CASE Tick
  <2>1. \A x \in Tokens : ttl[x] = 0 => ttl'[x] = 0
    BY <1>16 DEF Tick, Earlier
  <2>2. \A q \in Requests : snap'[q].gone = snap[q].gone
    BY <1>16, AgedSnap DEF Tick, TypeOK
  <2>3. \A q \in Requests : call[q].token \in Tokens /\ snap[q].gone \subseteq Tokens
    BY Fields
  <2> QED BY <1>16, <2>1, <2>2, <2>3 DEF Tick
<1>17. CASE UNCHANGED vars
  BY <1>17 DEF vars, emails
<1> QED BY <1>1, <1>2, <1>3, <1>4, <1>5, <1>6, <1>7, <1>8, <1>9, <1>10, <1>11, <1>12, <1>13, <1>14,
           <1>15, <1>16, <1>17 DEF Next, LoginStep, TokenStep

-----------------------------------------------------------------------------
\* Logins.

LEMMA VersionKept == TypeOK /\ CallInv /\ VersionInv /\ [Next]_vars => VersionInv'
<1> SUFFICES ASSUME TypeOK, CallInv, VersionInv, [Next]_vars PROVE VersionInv'
  OBVIOUS
<1> USE DEF VersionInv
<1>0. /\ \A q \in Requests : call[q].user \in Users /\ snap[q].version \in Nat
      /\ \A u \in Users : version[u] \in Nat /\ lock[u] \in Nat
  BY Fields, AccountsAssumption DEF TypeOK
<1>1. ASSUME NEW r \in Requests, Begin(r) PROVE VersionInv'
  <2>1. PICK c \in Calls :
          call' = [call EXCEPT ![r] = c] /\ pc' = [pc EXCEPT ![r] = FirstStep(c)]
    BY <1>1 DEF Begin, Goes
  <2>2. FirstStep(c) \notin {"compare", "status"}
    BY AccountsAssumption DEF FirstStep, MeetsPolicy, Kinds
  <2>3. UNCHANGED <<lock, version>> /\ pc'[r] = FirstStep(c)
    BY <1>1, <2>1 DEF Begin, users, TypeOK
  <2>4. \A q \in Requests \ {r} : pc'[q] = pc[q] /\ call'[q] = call[q] /\ snap'[q] = snap[q]
    BY <1>1, <2>1 DEF Begin, TypeOK
  <2> QED BY <2>2, <2>3, <2>4
<1>2. ASSUME NEW r \in Requests, FindByEmailWithPassword(r) PROVE VersionInv'
  <2>1. UNCHANGED <<lock, version, call>>
    BY <1>2 DEF FindByEmailWithPassword, users
  <2> QED BY <1>0, <1>2, <2>1, LoginReads
<1>3. ASSUME NEW r \in Requests, ComparePassword(r) PROVE VersionInv'
  <2>1. \A q \in Requests : snap'[q].version = snap[q].version
    BY <1>3, Fields, ComparedSnap DEF ComparePassword, TypeOK
  <2>2. \A q \in Requests : pc'[q] \in {"compare", "status"} => pc[q] \in {"compare", "status"}
    BY <1>3 DEF ComparePassword, Goes, TypeOK
  <2> QED BY <1>3, <2>1, <2>2 DEF ComparePassword, users
<1>4. ASSUME NEW r \in Requests, UpdateLoginStatus(r) PROVE VersionInv'
  <2> DEFINE u == call[r].user
  <2>1. version' = [version EXCEPT ![u] = @ + 1] /\ lock' = [lock EXCEPT ![u] = snap[r].lock]
    BY <1>4 DEF UpdateLoginStatus
  <2>2. UNCHANGED <<call, snap>>
    BY <1>4 DEF UpdateLoginStatus
  <2>3. \A q \in Requests : pc'[q] \in {"compare", "status"} => pc[q] \in {"compare", "status"}
    BY <1>4 DEF UpdateLoginStatus, Ends, Goes, TypeOK
  <2>4. version'[u] = version[u] + 1
        /\ \A v \in Users \ {u} : version'[v] = version[v] /\ lock'[v] = lock[v]
    BY <1>0, <2>1 DEF TypeOK
  <2>5. ASSUME NEW q \in Requests, pc'[q] \in {"compare", "status"}
        PROVE  /\ snap[q].version <= version'[call[q].user]
               /\ snap[q].version = version'[call[q].user] => lock'[call[q].user] = 0
    <3>1. pc[q] \in {"compare", "status"}
      BY <2>3, <2>5
    <3>2. CASE call[q].user = u
      <4>1. snap[q].version <= version[u] /\ snap[q].version \in Nat /\ version[u] \in Nat
        BY <1>0, <3>1, <3>2
      <4> QED BY <2>4, <3>2, <4>1
    <3>3. CASE call[q].user # u
      BY <1>0, <2>4, <3>1, <3>3
    <3> QED BY <3>2, <3>3
  <2> QED BY <2>2, <2>5
<1>5. CASE Tick
  <2>1. \A q \in Requests : snap'[q].version = snap[q].version
    BY <1>5, AgedSnap DEF Tick, TypeOK
  <2>2. \A u \in Users : lock[u] = 0 => lock'[u] = 0
    BY <1>5 DEF Tick, Earlier
  <2> QED BY <1>0, <1>5, <2>1, <2>2 DEF Tick
<1>6. ASSUME NEW r \in Requests, RegisterUser(r) PROVE VersionInv'
  <2>1. UNCHANGED <<lock, version, call, snap>> /\ (Ends(r, "answered") \/ Goes(r, "refused"))
    BY <1>6 DEF RegisterUser, Register
  <2> QED BY <2>1 DEF Ends, Goes, TypeOK
<1>7. ASSUME NEW r \in Requests, LookUpEmail(r) \/ StoreResetRequested(r) PROVE VersionInv'
  BY <1>7 DEF LookUpEmail, StoreResetRequested, Ends, Goes, TypeOK, users
<1>8. ASSUME NEW t \in Tokens, GenerateToken(t) \/ SendEmail(t) PROVE VersionInv'
  BY <1>8 DEF GenerateToken, SendEmail, users
<1>9. ASSUME NEW r \in Requests, TokenStep(r) PROVE VersionInv'
  <2>1. UNCHANGED <<lock, version, call, snap>>
    BY <1>9 DEF TokenStep, GetToken, DelToken, FindOwner, UpdatePassword,
                UpdateEmailVerification, MarkVerified, users
  <2>2. \A q \in Requests : pc'[q] \in {"compare", "status"} => pc[q] \in {"compare", "status"}
    BY <1>9 DEF TokenStep, GetToken, DelToken, FindOwner, UpdatePassword,
                UpdateEmailVerification, MarkVerified, Ends, Goes, TypeOK
  <2> QED BY <2>1, <2>2
<1>10. ASSUME NEW r \in Requests, RequestFails(r) PROVE VersionInv'
  BY <1>10 DEF RequestFails, Goes, TypeOK, users
<1>11. CASE UNCHANGED vars
  BY <1>11 DEF vars, users
<1> QED BY <1>1, <1>2, <1>3, <1>4, <1>5, <1>6, <1>7, <1>8, <1>9, <1>10, <1>11 DEF Next, LoginStep

\* Wrong passwords are not forgotten.
LEMMA MissesGrow ==
  ASSUME TypeOK, CountInv, [Next]_vars, NEW u \in Users
  PROVE  Misses(u) \subseteq Misses(u)'
<1> USE DEF Misses
<1>1. ASSUME NEW r \in Requests, Begin(r) PROVE Misses(u) \subseteq Misses(u)'
  <2>1. r \notin Misses(u)
    BY <1>1 DEF Begin, CountInv
  <2>2. \A q \in Requests \ {r} : call'[q] = call[q] /\ snap'[q] = snap[q]
    BY <1>1 DEF Begin, TypeOK
  <2> QED BY <2>1, <2>2
<1>2. ASSUME NEW r \in Requests, FindByEmailWithPassword(r) PROVE Misses(u) \subseteq Misses(u)'
  <2>1. UNCHANGED call
    BY <1>2 DEF FindByEmailWithPassword
  <2> QED BY <1>2, <2>1, LoginReads
<1>3. ASSUME NEW r \in Requests, ComparePassword(r) PROVE Misses(u) \subseteq Misses(u)'
  <2>1. \A q \in Requests : snap[q].missed => snap'[q].missed
    BY <1>3, Fields, ComparedSnap DEF ComparePassword, TypeOK
  <2> QED BY <1>3, <2>1 DEF ComparePassword
<1>4. CASE Tick
  <2>1. \A q \in Requests : snap'[q].missed = snap[q].missed
    BY <1>4, AgedSnap DEF Tick, TypeOK
  <2> QED BY <1>4, <2>1 DEF Tick
<1>5. CASE UNCHANGED <<call, snap>>
  BY <1>5
<1> QED BY <1>1, <1>2, <1>3, <1>4, <1>5
        DEF Next, LoginStep, TokenStep, RegisterUser, Register, UpdateLoginStatus, LookUpEmail,
            StoreResetRequested, GenerateToken, SendEmail, GetToken, DelToken, FindOwner,
            UpdatePassword, UpdateEmailVerification, MarkVerified, RequestFails, vars

LEMMA MissesCounted ==
  ASSUME TypeOK, CountInv, [Next]_vars, NEW u \in Users
  PROVE  /\ Cardinality(Misses(u)) \in Nat /\ Cardinality(Misses(u))' \in Nat
         /\ Cardinality(Misses(u)) <= Cardinality(Misses(u))'
<1>1. Misses(u)' \in SUBSET Requests
  BY DEF Misses
<1>2. Misses(u) \in SUBSET Misses(u)'
  BY MissesGrow
<1>3. IsFiniteSet(Misses(u)') /\ IsFiniteSet(Misses(u))
  BY <1>1, <1>2, AccountsAssumption, FS_Subset
<1>4. Cardinality(Misses(u)) <= Cardinality(Misses(u)')
  BY <1>2, <1>3, FS_Subset
<1> QED BY <1>3, <1>4, FS_CardinalityType

\* The counts of those who do nothing at this step still hold.
LEMMA CountsStand ==
  ASSUME TypeOK, CountInv, [Next]_vars, NEW u \in Users
  PROVE  /\ failed[u] <= Cardinality(Misses(u))'
         /\ \A r \in Requests : pc[r] \in {"compare", "status"} /\ call[r].user = u =>
              snap[r].failed <= Cardinality(Misses(u))'
<1>1. ASSUME NEW n \in Nat, n <= Cardinality(Misses(u)) PROVE n <= Cardinality(Misses(u))'
  BY <1>1, MissesCounted
<1>2. failed[u] <= Cardinality(Misses(u))'
  BY <1>1 DEF CountInv, TypeOK
<1>3. ASSUME NEW r \in Requests, pc[r] \in {"compare", "status"}, call[r].user = u
      PROVE  snap[r].failed <= Cardinality(Misses(u))'
  <2>1. snap[r].failed \in Nat /\ snap[r].failed <= Cardinality(Misses(u))
    BY <1>3, Fields DEF CountInv
  <2> QED BY <1>1, <2>1
<1> QED BY <1>2, <1>3

\* A wrong password is one more.
LEMMA OneMissMore ==
  ASSUME TypeOK, CallInv, CountInv, NEW r \in Requests, ComparePassword(r),
         snap[r].password # call[r].password, NEW u \in Users, call[r].user = u
  PROVE  /\ Cardinality(Misses(u)) \in Nat
         /\ Cardinality(Misses(u))' = Cardinality(Misses(u)) + 1
<1>1. snap[r] \in Snaps /\ pc[r] = "compare" /\ call' = call
      /\ snap' = [snap EXCEPT ![r] = RecordFailedLogin(snap[r])]
  BY Fields DEF ComparePassword, TypeOK
<1>2. r \notin Misses(u)
  BY <1>1 DEF CountInv, Misses
<1>3. call[r].kind = "login"
  BY <1>1 DEF CallInv, LoginLabels
<1>4. snap'[r].missed /\ \A q \in Requests \ {r} : snap'[q] = snap[q]
  BY <1>1, ComparedSnap DEF TypeOK
<1>5. Misses(u)' = Misses(u) \cup {r}
  BY <1>1, <1>3, <1>4 DEF Misses
<1>6. IsFiniteSet(Misses(u))
  BY AccountsAssumption, FS_Subset DEF Misses
<1>7. Cardinality(Misses(u) \cup {r}) = Cardinality(Misses(u)) + 1
  BY <1>2, <1>6, FS_AddElement
<1> QED BY <1>5, <1>6, <1>7, FS_CardinalityType

LEMMA CountKept == TypeOK /\ CallInv /\ CountInv /\ [Next]_vars => CountInv'
<1> SUFFICES ASSUME TypeOK, CallInv, CountInv, [Next]_vars PROVE CountInv'
  OBVIOUS
<1>0. /\ \A q \in Requests : call[q].user \in Users
      /\ MaxFailed \in Nat \ {0} /\ LockTime \in Nat \ {0}
  BY Fields, AccountsAssumption
\* What a step keeps that neither counts nor compares.
<1>a. ASSUME UNCHANGED <<failed, lock, call, snap>>,
             \A q \in Requests :
               pc'[q] \in {"idle", "insert", "find", "compare", "status"} => pc'[q] = pc[q]
      PROVE  CountInv'
  <2>1. ASSUME NEW u \in Users
        PROVE  /\ failed'[u] <= Cardinality(Misses(u))'
               /\ \A q \in Requests : pc'[q] \in {"compare", "status"} /\ call'[q].user = u =>
                    snap'[q].failed <= Cardinality(Misses(u))'
    BY <1>a, CountsStand
  <2>2. \A u \in Users : lock'[u] > 0 => failed'[u] >= MaxFailed
    BY <1>a DEF CountInv
  <2>3. \A q \in Requests :
          /\ pc'[q] \in {"idle", "insert", "find", "compare"} => ~snap'[q].missed
          /\ pc'[q] = "compare" => snap'[q].lock = 0
          /\ pc'[q] = "status" /\ snap'[q].lock > 0 => snap'[q].failed >= MaxFailed
    BY <1>a DEF CountInv
  <2> QED BY <2>1, <2>2, <2>3 DEF CountInv
<1>1. ASSUME NEW r \in Requests, Begin(r) PROVE CountInv'
  <2>1. PICK c \in Calls :
          call' = [call EXCEPT ![r] = c] /\ pc' = [pc EXCEPT ![r] = FirstStep(c)]
    BY <1>1 DEF Begin, Goes
  <2>2. FirstStep(c) \notin {"compare", "status"}
    BY AccountsAssumption DEF FirstStep, MeetsPolicy, Kinds
  <2>3. Gone \in SUBSET Tokens
    BY DEF Gone
  <2>4. ~snap'[r].missed
    BY <1>1, <2>3, FreshSnap DEF Begin, TypeOK
  <2>5. UNCHANGED <<failed, lock>> /\ pc'[r] \notin {"compare", "status"}
    BY <1>1, <2>1, <2>2 DEF Begin, users, TypeOK
  <2>6. \A q \in Requests \ {r} : pc'[q] = pc[q] /\ call'[q] = call[q] /\ snap'[q] = snap[q]
    BY <1>1, <2>1 DEF Begin, TypeOK
  <2>7. ASSUME NEW u \in Users
        PROVE  /\ failed'[u] <= Cardinality(Misses(u))'
               /\ \A q \in Requests : pc'[q] \in {"compare", "status"} /\ call'[q].user = u =>
                    snap'[q].failed <= Cardinality(Misses(u))'
    BY <2>5, <2>6, CountsStand
  <2> QED BY <2>4, <2>5, <2>6, <2>7 DEF CountInv
<1>2. ASSUME NEW r \in Requests, FindByEmailWithPassword(r) PROVE CountInv'
  <2>1. UNCHANGED <<failed, lock, call>> /\ pc[r] = "find"
    BY <1>2 DEF FindByEmailWithPassword, users
  <2>2. \A q \in Requests \ {r} : pc'[q] = pc[q] /\ snap'[q] = snap[q]
    BY <1>2, LoginReads
  <2>3. /\ snap'[r].missed = snap[r].missed /\ ~snap[r].missed
        /\ \/ pc'[r] = "refused"
           \/ pc'[r] = "compare" /\ snap'[r].failed = failed[call[r].user] /\ snap'[r].lock = 0
    BY <1>2, <2>1, LoginReads DEF CountInv
  <2>4. ASSUME NEW u \in Users
        PROVE  /\ failed'[u] <= Cardinality(Misses(u))'
               /\ \A q \in Requests : pc'[q] \in {"compare", "status"} /\ call'[q].user = u =>
                    snap'[q].failed <= Cardinality(Misses(u))'
    BY <2>1, <2>2, <2>3, CountsStand
  <2> QED BY <2>1, <2>2, <2>3, <2>4 DEF CountInv
<1>3. ASSUME NEW r \in Requests, ComparePassword(r) PROVE CountInv'
  <2>1. /\ UNCHANGED <<failed, lock, call>> /\ pc[r] = "compare" /\ pc'[r] = "status"
        /\ \A q \in Requests \ {r} : pc'[q] = pc[q] /\ snap'[q] = snap[q]
    BY <1>3 DEF ComparePassword, users, Goes, TypeOK
  <2>2. snap[r] \in Snaps /\ snap[r].failed \in Nat /\ snap[r].lock = 0
    BY <2>1, Fields DEF CountInv
  <2>3. CASE snap[r].password = call[r].password
    <3>1. snap'[r] = RecordSuccessfulLogin(snap[r])
      BY <1>3, <2>3 DEF ComparePassword, TypeOK
    <3>2. snap'[r].failed = 0 /\ snap'[r].lock = 0
      BY <2>2, <3>1, ComparedSnap
    <3>3. ASSUME NEW u \in Users
          PROVE  /\ failed'[u] <= Cardinality(Misses(u))'
                 /\ \A q \in Requests : pc'[q] \in {"compare", "status"} /\ call'[q].user = u =>
                      snap'[q].failed <= Cardinality(Misses(u))'
      BY <2>1, <3>2, CountsStand, MissesCounted
    <3> QED BY <2>1, <3>2, <3>3 DEF CountInv
  <2>4. CASE snap[r].password # call[r].password
    <3>1. snap'[r] = RecordFailedLogin(snap[r])
      BY <1>3, <2>4 DEF ComparePassword, TypeOK
    <3>2. /\ snap'[r].failed = snap[r].failed + 1
          /\ snap'[r].lock = IF snap[r].failed + 1 >= MaxFailed THEN LockTime ELSE 0
      BY <2>2, <3>1, ComparedSnap
    <3>3. ASSUME NEW u \in Users, call[r].user = u
          PROVE  snap'[r].failed <= Cardinality(Misses(u))'
      <4>1. /\ Cardinality(Misses(u)) \in Nat
            /\ Cardinality(Misses(u))' = Cardinality(Misses(u)) + 1
        BY <1>3, <2>4, <3>3, OneMissMore
      <4>2. snap[r].failed <= Cardinality(Misses(u))
        BY <2>1, <3>3 DEF CountInv
      <4> QED BY <2>2, <3>2, <4>1, <4>2
    <3>4. ASSUME NEW u \in Users
          PROVE  /\ failed'[u] <= Cardinality(Misses(u))'
                 /\ \A q \in Requests : pc'[q] \in {"compare", "status"} /\ call'[q].user = u =>
                      snap'[q].failed <= Cardinality(Misses(u))'
      BY <2>1, <3>3, CountsStand
    <3>5. snap'[r].lock > 0 => snap'[r].failed >= MaxFailed
      BY <1>0, <2>2, <3>2
    <3> QED BY <2>1, <3>4, <3>5 DEF CountInv
  <2> QED BY <2>3, <2>4
<1>4. ASSUME NEW r \in Requests, UpdateLoginStatus(r) PROVE CountInv'
  <2>1. /\ failed' = [failed EXCEPT ![call[r].user] = snap[r].failed]
        /\ lock' = [lock EXCEPT ![call[r].user] = snap[r].lock]
        /\ pc[r] = "status" /\ pc'[r] \in {"refused", "answered", "failed"}
        /\ UNCHANGED <<call, snap>> /\ \A q \in Requests \ {r} : pc'[q] = pc[q]
    BY <1>4 DEF UpdateLoginStatus, Ends, Goes, TypeOK
  <2>2. ASSUME NEW u \in Users
        PROVE  /\ failed'[u] <= Cardinality(Misses(u))'
               /\ \A q \in Requests : pc'[q] \in {"compare", "status"} /\ call'[q].user = u =>
                    snap'[q].failed <= Cardinality(Misses(u))'
    <3>1. failed'[u] = IF call[r].user = u THEN snap[r].failed ELSE failed[u]
      BY <2>1 DEF TypeOK
    <3> QED BY <2>1, <3>1, CountsStand
  <2>3. \A u \in Users : lock'[u] > 0 => failed'[u] >= MaxFailed
    BY <2>1 DEF CountInv, TypeOK
  <2> QED BY <2>1, <2>2, <2>3 DEF CountInv
<1>5. CASE Tick
  <2>1. UNCHANGED <<failed, call, pc>>
    BY <1>5 DEF Tick
  <2>2. \A u \in Users : lock'[u] > 0 => lock[u] > 0
    <3>1. \A u \in Users : lock[u] \in Nat /\ lock'[u] = Earlier(lock[u])
      BY <1>5, AccountsAssumption DEF Tick, TypeOK
    <3> QED BY <3>1, EarlierFits
  <2>3. \A q \in Requests : /\ snap'[q].failed = snap[q].failed /\ snap'[q].missed = snap[q].missed
                            /\ snap'[q].lock = Earlier(snap[q].lock)
    BY <1>5, AgedSnap DEF Tick, TypeOK
  <2>4. \A q \in Requests : /\ snap[q].lock = 0 => snap'[q].lock = 0
                            /\ snap'[q].lock > 0 => snap[q].lock > 0
    BY <2>3, Fields, EarlierFits
  <2>5. ASSUME NEW u \in Users
        PROVE  /\ failed'[u] <= Cardinality(Misses(u))'
               /\ \A q \in Requests : pc'[q] \in {"compare", "status"} /\ call'[q].user = u =>
                    snap'[q].failed <= Cardinality(Misses(u))'
    BY <2>1, <2>3, CountsStand
  <2> QED BY <2>1, <2>2, <2>3, <2>4, <2>5 DEF CountInv
<1>6. ASSUME NEW r \in Requests, RegisterUser(r) PROVE CountInv'
  <2>1. UNCHANGED <<failed, lock, call, snap>> /\ (Ends(r, "answered") \/ Goes(r, "refused"))
    BY <1>6 DEF RegisterUser, Register
  <2> QED BY <1>a, <2>1 DEF Ends, Goes, TypeOK
<1>7. ASSUME NEW r \in Requests, LookUpEmail(r) \/ StoreResetRequested(r) PROVE CountInv'
  BY <1>7, <1>a DEF LookUpEmail, StoreResetRequested, Ends, Goes, TypeOK, users
<1>8. ASSUME NEW t \in Tokens, GenerateToken(t) \/ SendEmail(t) PROVE CountInv'
  BY <1>8, <1>a DEF GenerateToken, SendEmail, users
<1>9. ASSUME NEW r \in Requests, TokenStep(r) PROVE CountInv'
  <2>1. UNCHANGED <<failed, lock, call, snap>>
    BY <1>9 DEF TokenStep, GetToken, DelToken, FindOwner, UpdatePassword,
                UpdateEmailVerification, MarkVerified, users
  <2>2. \A q \in Requests :
          pc'[q] \in {"idle", "insert", "find", "compare", "status"} => pc'[q] = pc[q]
    BY <1>9 DEF TokenStep, GetToken, DelToken, FindOwner, UpdatePassword,
                UpdateEmailVerification, MarkVerified, Ends, Goes, TypeOK
  <2> QED BY <1>a, <2>1, <2>2
<1>10. ASSUME NEW r \in Requests, RequestFails(r) PROVE CountInv'
  BY <1>10, <1>a DEF RequestFails, Goes, TypeOK, users
<1>11. CASE UNCHANGED vars
  BY <1>11, <1>a DEF vars, users
<1> QED BY <1>1, <1>2, <1>3, <1>4, <1>5, <1>6, <1>7, <1>8, <1>9, <1>10, <1>11 DEF Next, LoginStep

-----------------------------------------------------------------------------
\* What requests are answered.

LEMMA DieKept ==
  ASSUME TypeOK, CallInv, TokenInv, TokensDie, [Next]_vars
  PROVE  TokensDie'
<1> DEFINE Served == {"del", "owner", "save", "answered"}
<1> USE DEF TokensDie, Serves
<1>1. ASSUME NEW r \in Requests, Begin(r) PROVE TokensDie'
  <2>1. PICK c \in Calls :
          call' = [call EXCEPT ![r] = c] /\ pc' = [pc EXCEPT ![r] = FirstStep(c)]
    BY <1>1 DEF Begin, Goes
  <2>2. FirstStep(c) \notin Served
    BY AccountsAssumption DEF FirstStep, MeetsPolicy, Kinds
  <2>3. pc'[r] \notin Served
    BY <2>1, <2>2 DEF TypeOK
  <2>4. \A q \in Requests \ {r} : pc'[q] = pc[q] /\ call'[q] = call[q] /\ snap'[q] = snap[q]
    BY <1>1, <2>1 DEF Begin, TypeOK
  <2> QED BY <2>3, <2>4
\* A live token is not among those that were gone.
<1>2. ASSUME NEW r \in Requests, GetToken(r) PROVE TokensDie'
  <2>1. Goes(r, "refused") \/ (Goes(r, "del") /\ ttl[call[r].token] > 0)
    BY <1>2 DEF GetToken
  <2>2. UNCHANGED <<call, snap>>
    BY <1>2 DEF GetToken
  <2>3. ttl[call[r].token] > 0 => call[r].token \notin snap[r].gone
    BY DEF TokenInv
  <2> QED BY <2>1, <2>2, <2>3 DEF Goes, TypeOK
\* The gone tokens of a request never change, and who is served was served.
<1>3. ASSUME \A q \in Requests :
               /\ snap'[q].gone = snap[q].gone /\ call'[q] = call[q]
               /\ call[q].kind \in {"reset", "verify"} /\ pc'[q] \in Served => pc[q] \in Served
      PROVE  TokensDie'
  BY <1>3
<1>4. ASSUME NEW r \in Requests, RegisterUser(r) PROVE TokensDie'
  <2>1. /\ UNCHANGED <<call, snap>> /\ (Ends(r, "answered") \/ Goes(r, "refused"))
        /\ call[r].kind = "register"
    BY <1>4 DEF RegisterUser, Register, CallInv
  <2> QED BY <1>3, <2>1 DEF Ends, Goes, TypeOK
<1>5. ASSUME NEW r \in Requests, LoginStep(r) PROVE TokensDie'
  <2>1. call[r].kind = "login" /\ UNCHANGED call
    BY <1>5 DEF LoginStep, FindByEmailWithPassword, ComparePassword, UpdateLoginStatus,
                CallInv, LoginLabels
  <2>2. \A q \in Requests \ {r} : pc'[q] = pc[q]
    BY <1>5 DEF LoginStep, FindByEmailWithPassword, ComparePassword, UpdateLoginStatus,
                Ends, Goes, TypeOK
  <2>3. \A q \in Requests : snap'[q].gone = snap[q].gone
    <3>1. CASE FindByEmailWithPassword(r)
      BY <3>1, LoginReads
    <3>2. CASE ComparePassword(r)
      BY <3>2, Fields, ComparedSnap DEF ComparePassword, TypeOK
    <3>3. CASE UpdateLoginStatus(r)
      BY <3>3 DEF UpdateLoginStatus
    <3> QED BY <1>5, <3>1, <3>2, <3>3 DEF LoginStep
  <2> QED BY <1>3, <2>1, <2>2, <2>3
<1>6. ASSUME NEW r \in Requests, LookUpEmail(r) \/ StoreResetRequested(r) PROVE TokensDie'
  <2>1. call[r].kind = "forgot"
    BY <1>6 DEF LookUpEmail, StoreResetRequested, CallInv
  <2> QED BY <1>3, <1>6, <2>1 DEF LookUpEmail, StoreResetRequested, Ends, Goes, TypeOK
<1>7. ASSUME NEW t \in Tokens, GenerateToken(t) \/ SendEmail(t) PROVE TokensDie'
  BY <1>3, <1>7 DEF GenerateToken, SendEmail
<1>8. ASSUME NEW r \in Requests,
             DelToken(r) \/ FindOwner(r) \/ UpdatePassword(r) \/ UpdateEmailVerification(r)
      PROVE  TokensDie'
  <2>1. UNCHANGED <<call, snap>> /\ pc[r] \in Served /\ \A q \in Requests \ {r} : pc'[q] = pc[q]
    BY <1>8 DEF DelToken, FindOwner, UpdatePassword, UpdateEmailVerification, MarkVerified,
                Ends, Goes, TypeOK
  <2> QED BY <1>3, <2>1
<1>9. ASSUME NEW r \in Requests, RequestFails(r) PROVE TokensDie'
  BY <1>3, <1>9 DEF RequestFails, Goes, TypeOK
<1>10. CASE Tick
  <2>1. \A q \in Requests : snap'[q].gone = snap[q].gone
    BY <1>10, AgedSnap DEF Tick, TypeOK
  <2> QED BY <1>3, <1>10, <2>1 DEF Tick
<1>11. CASE UNCHANGED vars
  BY <1>3, <1>11 DEF vars
<1> QED BY <1>1, <1>2, <1>4, <1>5, <1>6, <1>7, <1>8, <1>9, <1>10, <1>11 DEF Next, TokenStep

\* AnswersStand, request by request.
AnswerOf(r) ==
  /\ Serves(r, {"answered"}) /\ call[r].kind = "reset" =>
       \E q \in Requests :
         /\ call[q].kind = "reset" /\ pc[q] \in {"answered", "failed"}
         /\ Owner(q) = Owner(r) /\ password[Owner(r)] = call[q].password
  /\ Serves(r, {"answered"}) /\ call[r].kind = "verify" => verified[Owner(r)]

\* A presented token has an owner, who is registered and stays so.
LEMMA Owned ==
  ASSUME TypeOK, CallInv, NEW r \in Requests, pc[r] # "idle", call[r].kind \in {"reset", "verify"}
  PROVE  Owner(r) \in registered /\ Owner(r) \in Users /\ issued[call[r].token] # NotIssued
BY Fields DEF TypeOK, CallInv, Owner

LEMMA AnswersByRequest ==
  ASSUME TypeOK, CallInv, AnswersStand
  PROVE  \A r \in Requests : AnswerOf(r)
<1>1. ASSUME NEW r \in Requests PROVE AnswerOf(r)
  <2>1. ASSUME Serves(r, {"answered"}), call[r].kind = "reset"
        PROVE  \E q \in Requests :
                 /\ call[q].kind = "reset" /\ pc[q] \in {"answered", "failed"}
                 /\ Owner(q) = Owner(r) /\ password[Owner(r)] = call[q].password
    <3>1. Owner(r) \in Users /\ r \in At("reset", Owner(r), {"answered"})
      BY <2>1, Owned DEF Serves, At
    <3> QED BY <3>1 DEF AnswersStand, At
  <2>2. ASSUME Serves(r, {"answered"}), call[r].kind = "verify" PROVE verified[Owner(r)]
    <3>1. Owner(r) \in Users /\ r \in At("verify", Owner(r), {"answered"})
      BY <2>2, Owned DEF Serves, At
    <3> QED BY <3>1 DEF AnswersStand
  <2> QED BY <2>1, <2>2 DEF AnswerOf
<1> QED BY <1>1

\* A step that answers nobody leaves the answers, if it keeps the passwords of
\* those who are registered, what is verified and the requests that have ended.
LEMMA NobodyAnswered ==
  ASSUME TypeOK, CallInv, \A r \in Requests : AnswerOf(r),
         \A u \in registered : password'[u] = password[u] /\ (verified[u] => verified'[u]),
         \A t \in Tokens : issued[t] # NotIssued => issued'[t] = issued[t],
         \A q \in Requests : pc[q] \in {"answered", "failed"} => pc'[q] = pc[q] /\ call'[q] = call[q],
         NEW r \in Requests, Serves(r, {"answered"})' => pc[r] = "answered"
  PROVE  AnswerOf(r)'
<1> SUFFICES ASSUME Serves(r, {"answered"})' PROVE AnswerOf(r)'
  BY DEF AnswerOf
<1>1. pc[r] = "answered" /\ call'[r] = call[r] /\ call[r].kind \in {"reset", "verify"}
  BY DEF Serves
<1>2. \A q \in Requests : pc[q] \in {"answered", "failed"} /\ call[q].kind \in {"reset", "verify"} =>
        Owner(q)' = Owner(q)
  BY Fields, Owned DEF Owner
<1>3. Owner(r) \in registered /\ Owner(r)' = Owner(r)
  BY <1>1, <1>2, Owned
<1>4. ASSUME call[r].kind = "reset"
      PROVE  \E q \in Requests :
               /\ call'[q].kind = "reset" /\ pc'[q] \in {"answered", "failed"}
               /\ Owner(q)' = Owner(r)' /\ password'[Owner(r)'] = call'[q].password
  <2>1. PICK q \in Requests :
          /\ call[q].kind = "reset" /\ pc[q] \in {"answered", "failed"}
          /\ Owner(q) = Owner(r) /\ password[Owner(r)] = call[q].password
    BY <1>1, <1>4 DEF AnswerOf, Serves
  <2>2. call'[q] = call[q] /\ pc'[q] = pc[q] /\ Owner(q)' = Owner(q)
    BY <1>2, <2>1
  <2> QED BY <1>3, <2>1, <2>2
<1>5. call[r].kind = "verify" => verified'[Owner(r)']
  BY <1>1, <1>3 DEF AnswerOf, Serves
<1> QED BY <1>1, <1>4, <1>5 DEF AnswerOf

LEMMA AnswersKept ==
  ASSUME TypeOK, CallInv, AnswersStand, [Next]_vars
  PROVE  AnswersStand'
<1> SUFFICES ASSUME NEW q \in Requests PROVE AnswerOf(q)'
  BY DEF AnswersStand, AnswerOf, At, Serves
<1>0. \A r \in Requests : AnswerOf(r)
  BY AnswersByRequest
<1> USE DEF Serves
<1>1. ASSUME NEW r \in Requests, Begin(r) PROVE AnswerOf(q)'
  <2>1. PICK c \in Calls :
          call' = [call EXCEPT ![r] = c] /\ pc' = [pc EXCEPT ![r] = FirstStep(c)]
    BY <1>1 DEF Begin, Goes
  <2>2. FirstStep(c) # "answered"
    BY AccountsAssumption DEF FirstStep, MeetsPolicy, Kinds
  <2>3. pc[r] = "idle" /\ pc'[r] # "answered"
        /\ \A o \in Requests \ {r} : pc'[o] = pc[o] /\ call'[o] = call[o]
    BY <1>1, <2>1, <2>2 DEF Begin, TypeOK
  <2>4. UNCHANGED <<password, verified, issued>>
    BY <1>1 DEF Begin, users, emails
  <2> QED BY <1>0, <2>3, <2>4, NobodyAnswered
<1>2. ASSUME NEW r \in Requests, RegisterUser(r) PROVE AnswerOf(q)'
  <2>1. \A u \in registered : password'[u] = password[u]
    BY <1>2, Fields DEF RegisterUser, Register, TypeOK
  <2>2. UNCHANGED <<verified, issued, call>> /\ (Ends(r, "answered") \/ Goes(r, "refused"))
        /\ call[r].kind = "register" /\ pc[r] = "insert"
    BY <1>2 DEF RegisterUser, Register, CallInv
  <2>3. \A o \in Requests \ {r} : pc'[o] = pc[o]
    BY <2>2 DEF Ends, Goes, TypeOK
  <2> QED BY <1>0, <2>1, <2>2, <2>3, NobodyAnswered
<1>3. ASSUME NEW r \in Requests, LoginStep(r) PROVE AnswerOf(q)'
  <2>1. /\ UNCHANGED <<password, verified, issued, call>>
        /\ call[r].kind = "login" /\ pc[r] \in LoginLabels
    BY <1>3 DEF LoginStep, FindByEmailWithPassword, ComparePassword, UpdateLoginStatus,
                WriteNothingElse, CallInv, LoginLabels, users, emails
  <2>2. \A o \in Requests \ {r} : pc'[o] = pc[o]
    BY <1>3 DEF LoginStep, FindByEmailWithPassword, ComparePassword, UpdateLoginStatus,
                Ends, Goes, TypeOK
  <2> QED BY <1>0, <2>1, <2>2, NobodyAnswered DEF LoginLabels
<1>4. ASSUME NEW r \in Requests, LookUpEmail(r) \/ StoreResetRequested(r) PROVE AnswerOf(q)'
  <2>1. /\ UNCHANGED <<password, verified, issued, call>>
        /\ call[r].kind = "forgot" /\ pc[r] \in {"lookup", "store"}
    BY <1>4 DEF LookUpEmail, StoreResetRequested, CallInv, users, emails
  <2>2. \A o \in Requests \ {r} : pc'[o] = pc[o]
    BY <1>4 DEF LookUpEmail, StoreResetRequested, Ends, Goes, TypeOK
  <2> QED BY <1>0, <2>1, <2>2, NobodyAnswered
<1>5. ASSUME NEW t \in Tokens, GenerateToken(t) \/ SendEmail(t) PROVE AnswerOf(q)'
  <2>1. \A x \in Tokens : issued[x] # NotIssued => issued'[x] = issued[x]
    BY <1>5 DEF GenerateToken, SendEmail, TypeOK
  <2>2. UNCHANGED <<password, verified, pc, call>>
    BY <1>5 DEF GenerateToken, SendEmail, users
  <2> QED BY <1>0, <2>1, <2>2, NobodyAnswered
<1>6. ASSUME NEW r \in Requests, GetToken(r) \/ DelToken(r) \/ RequestFails(r) PROVE AnswerOf(q)'
  <2>1. UNCHANGED <<password, verified, issued, call>> /\ pc[r] \notin {"answered", "failed"}
    BY <1>6 DEF GetToken, DelToken, RequestFails, users, emails
  <2>2. pc'[r] # "answered" /\ \A o \in Requests \ {r} : pc'[o] = pc[o]
    BY <1>6 DEF GetToken, DelToken, RequestFails, Goes, TypeOK
  <2> QED BY <1>0, <2>1, <2>2, NobodyAnswered
\* An email that is verified needs no verification.
<1>7. ASSUME NEW r \in Requests, FindOwner(r) PROVE AnswerOf(q)'
  <2>1. UNCHANGED <<password, verified, issued, call>> /\ pc[r] = "owner"
        /\ \A o \in Requests \ {r} : pc'[o] = pc[o]
    BY <1>7 DEF FindOwner, users, emails, Goes, TypeOK
  <2>2. CASE Serves(q, {"answered"})' => pc[q] = "answered"
    BY <1>0, <2>1, <2>2, NobodyAnswered
  <2>3. CASE q = r /\ pc'[r] = "answered"
    <3>1. call[r].kind = "verify" /\ verified[Owner(r)]
      BY <1>7, <2>3 DEF FindOwner, Goes, TypeOK
    <3>2. Owner(r)' = Owner(r)
      BY <2>1 DEF Owner
    <3> QED BY <2>1, <2>3, <3>1, <3>2 DEF AnswerOf
  <2> QED BY <2>1, <2>2, <2>3
\* The password that a reset sets is its own.
<1>8. ASSUME NEW r \in Requests, UpdatePassword(r) PROVE AnswerOf(q)'
  <2>1. /\ password' = [password EXCEPT ![Owner(r)] = call[r].password]
        /\ UNCHANGED <<verified, issued, call>> /\ pc[r] = "save" /\ call[r].kind = "reset"
        /\ pc'[r] \in {"answered", "failed"}
        /\ \A o \in Requests \ {r} : pc'[o] = pc[o]
    BY <1>8 DEF UpdatePassword, emails, Ends, Goes, TypeOK
  <2>2. \A o \in Requests : Owner(o)' = Owner(o)
    BY <2>1 DEF Owner
  <2>3. Owner(r) \in Users
    BY <2>1, Owned
  <2>4. ASSUME Serves(q, {"answered"})', call[q].kind = "reset", Owner(q) = Owner(r)
        PROVE  AnswerOf(q)'
    <3>1. password'[Owner(q)'] = call'[r].password
      BY <2>1, <2>2, <2>3, <2>4 DEF TypeOK
    <3> QED BY <2>1, <2>2, <2>4, <3>1 DEF AnswerOf
  <2>5. ASSUME Serves(q, {"answered"})', call[q].kind = "reset", Owner(q) # Owner(r)
        PROVE  AnswerOf(q)'
    <3>1. q # r /\ pc[q] = "answered"
      BY <2>1, <2>5
    <3>2. PICK o \in Requests :
            /\ call[o].kind = "reset" /\ pc[o] \in {"answered", "failed"}
            /\ Owner(o) = Owner(q) /\ password[Owner(q)] = call[o].password
      BY <1>0, <2>5, <3>1 DEF AnswerOf
    <3>3. Owner(q) \in Users /\ password'[Owner(q)] = password[Owner(q)]
      BY <2>1, <2>5, <3>1, Owned DEF TypeOK
    <3>4. pc'[o] = pc[o]
      BY <2>1, <3>2
    <3> QED BY <2>1, <2>2, <2>5, <3>2, <3>3, <3>4 DEF AnswerOf
  <2>6. ASSUME Serves(q, {"answered"})', call[q].kind = "verify" PROVE AnswerOf(q)'
    <3>1. pc[q] = "answered"
      BY <2>1, <2>6
    <3>2. verified[Owner(q)]
      BY <1>0, <2>6, <3>1 DEF AnswerOf
    <3> QED BY <2>1, <2>2, <2>6, <3>2 DEF AnswerOf
  <2> QED BY <2>1, <2>4, <2>5, <2>6 DEF AnswerOf
<1>9. ASSUME NEW r \in Requests, UpdateEmailVerification(r) PROVE AnswerOf(q)'
  <2>1. /\ verified' = [verified EXCEPT ![Owner(r)] = TRUE]
        /\ UNCHANGED <<password, issued, call>> /\ pc[r] = "save" /\ call[r].kind = "verify"
        /\ \A o \in Requests \ {r} : pc'[o] = pc[o]
    BY <1>9 DEF UpdateEmailVerification, MarkVerified, emails, Ends, Goes, TypeOK
  <2>2. Owner(r) \in Users /\ Owner(r)' = Owner(r)
    BY <2>1, Owned DEF Owner
  <2>3. \A u \in registered : verified[u] => verified'[u]
    BY <2>1 DEF TypeOK
  <2>4. CASE q # r
    BY <1>0, <2>1, <2>3, <2>4, NobodyAnswered
  <2>5. CASE q = r
    BY <2>1, <2>2, <2>5 DEF AnswerOf, TypeOK
  <2> QED BY <2>4, <2>5
<1>10. CASE Tick
  BY <1>0, <1>10, NobodyAnswered DEF Tick
<1>11. CASE UNCHANGED vars
  BY <1>0, <1>11, NobodyAnswered DEF vars, users, emails
<1> QED BY <1>1, <1>2, <1>3, <1>4, <1>5, <1>6, <1>7, <1>8, <1>9, <1>10, <1>11 DEF Next, TokenStep

-----------------------------------------------------------------------------
\* The theorems.

LEMMA InitHolds == Init => IInv /\ TokensDie /\ AnswersStand
<1> SUFFICES ASSUME Init PROVE IInv /\ TokensDie /\ AnswersStand
  OBVIOUS
<1>1. EmptySnap \in Snaps /\ ~EmptySnap.missed /\ EmptySnap.gone = {}
  BY EmptySnapFits DEF EmptySnap
<1>2. TypeOK
  BY <1>1, AccountsAssumption DEF Init, TypeOK, AnyPassword
<1>3. CallInv
  BY DEF Init, CallInv, LoginLabels, TokenLabels
<1>4. CountInv
  <2>1. \A u \in Users : Misses(u) = {}
    BY <1>1 DEF Init, Misses
  <2>2. \A u \in Users : failed[u] <= Cardinality(Misses(u))
    BY <2>1, FS_EmptySet DEF Init
  <2> QED BY <1>1, <2>2 DEF Init, CountInv
<1>5. VersionInv /\ TokenInv /\ TokensDie /\ AnswersStand
  BY <1>1 DEF Init, VersionInv, TokenInv, TokensDie, AnswersStand, Serves, At
<1> QED BY <1>2, <1>3, <1>4, <1>5 DEF IInv

LEMMA Kept == IInv /\ [Next]_vars => IInv'
BY TypeKept, CallKept, CountKept, VersionKept, TokenKept DEF IInv

\* The inductive invariant holds always.
THEOREM Invariance == Spec => []IInv
<1>1. Init => IInv
  BY InitHolds
<1> QED BY <1>1, Kept, PTL DEF Spec

\* Every variable keeps its type: a lock is never longer than LockTime, and
\* events are stored for registered users only (user-register.use-case.ts,
\* forgot-password.use-case.ts).
THEOREM TypeCorrect == Spec => []TypeOK
<1>1. IInv => TypeOK
  BY DEF IInv
<1> QED BY <1>1, Invariance, PTL

\* However many logins overwrite each other, a lock takes MaxFailed wrong
\* passwords (recordFailedLogin, updateLoginStatus).
THEOREM LocksAreEarned == Spec => []LockNeedsFailures
<1>1. ASSUME IInv PROVE LockNeedsFailures
  <2> SUFFICES ASSUME NEW u \in Users, lock[u] > 0 PROVE Cardinality(Misses(u)) >= MaxFailed
    BY DEF LockNeedsFailures
  <2>1. IsFiniteSet(Misses(u))
    BY AccountsAssumption, FS_Subset DEF Misses
  <2>2. Cardinality(Misses(u)) \in Nat
    BY <2>1, FS_CardinalityType
  <2>3. /\ failed[u] \in Nat /\ MaxFailed \in Nat
        /\ failed[u] <= Cardinality(Misses(u)) /\ failed[u] >= MaxFailed
    BY <1>1, AccountsAssumption DEF IInv, TypeOK, CountInv
  <2> QED BY <2>2, <2>3
<1> QED BY <1>1, Invariance, PTL

\* Only time ends a lock, and logins that read the account before it was
\* locked (isLocked, updateLoginStatus).
THEOREM LocksStand == Spec => LockStands
<1> DEFINE Stands ==
             \A u \in Users : lock[u] > 0 =>
               \/ lock'[u] = lock[u]
               \/ lock'[u] = lock[u] - 1 /\ UNCHANGED version
               \/ \E r \in Requests : OvertakenLogin(r, u)
<1>1. ASSUME IInv, [Next]_vars PROVE [Stands]_vars
  <2> SUFFICES ASSUME NEW u \in Users, lock[u] > 0, lock'[u] # lock[u]
               PROVE  \/ lock'[u] = lock[u] - 1 /\ UNCHANGED version
                      \/ \E r \in Requests : OvertakenLogin(r, u)
    OBVIOUS
  <2>1. TypeOK /\ VersionInv
    BY <1>1 DEF IInv
  <2>2. CASE Tick
    <3>1. lock[u] \in Nat /\ lock'[u] = Earlier(lock[u])
      BY <2>1, <2>2, AccountsAssumption DEF Tick, TypeOK
    <3> QED BY <2>2, <3>1, EarlierFits DEF Tick
  <2>3. ASSUME NEW r \in Requests, UpdateLoginStatus(r) PROVE OvertakenLogin(r, u)
    <3>1. call[r].user = u
      BY <2>1, <2>3 DEF UpdateLoginStatus, TypeOK
    <3>2. snap[r].version < version[u]
      <4>1. snap[r].version \in Nat /\ version[u] \in Nat
        BY <2>1, Fields DEF TypeOK
      <4>2. pc[r] = "status"
        BY <2>3 DEF UpdateLoginStatus
      <4>3. snap[r].version <= version[u] /\ snap[r].version # version[u]
        BY <2>1, <3>1, <4>2 DEF VersionInv
      <4> QED BY <4>1, <4>3
    <3>3. pc[r] = "status" /\ pc'[r] # "status"
      BY <2>1, <2>3 DEF UpdateLoginStatus, Ends, Goes, TypeOK
    <3> QED BY <3>1, <3>2, <3>3 DEF OvertakenLogin
  <2>4. CASE UNCHANGED lock
    BY <2>4
  <2> QED BY <1>1, <2>2, <2>3, <2>4
          DEF Next, LoginStep, TokenStep, Begin, RegisterUser, Register, FindByEmailWithPassword,
              ComparePassword, LookUpEmail, StoreResetRequested, GenerateToken, SendEmail,
              GetToken, DelToken, FindOwner, UpdatePassword, UpdateEmailVerification, MarkVerified,
              RequestFails, users, vars
<1> QED BY <1>1, Invariance, PTL DEF Spec, LockStands

\* A token that was gone when a request came does not serve it
\* (verifyAndConsumeToken).
THEOREM DeadTokensServeNobody == Spec => []TokensDie
<1>1. Init => TokensDie
  BY InitHolds
<1>2. IInv /\ TokensDie /\ [Next]_vars => TokensDie'
  BY DieKept DEF IInv
<1> QED BY <1>1, <1>2, Invariance, PTL DEF Spec

\* No request undoes what another has been answered (updateLoginStatus,
\* updatePassword, updateEmailVerification).
THEOREM AnswersAreKept == Spec => []AnswersStand
<1>1. Init => AnswersStand
  BY InitHolds
<1>2. IInv /\ AnswersStand /\ [Next]_vars => AnswersStand'
  BY AnswersKept DEF IInv
<1> QED BY <1>1, <1>2, Invariance, PTL DEF Spec

=============================================================================
