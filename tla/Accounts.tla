------------------------------- MODULE Accounts -------------------------------
(***************************************************************************)
(* Accounts: registration, login with its lockout, password reset and      *)
(* email verification, as requests that race on the user documents and on  *)
(* the tokens in Redis.  Every database and Redis round trip, and bcrypt,   *)
(* is a step.  Time passes in ticks.  The outbox and the email queue may   *)
(* run the handler of an event any number of times (see Outbox).           *)
(***************************************************************************)
EXTENDS Integers, FiniteSets

CONSTANTS
  Users,           \* email addresses; at most one account each
  Passwords,
  StrongPasswords, \* those the password policy accepts
  Tokens,          \* what randomUUID may give, without repetition
  Requests,        \* requests, one call each
  Calls,           \* the calls a request may make: [kind, user, password, token]
  MaxFailed,       \* failed logins that lock an account
  LockTime,        \* how long, in ticks
  VerifyTtl,       \* time to live of a verification token
  ResetTtl,        \* and of a reset token
  NotIssued        \* a token that has not been generated yet

Kinds == {"register", "login", "forgot", "reset", "verify"}

ASSUME AccountsAssumption ==
  /\ Calls \subseteq [kind : Kinds, user : Users, password : Passwords, token : Tokens]
  /\ Calls # {} /\ Passwords # {} /\ StrongPasswords \subseteq Passwords
  /\ MaxFailed \in Nat \ {0} /\ LockTime \in Nat \ {0}
  /\ VerifyTtl \in Nat \ {0} /\ ResetTtl \in Nat \ {0}
  /\ IsFiniteSet(Requests)

VARIABLES
  \* the Users collection
  registered, password, verified,
  failed, lock,    \* failedLoginAttempts; ticks left to lockUntil
  version,         \* history: how often the login status has been written
  \* emails and tokens
  asked,           \* events stored for the email worker: [type, user]
  issued, ttl,     \* subject and type of a token; ticks left of its key
  mailed,          \* tokens that have been sent
  \* the requests
  pc, call, snap

users == <<registered, password, verified, failed, lock, version>>
emails == <<asked, issued, ttl, mailed>>
vars == <<users, emails, pc, call, snap>>

Asks == [type : {"verify", "reset"}, user : Users]

\* What a request knows: the fields of the entity it has read or changed, and
\* as history the version it read, the tokens that were gone when it came, and
\* whether its password was wrong.
Snaps == [password : Passwords, verified : BOOLEAN, failed : Nat, lock : 0 .. LockTime,
          version : Nat, gone : SUBSET Tokens, missed : BOOLEAN]

AnyPassword == CHOOSE p \in Passwords : TRUE

EmptySnap == [password |-> AnyPassword, verified |-> FALSE, failed |-> 0, lock |-> 0,
              version |-> 0, gone |-> {}, missed |-> FALSE]

TypeOK ==
  /\ registered \subseteq Users
  /\ password \in [Users -> Passwords]
  /\ verified \in [Users -> BOOLEAN]
  /\ failed \in [Users -> Nat]
  /\ lock \in [Users -> 0 .. LockTime]
  /\ version \in [Users -> Nat]
  /\ asked \subseteq [type : {"verify", "reset"}, user : registered]
  /\ issued \in [Tokens -> Asks \cup {NotIssued}]
  /\ ttl \in [Tokens -> Nat]
  /\ mailed \subseteq {t \in Tokens : issued[t] # NotIssued}
  /\ pc \in [Requests -> {"idle", "insert", "find", "compare", "status", "lookup", "store",
                          "get", "del", "owner", "save", "answered", "refused", "failed"}]
  /\ call \in [Requests -> Calls]
  /\ snap \in [Requests -> Snaps]

Init ==
  /\ registered = {}
  /\ password = [u \in Users |-> AnyPassword]
  /\ verified = [u \in Users |-> FALSE]
  /\ failed = [u \in Users |-> 0]
  /\ lock = [u \in Users |-> 0]
  /\ version = [u \in Users |-> 0]
  /\ asked = {}
  /\ issued = [t \in Tokens |-> NotIssued]
  /\ ttl = [t \in Tokens |-> 0]
  /\ mailed = {}
  /\ pc = [r \in Requests |-> "idle"]
  /\ call = [r \in Requests |-> CHOOSE c \in Calls : TRUE]
  /\ snap = [r \in Requests |-> EmptySnap]

Goes(r, label) == pc' = [pc EXCEPT ![r] = label]

\* The last write of a request: its answer may be lost, the write is not.
Ends(r, label) == Goes(r, label) \/ Goes(r, "failed")

\* PasswordPolicy.validate; a login takes any password.
MeetsPolicy(c) == c.kind \in {"register", "reset"} => c.password \in StrongPasswords

FirstStep(c) ==
  CASE ~MeetsPolicy(c) -> "refused"
    [] MeetsPolicy(c) /\ c.kind = "register" -> "insert"
    [] c.kind = "login" -> "find"
    [] c.kind = "forgot" -> "lookup"
    [] MeetsPolicy(c) /\ c.kind \in {"reset", "verify"} -> "get"

Serves(r, labels) == call[r].kind \in {"reset", "verify"} /\ pc[r] \in labels

Consumed(t) == \E r \in Requests : Serves(r, {"owner", "save", "answered"}) /\ call[r].token = t

\* History: the tokens that have expired or that a request has consumed.
Gone == {t \in Tokens : issued[t] # NotIssued /\ (ttl[t] = 0 \/ Consumed(t))}

\* Who presents a token has got it by email.  A password that is too weak is
\* refused before a token is consumed or a user inserted.
Begin(r) ==
  /\ pc[r] = "idle"
  /\ \E c \in Calls :
       /\ c.kind \in {"reset", "verify"} => c.token \in mailed
       /\ call' = [call EXCEPT ![r] = c]
       /\ Goes(r, FirstStep(c))
  /\ snap' = [snap EXCEPT ![r] = [EmptySnap EXCEPT !.gone = Gone]]
  /\ UNCHANGED <<users, emails>>

\* UserEntity.register: a user with the defaults of Init, and the event.
Register(u, p) ==
  /\ registered' = registered \cup {u}
  /\ password' = [password EXCEPT ![u] = p]
  /\ asked' = asked \cup {[type |-> "verify", user |-> u]}

\* The transaction: the user and the event, or neither.  A second user with the
\* same email violates the unique index.
RegisterUser(r) ==
  /\ pc[r] = "insert"
  /\ LET u == call[r].user
     IN IF u \in registered
        THEN /\ Goes(r, "refused")
             /\ UNCHANGED <<registered, password, asked>>
        ELSE Register(u, call[r].password) /\ Ends(r, "answered")
  /\ UNCHANGED <<verified, failed, lock, version, issued, ttl, mailed, call, snap>>

-----------------------------------------------------------------------------
\* Login.

\* Mutant: a locked account is not refused.
NeverLocked(u) == FALSE

IsLocked(u) == lock[u] > 0

FindByEmailWithPassword(r) ==
  /\ pc[r] = "find"
  /\ LET u == call[r].user
     IN IF u \notin registered \/ IsLocked(u)
        THEN Goes(r, "refused") /\ UNCHANGED snap
        ELSE /\ Goes(r, "compare")
             /\ snap' = [snap EXCEPT ![r] =
                  [@ EXCEPT !.password = password[u], !.verified = verified[u],
                            !.failed = failed[u], !.lock = lock[u], !.version = version[u]]]
  /\ UNCHANGED <<users, emails, call>>

\* Mutant: one failure too few.
LockOneEarly(s) ==
  [s EXCEPT !.failed = @ + 1, !.missed = TRUE,
            !.lock = IF s.failed + 2 >= MaxFailed THEN LockTime ELSE @]

RecordFailedLogin(s) ==
  [s EXCEPT !.failed = @ + 1, !.missed = TRUE,
            !.lock = IF s.failed + 1 >= MaxFailed THEN LockTime ELSE @]

RecordSuccessfulLogin(s) == [s EXCEPT !.failed = 0, !.lock = 0]

ComparePassword(r) ==
  /\ pc[r] = "compare"
  /\ Goes(r, "status")
  /\ snap' = [snap EXCEPT ![r] = IF @.password = call[r].password
                                 THEN RecordSuccessfulLogin(@) ELSE RecordFailedLogin(@)]
  /\ UNCHANGED <<users, emails, call>>

\* Mutant: the whole entity is written back.
WriteEntity(r) ==
  /\ password' = [password EXCEPT ![call[r].user] = snap[r].password]
  /\ verified' = [verified EXCEPT ![call[r].user] = snap[r].verified]

\* $set names the fields of the login only.
WriteNothingElse(r) == UNCHANGED <<password, verified>>

UpdateLoginStatus(r) ==
  /\ pc[r] = "status"
  /\ failed' = [failed EXCEPT ![call[r].user] = snap[r].failed]
  /\ lock' = [lock EXCEPT ![call[r].user] = snap[r].lock]
  /\ version' = [version EXCEPT ![call[r].user] = @ + 1]
  /\ WriteNothingElse(r)
  /\ Ends(r, IF snap[r].missed THEN "refused" ELSE "answered")
  /\ UNCHANGED <<registered, emails, call, snap>>

-----------------------------------------------------------------------------
\* Forgotten passwords and the email worker.

\* Mutant: an event for an email that nobody has.
LookUpNobody(r) ==
  /\ pc[r] = "lookup"
  /\ Goes(r, "store")
  /\ UNCHANGED <<users, emails, call, snap>>

LookUpEmail(r) ==
  /\ pc[r] = "lookup"
  /\ Goes(r, IF call[r].user \in registered THEN "store" ELSE "answered")
  /\ UNCHANGED <<users, emails, call, snap>>

StoreResetRequested(r) ==
  /\ pc[r] = "store"
  /\ asked' = asked \cup {[type |-> "reset", user |-> call[r].user]}
  /\ Ends(r, "answered")
  /\ UNCHANGED <<users, issued, ttl, mailed, call, snap>>

\* A handler of the email worker.  One that throws is run again, and then
\* generates another token.
GenerateToken(t) ==
  /\ issued[t] = NotIssued
  /\ \E ask \in asked :
       /\ issued' = [issued EXCEPT ![t] = ask]
       /\ ttl' = [ttl EXCEPT ![t] = IF ask.type = "verify" THEN VerifyTtl ELSE ResetTtl]
  /\ UNCHANGED <<users, asked, mailed, pc, call, snap>>

SendEmail(t) ==
  /\ issued[t] # NotIssued
  /\ t \notin mailed
  /\ mailed' = mailed \cup {t}
  /\ UNCHANGED <<users, asked, issued, ttl, pc, call, snap>>

-----------------------------------------------------------------------------
\* Password reset and email verification.

\* The key is made of the type and the token.
GetToken(r) ==
  /\ pc[r] = "get"
  /\ LET t == call[r].token
     IN Goes(r, IF ttl[t] > 0 /\ issued[t].type = call[r].kind THEN "del" ELSE "refused")
  /\ UNCHANGED <<users, emails, call, snap>>

\* Mutant: the token stays.
KeepToken(r) ==
  /\ pc[r] = "del"
  /\ Goes(r, "owner")
  /\ UNCHANGED <<users, emails, call, snap>>

DelToken(r) ==
  /\ pc[r] = "del"
  /\ ttl' = [ttl EXCEPT ![call[r].token] = 0]
  /\ Goes(r, "owner")
  /\ UNCHANGED <<users, asked, issued, mailed, call, snap>>

\* The user whose email is the subject of the token.
Owner(r) == issued[call[r].token].user

FindOwner(r) ==
  /\ pc[r] = "owner"
  /\ Goes(r, IF Owner(r) \notin registered THEN "refused"
             ELSE IF call[r].kind = "verify" /\ verified[Owner(r)] THEN "answered" ELSE "save")
  /\ UNCHANGED <<users, emails, call, snap>>

\* EmailVerificationVO: pending, then verified for good.
MarkVerified(u) == verified' = [verified EXCEPT ![u] = TRUE]

UpdatePassword(r) ==
  /\ pc[r] = "save"
  /\ call[r].kind = "reset"
  /\ password' = [password EXCEPT ![Owner(r)] = call[r].password]
  /\ Ends(r, "answered")
  /\ UNCHANGED <<registered, verified, failed, lock, version, emails, call, snap>>

UpdateEmailVerification(r) ==
  /\ pc[r] = "save"
  /\ call[r].kind = "verify"
  /\ MarkVerified(Owner(r))
  /\ Ends(r, "answered")
  /\ UNCHANGED <<registered, password, failed, lock, version, emails, call, snap>>

\* A round trip ends in an error before it has an effect, or the server crashes.
RequestFails(r) ==
  /\ pc[r] \notin {"idle", "answered", "refused", "failed"}
  /\ Goes(r, "failed")
  /\ UNCHANGED <<users, emails, call, snap>>

Earlier(ticks) == IF ticks = 0 THEN 0 ELSE ticks - 1

\* The lock that a request is about to write is a time as well.
Tick ==
  /\ lock' = [u \in Users |-> Earlier(lock[u])]
  /\ ttl' = [t \in Tokens |-> Earlier(ttl[t])]
  /\ snap' = [r \in Requests |-> [snap[r] EXCEPT !.lock = Earlier(@)]]
  /\ UNCHANGED <<registered, password, verified, failed, version, asked, issued, mailed, pc, call>>

LoginStep(r) == FindByEmailWithPassword(r) \/ ComparePassword(r) \/ UpdateLoginStatus(r)

TokenStep(r) ==
  GetToken(r) \/ DelToken(r) \/ FindOwner(r) \/ UpdatePassword(r) \/ UpdateEmailVerification(r)

Next ==
  \/ \E r \in Requests :
       \/ Begin(r) \/ RegisterUser(r) \/ LoginStep(r) \/ TokenStep(r)
       \/ LookUpEmail(r) \/ StoreResetRequested(r) \/ RequestFails(r)
  \/ \E t \in Tokens : GenerateToken(t) \/ SendEmail(t)
  \/ Tick

Spec == Init /\ [][Next]_vars

-----------------------------------------------------------------------------
\* Properties.

Misses(u) == {r \in Requests : call[r].kind = "login" /\ call[r].user = u /\ snap[r].missed}

\* Nobody is locked out by fewer than MaxFailed wrong passwords, although
\* concurrent logins overwrite each other's counts (recordFailedLogin,
\* updateLoginStatus).
LockNeedsFailures ==
  \A u \in Users : lock[u] > 0 => Cardinality(Misses(u)) >= MaxFailed

\* Is r, which read the account of u before its login status was last written,
\* the one that writes it now?
OvertakenLogin(r, u) ==
  /\ call[r].user = u
  /\ pc[r] = "status" /\ pc'[r] # "status"
  /\ snap[r].version < version[u]

\* A lock ends with its time.  Only a login that had read the account before
\* the lock was written can end it early or prolong it (isLocked).
LockStands ==
  [][\A u \in Users : lock[u] > 0 =>
       \/ lock'[u] = lock[u]
       \/ lock'[u] = lock[u] - 1 /\ UNCHANGED version
       \/ \E r \in Requests : OvertakenLogin(r, u)]_vars

\* A token that was used or had expired before a request came does not serve
\* it: two requests with one token must overlap (verifyAndConsumeToken).
TokensDie ==
  \A r \in Requests :
    Serves(r, {"del", "owner", "save", "answered"}) => call[r].token \notin snap[r].gone

\* The requests of a kind for u that are at one of the labels.
At(kind, u, labels) ==
  {r \in Requests : call[r].kind = kind /\ pc[r] \in labels /\ Owner(r) = u}

\* What has been answered is not undone by requests that read the user before:
\* after a reset the password is one that a reset has set, and a verified email
\* stays verified (updateLoginStatus, updatePassword, updateEmailVerification).
AnswersStand ==
  \A u \in Users :
    /\ At("reset", u, {"answered"}) # {} =>
         password[u] \in {call[r].password : r \in At("reset", u, {"answered", "failed"})}
    /\ At("verify", u, {"answered"}) # {} => verified[u]

=============================================================================
