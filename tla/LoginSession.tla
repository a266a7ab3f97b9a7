---------------------------- MODULE LoginSession ----------------------------
(***************************************************************************)
(* POST /v1/auth/login behind its rate limit: LoginWithEmailAndPassword    *)
(* and AuthenticateWithEmailAndPassword over the two repositories.         *)
(*                                                                         *)
(* A login makes three separate accesses to the database and keeps what    *)
(* the first one read: it finds the account, verifies the password, records *)
(* the login with one conditional UPDATE, signs the tokens, and creates the *)
(* session in a transaction that locks the account again.  The login that  *)
(* generates session identifier s is called s.                             *)
(***************************************************************************)
EXTENDS AuthStore

CONSTANT Password   \* passwords; a password_hash stands for its password

VARIABLES
    password,      \* password_hash of each account
    mfa,           \* accounts with mfa_enabled
    lastLoginAt,   \* last_login_at of each account
    loginPc,       \* where each login is
    target,        \* the account found, None for an unknown e-mail
    supplied,      \* the password the client sent
    found,         \* the projected account: hash, active, mfaEnabled
    readAt,        \* the clock reading a login works with
    loginOutcome   \* how it ended

accountVars == <<password, mfa, lastLoginAt>>
handlerVars == <<loginPc, target, supplied, found, readAt, loginOutcome>>
loginVars == <<accountVars, handlerVars>>

LoginPC == {"idle", "verify", "record", "issue", "create", "insert",
            "respond", "done", "lost"}

(* "rejected" is INVALID_CREDENTIALS; "aborted" is a statement that threw.  *)
LoginOutcome == {"none", "created", "rejected", "aborted"}

Found == [hash : Password, active : BOOLEAN, mfaEnabled : BOOLEAN]

(* LoginTypeOK: typing of the login handlers and of the account columns.    *)
LoginTypeOK ==
    /\ StoreTypeOK
    /\ password \in [Account -> Password]
    /\ mfa \subseteq Account
    /\ lastLoginAt \in [Account -> Time \cup {NoTime}]
    /\ loginPc \in [Session -> LoginPC]
    /\ target \in [Session -> Account \cup {None}]
    /\ supplied \in [Session -> Password \cup {None}]
    /\ found \in [Session -> Found \cup {None}]
    /\ readAt \in [Session -> Time]
    /\ loginOutcome \in [Session -> LoginOutcome]

LoginInit ==
    /\ password \in [Account -> Password]
    /\ mfa = {}
    /\ lastLoginAt = [a \in Account |-> NoTime]
    /\ loginPc = [s \in Session |-> "idle"]
    /\ target = [s \in Session |-> None]
    /\ supplied = [s \in Session |-> None]
    /\ found = [s \in Session |-> None]
    /\ readAt = [s \in Session |-> 0]
    /\ loginOutcome = [s \in Session |-> "none"]

-----------------------------------------------------------------------------
(* findByNormalizedEmail: one read of committed columns, kept to the end.   *)
Find(s, a, p) ==
    /\ loginPc[s] = "idle"
    /\ target' = [target EXCEPT ![s] = a]
    /\ supplied' = [supplied EXCEPT ![s] = p]
    /\ found' = [found EXCEPT ![s] =
          IF a = None THEN None
          ELSE [hash |-> password[a], active |-> a \in eligible,
                mfaEnabled |-> a \in mfa]]
    /\ loginPc' = [loginPc EXCEPT ![s] = "verify"]
    /\ UNCHANGED <<storeVars, accountVars, readAt, loginOutcome>>

(* A login ends: whatever its transaction held is released.                 *)
LoginEnds(s, result) ==
    /\ loginPc' = [loginPc EXCEPT ![s] = "respond"]
    /\ loginOutcome' = [loginOutcome EXCEPT ![s] = result]
    /\ accountLock' = Released(accountLock, s)

CredentialsAccepted(s) ==
    /\ found[s] # None
    /\ supplied[s] = found[s].hash
    /\ found[s].active

(* The password is verified against the hash that was read (a fictitious    *)
(* one for an unknown e-mail); occurredAt is read only afterwards.          *)
Verify(s, at) ==
    /\ loginPc[s] = "verify"
    /\ at \in ClockReadings
    /\ IF CredentialsAccepted(s)
       THEN /\ loginPc' = [loginPc EXCEPT ![s] = "record"]
            /\ readAt' = [readAt EXCEPT ![s] = at]
            /\ UNCHANGED <<loginOutcome, accountLock>>
       ELSE /\ LoginEnds(s, "rejected")
            /\ UNCHANGED readAt
    /\ UNCHANGED <<now, eligible, sessions, sessionLock, claims, delivered,
                   accountVars, target, supplied, found>>

(* Slip: the UPDATE does not insist on the hash that was verified.          *)
RecordWhereAnyHash(s) == target[s] \in eligible

(* The WHERE clause of recordSuccessfulLogin.                               *)
RecordWhere(s) ==
    /\ password[target[s]] = found[s].hash
    /\ target[s] \in eligible

(* Slip: last_login_at is assigned without GREATEST.                        *)
LatestAssigned(stored, at) == at

(* GREATEST(COALESCE(last_login_at, occurredAt), occurredAt).               *)
Latest(stored, at) == IF stored = NoTime \/ stored < at THEN at ELSE stored

(* Slip: the UPDATE runs in a transaction that is still open when create    *)
(* asks for the row on another connection.                                  *)
LocksHeldAfterRecord(s) == [accountLock EXCEPT ![target[s]] = s]

(* The UPDATE commits by itself and leaves no row locked.                   *)
LocksAfterRecord(s) == accountLock

(* recordSuccessfulLogin: one UPDATE, which waits for the row if a refresh  *)
(* or another login has locked it, and tests the row it finds then.         *)
Record(s) ==
    /\ loginPc[s] = "record"
    /\ \/ /\ RecordWhere(s)
          /\ Free(accountLock, target[s])
          /\ lastLoginAt' = [lastLoginAt EXCEPT ![target[s]] = Latest(@, readAt[s])]
          /\ loginPc' = [loginPc EXCEPT ![s] = "issue"]
          /\ accountLock' = LocksAfterRecord(s)
          /\ UNCHANGED loginOutcome
       \/ /\ ~ RecordWhere(s)
          /\ LoginEnds(s, "rejected")
          /\ UNCHANGED lastLoginAt
    /\ UNCHANGED <<now, eligible, sessions, sessionLock, claims, delivered,
                   password, mfa, target, supplied, found, readAt>>

(* mfaEnabled as it was found decides; then the tokens are signed.          *)
Issue(s, at) ==
    /\ loginPc[s] = "issue"
    /\ at \in ClockReadings
    /\ \/ /\ found[s].mfaEnabled
          /\ LoginEnds(s, "rejected")
          /\ UNCHANGED <<claims, readAt>>
       \/ /\ ~ found[s].mfaEnabled
          /\ readAt' = [readAt EXCEPT ![s] = at]
          /\ claims' = [claims EXCEPT ![s] = LoginClaims(s, target[s], at)]
          /\ loginPc' = [loginPc EXCEPT ![s] = "create"]
          /\ UNCHANGED <<loginOutcome, accountLock>>
    /\ UNCHANGED <<now, eligible, sessions, sessionLock, delivered,
                   accountVars, target, supplied, found>>

(* Slip: create inserts without asking for an active account.               *)
CreateWhereAny(a) == TRUE

(* The WHERE clause of the SELECT ... FOR UPDATE in create.                 *)
CreateWhere(a) == a \in eligible

(* Slip: the result of create is not looked at.                             *)
CreateMissedUnnoticed == "created"

(* create returned false: InvalidCredentialsError.                          *)
CreateMissed == "rejected"

Create(s) ==
    /\ loginPc[s] = "create"
    /\ \/ /\ CreateWhere(target[s])
          /\ Free(accountLock, target[s])
          /\ accountLock' = [accountLock EXCEPT ![target[s]] = s]
          /\ loginPc' = [loginPc EXCEPT ![s] = "insert"]
          /\ UNCHANGED loginOutcome
       \/ /\ ~ CreateWhere(target[s])
          /\ LoginEnds(s, CreateMissed)
    /\ UNCHANGED <<now, eligible, sessions, sessionLock, claims, delivered,
                   accountVars, target, supplied, found, readAt>>

(* INSERT INTO auth_sessions and COMMIT, with the account still locked.     *)
Insert(s) ==
    /\ loginPc[s] = "insert"
    /\ sessions' = [sessions EXCEPT ![s] = NewRow(s, target[s], readAt[s])]
    /\ LoginEnds(s, "created")
    /\ UNCHANGED <<now, eligible, sessionLock, claims, delivered, accountVars,
                   target, supplied, found, readAt>>

(* A timeout, a lost connection or the end of the process.  What an earlier *)
(* statement committed stays: last_login_at may advance with no session.    *)
LoginAbort(s) ==
    /\ loginPc[s] \in {"verify", "record", "issue", "create", "insert"}
    /\ LoginEnds(s, "aborted")
    /\ UNCHANGED <<now, eligible, sessions, sessionLock, claims, delivered,
                   accountVars, target, supplied, found, readAt>>

LoginRespond(s) ==
    /\ loginPc[s] = "respond"
    /\ delivered' = IF loginOutcome[s] = "created" THEN delivered \cup {s}
                    ELSE delivered
    /\ loginPc' = [loginPc EXCEPT ![s] = "done"]
    /\ UNCHANGED <<now, eligible, sessions, sessionLock, accountLock, claims,
                   accountVars, target, supplied, found, readAt, loginOutcome>>

LoginLoseResponse(s) ==
    /\ loginPc[s] = "respond"
    /\ loginPc' = [loginPc EXCEPT ![s] = "lost"]
    /\ UNCHANGED <<storeVars, accountVars, target, supplied, found, readAt,
                   loginOutcome>>

LoginWork(s) ==
    \/ \E at \in ClockReadings : Verify(s, at) \/ Issue(s, at)
    \/ Record(s)
    \/ Create(s)
    \/ Insert(s)
    \/ LoginRespond(s)

LoginStep(s) ==
    \/ \E a \in Account \cup {None}, p \in Password : Find(s, a, p)
    \/ LoginWork(s)
    \/ LoginAbort(s)
    \/ LoginLoseResponse(s)

(* Other writers of accounts change a password or require MFA; like every   *)
(* UPDATE they wait for the row.                                            *)
PasswordChanged(a, p) ==
    /\ Free(accountLock, a)
    /\ password' = [password EXCEPT ![a] = p]
    /\ UNCHANGED <<storeVars, mfa, lastLoginAt, handlerVars>>

MfaEnabled(a) ==
    /\ Free(accountLock, a)
    /\ mfa' = mfa \cup {a}
    /\ UNCHANGED <<storeVars, password, lastLoginAt, handlerVars>>

-----------------------------------------------------------------------------
(* Properties.                                                              *)

(* NoTokenWithoutSession: the refresh token of a login is with a client     *)
(* only if its session row was committed first, even when the account is    *)
(* blocked between the UPDATE and the INSERT (login.ts, lines 60-73).       *)
NoTokenWithoutSession ==
    \A s \in Session \cap delivered : sessions[s] # None

(* What a login knows of its account once the password was accepted.        *)
Accepted ==
    \A s \in Session :
        /\ loginPc[s] = "verify" /\ found[s] # None => target[s] \in Account
        /\ loginPc[s] \in {"record", "issue", "create", "insert"} =>
              target[s] \in Account /\ found[s] # None
        /\ loginPc[s] = "record" => supplied[s] = found[s].hash

(* Before its INSERT a login has signed its claims and holds the row of an  *)
(* eligible account.                                                        *)
ReadyToInsert ==
    \A s \in Session :
        /\ loginPc[s] \in {"create", "insert"} =>
              claims[s] = LoginClaims(s, target[s], readAt[s])
        /\ loginPc[s] = "insert" =>
              accountLock[target[s]] = s /\ target[s] \in eligible

(* A session exists exactly when its login ended with it, and its token is  *)
(* handed to the client unless the response is lost.                        *)
CreatedByLogin ==
    \A s \in Session :
        /\ loginOutcome[s] = "none" <=> loginPc[s] \notin {"respond", "done", "lost"}
        /\ loginOutcome[s] = "created" <=> sessions[s] # None
        /\ s \in delivered => loginOutcome[s] = "created"
        /\ loginOutcome[s] = "created" => s \in delivered \/ loginPc[s] \in {"respond", "lost"}

LoginInv == Accepted /\ ReadyToInsert /\ CreatedByLogin

(* CreatedOnlyWhileEligible: at the step that commits a session row the     *)
(* account is active and not deleted, although eligibility was first read   *)
(* three statements earlier (repositories, lines 75-109).                   *)
CreatedOnlyWhileEligible ==
    [][\A s \in Session : sessions[s] = None /\ sessions'[s] # None =>
          sessions'[s].account \in eligible]_<<storeVars, loginVars>>

(* LastLoginAdvances: concurrent logins, with clocks that disagree and in   *)
(* any order of their UPDATEs, never move last_login_at back.               *)
LastLoginAdvances ==
    [][\A a \in Account : lastLoginAt'[a] >= lastLoginAt[a]]_<<storeVars, loginVars>>

(* RecordedWithCurrentPassword: a login passes recordSuccessfulLogin only   *)
(* while the password it verified is still the account's, so a change that  *)
(* commits during the slow verification makes it fail.                      *)
RecordedWithCurrentPassword ==
    [][\A s \in Session :
          loginPc[s] = "record" /\ loginPc'[s] = "issue" =>
              password[target[s]] = supplied[s]]_<<storeVars, loginVars>>

(* LoginAnswered: every login that began is answered or loses its answer.   *)
LoginAnswered ==
    \A s \in Session : loginPc[s] = "verify" ~> loginPc[s] \in {"done", "lost"}
=============================================================================
