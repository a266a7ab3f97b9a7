----------------------------- MODULE AuthStore -----------------------------
(***************************************************************************)
(* The relational state behind authentication: the rows of auth_sessions,  *)
(* the eligibility of the rows of accounts, the row locks PostgreSQL keeps *)
(* for SELECT ... FOR UPDATE, and the signed refresh tokens in the world.  *)
(* The login and the refresh handlers both act on this state.              *)
(*                                                                         *)
(* A credential is a refresh token.  Its random jti makes it unique, so it *)
(* is named by the handler that issued it: a login of session s issues     *)
(* credential s, a refresh request r issues credential r.                  *)
(***************************************************************************)
EXTENDS Integers

CONSTANTS
    Account,    \* rows of accounts
    Session,    \* identifiers of auth_sessions; one login each
    Request,    \* refresh requests; each is served once
    Lifetime,   \* refreshTokenLifetimeSeconds
    Skew,       \* how far the clock of an API process may lag behind another's
    MaxTime,    \* bound: the clock stops here
    None        \* SQL NULL, or an absent row, lock holder or token

Credential == Session \cup Request

ASSUME CredentialAssumption == /\ Session \cap Request = {}
                               /\ None \notin Credential \cup Account

ASSUME TimeAssumption == /\ Lifetime \in Nat \ {0}
                         /\ Skew \in Nat
                         /\ MaxTime \in Nat

VARIABLES
    now,          \* the fastest clock, in whole seconds
    eligible,     \* accounts with status 'active' and deleted_at NULL
    sessions,     \* auth_sessions: session |-> row, or None
    sessionLock,  \* holder of the row lock of each session
    accountLock,  \* holder of the row lock of each account
    claims,       \* what each signed refresh token says, or None
    delivered     \* credentials that reached a client

storeVars == <<now, eligible, sessions, sessionLock, accountLock, claims,
               delivered>>

NoTime == -1      \* a NULL timestamp
Time == Nat

(* What clock.now(), floored to a second, returns to a handler.             *)
ClockReadings == {t \in (now - Skew) .. now : t >= 0}

(* The hash under which a credential is stored; SHA-256 does not collide.  *)
Hash(t) == <<"sha256", t>>

Hashes == {Hash(t) : t \in Credential}

Row == [account    : Account,
        hash       : Hashes,
        createdAt  : Time,
        expiresAt  : Time,
        lastUsedAt : Time \cup {NoTime},
        revokedAt  : Time \cup {NoTime},
        version    : Nat \ {0}]

Claims == [session : Session, account : Account, iat : Time, exp : Time]

ASSUME NoneAssumption == None \notin Row /\ None \notin Claims

Holder == Credential \cup {None}

StoreTypeOK ==
    /\ now \in Time
    /\ eligible \subseteq Account
    /\ sessions \in [Session -> Row \cup {None}]
    /\ sessionLock \in [Session -> Holder]
    /\ accountLock \in [Account -> Holder]
    /\ claims \in [Credential -> Claims \cup {None}]
    /\ delivered \subseteq Credential

-----------------------------------------------------------------------------
(* Slip: verify without issuedAt > now.                                     *)
VerifiedAnyIssueTime(c, at) ==
    /\ at < c.exp
    /\ c.exp - c.iat \in 1 .. Lifetime

(* JoseRefreshTokenService.verify at time at: signature and constant claims *)
(* hold for every token the service issued, the times are compared.         *)
Verified(c, at) ==
    /\ c.iat <= at
    /\ at < c.exp
    /\ c.exp - c.iat \in 1 .. Lifetime

(* auth_sessions_lifecycle_check, evaluated on every INSERT and UPDATE.     *)
LifecycleCheck(row) ==
    /\ row.expiresAt > row.createdAt
    /\ row.lastUsedAt # NoTime => row.lastUsedAt \in row.createdAt .. (row.expiresAt - 1)
    /\ row.revokedAt # NoTime =>
          /\ row.revokedAt >= row.createdAt
          /\ row.lastUsedAt # NoTime => row.lastUsedAt <= row.revokedAt

(* The row a login inserts for its session.                                 *)
NewRow(s, a, at) ==
    [account |-> a, hash |-> Hash(s), createdAt |-> at,
     expiresAt |-> at + Lifetime, lastUsedAt |-> NoTime,
     revokedAt |-> NoTime, version |-> 1]

LoginClaims(s, a, at) ==
    [session |-> s, account |-> a, iat |-> at, exp |-> at + Lifetime]

Free(lock, x) == lock[x] = None

(* Slip: the transaction is never ended.                                    *)
ReleasedNever(lock, holder) == lock

(* A transaction that ends, by COMMIT or by ROLLBACK, drops its row locks.  *)
Released(lock, holder) ==
    [x \in DOMAIN lock |-> IF lock[x] = holder THEN None ELSE lock[x]]

StoreInit ==
    /\ now = 0
    /\ eligible = Account
    /\ sessions = [s \in Session |-> None]
    /\ sessionLock = [s \in Session |-> None]
    /\ accountLock = [a \in Account |-> None]
    /\ claims = [t \in Credential |-> None]
    /\ delivered = {}

-----------------------------------------------------------------------------
(* What happens to the store outside the handlers.                          *)

Tick ==
    /\ now < MaxTime
    /\ now' = now + 1
    /\ UNCHANGED <<eligible, sessions, sessionLock, accountLock, claims,
                   delivered>>

(* Another writer blocks, deletes or reinstates an account: an UPDATE of    *)
(* the row, which waits while a transaction has it locked.                  *)
EligibilityChanged(a) ==
    /\ Free(accountLock, a)
    /\ eligible' = IF a \in eligible THEN eligible \ {a} ELSE eligible \cup {a}
    /\ UNCHANGED <<now, sessions, sessionLock, accountLock, claims, delivered>>
=============================================================================
