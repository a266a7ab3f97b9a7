--------------------------- MODULE RefreshSession ---------------------------
(***************************************************************************)
(* POST /v1/auth/refresh: RefreshAuthenticationSession.execute and the     *)
(* transaction of DrizzleAuthenticationSessionRepository.rotate.           *)
(*                                                                         *)
(* A request reads the clock, verifies the presented token, signs the      *)
(* successor and the access token, and only then opens a READ COMMITTED    *)
(* transaction:                                                            *)
(*                                                                         *)
(*   SELECT ... FROM auth_sessions JOIN accounts ... LIMIT 1 FOR UPDATE    *)
(*   UPDATE auth_sessions ... (rotate or revoke); COMMIT                   *)
(*                                                                         *)
(* PostgreSQL evaluates the SELECT on committed rows (Select), then locks  *)
(* the row of auth_sessions (LockSession) and the row of accounts          *)
(* (LockAccount), waiting for each, and re-evaluates the condition on the  *)
(* rows it has locked.                                                     *)
(***************************************************************************)
EXTENDS AuthStore

VARIABLES
    pc,         \* where each request is
    presented,  \* the refresh token it carries
    usedAt,     \* the clock it read when it started
    seen,       \* refreshTokenHash returned by the locking SELECT
    outcome     \* how its transaction ended

refreshVars == <<pc, presented, usedAt, seen, outcome>>
vars == <<storeVars, refreshVars>>

PC == {"idle", "select", "lockSession", "lockAccount", "update", "respond",
       "done", "lost"}

(* "rotated", "reused" and "invalid" are the results of rotate; "rejected" *)
(* is a token verify refused; "checkFailed" and "aborted" are transactions  *)
(* that threw, on a CHECK constraint or on a timeout or a lost connection.  *)
Outcome == {"none", "rotated", "reused", "invalid", "rejected",
            "checkFailed", "aborted"}

(* TypeOK: every variable keeps its type; in particular a stored row always *)
(* has the columns of auth_sessions and a holder of a lock is a handler.    *)
TypeOK ==
    /\ StoreTypeOK
    /\ pc \in [Request -> PC]
    /\ presented \in [Request -> Credential \cup {None}]
    /\ usedAt \in [Request -> Time]
    /\ seen \in [Request -> Hashes \cup {None}]
    /\ outcome \in [Request -> Outcome]

RefreshInit ==
    /\ pc = [r \in Request |-> "idle"]
    /\ presented = [r \in Request |-> None]
    /\ usedAt = [r \in Request |-> 0]
    /\ seen = [r \in Request |-> None]
    /\ outcome = [r \in Request |-> "none"]

Init == StoreInit /\ RefreshInit

-----------------------------------------------------------------------------
(* The claims, the session and the account a request works with.           *)
Said(r) == claims[presented[r]]
SessionOf(r) == Said(r).session
AccountOf(r) == Said(r).account

(* What verify refused is answered with InvalidRefreshTokenError at once.   *)
Reject(r, t, at) ==
    /\ ~ Verified(claims[t], at)
    /\ pc' = [pc EXCEPT ![r] = "respond"]
    /\ outcome' = [outcome EXCEPT ![r] = "rejected"]
    /\ UNCHANGED claims

(* Slip: issue is called without expiresAt and grants a full lifetime.      *)
SuccessorClaimsRenewed(c, at) ==
    [session |-> c.session, account |-> c.account, iat |-> at,
     exp |-> at + Lifetime]

(* The successor keeps session, account and absolute expiry.                *)
SuccessorClaims(c, at) ==
    [session |-> c.session, account |-> c.account, iat |-> at, exp |-> c.exp]

Accept(r, t, at) ==
    /\ Verified(claims[t], at)
    /\ claims' = [claims EXCEPT ![r] = SuccessorClaims(claims[t], at)]
    /\ pc' = [pc EXCEPT ![r] = "select"]
    /\ UNCHANGED outcome

(* A client presents any token it was ever given.                           *)
Receive(r, t, at) ==
    /\ pc[r] = "idle"
    /\ t \in delivered
    /\ at \in ClockReadings
    /\ presented' = [presented EXCEPT ![r] = t]
    /\ usedAt' = [usedAt EXCEPT ![r] = at]
    /\ Reject(r, t, at) \/ Accept(r, t, at)
    /\ UNCHANGED <<now, eligible, sessions, sessionLock, accountLock,
                   delivered, seen>>

-----------------------------------------------------------------------------
(* Slip: the joined account is not asked for its status.                    *)
SelectWhereAnyAccount(c, at) ==
    LET row == sessions[c.session]
    IN  /\ row # None
        /\ row.account = c.account
        /\ row.expiresAt = c.exp
        /\ row.revokedAt = NoTime
        /\ row.expiresAt > at

(* The WHERE clause of the locking SELECT, on the current committed rows.   *)
SelectWhere(c, at) ==
    LET row == sessions[c.session]
    IN  /\ row # None
        /\ row.account = c.account
        /\ row.expiresAt = c.exp
        /\ row.revokedAt = NoTime
        /\ row.expiresAt > at
        /\ c.account \in eligible

(* The end of the transaction and of its locks; the result is recorded.     *)
Finish(r, result) ==
    /\ sessionLock' = Released(sessionLock, r)
    /\ accountLock' = Released(accountLock, r)
    /\ outcome' = [outcome EXCEPT ![r] = result]
    /\ pc' = [pc EXCEPT ![r] = "respond"]

Select(r) ==
    /\ pc[r] = "select"
    /\ IF SelectWhere(Said(r), usedAt[r])
       THEN /\ pc' = [pc EXCEPT ![r] = "lockSession"]
            /\ UNCHANGED <<outcome, sessionLock, accountLock>>
       ELSE Finish(r, "invalid")
    /\ UNCHANGED <<now, eligible, sessions, claims, delivered, presented,
                   usedAt, seen>>

LockSession(r) ==
    /\ pc[r] = "lockSession"
    /\ Free(sessionLock, SessionOf(r))
    /\ sessionLock' = [sessionLock EXCEPT ![SessionOf(r)] = r]
    /\ pc' = [pc EXCEPT ![r] = "lockAccount"]
    /\ UNCHANGED <<now, eligible, sessions, accountLock, claims, delivered,
                   presented, usedAt, seen, outcome>>

(* FOR UPDATE names no table, so the joined row of accounts is locked too;  *)
(* rows that changed while it waited are tested again before they count.    *)
LockAccount(r) ==
    /\ pc[r] = "lockAccount"
    /\ Free(accountLock, AccountOf(r))
    /\ IF SelectWhere(Said(r), usedAt[r])
       THEN /\ accountLock' = [accountLock EXCEPT ![AccountOf(r)] = r]
            /\ seen' = [seen EXCEPT ![r] = sessions[SessionOf(r)].hash]
            /\ pc' = [pc EXCEPT ![r] = "update"]
            /\ UNCHANGED <<sessionLock, outcome>>
       ELSE /\ Finish(r, "invalid")
            /\ UNCHANGED seen
    /\ UNCHANGED <<now, eligible, sessions, claims, delivered, presented,
                   usedAt>>

-----------------------------------------------------------------------------
(* The WHERE clause of both UPDATEs.                                        *)
UpdateWhere(row, hash, at) ==
    /\ row # None
    /\ row.hash = hash
    /\ row.revokedAt = NoTime
    /\ row.expiresAt > at

(* Slip: the rotation leaves the presented hash in the row.                 *)
RotatedRowSameHash(row, successor, at) ==
    [row EXCEPT !.lastUsedAt = at, !.version = @ + 1]

RotatedRow(row, successor, at) ==
    [row EXCEPT !.hash = Hash(successor), !.lastUsedAt = at, !.version = @ + 1]

(* Slip: the revocation does not set revoked_at.                            *)
RevokedRowUndated(row, at) == [row EXCEPT !.version = @ + 1]

RevokedRow(row, at) ==
    [row EXCEPT !.revokedAt = at, !.version = @ + 1]

(* Slip: the number of returned rows is read the wrong way round.           *)
UpdateResultInverted(matched, row, success) ==
    IF matched THEN "invalid"
    ELSE IF LifecycleCheck(row) THEN success ELSE "checkFailed"

(* UPDATE ... RETURNING, then COMMIT: one row or none changes, and a row    *)
(* the CHECK constraint refuses makes the statement throw.                  *)
UpdateResult(matched, row, success) ==
    IF ~ matched THEN "invalid"
    ELSE IF LifecycleCheck(row) THEN success ELSE "checkFailed"

UpdateAndCommit(r, hash, row, success) ==
    LET matched == UpdateWhere(sessions[SessionOf(r)], hash, usedAt[r])
    IN  /\ sessions' = IF matched /\ LifecycleCheck(row)
                       THEN [sessions EXCEPT ![SessionOf(r)] = row]
                       ELSE sessions
        /\ Finish(r, UpdateResult(matched, row, success))
        /\ UNCHANGED <<now, eligible, claims, delivered, presented, usedAt,
                       seen>>

(* Slip: the stored hash is compared with the token itself.                 *)
IsCurrentUnhashed(r) == seen[r] = presented[r]

(* The hash comparison of rotate: does the row hold the presented token?    *)
IsCurrent(r) == seen[r] = Hash(presented[r])

Rotate(r) ==
    /\ pc[r] = "update"
    /\ IsCurrent(r)
    /\ UpdateAndCommit(r, Hash(presented[r]),
                       RotatedRow(sessions[SessionOf(r)], r, usedAt[r]),
                       "rotated")

Revoke(r) ==
    /\ pc[r] = "update"
    /\ ~ IsCurrent(r)
    /\ UpdateAndCommit(r, seen[r],
                       RevokedRow(sessions[SessionOf(r)], usedAt[r]),
                       "reused")

-----------------------------------------------------------------------------
InTransaction(r) == pc[r] \in {"select", "lockSession", "lockAccount", "update"}

(* statement_timeout, a broken connection or the end of the process: the    *)
(* server rolls back; the request, if anyone still serves it, gets a 5xx.   *)
Abort(r) ==
    /\ InTransaction(r)
    /\ Finish(r, "aborted")
    /\ UNCHANGED <<now, eligible, sessions, claims, delivered, presented,
                   usedAt, seen>>

(* The answer: the successor on "rotated", an error otherwise.              *)
Respond(r) ==
    /\ pc[r] = "respond"
    /\ delivered' = IF outcome[r] = "rotated" THEN delivered \cup {r}
                    ELSE delivered
    /\ pc' = [pc EXCEPT ![r] = "done"]
    /\ UNCHANGED <<now, eligible, sessions, sessionLock, accountLock, claims,
                   presented, usedAt, seen, outcome>>

(* The acknowledgement of COMMIT or the HTTP response never arrives.        *)
LoseResponse(r) ==
    /\ pc[r] = "respond"
    /\ pc' = [pc EXCEPT ![r] = "lost"]
    /\ UNCHANGED <<storeVars, presented, usedAt, seen, outcome>>

Work(r) ==
    \/ Select(r)
    \/ LockSession(r)
    \/ LockAccount(r)
    \/ Rotate(r)
    \/ Revoke(r)
    \/ Respond(r)

RefreshStep(r) ==
    \/ \E t \in delivered, at \in ClockReadings : Receive(r, t, at)
    \/ Work(r)
    \/ Abort(r)
    \/ LoseResponse(r)

(* The committed effect of a login, with the token already at the client.   *)
OpenSession(s, a, at) ==
    /\ sessions[s] = None
    /\ a \in eligible
    /\ Free(accountLock, a)
    /\ at \in ClockReadings
    /\ sessions' = [sessions EXCEPT ![s] = NewRow(s, a, at)]
    /\ claims' = [claims EXCEPT ![s] = LoginClaims(s, a, at)]
    /\ delivered' = delivered \cup {s}
    /\ UNCHANGED <<now, eligible, sessionLock, accountLock, refreshVars>>

Environment ==
    \/ Tick /\ UNCHANGED refreshVars
    \/ \E a \in Account : EligibilityChanged(a) /\ UNCHANGED refreshVars
    \/ \E s \in Session, a \in Account, at \in ClockReadings :
          OpenSession(s, a, at)

Next ==
    \/ \E r \in Request : RefreshStep(r)
    \/ Environment

Spec == Init /\ [][Next]_vars

(* The event loop and the database run what is runnable; nothing promises   *)
(* that a client calls, that a clock is read, or that a transaction aborts. *)
FairSpec == Spec /\ \A r \in Request : WF_vars(Work(r))
-----------------------------------------------------------------------------
(* Properties.                                                              *)

Rotated(r) == outcome[r] = "rotated"

SpentIn(s) == {presented[r] : r \in {q \in Request : Rotated(q) /\ SessionOf(q) = s}}

Opened(s) == sessions[s] # None

Revoked(s) == Opened(s) /\ sessions[s].revokedAt # NoTime

(* SingleSuccessor: however many requests present one refresh token at the  *)
(* same time, at most one of them commits a rotation (rotate, lines 164-185: *)
(* the conditional UPDATE on the presented hash).                           *)
SingleSuccessor ==
    \A q, r \in Request :
        Rotated(q) /\ Rotated(r) /\ presented[q] = presented[r] => q = r

(* ReuseIsGenuine: rotate reports a reuse only for a token that another     *)
(* request of the same session has already exchanged, so a slow or repeated *)
(* legitimate request with the current token never ends the session.        *)
ReuseIsGenuine ==
    \A r \in Request :
        outcome[r] = "reused" => presented[r] \in SpentIn(SessionOf(r))

(* ReuseStands: once a reuse was reported, the row of that session is never *)
(* written again, whatever transactions were waiting for its lock.          *)
ReuseStands ==
    [][\A r \in Request : outcome[r] = "reused" =>
          sessions'[SessionOf(r)] = sessions[SessionOf(r)]]_vars

(* ExpiryIsAbsolute: every refresh token signed for a session, through any  *)
(* chain of rotations, names the account and the expiry of the row: a       *)
(* session cannot be prolonged by refreshing it.                            *)
ExpiryIsAbsolute ==
    \A t \in Credential :
        claims[t] # None /\ Opened(claims[t].session) =>
            /\ claims[t].exp = sessions[claims[t].session].expiresAt
            /\ claims[t].account = sessions[claims[t].session].account

(* WrittenOnlyWhileEligible: at the very step a rotation or a revocation    *)
(* commits, the account is still active and not deleted and the session not *)
(* revoked: a block that lands while the request waits for a lock wins.     *)
WrittenOnlyWhileEligible ==
    [][\A s \in Session : Opened(s) /\ sessions'[s] # sessions[s] =>
          /\ sessions[s].account \in eligible
          /\ ~ Revoked(s)]_vars

(* RotationPassesCheck: the lifecycle CHECK never refuses a rotation, even  *)
(* between processes whose clocks disagree: verify refuses a token issued   *)
(* after usedAt, and the current token is as old as the last use.           *)
RotationPassesCheck ==
    \A r \in Request : outcome[r] = "checkFailed" => ~ IsCurrent(r)

(* ContinuesUnlessLost: the token a live session can be continued with is   *)
(* with the client, on its way, or was lost with the response; no answer    *)
(* that says "invalid" hides a rotation that was committed.                 *)
ContinuesUnlessLost ==
    \A s \in Session : Opened(s) /\ ~ Revoked(s) =>
        \E t \in Credential :
            /\ sessions[s].hash = Hash(t)
            /\ \/ t \in delivered
               \/ t \in Request /\ Rotated(t) /\ pc[t] \in {"respond", "lost"}

(* Answered: every request whose transaction has begun is answered or loses *)
(* its answer: transactions that wait for each other's rows all finish.     *)
Answered ==
    \A r \in Request : pc[r] = "select" ~> pc[r] \in {"done", "lost"}

(* ReuseEndsSession: docs/authentication/README.md:142-144 on two exchanges *)
(* of one token: at most one wins and the second revokes the session,       *)
(* invalidating the successor as well.  Here q won, and r locked the rows,  *)
(* saw a hash that is not its own and was not cut short.                    *)
ReuseEndsSession ==
    \A q, r \in Request :
        /\ Rotated(q)
        /\ presented[q] = presented[r]
        /\ seen[r] # None /\ ~ IsCurrent(r)
        /\ outcome[r] \notin {"none", "aborted"}
        => Revoked(SessionOf(q))

(* DeviceIndependence: ADR-011:82-83, the row lock serialises refreshes of  *)
(* one session without blocking sessions of other devices: no request waits *)
(* for a row that a request of another session holds.                       *)
DeviceIndependence ==
    \A q, r \in Request :
        pc[r] = "lockAccount" /\ accountLock[AccountOf(r)] = q =>
            SessionOf(q) = SessionOf(r)

-----------------------------------------------------------------------------
(* The inductive invariant behind the safety properties.                    *)

(* A token that was signed; a login signs its own before it commits the row *)
(* of its session, and only with that row does the token take effect.       *)
InEffect(t) == claims[t] # None /\ (t \in Session => Opened(t))

(* Tokens at clients are in effect, requests carry tokens of clients, and   *)
(* the successor is signed before the transaction begins.                   *)
Provenance ==
    /\ \A t \in delivered : InEffect(t)
    /\ \A r \in Request : InTransaction(r) \/ Rotated(r) => claims[r] # None
    /\ \A r \in Request : pc[r] # "idle" => presented[r] \in delivered

(* A request has no outcome before its transaction ends; only a committed   *)
(* rotation puts its successor into the world, and it is handed to the      *)
(* client unless the response is lost.                                      *)
Progress ==
    \A r \in Request :
        /\ pc[r] = "idle" \/ InTransaction(r) => outcome[r] = "none"
        /\ pc[r] = "idle" => claims[r] = None
        /\ r \in delivered => Rotated(r)
        /\ Rotated(r) => r \in delivered \/ pc[r] \in {"respond", "lost"}

(* Claims in effect agree with the row of their session, which exists.      *)
ClaimsMatchRows ==
    /\ \A t \in Credential : InEffect(t) =>
          /\ Opened(claims[t].session)
          /\ claims[t].exp = sessions[claims[t].session].expiresAt
          /\ claims[t].account = sessions[claims[t].session].account
    /\ \A s \in Session : claims[s] # None => claims[s].session = s
    /\ \A s \in Session : Opened(s) => claims[s] # None

(* A token exchanged once is never again the one in the row, and a token    *)
(* that was ever in a row is still there or was exchanged.                  *)
Lineage ==
    /\ \A r \in Request : Rotated(r) =>
          sessions[SessionOf(r)].hash # Hash(presented[r])
    /\ \A t \in Credential :
          (t \in Request => Rotated(t)) /\ InEffect(t) =>
             \/ sessions[claims[t].session].hash = Hash(t)
             \/ t \in SpentIn(claims[t].session)
    /\ \A s \in Session, t \in Credential :
          Opened(s) /\ sessions[s].hash = Hash(t) =>
             /\ t \in Request => Rotated(t)
             /\ claims[t] # None
             /\ claims[t].session = s

(* Before its UPDATE a request holds the row of an eligible account.        *)
Locked ==
    \A r \in Request : pc[r] = "update" =>
        /\ accountLock[AccountOf(r)] = r
        /\ AccountOf(r) \in eligible

(* The successor of a request in its transaction, or of one that rotated,   *)
(* continues the session of the presented token from the clock it read.     *)
Successors ==
    \A r \in Request : InTransaction(r) \/ Rotated(r) =>
        claims[r] = SuccessorClaims(Said(r), usedAt[r])

LastUse(row) == IF row.lastUsedAt = NoTime THEN row.createdAt ELSE row.lastUsedAt

(* The token in the row was issued at the last use, and a request works     *)
(* with a clock reading at which its token verified.                        *)
Chronology ==
    /\ \A t \in Credential :
          InEffect(t) /\ sessions[claims[t].session].hash = Hash(t) =>
             claims[t].iat = LastUse(sessions[claims[t].session])
    /\ \A s \in Session : Opened(s) => LifecycleCheck(sessions[s])
    /\ \A r \in Request : InTransaction(r) => Verified(Said(r), usedAt[r])

ReuseRevoked ==
    \A r \in Request : outcome[r] = "reused" => Revoked(SessionOf(r))

(* Inv: the parts above together are inductive and imply the invariants; in *)
(* particular the token whose hash is stored was issued at the last use     *)
(* recorded in the row (rotate, lines 164-185, with verify, line 162).      *)
Inv ==
    /\ TypeOK
    /\ Provenance
    /\ Progress
    /\ ClaimsMatchRows
    /\ Lineage
    /\ SingleSuccessor
    /\ ReuseIsGenuine
    /\ Locked
    /\ Successors
    /\ Chronology
    /\ RotationPassesCheck
    /\ ReuseRevoked

-----------------------------------------------------------------------------
(* RefreshSession implements SessionFamily: the current credential is the   *)
(* one whose hash is in the row, the spent ones are those a committed       *)
(* rotation presented, the ended sessions those with revoked_at.            *)
Holding(s) == CHOOSE t \in Credential : Hash(t) = sessions[s].hash

Family == INSTANCE SessionFamily WITH
    current <- [s \in Session |-> IF Opened(s) THEN Holding(s) ELSE None],
    spent   <- [s \in Session |-> SpentIn(s)],
    ended   <- {s \in Session : Revoked(s)}

(* ImplementsSessionFamily: every committed write is an Open, an Exchange   *)
(* or an End of the abstract session family, and nothing else shows.        *)
ImplementsSessionFamily == Family!Spec
=============================================================================
