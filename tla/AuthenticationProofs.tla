------------------------ MODULE AuthenticationProofs ------------------------
(***************************************************************************)
(* Proofs about Authentication: logins and refreshes side by side, for any *)
(* number of accounts, sessions, requests and passwords.                   *)
(***************************************************************************)
EXTENDS Authentication, RefreshSessionProofs

(* Which locks a step of the logins may touch.                              *)
RequestsKeepLocks ==
    \A q \in Request, a \in Account : accountLock[a] = q => accountLock'[a] = q

-----------------------------------------------------------------------------
(* What the refresh handlers rely on survives the logins.                   *)

(* A login that neither inserts nor signs, or another writer of accounts.   *)
LEMMA InvKept ==
    ASSUME Inv, StoreTypeOK', RequestsKeepLocks,
           UNCHANGED <<sessions, claims, eligible, refreshVars>>,
           delivered \subseteq delivered',
           \A t \in delivered' \ delivered : t \in Session /\ InEffect(t)
    PROVE  Inv'
<1>1. TypeInv /\ Rest
  BY DEF Inv, TypeInv, Rest
<1>2. TypeOK'
  BY DEF Inv, TypeOK, refreshVars
<1>3. \A t : InEffect(t)' = InEffect(t)
  BY DEF InEffect, Opened
<1>4. Provenance'
  BY <1>3 DEF Inv, Provenance, refreshVars, InTransaction, Rotated
<1>5. Settled'
  BY <1>1, QuietStep, RestParts
     DEF refreshVars, InTransaction, Rotated, IsCurrent
<1>6. Progress'
  BY CredentialAssumption DEF Inv, Progress, refreshVars, InTransaction, Rotated
<1>7. Locked'
  <2>1. \A q \in Request : pc[q] = "update" => AccountOf(q) \in Account
    BY <1>1, SaidTyped
  <2> QED BY <2>1 DEF Inv, Locked, refreshVars, AccountOf, Said, RequestsKeepLocks
<1> QED BY <1>2, <1>4, <1>5, <1>6, <1>7 DEF Inv, Settled

(* A login that signs its tokens before its session exists.                 *)
LEMMA InvSigned ==
    ASSUME Inv, StoreTypeOK', RequestsKeepLocks,
           NEW s \in Session, sessions[s] = None,
           NEW c \in Claims, c.session = s,
           claims' = [claims EXCEPT ![s] = c],
           UNCHANGED <<sessions, delivered, eligible, refreshVars>>
    PROVE  Inv'
<1>1. TypeInv /\ Rest
  BY DEF Inv, TypeInv, Rest
<1>2. TypeOK'
  BY DEF Inv, TypeOK, refreshVars
<1>3. s \in Credential /\ s \notin Request /\ ~ InEffect(s) /\ c # None
  BY CredentialAssumption, NoneAssumption DEF Credential, InEffect, Opened
<1>4. /\ claims'[s] = c
      /\ \A t \in Credential \ {s} : claims'[t] = claims[t]
  BY <1>3 DEF Inv, TypeOK, StoreTypeOK
<1>5. /\ \A x : Opened(x)' = Opened(x)
      /\ \A x : Revoked(x)' = Revoked(x)
      /\ \A t \in Credential : InEffect(t)' = InEffect(t)
  BY <1>3, <1>4 DEF InEffect, Opened, Revoked
<1>6. \A q \in Request : pc[q] # "idle" => presented[q] \in Credential \ {s}
  BY <1>3 DEF Inv, Provenance, TypeOK, StoreTypeOK
<1>7. \A q \in Request : pc[q] # "idle" =>
        Said(q)' = Said(q) /\ SessionOf(q)' = SessionOf(q) /\ AccountOf(q)' = AccountOf(q)
  BY <1>4, <1>6 DEF Said, SessionOf, AccountOf, refreshVars
<1>8. /\ \A q \in Request : Rotated(q)' <=> Rotated(q)
      /\ \A q \in Request : InTransaction(q)' <=> InTransaction(q)
      /\ \A q \in Request : claims'[q] = claims[q]
      /\ \A q \in Request : outcome[q] # "none" => pc[q] # "idle"
      /\ \A q \in Request : InTransaction(q) \/ Rotated(q) => pc[q] # "idle"
  BY <1>3, <1>4 DEF Inv, Progress, Rotated, InTransaction, refreshVars, Credential
<1>9. \A x : SpentIn(x)' = SpentIn(x)
  BY <1>7, <1>8 DEF SpentIn, refreshVars
<1>10. Provenance' /\ Progress'
  <2>1. Provenance'
    BY <1>5, <1>8 DEF Inv, Provenance, refreshVars, TypeOK, StoreTypeOK
  <2>2. Progress'
    BY <1>8 DEF Inv, Progress, refreshVars
  <2> QED BY <2>1, <2>2
<1>11. ClaimsMatchRows'
  <2>1. \A t \in Credential : InEffect(t)' => t # s /\ claims'[t] = claims[t]
    BY <1>3, <1>4, <1>5
  <2>2. \A x \in Session : claims'[x] # None => claims'[x].session = x
    BY <1>4 DEF Inv, ClaimsMatchRows, Credential
  <2>3. \A x \in Session : Opened(x) => claims'[x] # None
    BY <1>3, <1>4 DEF Inv, ClaimsMatchRows, Credential
  <2>4. \A t \in Credential : InEffect(t)' =>
          /\ Opened(claims'[t].session)
          /\ claims'[t].exp = sessions[claims'[t].session].expiresAt
          /\ claims'[t].account = sessions[claims'[t].session].account
    BY <1>5, <2>1 DEF Inv, ClaimsMatchRows
  <2> QED BY <2>2, <2>3, <2>4 DEF ClaimsMatchRows, Opened
<1>12. Lineage'
  <2>1. \A q \in Request : Rotated(q)' => sessions'[SessionOf(q)'].hash # Hash(presented'[q])
    BY <1>7, <1>8 DEF Inv, Lineage, refreshVars
  <2>2. \A t \in Credential : InEffect(t)' => t # s /\ claims'[t] = claims[t]
    BY <1>3, <1>4, <1>5
  <2>3. \A t \in Credential :
          (t \in Request => Rotated(t)') /\ InEffect(t)' =>
             \/ sessions'[claims'[t].session].hash = Hash(t)
             \/ t \in SpentIn(claims[t].session)
    BY <1>5, <1>8, <2>2 DEF Inv, Lineage
  <2>4. \A x \in Session, t \in Credential :
          Opened(x) /\ sessions[x].hash = Hash(t) =>
             /\ t \in Request => Rotated(t)
             /\ claims'[t] # None
             /\ claims'[t].session = x
    <3>1. \A x \in Session, t \in Credential :
            Opened(x) /\ sessions[x].hash = Hash(t) =>
               /\ t \in Request => Rotated(t)
               /\ claims[t] # None
               /\ claims[t].session = x
      BY DEF Inv, Lineage
    <3>2. \A x \in Session : Opened(x) => sessions[x].hash # Hash(s)
      BY <1>3, <3>1 DEF Inv, ClaimsMatchRows, Opened
    <3> QED BY <1>4, <3>1, <3>2
  <2> QED BY <1>5, <1>8, <1>9, <2>1, <2>2, <2>3, <2>4 DEF Lineage
<1>13. SingleSuccessor' /\ RotationPassesCheck'
  BY <1>8 DEF Inv, SingleSuccessor, RotationPassesCheck, IsCurrent, refreshVars
<1>14. ReuseIsGenuine' /\ ReuseRevoked'
  BY <1>5, <1>7, <1>8, <1>9 DEF Inv, ReuseIsGenuine, ReuseRevoked, refreshVars
<1>15. Locked'
  <2>1. \A q \in Request : pc[q] = "update" => AccountOf(q) \in Account
    BY <1>1, SaidTyped
  <2> QED BY <1>7, <2>1 DEF Inv, Locked, refreshVars, RequestsKeepLocks
<1>16. Successors'
  BY <1>7, <1>8 DEF Inv, Successors, refreshVars
<1>17. Chronology'
  <2>1. \A t \in Credential :
          InEffect(t)' /\ sessions'[claims'[t].session].hash = Hash(t) =>
             claims'[t].iat = LastUse(sessions'[claims'[t].session])
    BY <1>3, <1>4, <1>5 DEF Inv, Chronology
  <2>2. \A q \in Request : InTransaction(q)' => Verified(Said(q)', usedAt'[q])
    BY <1>7, <1>8 DEF Inv, Chronology, refreshVars
  <2> QED BY <1>5, <2>1, <2>2 DEF Inv, Chronology
<1> QED
  BY <1>2, <1>10, <1>11, <1>12, <1>13, <1>14, <1>15, <1>16, <1>17 DEF Inv

(* A login that inserts its session.                                        *)
LEMMA InvInserted ==
    ASSUME Inv, StoreTypeOK', RequestsKeepLocks,
           NEW s \in Session, NEW a \in Account, NEW at \in Time,
           sessions[s] = None,
           sessions' = [sessions EXCEPT ![s] = NewRow(s, a, at)],
           claims[s] = LoginClaims(s, a, at),
           UNCHANGED <<claims, delivered, eligible, refreshVars>>
    PROVE  Inv'
<1>1. TypeInv /\ Rest
  BY DEF Inv, TypeInv, Rest
<1>2. claims' = [claims EXCEPT ![s] = LoginClaims(s, a, at)]
  BY DEF Inv, TypeOK, StoreTypeOK, Credential
<1>3. Rest'
  BY <1>1, <1>2, RestInsert DEF RequestsKeepLocks
<1>4. TypeOK'
  BY DEF Inv, TypeOK, refreshVars
<1>5. Provenance'
  <2>1. \A x : x # s => Opened(x)' = Opened(x)
    BY DEF Inv, TypeOK, StoreTypeOK, Opened
  <2>2. \A t \in delivered : t # s
    BY DEF Inv, Provenance, InEffect, Opened
  <2>3. \A t \in delivered' : InEffect(t)'
    BY <2>1, <2>2 DEF Inv, Provenance, InEffect
  <2> QED BY <2>3 DEF Inv, Provenance, refreshVars, InTransaction, Rotated
<1> QED BY <1>3, <1>4, <1>5 DEF Inv, Rest

-----------------------------------------------------------------------------
(* What the steps of a login change                                         *)

LEMMA LockTyped ==
    ASSUME StoreTypeOK, NEW s \in Session
    PROVE  /\ Released(accountLock, s) \in [Account -> Holder]
           /\ \A x \in Account : Released(accountLock, s)[x] =
                 IF accountLock[x] = s THEN None ELSE accountLock[x]
           /\ s \in Holder
BY DEF StoreTypeOK, Released, Holder, Credential

LEMMA EndsTyped ==
    ASSUME LoginTypeOK, NEW s \in Session, NEW result \in LoginOutcome,
           LoginEnds(s, result)
    PROVE  /\ loginPc' \in [Session -> LoginPC]
           /\ loginOutcome' \in [Session -> LoginOutcome]
           /\ accountLock' \in [Account -> Holder]
BY LockTyped DEF LoginTypeOK, LoginEnds, LoginPC

LEMMA ClockTyped ==
    ASSUME StoreTypeOK, NEW at \in ClockReadings
    PROVE  at \in Time /\ at + Lifetime \in Time
BY TimeAssumption DEF ClockReadings, Time, StoreTypeOK

LEMMA FindTypes ==
    ASSUME LoginTypeOK, NEW s \in Session, NEW a \in Account \cup {None},
           NEW p \in Password, Find(s, a, p)
    PROVE  LoginTypeOK'
<1> DEFINE row == IF a = None THEN None
                  ELSE [hash |-> password[a], active |-> a \in eligible,
                        mfaEnabled |-> a \in mfa]
<1>1. row \in Found \cup {None}
  BY DEF LoginTypeOK, Found
<1>2. found' = [found EXCEPT ![s] = row]
  BY DEF Find
<1> HIDE DEF row
<1> QED
  BY <1>1, <1>2 DEF LoginTypeOK, StoreTypeOK, Find, storeVars, accountVars, LoginPC

LEMMA VerifyTypes ==
    ASSUME LoginTypeOK, NEW s \in Session, NEW at \in ClockReadings, Verify(s, at)
    PROVE  LoginTypeOK'
<1>1. at \in Time /\ StoreTypeOK
  BY ClockTyped DEF LoginTypeOK
<1>2. /\ loginPc' \in [Session -> LoginPC]
      /\ loginOutcome' \in [Session -> LoginOutcome]
      /\ accountLock' \in [Account -> Holder]
  <2>1. CASE LoginEnds(s, "rejected")
    BY <2>1, EndsTyped DEF LoginOutcome
  <2>2. CASE ~ LoginEnds(s, "rejected")
    BY <2>2 DEF Verify, LoginTypeOK, StoreTypeOK, LoginPC
  <2> QED BY <2>1, <2>2
<1>3. readAt' \in [Session -> Time]
  BY <1>1 DEF Verify, LoginTypeOK
<1> QED BY <1>2, <1>3 DEF LoginTypeOK, StoreTypeOK, Verify, accountVars

LEMMA RecordTypes ==
    ASSUME LoginTypeOK, NEW s \in Session, Record(s)
    PROVE  LoginTypeOK'
<1>1. StoreTypeOK
  BY DEF LoginTypeOK
<1>2. \A x \in Account : Latest(lastLoginAt[x], readAt[s]) \in Time \cup {NoTime}
  BY DEF Latest, LoginTypeOK
<1>3. lastLoginAt' \in [Account -> Time \cup {NoTime}]
  BY <1>2 DEF Record, LoginTypeOK
<1>4. /\ loginPc' \in [Session -> LoginPC]
      /\ loginOutcome' \in [Session -> LoginOutcome]
      /\ accountLock' \in [Account -> Holder]
  <2>1. CASE LoginEnds(s, "rejected")
    BY <2>1, EndsTyped DEF LoginOutcome
  <2>2. CASE ~ LoginEnds(s, "rejected")
    BY <2>2 DEF Record, LoginTypeOK, StoreTypeOK, LocksAfterRecord, LoginPC
  <2> QED BY <2>1, <2>2
<1> QED BY <1>3, <1>4 DEF LoginTypeOK, StoreTypeOK, Record

LEMMA IssueTypes ==
    ASSUME LoginTypeOK, NEW s \in Session, NEW at \in ClockReadings, Issue(s, at),
           target[s] \in Account
    PROVE  LoginTypeOK'
<1>1. at \in Time /\ at + Lifetime \in Time /\ StoreTypeOK
  BY ClockTyped DEF LoginTypeOK
<1>2. LoginClaims(s, target[s], at) \in Claims
  BY <1>1 DEF LoginClaims, Claims
<1>3. claims' \in [Credential -> Claims \cup {None}]
  BY <1>1, <1>2 DEF Issue, StoreTypeOK
<1>4. /\ loginPc' \in [Session -> LoginPC]
      /\ loginOutcome' \in [Session -> LoginOutcome]
      /\ accountLock' \in [Account -> Holder]
  <2>1. CASE LoginEnds(s, "rejected")
    BY <2>1, EndsTyped DEF LoginOutcome
  <2>2. CASE ~ LoginEnds(s, "rejected")
    BY <2>2 DEF Issue, LoginTypeOK, StoreTypeOK, LoginPC
  <2> QED BY <2>1, <2>2
<1>5. readAt' \in [Session -> Time]
  BY <1>1 DEF Issue, LoginTypeOK
<1> QED BY <1>3, <1>4, <1>5 DEF LoginTypeOK, StoreTypeOK, Issue, accountVars

LEMMA CreateTypes ==
    ASSUME LoginTypeOK, NEW s \in Session, Create(s) \/ LoginAbort(s)
    PROVE  LoginTypeOK'
<1>1. /\ loginPc' \in [Session -> LoginPC]
      /\ loginOutcome' \in [Session -> LoginOutcome]
      /\ accountLock' \in [Account -> Holder]
  <2>1. CASE \E result \in LoginOutcome : LoginEnds(s, result)
    BY <2>1, EndsTyped
  <2>2. CASE ~ \E result \in LoginOutcome : LoginEnds(s, result)
    <3>1. s \in Holder
      BY LockTyped DEF LoginTypeOK
    <3>2. /\ accountLock' = [accountLock EXCEPT ![target[s]] = s]
          /\ loginPc' = [loginPc EXCEPT ![s] = "insert"]
          /\ UNCHANGED loginOutcome
      BY <2>2 DEF Create, LoginAbort, LoginOutcome, CreateMissed
    <3> QED BY <3>1, <3>2 DEF LoginTypeOK, StoreTypeOK, LoginPC
  <2> QED BY <2>1, <2>2
<1>2. UNCHANGED <<now, eligible, sessions, sessionLock, claims, delivered,
                  accountVars, target, supplied, found, readAt>>
  BY DEF Create, LoginAbort, accountVars
<1> QED BY <1>1, <1>2 DEF LoginTypeOK, StoreTypeOK, accountVars

LEMMA InsertTypes ==
    ASSUME LoginTypeOK, NEW s \in Session, Insert(s), target[s] \in Account
    PROVE  LoginTypeOK'
<1>1. StoreTypeOK
  BY DEF LoginTypeOK
<1>2. NewRow(s, target[s], readAt[s]) \in Row
  <2>1. readAt[s] \in Time /\ readAt[s] + Lifetime \in Time
    BY TimeAssumption DEF LoginTypeOK, Time
  <2> QED BY <2>1 DEF NewRow, Row, Hashes, Credential
<1>3. sessions' \in [Session -> Row \cup {None}]
  BY <1>1, <1>2 DEF Insert, StoreTypeOK
<1>4. /\ loginPc' \in [Session -> LoginPC]
      /\ loginOutcome' \in [Session -> LoginOutcome]
      /\ accountLock' \in [Account -> Holder]
  BY EndsTyped DEF Insert, LoginOutcome
<1> QED BY <1>3, <1>4 DEF LoginTypeOK, StoreTypeOK, Insert, accountVars

LEMMA AnswerTypes ==
    ASSUME LoginTypeOK, NEW s \in Session, LoginRespond(s) \/ LoginLoseResponse(s)
    PROVE  LoginTypeOK'
BY DEF LoginTypeOK, StoreTypeOK, LoginRespond, LoginLoseResponse, storeVars,
       accountVars, LoginPC, LoginOutcome, Credential

(* Every step of a login keeps the types and the locks of the requests.     *)
LEMMA LoginTypes ==
    ASSUME LoginTypeOK, Accepted, NEW s \in Session, LoginStep(s)
    PROVE  LoginTypeOK' /\ RequestsKeepLocks
<1>1. LoginTypeOK'
  <2>1. ASSUME NEW at \in ClockReadings, Issue(s, at)
        PROVE  target[s] \in Account
    BY <2>1 DEF Issue, Accepted
  <2>2. Insert(s) => target[s] \in Account
    BY DEF Insert, Accepted
  <2> QED
    BY <2>1, <2>2, FindTypes, VerifyTypes, RecordTypes, IssueTypes, CreateTypes,
       InsertTypes, AnswerTypes
       DEF LoginStep, LoginWork
<1>2. RequestsKeepLocks
  <2>1. \A q \in Request : q # s /\ q # None
    BY CredentialAssumption DEF Credential
  <2>2. CASE accountLock' = accountLock
    BY <2>2 DEF RequestsKeepLocks
  <2>3. CASE accountLock' = Released(accountLock, s)
    BY <2>1, <2>3, LockTyped DEF RequestsKeepLocks, LoginTypeOK
  <2>4. CASE Create(s) /\ accountLock' = [accountLock EXCEPT ![target[s]] = s] /\ Free(accountLock, target[s])
    BY <2>1, <2>4 DEF RequestsKeepLocks, Free, LoginTypeOK, StoreTypeOK
  <2> QED
    BY <2>2, <2>3, <2>4
       DEF LoginStep, LoginWork, Find, Verify, Record, Issue, Create, Insert,
           LoginAbort, LoginRespond, LoginLoseResponse, LoginEnds,
           LocksAfterRecord, storeVars
<1> QED BY <1>1, <1>2

-----------------------------------------------------------------------------
(* What a login knows                                                       *)

LEMMA AcceptedStep ==
    ASSUME LoginTypeOK, LoginInv, NEW s \in Session, LoginStep(s)
    PROVE  Accepted'
BY CredentialAssumption
   DEF LoginInv, Accepted, LoginTypeOK, LoginStep, LoginWork, Find, Verify,
       Record, Issue, Create, Insert, LoginAbort, LoginRespond,
       LoginLoseResponse, LoginEnds, CredentialsAccepted, accountVars, Credential

LEMMA ReadyStep ==
    ASSUME LoginTypeOK, LoginInv, NEW s \in Session, LoginStep(s)
    PROVE  ReadyToInsert'
<1>1. \A x \in Session \ {s} :
        /\ loginPc'[x] = loginPc[x] /\ target'[x] = target[x]
        /\ readAt'[x] = readAt[x] /\ claims'[x] = claims[x]
  BY DEF LoginTypeOK, StoreTypeOK, LoginStep, LoginWork, Find, Verify, Record,
         Issue, Create, Insert, LoginAbort, LoginRespond, LoginLoseResponse,
         LoginEnds, accountVars, storeVars, Credential
<1>2. eligible' = eligible
  BY DEF LoginStep, LoginWork, Find, Verify, Record, Issue, Create, Insert,
         LoginAbort, LoginRespond, LoginLoseResponse, storeVars
<1>3. \A x \in Session \ {s} : loginPc[x] = "insert" =>
        accountLock'[target[x]] = accountLock[target[x]]
  <2> SUFFICES ASSUME NEW x \in Session \ {s}, loginPc[x] = "insert"
               PROVE  accountLock'[target[x]] = accountLock[target[x]]
    OBVIOUS
  <2>1. target[x] \in Account /\ accountLock[target[x]] = x /\ x # None /\ x # s
    BY CredentialAssumption DEF LoginInv, Accepted, ReadyToInsert, Credential
  <2>2. CASE accountLock' = accountLock
    BY <2>2
  <2>3. CASE accountLock' = Released(accountLock, s)
    BY <2>1, <2>3, LockTyped DEF LoginTypeOK
  <2>4. CASE accountLock' = [accountLock EXCEPT ![target[s]] = s] /\ Free(accountLock, target[s])
    BY <2>1, <2>4 DEF Free, LoginTypeOK, StoreTypeOK
  <2> QED
    BY <2>2, <2>3, <2>4
       DEF LoginStep, LoginWork, Find, Verify, Record, Issue, Create, Insert,
           LoginAbort, LoginRespond, LoginLoseResponse, LoginEnds,
           LocksAfterRecord, storeVars
<1>4. loginPc'[s] \in {"create", "insert"} =>
        claims'[s] = LoginClaims(s, target'[s], readAt'[s])
  BY DEF LoginInv, ReadyToInsert, LoginTypeOK, StoreTypeOK, LoginStep, LoginWork,
         Find, Verify, Record, Issue, Create, Insert, LoginAbort, LoginRespond,
         LoginLoseResponse, LoginEnds, accountVars, storeVars, Credential
<1>5. loginPc'[s] = "insert" =>
        accountLock'[target'[s]] = s /\ target'[s] \in eligible
  BY DEF LoginInv, Accepted, ReadyToInsert, LoginTypeOK, StoreTypeOK, LoginStep,
         LoginWork, Find, Verify, Record, Issue, Create, Insert, LoginAbort,
         LoginRespond, LoginLoseResponse, LoginEnds, CreateWhere, accountVars,
         storeVars
<1> QED BY <1>1, <1>2, <1>3, <1>4, <1>5 DEF LoginInv, ReadyToInsert

LEMMA CreatedStep ==
    ASSUME LoginTypeOK, LoginInv, NEW s \in Session, LoginStep(s)
    PROVE  CreatedByLogin'
<1>1. CASE Insert(s)
  <2>1. NewRow(s, target[s], readAt[s]) # None
    <3>1. readAt[s] \in Time /\ readAt[s] + Lifetime \in Time
      BY TimeAssumption DEF LoginTypeOK, Time
    <3>2. target[s] \in Account
      BY <1>1 DEF Insert, LoginInv, Accepted
    <3>3. NewRow(s, target[s], readAt[s]) \in Row
      BY <3>1, <3>2 DEF NewRow, Row, Hashes, Credential
    <3> QED BY <3>3, NoneAssumption
  <2> QED
    BY <1>1, <2>1
       DEF LoginInv, CreatedByLogin, LoginTypeOK, StoreTypeOK, Insert, LoginEnds
<1>2. CASE ~ Insert(s)
  BY <1>2
     DEF LoginInv, CreatedByLogin, LoginTypeOK, StoreTypeOK, LoginStep, LoginWork,
         Find, Verify, Record, Issue, Create, LoginAbort, LoginRespond,
         LoginLoseResponse, LoginEnds, CreateMissed, accountVars, storeVars
<1> QED BY <1>1, <1>2

(* A refresh opens no session and removes none.                             *)
LEMMA RefreshOpensNone ==
    ASSUME Inv, NEW r \in Request, RefreshStep(r)
    PROVE  \A s \in Session : sessions'[s] = None <=> sessions[s] = None
<1>1. TypeOK'
  BY TypeInvRefresh DEF Inv, TypeInv
<1>2. CASE UNCHANGED sessions
  BY <1>2
<1>3. CASE Rotate(r) \/ Revoke(r)
  <2>1. PICK hash, row, success :
          /\ UpdateAndCommit(r, hash, row, success)
          /\ row \in {RotatedRow(sessions[SessionOf(r)], r, usedAt[r]),
                      RevokedRow(sessions[SessionOf(r)], usedAt[r])}
    BY <1>3 DEF Rotate, Revoke
  <2>2. SessionOf(r) \in Session /\ usedAt[r] \in Time
    BY <1>3, SaidTyped DEF Inv, TypeInv, Rotate, Revoke
  <2>3. UpdateWhere(sessions[SessionOf(r)], hash, usedAt[r]) =>
           sessions[SessionOf(r)] # None /\ row # None
    BY <2>1, <2>2, WrittenRowsTyped, NoneAssumption
       DEF UpdateWhere, Inv, TypeOK, StoreTypeOK
  <2> QED BY <2>1, <2>2, <2>3 DEF UpdateAndCommit, Inv, TypeOK, StoreTypeOK
<1> QED
  BY <1>2, <1>3
     DEF RefreshStep, Work, Receive, Select, LockSession, LockAccount, Abort,
         Respond, LoseResponse, storeVars

(* The steps of a refresh leave a login what it knows.                      *)
LEMMA RefreshKeepsLogins ==
    ASSUME Inv, LoginTypeOK, LoginInv, NEW r \in Request, RefreshStep(r),
           UNCHANGED loginVars
    PROVE  LoginInv'
<1>1. r \notin Session
  BY CredentialAssumption
<1>2. Accepted'
  BY DEF LoginInv, Accepted, loginVars, handlerVars
<1>3. \A s \in Session : claims'[s] = claims[s]
  <2>1. claims' = claims \/ \E c : claims' = [claims EXCEPT ![r] = c]
    BY DEF RefreshStep, Work, Receive, Reject, Accept, Select, LockSession,
           LockAccount, Rotate, Revoke, UpdateAndCommit, Abort, Respond,
           LoseResponse, storeVars
  <2> QED BY <1>1, <2>1 DEF Inv, TypeOK, StoreTypeOK, Credential
<1>4. \A s \in Session : sessions'[s] = None <=> sessions[s] = None
  BY RefreshOpensNone
<1>5. \A s \in Session : s \in delivered' <=> s \in delivered
  BY <1>1
     DEF RefreshStep, Work, Receive, Select, LockSession, LockAccount, Rotate,
         Revoke, UpdateAndCommit, Abort, Respond, LoseResponse, storeVars
<1>6. CreatedByLogin'
  BY <1>4, <1>5 DEF LoginInv, CreatedByLogin, loginVars, handlerVars
<1>7. eligible' = eligible
  BY DEF RefreshStep, Work, Receive, Select, LockSession, LockAccount, Rotate,
         Revoke, UpdateAndCommit, Abort, Respond, LoseResponse, storeVars
<1>8. \A s \in Session, a \in Account : accountLock[a] = s => accountLock'[a] = s
  <2>1. \A s \in Session : s # None /\ s # r
    BY <1>1, CredentialAssumption DEF Credential
  <2>2. CASE accountLock' = accountLock
    BY <2>2
  <2>3. CASE accountLock' = Released(accountLock, r)
    BY <2>1, <2>3 DEF Released, Inv, TypeOK, StoreTypeOK
  <2>4. CASE /\ accountLock' = [accountLock EXCEPT ![AccountOf(r)] = r]
             /\ Free(accountLock, AccountOf(r))
    BY <2>1, <2>4 DEF Free, Inv, TypeOK, StoreTypeOK
  <2> QED
    BY <2>2, <2>3, <2>4
       DEF RefreshStep, Work, Receive, Select, LockSession, LockAccount, Rotate,
           Revoke, UpdateAndCommit, Finish, Abort, Respond, LoseResponse, storeVars
<1>9. ReadyToInsert'
  BY <1>3, <1>7, <1>8 DEF LoginInv, Accepted, ReadyToInsert, loginVars, handlerVars
<1> QED BY <1>2, <1>6, <1>9 DEF LoginInv

-----------------------------------------------------------------------------
(* Who holds the locks                                                      *)

LEMMA HoldersLogin ==
    ASSUME AuthInv, NEW s \in Session, LoginStep(s), UNCHANGED refreshVars
    PROVE  LockHolders'
<1>1. LoginTypeOK /\ StoreTypeOK /\ s \notin Request /\ s # None
  BY CredentialAssumption DEF AuthInv, AuthTypeOK, LoginTypeOK, Credential
<1>2. sessionLock' = sessionLock /\ pc' = pc
  BY DEF LoginStep, LoginWork, Find, Verify, Record, Issue, Create, Insert,
         LoginAbort, LoginRespond, LoginLoseResponse, storeVars, refreshVars
<1>3. \A x \in Session \ {s} : loginPc'[x] = loginPc[x]
  BY <1>1
     DEF LoginTypeOK, LoginStep, LoginWork, Find, Verify, Record, Issue, Create,
         Insert, LoginAbort, LoginRespond, LoginLoseResponse, LoginEnds
<1>4. \/ /\ accountLock' = accountLock
         /\ loginPc[s] # "insert"
      \/ accountLock' = Released(accountLock, s)
      \/ /\ accountLock' = [accountLock EXCEPT ![target[s]] = s]
         /\ loginPc'[s] = "insert"
  BY <1>1
     DEF LoginTypeOK, LoginStep, LoginWork, Find, Verify, Record, Issue, Create,
         Insert, LoginAbort, LoginRespond, LoginLoseResponse, LoginEnds,
         LocksAfterRecord, storeVars
<1>5. \A a \in Account : accountLock'[a] # None =>
        \/ accountLock'[a] = accountLock[a] /\ accountLock[a] # s
        \/ accountLock'[a] = s /\ loginPc'[s] = "insert"
  <2>1. \A a \in Account : accountLock[a] = s => loginPc[s] = "insert"
    BY <1>1 DEF AuthInv, LockHolders
  <2> QED BY <1>1, <1>4, <2>1, LockTyped DEF StoreTypeOK
<1>6. \A a \in Account : accountLock'[a] # None =>
        \/ accountLock'[a] \in Request /\ pc'[accountLock'[a]] = "update"
        \/ accountLock'[a] \in Session /\ loginPc'[accountLock'[a]] = "insert"
  BY <1>2, <1>3, <1>5 DEF AuthInv, LockHolders
<1> QED BY <1>2, <1>6 DEF AuthInv, LockHolders

LEMMA HoldersRefresh ==
    ASSUME AuthInv, NEW r \in Request, RefreshStep(r), UNCHANGED loginVars
    PROVE  LockHolders'
<1>1. TypeOK /\ StoreTypeOK /\ r \notin Session /\ r # None
  BY CredentialAssumption DEF AuthInv, AuthTypeOK, TypeOK, Credential
<1>2. loginPc' = loginPc
  BY DEF loginVars, handlerVars
<1>3. \A q \in Request \ {r} : pc'[q] = pc[q]
  BY <1>1
     DEF TypeOK, RefreshStep, Work, Receive, Reject, Accept, Select, LockSession,
         LockAccount, Rotate, Revoke, UpdateAndCommit, Finish, Abort, Respond,
         LoseResponse
<1>4. \/ /\ accountLock' = accountLock /\ sessionLock' = sessionLock
         /\ pc[r] \notin {"lockAccount", "update"}
      \/ /\ accountLock' = Released(accountLock, r)
         /\ sessionLock' = Released(sessionLock, r)
      \/ /\ accountLock' = accountLock
         /\ sessionLock' = [sessionLock EXCEPT ![SessionOf(r)] = r]
         /\ pc[r] = "lockSession" /\ pc'[r] = "lockAccount"
      \/ /\ accountLock' = [accountLock EXCEPT ![AccountOf(r)] = r]
         /\ sessionLock' = sessionLock
         /\ pc[r] = "lockAccount" /\ pc'[r] = "update"
  BY <1>1
     DEF TypeOK, RefreshStep, Work, Receive, Reject, Accept, Select, LockSession,
         LockAccount, Rotate, Revoke, UpdateAndCommit, Finish, Abort, Respond,
         LoseResponse, storeVars
<1>5. /\ \A a \in Account : accountLock[a] = r => pc[r] = "update"
      /\ \A s \in Session : sessionLock[s] = r => pc[r] \in {"lockAccount", "update"}
  BY <1>1 DEF AuthInv, LockHolders
<1>6. \A a \in Account : accountLock'[a] # None =>
        \/ accountLock'[a] = accountLock[a] /\ accountLock[a] # r
        \/ accountLock'[a] = r /\ pc'[r] = "update"
  BY <1>1, <1>4, <1>5, ReleasedTyped DEF StoreTypeOK, Released
<1>7. \A s \in Session : sessionLock'[s] # None =>
        \/ sessionLock'[s] = sessionLock[s] /\ sessionLock[s] # r
        \/ sessionLock'[s] = r /\ pc'[r] \in {"lockAccount", "update"}
  BY <1>1, <1>4, <1>5 DEF StoreTypeOK, Released
<1>8. \A a \in Account : accountLock'[a] # None =>
        \/ accountLock'[a] \in Request /\ pc'[accountLock'[a]] = "update"
        \/ accountLock'[a] \in Session /\ loginPc'[accountLock'[a]] = "insert"
  BY <1>2, <1>3, <1>6 DEF AuthInv, LockHolders
<1>9. \A s \in Session : sessionLock'[s] # None =>
        sessionLock'[s] \in Request /\ pc'[sessionLock'[s]] \in {"lockAccount", "update"}
  BY <1>3, <1>7 DEF AuthInv, LockHolders
<1> QED BY <1>8, <1>9 DEF LockHolders

-----------------------------------------------------------------------------
(* Steps of the whole                                                       *)

(* A login keeps what the refresh handlers rely on.                         *)
LEMMA LoginKeepsInv ==
    ASSUME AuthInv, NEW s \in Session, LoginStep(s), UNCHANGED refreshVars
    PROVE  Inv'
<1>1. LoginTypeOK /\ StoreTypeOK /\ Inv /\ Accepted /\ CreatedByLogin /\ ReadyToInsert
  BY DEF AuthInv, AuthTypeOK, LoginTypeOK, LoginInv
<1>2. StoreTypeOK' /\ RequestsKeepLocks
  <2>1. LoginTypeOK' /\ RequestsKeepLocks
    BY <1>1, LoginTypes
  <2> QED BY <2>1 DEF LoginTypeOK
<1>3. ASSUME UNCHANGED <<sessions, claims, eligible, delivered>>
      PROVE  Inv'
  BY <1>1, <1>2, <1>3, InvKept
<1>4. CASE LoginRespond(s)
  <2>1. \A t \in delivered' \ delivered : t = s /\ loginOutcome[s] = "created"
    BY <1>4 DEF LoginRespond
  <2>2. loginOutcome[s] = "created" => InEffect(s)
    BY <1>1 DEF CreatedByLogin, Inv, ClaimsMatchRows, InEffect, Opened
  <2>3. delivered \subseteq delivered'
    BY <1>4 DEF LoginRespond
  <2>4. UNCHANGED <<sessions, claims, eligible, refreshVars>>
    BY <1>4 DEF LoginRespond
  <2> QED BY <1>1, <1>2, <2>1, <2>2, <2>3, <2>4, InvKept
<1>5. CASE Insert(s)
  <2>1. sessions[s] = None
    BY <1>1, <1>5 DEF CreatedByLogin, Insert
  <2>2. target[s] \in Account /\ readAt[s] \in Time
    BY <1>1, <1>5 DEF Accepted, Insert, LoginTypeOK
  <2>3. claims[s] = LoginClaims(s, target[s], readAt[s])
    BY <1>1, <1>5 DEF ReadyToInsert, Insert
  <2>4. /\ sessions' = [sessions EXCEPT ![s] = NewRow(s, target[s], readAt[s])]
        /\ UNCHANGED <<claims, delivered, eligible, refreshVars>>
    BY <1>5 DEF Insert
  <2>5. PICK a, at : a = target[s] /\ at = readAt[s]
    OBVIOUS
  <2> QED BY <1>1, <1>2, <2>1, <2>2, <2>3, <2>4, <2>5, InvInserted
<1>6. ASSUME NEW at \in ClockReadings, Issue(s, at), ~ found[s].mfaEnabled
      PROVE  Inv'
  <2>1. sessions[s] = None
    BY <1>1, <1>6 DEF CreatedByLogin, Issue
  <2>2. target[s] \in Account /\ at \in Time /\ at + Lifetime \in Time
    BY <1>1, <1>6, ClockTyped DEF Accepted, Issue
  <2>3. PICK c : c = LoginClaims(s, target[s], at)
    OBVIOUS
  <2>4. c \in Claims /\ c.session = s
    BY <2>2, <2>3 DEF LoginClaims, Claims
  <2>5. /\ claims' = [claims EXCEPT ![s] = c]
        /\ UNCHANGED <<sessions, delivered, eligible, refreshVars>>
    BY <1>6, <2>3 DEF Issue
  <2> QED BY <1>1, <1>2, <2>1, <2>4, <2>5, InvSigned
<1>7. CASE LoginWork(s) /\ ~ LoginRespond(s) /\ ~ Insert(s)
  <2>1. CASE UNCHANGED <<sessions, claims, eligible, delivered>>
    BY <1>3, <2>1
  <2>2. CASE \E at \in ClockReadings : Issue(s, at) /\ ~ found[s].mfaEnabled
    BY <1>6, <2>2
  <2> QED
    BY <1>7, <2>1, <2>2 DEF LoginWork, Verify, Record, Issue, Create
<1>8. CASE LoginStep(s) /\ ~ LoginWork(s)
  <2>1. UNCHANGED <<sessions, claims, eligible, delivered>>
    BY <1>8 DEF LoginStep, Find, LoginAbort, LoginLoseResponse, storeVars
  <2> QED BY <1>3, <2>1
<1> QED BY <1>4, <1>5, <1>7, <1>8

(* Time, and the other writers of accounts, who wait for a locked row.      *)
LEMMA SurroundingsKeepAuthInv ==
    ASSUME AuthInv, UNCHANGED refreshVars,
           AccountAdministration \/ (Tick /\ UNCHANGED loginVars)
    PROVE  AuthInv'
<1>1. LoginTypeOK /\ StoreTypeOK /\ Inv /\ LoginInv /\ LockHolders
  BY DEF AuthInv, AuthTypeOK, LoginTypeOK
<1>2. UNCHANGED <<sessions, sessionLock, accountLock, claims, delivered, handlerVars,
                  lastLoginAt>>
  BY DEF AccountAdministration, Tick, EligibilityChanged, PasswordChanged, MfaEnabled,
         storeVars, loginVars, accountVars
<1>3. /\ now' \in Time /\ eligible' \subseteq Account
      /\ password' \in [Account -> Password] /\ mfa' \subseteq Account
  BY <1>1 DEF AccountAdministration, Tick, EligibilityChanged, PasswordChanged,
              MfaEnabled, LoginTypeOK, StoreTypeOK, storeVars, loginVars, accountVars, Time
<1>4. StoreTypeOK'
  BY <1>1, <1>2, <1>3 DEF StoreTypeOK
<1>5. LoginTypeOK'
  BY <1>1, <1>2, <1>3, <1>4 DEF LoginTypeOK, handlerVars
<1>6. Inv'
  <2>1. CASE UNCHANGED eligible
    BY <1>1, <1>2, <1>4, <2>1, InvKept DEF RequestsKeepLocks
  <2>2. CASE \E a \in Account : EligibilityChanged(a)
    <3>1. TypeInv /\ Rest
      BY <1>1 DEF Inv, TypeInv, Rest
    <3>2. Rest'
      BY <2>2, <3>1, RestSurroundings
    <3>3. TypeOK'
      BY <1>1, <1>4 DEF Inv, TypeOK, refreshVars
    <3>4. Provenance'
      BY <1>1, <1>2 DEF Inv, Provenance, refreshVars, InTransaction, Rotated, InEffect, Opened
    <3> QED BY <3>2, <3>3, <3>4 DEF Inv, Rest
  <2> QED
    BY <2>1, <2>2 DEF AccountAdministration, Tick, PasswordChanged, MfaEnabled, storeVars
<1>7. LoginInv'
  <2>1. Accepted'
    BY <1>1, <1>2 DEF LoginInv, Accepted, handlerVars
  <2>2. CreatedByLogin'
    BY <1>1, <1>2 DEF LoginInv, CreatedByLogin, handlerVars
  <2>3. \A s \in Session : loginPc[s] = "insert" => target[s] \in eligible'
    <3>1. \A s \in Session : loginPc[s] = "insert" =>
            /\ target[s] \in eligible /\ accountLock[target[s]] = s /\ s # None
      BY <1>1, CredentialAssumption DEF LoginInv, ReadyToInsert, Credential
    <3> QED
      BY <3>1 DEF AccountAdministration, Tick, EligibilityChanged, PasswordChanged,
                  MfaEnabled, storeVars, Free
  <2>4. ReadyToInsert'
    BY <1>1, <1>2, <2>3 DEF LoginInv, ReadyToInsert, handlerVars
  <2> QED BY <2>1, <2>2, <2>4 DEF LoginInv
<1>8. LockHolders'
  BY <1>1, <1>2 DEF LockHolders, handlerVars, refreshVars
<1> QED BY <1>5, <1>6, <1>7, <1>8 DEF AuthInv, AuthTypeOK, Inv

LEMMA AuthInvInit == AuthInit => AuthInv
<1> SUFFICES ASSUME AuthInit
             PROVE  AuthInv
  OBVIOUS
<1>1. Inv
  BY TypeInvInit, RestInit, InvParts DEF AuthInit, Init
<1>2. LoginTypeOK
  BY <1>1, TimeAssumption
     DEF AuthInit, LoginInit, LoginTypeOK, Inv, TypeOK, LoginPC, LoginOutcome, Time
<1>3. LoginInv /\ LockHolders
  BY DEF AuthInit, StoreInit, LoginInit, LoginInv, Accepted, ReadyToInsert,
         CreatedByLogin, LockHolders
<1> QED BY <1>1, <1>2, <1>3 DEF AuthInv, AuthTypeOK, Inv

LEMMA AuthInvStep == AuthInv /\ [AuthNext]_authVars => AuthInv'
<1> SUFFICES ASSUME AuthInv, [AuthNext]_authVars
             PROVE  AuthInv'
  OBVIOUS
<1>1. Inv /\ LoginTypeOK /\ LoginInv
  BY DEF AuthInv, AuthTypeOK
<1>2. ASSUME NEW r \in Request, RefreshStep(r), UNCHANGED loginVars
      PROVE  AuthInv'
  <2>1. Inv'
    <3>1. TypeInv /\ Rest
      BY <1>1 DEF Inv, TypeInv, Rest
    <3>2. TypeInv' /\ Rest'
      BY <1>2, <3>1, TypeInvRefresh, RestRefresh
    <3> QED BY <3>2 DEF Inv, TypeInv, Rest
  <2>2. LoginTypeOK'
    BY <1>1, <1>2, <2>1
       DEF LoginTypeOK, loginVars, accountVars, handlerVars, Inv, TypeOK
  <2>3. LoginInv' /\ LockHolders'
    BY <1>1, <1>2, RefreshKeepsLogins, HoldersRefresh
  <2> QED BY <2>1, <2>2, <2>3 DEF AuthInv, AuthTypeOK, Inv
<1>3. ASSUME NEW s \in Session, LoginStep(s), UNCHANGED refreshVars
      PROVE  AuthInv'
  <2>1. Inv' /\ LockHolders'
    BY <1>3, LoginKeepsInv, HoldersLogin
  <2>2. LoginTypeOK'
    BY <1>1, <1>3, LoginTypes DEF LoginInv
  <2>3. LoginInv'
    BY <1>1, <1>3, AcceptedStep, ReadyStep, CreatedStep DEF LoginInv
  <2> QED BY <2>1, <2>2, <2>3 DEF AuthInv, AuthTypeOK, Inv
<1>4. CASE UNCHANGED authVars
  <2>1. UNCHANGED <<vars, loginVars>>
    BY <1>4 DEF authVars
  <2>2. Inv'
    BY <1>1, <2>1, InvStep
  <2>3. LoginTypeOK' /\ LoginInv' /\ LockHolders'
    BY <1>1, <2>1
       DEF AuthInv, LoginTypeOK, StoreTypeOK, LoginInv, Accepted, ReadyToInsert,
           CreatedByLogin, LockHolders, vars, storeVars, refreshVars, loginVars,
           accountVars, handlerVars
  <2> QED BY <2>2, <2>3 DEF AuthInv, AuthTypeOK, Inv
<1> QED BY <1>2, <1>3, <1>4, SurroundingsKeepAuthInv DEF AuthNext

(* Types and locks: logins and refreshes together keep every type, what     *)
(* each handler knows at its step, and who holds which row.                 *)
THEOREM AuthSafety == AuthSpec => []AuthInv
BY AuthInvInit, AuthInvStep, PTL DEF AuthSpec

-----------------------------------------------------------------------------
(* What follows from AuthInv                                                *)

(* Row locks: they are taken in one order and given back with the           *)
(* transaction, so whatever the number of requests, logins and accounts no  *)
(* set of handlers waits only for one another.                              *)
THEOREM NoDeadlock == AuthSpec => []LocksAreSound
<1>1. AuthInv => HolderIsInTransaction
  BY CredentialAssumption DEF AuthInv, LockHolders, HolderIsInTransaction, Credential
<1>2. AuthInv => NoWaitCycle
  <2> SUFFICES ASSUME AuthInv, NEW H \in (SUBSET Credential) \ {{}}
               PROVE  \E h \in H : WaitsFor(h) \cap H = {}
    BY DEF NoWaitCycle
  <2> DEFINE Last(h) == \/ h \in Request /\ pc[h] = "update"
                        \/ h \in Session /\ loginPc[h] = "insert"
             First(h) == h \in Request /\ pc[h] \notin {"lockAccount", "update"}
  <2>1. H \subseteq Credential /\ Request \cap Session = {} /\ H # {}
    BY CredentialAssumption
  <2>2. TypeInv /\ Accepted
    BY DEF AuthInv, Inv, TypeInv, LoginInv
  <2>3. ASSUME NEW h \in H, Last(h)
        PROVE  WaitsFor(h) = {}
    BY <2>1, <2>3 DEF WaitsFor
  <2>4. ASSUME NEW h \in H, ~ First(h), \A k \in H : ~ Last(k)
        PROVE  WaitsFor(h) \cap H = {}
    <3> SUFFICES ASSUME NEW k \in WaitsFor(h) \cap H
                 PROVE  FALSE
      OBVIOUS
    <3>1. \E a \in Account : accountLock[a] = k
      <4>1. CASE h \in Request
        <5>1. pc[h] = "lockAccount" /\ accountLock[AccountOf(h)] = k
          BY <2>1, <2>4, <4>1 DEF WaitsFor
        <5> QED BY <2>2, <4>1, <5>1, SaidTyped
      <4>2. CASE h \in Session
        <5>1. loginPc[h] \in {"record", "create"} /\ accountLock[target[h]] = k
          BY <2>1, <4>2 DEF WaitsFor
        <5> QED BY <2>2, <4>2, <5>1 DEF Accepted
      <4> QED BY <2>1, <4>1, <4>2 DEF Credential
    <3>2. Last(k)
      BY <2>1, <3>1, CredentialAssumption DEF AuthInv, LockHolders, Credential
    <3> QED BY <2>4, <3>2
  <2>5. ASSUME NEW h \in H, \A k \in H : First(k)
        PROVE  WaitsFor(h) \cap H = {}
    <3> SUFFICES ASSUME NEW k \in WaitsFor(h) \cap H
                 PROVE  FALSE
      OBVIOUS
    <3>1. h \in Request /\ pc[h] = "lockSession" /\ sessionLock[SessionOf(h)] = k
      BY <2>1, <2>5 DEF WaitsFor
    <3>2. SessionOf(h) \in Session
      BY <2>2, <3>1, SaidTyped
    <3>3. pc[k] \in {"lockAccount", "update"}
      BY <2>1, <3>1, <3>2, CredentialAssumption DEF AuthInv, LockHolders, Credential
    <3> QED BY <2>5, <3>3
  <2> HIDE DEF Last, First
  <2> QED BY <2>1, <2>3, <2>4, <2>5
<1>3. AuthInv => AuthTypeOK
  BY DEF AuthInv
<1>4. AuthInv => LocksAreSound
  BY <1>1, <1>2, <1>3 DEF LocksAreSound
<1> QED BY <1>4, AuthSafety, PTL

(* No token without its row, whatever happens between the statements.       *)
THEOREM TokensHaveRows == AuthSpec => []NoTokenWithoutSession
<1>1. AuthInv => NoTokenWithoutSession
  BY DEF AuthInv, LoginInv, CreatedByLogin, NoTokenWithoutSession
<1> QED BY <1>1, AuthSafety, PTL

(* From the login on, a live session can be continued by its client unless  *)
(* a response was lost.                                                     *)
THEOREM ContinuationAfterLogin == AuthSpec => []ContinuesAfterLogin
<1>1. AuthInv => ContinuesAfterLogin
  <2> SUFFICES ASSUME AuthInv, NEW s \in Session, Opened(s)
               PROVE  \E t \in Credential :
                         /\ sessions[s].hash = Hash(t)
                         /\ \/ t \in delivered
                            \/ t \in Request /\ Rotated(t) /\ pc[t] \in {"respond", "lost"}
                            \/ t \in Session /\ loginOutcome[t] = "created"
                                             /\ loginPc[t] \in {"respond", "lost"}
    BY DEF ContinuesAfterLogin
  <2>1. PICK t \in Credential : sessions[s].hash = Hash(t)
    BY DEF AuthInv, Inv, TypeOK, StoreTypeOK, Row, Hashes, Opened
  <2>2. (t \in Request => Rotated(t)) /\ claims[t] # None /\ claims[t].session = s
    BY <2>1 DEF AuthInv, Inv, Lineage
  <2>3. CASE t \in Request
    BY <2>1, <2>2, <2>3 DEF AuthInv, Inv, Progress
  <2>4. CASE t \in Session
    <3>1. t = s
      BY <2>2, <2>4 DEF AuthInv, Inv, ClaimsMatchRows
    <3> QED BY <2>1, <3>1 DEF AuthInv, LoginInv, CreatedByLogin, Opened
  <2> QED BY <2>3, <2>4 DEF Credential
<1> QED BY <1>1, AuthSafety, PTL

(* A step that opens a session is the INSERT of its login.                  *)
LEMMA OpenedByInsert ==
    ASSUME AuthInv, [AuthNext]_authVars, NEW s \in Session,
           sessions[s] = None, sessions'[s] # None
    PROVE  Insert(s) /\ sessions' = [sessions EXCEPT ![s] = NewRow(s, target[s], readAt[s])]
<1>1. ~ UNCHANGED sessions
  OBVIOUS
<1>2. ASSUME NEW r \in Request, RefreshStep(r)
      PROVE  FALSE
  BY <1>2, RefreshOpensNone DEF AuthInv
<1>3. PICK x \in Session : LoginStep(x)
  BY <1>1, <1>2
     DEF AuthNext, AccountAdministration, EligibilityChanged, PasswordChanged,
         MfaEnabled, Tick, storeVars, authVars, vars
<1>4. Insert(x)
  BY <1>1, <1>3
     DEF LoginStep, LoginWork, Find, Verify, Record, Issue, Create, LoginAbort,
         LoginRespond, LoginLoseResponse, storeVars
<1>5. sessions' = [sessions EXCEPT ![x] = NewRow(x, target[x], readAt[x])]
  BY <1>4 DEF Insert
<1>6. x = s
  BY <1>5 DEF AuthInv, AuthTypeOK, TypeOK, StoreTypeOK
<1> QED BY <1>4, <1>5, <1>6

(* A block that lands before the row is inserted prevents the session.      *)
THEOREM NoSessionForIneligible == AuthSpec => CreatedOnlyWhileEligible
<1>1. AuthInv /\ [AuthNext]_authVars =>
        [\A s \in Session : sessions[s] = None /\ sessions'[s] # None =>
            sessions'[s].account \in eligible]_<<storeVars, loginVars>>
  <2> SUFFICES ASSUME AuthInv, [AuthNext]_authVars, NEW s \in Session,
                      sessions[s] = None, sessions'[s] # None
               PROVE  sessions'[s].account \in eligible
    OBVIOUS
  <2>1. Insert(s) /\ sessions' = [sessions EXCEPT ![s] = NewRow(s, target[s], readAt[s])]
    BY OpenedByInsert
  <2>2. sessions'[s].account = target[s]
    BY <2>1 DEF NewRow, AuthInv, AuthTypeOK, TypeOK, StoreTypeOK
  <2>3. target[s] \in eligible
    BY <2>1 DEF Insert, AuthInv, LoginInv, ReadyToInsert
  <2> QED BY <2>2, <2>3
<1> QED BY <1>1, AuthSafety, PTL DEF AuthSpec, CreatedOnlyWhileEligible

(* last_login_at never goes back, in whatever order the UPDATEs commit.     *)
THEOREM LastLoginIsMonotonic == AuthSpec => LastLoginAdvances
<1>1. AuthInv /\ [AuthNext]_authVars =>
        [\A a \in Account : lastLoginAt'[a] >= lastLoginAt[a]]_<<storeVars, loginVars>>
  <2> SUFFICES ASSUME AuthInv, [AuthNext]_authVars, NEW a \in Account
               PROVE  lastLoginAt'[a] >= lastLoginAt[a]
    OBVIOUS
  <2>1. /\ lastLoginAt \in [Account -> Time \cup {NoTime}]
        /\ readAt \in [Session -> Time]
    BY DEF AuthInv, AuthTypeOK, LoginTypeOK
  <2>2. CASE UNCHANGED lastLoginAt
    BY <2>1, <2>2 DEF Time, NoTime
  <2>3. ASSUME NEW s \in Session,
               lastLoginAt' = [lastLoginAt EXCEPT ![target[s]] = Latest(@, readAt[s])]
        PROVE  lastLoginAt'[a] >= lastLoginAt[a]
    BY <2>1, <2>3 DEF Latest, Time, NoTime
  <2>4. ASSUME NEW s \in Session, LoginStep(s)
        PROVE  \/ UNCHANGED lastLoginAt
               \/ lastLoginAt' = [lastLoginAt EXCEPT ![target[s]] = Latest(@, readAt[s])]
    BY <2>4
       DEF LoginStep, LoginWork, Find, Verify, Record, Issue, Create, Insert,
           LoginAbort, LoginRespond, LoginLoseResponse, accountVars
  <2>5. (\E s \in Session : LoginStep(s)) \/ UNCHANGED lastLoginAt
    BY DEF AuthNext, AccountAdministration, PasswordChanged, MfaEnabled, loginVars,
           accountVars, authVars
  <2> QED BY <2>2, <2>3, <2>4, <2>5
<1> QED BY <1>1, AuthSafety, PTL DEF AuthSpec, LastLoginAdvances

(* A password that changes during its verification makes the login fail.    *)
THEOREM OnlyCurrentPassword == AuthSpec => RecordedWithCurrentPassword
<1>1. AuthInv /\ [AuthNext]_authVars =>
        [\A s \in Session : loginPc[s] = "record" /\ loginPc'[s] = "issue" =>
            password[target[s]] = supplied[s]]_<<storeVars, loginVars>>
  <2> SUFFICES ASSUME AuthInv, [AuthNext]_authVars, NEW s \in Session,
                      loginPc[s] = "record", loginPc'[s] = "issue"
               PROVE  password[target[s]] = supplied[s]
    OBVIOUS
  <2>1. PICK x \in Session : LoginStep(x)
    BY DEF AuthNext, AccountAdministration, PasswordChanged, MfaEnabled, loginVars,
           handlerVars, authVars
  <2>2. Record(s) /\ loginPc' = [loginPc EXCEPT ![s] = "issue"]
    BY <2>1
       DEF AuthInv, AuthTypeOK, LoginTypeOK, LoginStep, LoginWork, Find, Verify,
           Record, Issue, Create, Insert, LoginAbort, LoginRespond,
           LoginLoseResponse, LoginEnds
  <2>3. RecordWhere(s)
    BY <2>2 DEF Record, LoginEnds, AuthInv, AuthTypeOK, LoginTypeOK
  <2> QED BY <2>3 DEF RecordWhere, AuthInv, LoginInv, Accepted
<1> QED BY <1>1, AuthSafety, PTL DEF AuthSpec, RecordedWithCurrentPassword

-----------------------------------------------------------------------------
(* The refinement with the sessions that logins open                        *)

(* A token signed before its row exists is not yet part of the family.      *)
LEMMA SignedIsStutter ==
    ASSUME Inv, NEW s \in Session, sessions[s] = None, NEW c,
           claims' = [claims EXCEPT ![s] = c], UNCHANGED <<sessions, refreshVars>>
    PROVE  UNCHANGED FamilyVars
<1>1. \A q \in Request : Rotated(q) => presented[q] \in Credential \ {s}
  BY DEF Inv, Provenance, Progress, Rotated, InEffect, Opened, TypeOK, StoreTypeOK
<1>2. \A q \in Request : Rotated(q) => SessionOf(q)' = SessionOf(q)
  BY <1>1 DEF SessionOf, Said, Inv, TypeOK, StoreTypeOK, refreshVars
<1>3. \A x : SpentIn(x)' = SpentIn(x)
  BY <1>2 DEF SpentIn, Rotated, refreshVars
<1>4. Current' = Current /\ Ended' = Ended
  BY DEF Current, Ended, Opened, Revoked, Holding
<1> QED BY <1>3, <1>4 DEF FamilyVars, Spent

LEMMA FamilyLoginStep ==
    ASSUME AuthInv, NEW s \in Session, LoginStep(s), UNCHANGED refreshVars
    PROVE  [Family!Next]_FamilyVars
<1>1. Inv /\ Accepted /\ ReadyToInsert /\ CreatedByLogin /\ LoginTypeOK
  BY DEF AuthInv, AuthTypeOK, LoginInv
<1>2. ASSUME UNCHANGED <<sessions, claims>>
      PROVE  UNCHANGED FamilyVars
  BY <1>2, FamilyFrame DEF refreshVars, Rotated, FamilyVars
<1>3. CASE Insert(s)
  <2>1. sessions[s] = None /\ claims[s] = LoginClaims(s, target[s], readAt[s])
    BY <1>1, <1>3 DEF Insert, CreatedByLogin, ReadyToInsert
  <2>2. PICK a, at : a = target[s] /\ at = readAt[s]
    OBVIOUS
  <2>3. a \in Account /\ at \in Time
    BY <1>1, <1>3, <2>2 DEF Insert, Accepted, LoginTypeOK
  <2>4. claims' = [claims EXCEPT ![s] = LoginClaims(s, a, at)]
    BY <1>1, <1>3, <2>1, <2>2 DEF Insert, Inv, TypeOK, StoreTypeOK, Credential
  <2>5. sessions' = [sessions EXCEPT ![s] = NewRow(s, a, at)]
    BY <1>3, <2>2 DEF Insert
  <2>6. Family!Open(s, s)
    BY <1>1, <2>1, <2>3, <2>4, <2>5, InsertIsOpen
  <2> QED BY <2>6 DEF Family!Next, Credential
<1>4. CASE \E at \in ClockReadings : Issue(s, at)
  <2>1. sessions[s] = None /\ sessions' = sessions
    BY <1>1, <1>4 DEF Issue, CreatedByLogin
  <2>2. claims' = claims \/ \E c : claims' = [claims EXCEPT ![s] = c]
    BY <1>4 DEF Issue
  <2> QED BY <1>1, <1>2, <2>1, <2>2, SignedIsStutter
<1>5. CASE UNCHANGED <<sessions, claims>>
  BY <1>2, <1>5
<1> QED
  BY <1>3, <1>4, <1>5
     DEF LoginStep, LoginWork, Find, Verify, Record, Create, LoginAbort,
         LoginRespond, LoginLoseResponse, storeVars

LEMMA FamilyAuthStep ==
    AuthInv /\ AuthInv' /\ [AuthNext]_authVars => [Family!Next]_FamilyVars
<1> SUFFICES ASSUME AuthInv, AuthInv', [AuthNext]_authVars
             PROVE  [Family!Next]_FamilyVars
  OBVIOUS
<1>1. ASSUME NEW r \in Request, RefreshStep(r)
      PROVE  [Family!Next]_FamilyVars
  BY <1>1, FamilyRefreshStep DEF AuthInv
<1>2. ASSUME NEW s \in Session, LoginStep(s), UNCHANGED refreshVars
      PROVE  [Family!Next]_FamilyVars
  BY <1>2, FamilyLoginStep
<1>3. ASSUME UNCHANGED <<sessions, claims, presented, outcome>>
      PROVE  UNCHANGED FamilyVars
  BY <1>3, FamilyFrame DEF FamilyVars, Rotated
<1> QED
  BY <1>1, <1>2, <1>3
     DEF AuthNext, AccountAdministration, EligibilityChanged, PasswordChanged,
         MfaEnabled, Tick, refreshVars, storeVars, authVars, vars

(* The refinement, with rows that a login commits before its token reaches  *)
(* the client: logins and refreshes implement the session family.           *)
THEOREM AuthRefinement == AuthSpec => ImplementsSessionFamily
<1>1. [Family!Next]_FamilyVars => [Family!Next]_(Family!vars)
  BY DEF FamilyVars, Family!vars, Current, Spent, Ended
<1>2. AuthInv /\ AuthInv' /\ [AuthNext]_authVars => [Family!Next]_(Family!vars)
  BY <1>1, FamilyAuthStep
<1>3. AuthInit => Family!Init
  BY FamilyInit DEF AuthInit, Init
<1> QED BY <1>2, <1>3, AuthSafety, PTL DEF AuthSpec, ImplementsSessionFamily, Family!Spec
=============================================================================
