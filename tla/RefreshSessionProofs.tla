------------------------ MODULE RefreshSessionProofs ------------------------
(***************************************************************************)
(* Proofs about RefreshSession, for any number of accounts, sessions and   *)
(* requests, any lifetime and any clock skew.                              *)
(***************************************************************************)
EXTENDS RefreshSession, TLAPS

(* The steps that leave the store's typing to be shown, in one place.       *)
LEMMA HashInjective ==
    ASSUME NEW t, NEW u, Hash(t) = Hash(u)
    PROVE  t = u
BY DEF Hash

(* Only a row that satisfies the CHECK is written, so a written row has the *)
(* columns of the old one, with a hash of a credential.                     *)
LEMMA WrittenRowsTyped ==
    ASSUME NEW row \in Row, NEW r \in Request, NEW at \in Time
    PROVE  RotatedRow(row, r, at) \in Row /\ RevokedRow(row, at) \in Row
<1> DEFINE rotated == RotatedRow(row, r, at)
           revoked == RevokedRow(row, at)
<1>1. Hash(r) \in Hashes
  BY DEF Hashes, Credential
<1>2. row.version + 1 \in Nat \ {0}
  BY DEF Row
<1>3. rotated = [row EXCEPT !.hash = Hash(r), !.lastUsedAt = at, !.version = row.version + 1]
  BY DEF RotatedRow
<1>4. rotated \in Row
  BY <1>1, <1>2, <1>3 DEF Row
<1>5. revoked \in Row
  BY <1>2 DEF Row, RevokedRow
<1> QED BY <1>4, <1>5

(* TypeInv: typing together with the provenance of tokens is inductive; the *)
(* provenance tells that the claims a request works with exist.             *)
TypeInv == TypeOK /\ Provenance

LEMMA TypeInvInit == Init => TypeInv
BY CredentialAssumption, TimeAssumption
   DEF Init, StoreInit, RefreshInit, TypeInv, TypeOK, StoreTypeOK, Provenance,
       PC, Outcome, Holder, Time, InTransaction, Rotated

LEMMA SaidTyped ==
    ASSUME TypeInv, NEW r \in Request, pc[r] # "idle"
    PROVE  /\ presented[r] \in delivered
           /\ Said(r) \in Claims
           /\ SessionOf(r) \in Session
           /\ AccountOf(r) \in Account
           /\ usedAt[r] \in Time
BY DEF TypeInv, TypeOK, StoreTypeOK, Provenance, Said, SessionOf, AccountOf,
       Claims, Credential, InEffect, Opened

LEMMA ReleasedTyped ==
    ASSUME TypeOK, NEW h
    PROVE  /\ Released(sessionLock, h) \in [Session -> Holder]
           /\ Released(accountLock, h) \in [Account -> Holder]
BY DEF TypeOK, StoreTypeOK, Released, Holder

LEMMA TypeInvReceive ==
    ASSUME TypeInv, NEW r \in Request, NEW t \in delivered,
           NEW at \in ClockReadings, Receive(r, t, at)
    PROVE  TypeInv'
<1>1. claims[t] \in Claims /\ t \in Credential /\ at \in Time
  BY DEF TypeInv, TypeOK, StoreTypeOK, Provenance, ClockReadings, Time, InEffect, Opened
<1>2. SuccessorClaims(claims[t], at) \in Claims
  BY <1>1 DEF SuccessorClaims, Claims
<1>3. claims' \in [Credential -> Claims \cup {None}]
      /\ \A u \in delivered : claims'[u] # None
  BY <1>2, NoneAssumption
     DEF TypeInv, TypeOK, StoreTypeOK, Provenance, Receive, Reject, Accept, Credential, InEffect, Opened
<1>4. TypeOK'
  BY <1>1, <1>3
     DEF TypeInv, TypeOK, StoreTypeOK, Receive, Reject, Accept, PC, Outcome
<1>5. Provenance'
  <2>1. \A u \in delivered' : InEffect(u)'
    BY <1>3 DEF Receive, TypeInv, Provenance, InEffect, Opened
  <2>2. \A q \in Request : (InTransaction(q) \/ Rotated(q))' => claims'[q] # None
    BY <1>2, <1>3, NoneAssumption
       DEF TypeInv, TypeOK, StoreTypeOK, Provenance, Receive, Reject, Accept,
           InTransaction, Rotated, Credential
  <2>3. \A q \in Request : pc'[q] # "idle" => presented'[q] \in delivered'
    BY DEF TypeInv, TypeOK, Provenance, Receive, Reject, Accept
  <2> QED BY <2>1, <2>2, <2>3 DEF Provenance
<1> QED BY <1>4, <1>5 DEF TypeInv

LEMMA TypeInvSelect ==
    ASSUME TypeInv, NEW r \in Request, Select(r) \/ Abort(r)
    PROVE  TypeInv'
BY ReleasedTyped
   DEF TypeInv, TypeOK, StoreTypeOK, Provenance, Select, Abort, InTransaction,
       Finish, PC, Outcome, Rotated, InEffect, Opened

LEMMA TypeInvLockSession ==
    ASSUME TypeInv, NEW r \in Request, LockSession(r)
    PROVE  TypeInv'
BY DEF TypeInv, TypeOK, StoreTypeOK, Provenance, LockSession, PC, Holder, Credential, InTransaction, Rotated, InEffect, Opened

LEMMA TypeInvLockAccount ==
    ASSUME TypeInv, NEW r \in Request, LockAccount(r)
    PROVE  TypeInv'
<1>1. SessionOf(r) \in Session
  BY SaidTyped DEF LockAccount
<1>2. SelectWhere(Said(r), usedAt[r]) => sessions[SessionOf(r)].hash \in Hashes
  BY <1>1 DEF SelectWhere, SessionOf, TypeInv, TypeOK, StoreTypeOK, Row
<1>3. r \in Holder
  BY DEF Holder, Credential
<1> QED
  BY <1>2, <1>3, ReleasedTyped
     DEF TypeInv, TypeOK, StoreTypeOK, Provenance, LockAccount, Finish, PC, Outcome, InTransaction, Rotated, InEffect, Opened

LEMMA TypeInvUpdate ==
    ASSUME TypeInv, NEW r \in Request, Rotate(r) \/ Revoke(r)
    PROVE  TypeInv'
<1>1. SessionOf(r) \in Session /\ usedAt[r] \in Time
  BY SaidTyped DEF Rotate, Revoke
<1>2. PICK hash, row, success :
        /\ UpdateAndCommit(r, hash, row, success)
        /\ row \in {RotatedRow(sessions[SessionOf(r)], r, usedAt[r]),
                    RevokedRow(sessions[SessionOf(r)], usedAt[r])}
        /\ success \in Outcome
        /\ pc[r] # "idle"
  BY DEF Rotate, Revoke, Outcome
<1>3. UpdateWhere(sessions[SessionOf(r)], hash, usedAt[r]) => row \in Row
  BY <1>1, <1>2, WrittenRowsTyped DEF UpdateWhere, TypeInv, TypeOK, StoreTypeOK
<1>4. sessions' \in [Session -> Row \cup {None}]
  BY <1>1, <1>2, <1>3 DEF UpdateAndCommit, TypeInv, TypeOK, StoreTypeOK
<1>5. UpdateResult(UpdateWhere(sessions[SessionOf(r)], hash, usedAt[r]),
                   row, success) \in Outcome
  BY <1>2 DEF UpdateResult, Outcome
<1>6. TypeOK'
  BY <1>2, <1>4, <1>5, ReleasedTyped
     DEF TypeInv, TypeOK, StoreTypeOK, UpdateAndCommit, Finish, PC
<1>7. InTransaction(r)
  BY DEF Rotate, Revoke, InTransaction
<1>8. \A x \in Session : Opened(x) => Opened(x)'
  BY <1>2, <1>3, NoneAssumption
     DEF UpdateAndCommit, Opened, TypeInv, TypeOK, StoreTypeOK
<1>9. \A t \in delivered' : InEffect(t)'
  BY <1>2, <1>8 DEF TypeInv, Provenance, UpdateAndCommit, InEffect
<1>10. Provenance'
  BY <1>2, <1>7, <1>9
     DEF TypeInv, TypeOK, StoreTypeOK, Provenance, UpdateAndCommit, Finish,
         InTransaction, Rotated
<1> QED BY <1>6, <1>10 DEF TypeInv

LEMMA TypeInvAnswer ==
    ASSUME TypeInv, NEW r \in Request, Respond(r) \/ LoseResponse(r)
    PROVE  TypeInv'
BY CredentialAssumption
   DEF TypeInv, TypeOK, StoreTypeOK, Provenance, Respond, LoseResponse,
       InTransaction, Rotated, PC, Credential, storeVars, InEffect, Opened

LEMMA TypeInvEnvironment ==
    ASSUME TypeInv, Environment
    PROVE  TypeInv'
<1>1. CASE Tick /\ UNCHANGED refreshVars
  BY <1>1 DEF Tick, refreshVars, TypeInv, TypeOK, StoreTypeOK, Provenance,
              InTransaction, Rotated, Time, InEffect, Opened
<1>2. CASE \E a \in Account : EligibilityChanged(a) /\ UNCHANGED refreshVars
  BY <1>2 DEF EligibilityChanged, refreshVars, TypeInv, TypeOK, StoreTypeOK,
              Provenance, InTransaction, Rotated, InEffect, Opened
<1>3. ASSUME NEW s \in Session, NEW a \in Account, NEW at \in ClockReadings,
             OpenSession(s, a, at)
      PROVE  TypeInv'
  <2>1. at \in Time /\ at + Lifetime \in Time /\ s \in Credential
    BY TimeAssumption DEF ClockReadings, Time, Credential, TypeInv, TypeOK, StoreTypeOK
  <2>2. NewRow(s, a, at) \in Row /\ LoginClaims(s, a, at) \in Claims
    BY <2>1 DEF NewRow, LoginClaims, Row, Claims, Hashes
  <2> QED
    BY <1>3, <2>1, <2>2, NoneAssumption
       DEF OpenSession, refreshVars, TypeInv, TypeOK, StoreTypeOK, Provenance,
           InTransaction, Rotated, InEffect, Opened
<1> QED BY <1>1, <1>2, <1>3 DEF Environment

LEMMA TypeInvRefresh ==
    ASSUME TypeInv, NEW r \in Request, RefreshStep(r)
    PROVE  TypeInv'
BY TypeInvReceive, TypeInvSelect, TypeInvLockSession, TypeInvLockAccount,
   TypeInvUpdate, TypeInvAnswer
   DEF RefreshStep, Work

LEMMA TypeInvStep == TypeInv /\ [Next]_vars => TypeInv'
<1> SUFFICES ASSUME TypeInv, [Next]_vars
             PROVE  TypeInv'
  OBVIOUS
<1>1. ASSUME NEW r \in Request, RefreshStep(r)
      PROVE  TypeInv'
  BY <1>1, TypeInvRefresh
<1>2. CASE UNCHANGED vars
  BY <1>2 DEF vars, storeVars, refreshVars, TypeInv, TypeOK, StoreTypeOK,
              Provenance, InTransaction, Rotated, InEffect, Opened
<1> QED BY <1>1, <1>2, TypeInvEnvironment DEF Next

(* Typing: in every reachable state every variable has its type, for any    *)
(* number of accounts, sessions and requests.                               *)
THEOREM Typing == Spec => []TypeOK
<1>1. Spec => []TypeInv
  BY TypeInvInit, TypeInvStep, PTL DEF Spec
<1>2. TypeInv => TypeOK
  BY DEF TypeInv
<1> QED BY <1>1, <1>2, PTL

-----------------------------------------------------------------------------
(* The safety invariant.  Typing and Provenance are TypeInv; what remains:  *)
Rest ==
    /\ Progress
    /\ ClaimsMatchRows
    /\ Lineage
    /\ SingleSuccessor
    /\ ReuseIsGenuine
    /\ Locked
    /\ Successors
    /\ Chronology
    /\ RotationPassesCheck
    /\ ReuseRevoked

LEMMA InvParts == Inv <=> TypeInv /\ Rest
BY DEF Inv, TypeInv, Rest

(* The parts of Rest that say nothing about locks or the program counter.   *)
Settled ==
    /\ ClaimsMatchRows
    /\ Lineage
    /\ SingleSuccessor
    /\ ReuseIsGenuine
    /\ Successors
    /\ Chronology
    /\ RotationPassesCheck
    /\ ReuseRevoked

LEMMA RestParts == Rest <=> Progress /\ Locked /\ Settled
BY DEF Rest, Settled

(* A step that writes no row, signs no token and starts no transaction,     *)
(* and that ends one, if it does, without a result of rotate's two UPDATEs. *)
LEMMA QuietStep ==
    ASSUME Settled,
           UNCHANGED <<sessions, claims, presented, usedAt>>,
           \A q \in Request : InTransaction(q)' => InTransaction(q),
           \A q \in Request : Rotated(q)' <=> Rotated(q),
           \A q \in Request : outcome'[q] = "reused" => outcome[q] = "reused",
           \A q \in Request : outcome'[q] = "checkFailed" =>
               \/ outcome[q] = "checkFailed" /\ seen'[q] = seen[q]
               \/ ~ IsCurrent(q)'
    PROVE  Settled'
<1>1. /\ \A q \in Request : Said(q)' = Said(q) /\ SessionOf(q)' = SessionOf(q)
      /\ \A s \in Session : Opened(s)' = Opened(s) /\ Revoked(s)' = Revoked(s)
  BY DEF Said, SessionOf, Opened, Revoked
<1>2. \A s : SpentIn(s)' = SpentIn(s)
  BY <1>1 DEF SpentIn
<1>3. ClaimsMatchRows'
  BY DEF Settled, ClaimsMatchRows, Opened, InEffect
<1>4. Lineage'
  BY <1>1, <1>2 DEF Settled, Lineage, InEffect, Opened
<1>5. SingleSuccessor' /\ ReuseIsGenuine' /\ ReuseRevoked'
  <2>1. SingleSuccessor'
    BY DEF Settled, SingleSuccessor
  <2>2. ReuseIsGenuine'
    BY <1>1, <1>2 DEF Settled, ReuseIsGenuine
  <2>3. \A q \in Request : outcome'[q] = "reused" => Revoked(SessionOf(q))'
    BY DEF Settled, ReuseRevoked, Revoked, Opened, SessionOf, Said
  <2> QED BY <2>1, <2>2, <2>3 DEF ReuseRevoked
<1>6. Successors'
  BY <1>1 DEF Settled, Successors
<1>7. Chronology'
  BY <1>1 DEF Settled, Chronology, Opened, InEffect
<1>8. RotationPassesCheck'
  BY DEF Settled, RotationPassesCheck, IsCurrent
<1> QED BY <1>3, <1>4, <1>5, <1>6, <1>7, <1>8 DEF Settled

LEMMA RestSelectAbort ==
    ASSUME TypeInv, Rest, NEW r \in Request, Select(r) \/ Abort(r)
    PROVE  Rest'
<1>1. InTransaction(r) /\ outcome[r] = "none"
  BY DEF Select, Abort, InTransaction, Rest, Progress
<1>2. Settled'
  BY <1>1, QuietStep, RestParts
     DEF Select, Abort, Finish, InTransaction, Rotated, TypeInv, TypeOK
<1>3. Progress'
  BY <1>1 DEF Rest, Progress, Select, Abort, Finish, InTransaction, Rotated,
              TypeInv, TypeOK
<1>4. Locked'
  <2>1. \A q \in Request : pc'[q] = "update" => pc[q] = "update" /\ q # r
    BY DEF Select, Abort, Finish, TypeInv, TypeOK
  <2>2. \A q \in Request, a \in Account :
           q # r /\ accountLock[a] = q => accountLock'[a] = q
    BY DEF Select, Abort, Finish, Released, TypeInv, TypeOK, StoreTypeOK
  <2>3. \A q \in Request : pc[q] = "update" => AccountOf(q) \in Account
    BY SaidTyped
  <2>4. \A q \in Request : AccountOf(q)' = AccountOf(q) /\ eligible' = eligible
    BY DEF Select, Abort, AccountOf, Said
  <2> QED BY <2>1, <2>2, <2>3, <2>4 DEF Rest, Locked
<1> QED BY <1>2, <1>3, <1>4 DEF Rest, Settled

LEMMA RestLockSession ==
    ASSUME TypeInv, Rest, NEW r \in Request, LockSession(r)
    PROVE  Rest'
<1>1. Settled'
  BY QuietStep, RestParts
     DEF LockSession, InTransaction, Rotated, IsCurrent, TypeInv, TypeOK
<1>2. Progress'
  BY DEF Rest, Progress, LockSession, InTransaction, Rotated, TypeInv, TypeOK
<1>3. Locked'
  BY DEF Rest, Locked, LockSession, AccountOf, Said, TypeInv, TypeOK
<1> QED BY <1>1, <1>2, <1>3 DEF Rest, Settled

LEMMA RestLockAccount ==
    ASSUME TypeInv, Rest, NEW r \in Request, LockAccount(r)
    PROVE  Rest'
<1>1. InTransaction(r) /\ outcome[r] = "none"
  BY DEF LockAccount, InTransaction, Rest, Progress
<1>2. Settled'
  BY <1>1, QuietStep, RestParts
     DEF LockAccount, Finish, InTransaction, Rotated, TypeInv, TypeOK
<1>3. Progress'
  BY <1>1 DEF Rest, Progress, LockAccount, Finish, InTransaction, Rotated,
              TypeInv, TypeOK
<1>4. Locked'
  <2>1. \A q \in Request : AccountOf(q)' = AccountOf(q) /\ eligible' = eligible
    BY DEF LockAccount, AccountOf, Said
  <2>2. \A q \in Request : pc[q] = "update" => AccountOf(q) \in Account
    BY SaidTyped
  <2>3. AccountOf(r) \in Account
    BY SaidTyped DEF LockAccount
  <2>4. \A q \in Request \ {r} : pc'[q] = pc[q]
    BY DEF LockAccount, Finish, TypeInv, TypeOK
  <2>5. \A q \in Request \ {r}, a \in Account :
           accountLock[a] = q => accountLock'[a] = q
    BY CredentialAssumption
       DEF LockAccount, Finish, Released, Free, Credential, TypeInv, TypeOK, StoreTypeOK
  <2>6. pc'[r] = "update" => accountLock'[AccountOf(r)] = r /\ AccountOf(r) \in eligible
    BY <2>3 DEF LockAccount, Finish, SelectWhere, AccountOf, TypeInv, TypeOK, StoreTypeOK
  <2> QED BY <2>1, <2>2, <2>4, <2>5, <2>6 DEF Rest, Locked
<1> QED BY <1>2, <1>3, <1>4 DEF Rest, Settled

LEMMA RestAnswer ==
    ASSUME TypeInv, Rest, NEW r \in Request, Respond(r) \/ LoseResponse(r)
    PROVE  Rest'
<1>1. Settled'
  BY QuietStep, RestParts
     DEF Respond, LoseResponse, storeVars, InTransaction, Rotated, IsCurrent,
         TypeInv, TypeOK
<1>2. Progress'
  BY DEF Rest, Progress, Respond, LoseResponse, storeVars, InTransaction,
         Rotated, TypeInv, TypeOK
<1>3. Locked'
  BY DEF Rest, Locked, Respond, LoseResponse, storeVars, AccountOf, Said,
         TypeInv, TypeOK
<1> QED BY <1>1, <1>2, <1>3 DEF Rest, Settled

(* The clock and the other writers of accounts: a locked row is out of      *)
(* their reach.                                                             *)
LEMMA RestSurroundings ==
    ASSUME TypeInv, Rest, UNCHANGED refreshVars,
           Tick \/ \E a \in Account : EligibilityChanged(a)
    PROVE  Rest'
<1>1. Settled'
  BY QuietStep, RestParts
     DEF Tick, EligibilityChanged, refreshVars, InTransaction, Rotated, IsCurrent
<1>2. Progress'
  BY DEF Rest, Progress, Tick, EligibilityChanged, refreshVars, InTransaction,
         Rotated
<1>3. Locked'
  <2>1. \A q \in Request : q # None
    BY CredentialAssumption DEF Credential
  <2> QED
    BY <2>1 DEF Rest, Locked, Tick, EligibilityChanged, refreshVars, AccountOf,
                Said, Free
<1> QED BY <1>1, <1>2, <1>3 DEF Rest, Settled

-----------------------------------------------------------------------------
(* The steps that write: each adds a token, a row or a version of a row.    *)

LEMMA RestReceive ==
    ASSUME TypeInv, Rest, NEW r \in Request, NEW t \in delivered,
           NEW at \in ClockReadings, Receive(r, t, at)
    PROVE  Rest'
<1>1. /\ pc[r] = "idle" /\ outcome[r] = "none"
      /\ r \notin delivered
      /\ claims[r] = None
  BY DEF Receive, Rest, Progress, Rotated
<1>2. claims[t] \in Claims /\ t \in Credential /\ at \in Time /\ r # t
  <2>1. claims[t] \in Claims /\ t \in Credential
    BY DEF TypeInv, TypeOK, StoreTypeOK, Provenance, InEffect, Opened
  <2>2. at \in Time
    BY TimeAssumption DEF TypeInv, TypeOK, StoreTypeOK, ClockReadings, Time
  <2> QED BY <1>1, <2>1, <2>2
<1>3. \A q \in Request \ {r} :
        /\ pc'[q] = pc[q] /\ outcome'[q] = outcome[q]
        /\ presented'[q] = presented[q] /\ usedAt'[q] = usedAt[q]
        /\ claims'[q] = claims[q]
  BY DEF Receive, Reject, Accept, TypeInv, TypeOK, StoreTypeOK, Credential
<1>4. \A u \in Credential \ {r} : claims'[u] = claims[u]
  BY DEF Receive, Reject, Accept, TypeInv, TypeOK, StoreTypeOK
<1>5. \A q \in Request \ {r} : pc[q] # "idle" =>
        /\ presented[q] \in Credential \ {r}
        /\ Said(q)' = Said(q) /\ SessionOf(q)' = SessionOf(q)
        /\ AccountOf(q)' = AccountOf(q)
  BY <1>1, <1>3, <1>4
     DEF TypeInv, TypeOK, StoreTypeOK, Provenance, Said, SessionOf, AccountOf
<1>6. /\ outcome'[r] \in {"none", "rejected"}
      /\ pc'[r] \in {"select", "respond"}
      /\ presented'[r] = t /\ usedAt'[r] = at
      /\ pc'[r] = "select" => /\ Verified(claims[t], at)
                              /\ claims'[r] = SuccessorClaims(claims[t], at)
                              /\ outcome'[r] = "none"
      /\ pc'[r] = "respond" => claims'[r] = None /\ outcome'[r] = "rejected"
  BY <1>1 DEF Receive, Reject, Accept, TypeInv, TypeOK, StoreTypeOK, Credential
<1>7. /\ sessions' = sessions /\ delivered' = delivered /\ seen' = seen
      /\ eligible' = eligible /\ accountLock' = accountLock
  BY DEF Receive
<1>8. /\ ~ Rotated(r) /\ ~ Rotated(r)'
      /\ \A q \in Request : Rotated(q)' <=> Rotated(q)
      /\ \A q \in Request : Rotated(q) => q # r /\ pc[q] # "idle"
  BY <1>1, <1>3, <1>6 DEF Rotated, Rest, Progress
<1>9. \A s : SpentIn(s)' = SpentIn(s)
  BY <1>3, <1>5, <1>8 DEF SpentIn
<1>10. \A s : Opened(s)' = Opened(s) /\ Revoked(s)' = Revoked(s)
  BY <1>7 DEF Opened, Revoked
<1>20. /\ InEffect(t)
       /\ \A u \in Credential \ {r} : InEffect(u)' = InEffect(u)
  BY <1>4, <1>10 DEF TypeInv, Provenance, InEffect
<1>11. Progress'
  BY <1>3, <1>6, <1>7, <1>8 DEF Rest, Progress, InTransaction
<1>12. ClaimsMatchRows'
  <2>1. ClaimsMatchRows
    BY DEF Rest
  <2>2. InEffect(r)' =>
          /\ claims'[r].session = claims[t].session
          /\ claims'[r].exp = claims[t].exp
          /\ claims'[r].account = claims[t].account
    BY <1>6 DEF SuccessorClaims, InEffect
  <2>3. \A u \in Credential : InEffect(u)' =>
          /\ Opened(claims'[u].session)
          /\ claims'[u].exp = sessions[claims'[u].session].expiresAt
          /\ claims'[u].account = sessions[claims'[u].session].account
    BY <1>2, <1>4, <1>20, <2>1, <2>2 DEF ClaimsMatchRows
  <2>4. \A s \in Session : claims'[s] = claims[s]
    BY <1>4, CredentialAssumption DEF Credential
  <2> QED
    BY <1>7, <2>1, <2>3, <2>4 DEF ClaimsMatchRows, Opened
<1>13. Lineage'
  BY <1>3, <1>4, <1>5, <1>7, <1>8, <1>9, <1>10 DEF Rest, Lineage, InEffect, Opened
<1>14. SingleSuccessor'
  BY <1>3, <1>8 DEF Rest, SingleSuccessor
<1>15. ReuseIsGenuine' /\ ReuseRevoked'
  <2>1. \A q \in Request : outcome'[q] = "reused" =>
           /\ q # r /\ outcome[q] = "reused" /\ pc[q] # "idle"
    BY <1>3, <1>6 DEF Rest, Progress
  <2>2. ReuseIsGenuine'
    BY <1>3, <1>5, <1>9, <2>1 DEF Rest, ReuseIsGenuine
  <2>3. ReuseRevoked'
    BY <1>5, <1>10, <2>1 DEF Rest, ReuseRevoked
  <2> QED BY <2>2, <2>3
<1>16. Locked'
  BY <1>3, <1>5, <1>6, <1>7 DEF Rest, Locked
<1>17. Successors'
  <2>1. \A q \in Request \ {r} : (InTransaction(q) \/ Rotated(q))' =>
           (InTransaction(q) \/ Rotated(q)) /\ pc[q] # "idle"
    BY <1>3, <1>8 DEF InTransaction
  <2>2. InTransaction(r)' => claims'[r] = SuccessorClaims(Said(r)', usedAt'[r])
    BY <1>2, <1>4, <1>6 DEF InTransaction, Said
  <2> QED BY <1>3, <1>5, <1>8, <2>1, <2>2 DEF Rest, Successors
<1>18. Chronology'
  <2>1. \A s \in Session : Opened(s) => sessions[s].hash # Hash(r)
    BY <1>8 DEF Rest, Lineage, Credential
  <2>2. InEffect(r)' => claims'[r].session = claims[t].session
    BY <1>6 DEF SuccessorClaims, InEffect
  <2>3. claims[t].session \in Session /\ Opened(claims[t].session)
    BY <1>2, <1>20 DEF Rest, ClaimsMatchRows, Claims
  <2>4. \A u \in Credential :
           InEffect(u)' /\ sessions'[claims'[u].session].hash = Hash(u) =>
              claims'[u].iat = LastUse(sessions'[claims'[u].session])
    BY <1>4, <1>7, <1>20, <2>1, <2>2, <2>3 DEF Rest, Chronology
  <2>5. \A q \in Request : InTransaction(q)' => Verified(Said(q), usedAt[q])'
    BY <1>2, <1>3, <1>4, <1>5, <1>6
       DEF Rest, Chronology, InTransaction, Said, Verified
  <2> QED BY <1>7, <1>10, <2>4, <2>5 DEF Rest, Chronology
<1>19. RotationPassesCheck'
  BY <1>3, <1>6, <1>7 DEF Rest, RotationPassesCheck, IsCurrent
<1> QED
  BY <1>11, <1>12, <1>13, <1>14, <1>15, <1>16, <1>17, <1>18, <1>19 DEF Rest

(* Either UPDATE that changes no row behaves like an abort.                 *)
LEMMA RestNoRow ==
    ASSUME TypeInv, Rest, NEW r \in Request, pc[r] = "update",
           NEW result \in {"invalid", "checkFailed"}, Finish(r, result),
           result = "checkFailed" => ~ IsCurrent(r),
           UNCHANGED <<now, eligible, sessions, claims, delivered, presented,
                       usedAt, seen>>
    PROVE  Rest'
<1>1. InTransaction(r) /\ outcome[r] = "none"
  BY DEF InTransaction, Rest, Progress
<1>2. Settled'
  BY <1>1, QuietStep, RestParts
     DEF Finish, InTransaction, Rotated, IsCurrent, TypeInv, TypeOK
<1>3. Progress'
  BY <1>1 DEF Rest, Progress, Finish, InTransaction, Rotated, TypeInv, TypeOK
<1>4. Locked'
  <2>1. \A q \in Request : pc'[q] = "update" => pc[q] = "update" /\ q # r
    BY DEF Finish, TypeInv, TypeOK
  <2>2. \A q \in Request, a \in Account :
           q # r /\ accountLock[a] = q => accountLock'[a] = q
    BY DEF Finish, Released, TypeInv, TypeOK, StoreTypeOK
  <2>3. \A q \in Request : pc[q] = "update" => AccountOf(q) \in Account
    BY SaidTyped
  <2>4. \A q \in Request : AccountOf(q)' = AccountOf(q) /\ eligible' = eligible
    BY DEF AccountOf, Said
  <2> QED BY <2>1, <2>2, <2>3, <2>4 DEF Rest, Locked
<1> QED BY <1>2, <1>3, <1>4 DEF Rest, Settled

(* What is known of the row a request with the current token has locked.    *)
LEMMA CurrentRow ==
    ASSUME TypeInv, Rest, NEW r \in Request, pc[r] = "update", IsCurrent(r),
           UpdateWhere(sessions[SessionOf(r)], Hash(presented[r]), usedAt[r])
    PROVE  LifecycleCheck(RotatedRow(sessions[SessionOf(r)], r, usedAt[r]))
<1> DEFINE row == sessions[SessionOf(r)]
<1>1. row \in Row /\ presented[r] \in Credential /\ InEffect(presented[r])
  BY SaidTyped DEF TypeInv, TypeOK, StoreTypeOK, UpdateWhere, Provenance, InEffect, Opened
<1>2. usedAt[r] \in Time /\ Said(r) \in Claims /\ SessionOf(r) \in Session
  BY SaidTyped
<1>3. Said(r).iat = LastUse(row)
  BY <1>1 DEF Rest, Chronology, UpdateWhere, Said, SessionOf
<1>4. Verified(Said(r), usedAt[r]) /\ LifecycleCheck(row)
  BY <1>1, <1>2 DEF Rest, Chronology, InTransaction, Opened, UpdateWhere
<1>5. LastUse(row) <= usedAt[r] /\ usedAt[r] < row.expiresAt /\ row.revokedAt = NoTime
  BY <1>3, <1>4 DEF Verified, UpdateWhere
<1>6. row.createdAt <= usedAt[r]
  BY <1>1, <1>2, <1>4, <1>5 DEF LastUse, LifecycleCheck, Row, Time, NoTime
<1> HIDE DEF row
<1> QED
  BY <1>1, <1>2, <1>4, <1>5, <1>6
     DEF LifecycleCheck, RotatedRow, Row, Time, NoTime, row

(* A committed rotation: the presented token becomes a spent one and the    *)
(* successor takes its place in the row.                                    *)
LEMMA RestRotate ==
    ASSUME TypeInv, Rest, NEW r \in Request, Rotate(r)
    PROVE  Rest'
<1> DEFINE s == SessionOf(r)
           row == sessions[s]
           new == RotatedRow(row, r, usedAt[r])
<1>1. pc[r] = "update" /\ InTransaction(r) /\ outcome[r] = "none" /\ IsCurrent(r)
  BY DEF Rotate, InTransaction, Rest, Progress
<1>2. CASE ~ UpdateWhere(row, Hash(presented[r]), usedAt[r])
  <2>1. Finish(r, "invalid") /\ UNCHANGED <<now, eligible, sessions, claims,
                                delivered, presented, usedAt, seen>>
    BY <1>2 DEF Rotate, UpdateAndCommit, UpdateResult
  <2> QED BY <1>1, <2>1, RestNoRow
<1>3. CASE UpdateWhere(row, Hash(presented[r]), usedAt[r])
  <2>1. LifecycleCheck(new)
    BY <1>1, <1>3, CurrentRow
  <2>2. /\ sessions' = [sessions EXCEPT ![s] = new]
        /\ Finish(r, "rotated")
        /\ UNCHANGED <<now, eligible, claims, delivered, presented, usedAt, seen>>
    BY <1>3, <2>1 DEF Rotate, UpdateAndCommit, UpdateResult
  <2>3. /\ s \in Session /\ row \in Row /\ Opened(s)
        /\ presented[r] \in delivered /\ presented[r] \in Credential
        /\ row.hash = Hash(presented[r]) /\ row.revokedAt = NoTime
        /\ InEffect(presented[r])
        /\ usedAt[r] \in Time
    BY <1>1, <1>3, SaidTyped
       DEF UpdateWhere, Opened, TypeInv, TypeOK, StoreTypeOK, Provenance, InEffect
  <2>4. /\ \A q \in Request \ {r} : outcome'[q] = outcome[q] /\ pc'[q] = pc[q]
        /\ outcome'[r] = "rotated" /\ pc'[r] = "respond"
    BY <2>2 DEF Finish, TypeInv, TypeOK
  <2>5. /\ new.hash = Hash(r) /\ new.lastUsedAt = usedAt[r]
        /\ new.expiresAt = row.expiresAt /\ new.account = row.account
        /\ new.revokedAt = row.revokedAt /\ new \in Row
    BY <2>3, WrittenRowsTyped DEF RotatedRow, Row
  <2>6. /\ sessions'[s] = new
        /\ \A x \in Session \ {s} : sessions'[x] = sessions[x]
    BY <2>2, <2>3 DEF TypeInv, TypeOK, StoreTypeOK
  <2>7. /\ \A q \in Request : Said(q)' = Said(q) /\ SessionOf(q)' = SessionOf(q)
                             /\ AccountOf(q)' = AccountOf(q)
        /\ \A x \in Session : Opened(x)' <=> Opened(x)
        /\ \A x \in Session : Revoked(x)' <=> Revoked(x)
    BY <2>2, <2>3, <2>5, <2>6, NoneAssumption
       DEF Said, SessionOf, AccountOf, Opened, Revoked
  <2>8. /\ Rotated(r)' /\ ~ Rotated(r)
        /\ \A q \in Request \ {r} : Rotated(q)' <=> Rotated(q)
    BY <1>1, <2>4 DEF Rotated
  <2>9. /\ \A x : SpentIn(x) \subseteq SpentIn(x)'
        /\ presented[r] \in SpentIn(s)'
    BY <2>2, <2>7, <2>8 DEF SpentIn
  <2>21. \A t \in Credential : InEffect(t)' = InEffect(t)
    BY <2>2, <2>7 DEF InEffect
  (* A token a client has cannot be the successor that is only now stored.  *)
  <2>10. \A q \in Request : pc[q] # "idle" => presented[q] # r
    BY <2>8 DEF TypeInv, Provenance, Rest, Progress
  <2>11. \A q \in Request : Rotated(q) => pc[q] # "idle" /\ SessionOf(q) \in Session
    <3>1. \A q \in Request : Rotated(q) => pc[q] # "idle"
      BY DEF Rest, Progress, Rotated
    <3> QED BY <3>1, SaidTyped
  <2>12. Progress'
    BY <2>2, <2>4, <2>8 DEF Rest, Progress, InTransaction
  <2>13. ClaimsMatchRows'
    BY <2>2, <2>3, <2>5, <2>6, <2>7 DEF Rest, ClaimsMatchRows, Opened, TypeInv, TypeOK, StoreTypeOK, InEffect
  <2>14. Lineage'
    <3>1. \A q \in Request : Rotated(q)' => sessions'[SessionOf(q)].hash # Hash(presented[q])
      <4>1. \A q \in Request : pc[q] # "idle" => Hash(presented[q]) # Hash(r)
        BY <2>10, HashInjective
      <4> QED
        BY <1>1, <2>3, <2>5, <2>6, <2>8, <2>11, <4>1 DEF Rest, Lineage
    <3>2. \A t \in Credential :
            (t \in Request => Rotated(t)') /\ InEffect(t) =>
               \/ sessions'[claims[t].session].hash = Hash(t)
               \/ t \in SpentIn(claims[t].session)'
      <4> SUFFICES ASSUME NEW t \in Credential, t \in Request => Rotated(t)',
                          InEffect(t)
                   PROVE  \/ sessions'[claims[t].session].hash = Hash(t)
                          \/ t \in SpentIn(claims[t].session)'
        OBVIOUS
      <4>1. CASE t = r
        <5>1. claims[r].session = s
          <6>1. claims[r] = SuccessorClaims(Said(r), usedAt[r])
            BY <1>1 DEF Rest, Successors
          <6> QED BY <6>1 DEF SuccessorClaims, SessionOf
        <5> QED BY <4>1, <5>1, <2>3, <2>5, <2>6
      <4>2. CASE t # r
        <5>1. \/ sessions[claims[t].session].hash = Hash(t)
              \/ t \in SpentIn(claims[t].session)
          BY <2>8, <4>2 DEF Rest, Lineage
        <5>2. claims[t].session \in Session
          BY DEF TypeInv, TypeOK, StoreTypeOK, Claims, InEffect
        <5>3. claims[t].session = s /\ row.hash = Hash(t) => t = presented[r]
          BY <2>3, HashInjective
        <5>4. CASE claims[t].session = s /\ row.hash = Hash(t)
          BY <5>3, <5>4, <2>2, <2>7, <2>9
        <5>5. CASE claims[t].session # s /\ sessions[claims[t].session].hash = Hash(t)
          BY <5>2, <5>5, <2>6
        <5>6. CASE t \in SpentIn(claims[t].session)
          BY <5>6, <2>2, <2>9
        <5> QED BY <5>1, <5>4, <5>5, <5>6
      <4> QED BY <4>1, <4>2
    <3>3. \A x \in Session, t \in Credential :
            Opened(x)' /\ sessions'[x].hash = Hash(t) =>
               /\ t \in Request => Rotated(t)'
               /\ claims[t] # None
               /\ claims[t].session = x
      <4>1. \A t \in Credential : Hash(t) = Hash(r) => t = r
        BY HashInjective
      <4>2. claims[r] # None /\ claims[r].session = s
        <5>1. claims[r] = SuccessorClaims(Said(r), usedAt[r]) /\ claims[r] # None
          BY <1>1 DEF Rest, Successors, TypeInv, Provenance
        <5> QED BY <5>1 DEF SuccessorClaims, SessionOf
      <4> QED
        BY <2>5, <2>6, <2>7, <2>8, <4>1, <4>2 DEF Rest, Lineage
    <3> QED BY <2>2, <2>7, <2>21, <3>1, <3>2, <3>3 DEF Lineage
  <2>15. SingleSuccessor'
    <3>1. \A q \in Request : Rotated(q) /\ presented[q] = presented[r] => FALSE
      BY <2>3 DEF Rest, Lineage, SessionOf, Said
    <3> QED BY <2>2, <2>8, <3>1 DEF Rest, SingleSuccessor
  <2>16. ReuseIsGenuine' /\ ReuseRevoked'
    <3>1. \A q \in Request : outcome'[q] = "reused" =>
             outcome[q] = "reused" /\ SessionOf(q) \in Session
      <4>1. \A q \in Request : outcome'[q] = "reused" =>
               outcome[q] = "reused" /\ pc[q] # "idle"
        BY <2>4 DEF Rest, Progress
      <4> QED BY <4>1, SaidTyped
    <3>2. ReuseIsGenuine'
      BY <2>2, <2>7, <2>9, <3>1 DEF Rest, ReuseIsGenuine
    <3>3. ReuseRevoked'
      BY <2>7, <3>1 DEF Rest, ReuseRevoked
    <3> QED BY <3>2, <3>3
  <2>17. Locked'
    <3>1. \A q \in Request : pc'[q] = "update" => pc[q] = "update" /\ q # r
      BY <2>4
    <3>2. \A q \in Request, a \in Account :
             q # r /\ accountLock[a] = q => accountLock'[a] = q
      BY <2>2 DEF Finish, Released, TypeInv, TypeOK, StoreTypeOK
    <3>3. \A q \in Request : pc[q] = "update" => AccountOf(q) \in Account
      BY SaidTyped
    <3> QED BY <2>2, <2>7, <3>1, <3>2, <3>3 DEF Rest, Locked
  <2>18. Successors'
    BY <1>1, <2>2, <2>4, <2>7, <2>8 DEF Rest, Successors, InTransaction
  <2>19. Chronology'
    <3>1. claims[r] = SuccessorClaims(Said(r), usedAt[r])
      BY <1>1 DEF Rest, Successors
    <3>2. claims[r].session = s /\ claims[r].iat = usedAt[r] /\ LastUse(new) = usedAt[r]
      BY <2>3, <2>5, <3>1 DEF SuccessorClaims, LastUse, SessionOf, Time, NoTime
    <3>3. \A t \in Credential :
            InEffect(t) /\ sessions'[claims[t].session].hash = Hash(t) =>
               claims[t].iat = LastUse(sessions'[claims[t].session])
      <4> SUFFICES ASSUME NEW t \in Credential, InEffect(t),
                          sessions'[claims[t].session].hash = Hash(t)
                   PROVE  claims[t].iat = LastUse(sessions'[claims[t].session])
        OBVIOUS
      <4>1. claims[t].session \in Session
        BY DEF TypeInv, TypeOK, StoreTypeOK, Claims, InEffect
      <4>2. claims[t].session = s => t = r
        BY <2>5, <2>6, HashInjective
      <4> QED BY <4>1, <4>2, <3>2, <2>6 DEF Rest, Chronology
    <3>4. \A x \in Session : Opened(x)' => LifecycleCheck(sessions'[x])
      BY <2>1, <2>6, <2>7 DEF Rest, Chronology
    <3>5. \A q \in Request : InTransaction(q)' => Verified(Said(q)', usedAt[q])
      BY <2>4, <2>7 DEF Rest, Chronology, InTransaction
    <3> QED BY <2>2, <2>21, <3>3, <3>4, <3>5 DEF Chronology
  <2>20. RotationPassesCheck'
    BY <2>2, <2>4 DEF Rest, RotationPassesCheck, IsCurrent
  <2> QED
    BY <2>12, <2>13, <2>14, <2>15, <2>16, <2>17, <2>18, <2>19, <2>20 DEF Rest
<1> QED BY <1>2, <1>3

(* A committed revocation: the row keeps its hash, so what was presented is *)
(* some other token of the session, and by Lineage a spent one.             *)
LEMMA RestRevoke ==
    ASSUME TypeInv, Rest, NEW r \in Request, Revoke(r)
    PROVE  Rest'
<1> DEFINE s == SessionOf(r)
           row == sessions[s]
           new == RevokedRow(row, usedAt[r])
           written == UpdateWhere(row, seen[r], usedAt[r]) /\ LifecycleCheck(new)
<1>1. pc[r] = "update" /\ InTransaction(r) /\ outcome[r] = "none" /\ ~ IsCurrent(r)
  BY DEF Revoke, InTransaction, Rest, Progress
<1>2. CASE ~ written
  <2>1. PICK result \in {"invalid", "checkFailed"} :
          Finish(r, result) /\ UNCHANGED <<now, eligible, sessions, claims,
                               delivered, presented, usedAt, seen>>
    BY <1>2 DEF Revoke, UpdateAndCommit, UpdateResult
  <2> QED BY <1>1, <2>1, RestNoRow
<1>3. CASE written
  <2>2. /\ sessions' = [sessions EXCEPT ![s] = new]
        /\ Finish(r, "reused")
        /\ UNCHANGED <<now, eligible, claims, delivered, presented, usedAt, seen>>
    BY <1>3 DEF Revoke, UpdateAndCommit, UpdateResult
  <2>3. /\ s \in Session /\ row \in Row /\ Opened(s)
        /\ presented[r] \in delivered /\ presented[r] \in Credential
        /\ row.hash # Hash(presented[r])
        /\ InEffect(presented[r])
        /\ usedAt[r] \in Time
    BY <1>1, <1>3, SaidTyped
       DEF UpdateWhere, Opened, IsCurrent, TypeInv, TypeOK, StoreTypeOK, Provenance, InEffect
  <2>4. /\ \A q \in Request \ {r} : outcome'[q] = outcome[q] /\ pc'[q] = pc[q]
        /\ outcome'[r] = "reused" /\ pc'[r] = "respond"
    BY <2>2 DEF Finish, TypeInv, TypeOK
  <2>5. /\ new.hash = row.hash /\ new.lastUsedAt = row.lastUsedAt
        /\ new.createdAt = row.createdAt
        /\ new.expiresAt = row.expiresAt /\ new.account = row.account
        /\ new.revokedAt = usedAt[r] /\ new \in Row
    BY <2>3, WrittenRowsTyped DEF RevokedRow, Row
  <2>6. /\ sessions'[s] = new
        /\ \A x \in Session \ {s} : sessions'[x] = sessions[x]
    BY <2>2, <2>3 DEF TypeInv, TypeOK, StoreTypeOK
  <2>7. \A q \in Request : Said(q)' = Said(q) /\ SessionOf(q)' = SessionOf(q)
                           /\ AccountOf(q)' = AccountOf(q)
    BY <2>2 DEF Said, SessionOf, AccountOf
  <2>8. /\ \A x \in Session : Opened(x)' <=> Opened(x)
        /\ \A x \in Session : Opened(x) =>
              /\ sessions'[x].hash = sessions[x].hash
              /\ sessions'[x].account = sessions[x].account
              /\ sessions'[x].expiresAt = sessions[x].expiresAt
              /\ LastUse(sessions'[x]) = LastUse(sessions[x])
        /\ Revoked(s)'
        /\ \A x \in Session : Revoked(x) => Revoked(x)'
    <3>1. new # None /\ row # None /\ new.revokedAt # NoTime /\ LastUse(new) = LastUse(row)
      <4> HIDE DEF new, row
      <4> QED BY <2>3, <2>5, NoneAssumption DEF LastUse, Time, NoTime, Opened
    <3>2. Opened(s)' /\ Revoked(s)'
      BY <2>6, <2>7, <3>1 DEF Opened, Revoked
    <3>3. \A x \in Session \ {s} : (Opened(x)' <=> Opened(x)) /\ (Revoked(x)' <=> Revoked(x))
      BY <2>6 DEF Opened, Revoked
    <3>4. \A x \in Session \ {s} : LastUse(sessions'[x]) = LastUse(sessions[x])
      BY <2>6
    <3>5. LastUse(sessions'[s]) = LastUse(sessions[s])
      BY <2>6, <3>1
    <3> QED BY <2>3, <2>5, <2>6, <2>7, <3>2, <3>3, <3>4, <3>5
  <2>9. \A q \in Request : Rotated(q)' <=> Rotated(q)
    BY <1>1, <2>4 DEF Rotated
  <2>10. \A x : SpentIn(x)' = SpentIn(x)
    BY <2>2, <2>7, <2>9 DEF SpentIn
  <2>11. \A t \in Credential : InEffect(t) =>
            claims[t].session \in Session /\ Opened(claims[t].session)
    BY DEF Rest, ClaimsMatchRows, TypeInv, TypeOK, StoreTypeOK, Claims, InEffect, Opened
  <2>24. \A t \in Credential : InEffect(t)' = InEffect(t)
    BY <2>2, <2>8 DEF InEffect
  <2>12. \A q \in Request : pc[q] # "idle" =>
            SessionOf(q) \in Session /\ Opened(SessionOf(q))
    <3>1. \A q \in Request : pc[q] # "idle" =>
             presented[q] \in Credential /\ InEffect(presented[q])
      BY DEF TypeInv, TypeOK, StoreTypeOK, Provenance, InEffect, Opened
    <3> QED BY <2>11, <3>1 DEF SessionOf, Said
  <2>13. \A q \in Request : outcome[q] # "none" => pc[q] # "idle"
    BY DEF Rest, Progress
  <2>14. Progress'
    BY <2>2, <2>4, <2>9 DEF Rest, Progress, InTransaction
  <2>15. ClaimsMatchRows'
    BY <2>2, <2>8, <2>11, <2>24 DEF Rest, ClaimsMatchRows
  <2>16. Lineage'
    <3>1. \A q \in Request : Rotated(q) => SessionOf(q) \in Session /\ Opened(SessionOf(q))
      BY <2>12, <2>13 DEF Rotated
    <3>2. \A q \in Request : Rotated(q)' => sessions'[SessionOf(q)].hash # Hash(presented[q])
      BY <2>8, <2>9, <3>1 DEF Rest, Lineage
    <3>3. \A t \in Credential :
            (t \in Request => Rotated(t)') /\ InEffect(t) =>
               \/ sessions'[claims[t].session].hash = Hash(t)
               \/ t \in SpentIn(claims[t].session)
      BY <2>8, <2>9, <2>11 DEF Rest, Lineage
    <3>4. \A x \in Session, t \in Credential :
            Opened(x)' /\ sessions'[x].hash = Hash(t) =>
               /\ t \in Request => Rotated(t)'
               /\ claims[t] # None
               /\ claims[t].session = x
      BY <2>8, <2>9 DEF Rest, Lineage
    <3> QED BY <2>2, <2>7, <2>10, <2>24, <3>2, <3>3, <3>4 DEF Lineage
  <2>17. SingleSuccessor'
    BY <2>2, <2>9 DEF Rest, SingleSuccessor
  <2>18. ReuseIsGenuine'
    <3>1. presented[r] \in Request => Rotated(presented[r])
      BY <2>3 DEF Rest, Progress
    <3>2. presented[r] \in SpentIn(s)
      BY <2>3, <3>1 DEF Rest, Lineage, SessionOf, Said
    <3>3. \A q \in Request : outcome'[q] = "reused" => presented[q] \in SpentIn(SessionOf(q))
      BY <2>4, <3>2 DEF Rest, ReuseIsGenuine
    <3> QED BY <2>2, <2>7, <2>10, <3>3 DEF ReuseIsGenuine
  <2>19. ReuseRevoked'
    <3>1. \A q \in Request \ {r} : outcome'[q] = "reused" =>
             Revoked(SessionOf(q)) /\ SessionOf(q) \in Session
      BY <2>4, <2>12, <2>13 DEF Rest, ReuseRevoked
    <3> QED BY <2>7, <2>8, <3>1 DEF ReuseRevoked
  <2>20. Locked'
    <3>1. \A q \in Request : pc'[q] = "update" => pc[q] = "update" /\ q # r
      BY <2>4
    <3>2. \A q \in Request, a \in Account :
             q # r /\ accountLock[a] = q => accountLock'[a] = q
      BY <2>2 DEF Finish, Released, TypeInv, TypeOK, StoreTypeOK
    <3>3. \A q \in Request : pc[q] = "update" => AccountOf(q) \in Account
      BY SaidTyped
    <3> QED BY <2>2, <2>7, <3>1, <3>2, <3>3 DEF Rest, Locked
  <2>21. Successors'
    BY <1>1, <2>2, <2>4, <2>7, <2>9 DEF Rest, Successors, InTransaction
  <2>22. Chronology'
    <3>1. \A t \in Credential :
            InEffect(t) /\ sessions'[claims[t].session].hash = Hash(t) =>
               claims[t].iat = LastUse(sessions'[claims[t].session])
      BY <2>8, <2>11 DEF Rest, Chronology
    <3>2. \A x \in Session : Opened(x)' => LifecycleCheck(sessions'[x])
      BY <1>3, <2>6, <2>8 DEF Rest, Chronology
    <3>3. \A q \in Request : InTransaction(q)' => Verified(Said(q)', usedAt[q])
      BY <2>4, <2>7 DEF Rest, Chronology, InTransaction
    <3> QED BY <2>2, <2>24, <3>1, <3>2, <3>3 DEF Chronology
  <2>23. RotationPassesCheck'
    BY <2>2, <2>4 DEF Rest, RotationPassesCheck, IsCurrent
  <2> QED
    BY <2>14, <2>15, <2>16, <2>17, <2>18, <2>19, <2>20, <2>21, <2>22, <2>23 DEF Rest
<1> QED BY <1>2, <1>3

(* The INSERT of a session: with the row, the token of its login takes      *)
(* effect, a token nobody can have used.  The lock of the account may pass  *)
(* from the login to nobody.                                                *)
LEMMA RestInsert ==
    ASSUME TypeInv, Rest, NEW s \in Session, NEW a \in Account, NEW at \in Time,
           sessions[s] = None,
           sessions' = [sessions EXCEPT ![s] = NewRow(s, a, at)],
           claims' = [claims EXCEPT ![s] = LoginClaims(s, a, at)],
           delivered' \in {delivered, delivered \cup {s}},
           \A q \in Request, x \in Account :
               accountLock[x] = q => accountLock'[x] = q,
           UNCHANGED <<eligible, refreshVars>>
    PROVE  Rest'
<1> DEFINE new == NewRow(s, a, at)
<1>1. UNCHANGED <<eligible, pc, presented, usedAt, seen, outcome>>
  BY DEF refreshVars
<1>2. at + Lifetime \in Time /\ at + Lifetime > at
  BY TimeAssumption DEF Time
<1>3. new \in Row /\ LoginClaims(s, a, at) \in Claims
  BY <1>2 DEF NewRow, LoginClaims, Row, Claims, Hashes, Credential
<1>4. s \in Credential /\ s \notin Request /\ ~ Opened(s) /\ ~ InEffect(s)
  BY CredentialAssumption DEF Credential, Opened, InEffect
<1>5. \A t \in Credential : InEffect(t) => claims[t].session \in Session \ {s}
  BY <1>4 DEF Rest, ClaimsMatchRows, InEffect, TypeInv, TypeOK, StoreTypeOK, Claims
<1>6. \A q \in Request : pc[q] # "idle" =>
        /\ presented[q] \in Credential \ {s}
        /\ InEffect(presented[q])
        /\ SessionOf(q) \in Session \ {s}
  <2>1. \A q \in Request : pc[q] # "idle" =>
           presented[q] \in Credential /\ InEffect(presented[q])
    BY DEF TypeInv, TypeOK, StoreTypeOK, Provenance
  <2> QED BY <1>4, <1>5, <2>1 DEF SessionOf, Said
<1>7. /\ \A x \in Session \ {s} : sessions'[x] = sessions[x]
      /\ sessions'[s] = new
      /\ \A t \in Credential \ {s} : claims'[t] = claims[t]
      /\ claims'[s] = LoginClaims(s, a, at)
  BY <1>4 DEF TypeInv, TypeOK, StoreTypeOK
<1>8. \A q \in Request : pc[q] # "idle" =>
        Said(q)' = Said(q) /\ SessionOf(q)' = SessionOf(q) /\ AccountOf(q)' = AccountOf(q)
  BY <1>1, <1>6, <1>7 DEF Said, SessionOf, AccountOf
<1>9. /\ \A q \in Request : Rotated(q)' <=> Rotated(q)
      /\ \A q \in Request : outcome[q] # "none" => pc[q] # "idle"
      /\ \A q \in Request : InTransaction(q)' <=> InTransaction(q)
      /\ \A q \in Request : InTransaction(q) \/ Rotated(q) => pc[q] # "idle"
  BY <1>1 DEF Rotated, InTransaction, Rest, Progress
<1>10. \A x : SpentIn(x)' = SpentIn(x)
  BY <1>1, <1>8, <1>9 DEF SpentIn, Rotated
<1>11. /\ Opened(s)'
       /\ \A x \in Session \ {s} : Opened(x)' = Opened(x) /\ Revoked(x)' = Revoked(x)
       /\ \A t \in Credential \ {s} : InEffect(t)' = InEffect(t)
  BY <1>3, <1>7, NoneAssumption DEF Opened, Revoked, InEffect
<1>12. Progress'
  BY <1>1, <1>4, <1>7, <1>9 DEF Rest, Progress, Credential
<1>13. ClaimsMatchRows'
  <2>1. /\ claims'[s] # None /\ claims'[s].session = s
        /\ claims'[s].exp = new.expiresAt /\ claims'[s].account = new.account
    BY <1>3, <1>7, NoneAssumption DEF LoginClaims, NewRow
  <2>2. \A t \in Credential \ {s} : InEffect(t)' =>
          /\ Opened(claims[t].session)'
          /\ claims'[t].exp = sessions'[claims'[t].session].expiresAt
          /\ claims'[t].account = sessions'[claims'[t].session].account
    BY <1>5, <1>7, <1>11 DEF Rest, ClaimsMatchRows
  <2>3. \A x \in Session \ {s} :
          /\ claims'[x] # None => claims'[x].session = x
          /\ Opened(x)' => claims'[x] # None
    BY <1>7, <1>11 DEF Rest, ClaimsMatchRows, Credential
  <2>4. \A t \in Credential : InEffect(t)' =>
          /\ sessions'[claims'[t].session] # None
          /\ claims'[t].exp = sessions'[claims'[t].session].expiresAt
          /\ claims'[t].account = sessions'[claims'[t].session].account
    BY <1>7, <1>11, <2>1, <2>2 DEF Opened
  <2>5. \A x \in Session :
          /\ claims'[x] # None => claims'[x].session = x
          /\ sessions'[x] # None => claims'[x] # None
    BY <2>1, <2>3 DEF Opened
  <2> QED BY <2>4, <2>5 DEF ClaimsMatchRows, Opened
<1>14. Lineage'
  <2>1. \A q \in Request : Rotated(q)' => sessions'[SessionOf(q)'].hash # Hash(presented'[q])
    BY <1>1, <1>6, <1>7, <1>8, <1>9 DEF Rest, Lineage
  <2>2. \A t \in Credential \ {s} :
          (t \in Request => Rotated(t)) /\ InEffect(t) =>
             \/ sessions'[claims[t].session].hash = Hash(t)
             \/ t \in SpentIn(claims[t].session)
    BY <1>5, <1>7 DEF Rest, Lineage
  <2>3. sessions'[claims'[s].session].hash = Hash(s)
    BY <1>7 DEF LoginClaims, NewRow
  <2>4. \A t \in Credential : Hash(s) = Hash(t) => t = s
    BY HashInjective
  <2>5. \A x \in Session, t \in Credential :
          Opened(x)' /\ sessions'[x].hash = Hash(t) =>
             /\ t \in Request => Rotated(t)'
             /\ claims'[t] # None
             /\ claims'[t].session = x
    <3>1. claims'[s] # None /\ claims'[s].session = s
      BY <1>3, <1>7, NoneAssumption DEF LoginClaims
    <3>2. \A t \in Credential : new.hash = Hash(t) => t = s
      BY <2>4 DEF NewRow
    <3>3. \A x \in Session \ {s}, t \in Credential :
            Opened(x) /\ sessions[x].hash = Hash(t) =>
               /\ t \in Request => Rotated(t)
               /\ claims[t] # None /\ claims[t].session = x
      BY DEF Rest, Lineage
    <3>4. \A x \in Session \ {s} : Opened(x) => sessions[x].hash # Hash(s)
      BY <1>4, <3>3 DEF Rest, ClaimsMatchRows
    <3> QED BY <1>4, <1>7, <1>9, <1>11, <3>1, <3>2, <3>3, <3>4
  <2> QED BY <1>7, <1>9, <1>10, <1>11, <2>1, <2>2, <2>3, <2>5 DEF Lineage
<1>15. SingleSuccessor' /\ RotationPassesCheck'
  BY <1>1 DEF Rest, SingleSuccessor, RotationPassesCheck, Rotated, IsCurrent
<1>16. ReuseIsGenuine' /\ ReuseRevoked'
  BY <1>1, <1>6, <1>8, <1>9, <1>10, <1>11 DEF Rest, ReuseIsGenuine, ReuseRevoked
<1>17. Locked'
  <2>1. \A q \in Request : pc[q] = "update" => AccountOf(q) \in Account
    BY SaidTyped
  <2> QED BY <1>1, <1>8, <2>1 DEF Rest, Locked
<1>18. Successors'
  BY <1>1, <1>4, <1>7, <1>8, <1>9 DEF Rest, Successors, Credential
<1>19. Chronology'
  <2>1. \A t \in Credential \ {s} :
          InEffect(t)' /\ sessions'[claims'[t].session].hash = Hash(t) =>
             claims'[t].iat = LastUse(sessions'[claims'[t].session])
    BY <1>5, <1>7, <1>11 DEF Rest, Chronology
  <2>2. claims'[s].iat = LastUse(sessions'[claims'[s].session])
    BY <1>7 DEF LoginClaims, NewRow, LastUse
  <2>3. LifecycleCheck(new)
    BY <1>2 DEF LifecycleCheck, NewRow, NoTime
  <2>4. \A q \in Request : InTransaction(q)' => Verified(Said(q)', usedAt'[q])
    BY <1>1, <1>8, <1>9 DEF Rest, Chronology
  <2> QED BY <1>7, <1>11, <2>1, <2>2, <2>3, <2>4 DEF Rest, Chronology
<1> QED
  BY <1>12, <1>13, <1>14, <1>15, <1>16, <1>17, <1>18, <1>19 DEF Rest

LEMMA RestOpen ==
    ASSUME TypeInv, Rest, NEW s \in Session, NEW a \in Account,
           NEW at \in ClockReadings, OpenSession(s, a, at)
    PROVE  Rest'
<1>1. at \in Time
  BY DEF ClockReadings, Time, TypeInv, TypeOK, StoreTypeOK
<1> QED BY <1>1, RestInsert DEF OpenSession

LEMMA RestInit == Init => Rest
BY CredentialAssumption
   DEF Init, StoreInit, RefreshInit, Rest, Progress, ClaimsMatchRows, Lineage,
       SingleSuccessor, ReuseIsGenuine, Locked, Successors, Chronology,
       RotationPassesCheck, ReuseRevoked, InTransaction, Rotated, Opened,
       Credential, InEffect

LEMMA RestRefresh ==
    ASSUME TypeInv, Rest, NEW r \in Request, RefreshStep(r)
    PROVE  Rest'
BY RestReceive, RestSelectAbort, RestLockSession, RestLockAccount, RestRotate,
   RestRevoke, RestAnswer
   DEF RefreshStep, Work

LEMMA InvStep == Inv /\ [Next]_vars => Inv'
<1> SUFFICES ASSUME TypeInv, Rest, [Next]_vars
             PROVE  TypeInv' /\ Rest'
  BY DEF Inv, TypeInv, Rest
<1>1. TypeInv'
  BY TypeInvStep
<1>2. ASSUME NEW r \in Request, RefreshStep(r)
      PROVE  Rest'
  BY <1>2, RestRefresh
<1>3. ASSUME Environment
      PROVE  Rest'
  BY <1>3, RestSurroundings, RestOpen DEF Environment
<1>4. ASSUME UNCHANGED vars
      PROVE  Rest'
  <2>1. Settled'
    BY <1>4, QuietStep, RestParts
       DEF vars, storeVars, refreshVars, InTransaction, Rotated, IsCurrent
  <2>2. Progress' /\ Locked'
    BY <1>4 DEF vars, storeVars, refreshVars, Rest, Progress, Locked,
                InTransaction, Rotated, AccountOf, Said
  <2> QED BY <2>1, <2>2 DEF Rest, Settled
<1> QED BY <1>1, <1>2, <1>3, <1>4 DEF Next

(* The safety theorem: Inv holds in every reachable state, and with it      *)
(* every invariant it names.                                                *)
THEOREM Safety == Spec => []Inv
<1>1. Init => Inv
  BY TypeInvInit, RestInit, InvParts
<1> QED BY <1>1, InvStep, PTL DEF Spec

(* One refresh token is exchanged at most once, whatever the interleaving.  *)
THEOREM ExchangedOnce == Spec => []SingleSuccessor
<1>1. Inv => SingleSuccessor
  BY DEF Inv
<1> QED BY <1>1, Safety, PTL

(* Only the replay of a token that was exchanged is reported as a reuse.    *)
THEOREM NoFalseReuse == Spec => []ReuseIsGenuine
<1>1. Inv => ReuseIsGenuine
  BY DEF Inv
<1> QED BY <1>1, Safety, PTL

(* No chain of rotations changes the account or the expiry of a session.    *)
THEOREM AbsoluteExpiry == Spec => []ExpiryIsAbsolute
<1>1. Inv => ExpiryIsAbsolute
  BY DEF Inv, ClaimsMatchRows, ExpiryIsAbsolute, InEffect, Opened
<1> QED BY <1>1, Safety, PTL

(* Whatever the skew between clocks, the CHECK never refuses a rotation.    *)
THEOREM RotationIsStorable == Spec => []RotationPassesCheck
<1>1. Inv => RotationPassesCheck
  BY DEF Inv
<1> QED BY <1>1, Safety, PTL

(* A session that opens has its token with the client at that very step.    *)
OpenedAtClient == \A s \in Session : Opened(s) => s \in delivered

LEMMA OpenedAtClientStep == Inv /\ OpenedAtClient /\ [Next]_vars => OpenedAtClient'
<1> SUFFICES ASSUME Inv, OpenedAtClient, [Next]_vars
             PROVE  OpenedAtClient'
  OBVIOUS
<1>1. ASSUME NEW r \in Request, RefreshStep(r)
      PROVE  OpenedAtClient'
  <2>1. delivered \subseteq delivered'
    BY <1>1
       DEF RefreshStep, Work, Receive, Select, LockSession, LockAccount, Rotate,
           Revoke, UpdateAndCommit, Abort, Respond, LoseResponse, storeVars
  <2>2. CASE UNCHANGED sessions
    BY <2>1, <2>2 DEF OpenedAtClient, Opened
  <2>3. CASE Rotate(r) \/ Revoke(r)
    <3>1. \A s \in Session : sessions[s] = None => sessions'[s] = None
      BY <2>3 DEF Rotate, Revoke, UpdateAndCommit, UpdateWhere, Inv, TypeOK, StoreTypeOK
    <3> QED BY <2>1, <3>1 DEF OpenedAtClient, Opened
  <2> QED
    BY <1>1, <2>2, <2>3
       DEF RefreshStep, Work, Receive, Select, LockSession, LockAccount, Abort,
           Respond, LoseResponse, storeVars
<1>2. ASSUME NEW s \in Session, NEW a \in Account, NEW at \in ClockReadings,
             OpenSession(s, a, at)
      PROVE  OpenedAtClient'
  BY <1>2 DEF OpenSession, OpenedAtClient, Opened, Inv, TypeOK, StoreTypeOK
<1>3. CASE UNCHANGED <<sessions, delivered>>
  BY <1>3 DEF OpenedAtClient, Opened
<1> QED
  BY <1>1, <1>2, <1>3 DEF Next, Environment, Tick, EligibilityChanged, vars, storeVars

(* A session can be continued by its client, unless a response was lost.    *)
THEOREM Continuation == Spec => []ContinuesUnlessLost
<1>1. Init => OpenedAtClient
  BY DEF Init, StoreInit, OpenedAtClient, Opened
<1>2. Spec => []OpenedAtClient
  BY <1>1, OpenedAtClientStep, Safety, PTL DEF Spec
<1>3. Inv /\ OpenedAtClient => ContinuesUnlessLost
  <2> SUFFICES ASSUME Inv, OpenedAtClient, NEW s \in Session, Opened(s)
               PROVE  \E t \in Credential :
                         /\ sessions[s].hash = Hash(t)
                         /\ \/ t \in delivered
                            \/ t \in Request /\ Rotated(t) /\ pc[t] \in {"respond", "lost"}
    BY DEF ContinuesUnlessLost
  <2>1. PICK t \in Credential : sessions[s].hash = Hash(t)
    BY DEF Inv, TypeOK, StoreTypeOK, Row, Hashes, Opened
  <2>2. (t \in Request => Rotated(t)) /\ claims[t] # None /\ claims[t].session = s
    BY <2>1 DEF Inv, Lineage
  <2>3. CASE t \in Request
    BY <2>1, <2>2, <2>3 DEF Inv, Progress
  <2>4. CASE t \in Session
    BY <2>1, <2>2, <2>4 DEF Inv, ClaimsMatchRows, OpenedAtClient
  <2> QED BY <2>3, <2>4 DEF Credential
<1> QED BY <1>2, <1>3, Safety, PTL

-----------------------------------------------------------------------------
(* Which steps write rows.                                                  *)

LEMMA WriteStep ==
    ASSUME Inv, [Next]_vars, NEW s \in Session, Opened(s),
           sessions'[s] # sessions[s]
    PROVE  \E r \in Request :
             /\ Rotate(r) \/ Revoke(r)
             /\ s = SessionOf(r)
             /\ sessions[s].revokedAt = NoTime
             /\ sessions[s].account = AccountOf(r)
             /\ AccountOf(r) \in eligible
<1>1. PICK r \in Request : Rotate(r) \/ Revoke(r)
  <2>1. ASSUME NEW x \in Session, NEW a \in Account, NEW at \in ClockReadings,
               OpenSession(x, a, at)
        PROVE  FALSE
    BY <2>1 DEF OpenSession, Opened, Inv, TypeOK, StoreTypeOK
  <2>2. Environment => FALSE
    BY <2>1 DEF Environment, Tick, EligibilityChanged
  <2>3. UNCHANGED vars => FALSE
    BY DEF vars, storeVars
  <2>4. \E r \in Request : RefreshStep(r)
    BY <2>2, <2>3 DEF Next
  <2> QED
    BY <2>4 DEF RefreshStep, Work, Receive, Select, LockSession, LockAccount,
                Abort, Respond, LoseResponse, storeVars
<1>2. s = SessionOf(r) /\ sessions[s].revokedAt = NoTime
  <2>1. PICK hash, row, success : UpdateAndCommit(r, hash, row, success)
    BY <1>1 DEF Rotate, Revoke
  <2>2. s = SessionOf(r)
    BY <2>1 DEF UpdateAndCommit, Inv, TypeOK, StoreTypeOK
  <2>3. UpdateWhere(sessions[SessionOf(r)], hash, usedAt[r])
    BY <2>1 DEF UpdateAndCommit
  <2> QED BY <2>2, <2>3 DEF UpdateWhere
<1>3. pc[r] = "update"
  BY <1>1 DEF Rotate, Revoke
<1>4. sessions[s].account = AccountOf(r)
  BY <1>2, <1>3, SaidTyped, InvParts
     DEF Inv, ClaimsMatchRows, SessionOf, AccountOf, Said, Provenance, TypeOK,
         StoreTypeOK
<1>5. AccountOf(r) \in eligible
  BY <1>3 DEF Inv, Locked
<1> QED BY <1>1, <1>2, <1>4, <1>5

(* A block of the account or a revocation that commits first always wins.   *)
THEOREM NoWriteForIneligible == Spec => WrittenOnlyWhileEligible
<1>1. Inv /\ [Next]_vars =>
        [\A s \in Session : Opened(s) /\ sessions'[s] # sessions[s] =>
            /\ sessions[s].account \in eligible
            /\ ~ Revoked(s)]_vars
  BY WriteStep DEF Revoked
<1> QED BY <1>1, Safety, PTL DEF Spec, WrittenOnlyWhileEligible

(* After a reported reuse the row of the session is final.                  *)
THEOREM ReuseIsFinal == Spec => ReuseStands
<1>1. Inv /\ [Next]_vars =>
        [\A r \in Request : outcome[r] = "reused" =>
            sessions'[SessionOf(r)] = sessions[SessionOf(r)]]_vars
  <2> SUFFICES ASSUME Inv, [Next]_vars, NEW r \in Request, outcome[r] = "reused"
               PROVE  sessions'[SessionOf(r)] = sessions[SessionOf(r)]
    OBVIOUS
  <2>1. pc[r] # "idle"
    BY DEF Inv, Progress
  <2>2. SessionOf(r) \in Session
    BY <2>1, SaidTyped, InvParts
  <2>3. Opened(SessionOf(r)) /\ sessions[SessionOf(r)].revokedAt # NoTime
    BY DEF Inv, ReuseRevoked, Revoked
  <2>4. sessions'[SessionOf(r)] # sessions[SessionOf(r)] =>
           sessions[SessionOf(r)].revokedAt = NoTime
    BY <2>2, <2>3, WriteStep
  <2> QED BY <2>3, <2>4
<1> QED BY <1>1, Safety, PTL DEF Spec, ReuseStands

-----------------------------------------------------------------------------
(* Refinement: the committed writes are the steps of SessionFamily.         *)

Current == [s \in Session |-> IF Opened(s) THEN Holding(s) ELSE None]
Spent == [s \in Session |-> SpentIn(s)]
Ended == {s \in Session : Revoked(s)}

LEMMA HoldingIs ==
    ASSUME NEW s \in Session, NEW t \in Credential, sessions[s].hash = Hash(t)
    PROVE  Holding(s) = t
BY HashInjective DEF Holding

LEMMA HoldingStored ==
    ASSUME TypeInv, NEW s \in Session, Opened(s)
    PROVE  Holding(s) \in Credential /\ sessions[s].hash = Hash(Holding(s))
<1>1. \E t \in Credential : Hash(t) = sessions[s].hash
  BY DEF TypeInv, TypeOK, StoreTypeOK, Row, Hashes, Opened
<1> QED BY <1>1 DEF Holding

(* The state of the family depends on the rows, the claims and on which     *)
(* request rotated what.                                                    *)
LEMMA FamilyFrame ==
    ASSUME UNCHANGED <<sessions, claims, presented>>,
           \A q \in Request : Rotated(q)' <=> Rotated(q)
    PROVE  UNCHANGED <<Current, Spent, Ended>>
<1>1. \A s \in Session : /\ Opened(s)' = Opened(s)
                        /\ Revoked(s)' = Revoked(s)
                        /\ Holding(s)' = Holding(s)
  BY DEF Opened, Revoked, Holding
<1>2. \A s \in Session : SpentIn(s)' = SpentIn(s)
  BY DEF SpentIn, SessionOf, Said
<1> QED BY <1>1, <1>2 DEF Current, Spent, Ended

(* A credential that no row holds and nobody exchanged is fresh.            *)
LEMMA FreshWhen ==
    ASSUME TypeInv, NEW t \in Credential,
           \A s \in Session : Opened(s) => sessions[s].hash # Hash(t),
           \A q \in Request : Rotated(q) => presented[q] # t
    PROVE  Family!Fresh(t)
<1>1. \A s \in Session : Opened(s) => Holding(s) # t
  BY HoldingStored
<1>2. \A s \in Session : t \notin SpentIn(s)
  BY DEF SpentIn
<1>3. t # None
  BY CredentialAssumption
<1> QED BY <1>1, <1>2, <1>3 DEF Family!Fresh

LEMMA InsertIsOpen ==
    ASSUME Inv, NEW s \in Session, NEW a \in Account, NEW at \in Time,
           sessions[s] = None,
           sessions' = [sessions EXCEPT ![s] = NewRow(s, a, at)],
           claims' = [claims EXCEPT ![s] = LoginClaims(s, a, at)],
           UNCHANGED refreshVars
    PROVE  Family!Open(s, s)
<1>1. TypeInv /\ s \in Credential /\ ~ InEffect(s)
  BY DEF Inv, TypeInv, Credential, InEffect, Opened
<1>2. /\ ~ Opened(s) /\ Opened(s)'
      /\ sessions'[s] = NewRow(s, a, at)
      /\ \A x \in Session \ {s} : sessions'[x] = sessions[x]
  <2>1. NewRow(s, a, at).hash = Hash(s) /\ NewRow(s, a, at) # None
    <3>1. at + Lifetime \in Time
      BY TimeAssumption DEF Time
    <3>2. NewRow(s, a, at) \in Row
      BY <1>1, <3>1 DEF NewRow, Row, Hashes
    <3> QED BY <3>2, NoneAssumption DEF NewRow
  <2> QED BY <2>1 DEF Opened, Inv, TypeOK, StoreTypeOK
<1>3. Family!Fresh(s)
  <2>1. \A x \in Session : Opened(x) => sessions[x].hash # Hash(s)
    <3>1. \A x \in Session : Opened(x) /\ sessions[x].hash = Hash(s) =>
             claims[s] # None /\ claims[s].session = x
      BY <1>1 DEF Inv, Lineage
    <3> QED BY <1>2, <3>1 DEF Inv, ClaimsMatchRows
  <2>2. \A q \in Request : Rotated(q) => presented[q] # s
    BY <1>1 DEF Inv, Progress, Provenance, Rotated
  <2> QED BY <1>1, <2>1, <2>2, FreshWhen
<1>4. Current' = [Current EXCEPT ![s] = s]
  <2>1. Holding(s)' = s
    BY <1>1, <1>2, HashInjective DEF Holding, NewRow
  <2>2. \A x \in Session \ {s} : Opened(x)' = Opened(x) /\ Holding(x)' = Holding(x)
    BY <1>2 DEF Opened, Holding
  <2> QED BY <1>2, <2>1, <2>2 DEF Current
<1>5. Spent' = Spent
  <2>1. \A q \in Request : Rotated(q) => presented[q] \in Credential \ {s}
    BY <1>1 DEF Inv, Progress, Provenance, Rotated, TypeOK, StoreTypeOK
  <2>2. \A q \in Request : Rotated(q) => SessionOf(q)' = SessionOf(q)
    BY <2>1 DEF refreshVars, SessionOf, Said, Inv, TypeOK, StoreTypeOK
  <2>3. \A x \in Session : SpentIn(x)' = SpentIn(x)
    BY <2>2 DEF SpentIn, refreshVars, Rotated
  <2> QED BY <2>3 DEF Spent
<1>6. Ended' = Ended
  <2>1. ~ Revoked(s) /\ ~ Revoked(s)'
    BY <1>2 DEF Revoked, NewRow, Opened
  <2>2. \A x \in Session \ {s} : Revoked(x)' = Revoked(x)
    BY <1>2 DEF Revoked, Opened
  <2> QED BY <2>1, <2>2 DEF Ended
<1>7. Current[s] = None
  BY <1>2 DEF Current
<1> QED BY <1>3, <1>4, <1>5, <1>6, <1>7 DEF Family!Open, Current, Spent, Ended

LEMMA OpenIsOpen ==
    ASSUME Inv, NEW s \in Session, NEW a \in Account, NEW at \in ClockReadings,
           OpenSession(s, a, at)
    PROVE  Family!Open(s, s)
<1>1. at \in Time
  BY DEF ClockReadings, Time, Inv, TypeOK, StoreTypeOK
<1> QED BY <1>1, InsertIsOpen DEF OpenSession

FamilyVars == <<Current, Spent, Ended>>

(* An UPDATE that changes no row is a stutter of the family.                *)
LEMMA NoRowIsStutter ==
    ASSUME TypeOK, NEW r \in Request, outcome[r] = "none",
           NEW result \in Outcome \ {"rotated"}, Finish(r, result),
           UNCHANGED <<sessions, claims, presented>>
    PROVE  UNCHANGED FamilyVars
<1>1. \A q \in Request : Rotated(q)' <=> Rotated(q)
  BY DEF Finish, Rotated, TypeOK
<1> QED BY <1>1, FamilyFrame DEF FamilyVars

LEMMA RotateIsExchange ==
    ASSUME Inv, Inv', NEW r \in Request, Rotate(r)
    PROVE  (\E s \in Session : Family!Exchange(s, r)) \/ UNCHANGED FamilyVars
<1> DEFINE s == SessionOf(r)
           new == RotatedRow(sessions[s], r, usedAt[r])
           written == /\ UpdateWhere(sessions[s], Hash(presented[r]), usedAt[r])
                      /\ LifecycleCheck(new)
<1>1. outcome[r] = "none" /\ InTransaction(r) /\ pc[r] = "update" /\ TypeOK /\ TypeInv
  BY DEF Inv, TypeInv, Progress, InTransaction, Rotate
<1>2. CASE ~ written
  <2>1. PICK result \in {"invalid", "checkFailed"} :
          Finish(r, result) /\ UNCHANGED <<sessions, claims, presented>>
    BY <1>2 DEF Rotate, UpdateAndCommit, UpdateResult
  <2> QED BY <1>1, <2>1, NoRowIsStutter DEF Outcome
<1>3. CASE written
  <2>1. /\ sessions' = [sessions EXCEPT ![s] = new]
        /\ Finish(r, "rotated")
        /\ UNCHANGED <<claims, presented>>
    BY <1>3 DEF Rotate, UpdateAndCommit, UpdateResult
  <2>2. s \in Session /\ presented[r] \in Credential /\ r \in Credential /\ Opened(s)
        /\ sessions[s] \in Row /\ sessions[s].hash = Hash(presented[r])
        /\ sessions[s].revokedAt = NoTime
    BY <1>1, <1>3, SaidTyped DEF UpdateWhere, Opened, Credential, TypeInv, TypeOK, StoreTypeOK
  <2>3. /\ sessions'[s] = new /\ new.hash = Hash(r)
        /\ new.revokedAt = NoTime /\ new # None
        /\ \A x \in Session \ {s} : sessions'[x] = sessions[x]
    <3>1. new \in Row
      BY <1>1, <2>2, SaidTyped, WrittenRowsTyped
    <3>2. new.hash = Hash(r) /\ new.revokedAt = NoTime
      BY <2>2 DEF RotatedRow, Row
    <3> QED BY <2>1, <2>2, <3>1, <3>2, NoneAssumption DEF Inv, TypeOK, StoreTypeOK
  <2>4. Rotated(r)' /\ ~ Rotated(r) /\ \A q \in Request \ {r} : Rotated(q)' <=> Rotated(q)
    BY <1>1, <2>1 DEF Rotated, Finish, TypeOK
  <2>5. Family!Fresh(r)
    <3>1. \A x \in Session : Opened(x) => sessions[x].hash # Hash(r)
      BY <2>2, <2>4 DEF Inv, Lineage
    <3>2. \A q \in Request : Rotated(q) => presented[q] # r
      BY <2>4 DEF Inv, Progress, Provenance, Rotated
    <3> QED BY <1>1, <2>2, <3>1, <3>2, FreshWhen
  <2>6. Holding(s) = presented[r]
    BY <2>2, HoldingIs
  <2>7. Current' = [Current EXCEPT ![s] = r]
    <3>1. \A x \in Session : x = s => Holding(x)' = r /\ Opened(x)'
      BY <2>2, <2>3, HashInjective DEF Holding, Opened
    <3>2. \A x \in Session \ {s} : Opened(x)' = Opened(x) /\ Holding(x)' = Holding(x)
      BY <2>3 DEF Opened, Holding
    <3>3. [x \in Session |-> IF Opened(x)' THEN Holding(x)' ELSE None]
             = [Current EXCEPT ![s] = r]
      BY <2>2, <3>1, <3>2 DEF Current
    <3> QED BY <3>3 DEF Current
  <2>8. \A q \in Request : SessionOf(q)' = SessionOf(q) /\ presented'[q] = presented[q]
    BY <2>1 DEF SessionOf, Said
  <2>9. Spent' = [Spent EXCEPT ![s] = @ \cup {presented[r]}]
    <3>1. \A x \in Session \ {s} : SpentIn(x)' = SpentIn(x)
      BY <2>4, <2>8 DEF SpentIn
    <3>2. {q \in Request : Rotated(q)' /\ SessionOf(q)' = SessionOf(r)}
             = {q \in Request : Rotated(q) /\ SessionOf(q) = SessionOf(r)} \cup {r}
      BY <2>4, <2>8
    <3>3. \A x : x = s => SpentIn(x)' = SpentIn(x) \cup {presented[r]}
      BY <2>8, <3>2 DEF SpentIn
    <3>4. [x \in Session |-> SpentIn(x)'] = [Spent EXCEPT ![s] = @ \cup {presented[r]}]
      BY <2>2, <3>1, <3>3 DEF Spent
    <3> QED BY <3>4 DEF Spent
  <2>10. Ended' = Ended /\ s \notin Ended
    <3>1. ~ Revoked(s)
      BY <2>2 DEF Revoked
    <3>2. \A x \in Session : Revoked(x)' <=> Revoked(x)
      BY <2>2, <2>3 DEF Revoked, Opened
    <3> QED BY <3>1, <3>2 DEF Ended
  <2>11. Current[s] = presented[r] /\ presented[r] # None
    BY <2>2, <2>6, CredentialAssumption DEF Current
  <2>12. Family!Exchange(s, r)
    BY <2>2, <2>5, <2>7, <2>9, <2>10, <2>11
       DEF Family!Exchange, Current, Spent, Ended
  <2> QED BY <2>2, <2>12
<1> QED BY <1>2, <1>3

LEMMA RevokeIsEnd ==
    ASSUME Inv, Inv', NEW r \in Request, Revoke(r)
    PROVE  \/ \E s \in Session, t \in Credential : Family!End(s, t)
           \/ UNCHANGED FamilyVars
<1> DEFINE s == SessionOf(r)
           new == RevokedRow(sessions[s], usedAt[r])
           written == UpdateWhere(sessions[s], seen[r], usedAt[r]) /\ LifecycleCheck(new)
<1>1. outcome[r] = "none" /\ InTransaction(r) /\ pc[r] = "update" /\ TypeOK /\ TypeInv
  BY DEF Inv, TypeInv, Progress, InTransaction, Revoke
<1>2. CASE ~ written
  <2>1. PICK result \in {"invalid", "checkFailed"} :
          Finish(r, result) /\ UNCHANGED <<sessions, claims, presented>>
    BY <1>2 DEF Revoke, UpdateAndCommit, UpdateResult
  <2> QED BY <1>1, <2>1, NoRowIsStutter DEF Outcome
<1>3. CASE written
  <2>1. /\ sessions' = [sessions EXCEPT ![s] = new]
        /\ Finish(r, "reused")
        /\ UNCHANGED <<claims, presented>>
    BY <1>3 DEF Revoke, UpdateAndCommit, UpdateResult
  <2>2. /\ s \in Session /\ presented[r] \in Credential /\ usedAt[r] \in Time
        /\ Opened(s) /\ sessions[s] \in Row /\ sessions[s].revokedAt = NoTime
    BY <1>1, <1>3, SaidTyped DEF UpdateWhere, Opened, TypeInv, TypeOK, StoreTypeOK
  <2>3. /\ sessions'[s] = new /\ new.hash = sessions[s].hash
        /\ new.revokedAt # NoTime /\ new # None
        /\ \A x \in Session \ {s} : sessions'[x] = sessions[x]
    <3>1. new \in Row
      BY <2>2, WrittenRowsTyped
    <3>2. new.hash = sessions[s].hash /\ new.revokedAt = usedAt[r]
      BY <2>2 DEF RevokedRow, Row
    <3>3. usedAt[r] # NoTime
      BY <2>2 DEF Time, NoTime
    <3> QED
      BY <2>1, <2>2, <3>1, <3>2, <3>3, NoneAssumption DEF Inv, TypeOK, StoreTypeOK
  <2>4. \A q \in Request : Rotated(q)' <=> Rotated(q)
    BY <1>1, <2>1 DEF Rotated, Finish, TypeOK
  <2>5. Current' = Current
    <3>1. \A x \in Session : Opened(x)' <=> Opened(x)
      BY <2>2, <2>3 DEF Opened
    <3>2. \A x \in Session : Holding(x)' = Holding(x)
      BY <2>3 DEF Holding
    <3> QED BY <3>1, <3>2 DEF Current
  <2>6. \A x : SpentIn(x)' = SpentIn(x)
    BY <2>1, <2>4 DEF SpentIn, SessionOf, Said
  <2>7. Spent' = Spent
    BY <2>6 DEF Spent
  <2>8. Ended' = Ended \cup {s} /\ s \notin Ended
    <3>1. ~ Revoked(s)
      BY <2>2 DEF Revoked
    <3>2. \A x \in Session : Revoked(x)' <=> (Revoked(x) \/ x = s)
      BY <2>2, <2>3 DEF Revoked, Opened
    <3> QED BY <2>2, <3>1, <3>2 DEF Ended
  <2>9. presented[r] \in SpentIn(s)
    <3>1. outcome'[r] = "reused"
      BY <2>1 DEF Finish, TypeOK, Inv
    <3>2. presented'[r] \in SpentIn(SessionOf(r))'
      BY <3>1 DEF Inv, ReuseIsGenuine
    <3>3. SessionOf(r)' = SessionOf(r) /\ presented' = presented
      BY <2>1 DEF SessionOf, Said
    <3> QED BY <2>6, <3>2, <3>3
  <2>10. Family!End(s, presented[r])
    BY <2>2, <2>5, <2>7, <2>8, <2>9 DEF Family!End, Current, Spent, Ended
  <2> QED BY <2>2, <2>10
<1> QED BY <1>2, <1>3

LEMMA FamilyInit == Init => Family!Init
<1> SUFFICES ASSUME Init
             PROVE  Family!Init
  OBVIOUS
<1>1. \A s \in Session : ~ Opened(s) /\ ~ Revoked(s)
  BY DEF Init, StoreInit, Opened, Revoked
<1>2. \A s \in Session : SpentIn(s) = {}
  BY DEF Init, RefreshInit, SpentIn, Rotated
<1> QED BY <1>1, <1>2 DEF Family!Init

LEMMA FamilyRefreshStep ==
    ASSUME Inv, Inv', NEW r \in Request, RefreshStep(r)
    PROVE  [Family!Next]_FamilyVars
<1>1. TypeOK /\ r \in Credential
  BY DEF Inv, Credential
<1>2. CASE Rotate(r)
  BY <1>1, <1>2, RotateIsExchange DEF Family!Next
<1>3. CASE Revoke(r)
  BY <1>3, RevokeIsEnd DEF Family!Next
<1>4. CASE LockSession(r) \/ Respond(r) \/ LoseResponse(r)
  <2>1. UNCHANGED <<sessions, claims, presented, outcome>>
    BY <1>4 DEF LockSession, Respond, LoseResponse, storeVars
  <2> QED BY <2>1, FamilyFrame DEF FamilyVars, Rotated
<1>5. CASE Select(r) \/ LockAccount(r) \/ Abort(r)
  <2>1. outcome[r] = "none"
    BY <1>5 DEF Inv, Progress, InTransaction, Select, LockAccount, Abort
  <2>2. UNCHANGED <<sessions, claims, presented>>
    BY <1>5 DEF Select, LockAccount, Abort
  <2>3. UNCHANGED outcome \/ \E result \in Outcome \ {"rotated"} : Finish(r, result)
    BY <1>5 DEF Select, LockAccount, Abort, Outcome
  <2>4. UNCHANGED outcome => UNCHANGED FamilyVars
    BY <2>2, FamilyFrame DEF FamilyVars, Rotated
  <2> QED BY <1>1, <2>1, <2>2, <2>3, <2>4, NoRowIsStutter
<1>6. ASSUME NEW t \in delivered, NEW at \in ClockReadings, Receive(r, t, at)
      PROVE  UNCHANGED FamilyVars
  <2>1. sessions' = sessions
    BY <1>6 DEF Receive
  <2>2. \A q \in Request : Rotated(q) => q # r /\ pc[q] # "idle" /\ presented[q] # r
    BY <1>6 DEF Inv, Progress, Provenance, Receive, Rotated
  <2>3. \A q \in Request : Rotated(q)' <=> Rotated(q)
    BY <1>1, <1>6 DEF Receive, Reject, Accept, Rotated, TypeOK, Inv, Progress
  <2>4. \A q \in Request : Rotated(q) => /\ presented'[q] = presented[q]
                                       /\ SessionOf(q)' = SessionOf(q)
    BY <1>1, <1>6, <2>2
       DEF Receive, Reject, Accept, SessionOf, Said, TypeOK, StoreTypeOK,
           Inv, Provenance
  <2>5. \A x : SpentIn(x)' = SpentIn(x)
    BY <2>3, <2>4 DEF SpentIn
  <2>6. Current' = Current /\ Ended' = Ended
    BY <2>1 DEF Current, Ended, Opened, Revoked, Holding
  <2> QED BY <2>5, <2>6 DEF FamilyVars, Spent
<1> QED BY <1>2, <1>3, <1>4, <1>5, <1>6 DEF RefreshStep, Work

LEMMA FamilyStep == Inv /\ Inv' /\ [Next]_vars => [Family!Next]_FamilyVars
<1> SUFFICES ASSUME Inv, Inv', [Next]_vars
             PROVE  [Family!Next]_FamilyVars
  OBVIOUS
<1>1. ASSUME NEW r \in Request, RefreshStep(r)
      PROVE  [Family!Next]_FamilyVars
  BY <1>1, FamilyRefreshStep
<1>2. ASSUME NEW s \in Session, NEW a \in Account, NEW at \in ClockReadings,
             OpenSession(s, a, at)
      PROVE  Family!Next
  BY <1>2, OpenIsOpen DEF Family!Next, Credential
<1>3. ASSUME UNCHANGED <<sessions, claims, presented, outcome>>
      PROVE  UNCHANGED FamilyVars
  BY <1>3, FamilyFrame DEF FamilyVars, Rotated
<1>4. CASE Environment
  BY <1>2, <1>3, <1>4 DEF Environment, Tick, EligibilityChanged, refreshVars
<1>5. CASE UNCHANGED vars
  BY <1>3, <1>5 DEF vars, storeVars, refreshVars
<1> QED BY <1>1, <1>4, <1>5 DEF Next

(* The refinement: rows, locks and clocks implement the session family, for *)
(* any number of accounts, sessions and concurrent requests.                *)
THEOREM Refinement == Spec => ImplementsSessionFamily
<1>1. [Family!Next]_FamilyVars => [Family!Next]_(Family!vars)
  BY DEF FamilyVars, Family!vars, Current, Spent, Ended
<1>2. Inv /\ Inv' /\ [Next]_vars => [Family!Next]_(Family!vars)
  BY <1>1, FamilyStep
<1> QED BY <1>2, FamilyInit, Safety, PTL DEF Spec, ImplementsSessionFamily, Family!Spec
=============================================================================
