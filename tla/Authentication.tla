--------------------------- MODULE Authentication ---------------------------
(***************************************************************************)
(* The Manager API as clients see it: logins and refreshes that run side by *)
(* side over one database.  They meet in the row of the account, which a   *)
(* login updates and locks to create a session and a refresh locks after   *)
(* the row of its session.                                                 *)
(***************************************************************************)
EXTENDS RefreshSession, LoginSession

authVars == <<vars, loginVars>>

AuthInit == StoreInit /\ RefreshInit /\ LoginInit

AccountAdministration ==
    \E a \in Account :
        \/ EligibilityChanged(a) /\ UNCHANGED loginVars
        \/ \E p \in Password : PasswordChanged(a, p)
        \/ MfaEnabled(a)

AuthNext ==
    \/ \E r \in Request : RefreshStep(r) /\ UNCHANGED loginVars
    \/ \E s \in Session : LoginStep(s) /\ UNCHANGED refreshVars
    \/ AccountAdministration /\ UNCHANGED refreshVars
    \/ Tick /\ UNCHANGED <<refreshVars, loginVars>>

AuthSpec == AuthInit /\ [][AuthNext]_authVars

(* What the event loop and the database run once it can run.                *)
AuthFairness ==
    /\ \A r \in Request : WF_authVars(Work(r) /\ UNCHANGED loginVars)
    /\ \A s \in Session : WF_authVars(LoginWork(s) /\ UNCHANGED refreshVars)

FairAuthSpec == AuthSpec /\ AuthFairness

-----------------------------------------------------------------------------
(* Properties.                                                              *)

(* AuthTypeOK: both handlers keep the types of the state they share.        *)
AuthTypeOK == TypeOK /\ LoginTypeOK

(* The row locks a handler waits for, and who holds them.                   *)
WaitsFor(h) ==
    {k \in Credential :
        \/ h \in Request /\ pc[h] = "lockSession" /\ sessionLock[SessionOf(h)] = k
        \/ h \in Request /\ pc[h] = "lockAccount" /\ accountLock[AccountOf(h)] = k
        \/ h \in Session /\ loginPc[h] \in {"record", "create"}
                         /\ accountLock[target[h]] = k}

(* NoWaitCycle: some handler that holds a row is always able to go on: a    *)
(* refresh takes its session before its account and a login takes only the  *)
(* account, so no set of handlers waits only for one another.               *)
NoWaitCycle ==
    \A H \in (SUBSET Credential) \ {{}} : \E h \in H : WaitsFor(h) \cap H = {}

(* HolderIsInTransaction: a row lock is held only by a handler inside its   *)
(* transaction, so an answered, aborted or lost request blocks nobody.      *)
HolderIsInTransaction ==
    \A k \in Credential :
        (\E s \in Session : sessionLock[s] = k) \/ (\E a \in Account : accountLock[a] = k) =>
            \/ k \in Request /\ pc[k] \in {"lockAccount", "update"}
            \/ k \in Session /\ loginPc[k] = "insert"

(* LocksAreSound: the typed state and both promises about row locks.        *)
LocksAreSound == AuthTypeOK /\ NoWaitCycle /\ HolderIsInTransaction

(* Who holds a row lock: a refresh takes its session first, and a login     *)
(* takes no session.                                                        *)
LockHolders ==
    /\ \A s \in Session : sessionLock[s] # None =>
          sessionLock[s] \in Request /\ pc[sessionLock[s]] \in {"lockAccount", "update"}
    /\ \A a \in Account : accountLock[a] # None =>
          \/ accountLock[a] \in Request /\ pc[accountLock[a]] = "update"
          \/ accountLock[a] \in Session /\ loginPc[accountLock[a]] = "insert"

(* AuthInv: what the refresh handlers rely on also while logins interleave  *)
(* with them, what a login knows at each of its steps, and who locks what,  *)
(* are together inductive.                                                  *)
AuthInv == AuthTypeOK /\ Inv /\ LoginInv /\ LockHolders

(* AllAnswered: every refresh and every login that was received is          *)
(* answered, or its response is lost, however they contend for the row.     *)
AllAnswered == Answered /\ LoginAnswered

(* ContinuesAfterLogin: the token a live session can be continued with is   *)
(* with the client, on its way, or was lost with the response, counting     *)
(* from the login that opened the session.                                  *)
ContinuesAfterLogin ==
    \A s \in Session : Opened(s) /\ ~ Revoked(s) =>
        \E t \in Credential :
            /\ sessions[s].hash = Hash(t)
            /\ \/ t \in delivered
               \/ t \in Request /\ Rotated(t) /\ pc[t] \in {"respond", "lost"}
               \/ t \in Session /\ loginOutcome[t] = "created"
                                /\ loginPc[t] \in {"respond", "lost"}
=============================================================================
