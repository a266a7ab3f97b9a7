--------------------------- MODULE SessionFamily ---------------------------
(***************************************************************************)
(* What refresh-token rotation promises, without rows, locks or clocks     *)
(* (ADR-011): a session has one current credential; an exchange spends it  *)
(* and installs a fresh one; the session ends early only when somebody     *)
(* presents a credential that was already spent, and then for good.        *)
(***************************************************************************)
CONSTANTS Session, Credential, None

VARIABLES
    current,   \* the credential that can be exchanged, None before login
    spent,     \* the credentials that were exchanged
    ended      \* the sessions revoked after a reuse

vars == <<current, spent, ended>>

TypeOK ==
    /\ current \in [Session -> Credential \cup {None}]
    /\ spent \in [Session -> SUBSET Credential]
    /\ ended \subseteq Session

Init ==
    /\ current = [s \in Session |-> None]
    /\ spent = [s \in Session |-> {}]
    /\ ended = {}

(* A credential no session ever had.                                       *)
Fresh(t) == \A s \in Session : t # current[s] /\ t \notin spent[s]

Open(s, t) ==
    /\ current[s] = None
    /\ Fresh(t)
    /\ current' = [current EXCEPT ![s] = t]
    /\ UNCHANGED <<spent, ended>>

Exchange(s, t) ==
    /\ current[s] # None
    /\ s \notin ended
    /\ Fresh(t)
    /\ current' = [current EXCEPT ![s] = t]
    /\ spent' = [spent EXCEPT ![s] = @ \cup {current[s]}]
    /\ UNCHANGED ended

End(s, t) ==
    /\ t \in spent[s]
    /\ s \notin ended
    /\ ended' = ended \cup {s}
    /\ UNCHANGED <<current, spent>>

Next ==
    \E s \in Session, t \in Credential :
        Open(s, t) \/ Exchange(s, t) \/ End(s, t)

Spec == Init /\ [][Next]_vars
=============================================================================
