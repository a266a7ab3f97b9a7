------------------------------- MODULE JobLife -------------------------------
(***************************************************************************)
(* What the queue promises of one job id, without workers, locks or        *)
(* commands: publishing it twice is publishing it once, it is attempted a  *)
(* bounded number of times, it settles once, and only a settled job can be *)
(* discarded, which frees its id for a new life.                           *)
(***************************************************************************)
EXTENDS Naturals

CONSTANTS Keys, Limit

VARIABLES fate,   \* absent, pending, completed or failed
          runs    \* attempts started in the present life

lifeVars == <<fate, runs>>

Init ==
    /\ fate = [k \in Keys |-> "absent"]
    /\ runs = [k \in Keys |-> 0]

Publish(k) ==
    /\ fate[k] = "absent"
    /\ fate' = [fate EXCEPT ![k] = "pending"]
    /\ UNCHANGED runs

Attempt(k) ==
    /\ fate[k] = "pending"
    /\ runs[k] < Limit
    /\ runs' = [runs EXCEPT ![k] = @ + 1]
    /\ UNCHANGED fate

\* Only what was attempted can succeed.
Complete(k) ==
    /\ fate[k] = "pending"
    /\ runs[k] > 0
    /\ fate' = [fate EXCEPT ![k] = "completed"]
    /\ UNCHANGED runs

Fail(k) ==
    /\ fate[k] = "pending"
    /\ fate' = [fate EXCEPT ![k] = "failed"]
    /\ UNCHANGED runs

Discard(k) ==
    /\ fate[k] \in {"completed", "failed"}
    /\ fate' = [fate EXCEPT ![k] = "absent"]
    /\ runs' = [runs EXCEPT ![k] = 0]

Next == \E k \in Keys :
    Publish(k) \/ Attempt(k) \/ Complete(k) \/ Fail(k) \/ Discard(k)

Spec == Init /\ [][Next]_lifeVars
=============================================================================
