----------------------------- MODULE JobPayload ------------------------------
(***************************************************************************)
(* assertPayloadValue of packages/plugins/queues: what a producer may put  *)
(* into a job, and what the worker checks again after the payload has been *)
(* through JSON.  The private field stands for a name of                   *)
(* forbiddenPayloadKeys; the other leaves are text and a number that is    *)
(* not finite; an opaque object is a class instance, a function or the     *)
(* like.                                                                   *)
(***************************************************************************)
EXTENDS ObjectGraph

CONSTANTS MaxDepth    \* 12 in the code

Init == GraphInit
Next == GraphNext
Spec == Init /\ [][Next]_graph

-----------------------------------------------------------------------------

TooDeepOffByOne(depth) == depth > MaxDepth + 1    \* Slip: tested after the descent
TooDeep(depth) == depth > MaxDepth

Forbidden(o) == field[o]["private"] # "absent"

\* A visit is a value, its ancestors, which are the path from the payload to it,
\* and its depth.
Accepts[visit \in (Nodes \cup Leaves) \X (SUBSET Nodes) \X Nat] ==
    LET value == visit[1]
        ancestors == visit[2]
        depth == visit[3]
    IN
    /\ ~TooDeep(depth)
    /\ value # "nonFinite"
    /\ value \in Nodes =>
        /\ value \notin ancestors
        /\ kind[value] \in {"record", "array"}
        /\ ~Forbidden(value)
        /\ \A k \in Keys : field[value][k] # "absent" =>
               Accepts[<<field[value][k], ancestors \cup {value}, depth + 1>>]

\* parseJobEnvelope: the payload itself is a record.
Accepted == kind[Root] = "record" /\ Accepts[<<Root, {}, 0>>]

-----------------------------------------------------------------------------
(* Properties *)

\* Exactly the payloads that JSON keeps as they are pass: nothing that can be
\* reached leads back to itself, is special or has a forbidden name, and no
\* walk from the payload has more steps than the limit.  Sharing is allowed.
Serialisable ==
    LET reached == Reachable({Root}, Keys) IN
    /\ \A o \in reached :
        /\ o \notin Reachable(Children(o, Keys), Keys)
        /\ kind[o] \in {"record", "array"}
        /\ field[o]["private"] = "absent"
        /\ \A k \in Keys : field[o][k] # "nonFinite"
    /\ \A o \in After({Root}, Keys, MaxDepth), k \in Keys : field[o][k] = "absent"

AcceptsWhatJsonKeeps == Accepted <=> Serialisable
=============================================================================
