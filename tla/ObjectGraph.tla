----------------------------- MODULE ObjectGraph -----------------------------
(***************************************************************************)
(* A JavaScript value with shared references and cycles, as the code that  *)
(* walks one meets it: objects of several kinds with three fields each.    *)
(* It is built field by field, in any order.                               *)
(***************************************************************************)
EXTENDS Naturals, FiniteSets

CONSTANTS Objects,     \* the objects besides the root
          Root,
          Kinds,       \* kinds an object other than the root may have
          Leaves,      \* values that are not objects
          MaxFields    \* bound on the fields that are set

VARIABLES kind,    \* what each object is
          field    \* its fields; an array has no named, hence no private one

graph == <<kind, field>>

Nodes == Objects \cup {Root}
Keys == {"left", "right", "private"}

\* There are finitely many objects, and none is a leaf or a missing field.
ObjectsAreDistinct == IsFiniteSet(Nodes) /\ Nodes \cap (Leaves \cup {"absent"}) = {}

GraphInit ==
    /\ kind \in [Nodes -> Kinds \cup {"record"}] /\ kind[Root] = "record"
    /\ field = [o \in Nodes |-> [k \in Keys |-> "absent"]]

Slots == Nodes \X Keys
Present == {slot \in Slots : field[slot[1]][slot[2]] # "absent"}

Assign(o, k, v) ==
    /\ Cardinality(Present) < MaxFields
    /\ field[o][k] = "absent" /\ (kind[o] = "array" => k # "private")
    /\ field' = [field EXCEPT ![o][k] = v]
    /\ UNCHANGED kind

GraphNext == \E o \in Nodes, k \in Keys, v \in Leaves \cup Nodes : Assign(o, k, v)

\* The objects that o refers to through the fields in keys.
Children(o, keys) == {field[o][k] : k \in keys} \cap Nodes

\* The objects at the end of the walks of n steps that start in S.
After(S, keys, n) ==
    LET step[i \in 0..n] ==
            IF i = 0 THEN S ELSE UNION {Children(o, keys) : o \in step[i - 1]}
    IN step[n]

\* The objects that S leads to, S included.
Reachable(S, keys) == UNION {After(S, keys, n) : n \in 0..Cardinality(Nodes)}
=============================================================================
