--------------------------- MODULE LogSanitization ---------------------------
(***************************************************************************)
(* sanitizeLogValue of packages/plugins/logging: every argument of a log   *)
(* call, walked once.  The private field stands for a name that            *)
(* isSensitiveLogKey recognises; "throws" is a getter that fails, and a    *)
(* hostile object fails as soon as it is inspected (a revoked proxy).      *)
(* Errors, dates and buffers are replaced by a constant and behave like    *)
(* text; the limit of 100 entries is left out.                             *)
(***************************************************************************)
EXTENDS ObjectGraph, Sequences, SequencesExt

CONSTANTS MaxDepth    \* 8 in the code

Init == GraphInit
Next == GraphNext
Spec == Init /\ [][Next]_graph

-----------------------------------------------------------------------------
(* The walk.  Its state is the set of objects seen and what it has written *)
(* so far: pairs of a field and what stands there in the log.              *)

IsSensitiveAtTop(o, k) == k = "private" /\ o = Root    \* Slip: only the outermost names
IsSensitive(o, k) == k = "private"

Wrote(walk, o, k, what) == [walk EXCEPT !.written = Append(@, <<o, k, what>>)]

\* The catch around a field: what was written below it is lost.
Caught(walk, before, o, k) ==
    IF walk.thrown
    THEN Wrote([walk EXCEPT !.thrown = FALSE, !.written = before.written], o, k, "unserializable")
    ELSE walk

\* The value is an object whose fields are walked.  The WeakSet is shared by the
\* whole walk and nothing leaves it.
Opens(value, walk, depth) ==
    value \in Nodes /\ kind[value] # "hostile" /\ depth < MaxDepth /\ value \notin walk.seen

\* sanitizeLogValueInternal, for the value in field k of o, up to its fields.
SanitizeValue(o, k, walk, depth) ==
    LET value == field[o][k] IN
    IF Opens(value, walk, depth) THEN [walk EXCEPT !.seen = @ \cup {value}]
    ELSE IF value = "throws" \/ (value \in Nodes /\ kind[value] = "hostile")
    THEN [walk EXCEPT !.thrown = TRUE]
    ELSE Wrote(walk, o, k, IF value \notin Nodes THEN value
                           ELSE IF depth >= MaxDepth THEN "truncated" ELSE "circular")

Marks == {"redacted", "unserializable", "circular", "truncated"}
Walks == [seen : SUBSET Nodes, written : Seq(Nodes \X Keys \X (Leaves \cup Marks)),
          thrown : BOOLEAN]

\* The whole of it; below is sanitizeObject, for the fields of the value.
SanitizeInternal(below, o, k, walk, depth) ==
    LET found == SanitizeValue(o, k, walk, depth) IN
    IF Opens(field[o][k], walk, depth) THEN below[<<field[o][k], found, depth>>] ELSE found

\* One item of an array, or one turn of the loop over the names of a record.
SanitizeEntry(below, o, k, walk, depth) ==
    IF field[o][k] = "absent" \/ walk.thrown THEN walk
    ELSE IF kind[o] = "array" THEN SanitizeInternal(below, o, k, walk, depth + 1)
    ELSE IF IsSensitive(o, k) THEN Wrote(walk, o, k, "redacted")
    ELSE Caught(SanitizeInternal(below, o, k, walk, depth + 1), walk, o, k)

\* An array is copied before its items are walked, so a failing getter fails first.
SanitizeEntries(below, o, walk, depth) ==
    LET left == SanitizeEntry(below, o, "left", walk, depth)
        right == SanitizeEntry(below, o, "right", left, depth)
    IN IF kind[o] = "array" /\ \E k \in Keys : field[o][k] = "throws"
       THEN [walk EXCEPT !.thrown = TRUE]
       ELSE SanitizeEntry(below, o, "private", right, depth)

SanitizeObject[call \in Nodes \X Walks \X Nat] ==
    SanitizeEntries(SanitizeObject, call[1], call[2], call[3])

\* sanitizeLogValue of the root, an ordinary record.
Logged == SanitizeObject[<<Root, [seen |-> {Root}, written |-> <<>>, thrown |-> FALSE], 0>>]

-----------------------------------------------------------------------------
(* Properties *)

\* Nothing that only a sensitive name leads to is logged, however deep, and
\* no sensitive field is, though its object may be reached in other ways.
NothingSensitiveIsLogged ==
    LET open == Reachable({Root}, {"left", "right"}) IN
    \A entry \in Range(Logged.written) :
        entry[1] \in open /\ (entry[2] = "private" => entry[3] = "redacted")

\* Sharing does not multiply a log line: each field of each object is written
\* at most once, so a line grows with the objects and not with the paths.
WrittenOnce ==
    LET written == Logged.written IN
    \A i, j \in DOMAIN written :
        written[i][1] = written[j][1] /\ written[i][2] = written[j][2] => i = j

\* A value that cannot be read costs only itself and the array it is in: every
\* field of the root is in the log, with its text, its mark or its object.
RootSurvives ==
    LET walk == Logged IN
    /\ ~walk.thrown
    /\ \A k \in Keys : field[Root][k] # "absent" =>
        \/ \E entry \in Range(walk.written) : entry[1] = Root /\ entry[2] = k
        \/ k # "private" /\ field[Root][k] \in walk.seen
=============================================================================
