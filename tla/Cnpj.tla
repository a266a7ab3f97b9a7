-------------------------------- MODULE Cnpj ---------------------------------
(***************************************************************************)
(* The alphanumeric CNPJ: normalizeOrganizationCnpj and                    *)
(* isValidOrganizationCnpj of packages/common against the two CHECKs of    *)
(* the organizations table, which spell the weighted sums out again.       *)
(*                                                                         *)
(* A character is its code minus 48, the value the algorithm gives it:     *)
(* digits 0..9, upper case letters 17..42, lower case 49..74, and the      *)
(* characters of the mask below zero.                                      *)
(***************************************************************************)
EXTENDS Integers, Sequences, SequencesExt, FiniteSets

CONSTANTS Bases,        \* twelve-character roots to start from
          Changed,      \* values that one position of a root may be changed to
          Forms         \* how a client types it: "plain", "masked", "lower"

VARIABLES base, digits, form

vars == <<base, digits, form>>

Positions == 1..12
Digits == 0..9
Letters == 17..42
Mask == {-1, -2, -3, -16}    \* / . - and white space

\* What a root, a change to it and a form can be.
ParametersAreTyped ==
    /\ Bases \subseteq [Positions -> Digits \cup Letters]
    /\ Changed \subseteq Digits \cup Letters
    /\ Forms \subseteq {"plain", "masked", "lower"}

Init == base \in Bases /\ digits = <<0, 0>> /\ form \in Forms

\* At most one position differs from the root; the digits are typed last.
Change(i, c) ==
    /\ base \in Bases /\ digits = <<0, 0>>
    /\ base' = [base EXCEPT ![i] = c] /\ UNCHANGED <<digits, form>>
Choose(a, b) == digits = <<0, 0>> /\ digits' = <<a, b>> /\ UNCHANGED <<base, form>>

Next ==
    \/ \E i \in Positions, c \in Changed : Change(i, c)
    \/ \E a, b \in Digits : Choose(a, b)

Spec == Init /\ [][Next]_vars

\* The mask: white space, 2, 3, 3 and 4 characters, and the digits.
Layout == <<-16, 1, 2, -2, 3, 4, 5, -2, 6, 7, 8, -1, 9, 10, 11, 12, -3, 13, 14>>

\* What the client sends for a canonical value.
Typed(v) ==
    CASE form = "plain" -> v
      [] form = "lower" -> [i \in DOMAIN v |-> IF v[i] \in Letters THEN v[i] + 32 ELSE v[i]]
      [] form = "masked" -> [i \in DOMAIN Layout |->
                                IF Layout[i] \in Mask THEN Layout[i] ELSE v[Layout[i]]]

-----------------------------------------------------------------------------
(* packages/common/organizations *)

Upper(c) == IF c \in 49..74 THEN c - 32 ELSE c
NormalizeCnpj(v) ==
    LET kept[i \in 0..Len(v)] ==
            IF i = 0 THEN <<>>
            ELSE IF v[i] \in Mask THEN kept[i - 1] ELSE Append(kept[i - 1], Upper(v[i]))
    IN kept[Len(v)]

FirstWeights == <<5, 4, 3, 2, 9, 8, 7, 6, 5, 4, 3, 2>>
SecondWeights == <<6, 5, 4, 3, 2, 9, 8, 7, 6, 5, 4, 3, 2>>

WeightedSum(v, weights) ==
    LET sum[i \in 0..Len(v)] == IF i = 0 THEN 0 ELSE sum[i - 1] + v[i] * weights[i]
    IN sum[Len(v)]

CheckDigit(v, weights) ==
    LET remainder == WeightedSum(v, weights) % 11 IN
    IF remainder < 2 THEN 0 ELSE 11 - remainder

WellFormed(v) ==
    /\ Len(v) = 14
    /\ \A i \in 1..12 : v[i] \in Digits \cup Letters
    /\ \A i \in 13..14 : v[i] \in Digits
    /\ \E i \in 1..14 : v[i] # 0

IsValidCnpj(v) ==
    LET normalized == NormalizeCnpj(v)
        root == SubSeq(normalized, 1, 12)
        first == CheckDigit(root, FirstWeights)
        second == CheckDigit(Append(root, first), SecondWeights)
    IN WellFormed(normalized) /\ SubSeq(normalized, 13, 14) = <<first, second>>

-----------------------------------------------------------------------------
(* packages/models/organizations *)

\* One column of the CASE: the digit at position n for the sum of the n - 1
\* characters before it, the second sum reading the stored first digit.
SqlDigit(v, n, weights) ==
    LET sum == v[1] * weights[1] + v[2] * weights[2] + v[3] * weights[3] + v[4] * weights[4]
             + v[5] * weights[5] + v[6] * weights[6] + v[7] * weights[7] + v[8] * weights[8]
             + v[9] * weights[9] + v[10] * weights[10] + v[11] * weights[11] + v[12] * weights[12]
             + (IF n = 14 THEN v[13] * weights[13] ELSE 0)
        mod == sum % 11
    IN v[n] = IF mod < 2 THEN 0 ELSE 11 - mod

StoredCnpj(v) ==
    /\ WellFormed(v)
    /\ SqlDigit(v, 13, <<5, 4, 3, 2, 9, 8, 7, 6, 5, 4, 3, 2>>)
    /\ SqlDigit(v, 14, <<6, 5, 4, 3, 2, 9, 8, 7, 6, 5, 4, 3, 2>>)

-----------------------------------------------------------------------------
(* Properties *)

\* The validator and the table agree: whatever way a CNPJ is typed, the
\* application calls it valid exactly if its canonical form can be stored.
ValidIsStorable ==
    LET canonical == base \o digits
        typed == Typed(canonical)
    IN IF IsValidCnpj(typed) THEN StoredCnpj(canonical) /\ NormalizeCnpj(typed) = canonical
                             ELSE ~StoredCnpj(canonical)

\* Every root has exactly one pair of check digits, however the sums fall
\* around the remainders 0 and 1; only the root of zeros has none.
OnePairOfDigits ==
    digits = <<0, 0>> =>
        LET pairs == {pair \in Digits \X Digits : IsValidCnpj(base \o pair)} IN
        IF Range(base) = {0} THEN pairs = {} ELSE \E pair \in pairs : pairs = {pair}
=============================================================================
