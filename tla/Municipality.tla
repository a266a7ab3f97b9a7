---------------------------- MODULE Municipality -----------------------------
(***************************************************************************)
(* State and municipality of organisations and units:                      *)
(* isValidOrganizationMunicipalityCode of packages/common against the      *)
(* three CHECKs of the tables.  A CHECK passes when it is true or NULL,    *)
(* and the CASE over the states has no ELSE, so for an unknown state the   *)
(* third one is NULL and passes.                                           *)
(***************************************************************************)
EXTENDS Naturals

CONSTANTS Unknown    \* what is typed for a state, or a prefix, that does not exist

VARIABLES state,   \* the state as typed: untidy is lower case or with spaces around
          code     \* the municipality: its first two digits, and its format

vars == <<state, code>>

\* brazilianStateMunicipalityPrefixes.
Prefixes ==
    [AC |-> 12, AL |-> 27, AP |-> 16, AM |-> 13, BA |-> 29, CE |-> 23, DF |-> 53, ES |-> 32,
     GO |-> 52, MA |-> 21, MT |-> 51, MS |-> 50, MG |-> 31, PA |-> 15, PB |-> 25, PR |-> 41,
     PE |-> 26, PI |-> 22, RJ |-> 33, RN |-> 24, RS |-> 43, RO |-> 11, RR |-> 14, SC |-> 42,
     SP |-> 35, SE |-> 28, TO |-> 17]

States == DOMAIN Prefixes
MunicipalityCodes == [prefix : 0..99, sevenDigits : BOOLEAN]

Typed == [name : States \cup {Unknown}, untidy : BOOLEAN]

Init ==
    /\ state = [name |-> Unknown, untidy |-> FALSE]
    /\ code = [prefix |-> 0, sevenDigits |-> FALSE]

\* The state is typed first, then the code.
SetState(s) == code.prefix = 0 /\ state' = s /\ UNCHANGED code
SetCode(c) == code.prefix = 0 /\ code' = c /\ UNCHANGED state

Next == (\E s \in Typed : SetState(s)) \/ \E c \in MunicipalityCodes : SetCode(c)

Spec == Init /\ [][Next]_vars

-----------------------------------------------------------------------------
(* packages/common *)

NormalizeState(s) == [s EXCEPT !.untidy = FALSE]

IsBrazilianState(s) == s.name \in States /\ ~s.untidy

IsValidMunicipality(c, s) ==
    LET normalized == NormalizeState(s) IN
    /\ IsBrazilianState(normalized)
    /\ c.sevenDigits /\ c.prefix = Prefixes[normalized.name]

-----------------------------------------------------------------------------
(* packages/models *)

StateCheck(s) == IsBrazilianState(s)
CodeCheck(c) == c.sevenDigits
MunicipalityStateCheck(c, s) ==
    c.sevenDigits /\ IsBrazilianState(s) => c.prefix = Prefixes[s.name]

Stored(c, s) == StateCheck(s) /\ CodeCheck(c) /\ MunicipalityStateCheck(c, s)

-----------------------------------------------------------------------------

\* The application accepts a municipality for a state, however the state was
\* typed, exactly if the table stores it under the normalised state.
MunicipalityIsStorable ==
    IsValidMunicipality(code, state) <=> Stored(code, [state EXCEPT !.untidy = FALSE])

\* No municipality belongs to two states.
OneStatePerMunicipality ==
    \A s, t \in States : s # t =>
        ~(IsValidMunicipality(code, [name |-> s, untidy |-> FALSE])
          /\ IsValidMunicipality(code, [name |-> t, untidy |-> FALSE]))
=============================================================================
