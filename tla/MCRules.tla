------------------------------ MODULE MCRules -------------------------------
(***************************************************************************)
(* The rules for single values, object graphs and rows, checked one subject *)
(* at a time: a behaviour chooses its subject and leaves the variables of  *)
(* the others alone.  The modules share nothing but this run.              *)
(***************************************************************************)
EXTENDS Naturals, Sequences, TLC

CONSTANTS MaxTyped, MaximumLength,               \* TextRules
          Bases, Changed, Forms,                 \* Cnpj
          Unknown,                               \* Municipality
          HeaderBytes, MaxDamaged,               \* UnitPosition
          Objects, Root, MaxFields, MaxDepth,    \* ObjectGraph (a payload has
          MaxPayloadFields,                      \* fewer fields: its check is per path)
          Organizations, Units, Members, Roles, Grants, Emails, Subjects, Cnpjs, Codes,
          Accounts, NULL,                        \* Directory
          ScopeAccounts, ScopeEmails, ScopeSubjects    \* bounds on the accounts while
                                                       \* scopes are the subject

VARIABLES subject, value, base, digits, form, state, code, origin, bytes, damaged,
          kind, field, accounts, organizations, units, members, roles, grants

\* A root of zeros, a numeric one and the published alphanumeric example.
SampleBases == {<<0, 0, 0, 0, 0, 0, 0, 0, 0, 0, 0, 0>>,
                <<1, 1, 2, 2, 2, 3, 3, 3, 0, 0, 0, 1>>,
                <<1, 2, 17, 18, 19, 3, 4, 5, 0, 1, 20, 21>>}

Text == INSTANCE TextRules
Number == INSTANCE Cnpj
City == INSTANCE Municipality
Point == INSTANCE UnitPosition
Payload == INSTANCE JobPayload WITH
    Kinds <- {"record", "array", "opaque"}, Leaves <- {"text", "nonFinite"},
    MaxFields <- MaxPayloadFields
Logs == INSTANCE LogSanitization WITH
    Kinds <- {"record", "array", "hostile"}, Leaves <- {"text", "throws"}

Tables == INSTANCE Directory

ASSUME NullAssumption == Tables!NullIsDistinct
ASSUME CnpjAssumption == Number!ParametersAreTyped
ASSUME TextAssumption == Text!MaximumIsPositive
ASSUME GraphAssumption ==
    Payload!ObjectsAreDistinct /\ Logs!ObjectsAreDistinct /\ MaxDepth \in Nat

registration == <<value, base, digits, form, state, code, origin, bytes, damaged>>
tables == <<accounts, organizations, units, members, roles, grants>>
graph == <<kind, field>>
vars == <<subject, registration, tables, graph>>

Init ==
    /\ subject \in {"text", "cnpj", "city", "point", "payload", "log", "scopes", "identity"}
    /\ Text!Init /\ City!Init
    /\ IF subject = "cnpj" THEN Number!Init ELSE base = <<>> /\ digits = <<>> /\ form = "plain"
    /\ IF subject = "point" THEN Point!Init ELSE origin = <<>> /\ bytes = <<>> /\ damaged = {}
    /\ CASE subject = "payload" -> Payload!Init
         [] subject = "log" -> Logs!Init
         [] OTHER -> kind = <<>> /\ field = <<>>
    /\ Tables!Init

\* The tables are the subject twice: scopes of few accounts, which the bounds
\* choose, and identities of all accounts without scopes.
FewIdentities ==
    \A a \in Tables!Rows(accounts) :
        /\ a \in ScopeAccounts
        /\ accounts[a].email \in ScopeEmails \cup {NULL}
        /\ accounts[a].subject \in ScopeSubjects \cup {NULL}

NoScopes == Tables!Rows(units) = {} /\ roles = {} /\ Tables!Rows(members) = {}

Next ==
    /\ UNCHANGED subject
    /\ \/ /\ subject = "text" /\ Text!Next
          /\ UNCHANGED <<base, digits, form, state, code, origin, bytes, damaged, tables, graph>>
       \/ /\ subject = "cnpj" /\ Number!Next
          /\ UNCHANGED <<value, state, code, origin, bytes, damaged, tables, graph>>
       \/ /\ subject = "city" /\ City!Next
          /\ UNCHANGED <<value, base, digits, form, origin, bytes, damaged, tables, graph>>
       \/ /\ subject = "point" /\ Point!Next
          /\ UNCHANGED <<value, base, digits, form, state, code, tables, graph>>
       \/ subject = "payload" /\ Payload!Next /\ UNCHANGED <<registration, tables>>
       \/ subject = "log" /\ Logs!Next /\ UNCHANGED <<registration, tables>>
       \/ subject = "scopes" /\ Tables!Next /\ FewIdentities' /\ UNCHANGED <<registration, graph>>
       \/ subject = "identity" /\ Tables!Next /\ NoScopes' /\ UNCHANGED <<registration, graph>>

Spec == Init /\ [][Next]_vars

Symmetry ==
    UNION {Permutations(S) : S \in {Objects, Organizations, Units, Members, Grants}}

-----------------------------------------------------------------------------
(* Properties: those of the modules, by the question they answer *)

\* What packages/common lets through, normalised, the CHECKs of packages/models
\* store, and what it refuses they do not: names, texts of memberships,
\* metadata of sessions, e-mails at login, CNPJs and municipalities.  The
\* exceptions are exact: metadata with a C1 control or cut after a space, and
\* keys of words that end in a capital sigma.
AcceptedIsStorable ==
    /\ subject = "text" => /\ Text!NormalisedNameIsStorable /\ Text!MemberRulesAgree
                           /\ Text!MetadataRefusedInTwoCases /\ Text!LookupFindsStoredEmail
    /\ subject = "cnpj" => Number!ValidIsStorable
    /\ subject = "city" => City!MunicipalityIsStorable

\* A code has one meaning: a root has one pair of check digits, a municipality
\* one state, and the bytes of a position are read as the point that was
\* written or refused.
CodesAreUnambiguous ==
    /\ subject = "cnpj" => Number!OnePairOfDigits
    /\ subject = "city" => City!OneStatePerMunicipality
    /\ subject = "point" => Point!RoundTrip /\ Point!TruncationIsNoticed

\* Whatever statements have been executed, memberships and roles refer to rows
\* that exist and belong together, and nobody holds one twice in a scope.
ScopesAreCoherent == Tables!DirectoryInv /\ Tables!NoScopeTwice

\* Whatever statements have been executed, an identifier names at most one
\* live account, and a deleted organisation can be restored.
IdentifiersAreUnique ==
    Tables!OneLiveAccountPerIdentifier /\ Tables!RestoreIsAlwaysPossible

\* A payload is published exactly if JSON keeps it as it is and the worker's
\* second check will accept it, with shared objects, cycles and all.
AcceptsWhatJsonKeeps == subject = "payload" => Payload!AcceptsWhatJsonKeeps

\* A log line shows nothing sensitive, grows with the objects and not with the
\* paths to them, and survives values that cannot be read.
LogsAreSafe ==
    subject = "log" =>
        Logs!NothingSensitiveIsLogged /\ Logs!WrittenOnce /\ Logs!RootSurvives
=============================================================================
