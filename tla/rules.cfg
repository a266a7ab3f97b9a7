SPECIFICATION Spec
CONSTANTS
    MaxTyped = 5
    MaximumLength = 3
    Bases <- SampleBases
    Changed = {0, 1, 4, 9, 17, 42}
    Forms = {"plain", "masked", "lower"}
    Unknown = Unknown
    HeaderBytes = {0, 1, 2, 16, 32, 230}
    MaxDamaged = 1
    Objects = {x1, x2}
    Root = root
    MaxFields = 4
    MaxPayloadFields = 3
    MaxDepth = 2
    Accounts = {a1, a2}
    Organizations = {o1, o2}
    Units = {u1, u2}
    Members = {m1, m2}
    Roles = {r1}
    Grants = {g1, g2}
    Emails = {e1, e2}
    Subjects = {s1, s2}
    Cnpjs = {c1, c2}
    Codes = {k1, k2}
    NULL = NULL
    ScopeAccounts = {a1}
    ScopeEmails = {e1}
    ScopeSubjects = {}
SYMMETRY Symmetry
CHECK_DEADLOCK FALSE
INVARIANTS
    
    CodesAreUnambiguous
    ScopesAreCoherent
    IdentifiersAreUnique
    AcceptsWhatJsonKeeps
    LogsAreSafe
