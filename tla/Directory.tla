------------------------------ MODULE Directory ------------------------------
(***************************************************************************)
(* The relational model of packages/models: accounts, organizations,       *)
(* organization_units, organization_members, roles and account_roles, with *)
(* the constraints PostgreSQL enforces on every statement.  No use case of *)
(* this commit writes these tables apart from accounts, so a writer here   *)
(* is any statement: an insert, an update of any column, a soft delete, a  *)
(* restore or a physical delete.  What the constraints refuse is not a     *)
(* step; what they let through has to leave the tables coherent.           *)
(*                                                                         *)
(* Columns that no constraint between rows reads (names, addresses, flags, *)
(* versions) are left out; phone_e164 has the same partial index as        *)
(* email_normalized.  NULL is a value of its own.                          *)
(***************************************************************************)
EXTENDS Naturals, FiniteSets

CONSTANTS Accounts, Organizations, Units, Members, Roles, Grants,   \* primary keys
          Emails, Subjects, Cnpjs, Codes,                           \* column values
          NULL

VARIABLES accounts, organizations, units, members, roles, grants

vars == <<accounts, organizations, units, members, roles, grants>>

Opt(S) == S \cup {NULL}

\* A row of each table; live stands for deleted_at IS NULL.
\* subject is the external identity.
AccountRow == [email : Opt(Emails), password : BOOLEAN, subject : Opt(Subjects),
               live : BOOLEAN]
OrganizationRow == [cnpj : Cnpjs, live : BOOLEAN]
UnitRow == [organization : Organizations, code : Codes]
MemberRow == [account : Accounts, organization : Organizations, unit : Opt(Units)]
GrantRow == [account : Accounts, role : Roles,
             organization : Opt(Organizations), unit : Opt(Units)]

\* NULL is no primary key, no value of a column, and no row.
NullIsDistinct ==
    /\ NULL \notin Organizations \cup Units \cup Emails \cup Subjects
    /\ NULL \notin AccountRow \cup OrganizationRow \cup UnitRow \cup MemberRow \cup GrantRow

TypeOK ==
    /\ accounts \in [Accounts -> Opt(AccountRow)]
    /\ organizations \in [Organizations -> Opt(OrganizationRow)]
    /\ units \in [Units -> Opt(UnitRow)]
    /\ members \in [Members -> Opt(MemberRow)]
    /\ roles \subseteq Roles
    /\ grants \in [Grants -> Opt(GrantRow)]

Init ==
    /\ accounts = [a \in Accounts |-> NULL]
    /\ organizations = [o \in Organizations |-> NULL]
    /\ units = [u \in Units |-> NULL]
    /\ members = [m \in Members |-> NULL]
    /\ roles = {}
    /\ grants = [g \in Grants |-> NULL]

-----------------------------------------------------------------------------
(* Constraints of a row against the rest of the database *)

Rows(table) == {id \in DOMAIN table : table[id] # NULL}
Exists(table, id) == table[id] # NULL

\* No other row has the same value under key, NULL being equal to NULL.
Unique(table, id, row, Key(_)) ==
    \A other \in Rows(table) \ {id} : Key(table[other]) # Key(row)

\* accounts_identity_method_check.
HasIdentityMethod(row) == row.subject = NULL => row.email # NULL /\ row.password

\* Partial unique indexes on the identifiers of live accounts.
IdentifiersFreeAtInsert(a, row) ==    \* Slip: checked when a row is created, not when it changes
    accounts[a] = NULL /\ row.live => \A b \in Rows(accounts) : accounts[b].live =>
        /\ row.email # NULL => accounts[b].email # row.email
        /\ row.subject # NULL => accounts[b].subject # row.subject
IdentifiersFree(a, row) ==
    row.live => \A b \in Rows(accounts) \ {a} : accounts[b].live =>
        /\ row.email # NULL => accounts[b].email # row.email
        /\ row.subject # NULL => accounts[b].subject # row.subject

\* organizations_cnpj_key covers deleted rows too.
CnpjFree(o, row) == Unique(organizations, o, row, LAMBDA r : r.cnpj)

\* organization_units_organization_id_code_key and the key to organizations.
UnitAccepted(u, row) ==
    /\ Exists(organizations, row.organization)
    /\ Unique(units, u, row, LAMBDA r : <<r.organization, r.code>>)

\* MATCH SIMPLE: a composite foreign key with a NULL column is not checked.
UnitReferenced(organization, unit) ==
    NULL \notin {organization, unit} =>
        Exists(units, unit) /\ units[unit].organization = organization

\* organization_members: unique NULLS NOT DISTINCT, three foreign keys.
MemberAccepted(m, row) ==
    /\ Exists(accounts, row.account) /\ Exists(organizations, row.organization)
    /\ UnitReferenced(row.organization, row.unit)
    /\ Unique(members, m, row, LAMBDA r : r)

\* account_roles_scope_check: no unit without its organisation.
ScopeCheckMissing(row) == TRUE    \* Slip: the check is left out
ScopeCheck(row) == row.unit # NULL => row.organization # NULL

\* account_roles: unique NULLS NOT DISTINCT, four foreign keys, scope check.
GrantUnique(g, row) == Unique(grants, g, row, LAMBDA r : r)

GrantAccepted(g, row) ==
    /\ Exists(accounts, row.account) /\ row.role \in roles
    /\ (row.organization # NULL => Exists(organizations, row.organization))
    /\ UnitReferenced(row.organization, row.unit)
    /\ ScopeCheck(row)
    /\ GrantUnique(g, row)

\* The rows that reference a pair (organization, unit) of organization_units.
PairInUse(organization, unit) ==
    \/ \E m \in Rows(members) :
           members[m].organization = organization /\ members[m].unit = unit
    \/ \E g \in Rows(grants) :
           grants[g].organization = organization /\ grants[g].unit = unit

\* ON UPDATE NO ACTION: a referenced pair does not change.
KeepsPair(u, row) ==
    units[u] # NULL =>
        units[u].organization = row.organization \/ ~PairInUse(units[u].organization, u)

-----------------------------------------------------------------------------
(* Statements *)

PutAccount(a, row) ==
    /\ HasIdentityMethod(row) /\ IdentifiersFree(a, row)
    /\ accounts' = [accounts EXCEPT ![a] = row]
    /\ UNCHANGED <<organizations, units, members, roles, grants>>

PutOrganization(o, row) ==
    /\ CnpjFree(o, row)
    /\ organizations' = [organizations EXCEPT ![o] = row]
    /\ UNCHANGED <<accounts, units, members, roles, grants>>

PutUnit(u, row) ==
    /\ UnitAccepted(u, row) /\ KeepsPair(u, row)
    /\ units' = [units EXCEPT ![u] = row]
    /\ UNCHANGED <<accounts, organizations, members, roles, grants>>

PutMember(m, row) ==
    /\ MemberAccepted(m, row)
    /\ members' = [members EXCEPT ![m] = row]
    /\ UNCHANGED <<accounts, organizations, units, roles, grants>>

PutRole(r) ==
    /\ roles' = roles \cup {r}
    /\ UNCHANGED <<accounts, organizations, units, members, grants>>

PutGrant(g, row) ==
    /\ GrantAccepted(g, row)
    /\ grants' = [grants EXCEPT ![g] = row]
    /\ UNCHANGED <<accounts, organizations, units, members, roles>>

\* ON DELETE RESTRICT on every foreign key.
DeleteAccount(a) ==
    /\ Exists(accounts, a)
    /\ \A m \in Rows(members) : members[m].account # a
    /\ \A g \in Rows(grants) : grants[g].account # a
    /\ accounts' = [accounts EXCEPT ![a] = NULL]
    /\ UNCHANGED <<organizations, units, members, roles, grants>>

OrganizationUnused(o) ==
    /\ \A u \in Rows(units) : units[u].organization # o
    /\ \A m \in Rows(members) : members[m].organization # o
    /\ \A g \in Rows(grants) : grants[g].organization # o

DeleteOrganization(o) ==
    /\ Exists(organizations, o) /\ OrganizationUnused(o)
    /\ organizations' = [organizations EXCEPT ![o] = NULL]
    /\ UNCHANGED <<accounts, units, members, roles, grants>>

DeleteUnit(u) ==
    /\ Exists(units, u) /\ ~PairInUse(units[u].organization, u)
    /\ units' = [units EXCEPT ![u] = NULL]
    /\ UNCHANGED <<accounts, organizations, members, roles, grants>>

DeleteRole(r) ==
    /\ r \in roles /\ \A g \in Rows(grants) : grants[g].role # r
    /\ roles' = roles \ {r}
    /\ UNCHANGED <<accounts, organizations, units, members, grants>>

DeleteMember(m) ==
    /\ Exists(members, m)
    /\ members' = [members EXCEPT ![m] = NULL]
    /\ UNCHANGED <<accounts, organizations, units, roles, grants>>

DeleteGrant(g) ==
    /\ Exists(grants, g)
    /\ grants' = [grants EXCEPT ![g] = NULL]
    /\ UNCHANGED <<accounts, organizations, units, members, roles>>

Next ==
    \/ \E a \in Accounts : DeleteAccount(a) \/ \E row \in AccountRow : PutAccount(a, row)
    \/ \E o \in Organizations :
           DeleteOrganization(o) \/ \E row \in OrganizationRow : PutOrganization(o, row)
    \/ \E u \in Units : DeleteUnit(u) \/ \E row \in UnitRow : PutUnit(u, row)
    \/ \E m \in Members : DeleteMember(m) \/ \E row \in MemberRow : PutMember(m, row)
    \/ \E r \in Roles : DeleteRole(r) \/ PutRole(r)
    \/ \E g \in Grants : DeleteGrant(g) \/ \E row \in GrantRow : PutGrant(g, row)

Spec == Init /\ [][Next]_vars

-----------------------------------------------------------------------------
(* Properties *)

\* Whatever scope a membership or a role is granted in, the account, the role,
\* the organisation and the unit exist, and the unit is one of the
\* organisation, so that Operational has both rows to look at.
ScopesAreCoherent ==
    /\ \A m \in Rows(members) :
           /\ Exists(accounts, members[m].account)
           /\ Exists(organizations, members[m].organization)
    /\ \A g \in Rows(grants) :
           Exists(accounts, grants[g].account) /\ grants[g].role \in roles
    /\ \A row \in {members[m] : m \in Rows(members)} \cup {grants[g] : g \in Rows(grants)} :
           /\ row.organization # NULL => Exists(organizations, row.organization)
           /\ row.unit # NULL => /\ Exists(units, row.unit)
                                 /\ units[row.unit].organization = row.organization

\* What every statement keeps.
DirectoryInv == TypeOK /\ ScopesAreCoherent

\* An e-mail and an external identity each name at most one live account,
\* through inserts, changes of identifier, soft deletes and restores: the
\* account that a login looks up is the only one.
OneLiveAccountPerIdentifier ==
    \A a, b \in Rows(accounts) : a # b /\ accounts[a].live /\ accounts[b].live =>
        /\ accounts[a].email # NULL => accounts[a].email # accounts[b].email
        /\ accounts[a].subject # NULL => accounts[a].subject # accounts[b].subject

\* A soft-deleted organisation can be restored at any time: whatever other
\* organisations were created and changed since, none of them, live or deleted,
\* took its CNPJ.
RestoreIsAlwaysPossible ==
    \A o, p \in Rows(organizations) :
        organizations[o].cnpj = organizations[p].cnpj => o = p

\* Nobody holds the same role or membership twice in one scope, the global
\* scope and the whole organisation (NULL) included.
NoScopeTwice ==
    /\ \A g, h \in Rows(grants) : grants[g] = grants[h] => g = h
    /\ \A m, n \in Rows(members) : members[m] = members[n] => m = n
=============================================================================
