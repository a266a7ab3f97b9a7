----------------------------- MODULE RulesProofs -----------------------------
(***************************************************************************)
(* Proofs about the tables, with any number of rows and values, and about   *)
(* graphs of any number of objects: what the constraints let through leaves *)
(* the tables coherent, a payload is judged as JSON would, and a log line   *)
(* shows nothing sensitive.                                                 *)
(***************************************************************************)
EXTENDS ValuesProofs, FiniteSetTheorems

(* A step of a run about anything else leaves the tables alone.             *)
LEMMA TablesStep == [Next]_vars => [Tables!Next]_(Tables!vars)
BY DEF Next, vars, tables, Tables!vars

-----------------------------------------------------------------------------
(* A row refers to rows that exist                                          *)

LEMMA DirectoryInvInit == Tables!Init => Tables!DirectoryInv
BY DEF Tables!Init, Tables!DirectoryInv, Tables!TypeOK, Tables!ScopesAreCoherent,
       Tables!Rows, Tables!Opt

(* A statement on one table keeps the types of all.                         *)
LEMMA TypeStep == Tables!TypeOK /\ [Tables!Next]_(Tables!vars) => Tables!TypeOK'
<1> SUFFICES ASSUME Tables!TypeOK, [Tables!Next]_(Tables!vars)
             PROVE  Tables!TypeOK'
  OBVIOUS
<1> USE DEF Tables!TypeOK, Tables!Next, Tables!vars, Tables!Opt, Tables!PutAccount,
            Tables!PutOrganization, Tables!PutUnit, Tables!PutMember,
            Tables!PutRole, Tables!PutGrant, Tables!DeleteAccount,
            Tables!DeleteOrganization, Tables!DeleteUnit, Tables!DeleteRole,
            Tables!DeleteMember, Tables!DeleteGrant
<1>1. accounts' \in [Accounts -> Tables!Opt(Tables!AccountRow)]
  OBVIOUS
<1>2. organizations' \in [Organizations -> Tables!Opt(Tables!OrganizationRow)]
  OBVIOUS
<1>3. units' \in [Units -> Tables!Opt(Tables!UnitRow)]
  OBVIOUS
<1>4. members' \in [Members -> Tables!Opt(Tables!MemberRow)]
  OBVIOUS
<1>5. roles' \subseteq Roles
  OBVIOUS
<1>6. grants' \in [Grants -> Tables!Opt(Tables!GrantRow)]
  OBVIOUS
<1> QED BY <1>1, <1>2, <1>3, <1>4, <1>5, <1>6

(* The references of one row, over the tables as they are.                  *)
MemberCoherent(row) ==
    /\ Tables!Exists(accounts, row.account)
    /\ Tables!Exists(organizations, row.organization)
    /\ row.unit # NULL => /\ Tables!Exists(units, row.unit)
                          /\ units[row.unit].organization = row.organization

GrantCoherent(row) ==
    /\ Tables!Exists(accounts, row.account)
    /\ row.role \in roles
    /\ row.organization # NULL => Tables!Exists(organizations, row.organization)
    /\ row.unit # NULL => /\ Tables!Exists(units, row.unit)
                          /\ units[row.unit].organization = row.organization

RowsCoherent ==
    /\ \A m \in Members : members[m] # NULL => MemberCoherent(members[m])
    /\ \A g \in Grants : grants[g] # NULL => GrantCoherent(grants[g])

LEMMA CoherentRowByRow == Tables!TypeOK => (Tables!ScopesAreCoherent <=> RowsCoherent)
<1> SUFFICES ASSUME Tables!TypeOK
             PROVE  Tables!ScopesAreCoherent <=> RowsCoherent
  OBVIOUS
<1>1. Tables!Rows(members) = {m \in Members : members[m] # NULL}
  BY DEF Tables!TypeOK, Tables!Rows
<1>2. Tables!Rows(grants) = {g \in Grants : grants[g] # NULL}
  BY DEF Tables!TypeOK, Tables!Rows
<1>3. ASSUME Tables!ScopesAreCoherent
      PROVE  RowsCoherent
  BY <1>1, <1>2, <1>3 DEF Tables!ScopesAreCoherent, RowsCoherent, MemberCoherent,
                          GrantCoherent
<1>4. ASSUME RowsCoherent
      PROVE  Tables!ScopesAreCoherent
  <2>1. \A m \in Tables!Rows(members) : MemberCoherent(members[m])
    BY <1>1, <1>4 DEF RowsCoherent
  <2>2. \A g \in Tables!Rows(grants) : GrantCoherent(grants[g])
    BY <1>2, <1>4 DEF RowsCoherent
  <2> QED
    BY <2>1, <2>2 DEF Tables!ScopesAreCoherent, MemberCoherent, GrantCoherent
<1> QED BY <1>3, <1>4

(* What a foreign key lets through refers to a unit of the organisation.    *)
LEMMA MemberRowStep ==
    ASSUME Tables!TypeOK, NEW m \in Members, NEW row \in Tables!MemberRow,
           Tables!MemberAccepted(m, row)
    PROVE  MemberCoherent(row)
BY NullAssumption DEF Tables!NullIsDistinct, Tables!MemberAccepted, MemberCoherent,
                      Tables!UnitReferenced, Tables!MemberRow, Tables!Opt

LEMMA GrantRowStep ==
    ASSUME Tables!TypeOK, NEW g \in Grants, NEW row \in Tables!GrantRow,
           Tables!GrantAccepted(g, row)
    PROVE  GrantCoherent(row)
BY NullAssumption DEF Tables!NullIsDistinct, Tables!GrantAccepted, GrantCoherent,
                      Tables!UnitReferenced, Tables!ScopeCheck, Tables!GrantRow,
                      Tables!Opt

LEMMA CoherentStep ==
    ASSUME Tables!TypeOK, RowsCoherent, [Tables!Next]_(Tables!vars)
    PROVE  RowsCoherent'
<1>1. ASSUME NEW a \in Accounts, NEW row \in Tables!AccountRow,
             Tables!PutAccount(a, row)
      PROVE  RowsCoherent'
  <2>1. \A b : Tables!Exists(accounts, b) /\ b \in Accounts => Tables!Exists(accounts', b)
    BY <1>1, NullAssumption DEF Tables!NullIsDistinct, Tables!PutAccount,
                                Tables!TypeOK, Tables!Exists
  <2> QED
    BY <1>1, <2>1 DEF Tables!PutAccount, Tables!TypeOK, RowsCoherent,
                      MemberCoherent, GrantCoherent, Tables!MemberRow,
                      Tables!GrantRow, Tables!Opt
<1>2. ASSUME NEW o \in Organizations, NEW row \in Tables!OrganizationRow,
             Tables!PutOrganization(o, row)
      PROVE  RowsCoherent'
  <2>1. \A p : Tables!Exists(organizations, p) /\ p \in Organizations
                => Tables!Exists(organizations', p)
    BY <1>2, NullAssumption DEF Tables!NullIsDistinct, Tables!PutOrganization,
                                Tables!TypeOK, Tables!Exists
  <2> QED
    BY <1>2, <2>1 DEF Tables!PutOrganization, Tables!TypeOK, RowsCoherent,
                      MemberCoherent, GrantCoherent, Tables!MemberRow,
                      Tables!GrantRow, Tables!Opt
<1>3. ASSUME NEW u \in Units, NEW row \in Tables!UnitRow, Tables!PutUnit(u, row)
      PROVE  RowsCoherent'
  <2>1. units' = [units EXCEPT ![u] = row] /\ row # NULL
    BY <1>3, NullAssumption DEF Tables!NullIsDistinct, Tables!PutUnit
  <2>2. units[u] = NULL \/ units[u].organization = row.organization
          \/ ~Tables!PairInUse(units[u].organization, u)
    BY <1>3 DEF Tables!PutUnit, Tables!KeepsPair
  <2>3. ASSUME NEW m \in Members, members[m] # NULL, MemberCoherent(members[m]),
               members[m].unit = u
        PROVE  units[u].organization = row.organization /\ units[u] # NULL
    BY <2>2, <2>3, NullAssumption
       DEF Tables!NullIsDistinct, MemberCoherent, Tables!PairInUse, Tables!Rows,
           Tables!Exists, Tables!TypeOK
  <2>4. ASSUME NEW g \in Grants, grants[g] # NULL, GrantCoherent(grants[g]),
               grants[g].unit = u
        PROVE  units[u].organization = row.organization /\ units[u] # NULL
    BY <2>2, <2>4, NullAssumption
       DEF Tables!NullIsDistinct, GrantCoherent, Tables!PairInUse, Tables!Rows,
           Tables!Exists, Tables!TypeOK
  <2>5. UNCHANGED <<accounts, organizations, members, roles, grants>>
    BY <1>3 DEF Tables!PutUnit
  <2>6. ASSUME NEW m \in Members, members[m] # NULL
        PROVE  MemberCoherent(members[m])'
    <3>1. MemberCoherent(members[m]) /\ members[m].unit \in Tables!Opt(Units)
      BY <2>6 DEF RowsCoherent, Tables!TypeOK, Tables!Opt, Tables!MemberRow
    <3> QED BY <2>1, <2>3, <2>5, <2>6, <3>1 DEF MemberCoherent, Tables!Exists,
                                                Tables!TypeOK, Tables!Opt
  <2>7. ASSUME NEW g \in Grants, grants[g] # NULL
        PROVE  GrantCoherent(grants[g])'
    <3>1. GrantCoherent(grants[g]) /\ grants[g].unit \in Tables!Opt(Units)
      BY <2>7 DEF RowsCoherent, Tables!TypeOK, Tables!Opt, Tables!GrantRow
    <3> QED BY <2>1, <2>4, <2>5, <2>7, <3>1 DEF GrantCoherent, Tables!Exists,
                                                Tables!TypeOK, Tables!Opt
  <2> QED BY <2>5, <2>6, <2>7 DEF RowsCoherent
<1>4. ASSUME NEW m \in Members, NEW row \in Tables!MemberRow, Tables!PutMember(m, row)
      PROVE  RowsCoherent'
  BY <1>4, MemberRowStep DEF Tables!PutMember, Tables!TypeOK, RowsCoherent,
                             MemberCoherent, GrantCoherent, Tables!Exists
<1>5. ASSUME NEW g \in Grants, NEW row \in Tables!GrantRow, Tables!PutGrant(g, row)
      PROVE  RowsCoherent'
  BY <1>5, GrantRowStep DEF Tables!PutGrant, Tables!TypeOK, RowsCoherent,
                            MemberCoherent, GrantCoherent, Tables!Exists
<1>6. ASSUME NEW r \in Roles, Tables!PutRole(r) \/ Tables!DeleteRole(r)
      PROVE  RowsCoherent'
  BY <1>6 DEF Tables!PutRole, Tables!DeleteRole, Tables!TypeOK, RowsCoherent,
              MemberCoherent, GrantCoherent, Tables!Exists, Tables!Rows
<1>7. ASSUME NEW a \in Accounts, Tables!DeleteAccount(a)
      PROVE  RowsCoherent'
  BY <1>7 DEF Tables!DeleteAccount, Tables!TypeOK, RowsCoherent, MemberCoherent,
              GrantCoherent, Tables!Exists, Tables!Rows
<1>8. ASSUME NEW o \in Organizations, Tables!DeleteOrganization(o)
      PROVE  RowsCoherent'
  BY <1>8 DEF Tables!DeleteOrganization, Tables!OrganizationUnused, Tables!TypeOK,
              RowsCoherent, MemberCoherent, GrantCoherent, Tables!Exists,
              Tables!Rows
<1>9. ASSUME NEW u \in Units, Tables!DeleteUnit(u)
      PROVE  RowsCoherent'
  BY <1>9 DEF Tables!DeleteUnit, Tables!PairInUse, Tables!TypeOK, RowsCoherent,
              MemberCoherent, GrantCoherent, Tables!Exists, Tables!Rows
<1>10. ASSUME NEW m \in Members, Tables!DeleteMember(m)
       PROVE  RowsCoherent'
  BY <1>10 DEF Tables!DeleteMember, Tables!TypeOK, RowsCoherent, MemberCoherent,
               GrantCoherent, Tables!Exists
<1>11. ASSUME NEW g \in Grants, Tables!DeleteGrant(g)
       PROVE  RowsCoherent'
  BY <1>11 DEF Tables!DeleteGrant, Tables!TypeOK, RowsCoherent, MemberCoherent,
               GrantCoherent, Tables!Exists
<1>12. CASE UNCHANGED Tables!vars
  BY <1>12 DEF Tables!vars, RowsCoherent, MemberCoherent, GrantCoherent,
               Tables!Exists
<1> QED
  BY <1>1, <1>2, <1>3, <1>4, <1>5, <1>6, <1>7, <1>8, <1>9, <1>10, <1>11, <1>12
     DEF Tables!Next

LEMMA DirectoryInvStep ==
    Tables!DirectoryInv /\ [Tables!Next]_(Tables!vars) => Tables!DirectoryInv'
<1> SUFFICES ASSUME Tables!DirectoryInv, [Tables!Next]_(Tables!vars)
             PROVE  Tables!DirectoryInv'
  OBVIOUS
<1>1. Tables!TypeOK /\ Tables!TypeOK'
  BY TypeStep DEF Tables!DirectoryInv
<1>2. RowsCoherent
  BY <1>1, CoherentRowByRow DEF Tables!DirectoryInv
<1>3. RowsCoherent'
  BY <1>1, <1>2, CoherentStep
<1>4. Tables!TypeOK' => (Tables!ScopesAreCoherent' <=> RowsCoherent')
  BY CoherentRowByRow, PTL
<1> QED BY <1>1, <1>3, <1>4 DEF Tables!DirectoryInv

-----------------------------------------------------------------------------
(* No two rows with the same identifier                                     *)

UniqueInv ==
    /\ Tables!TypeOK
    /\ Tables!NoScopeTwice
    /\ Tables!OneLiveAccountPerIdentifier
    /\ Tables!RestoreIsAlwaysPossible

LEMMA UniqueInvInit == Tables!Init => UniqueInv
BY DEF Tables!Init, UniqueInv, Tables!TypeOK, Tables!Opt, Tables!Rows,
       Tables!NoScopeTwice, Tables!OneLiveAccountPerIdentifier,
       Tables!RestoreIsAlwaysPossible

(* One row of a table is replaced by a row that is like no other.           *)
LEMMA PutKeepsUnique ==
    ASSUME NEW S, NEW table, DOMAIN table = S, NEW id \in S, NEW row, row # NULL,
           \A i, j \in Tables!Rows(table) : table[i] = table[j] => i = j,
           \A other \in Tables!Rows(table) \ {id} : table[other] # row
    PROVE  LET after == [table EXCEPT ![id] = row] IN
           \A i, j \in Tables!Rows(after) : after[i] = after[j] => i = j
BY DEF Tables!Rows

LEMMA DeleteKeepsUnique ==
    ASSUME NEW S, NEW table, DOMAIN table = S, NEW id \in S,
           \A i, j \in Tables!Rows(table) : table[i] = table[j] => i = j
    PROVE  LET after == [table EXCEPT ![id] = NULL] IN
           \A i, j \in Tables!Rows(after) : after[i] = after[j] => i = j
BY DEF Tables!Rows

LEMMA NoScopeTwiceStep ==
    ASSUME Tables!TypeOK, Tables!NoScopeTwice, [Tables!Next]_(Tables!vars)
    PROVE  Tables!NoScopeTwice'
<1>1. DOMAIN members = Members /\ DOMAIN grants = Grants
  BY DEF Tables!TypeOK
<1>2. ASSUME NEW m \in Members, NEW row \in Tables!MemberRow, Tables!PutMember(m, row)
      PROVE  Tables!NoScopeTwice'
  <2>1. \A other \in Tables!Rows(members) \ {m} : members[other] # row
    BY <1>2 DEF Tables!PutMember, Tables!MemberAccepted, Tables!Unique
  <2>2. row # NULL
    BY NullAssumption DEF Tables!NullIsDistinct
  <2> QED
    BY <1>1, <1>2, <2>1, <2>2, PutKeepsUnique DEF Tables!PutMember,
                                                  Tables!NoScopeTwice, Tables!Rows
<1>3. ASSUME NEW g \in Grants, NEW row \in Tables!GrantRow, Tables!PutGrant(g, row)
      PROVE  Tables!NoScopeTwice'
  <2>1. \A other \in Tables!Rows(grants) \ {g} : grants[other] # row
    BY <1>3 DEF Tables!PutGrant, Tables!GrantAccepted, Tables!GrantUnique,
                Tables!Unique
  <2>2. row # NULL
    BY NullAssumption DEF Tables!NullIsDistinct
  <2> QED
    BY <1>1, <1>3, <2>1, <2>2, PutKeepsUnique DEF Tables!PutGrant,
                                                  Tables!NoScopeTwice, Tables!Rows
<1>4. ASSUME NEW m \in Members, Tables!DeleteMember(m)
      PROVE  Tables!NoScopeTwice'
  BY <1>1, <1>4, DeleteKeepsUnique DEF Tables!DeleteMember, Tables!NoScopeTwice,
                                       Tables!Rows
<1>5. ASSUME NEW g \in Grants, Tables!DeleteGrant(g)
      PROVE  Tables!NoScopeTwice'
  BY <1>1, <1>5, DeleteKeepsUnique DEF Tables!DeleteGrant, Tables!NoScopeTwice,
                                       Tables!Rows
<1>6. CASE UNCHANGED <<members, grants>>
  BY <1>6 DEF Tables!NoScopeTwice, Tables!Rows
<1> QED
  BY <1>2, <1>3, <1>4, <1>5, <1>6
     DEF Tables!Next, Tables!vars, Tables!PutAccount, Tables!PutOrganization,
         Tables!PutUnit, Tables!PutRole, Tables!DeleteAccount,
         Tables!DeleteOrganization, Tables!DeleteUnit, Tables!DeleteRole

LEMMA OneLiveAccountStep ==
    ASSUME Tables!TypeOK, Tables!OneLiveAccountPerIdentifier,
           [Tables!Next]_(Tables!vars)
    PROVE  Tables!OneLiveAccountPerIdentifier'
<1>1. ASSUME NEW a \in Accounts, NEW row \in Tables!AccountRow,
             Tables!PutAccount(a, row)
      PROVE  Tables!OneLiveAccountPerIdentifier'
  <2> SUFFICES ASSUME NEW b \in Tables!Rows(accounts)',
                      NEW c \in Tables!Rows(accounts)', b # c,
                      accounts'[b].live, accounts'[c].live
               PROVE  /\ accounts'[b].email # NULL => accounts'[b].email # accounts'[c].email
                      /\ accounts'[b].subject # NULL =>
                            accounts'[b].subject # accounts'[c].subject
    BY DEF Tables!OneLiveAccountPerIdentifier
  <2>1. accounts' = [accounts EXCEPT ![a] = row] /\ DOMAIN accounts = Accounts
    BY <1>1 DEF Tables!PutAccount, Tables!TypeOK
  <2>2. Tables!IdentifiersFree(a, row)
    BY <1>1 DEF Tables!PutAccount
  <2>3. \A i \in {b, c} : i # a => i \in Tables!Rows(accounts) /\ accounts'[i] = accounts[i]
    BY <2>1 DEF Tables!Rows
  <2>4. \A i \in {b, c} : i = a => accounts'[i] = row
    BY <2>1 DEF Tables!Rows
  <2>5. CASE b = a \/ c = a
    BY <2>2, <2>3, <2>4, <2>5 DEF Tables!IdentifiersFree
  <2>6. CASE b # a /\ c # a
    BY <2>3, <2>6 DEF Tables!OneLiveAccountPerIdentifier
  <2> QED BY <2>5, <2>6
<1>2. ASSUME NEW a \in Accounts, Tables!DeleteAccount(a)
      PROVE  Tables!OneLiveAccountPerIdentifier'
  BY <1>2 DEF Tables!DeleteAccount, Tables!TypeOK,
              Tables!OneLiveAccountPerIdentifier, Tables!Rows
<1>3. CASE UNCHANGED accounts
  BY <1>3 DEF Tables!OneLiveAccountPerIdentifier, Tables!Rows
<1> QED
  BY <1>1, <1>2, <1>3
     DEF Tables!Next, Tables!vars, Tables!PutOrganization, Tables!PutUnit,
         Tables!PutMember, Tables!PutRole, Tables!PutGrant,
         Tables!DeleteOrganization, Tables!DeleteUnit, Tables!DeleteRole,
         Tables!DeleteMember, Tables!DeleteGrant

LEMMA RestoreStep ==
    ASSUME Tables!TypeOK, Tables!RestoreIsAlwaysPossible, [Tables!Next]_(Tables!vars)
    PROVE  Tables!RestoreIsAlwaysPossible'
<1>1. ASSUME NEW o \in Organizations, NEW row \in Tables!OrganizationRow,
             Tables!PutOrganization(o, row)
      PROVE  Tables!RestoreIsAlwaysPossible'
  <2>1. \A p \in Tables!Rows(organizations) \ {o} : organizations[p].cnpj # row.cnpj
    BY <1>1 DEF Tables!PutOrganization, Tables!CnpjFree, Tables!Unique
  <2>2. /\ organizations' = [organizations EXCEPT ![o] = row]
        /\ DOMAIN organizations = Organizations
    BY <1>1 DEF Tables!PutOrganization, Tables!TypeOK
  <2>3. \A p \in Tables!Rows(organizations)' :
          /\ p # o => p \in Tables!Rows(organizations) /\ organizations'[p] = organizations[p]
          /\ p = o => organizations'[p] = row
    BY <2>2 DEF Tables!Rows
  <2> SUFFICES ASSUME NEW p \in Tables!Rows(organizations)',
                      NEW q \in Tables!Rows(organizations)',
                      organizations'[p].cnpj = organizations'[q].cnpj
               PROVE  p = q
    BY DEF Tables!RestoreIsAlwaysPossible
  <2>4. CASE p = o \/ q = o
    BY <2>1, <2>3, <2>4
  <2>5. CASE p # o /\ q # o
    BY <2>3, <2>5 DEF Tables!RestoreIsAlwaysPossible
  <2> QED BY <2>4, <2>5
<1>2. ASSUME NEW o \in Organizations, Tables!DeleteOrganization(o)
      PROVE  Tables!RestoreIsAlwaysPossible'
  BY <1>2 DEF Tables!DeleteOrganization, Tables!TypeOK,
              Tables!RestoreIsAlwaysPossible, Tables!Rows
<1>3. CASE UNCHANGED organizations
  BY <1>3 DEF Tables!RestoreIsAlwaysPossible, Tables!Rows
<1> QED
  BY <1>1, <1>2, <1>3
     DEF Tables!Next, Tables!vars, Tables!PutAccount, Tables!PutUnit,
         Tables!PutMember, Tables!PutRole, Tables!PutGrant, Tables!DeleteAccount,
         Tables!DeleteUnit, Tables!DeleteRole, Tables!DeleteMember,
         Tables!DeleteGrant

LEMMA UniqueInvStep ==
    UniqueInv /\ [Tables!Next]_(Tables!vars) => UniqueInv'
BY TypeStep, NoScopeTwiceStep, OneLiveAccountStep, RestoreStep DEF UniqueInv

LEMMA TablesSafety == Spec => [](Tables!DirectoryInv /\ UniqueInv)
<1>1. Init => Tables!DirectoryInv /\ UniqueInv
  BY DirectoryInvInit, UniqueInvInit DEF Init
<1>2. Tables!DirectoryInv /\ UniqueInv /\ [Next]_vars
        => (Tables!DirectoryInv /\ UniqueInv)'
  BY TablesStep, DirectoryInvStep, UniqueInvStep
<1> QED BY <1>1, <1>2, PTL DEF Spec

(* Whatever statements are executed, every membership and every role refers *)
(* to an account, an organisation and a unit of it that exist, and nobody   *)
(* holds one twice in a scope, NULL included: scope check, MATCH SIMPLE     *)
(* keys, NULLS NOT DISTINCT and RESTRICT suffice together.                  *)
THEOREM ScopesStayCoherent == Spec => []ScopesAreCoherent
<1>1. Tables!DirectoryInv /\ UniqueInv => ScopesAreCoherent
  BY DEF UniqueInv, ScopesAreCoherent
<1> QED BY <1>1, TablesSafety, PTL

(* The account that a login finds by e-mail, or an identity provider by its *)
(* subject, is the only live one, whatever was deleted and restored, and no *)
(* CNPJ of a deleted organisation is ever taken by another one.             *)
THEOREM IdentifiersStayUnique == Spec => []IdentifiersAreUnique
<1>1. UniqueInv => IdentifiersAreUnique
  BY DEF UniqueInv, IdentifiersAreUnique
<1> QED BY <1>1, TablesSafety, PTL
-----------------------------------------------------------------------------
(* Graphs: walks, and what can be reached                                   *)

Nodes == Payload!Nodes

(* There are finitely many objects to walk over.                            *)
LEMMA NodesAreFinite == IsFiniteSet(Nodes) /\ Cardinality(Nodes) \in Nat
<1>1. IsFiniteSet(Nodes)
  BY GraphAssumption DEF Payload!ObjectsAreDistinct, Nodes, Payload!IsFiniteSet, IsFiniteSet
<1> QED BY <1>1, FS_CardinalityType

(* One more step from somewhere in T.                                       *)
Spread(T, keys) == UNION {Payload!Children(o, keys) : o \in T}

(* What that union holds.                                                   *)
LEMMA SpreadIsUnion ==
    \A T, keys : /\ Spread(T, keys) \in SUBSET Nodes
                 /\ \A o \in T : Payload!Children(o, keys) \subseteq Spread(T, keys)
                 /\ \A c \in Spread(T, keys) : \E o \in T : c \in Payload!Children(o, keys)
BY DEF Spread, Payload!Children, Nodes

(* The ends of all walks of up to n steps, by their number of steps.        *)
WalksFrom(S, keys, n, g) ==
    /\ g[0] = S
    /\ \A i \in 1..n : g[i] = Spread(g[i - 1], keys)
    /\ \A m \in 0..n : Payload!After(S, keys, m) = g[m]

(* There are such walks, for any number of steps.                           *)
LEMMA WalksExist ==
    ASSUME NEW S \in SUBSET Nodes, NEW keys, NEW n \in Nat
    PROVE  \E g \in [0..n -> SUBSET Nodes] : WalksFrom(S, keys, n, g)
<1> DEFINE V == SUBSET Nodes
           Next1(T) == Spread(T, keys)
           step == [i \in 1..n |-> [T \in V |-> Next1(T)]]
<1>1. \A T : Next1(T) \in V
  BY SpreadIsUnion
<1>2. step \in [1..n -> [V -> V]]
  BY <1>1
<1>3. \A i \in 1..n, T \in V : step[i][T] = Next1(T)
  OBVIOUS
<1> HIDE DEF step, V, Next1
<1>4. PICK g \in [0..n -> V] : IsRecursion(g, n, S, step)
  BY <1>2, RecursionExists DEF V
<1>5. \A i \in 1..n : i # 0 /\ i \in 0..n /\ i - 1 \in 0..n /\ g[i - 1] \in V
  OBVIOUS
<1>6. g[0] = S /\ \A i \in 1..n : g[i] = Next1(g[i - 1])
  BY <1>3, <1>4, <1>5 DEF IsRecursion
<1>7. ASSUME NEW m \in 0..n
      PROVE  Payload!After(S, keys, m) = g[m]
  <2> DEFINE h == [i \in 0..m |-> g[i]]
             walk[i \in 0..m] == IF i = 0 THEN S
                                 ELSE UNION {Payload!Children(o, keys) : o \in walk[i - 1]}
  <2>0. m \in Nat /\ \A i \in 1..m : i \in 1..n /\ i \in 0..m /\ i - 1 \in 0..m /\ i # 0
    OBVIOUS
  <2>1. \A i \in 0..m : h[i] = g[i]
    OBVIOUS
  <2>2. h \in [0..m -> V] /\ h[0] = S /\ \A i \in 1..m : h[i] = Next1(h[i - 1])
    BY <1>6, <2>0, <2>1
  <2> HIDE DEF h
  <2>3. h = [i \in 0..m |-> IF i = 0 THEN S ELSE Next1(h[i - 1])]
    BY <2>0, <2>2
  <2>4. walk[m] = Payload!After(S, keys, m)
    BY DEF Payload!After
  <2>5. walk = [i \in 0..m |-> IF i = 0 THEN S ELSE Next1(walk[i - 1])]
    BY <2>3 DEF Next1, Spread
  <2> HIDE DEF walk
  <2>6. walk[0] = S /\ \A i \in 1..m : walk[i] = Next1(walk[i - 1])
    BY <2>0, <2>5
  <2>7. Follows(walk, V, m, S, step)
    BY <1>3, <2>0, <2>6 DEF Follows
  <2>8. IsRecursion(h, m, S, step)
    BY <1>3, <1>5, <2>0, <2>1, <2>2 DEF IsRecursion
  <2>9. walk[m] = h[m]
    BY <2>0, <2>2, <2>7, <2>8, RecursionUnique
  <2> QED BY <2>0, <2>1, <2>4, <2>9
<1> QED BY <1>4, <1>6, <1>7 DEF V, Next1, WalksFrom

(* A walk of n + 1 steps is a walk of n and one more.                       *)
LEMMA WalkLengthens ==
    ASSUME NEW S \in SUBSET Nodes, NEW keys, NEW n \in Nat
    PROVE  /\ Payload!After(S, keys, n) \in SUBSET Nodes
           /\ Payload!After(S, keys, 0) = S
           /\ Payload!After(S, keys, n + 1) =
                  Spread(Payload!After(S, keys, n), keys)
<1> DEFINE N == n + 1
<1>1. N \in Nat
  OBVIOUS
<1> HIDE DEF N
<1>2. PICK g \in [0..N -> SUBSET Nodes] : WalksFrom(S, keys, N, g)
  BY <1>1, WalksExist
<1>3. 0 \in 0..N /\ n \in 0..N /\ n + 1 \in 0..N /\ n + 1 \in 1..N /\ (n + 1) - 1 = n
  BY DEF N
<1>4. Payload!After(S, keys, n) = g[n] /\ Payload!After(S, keys, n + 1) = g[n + 1]
      /\ Payload!After(S, keys, 0) = S /\ g[n] \in SUBSET Nodes
  BY <1>2, <1>3 DEF WalksFrom
<1>5. g[n + 1] = Spread(g[n], keys)
  BY <1>2, <1>3 DEF WalksFrom
<1> QED BY <1>4, <1>5

(* A walk from somewhere on a walk is the rest of a longer walk.            *)
LEMMA WalksJoin ==
    ASSUME NEW S \in SUBSET Nodes, NEW T \in SUBSET Nodes, NEW keys, NEW d \in Nat,
           T \subseteq Payload!After(S, keys, d), NEW n \in Nat
    PROVE  Payload!After(T, keys, n) \subseteq Payload!After(S, keys, d + n)
<1> DEFINE Good ==
             {k \in Nat : Payload!After(T, keys, k) \subseteq Payload!After(S, keys, d + k)}
<1>1. 0 \in Good
  BY WalkLengthens
<1>2. \A k \in Nat : k \in Good => k + 1 \in Good
  <2> TAKE k \in Nat
  <2>1. /\ Payload!After(T, keys, k + 1) =
              Spread(Payload!After(T, keys, k), keys)
        /\ Payload!After(S, keys, (d + k) + 1) =
              Spread(Payload!After(S, keys, d + k), keys)
    <3>1. d + k \in Nat
      OBVIOUS
    <3> QED BY <3>1, WalkLengthens
  <2>2. (d + k) + 1 = d + (k + 1)
    OBVIOUS
  <2> QED BY <2>1, <2>2, SpreadIsUnion
<1> HIDE DEF Good
<1>3. Nat \subseteq Good
  BY <1>1, <1>2, SetInduction
<1> QED BY <1>3 DEF Good

(* Whatever is on a cycle is found again at the end of longer walks.        *)
LEMMA CyclesGoOn ==
    ASSUME NEW S \in SUBSET Nodes, NEW keys, NEW d \in Nat,
           NEW o \in Payload!After(S, keys, d), NEW n \in Nat,
           o \in Payload!After(Payload!Children(o, keys), keys, n), NEW N \in Nat
    PROVE  \E m \in Nat : m >= N /\ o \in Payload!After(S, keys, m)
<1> DEFINE Good == {k \in Nat : \E m \in Nat : m >= k /\ o \in Payload!After(S, keys, m)}
<1>1. 0 \in Good
  OBVIOUS
<1>2. \A k \in Nat : k \in Good => k + 1 \in Good
  <2> SUFFICES ASSUME NEW k \in Nat, NEW m \in Nat, m >= k, o \in Payload!After(S, keys, m)
               PROVE  k + 1 \in Good
    OBVIOUS
  <2>1. Payload!Children(o, keys) \subseteq Payload!After(S, keys, m + 1)
    BY WalkLengthens, SpreadIsUnion
  <2>2. Payload!Children(o, keys) \in SUBSET Nodes
    BY DEF Payload!Children, Nodes
  <2>3. o \in Payload!After(S, keys, (m + 1) + n)
    BY <2>1, <2>2, WalksJoin
  <2>4. (m + 1) + n \in Nat /\ (m + 1) + n >= k + 1
    OBVIOUS
  <2> QED BY <2>3, <2>4
<1> HIDE DEF Good
<1>3. Nat \subseteq Good
  BY <1>1, <1>2, SetInduction
<1> QED BY <1>3 DEF Good

(* Where walks end they do not go on.                                       *)
LEMMA WalksEnd ==
    ASSUME NEW S \in SUBSET Nodes, NEW keys, NEW N \in Nat, Payload!After(S, keys, N) = {},
           NEW n \in Nat, n >= N
    PROVE  Payload!After(S, keys, n) = {}
<1> DEFINE Good == {k \in Nat : Payload!After(S, keys, N + k) = {}}
<1>1. 0 \in Good
  OBVIOUS
<1>2. \A k \in Nat : k \in Good => k + 1 \in Good
  <2> TAKE k \in Nat
  <2>1. Payload!After(S, keys, (N + k) + 1) =
            Spread(Payload!After(S, keys, N + k), keys)
    <3>1. N + k \in Nat
      OBVIOUS
    <3> QED BY <3>1, WalkLengthens
  <2>2. (N + k) + 1 = N + (k + 1)
    OBVIOUS
  <2> QED BY <2>1, <2>2, SpreadIsUnion
<1> HIDE DEF Good
<1>3. Nat \subseteq Good
  BY <1>1, <1>2, SetInduction
<1>4. n - N \in Nat /\ N + (n - N) = n
  OBVIOUS
<1> QED BY <1>3, <1>4 DEF Good

(* As many steps as there are objects lead everywhere: until nothing new is *)
(* found every step finds an object.                                        *)
LEMMA ReachableIsClosed ==
    ASSUME NEW S \in SUBSET Nodes, NEW keys
    PROVE  /\ Payload!Reachable(S, keys) \in SUBSET Nodes
           /\ S \subseteq Payload!Reachable(S, keys)
           /\ \A o \in Payload!Reachable(S, keys) :
                  Payload!Children(o, keys) \subseteq Payload!Reachable(S, keys)
<1> DEFINE A(n) == Payload!After(S, keys, n)
           R(n) == UNION {A(i) : i \in 0..n}
           Closed(n) == \A o \in R(n) : Payload!Children(o, keys) \subseteq R(n)
           Good == {n \in Nat : Closed(n) \/ Cardinality(R(n)) >= n}
<1>1. IsFiniteSet(Nodes) /\ Cardinality(Nodes) \in Nat
  BY NodesAreFinite
<1>2. A(0) = S /\ \A n \in Nat : /\ A(n) \in SUBSET Nodes
                                 /\ A(n + 1) = Spread(A(n), keys)
  BY WalkLengthens
<1> HIDE DEF A
<1>3. \A n \in Nat : R(n) \in SUBSET Nodes
  BY <1>2
<1>4. \A n \in Nat : R(n + 1) = R(n) \cup A(n + 1)
  <2> TAKE n \in Nat
  <2>1. \A i : i \in 0..n + 1 <=> i \in 0..n \/ i = n + 1
    OBVIOUS
  <2> QED BY <2>1
<1>5. \A n \in Nat : \A o \in R(n) : Payload!Children(o, keys) \subseteq R(n + 1)
  <2> TAKE n \in Nat
  <2> TAKE o \in R(n)
  <2>1. PICK i \in 0..n : o \in A(i)
    OBVIOUS
  <2>2. Payload!Children(o, keys) \subseteq A(i + 1)
    BY <1>2, <2>1, SpreadIsUnion
  <2>3. i + 1 \in 0..n + 1
    OBVIOUS
  <2> QED BY <2>2, <2>3
<1>6. \A n \in Nat : A(n) \subseteq R(n)
  OBVIOUS
<1>7. \A n \in Nat : IsFiniteSet(R(n)) /\ Cardinality(R(n)) \in Nat
  BY <1>1, <1>3, FS_Subset, FS_CardinalityType
<1>8. R(0) = S
  BY <1>2
<1> HIDE DEF R
<1>9. 0 \in Good
  BY <1>7
<1>10. \A n \in Nat : n \in Good => n + 1 \in Good
  <2> SUFFICES ASSUME NEW n \in Nat, n \in Good
               PROVE  Closed(n + 1) \/ Cardinality(R(n + 1)) >= n + 1
    OBVIOUS
  <2>1. CASE Closed(n)
    <3>1. A(n + 1) \subseteq R(n)
      BY <1>2, <1>6, <2>1, SpreadIsUnion
    <3>2. R(n + 1) = R(n)
      BY <1>4, <3>1
    <3> QED BY <2>1, <3>2
  <2>2. CASE ~Closed(n)
    <3>1. Cardinality(R(n)) >= n
      BY <2>2
    <3>2. PICK o \in R(n) : ~(Payload!Children(o, keys) \subseteq R(n))
      BY <2>2
    <3>3. PICK c \in Payload!Children(o, keys) : c \notin R(n)
      BY <3>2
    <3>4. R(n) \cup {c} \subseteq R(n + 1)
      BY <1>4, <1>5, <3>2, <3>3
    <3>5. Cardinality(R(n) \cup {c}) = Cardinality(R(n)) + 1
      BY <1>7, <3>3, FS_AddElement
    <3>6. Cardinality(R(n) \cup {c}) <= Cardinality(R(n + 1))
      BY <1>7, <3>4, FS_Subset
    <3>7. Cardinality(R(n)) \in Nat /\ Cardinality(R(n + 1)) \in Nat
      BY <1>7
    <3> QED BY <3>1, <3>5, <3>6, <3>7
  <2> QED BY <2>1, <2>2
<1> DEFINE N == Cardinality(Nodes)
<1>11. N \in Good
  <2> HIDE DEF Good
  <2> QED BY <1>1, <1>9, <1>10, SetInduction
<1>12. Closed(N)
  <2>1. CASE Cardinality(R(N)) >= N
    <3>1. Cardinality(R(N)) <= N /\ (N = Cardinality(R(N)) => Nodes = R(N))
      BY <1>1, <1>3, FS_Subset
    <3>2. R(N) = Nodes
      BY <1>1, <1>7, <2>1, <3>1
    <3>3. \A o : Payload!Children(o, keys) \subseteq Nodes
      BY DEF Payload!Children, Nodes
    <3> QED BY <3>2, <3>3
  <2> QED BY <1>11, <2>1
<1>13. Payload!Reachable(S, keys) = R(N)
  BY Zenon DEF Payload!Reachable, R, A, Nodes, Payload!Cardinality, Cardinality
<1>14. S \subseteq R(N)
  <2>1. 0 \in 0..N
    BY <1>1
  <2> QED BY <1>2, <2>1 DEF R
<1> QED BY <1>1, <1>3, <1>12, <1>13, <1>14

(* What is reachable is what some walk leads to.                            *)
LEMMA ReachableByWalks ==
    ASSUME NEW S \in SUBSET Nodes, NEW keys
    PROVE  /\ \A n \in Nat : Payload!After(S, keys, n) \subseteq Payload!Reachable(S, keys)
           /\ \A o \in Payload!Reachable(S, keys) : \E n \in Nat : o \in Payload!After(S, keys, n)
<1> DEFINE Good == {n \in Nat : Payload!After(S, keys, n) \subseteq Payload!Reachable(S, keys)}
<1>1. 0 \in Good
  BY WalkLengthens, ReachableIsClosed
<1>2. \A n \in Nat : n \in Good => n + 1 \in Good
  <2> TAKE n \in Nat
  <2>1. Payload!After(S, keys, n + 1) =
            Spread(Payload!After(S, keys, n), keys)
    BY WalkLengthens
  <2>2. \A o \in Payload!Reachable(S, keys) :
            Payload!Children(o, keys) \subseteq Payload!Reachable(S, keys)
    BY ReachableIsClosed
  <2> QED BY <2>1, <2>2, SpreadIsUnion
<1>3. \A o \in Payload!Reachable(S, keys) : \E n \in Nat : o \in Payload!After(S, keys, n)
  <2>1. Cardinality(Nodes) \in Nat
    BY NodesAreFinite
  <2> QED BY <2>1 DEF Payload!Reachable, Nodes
<1> HIDE DEF Good
<1>4. Nat \subseteq Good
  BY <1>1, <1>2, SetInduction
<1> QED BY <1>3, <1>4 DEF Good

-----------------------------------------------------------------------------
(* Payloads: what is accepted is what JSON keeps                            *)

PayloadValues == Nodes \cup {"text", "nonFinite"}
Visits == PayloadValues \X (SUBSET Nodes) \X Nat

(* A behaviour about payloads builds a graph of values.                     *)
PayloadGraph ==
    /\ kind \in [Nodes -> {"record", "array", "opaque"}] /\ kind[Root] = "record"
    /\ field \in [Nodes -> [Payload!Keys -> PayloadValues \cup {"absent"}]]

PayloadInv == subject = "payload" => PayloadGraph

LEMMA PayloadInvInit == Init => PayloadInv
<1> SUFFICES ASSUME Init, subject = "payload"
             PROVE  PayloadGraph
  BY DEF PayloadInv
<1>1. Payload!GraphInit
  BY DEF Init, Payload!Init
<1> QED BY <1>1 DEF Payload!GraphInit, PayloadGraph, PayloadValues, Nodes

LEMMA PayloadInvStep == PayloadInv /\ [Next]_vars => PayloadInv'
<1> SUFFICES ASSUME PayloadGraph, [Next]_vars, subject = "payload"
             PROVE  PayloadGraph'
  BY DEF Next, vars, PayloadInv
<1>1. CASE UNCHANGED graph
  BY <1>1 DEF graph, PayloadGraph
<1>2. CASE Payload!Next
  <2>1. PICK o \in Nodes, k \in Payload!Keys, v \in PayloadValues : Payload!Assign(o, k, v)
    BY <1>2 DEF Payload!Next, Payload!GraphNext, PayloadValues, Nodes
  <2>2. UNCHANGED kind /\ field' = [field EXCEPT ![o][k] = v]
    BY <2>1 DEF Payload!Assign
  <2>3. [field[o] EXCEPT ![k] = v] \in [Payload!Keys -> PayloadValues \cup {"absent"}]
    BY DEF PayloadGraph
  <2>4. field' = [field EXCEPT ![o] = [field[o] EXCEPT ![k] = v]]
    BY <2>2
  <2>5. field' \in [Nodes -> [Payload!Keys -> PayloadValues \cup {"absent"}]]
    BY <2>3, <2>4 DEF PayloadGraph
  <2> QED BY <2>2, <2>5 DEF PayloadGraph, PayloadValues, Nodes, Payload!Nodes, Payload!Keys
<1> QED BY <1>1, <1>2 DEF Next, vars, graph

(* An object is not mistaken for a text or a number.                        *)
LEMMA NodesAreNoLeaves ==
    ASSUME NEW o \in Nodes
    PROVE  o # "text" /\ o # "nonFinite" /\ o # "absent"
BY GraphAssumption DEF Payload!ObjectsAreDistinct, Nodes

(* One visit of assertPayloadValue, given what the visits below it say.     *)
Visit(f, v, a, d) ==
    /\ ~Payload!TooDeep(d)
    /\ v # "nonFinite"
    /\ v \in Payload!Nodes =>
        /\ v \notin a
        /\ kind[v] \in {"record", "array"}
        /\ ~Payload!Forbidden(v)
        /\ \A k \in Payload!Keys : field[v][k] # "absent" =>
               f[<<field[v][k], a \cup {v}, d + 1>>]

(* A visit of a field is a visit.                                           *)
LEMMA VisitsBelow ==
    ASSUME PayloadGraph, NEW x \in Visits, x[1] \in Nodes, NEW k \in Payload!Keys,
           field[x[1]][k] # "absent"
    PROVE  <<field[x[1]][k], x[2] \cup {x[1]}, x[3] + 1>> \in Visits
<1>1. x[2] \in SUBSET Nodes /\ x[3] \in Nat
  BY DEF Visits
<1>2. field[x[1]][k] \in PayloadValues
  BY DEF PayloadGraph
<1>3. x[2] \cup {x[1]} \in SUBSET Nodes /\ x[3] + 1 \in Nat
  BY <1>1
<1> QED BY <1>2, <1>3 DEF Visits

(* The depth bounds the recursion, so it has a value.                       *)
LEMMA AcceptsByVisits ==
    ASSUME PayloadGraph
    PROVE  \A x \in Visits : Payload!Accepts[x] <=> Visit(Payload!Accepts, x[1], x[2], x[3])
<1> DEFINE n == MaxDepth + 1
           V == [Visits -> BOOLEAN]
           none == [x \in Visits |-> FALSE]
           step == [i \in 1..n |-> [h \in V |-> [x \in Visits |-> Visit(h, x[1], x[2], x[3])]]]
<1>0. n \in Nat /\ MaxDepth \in Nat
  BY GraphAssumption
<1>1. none \in V
  OBVIOUS
<1>2. \A h, v, a, d : Visit(h, v, a, d) \in BOOLEAN
  BY DEF Visit
<1>3. \A h : [x \in Visits |-> Visit(h, x[1], x[2], x[3])] \in V
  BY <1>2
<1>4. step \in [1..n -> [V -> V]]
  BY <1>3
<1>5. \A i \in 1..n, h \in V : step[i][h] = [x \in Visits |-> Visit(h, x[1], x[2], x[3])]
  OBVIOUS
<1>6. \A x \in Visits : none[x] = FALSE
  OBVIOUS
<1> HIDE DEF n, V, none, step
<1>7. PICK g \in [0..n -> V] : IsRecursion(g, n, none, step)
  BY <1>0, <1>1, <1>4, RecursionExists
<1>8. /\ g[0] = none
      /\ \A i \in 1..n : /\ g[i - 1] \in V
                         /\ \A x \in Visits : g[i][x] = Visit(g[i - 1], x[1], x[2], x[3])
  <2>1. \A i \in 1..n : g[i - 1] \in V /\ g[i] = step[i][g[i - 1]]
    BY <1>0, <1>7 DEF IsRecursion
  <2>2. \A i \in 1..n : g[i] = [x \in Visits |-> Visit(g[i - 1], x[1], x[2], x[3])]
    BY <1>5, <2>1
  <2>3. ASSUME NEW i \in 1..n, NEW x \in Visits
        PROVE  g[i][x] = Visit(g[i - 1], x[1], x[2], x[3])
    <3>1. g[i] = [z \in Visits |-> Visit(g[i - 1], z[1], z[2], z[3])]
      BY <2>2
    <3> QED BY <3>1
  <2>4. g[0] = none
    BY <1>7 DEF IsRecursion
  <2> QED BY <2>1, <2>3, <2>4
<1> DEFINE f == [x \in Visits |-> IF x[3] <= MaxDepth THEN g[n - x[3]][x] ELSE FALSE]
<1>9. \A x \in Visits : f[x] = IF x[3] <= MaxDepth THEN g[n - x[3]][x] ELSE FALSE
  OBVIOUS
<1>10. f = [x \in Visits |-> f[x]]
  OBVIOUS
<1> HIDE DEF f
<1>11. ASSUME NEW x \in Visits
      PROVE  f[x] = Visit(f, x[1], x[2], x[3])
  <2>1. x[3] \in Nat
    BY DEF Visits
  <2>2. CASE x[3] <= MaxDepth
    <3> DEFINE i == n - x[3]
    <3>1. i \in 1..n /\ i - 1 = n - (x[3] + 1)
      BY <1>0, <2>1, <2>2 DEF n
    <3>2. f[x] = g[i][x]
      BY <1>9, <2>2
    <3>3. g[i][x] = Visit(g[i - 1], x[1], x[2], x[3])
      BY <1>8, <3>1
    <3> HIDE DEF i
    <3>4. ASSUME x[1] \in Nodes, NEW k \in Payload!Keys, field[x[1]][k] # "absent"
          PROVE  g[i - 1][<<field[x[1]][k], x[2] \cup {x[1]}, x[3] + 1>>]
                     = f[<<field[x[1]][k], x[2] \cup {x[1]}, x[3] + 1>>]
      <4> DEFINE y == <<field[x[1]][k], x[2] \cup {x[1]}, x[3] + 1>>
      <4>1. y \in Visits
        BY <3>4, VisitsBelow
      <4>2. y[3] = x[3] + 1
        OBVIOUS
      <4> HIDE DEF y
      <4>3. ASSUME y[3] <= MaxDepth PROVE g[i - 1][y] = f[y]
        BY <1>9, <3>1, <4>1, <4>2, <4>3
      <4>4. ASSUME ~(y[3] <= MaxDepth) PROVE g[i - 1][y] = f[y]
        <5>1. i - 1 = 0
          BY <1>0, <2>1, <2>2, <3>1, <4>2, <4>4 DEF n
        <5>2. f[y] = FALSE
          BY <1>9, <4>1, <4>4
        <5> QED BY <1>6, <1>8, <4>1, <5>1, <5>2
      <4>5. g[i - 1][y] = f[y]
        BY <4>3, <4>4
      <4> QED BY <4>5, Zenon DEF y
    <3>5. Visit(g[i - 1], x[1], x[2], x[3]) = Visit(f, x[1], x[2], x[3])
      BY <3>4 DEF Visit, Nodes
    <3> QED BY <3>2, <3>3, <3>5
  <2>3. CASE ~(x[3] <= MaxDepth)
    <3>1. Payload!TooDeep(x[3])
      BY <1>0, <2>1, <2>3 DEF Payload!TooDeep
    <3>2. ~Visit(f, x[1], x[2], x[3])
      BY <3>1 DEF Visit
    <3>3. f[x] = FALSE
      BY <1>9, <2>3
    <3> QED BY <1>2, <3>2, <3>3
  <2> QED BY <2>2, <2>3
<1>12. f = [x \in Visits |-> Visit(f, x[1], x[2], x[3])]
  BY <1>11, <1>10
<1>13. Payload!Accepts = [x \in Visits |-> Visit(Payload!Accepts, x[1], x[2], x[3])]
  BY <1>12 DEF Payload!Accepts, Visit, Visits, PayloadValues, Nodes
<1> QED BY <1>13

Walked(d) == Payload!After({Root}, Payload!Keys, d)

(* The walks from the payload, step by step.                                *)
LEMMA WalkedFacts ==
    /\ Walked(0) = {Root} /\ {Root} \in SUBSET Nodes
    /\ \A d \in Nat : /\ Walked(d) \in SUBSET Nodes
                      /\ Walked(d + 1) = Spread(Walked(d), Payload!Keys)
<1>1. {Root} \in SUBSET Nodes
  BY DEF Nodes, Payload!Nodes
<1> QED BY <1>1, WalkLengthens DEF Walked

(* No walk from the payload is longer than the limit, so none is a cycle.   *)
LEMMA ShortWalksHaveNoCycle ==
    ASSUME Walked(MaxDepth + 1) = {}, NEW d \in Nat, NEW o \in Walked(d)
    PROVE  o \notin Payload!Reachable(Payload!Children(o, Payload!Keys), Payload!Keys)
<1> SUFFICES ASSUME o \in Payload!Reachable(Payload!Children(o, Payload!Keys), Payload!Keys)
             PROVE  FALSE
  OBVIOUS
<1>1. Payload!Children(o, Payload!Keys) \in SUBSET Nodes
  BY DEF Payload!Children, Nodes
<1>2. PICK n \in Nat : o \in Payload!After(Payload!Children(o, Payload!Keys), Payload!Keys, n)
  BY <1>1, ReachableByWalks
<1>3. MaxDepth + 1 \in Nat
  BY GraphAssumption
<1>4. PICK m \in Nat : m >= MaxDepth + 1 /\ o \in Walked(m)
  BY <1>2, <1>3, WalkedFacts, CyclesGoOn DEF Walked
<1>5. Walked(m) = {}
  BY <1>3, <1>4, WalkedFacts, WalksEnd DEF Walked
<1> QED BY <1>4, <1>5

(* Soundness: what is accepted ends within the limit and JSON keeps it.     *)
LEMMA AcceptedIsSerialisable ==
    ASSUME PayloadGraph, Payload!Accepted
    PROVE  Payload!Serialisable
<1> DEFINE K == Payload!Keys
           Good == {d \in Nat : \A o \in Walked(d) : \E a \in SUBSET Nodes :
                                    Payload!Accepts[<<o, a, d>>]}
<1>0. \A o \in Nodes, a \in SUBSET Nodes, d \in Nat :
          Payload!Accepts[<<o, a, d>>] <=> Visit(Payload!Accepts, o, a, d)
  <2> TAKE o \in Nodes, a \in SUBSET Nodes, d \in Nat
  <2> DEFINE x == <<o, a, d>>
  <2>1. x \in Visits /\ x[1] = o /\ x[2] = a /\ x[3] = d
    BY DEF Visits, PayloadValues
  <2> HIDE DEF x
  <2>2. Payload!Accepts[x] <=> Visit(Payload!Accepts, x[1], x[2], x[3])
    BY <2>1, AcceptsByVisits
  <2> QED BY <2>1, <2>2 DEF x
<1>1. 0 \in Good
  <2>1. Payload!Accepts[<<Root, {}, 0>>]
    BY DEF Payload!Accepted
  <2> QED BY <2>1, WalkedFacts
<1>2. ASSUME NEW d \in Nat, d \in Good PROVE d + 1 \in Good
  <2>0. d + 1 \in Nat
    OBVIOUS
  <2> SUFFICES ASSUME NEW c \in Walked(d + 1)
               PROVE  \E a \in SUBSET Nodes : Payload!Accepts[<<c, a, d + 1>>]
    BY <2>0, Zenon
  <2>1. PICK o \in Walked(d) : c \in Payload!Children(o, K)
    BY WalkedFacts, SpreadIsUnion
  <2>2. PICK k \in K : c = field[o][k] /\ c \in Nodes
    BY <2>1 DEF Payload!Children, Nodes
  <2>3. o \in Nodes
    BY WalkedFacts
  <2>4. PICK a \in SUBSET Nodes : Payload!Accepts[<<o, a, d>>]
    BY <1>2
  <2>5. Visit(Payload!Accepts, o, a, d)
    BY <1>0, <2>3, <2>4
  <2>6. field[o][k] # "absent"
    BY <2>2, NodesAreNoLeaves
  <2>7. Payload!Accepts[<<field[o][k], a \cup {o}, d + 1>>]
    BY <2>3, <2>5, <2>6 DEF Visit, Nodes
  <2>8. Payload!Accepts[<<c, a \cup {o}, d + 1>>] /\ a \cup {o} \in SUBSET Nodes
    BY <2>2, <2>3, <2>7
  <2> QED BY <2>8
<1>3. ASSUME NEW d \in Nat, NEW o \in Walked(d)
      PROVE  \E a \in SUBSET Nodes : Visit(Payload!Accepts, o, a, d)
  <2> HIDE DEF Good
  <2>1. Nat \subseteq Good
    BY <1>1, <1>2, SetInduction
  <2>2. PICK a \in SUBSET Nodes : Payload!Accepts[<<o, a, d>>]
    BY <2>1 DEF Good
  <2> QED BY <1>0, <2>2, WalkedFacts
<1> HIDE DEF Good
<1>4. ASSUME NEW d \in Nat, NEW o \in Walked(d), NEW k \in K, field[o][k] # "absent"
      PROVE  field[o][k] # "nonFinite" /\ d < MaxDepth
  <2>1. PICK a \in SUBSET Nodes : Visit(Payload!Accepts, o, a, d)
    BY <1>3
  <2>2. o \in Nodes
    BY WalkedFacts
  <2> DEFINE x == <<o, a, d>>
             y == <<field[x[1]][k], x[2] \cup {x[1]}, x[3] + 1>>
  <2>3. x \in Visits /\ x[1] = o /\ x[2] = a /\ x[3] = d
    BY <2>2 DEF Visits, PayloadValues
  <2>4. y = <<field[o][k], a \cup {o}, d + 1>>
    OBVIOUS
  <2>5. Payload!Accepts[y]
    <3>1. Payload!Accepts[<<field[o][k], a \cup {o}, d + 1>>]
      BY <1>4, <2>1, <2>2 DEF Visit, Nodes
    <3> QED BY <3>1
  <2> HIDE DEF x
  <2>6. y \in Visits
    BY <1>4, <2>2, <2>3, VisitsBelow
  <2>7. y[1] = field[o][k] /\ y[3] = d + 1
    BY <2>3
  <2> HIDE DEF y
  <2>8. Visit(Payload!Accepts, y[1], y[2], y[3])
    BY <2>5, <2>6, AcceptsByVisits
  <2>9. y[1] # "nonFinite" /\ ~(y[3] > MaxDepth)
    BY <2>8 DEF Visit, Payload!TooDeep
  <2> QED BY <2>7, <2>9, GraphAssumption
<1>5. Walked(MaxDepth + 1) = {}
  <2> SUFFICES ASSUME NEW o \in Walked(MaxDepth + 1)
               PROVE  FALSE
    OBVIOUS
  <2>1. MaxDepth + 1 \in Nat
    BY GraphAssumption
  <2>2. ~(MaxDepth + 1 > MaxDepth)
    BY <1>3, <2>1 DEF Visit, Payload!TooDeep
  <2> QED BY <2>2, GraphAssumption
<1>6. ASSUME NEW o \in Payload!Reachable({Root}, K)
      PROVE  /\ o \notin Payload!Reachable(Payload!Children(o, K), K)
             /\ kind[o] \in {"record", "array"}
             /\ field[o]["private"] = "absent"
             /\ \A k \in K : field[o][k] # "nonFinite"
  <2>1. PICK d \in Nat : o \in Walked(d)
    BY WalkedFacts, ReachableByWalks DEF Walked
  <2>2. PICK a \in SUBSET Nodes : Visit(Payload!Accepts, o, a, d)
    BY <1>3, <2>1
  <2>3. o \in Nodes
    BY <2>1, WalkedFacts
  <2>4. kind[o] \in {"record", "array"} /\ field[o]["private"] = "absent"
    BY <2>2, <2>3 DEF Visit, Nodes, Payload!Forbidden
  <2>5. \A k \in K : field[o][k] # "nonFinite"
    <3>1. "absent" # "nonFinite"
      OBVIOUS
    <3> QED BY <1>4, <2>1, <3>1
  <2>6. o \notin Payload!Reachable(Payload!Children(o, K), K)
    BY <1>5, <2>1, ShortWalksHaveNoCycle
  <2> QED BY <2>4, <2>5, <2>6
<1>7. ASSUME NEW o \in Walked(MaxDepth), NEW k \in K
      PROVE  field[o][k] = "absent"
  <2>1. ~(MaxDepth < MaxDepth) /\ MaxDepth \in Nat
    BY GraphAssumption
  <2> QED BY <1>4, <2>1
<1> QED BY <1>6, <1>7 DEF Payload!Serialisable, Walked

(* What a visit of value v at depth d finds: it is the payload or in a      *)
(* field at the end of a walk, and every ancestor leads to it.              *)
Comes(v, d) ==
    \/ d = 0 /\ v = Root
    \/ \E p \in Nat : /\ d = p + 1
                      /\ \E o \in Walked(p), k \in Payload!Keys : v = field[o][k]

Descends(v, a) ==
    \A x \in a : /\ \E p \in Nat : x \in Walked(p)
                 /\ v \in Nodes => \E n \in Nat :
                       v \in Payload!After(Payload!Children(x, Payload!Keys), Payload!Keys, n)

(* Completeness: no visit of what JSON keeps finds a reason to refuse it.   *)
LEMMA SerialisableIsAccepted ==
    ASSUME PayloadGraph, Payload!Serialisable
    PROVE  Payload!Accepted
<1> DEFINE K == Payload!Keys
           N == MaxDepth + 1
           Good == {j \in Nat : \A x \in Visits :
                        x[3] + j = N /\ x[1] # "absent" /\ Comes(x[1], x[3]) /\ Descends(x[1], x[2])
                            => Payload!Accepts[x]}
<1>0. MaxDepth \in Nat /\ N \in Nat
  BY GraphAssumption
<1>1. \A o \in Walked(MaxDepth), k \in K : field[o][k] = "absent"
  BY DEF Payload!Serialisable, Walked
<1>2. Walked(N) = {}
  <2> SUFFICES ASSUME NEW c \in Walked(N)
               PROVE  FALSE
    OBVIOUS
  <2>1. PICK o \in Walked(MaxDepth) : c \in Payload!Children(o, K)
    BY <1>0, WalkedFacts, SpreadIsUnion
  <2>2. c = "absent" /\ c \in Nodes
    BY <1>1, <2>1 DEF Payload!Children, Nodes
  <2> QED BY <2>2, NodesAreNoLeaves
<1>3. \A d \in Nat : Walked(d) \subseteq Payload!Reachable({Root}, K)
  BY WalkedFacts, ReachableByWalks DEF Walked
<1>4. 0 \in Good
  <2> SUFFICES ASSUME NEW x \in Visits, x[3] + 0 = N, x[1] # "absent", Comes(x[1], x[3])
               PROVE  FALSE
    OBVIOUS
  <2>1. x[3] \in Nat
    BY DEF Visits
  <2>2. x[3] = N /\ x[3] # 0
    BY <1>0, <2>1
  <2>3. PICK p \in Nat : x[3] = p + 1 /\ \E o \in Walked(p), k \in K : x[1] = field[o][k]
    BY <2>2 DEF Comes
  <2>4. p = MaxDepth
    BY <1>0, <2>2, <2>3
  <2> QED BY <1>1, <2>3, <2>4
<1>5. ASSUME NEW j \in Nat, j \in Good PROVE j + 1 \in Good
  <2> SUFFICES ASSUME NEW x \in Visits, x[3] + (j + 1) = N, x[1] # "absent",
                      Comes(x[1], x[3]), Descends(x[1], x[2])
               PROVE  Payload!Accepts[x]
    OBVIOUS
  <2> DEFINE v == x[1]
             a == x[2]
             d == x[3]
  <2>1. v \in PayloadValues /\ a \in SUBSET Nodes /\ d \in Nat
    BY DEF Visits
  <2>2. ~Payload!TooDeep(d)
    <3>1. ~(d > MaxDepth)
      BY <1>0, <2>1
    <3> QED BY <3>1 DEF Payload!TooDeep
  <2>3. v # "nonFinite"
    <3>1. CASE v = Root
      BY <3>1, WalkedFacts, NodesAreNoLeaves
    <3>2. CASE v # Root
      <4>1. PICK p \in Nat : \E o \in Walked(p), k \in K : v = field[o][k]
        BY <3>2 DEF Comes
      <4>2. PICK o \in Walked(p), k \in K : v = field[o][k]
        BY <4>1
      <4>3. o \in Payload!Reachable({Root}, K)
        BY <1>3, <4>2
      <4> QED BY <4>2, <4>3 DEF Payload!Serialisable
    <3> QED BY <3>1, <3>2
  <2>4. ASSUME v \in Nodes
        PROVE  /\ v \notin a /\ kind[v] \in {"record", "array"} /\ ~Payload!Forbidden(v)
               /\ \A k \in K : field[v][k] # "absent" =>
                      Payload!Accepts[<<field[v][k], a \cup {v}, d + 1>>]
    <3>1. v \in Walked(d)
      <4>1. CASE d = 0 /\ v = Root
        BY <4>1, WalkedFacts
      <4>2. CASE ~(d = 0 /\ v = Root)
        <5>1. PICK p \in Nat : d = p + 1 /\ \E o \in Walked(p), k \in K : v = field[o][k]
          BY <4>2 DEF Comes
        <5>2. PICK o \in Walked(p) : v \in Payload!Children(o, K)
          BY <2>4, <5>1 DEF Payload!Children, Nodes
        <5>3. v \in Spread(Walked(p), K)
          BY <5>2, SpreadIsUnion
        <5>4. Walked(p + 1) = Spread(Walked(p), K)
          BY <5>1, WalkedFacts
        <5> QED BY <5>1, <5>3, <5>4
      <4> QED BY <4>1, <4>2
    <3>2. kind[v] \in {"record", "array"} /\ ~Payload!Forbidden(v)
      <4>1. v \in Payload!Reachable({Root}, K)
        BY <1>3, <2>1, <3>1
      <4> QED BY <4>1 DEF Payload!Serialisable, Payload!Forbidden
    <3>3. v \notin a
      <4> SUFFICES ASSUME v \in a
                   PROVE  FALSE
        OBVIOUS
      <4>1. PICK n \in Nat : v \in Payload!After(Payload!Children(v, K), K, n)
        BY <2>4 DEF Descends
      <4>2. Payload!Children(v, K) \in SUBSET Nodes
        BY DEF Payload!Children, Nodes
      <4>3. v \in Payload!Reachable(Payload!Children(v, K), K)
        BY <4>1, <4>2, ReachableByWalks
      <4> QED BY <1>2, <2>1, <3>1, <4>3, ShortWalksHaveNoCycle
    <3>4. ASSUME NEW k \in K, field[v][k] # "absent"
          PROVE  Payload!Accepts[<<field[v][k], a \cup {v}, d + 1>>]
      <4> DEFINE y == <<field[v][k], a \cup {v}, d + 1>>
      <4>1. y \in Visits
        BY <2>4, <3>4, VisitsBelow
      <4>2. y[1] = field[v][k] /\ y[2] = a \cup {v} /\ y[3] = d + 1
        OBVIOUS
      <4> HIDE DEF y
      <4>3. y[3] + j = N
        BY <2>1, <4>2, <1>0
      <4>4. Comes(y[1], y[3])
        BY <2>1, <3>1, <4>2 DEF Comes
      <4>5. Descends(y[1], y[2])
        <5> SUFFICES ASSUME NEW z \in a \cup {v}
                     PROVE  /\ \E p \in Nat : z \in Walked(p)
                            /\ y[1] \in Nodes => \E n \in Nat :
                                   y[1] \in Payload!After(Payload!Children(z, K), K, n)
          BY <4>2 DEF Descends
        <5>1. Payload!Children(z, K) \in SUBSET Nodes
          BY DEF Payload!Children, Nodes
        <5>2. y[1] \in Nodes => y[1] \in Payload!Children(v, K)
          BY <4>2 DEF Payload!Children, Nodes
        <5>3. CASE z = v
          <6>1. Payload!After(Payload!Children(z, K), K, 0) = Payload!Children(z, K)
            BY <5>1, WalkLengthens
          <6> QED BY <2>1, <3>1, <5>2, <5>3, <6>1
        <5>4. CASE z \in a
          <6>1. PICK n \in Nat : v \in Payload!After(Payload!Children(z, K), K, n)
            BY <2>4, <5>4 DEF Descends
          <6>2. Payload!After(Payload!Children(z, K), K, n + 1)
                    = Spread(Payload!After(Payload!Children(z, K), K, n), K)
            BY <5>1, WalkLengthens
          <6>3. y[1] \in Nodes => y[1] \in Payload!After(Payload!Children(z, K), K, n + 1)
            BY <5>2, <6>1, <6>2, SpreadIsUnion
          <6>4. n + 1 \in Nat /\ \E p \in Nat : z \in Walked(p)
            BY <5>4 DEF Descends
          <6> QED BY <6>3, <6>4
        <5> QED BY <5>3, <5>4
      <4>6. Payload!Accepts[y]
        BY <1>5, <3>4, <4>1, <4>2, <4>3, <4>4, <4>5
      <4> QED BY <4>6 DEF y
    <3> QED BY <3>2, <3>3, <3>4
  <2>5. Visit(Payload!Accepts, x[1], x[2], x[3])
    BY <2>2, <2>3, <2>4 DEF Visit, Nodes
  <2> QED BY <2>5, AcceptsByVisits
<1>6. Nat \subseteq Good
  <2> HIDE DEF Good
  <2> QED BY <1>4, <1>5, SetInduction
<1>7. Payload!Accepts[<<Root, {}, 0>>]
  <2> DEFINE x == <<Root, {}, 0>>
  <2>1. x \in Visits /\ x[1] = Root /\ x[2] = {} /\ x[3] = 0
    BY WalkedFacts DEF Visits, PayloadValues
  <2> HIDE DEF x
  <2>2. x[1] # "absent" /\ Comes(x[1], x[3]) /\ Descends(x[1], x[2]) /\ x[3] + N = N
    BY <1>0, <2>1, WalkedFacts, NodesAreNoLeaves DEF Comes, Descends
  <2>3. Payload!Accepts[x]
    BY <1>0, <1>6, <2>1, <2>2
  <2> QED BY <2>3 DEF x
<1> QED BY <1>7 DEF Payload!Accepted, PayloadGraph

(* The property of payloads.                                                *)
LEMMA PayloadsAgree == PayloadInv => AcceptsWhatJsonKeeps
BY AcceptedIsSerialisable, SerialisableIsAccepted
   DEF PayloadInv, AcceptsWhatJsonKeeps, Payload!AcceptsWhatJsonKeeps

-----------------------------------------------------------------------------
(* Log lines: what a sanitised value is                                     *)

(* A behaviour about log lines builds a graph of values, whose arrays have  *)
(* no names.                                                                *)
LogGraph ==
    /\ kind \in [Nodes -> {"record", "array", "hostile"}] /\ kind[Root] = "record"
    /\ field \in [Nodes -> [Logs!Keys -> Nodes \cup {"text", "throws", "absent"}]]
    /\ \A o \in Nodes : kind[o] = "array" => field[o]["private"] = "absent"

LogInv == subject = "log" => LogGraph

LEMMA LogInvInit == Init => LogInv
<1> SUFFICES ASSUME Init, subject = "log"
             PROVE  LogGraph
  BY DEF LogInv
<1>1. Logs!GraphInit
  BY DEF Init, Logs!Init
<1> QED BY <1>1 DEF Logs!GraphInit, LogGraph, Nodes, Payload!Nodes, Logs!Nodes, Logs!Keys

LEMMA LogInvStep == LogInv /\ [Next]_vars => LogInv'
<1> SUFFICES ASSUME LogGraph, [Next]_vars, subject = "log"
             PROVE  LogGraph'
  BY DEF Next, vars, LogInv
<1>1. CASE UNCHANGED graph
  BY <1>1 DEF graph, LogGraph
<1>2. CASE Logs!Next
  <2>1. PICK o \in Nodes, k \in Logs!Keys, v \in Nodes \cup {"text", "throws"} :
            Logs!Assign(o, k, v)
    BY <1>2 DEF Logs!Next, Logs!GraphNext, Nodes, Payload!Nodes, Logs!Nodes
  <2>2. /\ UNCHANGED kind /\ field' = [field EXCEPT ![o][k] = v]
        /\ kind[o] = "array" => k # "private"
    BY <2>1 DEF Logs!Assign
  <2>3. [field[o] EXCEPT ![k] = v] \in [Logs!Keys -> Nodes \cup {"text", "throws", "absent"}]
    BY DEF LogGraph
  <2>4. field' = [field EXCEPT ![o] = [field[o] EXCEPT ![k] = v]]
    BY <2>2
  <2>5. field' \in [Nodes -> [Logs!Keys -> Nodes \cup {"text", "throws", "absent"}]]
    BY <2>3, <2>4 DEF LogGraph
  <2>6. \A p \in Nodes : kind'[p] = "array" => field'[p]["private"] = "absent"
    <3> TAKE p \in Nodes
    <3>1. CASE p = o
      <4>1. field'[p] = [field[o] EXCEPT ![k] = v]
        BY <2>4, <3>1 DEF LogGraph
      <4>2. "private" \in Logs!Keys /\ field[o] \in [Logs!Keys -> Nodes \cup {"text", "throws", "absent"}]
        BY DEF LogGraph, Logs!Keys
      <4> QED BY <2>2, <3>1, <4>1, <4>2 DEF LogGraph
    <3>2. CASE p # o
      BY <2>2, <2>4, <3>2 DEF LogGraph
    <3> QED BY <3>1, <3>2
  <2> QED BY <2>2, <2>5, <2>6 DEF LogGraph, Nodes, Payload!Nodes, Logs!Keys
<1> QED BY <1>1, <1>2 DEF Next, vars, graph

Readings == {"text", "throws"} \cup Logs!Marks
Entries == Nodes \X Logs!Keys \X Readings
LogWalks == [seen : SUBSET Nodes, written : Seq(Entries), thrown : BOOLEAN]
Calls == Nodes \X LogWalks \X Nat

(* A field is absent, an object or a leaf, and these differ.                *)
LEMMA ValuesAre ==
    ASSUME LogGraph, NEW o \in Nodes, NEW k \in Logs!Keys
    PROVE  /\ field[o][k] \in Nodes \cup {"text", "throws", "absent"}
           /\ \A p \in Nodes : p # "absent" /\ p # "text" /\ p # "throws"
<1>1. field[o] \in [Logs!Keys -> Nodes \cup {"text", "throws", "absent"}]
  BY DEF LogGraph
<1>2. \A p \in Nodes : p # "absent" /\ p # "text" /\ p # "throws"
  BY GraphAssumption DEF Logs!ObjectsAreDistinct, Nodes, Payload!Nodes, Logs!Nodes
<1> QED BY <1>1, <1>2

(* An entry more, and nothing else changed.                                 *)
LEMMA WroteFacts ==
    ASSUME NEW w \in LogWalks, NEW o \in Nodes, NEW k \in Logs!Keys, NEW what \in Readings
    PROVE  LET w2 == Logs!Wrote(w, o, k, what) IN
           /\ w2 \in LogWalks /\ w2.seen = w.seen /\ w2.thrown = w.thrown
           /\ w2.written = Append(w.written, <<o, k, what>>)
<1>1. <<o, k, what>> \in Entries /\ w.written \in Seq(Entries)
  BY DEF Entries, LogWalks
<1> DEFINE more == Append(w.written, <<o, k, what>>)
<1>2. more \in Seq(Entries)
  BY <1>1, AppendProperties
<1>3. Logs!Wrote(w, o, k, what) = [w EXCEPT !.written = more]
  BY DEF Logs!Wrote
<1> HIDE DEF more
<1>4. /\ [w EXCEPT !.written = more] \in LogWalks
      /\ [w EXCEPT !.written = more].seen = w.seen
      /\ [w EXCEPT !.written = more].thrown = w.thrown
      /\ [w EXCEPT !.written = more].written = more
  BY <1>2 DEF LogWalks
<1> QED BY <1>3, <1>4 DEF more

(* The steps of the sanitiser make walks of walks, ...                      *)
LEMMA SanitizeValueType ==
    ASSUME LogGraph, NEW o \in Nodes, NEW k \in Logs!Keys, field[o][k] # "absent",
           NEW w \in LogWalks, NEW d \in Nat
    PROVE  Logs!SanitizeValue(o, k, w, d) \in LogWalks
<1> DEFINE v == field[o][k]
<1>1. v \in Nodes \/ v = "text" \/ v = "throws"
  BY ValuesAre
<1>2. \A p \in Nodes : p # "absent" /\ p # "text" /\ p # "throws"
  BY ValuesAre
<1> HIDE DEF v
<1>3. CASE Logs!Opens(v, w, d)
  <2>1. v \in Nodes
    BY <1>3 DEF Logs!Opens, Nodes, Payload!Nodes, Logs!Nodes
  <2>2. [w EXCEPT !.seen = @ \cup {v}] \in LogWalks
    BY <2>1 DEF LogWalks
  <2> QED BY <1>3, <2>2 DEF Logs!SanitizeValue, v
<1>4. CASE ~Logs!Opens(v, w, d) /\ (v = "throws" \/ (v \in Nodes /\ kind[v] = "hostile"))
  <2>1. [w EXCEPT !.thrown = TRUE] \in LogWalks
    BY DEF LogWalks
  <2> QED BY <1>4, <2>1 DEF Logs!SanitizeValue, v, Nodes, Payload!Nodes, Logs!Nodes
<1>5. CASE ~Logs!Opens(v, w, d) /\ ~(v = "throws" \/ (v \in Nodes /\ kind[v] = "hostile"))
  <2> DEFINE what == IF v \notin Nodes THEN v ELSE IF d >= MaxDepth THEN "truncated" ELSE "circular"
  <2>1. what \in Readings
    <3>1. v \notin Nodes => v = "text"
      BY <1>1, <1>5
    <3> QED BY <3>1 DEF Readings, Logs!Marks
  <2>2. Logs!SanitizeValue(o, k, w, d) = Logs!Wrote(w, o, k, what)
    BY <1>5 DEF Logs!SanitizeValue, v, Nodes, Payload!Nodes, Logs!Nodes
  <2> HIDE DEF what
  <2> QED BY <2>1, <2>2, WroteFacts
<1> QED BY <1>3, <1>4, <1>5

(* ... a field, whatever the objects below it make of them, ...             *)
LEMMA FieldType ==
    ASSUME LogGraph, NEW f \in [Calls -> LogWalks], NEW o \in Nodes, NEW k \in Logs!Keys,
           NEW w \in LogWalks, NEW d \in Nat
    PROVE  /\ field[o][k] # "absent" => Logs!SanitizeInternal(f, o, k, w, d + 1) \in LogWalks
           /\ Logs!SanitizeEntry(f, o, k, w, d) \in LogWalks
<1>1. ASSUME field[o][k] # "absent"
      PROVE  Logs!SanitizeInternal(f, o, k, w, d + 1) \in LogWalks
  <2>1. d + 1 \in Nat
    OBVIOUS
  <2> DEFINE found == Logs!SanitizeValue(o, k, w, d + 1)
  <2>2. found \in LogWalks
    BY <1>1, <2>1, SanitizeValueType
  <2> HIDE DEF found
  <2>3. Logs!Opens(field[o][k], w, d + 1) => <<field[o][k], found, d + 1>> \in Calls
    BY <2>1, <2>2 DEF Logs!Opens, Calls, Nodes, Payload!Nodes, Logs!Nodes
  <2>4. Logs!Opens(field[o][k], w, d + 1) => f[<<field[o][k], found, d + 1>>] \in LogWalks
    BY <2>3
  <2> QED BY <2>2, <2>4 DEF Logs!SanitizeInternal, found
<1>2. Logs!SanitizeEntry(f, o, k, w, d) \in LogWalks
  <2>1. CASE field[o][k] = "absent" \/ w.thrown
    BY <2>1 DEF Logs!SanitizeEntry
  <2>2. CASE field[o][k] # "absent" /\ ~w.thrown
    <3> DEFINE v == Logs!SanitizeInternal(f, o, k, w, d + 1)
    <3>1. v \in LogWalks
      BY <1>1, <2>2
    <3> HIDE DEF v
    <3>2. Logs!Wrote(w, o, k, "redacted") \in LogWalks
      <4>1. "redacted" \in Readings
        BY DEF Readings, Logs!Marks
      <4> QED BY <4>1, WroteFacts
    <3>3. Logs!Caught(v, w, o, k) \in LogWalks
      <4> DEFINE back == [v EXCEPT !.thrown = FALSE, !.written = w.written]
      <4>1. back \in LogWalks
        BY <3>1 DEF LogWalks
      <4> HIDE DEF back
      <4>2. "unserializable" \in Readings
        BY DEF Readings, Logs!Marks
      <4>3. Logs!Wrote(back, o, k, "unserializable") \in LogWalks
        BY <4>1, <4>2, WroteFacts
      <4> QED BY <3>1, <4>3 DEF Logs!Caught, back
    <3> QED BY <2>2, <3>1, <3>2, <3>3 DEF Logs!SanitizeEntry, v
  <2> QED BY <2>1, <2>2
<1> QED BY <1>1, <1>2

(* ... and an object.                                                       *)
LEMMA ObjectType ==
    ASSUME LogGraph, NEW f \in [Calls -> LogWalks], NEW o \in Nodes,
           NEW w \in LogWalks, NEW d \in Nat
    PROVE  Logs!SanitizeEntries(f, o, w, d) \in LogWalks
<1>1. "left" \in Logs!Keys /\ "right" \in Logs!Keys /\ "private" \in Logs!Keys
  BY DEF Logs!Keys
<1> DEFINE w1 == Logs!SanitizeEntry(f, o, "left", w, d)
           w2 == Logs!SanitizeEntry(f, o, "right", w1, d)
<1>2. w1 \in LogWalks
  BY <1>1, FieldType
<1> HIDE DEF w1
<1>3. w2 \in LogWalks
  BY <1>1, <1>2, FieldType
<1> HIDE DEF w2
<1>4. Logs!SanitizeEntry(f, o, "private", w2, d) \in LogWalks
  BY <1>1, <1>3, FieldType
<1>5. [w EXCEPT !.thrown = TRUE] \in LogWalks
  BY DEF LogWalks
<1> QED BY <1>4, <1>5 DEF Logs!SanitizeEntries, w1, w2

(* A walk asks for objects below only within the depth.                     *)
LEMMA SameBelow ==
    ASSUME LogGraph, NEW f \in [Calls -> LogWalks], NEW g \in [Calls -> LogWalks],
           NEW o \in Nodes, NEW w \in LogWalks, NEW d \in Nat,
           \A y \in Calls : y[3] = d + 1 /\ d + 1 < MaxDepth => f[y] = g[y]
    PROVE  Logs!SanitizeEntries(f, o, w, d) = Logs!SanitizeEntries(g, o, w, d)
<1>1. ASSUME NEW k \in Logs!Keys, NEW w1 \in LogWalks
      PROVE  Logs!SanitizeEntry(f, o, k, w1, d) = Logs!SanitizeEntry(g, o, k, w1, d)
  <2>1. CASE field[o][k] = "absent"
    BY <2>1 DEF Logs!SanitizeEntry
  <2>2. CASE field[o][k] # "absent"
    <3> DEFINE found == Logs!SanitizeValue(o, k, w1, d + 1)
    <3>1. found \in LogWalks
      BY <1>1, <2>2, SanitizeValueType
    <3> HIDE DEF found
    <3>2. ASSUME Logs!Opens(field[o][k], w1, d + 1)
          PROVE  f[<<field[o][k], found, d + 1>>] = g[<<field[o][k], found, d + 1>>]
      <4> DEFINE y == <<field[o][k], found, d + 1>>
      <4>1. y \in Calls /\ y[3] = d + 1 /\ d + 1 < MaxDepth
        BY <3>1, <3>2 DEF Calls, Logs!Opens, Nodes, Payload!Nodes, Logs!Nodes
      <4> HIDE DEF y
      <4>2. f[y] = g[y]
        BY <4>1
      <4> QED BY <4>2, Zenon DEF y
    <3>3. Logs!SanitizeInternal(f, o, k, w1, d + 1) = Logs!SanitizeInternal(g, o, k, w1, d + 1)
      BY <3>2 DEF Logs!SanitizeInternal, found
    <3> QED BY <3>3 DEF Logs!SanitizeEntry
  <2> QED BY <2>1, <2>2
<1>2. "left" \in Logs!Keys /\ "right" \in Logs!Keys /\ "private" \in Logs!Keys
  BY DEF Logs!Keys
<1> DEFINE w1 == Logs!SanitizeEntry(f, o, "left", w, d)
           w2 == Logs!SanitizeEntry(f, o, "right", w1, d)
<1>3. w1 \in LogWalks /\ w1 = Logs!SanitizeEntry(g, o, "left", w, d)
  BY <1>1, <1>2, FieldType
<1> HIDE DEF w1
<1>4. w2 \in LogWalks /\ w2 = Logs!SanitizeEntry(g, o, "right", w1, d)
  BY <1>1, <1>2, <1>3, FieldType
<1> HIDE DEF w2
<1>5. Logs!SanitizeEntry(f, o, "private", w2, d) = Logs!SanitizeEntry(g, o, "private", w2, d)
  BY <1>1, <1>2, <1>4
<1> QED BY <1>3, <1>4, <1>5, Zenon DEF Logs!SanitizeEntries, w1, w2

(* So sanitizeObject is what its recursive definition says of it, call by   *)
(* call.                                                                    *)
LEMMA LogsByObjects ==
    ASSUME LogGraph
    PROVE  \A c \in Calls : Logs!SanitizeObject[c]
                                = Logs!SanitizeEntries(Logs!SanitizeObject, c[1], c[2], c[3])
<1> DEFINE n == MaxDepth + 1
           V == [Calls -> LogWalks]
           none == [c \in Calls |-> c[2]]
           step == [i \in 1..n |-> [h \in V |->
                       [c \in Calls |-> Logs!SanitizeEntries(h, c[1], c[2], c[3])]]]
<1>0. n \in Nat /\ MaxDepth \in Nat
  BY GraphAssumption
<1>1. \A c \in Calls : c[1] \in Nodes /\ c[2] \in LogWalks /\ c[3] \in Nat
  BY DEF Calls
<1>2. none \in V
  BY <1>1
<1>3. ASSUME NEW h \in V
      PROVE  [c \in Calls |-> Logs!SanitizeEntries(h, c[1], c[2], c[3])] \in V
  <2>1. \A c \in Calls : Logs!SanitizeEntries(h, c[1], c[2], c[3]) \in LogWalks
    BY <1>1, ObjectType
  <2> QED BY <2>1
<1>4. step \in [1..n -> [V -> V]]
  BY <1>3
<1>5. \A i \in 1..n, h \in V : step[i][h] = [c \in Calls |-> Logs!SanitizeEntries(h, c[1], c[2], c[3])]
  OBVIOUS
<1> HIDE DEF n, V, none, step
<1>6. PICK g \in [0..n -> V] : IsRecursion(g, n, none, step)
  BY <1>0, <1>2, <1>4, RecursionExists
<1>7. ASSUME NEW i \in 1..n
      PROVE  /\ g[i] \in V /\ g[i - 1] \in V
             /\ \A c \in Calls : g[i][c] = Logs!SanitizeEntries(g[i - 1], c[1], c[2], c[3])
  <2>1. i \in 0..n /\ i - 1 \in 0..n
    BY <1>0
  <2>2. g[i] \in V /\ g[i - 1] \in V /\ g[i] = step[i][g[i - 1]]
    BY <1>6, <1>7, <2>1 DEF IsRecursion
  <2>3. g[i] = [c \in Calls |-> Logs!SanitizeEntries(g[i - 1], c[1], c[2], c[3])]
    BY <1>5, <1>7, <2>2
  <2> QED BY <2>2, <2>3
<1> DEFINE level(c) == IF c[3] <= MaxDepth THEN n - c[3] ELSE 1
           f == [c \in Calls |-> g[level(c)][c]]
<1>8. \A c \in Calls : level(c) \in 1..n
  BY <1>0, <1>1 DEF n
<1>9. (\A c \in Calls : f[c] = g[level(c)][c]) /\ f \in [Calls -> LogWalks] /\ f = [c \in Calls |-> f[c]]
  <2>1. \A c \in Calls : g[level(c)] \in V
    BY <1>7, <1>8
  <2>2. \A c \in Calls : g[level(c)][c] \in LogWalks
    BY <2>1 DEF V
  <2> QED BY <2>2
<1> HIDE DEF f
<1>10. ASSUME NEW c \in Calls
       PROVE  f[c] = Logs!SanitizeEntries(f, c[1], c[2], c[3])
  <2> DEFINE i == level(c)
  <2>1. i \in 1..n /\ f[c] = g[i][c] /\ g[i - 1] \in [Calls -> LogWalks]
        /\ g[i][c] = Logs!SanitizeEntries(g[i - 1], c[1], c[2], c[3])
    BY <1>7, <1>8, <1>9 DEF V
  <2>2. ASSUME NEW y \in Calls, y[3] = c[3] + 1, c[3] + 1 < MaxDepth
        PROVE  g[i - 1][y] = f[y]
    <3>1. i = n - c[3] /\ level(y) = n - (c[3] + 1) /\ n - (c[3] + 1) = i - 1
      BY <1>0, <1>1, <2>2 DEF n
    <3>2. f[y] = g[level(y)][y]
      BY <1>9
    <3> QED BY <3>1, <3>2
  <2> HIDE DEF i
  <2>3. Logs!SanitizeEntries(g[i - 1], c[1], c[2], c[3]) = Logs!SanitizeEntries(f, c[1], c[2], c[3])
    BY <1>1, <1>9, <2>1, <2>2, SameBelow
  <2> QED BY <2>1, <2>3
<1>11. f = [c \in Calls |-> Logs!SanitizeEntries(f, c[1], c[2], c[3])]
  BY <1>9, <1>10
<1>12. Calls = Logs!Nodes \X Logs!Walks \X Nat
  BY DEF Calls, LogWalks, Entries, Readings, Nodes, Payload!Nodes, Logs!Nodes, Logs!Walks
<1>13. Logs!SanitizeObject
           = [c \in Calls |-> Logs!SanitizeEntries(Logs!SanitizeObject, c[1], c[2], c[3])]
  BY <1>11, <1>12 DEF Logs!SanitizeObject
<1> DEFINE S == Logs!SanitizeObject
<1>14. S = [c \in Calls |-> Logs!SanitizeEntries(S, c[1], c[2], c[3])]
  BY <1>13
<1> HIDE DEF S
<1>15. \A c \in Calls : S[c] = Logs!SanitizeEntries(S, c[1], c[2], c[3])
  BY <1>14
<1> QED BY <1>15 DEF S

-----------------------------------------------------------------------------
(* Log lines: what a walk adds                                              *)

(* What names that are not sensitive lead to.                               *)
OpenNodes == Payload!Reachable({Root}, {"left", "right"})

(* They are closed under the names that are not sensitive.                  *)
LEMMA OpenIsClosed ==
    /\ OpenNodes \in SUBSET Nodes /\ Root \in OpenNodes
    /\ \A o \in OpenNodes, k \in {"left", "right"} :
           field[o][k] \in Nodes => field[o][k] \in OpenNodes
    /\ OpenNodes = Logs!Reachable({Root}, {"left", "right"})
<1>1. {Root} \in SUBSET Nodes
  BY DEF Nodes, Payload!Nodes
<1>2. /\ OpenNodes \in SUBSET Nodes /\ Root \in OpenNodes
      /\ \A o \in OpenNodes : Payload!Children(o, {"left", "right"}) \subseteq OpenNodes
  BY <1>1, ReachableIsClosed DEF OpenNodes
<1>3. OpenNodes = Logs!Reachable({Root}, {"left", "right"})
  BY Zenon DEF OpenNodes, Payload!Reachable, Logs!Reachable, Payload!After, Logs!After,
               Payload!Children, Logs!Children, Payload!Nodes, Logs!Nodes,
               Payload!Cardinality, Logs!Cardinality
<1> QED BY <1>2, <1>3 DEF Payload!Children, Nodes

(* Every entry of the log so far is of an open object that the walk has     *)
(* seen, hides what is private, and is the only one of its field.           *)
Clean(w) ==
    /\ \A i \in 1..Len(w.written) :
           /\ w.written[i][1] \in OpenNodes /\ w.written[i][1] \in w.seen
           /\ w.written[i][2] = "private" => w.written[i][3] = "redacted"
    /\ \A i, j \in 1..Len(w.written) :
           w.written[i][1] = w.written[j][1] /\ w.written[i][2] = w.written[j][2] => i = j

Unwritten(o, k, w) ==
    \A i \in 1..Len(w.written) : ~(w.written[i][1] = o /\ w.written[i][2] = k)

(* From w to w2 the log of o has grown by the fields in ks and by objects   *)
(* that had not been seen.                                                  *)
Grew(o, ks, w, w2) ==
    /\ w2 \in LogWalks /\ Clean(w2) /\ w.seen \subseteq w2.seen
    /\ Len(w.written) <= Len(w2.written)
    /\ \A i \in 1..Len(w.written) : w2.written[i] = w.written[i]
    /\ \A i \in Len(w.written) + 1..Len(w2.written) :
           \/ w2.written[i][1] = o /\ w2.written[i][2] \in ks
           \/ w2.written[i][1] \notin w.seen

Shown(o, k, w) ==
    \/ field[o][k] = "absent"
    \/ \E i \in 1..Len(w.written) : w.written[i][1] = o /\ w.written[i][2] = k
    \/ k # "private" /\ field[o][k] \in w.seen

(* A clean log has grown by nothing from itself.                            *)
LEMMA GrewStays ==
    ASSUME NEW o, NEW ks, NEW w \in LogWalks, Clean(w)
    PROVE  Grew(o, ks, w, w)
BY DEF Grew, LogWalks

(* Growing by some fields and then by others is growing by both.            *)
LEMMA GrewTwice ==
    ASSUME NEW o, NEW k1, NEW k2, NEW w, w \in LogWalks, NEW w1, NEW w2,
           Grew(o, k1, w, w1), Grew(o, k2, w1, w2)
    PROVE  Grew(o, k1 \cup k2, w, w2)
<1> DEFINE l == Len(w.written)
           l1 == Len(w1.written)
           l2 == Len(w2.written)
<1>1. l \in Nat /\ l1 \in Nat /\ l2 \in Nat /\ l <= l1 /\ l1 <= l2
  BY DEF Grew, LogWalks
<1>2. \A i \in 1..l : i \in 1..l1 /\ w2.written[i] = w.written[i]
  BY <1>1 DEF Grew
<1>3. ASSUME NEW i \in l + 1..l2
      PROVE  \/ w2.written[i][1] = o /\ w2.written[i][2] \in k1 \cup k2
             \/ w2.written[i][1] \notin w.seen
  <2>1. CASE i \in 1..l1
    <3>1. i \in l + 1..l1 /\ w2.written[i] = w1.written[i]
      BY <1>1, <2>1 DEF Grew
    <3> QED BY <3>1 DEF Grew
  <2>2. CASE i \in l1 + 1..l2
    BY <2>2 DEF Grew
  <2> QED BY <1>1, <2>1, <2>2
<1> QED BY <1>1, <1>2, <1>3 DEF Grew

(* What is outside those fields is not written meanwhile, ...               *)
LEMMA StillUnwritten ==
    ASSUME NEW o, NEW ks, NEW k, k \notin ks, NEW w \in LogWalks, NEW w2, Grew(o, ks, w, w2),
           o \in w.seen, Unwritten(o, k, w)
    PROVE  Unwritten(o, k, w2)
<1> SUFFICES ASSUME NEW i \in 1..Len(w2.written)
             PROVE  ~(w2.written[i][1] = o /\ w2.written[i][2] = k)
  BY DEF Unwritten
<1>1. Len(w.written) \in Nat /\ Len(w2.written) \in Nat
  BY DEF Grew, LogWalks
<1>2. CASE i \in 1..Len(w.written)
  <2>1. w2.written[i] = w.written[i]
    BY <1>2 DEF Grew
  <2> QED BY <1>2, <2>1 DEF Unwritten
<1>3. CASE i \in Len(w.written) + 1..Len(w2.written)
  BY <1>3 DEF Grew
<1> QED BY <1>1, <1>2, <1>3

(* ... and what is shown stays shown.                                       *)
LEMMA StillShown ==
    ASSUME NEW o, NEW k, NEW p, NEW ks, NEW w \in LogWalks, NEW w2,
           Grew(p, ks, w, w2), Shown(o, k, w)
    PROVE  Shown(o, k, w2)
<1>1. Len(w.written) \in Nat /\ Len(w2.written) \in Nat /\ Len(w.written) <= Len(w2.written)
  BY DEF Grew, LogWalks
<1>2. ASSUME NEW i \in 1..Len(w.written), w.written[i][1] = o, w.written[i][2] = k
      PROVE  Shown(o, k, w2)
  <2>1. i \in 1..Len(w2.written) /\ w2.written[i] = w.written[i]
    BY <1>1 DEF Grew
  <2> QED BY <1>2, <2>1 DEF Shown
<1>3. ASSUME k # "private", field[o][k] \in w.seen
      PROVE  Shown(o, k, w2)
  BY <1>3 DEF Shown, Grew
<1>4. CASE field[o][k] = "absent"
  BY <1>4 DEF Shown
<1> QED BY <1>2, <1>3, <1>4 DEF Shown

(* Writing one field, redacted if it is private.                            *)
LEMMA WritingGrows ==
    ASSUME NEW w \in LogWalks, Clean(w), NEW o \in OpenNodes, o \in w.seen,
           NEW k \in Logs!Keys, Unwritten(o, k, w), NEW what \in Readings,
           k = "private" => what = "redacted"
    PROVE  /\ Grew(o, {k}, w, Logs!Wrote(w, o, k, what))
           /\ Shown(o, k, Logs!Wrote(w, o, k, what))
           /\ Logs!Wrote(w, o, k, what).thrown = w.thrown
<1> DEFINE w2 == Logs!Wrote(w, o, k, what)
           entry == <<o, k, what>>
           l == Len(w.written)
<1>1. /\ w2 \in LogWalks /\ w2.seen = w.seen /\ w2.thrown = w.thrown
      /\ w2.written = Append(w.written, entry)
  BY WroteFacts, OpenIsClosed
<1>2. entry \in Entries /\ w.written \in Seq(Entries) /\ l \in Nat
  BY OpenIsClosed DEF Entries, LogWalks
<1>3. entry[1] = o /\ entry[2] = k /\ entry[3] = what
  OBVIOUS
<1> HIDE DEF w2, entry
<1> DEFINE more == w2.written
<1>4. /\ Len(more) = l + 1 /\ \A i \in 1..l : more[i] = w.written[i]
      /\ more[l + 1] = entry
  BY <1>1, <1>2, AppendProperties
<1> HIDE DEF more, l
<1>5. \A i \in 1..l + 1 : i \in 1..l \/ i = l + 1
  BY <1>2
<1>6. \A i \in 1..Len(more) :
          /\ more[i][1] \in OpenNodes /\ more[i][1] \in w2.seen
          /\ more[i][2] = "private" => more[i][3] = "redacted"
  <2> TAKE i \in 1..Len(more)
  <2>1. CASE i \in 1..l
    BY <1>1, <1>4, <2>1 DEF Clean, l
  <2>2. CASE i = l + 1
    BY <1>1, <1>3, <1>4, <2>2
  <2> QED BY <1>4, <1>5, <2>1, <2>2
<1>7. \A i, j \in 1..Len(more) : more[i][1] = more[j][1] /\ more[i][2] = more[j][2] => i = j
  <2>1. \A i \in 1..l : ~(more[i][1] = o /\ more[i][2] = k)
    BY <1>4 DEF Unwritten, l
  <2>2. more[l + 1][1] = o /\ more[l + 1][2] = k
    BY <1>3, <1>4
  <2>3. \A i, j \in 1..l : more[i][1] = more[j][1] /\ more[i][2] = more[j][2] => i = j
    BY <1>4 DEF Clean, l
  <2> QED BY <1>4, <1>5, <2>1, <2>2, <2>3
<1>8. Clean(w2)
  BY <1>6, <1>7 DEF Clean, more
<1>9. Grew(o, {k}, w, w2)
  <2>1. l + 1 \in l + 1..l + 1 /\ l <= l + 1 /\ \A i \in l + 1..l + 1 : i = l + 1
    BY <1>2
  <2>2. \A i \in l + 1..Len(more) : more[i][1] = o /\ more[i][2] \in {k}
    BY <1>3, <1>4, <2>1
  <2> QED BY <1>1, <1>4, <1>8, <2>1, <2>2 DEF Grew, more, l
<1>10. Shown(o, k, w2)
  <2>1. l + 1 \in 1..Len(more) /\ more[l + 1][1] = o /\ more[l + 1][2] = k
    BY <1>2, <1>3, <1>4
  <2> QED BY <2>1 DEF Shown, more
<1> QED BY <1>1, <1>9, <1>10 DEF w2

Sanitize == Logs!SanitizeObject

(* What sanitizeObject is called with, and what it makes of it.             *)
Ready(o, w) ==
    /\ w \in LogWalks /\ ~w.thrown /\ Clean(w)
    /\ o \in OpenNodes /\ o \in w.seen /\ kind[o] # "hostile"
    /\ \A k \in Logs!Keys : Unwritten(o, k, w)

Finished(o, w, w2) ==
    /\ Grew(o, Logs!Keys, w, w2)
    /\ kind[o] # "array" => ~w2.thrown /\ \A k \in Logs!Keys : Shown(o, k, w2)

SoundAt(d) == \A c \in Calls : c[3] = d /\ Ready(c[1], c[2]) => Finished(c[1], c[2], Sanitize[c])

(* The same entries, and as much or more seen.                              *)
LEMMA SameEntriesGrow ==
    ASSUME NEW o, NEW ks, NEW w \in LogWalks, Clean(w), NEW w2 \in LogWalks,
           w2.written = w.written, w.seen \subseteq w2.seen
    PROVE  Grew(o, ks, w, w2) /\ \A p, k : Unwritten(p, k, w) => Unwritten(p, k, w2)
<1>1. Len(w.written) \in Nat
  BY DEF LogWalks
<1>2. Clean(w2)
  BY DEF Clean
<1> QED BY <1>1, <1>2 DEF Grew, Unwritten

(* sanitizeInternal on a field: its leaf, its mark or the object in it.     *)
LEMMA InternalGrows ==
    ASSUME LogGraph, NEW w \in LogWalks, ~w.thrown, Clean(w), NEW o \in OpenNodes, o \in w.seen,
           NEW k \in {"left", "right"}, Unwritten(o, k, w), field[o][k] # "absent",
           NEW d \in Nat, d < MaxDepth => SoundAt(d)
    PROVE  LET w2 == Logs!SanitizeInternal(Sanitize, o, k, w, d) IN
           Grew(o, {k}, w, w2) /\ (~w2.thrown => Shown(o, k, w2))
<1> DEFINE v == field[o][k]
           w2 == Logs!SanitizeInternal(Sanitize, o, k, w, d)
<1>0. o \in Nodes /\ k \in Logs!Keys /\ k # "private"
  BY OpenIsClosed DEF Logs!Keys
<1>1. /\ v \in Nodes \/ v = "text" \/ v = "throws"
      /\ \A p \in Nodes : p # "absent" /\ p # "text" /\ p # "throws"
  BY <1>0, ValuesAre
<1>2. CASE Logs!Opens(v, w, d)
  <2> DEFINE w1 == [w EXCEPT !.seen = @ \cup {v}]
             c == <<v, w1, d>>
  <2>1. v \in Nodes /\ kind[v] # "hostile" /\ d < MaxDepth /\ v \notin w.seen
    BY <1>2 DEF Logs!Opens, Nodes, Payload!Nodes, Logs!Nodes
  <2>2. /\ w1 \in LogWalks /\ w1.seen = w.seen \cup {v} /\ w1.written = w.written
        /\ w1.thrown = w.thrown
    BY <2>1 DEF LogWalks
  <2>3. w2 = Sanitize[c]
    BY <1>2 DEF Logs!SanitizeInternal, Logs!SanitizeValue
  <2> HIDE DEF w1
  <2>4. v \in OpenNodes
    BY <2>1, OpenIsClosed
  <2>5. \A q \in Logs!Keys : Unwritten(v, q, w1)
    BY <2>1, <2>2 DEF Unwritten, Clean
  <2>6. Clean(w1)
    BY <2>2, SameEntriesGrow DEF Grew
  <2>7. Ready(v, w1)
    BY <2>1, <2>2, <2>4, <2>5, <2>6 DEF Ready
  <2>8. c \in Calls /\ c[1] = v /\ c[2] = w1 /\ c[3] = d
    BY <2>1, <2>2 DEF Calls
  <2> HIDE DEF c, w2, v
  <2>9. Finished(v, w1, Sanitize[c])
    BY <2>1, <2>7, <2>8 DEF SoundAt
  <2>10. Grew(v, Logs!Keys, w1, w2)
    BY <2>3, <2>9 DEF Finished
  <2>11. Grew(o, {k}, w, w2)
    BY <2>1, <2>2, <2>10 DEF Grew
  <2>12. Shown(o, k, w2)
    BY <1>0, <2>2, <2>10 DEF Grew, Shown, v
  <2> QED BY <2>11, <2>12 DEF w2
<1>3. CASE ~Logs!Opens(v, w, d) /\ (v = "throws" \/ (v \in Nodes /\ kind[v] = "hostile"))
  <2> DEFINE w1 == [w EXCEPT !.thrown = TRUE]
  <2>1. w1 \in LogWalks /\ w1.seen = w.seen /\ w1.written = w.written /\ w1.thrown
    BY DEF LogWalks
  <2>2. w2 = w1
    BY <1>3 DEF Logs!SanitizeInternal, Logs!SanitizeValue, Nodes, Payload!Nodes, Logs!Nodes
  <2> HIDE DEF w1
  <2>3. Grew(o, {k}, w, w1)
    BY <2>1, SameEntriesGrow
  <2> HIDE DEF w2
  <2> QED BY <2>1, <2>2, <2>3 DEF w2
<1>4. CASE ~Logs!Opens(v, w, d) /\ ~(v = "throws" \/ (v \in Nodes /\ kind[v] = "hostile"))
  <2> DEFINE what == IF v \notin Nodes THEN v ELSE IF d >= MaxDepth THEN "truncated" ELSE "circular"
  <2>1. what \in Readings
    <3>1. v \notin Nodes => v = "text"
      BY <1>1, <1>4
    <3> QED BY <3>1 DEF Readings, Logs!Marks
  <2>2. w2 = Logs!Wrote(w, o, k, what)
    BY <1>4 DEF Logs!SanitizeInternal, Logs!SanitizeValue, Nodes, Payload!Nodes, Logs!Nodes
  <2> HIDE DEF what, w2
  <2>3. Grew(o, {k}, w, w2) /\ Shown(o, k, w2)
    BY <1>0, <2>1, <2>2, WritingGrows
  <2> QED BY <2>3 DEF w2
<1> QED BY <1>2, <1>3, <1>4

(* One turn of the loop over the entries: its own catch keeps what is       *)
(* thrown.                                                                  *)
LEMMA EntryGrows ==
    ASSUME LogGraph, NEW w \in LogWalks, Clean(w), NEW o \in OpenNodes, o \in w.seen,
           kind[o] # "array" => ~w.thrown,
           NEW k \in Logs!Keys, Unwritten(o, k, w),
           NEW d \in Nat, d + 1 < MaxDepth => SoundAt(d + 1)
    PROVE  LET w2 == Logs!SanitizeEntry(Sanitize, o, k, w, d) IN
           Grew(o, {k}, w, w2) /\ (kind[o] # "array" => ~w2.thrown /\ Shown(o, k, w2))
<1> DEFINE w2 == Logs!SanitizeEntry(Sanitize, o, k, w, d)
           below == Logs!SanitizeInternal(Sanitize, o, k, w, d + 1)
<1>0. o \in Nodes /\ d + 1 \in Nat
  BY OpenIsClosed
<1>1. CASE field[o][k] = "absent" \/ w.thrown
  <2>1. w2 = w
    BY <1>1 DEF Logs!SanitizeEntry
  <2>2. kind[o] # "array" => ~w2.thrown /\ Shown(o, k, w2)
    BY <1>1, <2>1 DEF Shown
  <2> QED BY <2>1, <2>2, GrewStays
<1>2. CASE field[o][k] # "absent" /\ ~w.thrown /\ kind[o] = "array"
  <2>1. k # "private"
    BY <1>0, <1>2 DEF LogGraph
  <2>2. w2 = below /\ k \in {"left", "right"}
    BY <1>2, <2>1 DEF Logs!SanitizeEntry, Logs!Keys
  <2>3. Grew(o, {k}, w, below)
    BY <1>0, <1>2, <2>2, InternalGrows
  <2> HIDE DEF w2, below
  <2>4. Grew(o, {k}, w, w2)
    BY <2>2, <2>3
  <2> QED BY <1>2, <2>4 DEF w2
<1>3. CASE field[o][k] # "absent" /\ ~w.thrown /\ kind[o] # "array" /\ k = "private"
  <2>1. w2 = Logs!Wrote(w, o, k, "redacted")
    BY <1>3 DEF Logs!SanitizeEntry, Logs!IsSensitive
  <2>2. "redacted" \in Readings
    BY DEF Readings, Logs!Marks
  <2> HIDE DEF w2
  <2>3. Grew(o, {k}, w, w2) /\ Shown(o, k, w2) /\ ~w2.thrown
    BY <1>3, <2>1, <2>2, WritingGrows
  <2> QED BY <2>3 DEF w2
<1>4. CASE field[o][k] # "absent" /\ ~w.thrown /\ kind[o] # "array" /\ k # "private"
  <2>1. w2 = Logs!Caught(below, w, o, k) /\ k \in {"left", "right"}
    BY <1>4 DEF Logs!SanitizeEntry, Logs!IsSensitive, Logs!Keys
  <2>2. Grew(o, {k}, w, below) /\ (~below.thrown => Shown(o, k, below))
    BY <1>0, <1>4, <2>1, InternalGrows
  <2> HIDE DEF w2, below
  <2>3. CASE ~below.thrown
    <3>1. w2 = below
      BY <2>1, <2>3 DEF Logs!Caught
    <3>2. Grew(o, {k}, w, w2) /\ Shown(o, k, w2) /\ ~w2.thrown
      BY <2>2, <2>3, <3>1
    <3> QED BY <3>2 DEF w2
  <2>4. CASE below.thrown
    <3> DEFINE back == [below EXCEPT !.thrown = FALSE, !.written = w.written]
    <3>1. below \in LogWalks /\ w.seen \subseteq below.seen
      BY <2>2 DEF Grew
    <3>2. back \in LogWalks /\ back.seen = below.seen /\ back.written = w.written /\ ~back.thrown
      BY <3>1 DEF LogWalks
    <3>3. w2 = Logs!Wrote(back, o, k, "unserializable")
      BY <2>1, <2>4 DEF Logs!Caught
    <3> HIDE DEF back
    <3>4. Grew(o, {k}, w, back) /\ Unwritten(o, k, back)
      BY <3>1, <3>2, SameEntriesGrow
    <3>5. Clean(back) /\ o \in back.seen
      BY <3>1, <3>2, <3>4 DEF Grew
    <3>6. "unserializable" \in Readings
      BY DEF Readings, Logs!Marks
    <3>7. Grew(o, {k}, back, w2) /\ Shown(o, k, w2) /\ ~w2.thrown
      BY <1>4, <3>2, <3>3, <3>4, <3>5, <3>6, WritingGrows
    <3>8. Grew(o, {k} \cup {k}, w, w2)
      BY <3>4, <3>7, GrewTwice
    <3>9. {k} \cup {k} = {k}
      OBVIOUS
    <3>10. Grew(o, {k}, w, w2)
      BY <3>8, <3>9
    <3> QED BY <3>7, <3>10 DEF w2
  <2> QED BY <2>3, <2>4
<1> QED BY <1>1, <1>2, <1>3, <1>4

(* The loop, unless an array throws on the way.                             *)
LEMMA EntriesGrow ==
    ASSUME LogGraph, NEW o, NEW w, Ready(o, w), NEW d \in Nat, d + 1 < MaxDepth => SoundAt(d + 1)
    PROVE  Finished(o, w, Logs!SanitizeEntries(Sanitize, o, w, d))
<1> DEFINE w1 == Logs!SanitizeEntry(Sanitize, o, "left", w, d)
           w2 == Logs!SanitizeEntry(Sanitize, o, "right", w1, d)
           w3 == Logs!SanitizeEntry(Sanitize, o, "private", w2, d)
           K == Logs!Keys
<1>0. /\ "left" \in K /\ "right" \in K /\ "private" \in K
      /\ K = {"left"} \cup ({"right"} \cup {"private"})
  BY DEF Logs!Keys
<1>1. /\ w \in LogWalks /\ ~w.thrown /\ Clean(w) /\ o \in OpenNodes /\ o \in w.seen
      /\ \A k \in K : Unwritten(o, k, w)
  BY DEF Ready
<1>2. Grew(o, {"left"}, w, w1) /\ (kind[o] # "array" => ~w1.thrown /\ Shown(o, "left", w1))
  BY <1>0, <1>1, EntryGrows
<1> HIDE DEF w1
<1>3. w1 \in LogWalks /\ Clean(w1) /\ o \in w1.seen
  BY <1>1, <1>2 DEF Grew
<1>4. Unwritten(o, "right", w1) /\ Unwritten(o, "private", w1)
  BY <1>0, <1>1, <1>2, StillUnwritten
<1>5. Grew(o, {"right"}, w1, w2) /\ (kind[o] # "array" => ~w2.thrown /\ Shown(o, "right", w2))
  BY <1>0, <1>1, <1>2, <1>3, <1>4, EntryGrows
<1> HIDE DEF w2
<1>6. w2 \in LogWalks /\ Clean(w2) /\ o \in w2.seen
  BY <1>3, <1>5 DEF Grew
<1>7. Unwritten(o, "private", w2)
  BY <1>3, <1>4, <1>5, StillUnwritten
<1>8. Grew(o, {"private"}, w2, w3) /\ (kind[o] # "array" => ~w3.thrown /\ Shown(o, "private", w3))
  BY <1>0, <1>1, <1>5, <1>6, <1>7, EntryGrows
<1> HIDE DEF w3
<1>9. Grew(o, {"right"} \cup {"private"}, w1, w3)
  BY <1>3, <1>5, <1>8, GrewTwice
<1>10. Grew(o, K, w, w3)
  <2>1. Grew(o, {"left"} \cup ({"right"} \cup {"private"}), w, w3)
    BY <1>1, <1>2, <1>9, GrewTwice
  <2> QED BY <1>0, <2>1
<1>11. ASSUME kind[o] # "array"
       PROVE  ~w3.thrown /\ \A k \in K : Shown(o, k, w3)
  <2>1. Shown(o, "left", w3)
    BY <1>2, <1>3, <1>9, <1>11, StillShown
  <2>2. Shown(o, "right", w3)
    BY <1>5, <1>6, <1>8, <1>11, StillShown
  <2> QED BY <1>8, <1>11, <2>1, <2>2 DEF Logs!Keys
<1>12. CASE kind[o] = "array" /\ \E k \in K : field[o][k] = "throws"
  <2> DEFINE w4 == [w EXCEPT !.thrown = TRUE]
  <2>1. w4 \in LogWalks /\ w4.seen = w.seen /\ w4.written = w.written
    BY <1>1 DEF LogWalks
  <2>2. Logs!SanitizeEntries(Sanitize, o, w, d) = w4
    BY <1>12 DEF Logs!SanitizeEntries
  <2> HIDE DEF w4
  <2>3. Grew(o, K, w, w4)
    BY <1>1, <2>1, SameEntriesGrow
  <2> QED BY <1>12, <2>2, <2>3 DEF Finished
<1>13. CASE ~(kind[o] = "array" /\ \E k \in K : field[o][k] = "throws")
  <2>1. Logs!SanitizeEntries(Sanitize, o, w, d) = w3
    BY <1>13, Zenon DEF Logs!SanitizeEntries, w1, w2, w3
  <2> QED BY <1>10, <1>11, <2>1 DEF Finished
<1> QED BY <1>12, <1>13

(* From the depth limit upwards, every call is sound.                       *)
LEMMA WalksAreSound ==
    ASSUME LogGraph
    PROVE  SoundAt(0)
<1> DEFINE Good == {j \in Nat : \A d \in Nat : d + j = MaxDepth => SoundAt(d)}
<1>0. MaxDepth \in Nat
  BY GraphAssumption
<1>1. ASSUME NEW d \in Nat, d + 1 < MaxDepth => SoundAt(d + 1)
      PROVE  SoundAt(d)
  <2> SUFFICES ASSUME NEW c \in Calls, c[3] = d, Ready(c[1], c[2])
               PROVE  Finished(c[1], c[2], Sanitize[c])
    BY DEF SoundAt
  <2>1. Sanitize[c] = Logs!SanitizeEntries(Sanitize, c[1], c[2], c[3])
    BY LogsByObjects DEF Sanitize
  <2>2. Finished(c[1], c[2], Logs!SanitizeEntries(Sanitize, c[1], c[2], d))
    BY <1>1, EntriesGrow
  <2> QED BY <2>1, <2>2
<1>2. 0 \in Good
  <2> SUFFICES ASSUME NEW d \in Nat, d + 0 = MaxDepth
               PROVE  SoundAt(d)
    OBVIOUS
  <2>1. ~(d + 1 < MaxDepth)
    BY <1>0
  <2> QED BY <1>1, <2>1
<1>3. ASSUME NEW j \in Nat, j \in Good PROVE j + 1 \in Good
  <2> SUFFICES ASSUME NEW d \in Nat, d + (j + 1) = MaxDepth
               PROVE  SoundAt(d)
    OBVIOUS
  <2>1. d + 1 \in Nat /\ (d + 1) + j = MaxDepth
    BY <1>0
  <2>2. SoundAt(d + 1)
    BY <1>3, <2>1
  <2> QED BY <1>1, <2>2
<1> HIDE DEF Good
<1>4. MaxDepth \in Good
  BY <1>0, <1>2, <1>3, SetInduction
<1> QED BY <1>0, <1>4 DEF Good

(* The property of log lines, whose walk starts from an empty log.          *)
LEMMA LogLinesAreSafe == LogInv => LogsAreSafe
<1> SUFFICES ASSUME LogGraph
             PROVE  /\ Logs!NothingSensitiveIsLogged /\ Logs!WrittenOnce
                    /\ Logs!RootSurvives
  BY DEF LogInv, LogsAreSafe
<1> DEFINE w == [seen |-> {Root}, written |-> <<>>, thrown |-> FALSE]
           c == <<Root, w, 0>>
           log == Logs!Logged
<1>1. /\ w \in LogWalks /\ w.seen = {Root} /\ w.written = <<>> /\ ~w.thrown
      /\ Root \in Nodes
  <2>1. Root \in Nodes
    BY DEF Nodes, Payload!Nodes
  <2>2. <<>> \in Seq(Entries)
    OBVIOUS
  <2> QED BY <2>1, <2>2 DEF LogWalks
<1>2. log = Sanitize[c]
  BY DEF Logs!Logged, Sanitize
<1> HIDE DEF w
<1>3. c \in Calls /\ c[1] = Root /\ c[2] = w /\ c[3] = 0
  BY <1>1 DEF Calls
<1>4. Ready(Root, w)
  <2>1. Len(w.written) = 0
    BY <1>1
  <2>2. Clean(w) /\ \A k \in Logs!Keys : Unwritten(Root, k, w)
    BY <2>1 DEF Clean, Unwritten
  <2>3. Root \in w.seen /\ kind[Root] # "hostile"
    BY <1>1 DEF LogGraph
  <2> QED BY <1>1, <2>2, <2>3, OpenIsClosed DEF Ready
<1> HIDE DEF c, log
<1>5. Finished(Root, w, log)
  BY <1>2, <1>3, <1>4, WalksAreSound DEF SoundAt
<1>6. log \in LogWalks /\ Clean(log)
  BY <1>5 DEF Finished, Grew
<1>7. DOMAIN log.written = 1..Len(log.written)
  BY <1>6 DEF LogWalks
<1>8. Logs!NothingSensitiveIsLogged
  <2>1. ASSUME NEW entry \in Logs!Range(Logs!Logged.written)
        PROVE  entry[1] \in OpenNodes /\ (entry[2] = "private" => entry[3] = "redacted")
    <3>1. PICK i \in 1..Len(log.written) : entry = log.written[i]
      BY <1>7 DEF Logs!Range, log
    <3> QED BY <1>6, <3>1 DEF Clean
  <2> QED BY <2>1, OpenIsClosed DEF Logs!NothingSensitiveIsLogged
<1>9. Logs!WrittenOnce
  BY <1>6, <1>7 DEF Logs!WrittenOnce, Clean, log
<1>10. Logs!RootSurvives
  <2>1. ~log.thrown /\ \A k \in Logs!Keys : Shown(Root, k, log)
    BY <1>5 DEF Finished, LogGraph
  <2>2. ASSUME NEW k \in Logs!Keys, field[Root][k] # "absent"
        PROVE  \/ \E entry \in Logs!Range(log.written) : entry[1] = Root /\ entry[2] = k
               \/ k # "private" /\ field[Root][k] \in log.seen
    <3>1. \A i \in 1..Len(log.written) : log.written[i] \in Logs!Range(log.written)
      BY <1>7 DEF Logs!Range
    <3> QED BY <2>1, <2>2, <3>1 DEF Shown
  <2> QED BY <2>1, <2>2 DEF Logs!RootSurvives, log
<1> QED BY <1>8, <1>9, <1>10

-----------------------------------------------------------------------------
(* The properties of the run                                                *)

LEMMA GraphsInvariant == Spec => [](PayloadInv /\ LogInv)
<1>1. Init => PayloadInv /\ LogInv
  BY PayloadInvInit, LogInvInit
<1>2. PayloadInv /\ LogInv /\ [Next]_vars => (PayloadInv /\ LogInv)'
  BY PayloadInvStep, LogInvStep
<1> QED BY <1>1, <1>2, PTL DEF Spec

(* The producer's check of a payload, a walk that follows each path with    *)
(* its own ancestors, accepts exactly the graphs that JSON keeps as they    *)
(* are and that the worker's second check accepts again: whatever is shared *)
(* and however deep, no cycle, nothing that JSON drops or changes, and no   *)
(* path longer than the limit.                                              *)
THEOREM PayloadsStayFaithful == Spec => []AcceptsWhatJsonKeeps
<1> QED BY PayloadsAgree, GraphsInvariant, PTL

(* Sanitising one value for the log shows nothing below a sensitive name,   *)
(* writes no field of an object twice, whatever is shared or cyclic, and    *)
(* keeps every field of the value when parts of it throw as they are read:  *)
(* for graphs of any number of objects and any limit on the depth.          *)
THEOREM LogsStaySafe == Spec => []LogsAreSafe
<1> QED BY LogLinesAreSafe, GraphsInvariant, PTL
=============================================================================
