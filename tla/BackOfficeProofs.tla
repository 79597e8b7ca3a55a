--------------------------- MODULE BackOfficeProofs ---------------------------
(***************************************************************************)
(* Proofs about AdminAuthority, VenueAccounts and VenueDesk, for any       *)
(* administrators, accounts, venues and calls.                             *)
(***************************************************************************)
EXTENDS MCBackOffice, FiniteSetTheorems, TLAPS

\* A set of natural numbers has a least one.
LEMMA LeastNumber ==
    ASSUME NEW S \in SUBSET Nat, S # {}
    PROVE  \E n \in S : \A m \in S : n <= m
  <1> DEFINE R == {p \in Nat \X Nat : p[1] < p[2]}
  <1>1. IsWellFoundedOn(OpToRel(<, Nat), Nat)
    BY NatLessThanWellFounded
  <1>2. OpToRel(<, Nat) = R
    BY DEF OpToRel
  <1>3. IsWellFoundedOn(R, Nat)
    BY <1>1, <1>2
  <1>4. \A m, n \in Nat : ~ (<<m, n>> \in R) => n <= m
    OBVIOUS
  <1> HIDE DEF R
  <1>5. PICK n \in S : \A m \in S : ~ (<<m, n>> \in R)
    BY <1>3, WFMin
  <1> QED
    BY <1>4, <1>5

-----------------------------------------------------------------------------
(* AdminAuthority *)

AdminRecord == [role : Role, permissions : PermissionSet, active : BOOLEAN]

\* No permission is both granted and denied to an administrator.
AdminInv ==
    admin \in [Administrators -> AdminRecord \cup {NoAdmin}]

LEMMA DefaultsTyped ==
    /\ NoPermissions \in PermissionSet
    /\ SuperAdminPermissions \in PermissionSet
    /\ PlatformAdminPermissions \in PermissionSet
  BY AdminAssumption DEF NoPermissions, SuperAdminPermissions, PlatformAdminPermissions,
                         PermissionSet, Permissions

\* What the operations on permissions make of sets without a contradiction has
\* none either; for merge that takes both entries of the right operand to
\* replace the left one's.
LEMMA OperationsTyped ==
    ASSUME NEW p \in PermissionSet, NEW q \in PermissionSet
    PROVE  /\ \A x \in Permissions :
                GrantPermission(p, x) \in PermissionSet /\ RevokePermission(p, x) \in PermissionSet
           /\ Merge(p, q) \in PermissionSet
           /\ Intersect(p, q) \in PermissionSet
  <1>1. /\ p.yes \subseteq Permissions /\ p.no \subseteq Permissions /\ p.yes \cap p.no = {}
        /\ q.yes \subseteq Permissions /\ q.no \subseteq Permissions /\ q.yes \cap q.no = {}
    BY DEF PermissionSet
  <1>2. \A yes, no \in SUBSET Permissions :
          yes \cap no = {} => [yes |-> yes, no |-> no] \in PermissionSet
    BY DEF PermissionSet
  <1>3. ASSUME NEW x \in Permissions PROVE GrantPermission(p, x) \in PermissionSet
    BY <1>1, <1>2 DEF GrantPermission
  <1>4. ASSUME NEW x \in Permissions PROVE RevokePermission(p, x) \in PermissionSet
    BY <1>1, <1>2 DEF RevokePermission
  <1>5. Merge(p, q) \in PermissionSet
    <2> DEFINE yes == (p.yes \ q.no) \cup q.yes
               no == (p.no \ q.yes) \cup q.no
    <2>1. yes \in SUBSET Permissions /\ no \in SUBSET Permissions /\ yes \cap no = {}
      BY <1>1
    <2> HIDE DEF yes, no
    <2>2. [yes |-> yes, no |-> no] \in PermissionSet
      BY <1>2, <2>1
    <2> QED
      BY <2>2 DEF Merge, yes, no
  <1>6. Intersect(p, q) \in PermissionSet
    BY <1>1, <1>2 DEF Intersect
  <1> QED
    BY <1>3, <1>4, <1>5, <1>6

LEMMA AdminInvKept == AdminInv /\ [AdminNext]_admin => AdminInv'
  <1> SUFFICES ASSUME AdminInv, [AdminNext]_admin PROVE AdminInv'
    OBVIOUS
  <1>1. \A a \in Present : a \in Administrators /\ admin[a] \in AdminRecord
    BY DEF AdminInv, Present
  <1>2. ASSUME NEW a \in Administrators, NEW rec \in AdminRecord, admin' = [admin EXCEPT ![a] = rec]
        PROVE  AdminInv'
    BY <1>2 DEF AdminInv
  <1>3. ASSUME NEW a \in Administrators, NEW r \in Role,
               NEW p \in {NoPermissions, DefaultPermissions(r)}, CreateAdmin(a, r, p)
        PROVE  AdminInv'
    <2>1. p \in PermissionSet
      BY DefaultsTyped DEF DefaultPermissions
    <2>2. [role |-> r, permissions |-> p, active |-> TRUE] \in AdminRecord
      BY <2>1 DEF AdminRecord
    <2> QED
      BY <1>2, <1>3, <2>2 DEF CreateAdmin, Set
  <1>4. ASSUME NEW a \in Administrators, NEW r \in Role, UpdateRole(a, r) PROVE AdminInv'
    <2>1. [admin[a] EXCEPT !.role = r] \in AdminRecord
      BY <1>1, <1>4 DEF UpdateRole, MayUpdate, AdminRecord
    <2> QED
      BY <1>2, <1>4, <2>1 DEF UpdateRole, Set
  <1>5. ASSUME NEW a \in Present, NEW p \in NewPermissions(admin[a].permissions), UpdatePermissions(a, p)
        PROVE  AdminInv'
    <2>1. admin[a] \in AdminRecord /\ admin[a].permissions \in PermissionSet
      BY <1>1 DEF AdminRecord
    <2>2. \A b \in Present : admin[b].permissions \in PermissionSet
      BY <1>1 DEF AdminRecord
    <2> DEFINE held == admin[a].permissions
    <2>3. p \in PermissionSet
      <3>1. CASE p \in {NoPermissions, SuperAdminPermissions, PlatformAdminPermissions}
        BY <3>1, DefaultsTyped
      <3>2. CASE \/ \E x \in Permissions : p = GrantPermission(held, x) \/ p = RevokePermission(held, x)
                 \/ \E b \in Present :
                      \/ p = Merge(held, admin[b].permissions)
                      \/ p = Intersect(held, admin[b].permissions)
        <4> HIDE DEF held
        <4>1. held \in PermissionSet
          BY <2>1 DEF held
        <4> QED
          BY <2>2, <3>2, <4>1, OperationsTyped
      <3> QED
        BY <3>1, <3>2 DEF NewPermissions
    <2>4. [admin[a] EXCEPT !.permissions = p] \in AdminRecord
      BY <2>1, <2>3 DEF AdminRecord
    <2> QED
      BY <1>1, <1>2, <1>5, <2>4 DEF UpdatePermissions, Set
  <1>6. ASSUME NEW a \in Present, ActivateAdmin(a) \/ DeactivateAdmin(a) PROVE AdminInv'
    <2>1. PICK active \in BOOLEAN : admin' = [admin EXCEPT ![a] = [admin[a] EXCEPT !.active = active]]
      BY <1>6 DEF ActivateAdmin, DeactivateAdmin, Set
    <2>2. [admin[a] EXCEPT !.active = active] \in AdminRecord
      BY <1>1 DEF AdminRecord
    <2> QED
      BY <1>1, <1>2, <2>1, <2>2
  <1>7. CASE UNCHANGED admin
    BY <1>7 DEF AdminInv
  <1> QED
    BY <1>3, <1>4, <1>5, <1>6, <1>7 DEF AdminNext

\* AdminInv holds whatever the administrators are given.
THEOREM AdminSpecInv == AdminSpec => []AdminInv
  <1>1. AdminInit => AdminInv
    BY DEF AdminInit, AdminInv
  <1> QED
    BY <1>1, AdminInvKept, PTL DEF AdminSpec

\* The administrators keep to their types: no permission is granted and denied.
THEOREM AdminTypes == AdminSpec => []AdminTypeOK
  <1>1. AdminInv => AdminTypeOK
    BY DEF AdminInv, AdminTypeOK, Present, AdminRecord
  <1> QED
    BY AdminSpecInv, <1>1, PTL

\* A permission that nobody has comes back only by a grant or a preset
\* (PlatformAdministrator.ts, AdminPermissions.ts).
THEOREM NoPermissionOfItself == AdminSpec => PermissionsAreGranted
  <1> DEFINE Gained(x) ==
        (\A b \in Present : ~Has(admin[b].permissions, x)) =>
          \A a \in Administrators :
            admin'[a] # NoAdmin /\ Has(admin'[a].permissions, x) =>
              \/ admin'[a].permissions \in {SuperAdminPermissions, PlatformAdminPermissions}
              \/ a \in Present /\ admin'[a].permissions = GrantPermission(admin[a].permissions, x)
  <1>1. ASSUME AdminInv, [AdminNext]_admin, NEW x \in Permissions PROVE Gained(x)
    <2> SUFFICES ASSUME \A b \in Present : ~Has(admin[b].permissions, x),
                        NEW a \in Administrators,
                        admin'[a] # NoAdmin, Has(admin'[a].permissions, x)
                 PROVE  \/ admin'[a].permissions \in {SuperAdminPermissions, PlatformAdminPermissions}
                        \/ /\ a \in Present
                           /\ admin'[a].permissions = GrantPermission(admin[a].permissions, x)
      OBVIOUS
    <2>1. \A b \in Present : b \in Administrators /\ admin[b] \in AdminRecord
      BY <1>1 DEF AdminInv, Present
    <2>2. \A b \in Administrators : \A rec :
            Set(b, rec) => admin'[a] = IF a = b THEN rec ELSE admin[a]
      BY <1>1 DEF Set, AdminInv
    <2>3. admin'[a] # admin[a]
      BY DEF Present
    <2>4. ASSUME NEW r \in Role, NEW p \in {NoPermissions, DefaultPermissions(r)}, CreateAdmin(a, r, p)
          PROVE  admin'[a].permissions \in {SuperAdminPermissions, PlatformAdminPermissions}
      <3>1. admin'[a].permissions = p
        BY <2>2, <2>4 DEF CreateAdmin
      <3> QED
        BY <2>4, <3>1 DEF NoPermissions, Has, DefaultPermissions
    <2>5. ASSUME NEW r \in Role, UpdateRole(a, r) PROVE FALSE
      <3>1. a \in Present /\ admin'[a] = [admin[a] EXCEPT !.role = r]
        BY <2>2, <2>5 DEF UpdateRole, MayUpdate
      <3>2. admin'[a].permissions = admin[a].permissions
        BY <2>1, <3>1 DEF AdminRecord
      <3> QED
        BY <3>1, <3>2
    <2>6. ASSUME a \in Present, ActivateAdmin(a) \/ DeactivateAdmin(a) PROVE FALSE
      <3>1. \E active \in BOOLEAN : admin'[a] = [admin[a] EXCEPT !.active = active]
        BY <2>2, <2>6 DEF ActivateAdmin, DeactivateAdmin
      <3>2. admin'[a].permissions = admin[a].permissions
        BY <2>1, <2>6, <3>1 DEF AdminRecord
      <3> QED
        BY <2>6, <3>2
    <2>7. ASSUME a \in Present, NEW p \in NewPermissions(admin[a].permissions), UpdatePermissions(a, p)
          PROVE  p = admin'[a].permissions /\
                 (p \in {SuperAdminPermissions, PlatformAdminPermissions}
                    \/ p = GrantPermission(admin[a].permissions, x))
      <3>1. p = admin'[a].permissions
        <4>1. admin'[a] = [admin[a] EXCEPT !.permissions = p]
          BY <2>2, <2>7 DEF UpdatePermissions
        <4> QED
          BY <2>1, <2>7, <4>1 DEF AdminRecord
      <3>2. Has(p, x) /\ ~Has(admin[a].permissions, x)
        BY <2>7, <3>1
      <3>3. p # NoPermissions
        BY <3>2 DEF Has, NoPermissions
      <3>4. ASSUME NEW y \in Permissions, p = GrantPermission(admin[a].permissions, y)
            PROVE  y = x
        BY <3>2, <3>4 DEF Has, GrantPermission
      <3>5. \A y \in Permissions : p # RevokePermission(admin[a].permissions, y)
        BY <3>2 DEF Has, RevokePermission
      <3>6. ASSUME NEW b \in Present,
                   p = Merge(admin[a].permissions, admin[b].permissions)
                     \/ p = Intersect(admin[a].permissions, admin[b].permissions)
            PROVE  FALSE
        <4>1. ~Has(admin[b].permissions, x)
          BY <3>6
        <4> QED
          BY <3>2, <3>6, <4>1 DEF Has, Merge, Intersect
      <3> QED
        BY <2>7, <3>1, <3>3, <3>4, <3>5, <3>6 DEF NewPermissions
    <2>8. ASSUME NEW b \in Administrators, b # a, NEW rec, Set(b, rec) PROVE FALSE
      BY <2>2, <2>3, <2>8
    <2>9. AdminNext
      BY <1>1, <2>3
    <2>10. PICK b \in Administrators :
             \/ \E r \in Role :
                  \/ \E p \in {NoPermissions, DefaultPermissions(r)} : CreateAdmin(b, r, p)
                  \/ UpdateRole(b, r)
             \/ b \in Present /\ \E p \in NewPermissions(admin[b].permissions) : UpdatePermissions(b, p)
             \/ b \in Present /\ (ActivateAdmin(b) \/ DeactivateAdmin(b))
      BY <2>9 DEF AdminNext
    <2>11. \E rec : Set(b, rec)
      BY <2>10 DEF CreateAdmin, UpdateRole, UpdatePermissions, ActivateAdmin, DeactivateAdmin
    <2>12. b = a
      BY <2>8, <2>11
    <2> QED
      BY <2>4, <2>5, <2>6, <2>7, <2>10, <2>12
  <1>2. AdminInv /\ [AdminNext]_admin => [\A x \in Permissions : Gained(x)]_admin
    BY <1>1
  <1> QED
    BY AdminSpecInv, <1>2, PTL DEF AdminSpec, PermissionsAreGranted

-----------------------------------------------------------------------------
(* Sums over finite sets *)

Some(s) == CHOOSE x \in s : TRUE

\* g[s] is the sum of f over s, for the subsets s of S of at most n elements.
SumsUpTo(g, f, S, n) ==
    \A s \in SUBSET S :
        Cardinality(s) <= n => g[s] = IF s = {} THEN 0 ELSE f[Some(s)] + g[s \ {Some(s)}]

\* Without an element a subset has one element less.
LEMMA SomeLess ==
    ASSUME NEW S, IsFiniteSet(S), NEW s \in SUBSET S, s # {}
    PROVE  /\ Some(s) \in s /\ s \ {Some(s)} \in SUBSET S
           /\ Cardinality(s) \in Nat /\ Cardinality(s \ {Some(s)}) = Cardinality(s) - 1
  <1>1. Some(s) \in s
    BY DEF Some
  <1>2. IsFiniteSet(s)
    BY FS_Subset
  <1>3. Cardinality(s) \in Nat
    BY <1>2, FS_CardinalityType
  <1>4. Cardinality(s \ {Some(s)}) = Cardinality(s) - 1
    BY <1>1, <1>2, FS_RemoveElement
  <1> QED
    BY <1>1, <1>3, <1>4

\* There are sums for every bound: of the bounds without, the least would be
\* one above a bound with.
LEMMA PartialSums ==
    ASSUME NEW S, IsFiniteSet(S), NEW f, NEW n \in Nat
    PROVE  \E g : SumsUpTo(g, f, S, n)
  <1> DEFINE Without == {m \in Nat : ~ \E g : SumsUpTo(g, f, S, m)}
  <1> SUFFICES ASSUME Without # {} PROVE FALSE
    OBVIOUS
  <1>1. PICK m \in Without : \A l \in Without : m <= l
    BY LeastNumber
  <1>2. CASE m = 0
    <2> DEFINE g == [s \in SUBSET S |-> 0]
    <2>1. ASSUME NEW s \in SUBSET S, Cardinality(s) <= 0 PROVE s = {}
      BY <2>1, SomeLess, FS_CardinalityType, FS_Subset
    <2>2. SumsUpTo(g, f, S, 0)
      BY <2>1 DEF SumsUpTo
    <2> QED
      BY <1>1, <1>2, <2>2
  <1>3. CASE m # 0
    <2>1. m - 1 \in Nat /\ m - 1 \notin Without
      BY <1>1, <1>3
    <2>2. PICK g : SumsUpTo(g, f, S, m - 1)
      BY <2>1
    <2> DEFINE h == [s \in SUBSET S |-> IF Cardinality(s) <= m - 1 THEN g[s]
                                        ELSE f[Some(s)] + g[s \ {Some(s)}]]
    <2>3. ASSUME NEW s \in SUBSET S, Cardinality(s) <= m
          PROVE  h[s] = IF s = {} THEN 0 ELSE f[Some(s)] + h[s \ {Some(s)}]
      <3>1. CASE s = {}
        <4>1. Cardinality(s) = 0
          BY <3>1, FS_EmptySet
        <4>2. Cardinality(s) <= m - 1
          BY <2>1, <4>1
        <4>3. g[s] = 0
          BY <2>2, <3>1, <4>2 DEF SumsUpTo
        <4> QED
          BY <3>1, <4>2, <4>3
      <3>2. CASE s # {}
        <4>1. /\ s \ {Some(s)} \in SUBSET S
              /\ Cardinality(s) \in Nat /\ Cardinality(s \ {Some(s)}) = Cardinality(s) - 1
          BY <3>2, SomeLess
        <4>2. h[s \ {Some(s)}] = g[s \ {Some(s)}]
          BY <2>1, <2>3, <4>1
        <4>3. Cardinality(s) <= m - 1 => g[s] = f[Some(s)] + g[s \ {Some(s)}]
          BY <2>2, <3>2 DEF SumsUpTo
        <4> QED
          BY <3>2, <4>2, <4>3
      <3> QED
        BY <3>1, <3>2
    <2> HIDE DEF h
    <2>4. SumsUpTo(h, f, S, m)
      BY <2>3 DEF SumsUpTo
    <2> QED
      BY <1>1, <2>4
  <1> QED
    BY <1>2, <1>3

Total(D, subtotal) == MapThenSumSet(LAMBDA d : Amount(d, subtotal), D)

\* The amounts of finitely many discounts, natural numbers, add up to one.
LEMMA AmountsAddUp ==
    ASSUME NEW D, IsFiniteSet(D), NEW subtotal, \A d \in D : Amount(d, subtotal) \in Nat
    PROVE  Total(D, subtotal) \in Nat
  <1> DEFINE f == [d \in D |-> Amount(d, subtotal)]
  <1>1. Cardinality(D) \in Nat
    BY FS_CardinalityType
  <1>2. PICK g : SumsUpTo(g, f, D, Cardinality(D))
    <2> HIDE DEF f
    <2> QED
      BY <1>1, PartialSums
  <1> DEFINE h == [s \in SUBSET D |-> g[s]]
  <1>3. ASSUME NEW s \in SUBSET D
        PROVE  h[s] = IF s = {} THEN 0 ELSE Amount(Some(s), subtotal) + h[s \ {Some(s)}]
    <2>1. Cardinality(s) <= Cardinality(D)
      BY FS_Subset
    <2>2. g[s] = IF s = {} THEN 0 ELSE f[Some(s)] + g[s \ {Some(s)}]
      BY <1>2, <2>1 DEF SumsUpTo
    <2> QED
      BY <2>2, SomeLess
  <1>4. h = [s \in SUBSET D |->
               IF s = {} THEN 0 ELSE Amount(Some(s), subtotal) + h[s \ {Some(s)}]]
    BY <1>3
  <1> HIDE DEF h
  <1>5. PICK sum :
          /\ sum = [s \in SUBSET D |->
                      IF s = {} THEN 0 ELSE Amount(Some(s), subtotal) + sum[s \ {Some(s)}]]
          /\ Total(D, subtotal) = sum[D]
    BY <1>4 DEF Total, MapThenSumSet, MapThenFoldSet, Some
  <1> DEFINE Wrong == {n \in Nat : \E s \in SUBSET D : Cardinality(s) = n /\ sum[s] \notin Nat}
  <1>6. Wrong = {}
    <2> SUFFICES ASSUME Wrong # {} PROVE FALSE
      OBVIOUS
    <2>1. PICK n \in Wrong : \A m \in Wrong : n <= m
      BY LeastNumber
    <2>2. PICK s \in SUBSET D : Cardinality(s) = n /\ sum[s] \notin Nat
      BY <2>1
    <2>3. s # {}
      BY <1>5, <2>2
    <2>4. /\ Some(s) \in s /\ s \ {Some(s)} \in SUBSET D
          /\ Cardinality(s) \in Nat /\ Cardinality(s \ {Some(s)}) = Cardinality(s) - 1
      BY <2>3, SomeLess
    <2>5. sum[s] = Amount(Some(s), subtotal) + sum[s \ {Some(s)}]
      BY <1>5, <2>3
    <2>6. sum[s \ {Some(s)}] \in Nat
      <3>1. n \in Nat /\ n # 0
        BY <2>1, <2>2, <2>3, <2>4, FS_EmptySet, FS_Subset
      <3>2. n - 1 \notin Wrong
        BY <2>1, <3>1
      <3> QED
        BY <2>2, <2>4, <3>1, <3>2
    <2> QED
      BY <2>2, <2>4, <2>5, <2>6
  <1> QED
    BY <1>1, <1>5, <1>6

-----------------------------------------------------------------------------
(* VenueAccounts *)

\* What an account comes to have: billing that validate has passed or that is
\* the default, and contacts of different ids.
SoundBilling ==
    {b \in Billing : b.fee >= 0 /\ \A d \in b.discounts : d.value >= 0}

DistinctContacts == {ids \in Seq(ContactIds) : ValidContacts(ids)}

Account ==
    [slug : Slugs, status : {"pending", "active", "suspended", "archived"},
     activatedAt : BOOLEAN, suspendedAt : BOOLEAN,
     config : Configuration, billing : SoundBilling, contacts : DistinctContacts]

AccountsTyped ==
    /\ DOMAIN account = AccountIds
    /\ account = [v \in AccountIds |-> account[v]]
    /\ \A v \in Stored : account[v] \in Account

\* What a creation has looked up is a slug, and what it has seen is stored.
CreationsTyped ==
    /\ creation = [c \in Creations |-> creation[c]]
    /\ \A c \in Creations :
         /\ creation[c].at \in {"idle", "lookup", "save", "failed"}
         /\ creation[c].at \in {"lookup", "save"} => creation[c].slug \in Slugs
         /\ creation[c].at = "save" => creation[c].seen \subseteq Stored

AccountInv == AccountsTyped /\ CreationsTyped /\ ClashesAreRaces

LEMMA DefaultsOfAccounts == DefaultConfiguration \in Configuration /\ DefaultBilling \in SoundBilling
  BY AccountAssumption DEF DefaultConfiguration, Configuration, DefaultBilling, Billing, SoundBilling

LEMMA NextConfigurationsTyped ==
    ASSUME NEW cfg \in Configuration
    PROVE  NextConfigurations(cfg) \subseteq Configuration
  BY DefaultsOfAccounts DEF NextConfigurations, Checked, WithSettings

LEMMA NextBillingsTyped ==
    ASSUME NEW b \in SoundBilling
    PROVE  NextBillings(b) \subseteq SoundBilling
  <1>1. {new \in Billing : ValidBilling(new)} \subseteq SoundBilling
    BY DEF ValidBilling, SoundBilling
  <1> QED
    BY <1>1, DefaultsOfAccounts DEF NextBillings

\* The first place of a value in a sequence that has it is one of its places.
LEMMA FirstPlace ==
    ASSUME NEW ids \in Seq(ContactIds), NEW i, Contains(ids, i)
    PROVE  \E n \in 1..Len(ids) : RemoveContact(ids, i) = RemoveAt(ids, n)
  <1> DEFINE I == {n \in 1..Len(ids) : ids[n] = i}
  <1>1. PICK n \in I : \A m \in I : n <= m
    <2>1. I \subseteq Nat /\ I # {}
      BY DEF Contains
    <2> QED
      BY <2>1, LeastNumber
  <1>2. Min(I) \in I
    BY <1>1 DEF Min
  <1>3. SelectInSeq(ids, LAMBDA v : v = i) = Min(I)
    BY <1>1 DEF SelectInSeq
  <1>4. RemoveContact(ids, i) = RemoveAt(ids, Min(I))
    BY <1>1, <1>3 DEF RemoveContact, RemoveFirst
  <1> QED
    BY <1>2, <1>4

\* Adding and removing contacts leaves their ids different
\* (ContactInformation.addAdditionalContact, removeAdditionalContact).
LEMMA NextContactsTyped ==
    ASSUME NEW ids \in DistinctContacts
    PROVE  NextContacts(ids) \subseteq DistinctContacts
  <1>1. /\ ids \in Seq(ContactIds) /\ Len(ids) \in Nat
        /\ \A m, n \in 1..Len(ids) : ids[m] = ids[n] => m = n
    BY DEF DistinctContacts, ValidContacts, IsInjective
  <1>2. ASSUME NEW i \in ContactIds PROVE AddContact(ids, i) \in DistinctContacts
    <2>1. CASE Contains(ids, i)
      BY <2>1 DEF AddContact
    <2>2. CASE ~Contains(ids, i)
      <3> DEFINE new == Append(ids, i)
      <3>1. /\ new \in Seq(ContactIds) /\ Len(new) = Len(ids) + 1 /\ new[Len(ids) + 1] = i
            /\ \A n \in 1..Len(ids) : new[n] = ids[n] /\ new[n] # i
        BY <1>1, <2>2 DEF Contains
      <3>2. AddContact(ids, i) = new /\ DOMAIN new = 1..Len(new)
        BY <2>2, <3>1 DEF AddContact
      <3> HIDE DEF new
      <3>3. \A m, n \in 1..Len(new) : new[m] = new[n] => m = n
        BY <1>1, <3>1
      <3> QED
        BY <3>1, <3>2, <3>3 DEF DistinctContacts, ValidContacts, IsInjective
    <2> QED
      BY <2>1, <2>2
  <1>3. ASSUME NEW i \in ContactIds PROVE RemoveContact(ids, i) \in DistinctContacts
    <2>1. CASE ~Contains(ids, i)
      BY <2>1 DEF RemoveContact, RemoveFirst, Contains
    <2>2. CASE Contains(ids, i)
      <3>1. PICK n \in 1..Len(ids) : RemoveContact(ids, i) = RemoveAt(ids, n)
        BY <1>1, <2>2, FirstPlace
      <3> DEFINE before == SubSeq(ids, 1, n - 1)
                 after == SubSeq(ids, n + 1, Len(ids))
                 new == before \o after
      <3>2. /\ before \in Seq(ContactIds) /\ Len(before) = n - 1
            /\ \A m \in 1..(n - 1) : before[m] = ids[m]
        BY <1>1
      <3>3. /\ after \in Seq(ContactIds) /\ Len(after) = Len(ids) - n
            /\ \A m \in 1..(Len(ids) - n) : after[m] = ids[m + n]
        BY <1>1
      <3>4. RemoveContact(ids, i) = new
        BY <3>1 DEF RemoveAt
      <3> HIDE DEF before, after
      <3>5. /\ new \in Seq(ContactIds) /\ Len(new) = Len(ids) - 1 /\ DOMAIN new = 1..Len(new)
            /\ \A m \in 1..Len(new) :
                  new[m] = IF m < n THEN before[m] ELSE after[m - n + 1]
        BY <1>1, <3>2, <3>3
      <3> HIDE DEF new
      <3>6. \A m \in 1..Len(new) : new[m] = ids[IF m < n THEN m ELSE m + 1]
        <4> SUFFICES ASSUME NEW m \in 1..Len(new)
                     PROVE  new[m] = ids[IF m < n THEN m ELSE m + 1]
          OBVIOUS
        <4>1. CASE m < n
          BY <1>1, <3>2, <3>5, <4>1
        <4>2. CASE ~(m < n)
          <5>1. m - n + 1 \in 1..(Len(ids) - n) /\ (m - n + 1) + n = m + 1
            BY <1>1, <3>5, <4>2
          <5>2. after[m - n + 1] = ids[(m - n + 1) + n]
            BY <3>3, <5>1
          <5> QED
            BY <3>5, <4>2, <5>1, <5>2
        <4> QED
          BY <4>1, <4>2
      <3>7. ASSUME NEW l \in 1..Len(new), NEW m \in 1..Len(new), new[l] = new[m]
            PROVE  l = m
        <4> DEFINE at(k) == IF k < n THEN k ELSE k + 1
        <4>1. at(l) \in 1..Len(ids) /\ at(m) \in 1..Len(ids) /\ ids[at(l)] = ids[at(m)]
          BY <1>1, <3>5, <3>6, <3>7
        <4>2. at(l) = at(m)
          BY <1>1, <4>1
        <4> QED
          BY <1>1, <3>5, <4>2
      <3> QED
        BY <3>4, <3>5, <3>7 DEF DistinctContacts, ValidContacts, IsInjective
    <2> QED
      BY <2>1, <2>2
  <1> QED
    BY <1>2, <1>3 DEF NextContacts

LEMMA NewAccountTyped ==
    ASSUME NEW slug \in Slugs
    PROVE  NewAccount(slug) \in Account /\ NewAccount(slug).slug = slug
  <1>1. <<>> \in DistinctContacts
    BY DEF DistinctContacts, ValidContacts, IsInjective
  <1> QED
    BY <1>1, DefaultsOfAccounts DEF NewAccount, Account

\* An operation on a stored account that keeps its slug.
LEMMA ChangeKeeps ==
    ASSUME AccountInv, NEW v \in Stored, NEW a \in Account, a.slug = account[v].slug,
           Change(v, a)
    PROVE  AccountInv'
  <1>1. /\ account' = [account EXCEPT ![v] = a] /\ creation' = creation
        /\ v \in AccountIds
    BY DEF Change, Stored
  <1>2. /\ DOMAIN account' = AccountIds /\ account' = [w \in AccountIds |-> account'[w]]
        /\ account'[v] = a /\ \A w \in AccountIds \ {v} : account'[w] = account[w]
    BY <1>1 DEF AccountInv, AccountsTyped
  <1>3. Stored' \subseteq Stored
    BY <1>1, <1>2 DEF Stored
  <1>4. AccountsTyped'
    BY <1>2, <1>3 DEF AccountInv, AccountsTyped, Stored
  <1>5. CreationsTyped'
    <2>1. Stored' = Stored
      BY <1>1, <1>2, <1>3 DEF Stored, AccountInv, AccountsTyped, Account, NoAccount
    <2> QED
      BY <1>1, <2>1 DEF AccountInv, CreationsTyped
  <1>6. \A w \in Stored' : account'[w].slug = account[w].slug
    BY <1>2 DEF Stored
  <1>7. ClashesAreRaces'
    BY <1>1, <1>3, <1>6 DEF AccountInv, ClashesAreRaces
  <1> QED
    BY <1>4, <1>5, <1>7 DEF AccountInv

\* What one of the six operations makes of an account: another one of the same
\* slug, whose status follows the table.
LEMMA OperationsKeepTheSlug ==
    ASSUME AccountInv, NEW v \in Stored,
           \/ Activate(v) \/ Suspend(v) \/ Archive(v)
           \/ UpdateConfiguration(v) \/ UpdateBilling(v) \/ UpdateContacts(v)
    PROVE  \E a \in Account :
             /\ a.slug = account[v].slug /\ Change(v, a)
             /\ \/ a.status = account[v].status
                \/ ValidTransition(account[v].status, a.status)
                \/ account[v].status = "pending" /\ a.status = "suspended"
  <1>1. account[v] \in Account
    BY DEF AccountInv, AccountsTyped
  <1>2. CASE Activate(v)
    <2> DEFINE a == [account[v] EXCEPT !.status = "active", !.activatedAt = TRUE, !.suspendedAt = FALSE]
    <2>1. /\ a \in Account /\ a.slug = account[v].slug /\ a.status = "active"
      BY <1>1 DEF Account
    <2>2. Change(v, a) /\ account[v].status \notin {"active", "archived"}
      BY <1>2 DEF Activate, MayActivate
    <2> HIDE DEF a
    <2> QED
      BY <1>1, <2>1, <2>2 DEF ValidTransition, Account
  <1>3. CASE Suspend(v)
    <2> DEFINE a == [account[v] EXCEPT !.status = "suspended", !.suspendedAt = TRUE]
    <2>1. /\ a \in Account /\ a.slug = account[v].slug /\ a.status = "suspended"
      BY <1>1 DEF Account
    <2>2. Change(v, a) /\ account[v].status \notin {"suspended", "archived"}
      BY <1>3 DEF Suspend, MaySuspend
    <2> HIDE DEF a
    <2> QED
      BY <1>1, <2>1, <2>2 DEF ValidTransition, Account
  <1>4. CASE Archive(v)
    <2> DEFINE a == [account[v] EXCEPT !.status = "archived"]
    <2>1. /\ a \in Account /\ a.slug = account[v].slug /\ a.status = "archived"
      BY <1>1 DEF Account
    <2>2. Change(v, a)
      BY <1>4 DEF Archive
    <2> HIDE DEF a
    <2> QED
      BY <1>1, <2>1, <2>2 DEF ValidTransition, Account
  <1>5. CASE UpdateConfiguration(v)
    <2>1. PICK cfg \in NextConfigurations(account[v].config) :
            Change(v, [account[v] EXCEPT !.config = cfg])
      BY <1>5 DEF UpdateConfiguration
    <2>2. cfg \in Configuration
      BY <1>1, NextConfigurationsTyped DEF Account
    <2> DEFINE a == [account[v] EXCEPT !.config = cfg]
    <2>3. /\ a \in Account /\ a.slug = account[v].slug /\ a.status = account[v].status
      BY <1>1, <2>2 DEF Account
    <2> QED
      BY <2>1, <2>3
  <1>6. CASE UpdateBilling(v)
    <2>1. PICK b \in NextBillings(account[v].billing) :
            Change(v, [account[v] EXCEPT !.billing = b])
      BY <1>6 DEF UpdateBilling
    <2>0. b \in SoundBilling
      BY <1>1, NextBillingsTyped DEF Account
    <2> DEFINE a == [account[v] EXCEPT !.billing = b]
    <2>2. /\ a \in Account /\ a.slug = account[v].slug /\ a.status = account[v].status
      BY <1>1, <2>0 DEF Account
    <2> QED
      BY <2>1, <2>2
  <1>7. CASE UpdateContacts(v)
    <2>1. PICK new \in NextContacts(account[v].contacts) :
            Change(v, [account[v] EXCEPT !.contacts = new])
      BY <1>7 DEF UpdateContacts
    <2>0. new \in DistinctContacts
      BY <1>1, NextContactsTyped DEF Account
    <2> DEFINE a == [account[v] EXCEPT !.contacts = new]
    <2>2. /\ a \in Account /\ a.slug = account[v].slug /\ a.status = account[v].status
      BY <1>1, <2>0 DEF Account
    <2> QED
      BY <2>1, <2>2
  <1> QED
    BY <1>2, <1>3, <1>4, <1>5, <1>6, <1>7

\* A creation that goes on, or ends, and saves nothing.
LEMMA CreationGoesOn ==
    ASSUME AccountInv, NEW c \in Creations, NEW r, GoOn(c, r), account' = account,
           r.at \in {"lookup", "save", "failed"}, r.at \in {"lookup", "save"} => r.slug \in Slugs,
           r.at = "save" =>
             /\ r.seen \subseteq Stored
             /\ r.blind \/ \A v \in r.seen : account[v].slug # r.slug
    PROVE  AccountInv'
  <1>1. CreationsTyped'
    BY DEF GoOn, AccountInv, CreationsTyped, Stored
  <1>2. AccountsTyped'
    BY DEF AccountInv, AccountsTyped, Stored
  <1>3. ClashesAreRaces'
    BY DEF GoOn, AccountInv, CreationsTyped, ClashesAreRaces, Stored
  <1> QED
    BY <1>1, <1>2, <1>3 DEF AccountInv

LEMMA AccountInvKept == AccountInv /\ [AccountNext]_accountVars => AccountInv'
  <1> SUFFICES ASSUME AccountInv, [AccountNext]_accountVars PROVE AccountInv'
    OBVIOUS
  <1>1. ASSUME NEW v \in Stored,
               \/ Activate(v) \/ Suspend(v) \/ Archive(v)
               \/ UpdateConfiguration(v) \/ UpdateBilling(v) \/ UpdateContacts(v)
        PROVE  AccountInv'
    BY <1>1, OperationsKeepTheSlug, ChangeKeeps
  <1>2. ASSUME NEW c \in Creations, NEW slug \in Slugs, NEW valid \in BOOLEAN,
               NEW asked \in {"nothing", "branding", "limits"}, AskCreation(c, slug, valid, asked)
        PROVE  AccountInv'
    BY <1>2, CreationGoesOn DEF AskCreation
  <1>3. ASSUME NEW c \in Creations, NEW answered \in BOOLEAN, LookupSlug(c, answered)
        PROVE  AccountInv'
    <2>1. creation[c].slug \in Slugs
      BY <1>3 DEF LookupSlug, AccountInv, CreationsTyped
    <2> DEFINE r == [at |-> "save", slug |-> creation[c].slug,
                     seen |-> IF answered THEN Stored ELSE {}, blind |-> ~answered]
    <2>2. CASE GoOn(c, [at |-> "failed"])
      BY <1>3, <2>2, CreationGoesOn DEF LookupSlug
    <2>3. CASE GoOn(c, r) /\ ~(answered /\ SlugTaken(creation[c].slug))
      <3>1. /\ r.at = "save" /\ r.slug \in Slugs /\ r.seen \subseteq Stored
            /\ r.blind \/ \A v \in r.seen : account[v].slug # r.slug
        BY <2>1, <2>3 DEF SlugTaken
      <3> HIDE DEF r
      <3> QED
        BY <1>3, <2>3, <3>1, CreationGoesOn DEF LookupSlug
    <2> QED
      BY <1>3, <2>2, <2>3 DEF LookupSlug
  <1>4. ASSUME NEW c \in Creations, NEW v \in AccountIds, SaveAccount(c, v)
        PROVE  AccountInv'
    <2> DEFINE slug == creation[c].slug
    <2>1. slug \in Slugs /\ v \notin Stored /\ GoOn(c, [at |-> "failed"])
      BY <1>4 DEF SaveAccount, AccountInv, CreationsTyped
    <2>2. CASE ~SlugIsFree(slug)
      BY <1>4, <2>1, <2>2, CreationGoesOn DEF SaveAccount
    <2>3. CASE SlugIsFree(slug)
      <3>1. /\ account' = [account EXCEPT ![v] = NewAccount(slug)]
            /\ NewAccount(slug) \in Account /\ NewAccount(slug).slug = slug
        BY <1>4, <2>1, <2>3, NewAccountTyped DEF SaveAccount
      <3>2. /\ DOMAIN account' = AccountIds /\ account' = [w \in AccountIds |-> account'[w]]
            /\ account'[v] = NewAccount(slug)
            /\ \A w \in AccountIds \ {v} : account'[w] = account[w]
        BY <3>1 DEF AccountInv, AccountsTyped
      <3>3. Stored' \subseteq Stored \cup {v} /\ \A w \in Stored : account'[w] = account[w] /\ w # v
        BY <2>1, <3>2 DEF Stored
      <3>4. AccountsTyped'
        BY <3>1, <3>2, <3>3 DEF AccountInv, AccountsTyped
      <3>5. CreationsTyped'
        <4>1. Stored \subseteq Stored'
          BY <3>3 DEF Stored
        <4> QED
          BY <2>1, <4>1 DEF GoOn, AccountInv, CreationsTyped
      <3>6. ClashesAreRaces'
        <4>1. \A d \in Creations : creation'[d].at = "save" =>
                creation'[d] = creation[d] /\ v \notin creation[d].seen
          BY <2>1 DEF GoOn, AccountInv, CreationsTyped
        <4> QED
          BY <3>3, <4>1 DEF AccountInv, ClashesAreRaces
      <3> QED
        BY <3>4, <3>5, <3>6 DEF AccountInv
    <2> QED
      BY <2>2, <2>3
  <1>5. ASSUME NEW c \in Creations, SaveFails(c) PROVE AccountInv'
    BY <1>5, CreationGoesOn DEF SaveFails
  <1>6. CASE UNCHANGED accountVars
    BY <1>6 DEF accountVars, AccountInv, AccountsTyped, CreationsTyped, ClashesAreRaces, Stored
  <1> QED
    BY <1>1, <1>2, <1>3, <1>4, <1>5, <1>6 DEF AccountNext

\* AccountInv holds in every state the accounts can come to.
THEOREM AccountSpecInv == AccountSpec => []AccountInv
  <1>1. AccountInit => AccountInv
    BY DEF AccountInit, AccountInv, AccountsTyped, CreationsTyped, ClashesAreRaces, Stored
  <1> QED
    BY <1>1, AccountInvKept, PTL DEF AccountSpec

\* Accounts keep to their types: in particular no contact id occurs twice.
THEOREM AccountTypes == AccountSpec => []AccountTypeOK
  <1>1. AccountInv => AccountTypeOK
    BY DEF AccountInv, AccountsTyped, CreationsTyped, AccountTypeOK, Account, SoundBilling,
           DistinctContacts
  <1> QED
    BY AccountSpecInv, <1>1, PTL

\* What a discount of a sound bill comes to is a natural number.
LEMMA AmountsAreNatural ==
    ASSUME NEW b \in SoundBilling, NEW subtotal \in Nat, NEW d \in b.discounts
    PROVE  Amount(d, subtotal) \in Nat
  <1>1. d.value \in Nat
    BY AccountAssumption DEF SoundBilling, Billing
  <1>2. subtotal * d.value \in Nat
    BY <1>1
  <1>3. (subtotal * d.value) \div 100 \in Nat
    BY <1>2
  <1> QED
    BY <1>1, <1>3 DEF Amount

LEMMA CostsAreBounded ==
    ASSUME NEW b \in SoundBilling, NEW n \in Nat
    PROVE  MonthlyCost(b, n) \in 0..(b.fee + n)
  <1> DEFINE subtotal == b.fee + n
             sum == Total({d \in b.discounts : d.current}, subtotal)
  <1>1. subtotal \in Nat
    <2>1. b.fee \in Fees /\ b.fee >= 0
      BY DEF SoundBilling, Billing
    <2>2. Fees \subseteq Int
      BY AccountAssumption
    <2>3. b.fee \in Int
      BY <2>1, <2>2
    <2> QED
      BY <2>1, <2>3
  <1>2. IsFiniteSet({d \in b.discounts : d.current})
    <2>1. {d \in b.discounts : d.current} \subseteq Discounts
      BY DEF SoundBilling, Billing
    <2> QED
      BY <2>1, AccountAssumption, FS_Subset
  <1>3. sum \in Nat
    <2>1. \A d \in {e \in b.discounts : e.current} : Amount(d, subtotal) \in Nat
      BY <1>1, AmountsAreNatural
    <2> HIDE DEF subtotal
    <2> QED
      BY <1>2, <2>1, AmountsAddUp
  <1>4. MonthlyCost(b, n) = subtotal - (IF sum > subtotal THEN subtotal ELSE sum)
    BY DEF MonthlyCost, DiscountAmount, Total, MapThenSumSet, MapThenFoldSet
  <1> HIDE DEF sum
  <1> QED
    BY <1>1, <1>3, <1>4

\* No month is charged below nothing or above its undiscounted price, and a
\* limit is exceeded exactly when no capacity remains (BillingConfiguration.
\* calculateMonthlyCost, VenueConfiguration.isLimitExceeded).
THEOREM BillsAreBounded == AccountSpec => []UsageIsPricedInBounds
  <1>1. AccountInv => UsageIsPricedInBounds
    <2> SUFFICES ASSUME AccountInv, NEW v \in Stored, NEW n \in 0..Usage
                 PROVE  /\ MonthlyCost(account[v].billing, n) \in 0..(account[v].billing.fee + n)
                        /\ LimitExceeded(account[v].config, n)
                             <=> RemainingCapacity(account[v].config, n) = 0
      BY DEF UsageIsPricedInBounds
    <2>1. account[v].billing \in SoundBilling /\ account[v].config.maxStaff \in Int /\ n \in Nat
      BY AccountAssumption DEF AccountInv, AccountsTyped, Account, Configuration
    <2> QED
      BY <2>1, CostsAreBounded DEF LimitExceeded, RemainingCapacity
  <1> QED
    BY AccountSpecInv, <1>1, PTL

\* A creation comes to save a taken slug only if its lookup failed or the slug
\* was taken after it, whatever became of the account that has it
\* (CreateVenueAccount.execute).
THEOREM LookupsHold == AccountSpec => []ClashesAreRaces
  <1>1. AccountInv => ClashesAreRaces
    BY DEF AccountInv
  <1> QED
    BY AccountSpecInv, <1>1, PTL

\* The status of an account follows VALID_TRANSITIONS, but for the pending one
\* that is suspended (VenueAccount.activate, suspend, archive).
THEOREM StatusTable == AccountSpec => StatusFollowsTheTable
  <1> DEFINE Follows(v) ==
        LET from == account[v].status  to == account'[v].status IN
        from = to \/ ValidTransition(from, to) \/ (from = "pending" /\ to = "suspended")
  <1>1. ASSUME AccountInv, [AccountNext]_accountVars, NEW w \in Stored PROVE Follows(w)
    <2>1. ASSUME NEW v \in Stored,
                 \/ Activate(v) \/ Suspend(v) \/ Archive(v)
                 \/ UpdateConfiguration(v) \/ UpdateBilling(v) \/ UpdateContacts(v)
          PROVE  Follows(w)
      <3>1. PICK a :
              /\ Change(v, a)
              /\ \/ a.status = account[v].status
                 \/ ValidTransition(account[v].status, a.status)
                 \/ account[v].status = "pending" /\ a.status = "suspended"
        BY <1>1, <2>1, OperationsKeepTheSlug
      <3>2. account'[w] = IF w = v THEN a ELSE account[w]
        BY <1>1, <3>1 DEF Change, AccountInv, AccountsTyped, Stored
      <3> QED
        BY <3>1, <3>2
    <2>2. ASSUME NEW c \in Creations, NEW v \in AccountIds, SaveAccount(c, v) PROVE Follows(w)
      <3>1. account'[w] = account[w]
        BY <1>1, <2>2 DEF SaveAccount, AccountInv, AccountsTyped, Stored
      <3> QED
        BY <3>1
    <2>3. CASE account' = account
      BY <2>3
    <2> HIDE DEF Follows
    <2> QED
      BY <1>1, <2>1, <2>2, <2>3
         DEF AccountNext, accountVars, AskCreation, LookupSlug, SaveFails
  <1>2. AccountInv /\ [AccountNext]_accountVars =>
          [\A v \in Stored :
             LET from == account[v].status  to == account'[v].status IN
             \/ from = to
             \/ ValidTransition(from, to)
             \/ from = "pending" /\ to = "suspended"]_accountVars
    BY <1>1
  <1> QED
    BY AccountSpecInv, <1>2, PTL DEF AccountSpec, StatusFollowsTheTable

-----------------------------------------------------------------------------
(* VenueDesk *)

\* A call of each use case, with the commands it goes through.
ProvisionCall ==
    [at : {"venue", "user", "associate", "enroll", "staff", "hire", "refused", "done"},
     before : SUBSET DeskCalls, blind : BOOLEAN,
     user : DeskUsers, venue : DeskVenues, rights : SUBSET Rights]

PerformanceCall ==
    [at : {"access", "show", "conflict", "schedule", "refused", "done"},
     before : SUBSET DeskCalls, blind : BOOLEAN,
     user : DeskUsers, venue : DeskVenues, right : {"create"}, slot : Slots, owner : DeskVenues]

ValidationCall ==
    [at : {"access", "code", "duplicate", "record", "mark", "refused", "done"},
     before : SUBSET DeskCalls, blind : BOOLEAN,
     user : DeskUsers, venue : DeskVenues, right : {"validate"}, ticket : Tickets]

Called == ProvisionCall \cup PerformanceCall \cup ValidationCall

DeskTyped ==
    /\ operational \subseteq DeskVenues
    /\ deskUser \in [DeskUsers -> DeskVenues \cup {Unknown, NoVenue}]
    /\ staff \in [DeskUsers \X DeskVenues -> StaffRecord \cup {NoStaff}]
    /\ marked \subseteq Tickets
    /\ deskFaults \in 0..MaxDeskFaults
    /\ deskCall = [c \in DeskCalls |-> deskCall[c]]
    /\ \A c \in DeskCalls : deskCall[c] = IdleDesk \/ deskCall[c] \in Called

\* The calls behind the performances and the entries, and what a call
\* remembers of those that had succeeded before it.
DeskCallsSound ==
    /\ \A c \in performances : c \in DeskCalls /\ deskCall[c] \in PerformanceCall /\ Done(c)
    /\ \A c \in entries :
         c \in DeskCalls /\ deskCall[c] \in ValidationCall /\ (At(c, "mark") \/ Done(c))
    /\ \A c \in DeskCalls : deskCall[c] \in Called => \A d \in deskCall[c].before : Done(d)

\* A call that is about to write has seen that no earlier success is in its way.
Unopposed ==
    \A c \in DeskCalls :
        /\ At(c, "schedule") /\ ~deskCall[c].blind =>
             \A d \in performances \cap deskCall[c].before : ~Conflicts(c, d)
        /\ At(c, "record") /\ ~deskCall[c].blind =>
             \A d \in entries \cap deskCall[c].before :
                ~(deskCall[d].ticket = deskCall[c].ticket /\ deskCall[d].venue = deskCall[c].venue)

DeskInv == DeskTyped /\ DeskCallsSound /\ Unopposed /\ NoLaterConflict /\ NoLaterEntry

\* What a call is about and remembers stays while it goes from command to command.
Same(old, new) ==
    /\ new.before = old.before /\ new.user = old.user /\ new.venue = old.venue
    /\ old.blind => new.blind
    /\ old \in ProvisionCall => new \in ProvisionCall /\ new.rights = old.rights
    /\ old \in PerformanceCall => new \in PerformanceCall /\ new.slot = old.slot
    /\ old \in ValidationCall => new \in ValidationCall /\ new.ticket = old.ticket

\* Call c moves on, writes no performance and no entry.
LEMMA DeskStep ==
    ASSUME DeskInv, NEW c \in DeskCalls, NEW new, deskCall' = [deskCall EXCEPT ![c] = new],
           new \in Called, deskCall[c] \in Called => Same(deskCall[c], new),
           deskCall[c] = IdleDesk => new.before = Successes,
           performances' = performances, entries' = entries, ~Done(c),
           At(c, "mark") => new.at = "done",
           new.at = "schedule" => deskCall[c] \in PerformanceCall,
           new.at = "record" => deskCall[c] \in ValidationCall,
           new.at = "schedule" /\ ~new.blind => \A d \in performances : ~Conflicts(c, d),
           new.at = "record" /\ ~new.blind => ~EnteredBefore(deskCall[c].ticket, deskCall[c].venue)
    PROVE  DeskCallsSound' /\ Unopposed' /\ NoLaterConflict' /\ NoLaterEntry'
           /\ deskCall' = [d \in DeskCalls |-> deskCall'[d]]
           /\ \A d \in DeskCalls : deskCall'[d] = IF d = c THEN new ELSE deskCall[d]
  <1>1. /\ deskCall' = [d \in DeskCalls |-> deskCall'[d]]
        /\ \A d \in DeskCalls : deskCall'[d] = IF d = c THEN new ELSE deskCall[d]
    BY DEF DeskInv, DeskTyped
  <1>2. \A d \in DeskCalls : Done(d) => Done(d)' /\ d # c
    BY <1>1 DEF Done, At
  <1>3. \A d \in performances : d \in DeskCalls /\ d # c /\ deskCall'[d] = deskCall[d]
    BY <1>1, <1>2 DEF DeskInv, DeskCallsSound
  <1>4. \A d \in entries :
          /\ d \in DeskCalls /\ deskCall[d] \in ValidationCall /\ deskCall'[d] \in ValidationCall
          /\ deskCall'[d].ticket = deskCall[d].ticket /\ deskCall'[d].venue = deskCall[d].venue
          /\ deskCall'[d].before = deskCall[d].before
          /\ d # c => deskCall'[d] = deskCall[d]
    BY <1>1 DEF DeskInv, DeskCallsSound, Called, Same
  <1>5. DeskCallsSound'
    <2>1. ASSUME NEW d \in performances'
          PROVE  d \in DeskCalls /\ deskCall'[d] \in PerformanceCall /\ Done(d)'
      BY <1>2, <1>3 DEF DeskInv, DeskCallsSound
    <2>2. ASSUME NEW d \in entries'
          PROVE  At(d, "mark")' \/ Done(d)'
      BY <1>1, <1>4 DEF DeskInv, DeskCallsSound, At, Done
    <2>3. ASSUME NEW d \in DeskCalls, deskCall'[d] \in Called, NEW b \in deskCall'[d].before
          PROVE  Done(b)'
      <3>1. CASE d # c
        BY <1>1, <1>2, <2>3, <3>1 DEF DeskInv, DeskCallsSound, Called, ProvisionCall, PerformanceCall, ValidationCall
      <3>2. CASE d = c /\ deskCall[c] \in Called
        BY <1>1, <1>2, <2>3, <3>2 DEF DeskInv, DeskCallsSound, Called, ProvisionCall,
                                      PerformanceCall, ValidationCall, Same
      <3>3. CASE d = c /\ deskCall[c] = IdleDesk
        BY <1>1, <1>2, <2>3, <3>3 DEF Successes
      <3> QED
        BY <3>1, <3>2, <3>3 DEF DeskInv, DeskTyped
    <2> QED
      BY <1>4, <2>1, <2>2, <2>3 DEF DeskCallsSound
  <1>6. Unopposed'
    <2>1. ASSUME NEW d \in DeskCalls, At(d, "schedule")', ~deskCall'[d].blind,
                 NEW p \in performances' \cap deskCall'[d].before
          PROVE  ~Conflicts(d, p)'
      <3>1. CASE d # c
        BY <1>1, <1>3, <2>1, <3>1 DEF DeskInv, Unopposed, At, Conflicts
      <3>2. CASE d = c
        <4>1. deskCall'[c] = new /\ new.at = "schedule" /\ ~new.blind
          BY <1>1, <2>1, <3>2 DEF At
        <4>2. ~Conflicts(c, p) /\ deskCall'[p] = deskCall[p]
          BY <1>3, <2>1, <4>1
        <4>3. new.venue = deskCall[c].venue /\ new.slot = deskCall[c].slot
          BY <4>1 DEF Called, Same
        <4> QED
          BY <3>2, <4>1, <4>2, <4>3 DEF Conflicts
      <3> QED
        BY <3>1, <3>2
    <2>2. ASSUME NEW d \in DeskCalls, At(d, "record")', ~deskCall'[d].blind,
                 NEW e \in entries' \cap deskCall'[d].before
          PROVE  ~(deskCall'[e].ticket = deskCall'[d].ticket /\ deskCall'[e].venue = deskCall'[d].venue)
      <3>0. deskCall'[e].ticket = deskCall[e].ticket /\ deskCall'[e].venue = deskCall[e].venue
        BY <1>4, <2>2
      <3>1. CASE d # c
        BY <1>1, <2>2, <3>0, <3>1 DEF DeskInv, Unopposed, At
      <3>2. CASE d = c
        <4>1. deskCall'[c] = new /\ new.at = "record" /\ ~new.blind
          BY <1>1, <2>2, <3>2 DEF At
        <4>2. new.venue = deskCall[c].venue /\ new.ticket = deskCall[c].ticket
          BY <4>1 DEF Called, Same
        <4> QED
          BY <2>2, <3>0, <3>2, <4>1, <4>2 DEF EnteredBefore
      <3> QED
        BY <3>1, <3>2
    <2> QED
      BY <2>1, <2>2 DEF Unopposed
  <1>7. NoLaterConflict'
    BY <1>3 DEF DeskInv, NoLaterConflict
  <1>8. NoLaterEntry'
    <2> SUFFICES ASSUME NEW e \in entries, NEW d \in entries, e # d, e \in deskCall'[d].before,
                        deskCall'[e].ticket = deskCall'[d].ticket,
                        deskCall'[e].venue = deskCall'[d].venue
                 PROVE  deskCall'[d].blind
      BY DEF NoLaterEntry
    <2>1. deskCall[d].blind
      BY <1>4 DEF DeskInv, NoLaterEntry
    <2>2. CASE d # c
      BY <1>4, <2>1, <2>2
    <2>3. CASE d = c
      BY <1>1, <2>1, <2>3 DEF DeskInv, DeskCallsSound, Called, Same
    <2> QED
      BY <2>2, <2>3
  <1> QED
    BY <1>1, <1>5, <1>6, <1>7, <1>8

\* Which use case a call belongs to shows from the command it is at.
LEMMA UseCaseOf ==
    ASSUME DeskInv, NEW c \in DeskCalls, ~At(c, "idle")
    PROVE  /\ deskCall[c] \in Called
           /\ deskCall[c].at \in {"venue", "user", "associate", "enroll", "staff", "hire"} =>
                deskCall[c] \in ProvisionCall
           /\ deskCall[c].at \in {"show", "conflict", "schedule"} => deskCall[c] \in PerformanceCall
           /\ deskCall[c].at \in {"code", "duplicate", "record", "mark"} => deskCall[c] \in ValidationCall
           /\ At(c, "access") =>
                IF deskCall[c].right = "create" THEN deskCall[c] \in PerformanceCall
                ELSE deskCall[c] \in ValidationCall
  <1>1. deskCall[c] \in Called
    BY DEF DeskInv, DeskTyped, At, IdleDesk
  <1> QED
    BY <1>1 DEF At, Called, ProvisionCall, PerformanceCall, ValidationCall

\* A call that goes to its next command stays the call it is.
LEMMA ProceedsAs ==
    ASSUME NEW call \in Called, NEW at, NEW new,
           new = [call EXCEPT !.at = at] \/ new = [[call EXCEPT !.at = at] EXCEPT !.blind = TRUE],
           call \in ProvisionCall => at \in {"venue", "user", "associate", "enroll", "staff", "hire", "refused", "done"},
           call \in PerformanceCall => at \in {"access", "show", "conflict", "schedule", "refused", "done"},
           call \in ValidationCall => at \in {"access", "code", "duplicate", "record", "mark", "refused", "done"}
    PROVE  /\ new \in Called /\ Same(call, new) /\ new.at = at
           /\ new = [[call EXCEPT !.at = at] EXCEPT !.blind = TRUE] => new.blind
  <1>1. CASE call \in ProvisionCall
    BY <1>1 DEF Called, Same, ProvisionCall, PerformanceCall, ValidationCall
  <1>2. CASE call \in PerformanceCall
    BY <1>2 DEF Called, Same, ProvisionCall, PerformanceCall, ValidationCall
  <1>3. CASE call \in ValidationCall
    BY <1>3 DEF Called, Same, ProvisionCall, PerformanceCall, ValidationCall
  <1> QED
    BY <1>1, <1>2, <1>3 DEF Called

\* A command of a call that creates no performance and no entry.
LEMMA DeskMove ==
    ASSUME DeskInv, NEW c \in DeskCalls, NEW at, ~At(c, "idle"), ~Done(c),
           Proceed(c, at) \/ Blindly(c, at),
           deskCall[c] \in ProvisionCall =>
             at \in {"venue", "user", "associate", "enroll", "staff", "hire", "refused", "done"},
           deskCall[c] \in PerformanceCall =>
             at \in {"access", "show", "conflict", "schedule", "refused", "done"},
           deskCall[c] \in ValidationCall =>
             at \in {"access", "code", "duplicate", "record", "mark", "refused", "done"},
           At(c, "mark") => at = "done",
           at = "schedule" =>
             deskCall[c] \in PerformanceCall /\ (Blindly(c, at) \/ \A d \in performances : ~Conflicts(c, d)),
           at = "record" =>
             /\ deskCall[c] \in ValidationCall
             /\ Blindly(c, at) \/ ~EnteredBefore(deskCall[c].ticket, deskCall[c].venue),
           performances' = performances, entries' = entries,
           operational' \subseteq DeskVenues,
           deskUser' \in [DeskUsers -> DeskVenues \cup {Unknown, NoVenue}],
           staff' \in [DeskUsers \X DeskVenues -> StaffRecord \cup {NoStaff}],
           marked' \subseteq Tickets, deskFaults' \in 0..MaxDeskFaults
    PROVE  DeskInv'
  <1> DEFINE plain == [deskCall[c] EXCEPT !.at = at]
             blind == [plain EXCEPT !.blind = TRUE]
  <1>1. deskCall[c] \in Called
    BY UseCaseOf
  <1>2. PICK new : /\ deskCall' = [deskCall EXCEPT ![c] = new]
                   /\ new = plain \/ new = blind
                   /\ Blindly(c, at) => new = blind
    <2>1. CASE Blindly(c, at)
      <3>1. deskCall' = [deskCall EXCEPT ![c] = blind]
        BY <2>1 DEF Blindly, DeskInv, DeskTyped
      <3> QED
        BY <3>1
    <2>2. CASE ~Blindly(c, at)
      BY <2>2 DEF Proceed
    <2> QED
      BY <2>1, <2>2
  <1>3. /\ new \in Called /\ Same(deskCall[c], new) /\ new.at = at
        /\ new = blind => new.blind
    BY <1>1, <1>2, ProceedsAs
  <1> HIDE DEF blind, plain
  <1>4. deskCall[c] # IdleDesk
    BY DEF At, IdleDesk
  <1>5. DeskCallsSound' /\ Unopposed' /\ NoLaterConflict' /\ NoLaterEntry'
        /\ deskCall' = [d \in DeskCalls |-> deskCall'[d]]
        /\ \A d \in DeskCalls : deskCall'[d] = IF d = c THEN new ELSE deskCall[d]
    BY <1>2, <1>3, <1>4, DeskStep
  <1>6. DeskTyped'
    BY <1>3, <1>5 DEF DeskInv, DeskTyped
  <1> QED
    BY <1>5, <1>6 DEF DeskInv

\* A call begins: it is one of the three use cases and nothing is written.
LEMMA BeginKeeps ==
    ASSUME DeskInv, NEW c \in DeskCalls, NEW call \in Called, Begin(c, call),
           call.before = Successes, call.at \in {"venue", "access"}
    PROVE  DeskInv'
  <1>1. /\ deskCall' = [deskCall EXCEPT ![c] = call] /\ At(c, "idle") /\ ~Done(c)
        /\ UNCHANGED <<operational, deskUser, staff, performances, entries, marked, deskFaults>>
    BY DEF Begin, Unwritten, Answered, Done, At
  <1>2. deskCall[c] \notin Called
    BY <1>1 DEF At, Called, ProvisionCall, PerformanceCall, ValidationCall
  <1>3. ~At(c, "mark")
    BY <1>1 DEF At
  <1>4. DeskCallsSound' /\ Unopposed' /\ NoLaterConflict' /\ NoLaterEntry'
        /\ deskCall' = [d \in DeskCalls |-> deskCall'[d]]
        /\ \A d \in DeskCalls : deskCall'[d] = IF d = c THEN call ELSE deskCall[d]
    BY <1>1, <1>2, <1>3, DeskStep
  <1>5. DeskTyped'
    BY <1>1, <1>4 DEF DeskInv, DeskTyped
  <1> QED
    BY <1>4, <1>5 DEF DeskInv

LEMMA ScheduleKeeps ==
    ASSUME DeskInv, NEW c \in DeskCalls, Schedule(c)
    PROVE  DeskInv'
  <1> DEFINE new == [deskCall[c] EXCEPT !.at = "done"]
  <1>1. /\ At(c, "schedule") /\ ~At(c, "idle") /\ ~Done(c) /\ performances' = performances \cup {c}
        /\ deskCall' = [deskCall EXCEPT ![c] = new]
        /\ UNCHANGED <<operational, deskUser, staff, entries, marked, deskFaults>>
    BY DEF Schedule, Proceed, Answered, At, Done
  <1>2. deskCall[c] \in PerformanceCall
    BY <1>1, UseCaseOf DEF At
  <1>3. /\ new \in PerformanceCall /\ new.at = "done" /\ new.before = deskCall[c].before
        /\ new.slot = deskCall[c].slot /\ new.venue = deskCall[c].venue /\ new.blind = deskCall[c].blind
    BY <1>2 DEF PerformanceCall
  <1> HIDE DEF new
  <1>4. /\ deskCall' = [d \in DeskCalls |-> deskCall'[d]]
        /\ \A d \in DeskCalls : deskCall'[d] = IF d = c THEN new ELSE deskCall[d]
    BY <1>1 DEF DeskInv, DeskTyped
  <1>5. \A d \in DeskCalls : Done(d) => Done(d)' /\ d # c
    BY <1>1, <1>4 DEF Done, At
  <1>6. deskCall[c] \in Called /\ new \in Called
    BY <1>2, <1>3 DEF Called
  <1>7. DeskTyped'
    BY <1>1, <1>4, <1>6 DEF DeskInv, DeskTyped
  <1>8. /\ c \notin performances /\ c \notin entries
        /\ \A d \in DeskCalls : deskCall[d] \in Called => c \notin deskCall[d].before
    BY <1>1, <1>5 DEF DeskInv, DeskCallsSound, At, Done
  <1>9. DeskCallsSound'
    <2>1. \A d \in performances' :
            d \in DeskCalls /\ deskCall'[d] \in PerformanceCall /\ Done(d)'
      BY <1>1, <1>3, <1>4, <1>8 DEF DeskInv, DeskCallsSound, Done, At
    <2>2. \A d \in entries' :
            d \in DeskCalls /\ deskCall'[d] \in ValidationCall /\ (At(d, "mark")' \/ Done(d)')
      BY <1>1, <1>4, <1>8 DEF DeskInv, DeskCallsSound, Done, At
    <2>3. \A d \in DeskCalls : deskCall'[d] \in Called => \A b \in deskCall'[d].before : Done(b)'
      <3>1. \A d \in DeskCalls : deskCall[d] \in Called => \A b \in deskCall[d].before : b \in DeskCalls
        BY DEF Called, ProvisionCall, PerformanceCall, ValidationCall
      <3> QED
        BY <1>3, <1>4, <1>5, <1>6, <3>1 DEF DeskInv, DeskCallsSound
    <2> QED
      BY <2>1, <2>2, <2>3 DEF DeskCallsSound
  <1>10. Unopposed'
    <2>1. \A d \in DeskCalls : At(d, "schedule")' \/ At(d, "record")' =>
            d # c /\ deskCall'[d] = deskCall[d] /\ deskCall[d] \in Called
      BY <1>3, <1>4 DEF At, DeskInv, DeskTyped, IdleDesk
    <2>2. \A d \in performances \cup entries : d \in DeskCalls /\ deskCall'[d] = deskCall[d]
      BY <1>4, <1>8 DEF DeskInv, DeskCallsSound
    <2> QED
      BY <1>1, <1>8, <2>1, <2>2 DEF DeskInv, Unopposed, At, Conflicts
  <1>11. NoLaterConflict'
    <2> SUFFICES ASSUME NEW p \in performances', NEW q \in performances', p # q,
                        p \in deskCall'[q].before, deskCall'[p].venue = deskCall'[q].venue,
                        deskCall'[p].slot - deskCall'[q].slot \in (-Window)..Window
                 PROVE  deskCall'[q].blind
      BY DEF NoLaterConflict
    <2>1. p # c
      BY <1>1, <1>3, <1>4, <1>6, <1>8 DEF DeskInv, DeskCallsSound, Called
    <2>2. p \in performances /\ deskCall'[p] = deskCall[p]
      BY <1>1, <1>4, <2>1 DEF DeskInv, DeskCallsSound
    <2>3. CASE q = c
      <3>1. Conflicts(c, p)
        BY <1>3, <1>4, <2>2, <2>3 DEF Conflicts
      <3>2. p \in deskCall[c].before
        BY <1>3, <1>4, <2>3
      <3> QED
        BY <1>1, <1>3, <1>4, <2>2, <2>3, <3>1, <3>2 DEF DeskInv, Unopposed
    <2>4. CASE q # c
      <3>1. q \in performances /\ deskCall'[q] = deskCall[q]
        BY <1>1, <1>4, <2>4 DEF DeskInv, DeskCallsSound
      <3> QED
        BY <2>2, <3>1 DEF DeskInv, NoLaterConflict
    <2> QED
      BY <2>3, <2>4
  <1>12. NoLaterEntry'
    <2>1. \A d \in entries : deskCall'[d] = deskCall[d]
      BY <1>4, <1>8 DEF DeskInv, DeskCallsSound
    <2> QED
      BY <1>1, <2>1 DEF DeskInv, NoLaterEntry
  <1> QED
    BY <1>7, <1>9, <1>10, <1>11, <1>12 DEF DeskInv

LEMMA RecordKeeps ==
    ASSUME DeskInv, NEW c \in DeskCalls, Record(c)
    PROVE  DeskInv'
  <1> DEFINE new == [deskCall[c] EXCEPT !.at = "mark"]
  <1>1. /\ At(c, "record") /\ ~At(c, "idle") /\ ~Done(c) /\ entries' = entries \cup {c}
        /\ deskCall' = [deskCall EXCEPT ![c] = new]
        /\ UNCHANGED <<operational, deskUser, staff, performances, marked, deskFaults>>
    BY DEF Record, Proceed, Answered, At, Done
  <1>2. deskCall[c] \in ValidationCall
    BY <1>1, UseCaseOf DEF At
  <1>3. /\ new \in ValidationCall /\ new.at = "mark" /\ new.before = deskCall[c].before
        /\ new.ticket = deskCall[c].ticket /\ new.venue = deskCall[c].venue /\ new.blind = deskCall[c].blind
    BY <1>2 DEF ValidationCall
  <1> HIDE DEF new
  <1>4. /\ deskCall' = [d \in DeskCalls |-> deskCall'[d]]
        /\ \A d \in DeskCalls : deskCall'[d] = IF d = c THEN new ELSE deskCall[d]
    BY <1>1 DEF DeskInv, DeskTyped
  <1>5. \A d \in DeskCalls : Done(d) => Done(d)' /\ d # c
    BY <1>1, <1>4 DEF Done, At
  <1>6. deskCall[c] \in Called /\ new \in Called
    BY <1>2, <1>3 DEF Called
  <1>7. DeskTyped'
    BY <1>1, <1>4, <1>6 DEF DeskInv, DeskTyped
  <1>8. /\ c \notin performances /\ c \notin entries
        /\ \A d \in DeskCalls : deskCall[d] \in Called => c \notin deskCall[d].before
    BY <1>1, <1>5 DEF DeskInv, DeskCallsSound, At, Done
  <1>9. DeskCallsSound'
    <2>1. \A d \in performances' :
            d \in DeskCalls /\ deskCall'[d] \in PerformanceCall /\ Done(d)'
      BY <1>1, <1>4, <1>8 DEF DeskInv, DeskCallsSound, Done, At
    <2>2. \A d \in entries' :
            d \in DeskCalls /\ deskCall'[d] \in ValidationCall /\ (At(d, "mark")' \/ Done(d)')
      BY <1>1, <1>3, <1>4, <1>8 DEF DeskInv, DeskCallsSound, Done, At
    <2>3. \A d \in DeskCalls : deskCall'[d] \in Called => \A b \in deskCall'[d].before : Done(b)'
      <3>1. \A d \in DeskCalls : deskCall[d] \in Called => \A b \in deskCall[d].before : b \in DeskCalls
        BY DEF Called, ProvisionCall, PerformanceCall, ValidationCall
      <3> QED
        BY <1>3, <1>4, <1>5, <1>6, <3>1 DEF DeskInv, DeskCallsSound
    <2> QED
      BY <2>1, <2>2, <2>3 DEF DeskCallsSound
  <1>10. Unopposed'
    <2>1. \A d \in DeskCalls : At(d, "schedule")' \/ At(d, "record")' =>
            d # c /\ deskCall'[d] = deskCall[d] /\ deskCall[d] \in Called
      BY <1>3, <1>4 DEF At, DeskInv, DeskTyped, IdleDesk
    <2>2. \A d \in performances \cup entries : d \in DeskCalls /\ deskCall'[d] = deskCall[d]
      BY <1>4, <1>8 DEF DeskInv, DeskCallsSound
    <2> QED
      BY <1>1, <1>8, <2>1, <2>2 DEF DeskInv, Unopposed, At, Conflicts
  <1>11. NoLaterEntry'
    <2> SUFFICES ASSUME NEW p \in entries', NEW q \in entries', p # q,
                        p \in deskCall'[q].before, deskCall'[p].ticket = deskCall'[q].ticket,
                        deskCall'[p].venue = deskCall'[q].venue
                 PROVE  deskCall'[q].blind
      BY DEF NoLaterEntry
    <2>1. p # c
      BY <1>1, <1>3, <1>4, <1>6, <1>8 DEF DeskInv, DeskCallsSound, Called
    <2>2. p \in entries /\ deskCall'[p] = deskCall[p]
      BY <1>1, <1>4, <2>1 DEF DeskInv, DeskCallsSound
    <2>3. CASE q = c
      BY <1>1, <1>3, <1>4, <2>2, <2>3 DEF DeskInv, Unopposed
    <2>4. CASE q # c
      <3>1. q \in entries /\ deskCall'[q] = deskCall[q]
        BY <1>1, <1>4, <2>4 DEF DeskInv, DeskCallsSound
      <3> QED
        BY <2>2, <3>1 DEF DeskInv, NoLaterEntry
    <2> QED
      BY <2>3, <2>4
  <1>12. NoLaterConflict'
    <2>1. \A d \in performances : deskCall'[d] = deskCall[d]
      BY <1>4, <1>8 DEF DeskInv, DeskCallsSound
    <2> QED
      BY <1>1, <2>1 DEF DeskInv, NoLaterConflict
  <1> QED
    BY <1>7, <1>9, <1>10, <1>11, <1>12 DEF DeskInv

LEMMA DeskInitInv == DeskInit => DeskInv
  <1> SUFFICES ASSUME DeskInit PROVE DeskInv
    OBVIOUS
  <1> USE DEF DeskInit
  <1>0. deskFaults \in 0..MaxDeskFaults
    BY DeskAssumption
  <1>1. [status |-> "active", rights |-> Rights] \in StaffRecord
    BY DEF StaffRecord
  <1>2. DeskTyped
    BY <1>0, <1>1 DEF DeskTyped
  <1>3. \A c \in DeskCalls : deskCall[c] \notin Called /\ ~At(c, "schedule") /\ ~At(c, "record")
    BY DEF IdleDesk, Called, ProvisionCall, PerformanceCall, ValidationCall, At
  <1>4. DeskCallsSound /\ Unopposed /\ NoLaterConflict /\ NoLaterEntry
    BY <1>3 DEF DeskCallsSound, Unopposed, NoLaterConflict, NoLaterEntry
  <1> QED
    BY <1>2, <1>4 DEF DeskInv

LEMMA DeskInvKept == DeskInv /\ [DeskNext]_deskVars => DeskInv'
  <1> SUFFICES ASSUME DeskInv, [DeskNext]_deskVars PROVE DeskInv'
    OBVIOUS
  <1>0. /\ operational \subseteq DeskVenues
        /\ deskUser \in [DeskUsers -> DeskVenues \cup {Unknown, NoVenue}]
        /\ staff \in [DeskUsers \X DeskVenues -> StaffRecord \cup {NoStaff}]
        /\ marked \subseteq Tickets /\ deskFaults \in 0..MaxDeskFaults
    BY DEF DeskInv, DeskTyped
  <1>f. (Answered \/ Failed) => deskFaults' \in 0..MaxDeskFaults
    BY <1>0, DeskAssumption DEF Answered, Failed
  <1>1. ASSUME NEW c \in DeskCalls, NEW u \in DeskUsers, NEW v \in DeskVenues,
               NEW rights \in SUBSET Rights, AskProvision(c, u, v, rights)
        PROVE  DeskInv'
    <2> DEFINE call == [at |-> "venue", before |-> Successes, blind |-> FALSE,
                        user |-> u, venue |-> v, rights |-> rights]
    <2>1. call \in Called /\ call.before = Successes /\ call.at = "venue"
      BY DEF Called, ProvisionCall, Successes
    <2>2. Begin(c, call)
      BY <1>1 DEF AskProvision
    <2> HIDE DEF call
    <2> QED
      BY <2>1, <2>2, BeginKeeps
  <1>2. ASSUME NEW c \in DeskCalls, NEW u \in DeskUsers, NEW v \in DeskVenues,
               NEW slot \in Slots, NEW owner \in DeskVenues, AskPerformance(c, u, v, slot, owner)
        PROVE  DeskInv'
    <2> DEFINE call == [at |-> "access", before |-> Successes, blind |-> FALSE,
                        user |-> u, venue |-> v, right |-> "create", slot |-> slot, owner |-> owner]
    <2>1. call \in Called /\ call.before = Successes /\ call.at = "access"
      BY DEF Called, PerformanceCall, Successes
    <2>2. Begin(c, call)
      BY <1>2 DEF AskPerformance
    <2> HIDE DEF call
    <2> QED
      BY <2>1, <2>2, BeginKeeps
  <1>3. ASSUME NEW c \in DeskCalls, NEW u \in DeskUsers, NEW v \in DeskVenues,
               NEW t \in Tickets, AskValidation(c, u, v, t)
        PROVE  DeskInv'
    <2> DEFINE call == [at |-> "access", before |-> Successes, blind |-> FALSE,
                        user |-> u, venue |-> v, right |-> "validate", ticket |-> t]
    <2>1. call \in Called /\ call.before = Successes /\ call.at = "access"
      BY DEF Called, ValidationCall, Successes
    <2>2. Begin(c, call)
      BY <1>3 DEF AskValidation
    <2> HIDE DEF call
    <2> QED
      BY <2>1, <2>2, BeginKeeps
  <1>a. ASSUME NEW c \in DeskCalls, NEW at,
               NEW from \in {"venue", "user", "associate", "enroll", "staff", "hire"}, At(c, from),
               at \in {"venue", "user", "associate", "enroll", "staff", "hire", "refused", "done"},
               Proceed(c, at), UNCHANGED <<operational, performances, entries, marked>>,
               Answered \/ Failed,
               deskUser' \in [DeskUsers -> DeskVenues \cup {Unknown, NoVenue}],
               staff' \in [DeskUsers \X DeskVenues -> StaffRecord \cup {NoStaff}]
        PROVE  DeskInv'
    <2>1. deskCall[c] \in ProvisionCall /\ ~At(c, "idle") /\ ~Done(c) /\ ~At(c, "mark")
      BY <1>a, UseCaseOf DEF At, Done
    <2>2. deskCall[c] \notin PerformanceCall /\ deskCall[c] \notin ValidationCall
      BY <1>a DEF At, PerformanceCall, ValidationCall
    <2> QED
      BY <1>0, <1>f, <1>a, <2>1, <2>2, DeskMove
  <1>4. ASSUME NEW c \in DeskCalls, ReadVenue(c) PROVE DeskInv'
    BY <1>0, <1>4, <1>a DEF ReadVenue, ProceedIf, Unwritten
  <1>5. ASSUME NEW c \in DeskCalls, FindUser(c) PROVE DeskInv'
    <2>1. PICK at \in {"enroll", "associate", "staff"} : Proceed(c, at)
      BY <1>5 DEF FindUser
    <2> QED
      BY <1>0, <1>5, <1>a, <2>1 DEF FindUser, Unwritten
  <1>6. ASSUME NEW c \in DeskCalls, WriteUser(c) PROVE DeskInv'
    <2>1. PICK from \in {"associate", "enroll"} : At(c, from)
      BY <1>6 DEF WriteUser
    <2>2. deskCall[c].venue \in DeskVenues
      BY <2>1, UseCaseOf DEF At, ProvisionCall
    <2>3. deskUser' \in [DeskUsers -> DeskVenues \cup {Unknown, NoVenue}]
      BY <1>0, <1>6, <2>2 DEF WriteUser
    <2> QED
      BY <1>0, <1>6, <1>a, <2>1, <2>3 DEF WriteUser, ProceedIf
  <1>7. ASSUME NEW c \in DeskCalls, CheckStaff(c) PROVE DeskInv'
    BY <1>0, <1>7, <1>a DEF CheckStaff, ProceedIf, Unwritten
  <1>8. ASSUME NEW c \in DeskCalls, Hire(c) PROVE DeskInv'
    <2>1. At(c, "hire") /\ deskCall[c].rights \in SUBSET Rights
      BY <1>8, UseCaseOf DEF Hire, At, ProvisionCall
    <2>2. [status |-> "active", rights |-> deskCall[c].rights] \in StaffRecord
      BY <2>1 DEF StaffRecord
    <2>3. staff' \in [DeskUsers \X DeskVenues -> StaffRecord \cup {NoStaff}]
      BY <1>0, <1>8, <2>2 DEF Hire
    <2> QED
      BY <1>0, <1>8, <1>a, <2>1, <2>3 DEF Hire, ProceedIf
  <1>9. ASSUME NEW c \in DeskCalls, CheckAccess(c) PROVE DeskInv'
    <2> DEFINE to == IF deskCall[c].right = "create" THEN "show" ELSE "code"
    <2>1. At(c, "access") /\ ~At(c, "idle") /\ ~Done(c) /\ ~At(c, "mark")
      BY <1>9 DEF CheckAccess, At, Done
    <2>2. PICK at \in {to, "refused"} : Proceed(c, at)
      BY <1>9 DEF CheckAccess, ProceedIf
    <2>3. deskCall[c] \notin ProvisionCall
      BY <2>1 DEF At, ProvisionCall
    <2>4. /\ deskCall[c] \in PerformanceCall => at \in {"show", "refused"}
          /\ deskCall[c] \in ValidationCall => at \in {"code", "refused"}
          /\ at \notin {"schedule", "record"}
      BY DEF PerformanceCall, ValidationCall
    <2>5. UNCHANGED <<operational, deskUser, staff, performances, entries, marked, deskFaults>>
      BY <1>9 DEF CheckAccess, Unwritten, Answered
    <2> QED
      BY <1>0, <2>1, <2>2, <2>3, <2>4, <2>5, DeskMove
  <1>b. ASSUME NEW c \in DeskCalls, NEW at, NEW from \in {"show", "conflict"}, At(c, from),
               at \in {"conflict", "schedule", "refused"}, Proceed(c, at) \/ Blindly(c, at),
               Unwritten, Answered \/ Failed,
               at = "schedule" => Blindly(c, at) \/ \A d \in performances : ~Conflicts(c, d)
        PROVE  DeskInv'
    <2>1. deskCall[c] \in PerformanceCall /\ ~At(c, "idle") /\ ~Done(c) /\ ~At(c, "mark")
      BY <1>b, UseCaseOf DEF At, Done
    <2>2. deskCall[c] \notin ProvisionCall /\ deskCall[c] \notin ValidationCall
      BY <1>b DEF At, ProvisionCall, ValidationCall
    <2>3. UNCHANGED <<operational, deskUser, staff, performances, entries, marked>>
      BY <1>b DEF Unwritten
    <2> QED
      BY <1>0, <1>f, <1>b, <2>1, <2>2, <2>3, DeskMove
  <1>10. ASSUME NEW c \in DeskCalls, CheckShow(c) PROVE DeskInv'
    BY <1>10, <1>b DEF CheckShow, ProceedIf
  <1>11. ASSUME NEW c \in DeskCalls, CheckConflicts(c) PROVE DeskInv'
    BY <1>11, <1>b DEF CheckConflicts, ProceedIf
  <1>12. ASSUME NEW c \in DeskCalls, Schedule(c) PROVE DeskInv'
    BY <1>12, ScheduleKeeps
  <1>c. ASSUME NEW c \in DeskCalls, NEW at, NEW from \in {"code", "duplicate", "mark"}, At(c, from),
               at \in {"duplicate", "record", "refused", "done"}, Proceed(c, at) \/ Blindly(c, at),
               UNCHANGED <<operational, deskUser, staff, performances, entries>>,
               marked' \subseteq Tickets, Answered \/ Failed, At(c, "mark") => at = "done",
               at = "record" => Blindly(c, at) \/ ~EnteredBefore(deskCall[c].ticket, deskCall[c].venue)
        PROVE  DeskInv'
    <2>1. deskCall[c] \in ValidationCall /\ ~At(c, "idle") /\ ~Done(c)
      BY <1>c, UseCaseOf DEF At, Done
    <2>2. deskCall[c] \notin ProvisionCall /\ deskCall[c] \notin PerformanceCall
      BY <1>c DEF At, ProvisionCall, PerformanceCall
    <2> QED
      BY <1>0, <1>f, <1>c, <2>1, <2>2, DeskMove
  <1>13. ASSUME NEW c \in DeskCalls, ReadCode(c) PROVE DeskInv'
    BY <1>0, <1>13, <1>c DEF ReadCode, ProceedIf, Unwritten, At
  <1>14. ASSUME NEW c \in DeskCalls, CheckDuplicate(c) PROVE DeskInv'
    BY <1>0, <1>14, <1>c DEF CheckDuplicate, ProceedIf, Unwritten, At
  <1>15. ASSUME NEW c \in DeskCalls, Record(c) PROVE DeskInv'
    BY <1>15, RecordKeeps
  <1>16. ASSUME NEW c \in DeskCalls, Mark(c) PROVE DeskInv'
    <2>1. At(c, "mark") /\ deskCall[c].ticket \in Tickets
      BY <1>16, UseCaseOf DEF Mark, At, ValidationCall
    <2> QED
      BY <1>0, <1>16, <1>c, <2>1 DEF Mark
  <1>17. ASSUME NEW c \in DeskCalls, BreakOff(c) PROVE DeskInv'
    <2>1. ~At(c, "idle") /\ ~Done(c) /\ ~At(c, "mark") /\ Proceed(c, "refused") /\ Failed
      BY <1>17 DEF BreakOff, At, Done
    <2>2. UNCHANGED <<operational, deskUser, staff, performances, entries, marked>>
      BY <1>17 DEF BreakOff, Unwritten
    <2> QED
      BY <1>0, <1>f, <2>1, <2>2, DeskMove
  <1>d. ASSUME UNCHANGED <<deskUser, performances, entries, marked, deskCall, deskFaults>>,
               operational' \subseteq DeskVenues,
               staff' \in [DeskUsers \X DeskVenues -> StaffRecord \cup {NoStaff}]
        PROVE  DeskInv'
    <2>1. DeskTyped' /\ DeskCallsSound'
      BY <1>d DEF DeskInv, DeskTyped, DeskCallsSound, Done, At
    <2>2. Unopposed' /\ NoLaterConflict' /\ NoLaterEntry'
      BY <1>d DEF DeskInv, Unopposed, NoLaterConflict, NoLaterEntry, At, Conflicts
    <2> QED
      BY <2>1, <2>2 DEF DeskInv
  <1>18. ASSUME NEW v \in DeskVenues, SwitchVenue(v) PROVE DeskInv'
    BY <1>0, <1>18, <1>d DEF SwitchVenue
  <1>19. ASSUME NEW u \in DeskUsers, NEW v \in DeskVenues, NEW st \in {"active", "suspended"},
                UpdateStaff(u, v, st)
         PROVE  DeskInv'
    <2>1. staff[<<u, v>>] \in StaffRecord
      BY <1>0, <1>19 DEF UpdateStaff
    <2>2. [staff[<<u, v>>] EXCEPT !.status = st] \in StaffRecord
      BY <2>1 DEF StaffRecord
    <2>3. staff' = [staff EXCEPT ![<<u, v>>] = [staff[<<u, v>>] EXCEPT !.status = st]]
      BY <1>19 DEF UpdateStaff
    <2>4. staff' \in [DeskUsers \X DeskVenues -> StaffRecord \cup {NoStaff}]
      BY <1>0, <2>2, <2>3
    <2> QED
      BY <1>0, <1>19, <1>d, <2>4 DEF UpdateStaff
  <1>20. CASE UNCHANGED deskVars
    BY <1>0, <1>20, <1>d DEF deskVars
  <1> QED
    BY <1>1, <1>2, <1>3, <1>4, <1>5, <1>6, <1>7, <1>8, <1>9, <1>10, <1>11, <1>12, <1>13, <1>14,
       <1>15, <1>16, <1>17, <1>18, <1>19, <1>20 DEF DeskNext

\* DeskInv holds in every state the desk can come to.
THEOREM DeskSpecInv == DeskSpec => []DeskInv
  BY DeskInitInv, DeskInvKept, PTL DEF DeskSpec

\* The tables and the calls of the desk keep to their types.
THEOREM DeskTypes == DeskSpec => []DeskTypeOK
  <1>1. DeskInv => DeskTypeOK
    <2> SUFFICES ASSUME DeskInv PROVE DeskTypeOK
      OBVIOUS
    <2>1. performances \cup entries \subseteq DeskCalls
      BY DEF DeskInv, DeskCallsSound
    <2>2. ASSUME NEW c \in DeskCalls
          PROVE  deskCall[c].at \in
                   {"idle", "venue", "user", "associate", "enroll", "staff", "hire", "access",
                    "show", "conflict", "schedule", "code", "duplicate", "record", "mark",
                    "refused", "done"}
      <3>1. deskCall[c] = IdleDesk \/ deskCall[c] \in Called
        BY DEF DeskInv, DeskTyped
      <3> QED
        BY <3>1 DEF Called, ProvisionCall, PerformanceCall, ValidationCall, IdleDesk
    <2> QED
      BY <2>1, <2>2 DEF DeskInv, DeskTyped, DeskTypeOK
  <1> QED
    BY DeskSpecInv, <1>1, PTL

\* A performance added after another one succeeded does not lie within four
\* hours of it, unless its lookup failed (ManageVenueShows.addShowPerformance).
THEOREM LaterPerformancesFit == DeskSpec => []NoLaterConflict
  <1>1. DeskInv => NoLaterConflict
    BY DEF DeskInv
  <1> QED
    BY DeskSpecInv, <1>1, PTL

\* A ticket that was let in is not let in again by a later scan, unless its
\* lookup failed (ValidateVenueTickets).
THEOREM LaterScansAreTold == DeskSpec => []NoLaterEntry
  <1>1. DeskInv => NoLaterEntry
    BY DEF DeskInv
  <1> QED
    BY DeskSpecInv, <1>1, PTL

-----------------------------------------------------------------------------
(* The back office *)

LEMMA InitsOfTheOffice == BackOfficeInit => AccountInit /\ DeskInit /\ AdminInit
  BY DEF BackOfficeInit

LEMMA StepsOfTheOffice ==
    [BackOfficeNext]_vars =>
        [AccountNext]_accountVars /\ [DeskNext]_deskVars /\ [AdminNext]_admin
  <1> SUFFICES ASSUME [BackOfficeNext]_vars
               PROVE  [AccountNext]_accountVars /\ [DeskNext]_deskVars /\ [AdminNext]_admin
    OBVIOUS
  <1>1. CASE BackOfficeNext
    BY <1>1 DEF BackOfficeNext
  <1>2. CASE UNCHANGED vars
    BY <1>2 DEF vars
  <1> QED
    BY <1>1, <1>2

\* A behaviour of the back office is one of each of its parts: the accounts,
\* the desk and the administrators do not see each other.
THEOREM PartsKeepToThemselves == BackOfficeSpec => AccountSpec /\ DeskSpec /\ AdminSpec
  BY InitsOfTheOffice, StepsOfTheOffice, PTL
     DEF BackOfficeSpec, AccountSpec, DeskSpec, AdminSpec

\* The stored accounts, the desk's tables and calls and the administrators keep
\* to their types.
THEOREM BackOfficeTypes == BackOfficeSpec => []BackOfficeTypeOK
  <1>1. AccountTypeOK /\ DeskTypeOK /\ AdminTypeOK => BackOfficeTypeOK
    BY DEF BackOfficeTypeOK
  <1> QED
    BY PartsKeepToThemselves, AccountTypes, DeskTypes, AdminTypes, <1>1, PTL

\* What the parts promise holds in the back office.
THEOREM BackOfficePromises ==
    BackOfficeSpec =>
        /\ []ClashesAreRaces /\ []UsageIsPricedInBounds /\ StatusFollowsTheTable
        /\ []NoLaterConflict /\ []NoLaterEntry /\ PermissionsAreGranted
  BY PartsKeepToThemselves, LookupsHold, BillsAreBounded, StatusTable,
     LaterPerformancesFit, LaterScansAreTold, NoPermissionOfItself, PTL
==============================================================================
