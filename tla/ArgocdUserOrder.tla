--------------------------- MODULE ArgocdUserOrder ---------------------------
(***************************************************************************)
(* That nothing is forgotten in ArgocdUser: when no event, retry, delivery *)
(* or reconcile is outstanding, every role is as the spec declares.        *)
(*                                                                         *)
(* The invariant says what a reconcile under way has established so far.   *)
(* A version it writes, or that somebody else writes, is delivered later,  *)
(* and the delivery queues the ArgocdUser; so only what is delivered and   *)
(* not queued has to be in order.                                          *)
(***************************************************************************)
EXTENDS ArgocdUserProofs

\* Nothing has happened to the ArgocdUser since it was last read
Quiet == ~queued /\ "informer" \in userFresh /\ user # Absent

\* The copies of the ConfigMap and the Secret, like those of the Groups
KeyCopies ==
    /\ "ConfigMap" \in fresh => accountsSeen = accounts
    /\ "Secret" \in fresh => passwordsSeen = passwords

\* The reconcile is past the k-th role, or at that role in one of the places pcs
Passed(k, pcs) ==
    \/ worker.pc = "idle"
    \/ worker.pc \in {"account", "password", "group"} /\ k < worker.i
    \/ worker.pc \in pcs /\ k = worker.i

GroupInOrder(r) ==
    /\ groups[r] # Absent
    /\ user.spec.users[r] \subseteq groups[r]
    /\ user.spec.auth => groups[r] = user.spec.users[r]
    /\ r \notin jumbled
    /\ gauge[r] = groups[r] \ user.spec.users[r]

AccountsDone == \A k \in 1..Len(Roles) :
    Passed(k, {"password", "group"}) /\ "ConfigMap" \in fresh => Roles[k] \in accounts

PasswordsDone == \A k \in 1..Len(Roles) :
    Passed(k, {"group"}) /\ "Secret" \in fresh =>
        passwords[Roles[k]] = user.spec.pass[Roles[k]]

GroupsDone == \A k \in 1..Len(Roles) :
    Passed(k, {}) /\ Roles[k] \in fresh => GroupInOrder(Roles[k])

\* The reconcile works for the ArgocdUser as it is, and so far it is in order
SoFar ==
    /\ worker.pc # "idle" => worker.held = user
    /\ worker.pc \in {"idle", "account", "password", "group"} => user.phase = "live"
    /\ AccountsDone /\ PasswordsDone /\ GroupsDone

OrderInv == KeyCopies /\ (Quiet => SoFar)

-----------------------------------------------------------------------------

\* The operator starts with what exists queued
LEMMA OrderInit == Init => OrderInv
BY DEF Init, OrderInv, KeyCopies, Quiet

\* Every step keeps the copies of the ConfigMap and the Secret
LEMMA KeyCopiesStep == UserInv /\ KeyCopies /\ [Next]_vars => KeyCopies'
<1> SUFFICES ASSUME UserInv, KeyCopies, [Next]_vars PROVE KeyCopies'
  OBVIOUS
<1> USE DEF KeyCopies, objects, copies, bounds
<1>t. /\ role \in Role /\ Role \intersect {"ConfigMap", "Secret"} = {}
  BY RoleAtHand, ParametersAssumption DEF UserInv
<1>1. CASE UpdateAccount \/ RemoveConfigMapEntries
  BY <1>1 DEF UpdateAccount, RemoveConfigMapEntries, PatchConfigMap
<1>2. CASE UpdatePassword \/ RemoveSecretEntries
  BY <1>2 DEF UpdatePassword, RemoveSecretEntries, PatchSecret
<1>3. CASE CreateGroup \/ UpdateGroup \/ DeleteGroup
  BY <1>3 DEF CreateGroup, UpdateGroup, DeleteGroup, WriteGroup
<1>4. CASE Deliver
  BY <1>4, <1>t DEF Deliver, DeliverUser, DeliverConfigMap, DeliverSecret, DeliverGroup
<1>5. CASE People
  BY <1>5 DEF People, CreateUser, EditUser, DeleteUser, EditGroup, EditConfigMap,
     LosePassword, WriteGroup, PatchConfigMap, PatchSecret
<1>6. CASE Restart
  BY <1>6 DEF Restart
<1>7. CASE UNCHANGED <<accounts, accountsSeen, passwords, passwordsSeen, fresh>>
  BY <1>7
<1> QED
  BY <1>1, <1>2, <1>3, <1>4, <1>5, <1>6, <1>7 DEF Next, Reconcile, StartGone, Start, StartNew,
     UserRefused, UpdateAccountPanics, PasswordTooLong, KeepGroup, GroupRefused,
     RemoveFinalizer, CallFails, vars

\* Failures and deliveries queue the ArgocdUser; writing it, or finding it gone,
\* leaves the informer behind or nothing to do
LEMMA Loud ==
  ASSUME UserInv,
         \/ StartGone \/ StartNew \/ UserRefused \/ UpdateAccountPanics \/ PasswordTooLong
         \/ GroupRefused \/ RemoveFinalizer \/ CallFails \/ Deliver \/ DeleteUser \/ Restart
         \/ \E s \in Specs : CreateUser(s) \/ EditUser(s)
  PROVE  ~Quiet'
<1>c. "informer" \in userFresh => userSeen = user
  BY DEF UserInv, Copies
<1>1. CASE StartGone
  BY <1>1, <1>c DEF StartGone, Quiet, objects, copies
<1>2. CASE StartNew \/ RemoveFinalizer
  BY <1>2 DEF StartNew, RemoveFinalizer, WriteUser, Quiet
<1>3. CASE UserRefused \/ UpdateAccountPanics \/ PasswordTooLong \/ GroupRefused \/ CallFails
  BY <1>3 DEF UserRefused, UpdateAccountPanics, PasswordTooLong, GroupRefused, CallFails,
     Fail, Quiet
<1>4. CASE Deliver
  <2>1. CASE DeliverUser \/ \E r \in Role : DeliverGroup(r)
    BY <2>1 DEF DeliverUser, DeliverGroup, Quiet
  <2>2. ASSUME DeliverConfigMap \/ DeliverSecret, Quiet' PROVE FALSE
    <3>1. UNCHANGED <<user, userFresh>> /\ "informer" \in userFresh' /\ user' # Absent
      BY <2>2 DEF DeliverConfigMap, DeliverSecret, objects, Quiet
    <3>2. userSeen # Absent
      BY <3>1, <1>c
    <3>3. queued'
      BY <2>2, <3>2 DEF DeliverConfigMap, DeliverSecret
    <3> QED
      BY <2>2, <3>3 DEF Quiet
  <2> QED
    BY <1>4, <2>1, <2>2 DEF Deliver
<1>5. CASE DeleteUser \/ \E s \in Specs : CreateUser(s) \/ EditUser(s)
  BY <1>5 DEF DeleteUser, CreateUser, EditUser, WriteUser, Quiet
<1>6. CASE Restart
  BY <1>6 DEF Restart, Quiet, objects
<1> QED
  BY <1>1, <1>2, <1>3, <1>4, <1>5, <1>6

\* What is done of the accounts stays done as long as the worker gets no further
\* and no new version is delivered
LEMMA AccountsStay ==
  ASSUME AccountsDone, "ConfigMap" \in fresh' => "ConfigMap" \in fresh /\ accounts \subseteq accounts',
         \A k \in 1..Len(Roles) : Passed(k, {"password", "group"})' => Passed(k, {"password", "group"})
  PROVE  AccountsDone'
BY DEF AccountsDone

LEMMA PasswordsStay ==
  ASSUME PasswordsDone, UNCHANGED user,
         "Secret" \in fresh' => "Secret" \in fresh /\ passwords' = passwords,
         \A k \in 1..Len(Roles) : Passed(k, {"group"})' => Passed(k, {"group"})
  PROVE  PasswordsDone'
BY DEF PasswordsDone

LEMMA GroupsStay ==
  ASSUME GroupsDone, UNCHANGED user,
         \A r \in Role : r \in fresh' =>
             /\ r \in fresh /\ groups'[r] = groups[r] /\ gauge'[r] = gauge[r]
             /\ r \in jumbled' => r \in jumbled,
         \A k \in 1..Len(Roles) : Passed(k, {})' => Passed(k, {})
  PROVE  GroupsDone'
<1> SUFFICES ASSUME NEW k \in 1..Len(Roles), Passed(k, {})', Roles[k] \in fresh'
             PROVE  GroupInOrder(Roles[k])'
  BY DEF GroupsDone
<1>1. Roles[k] \in Role
  BY DEF Role
<1>2. GroupInOrder(Roles[k])
  BY <1>1 DEF GroupsDone
<1> QED
  BY <1>1, <1>2 DEF GroupInOrder

\* Reconciling a role: each of its steps adds its part
LEMMA RoleSteps ==
  ASSUME UserInv, KeyCopies, Quiet, SoFar,
         UpdateAccount \/ UpdatePassword \/ CreateGroup \/ KeepGroup \/ UpdateGroup
  PROVE  SoFar'
<1> USE DEF objects, copies, bounds
<1>w. /\ worker = [pc |-> worker.pc, i |-> worker.i, held |-> worker.held]
      /\ worker.i \in 1..Len(Roles) /\ Len(Roles) \in Nat
  BY ParametersAssumption, LenProperties DEF UserInv, TypeOK, WorkerOK
<1>t. /\ role \in Role /\ role = Roles[worker.i]
      /\ Role \intersect {"ConfigMap", "Secret"} = {}
      /\ groups \in [Role -> {Absent} \union SUBSET Users]
      /\ gauge \in [Role -> {Absent} \union SUBSET Users]
      /\ passwords \in [Role -> {Absent} \union Passwords]
  BY RoleAtHand, ParametersAssumption DEF UserInv, TypeOK, role
<1>1. CASE UpdateAccount
  <2>1. /\ worker' = [worker EXCEPT !.pc = "password"] /\ worker.pc = "account"
        /\ UNCHANGED <<user, passwords, groups, jumbled, gauge>>
        /\ accounts' = accounts \union ({role} \ accountsSeen)
        /\ fresh' = IF accounts' = accounts THEN fresh ELSE fresh \ {"ConfigMap"}
    BY <1>1 DEF UpdateAccount, Goto, PatchConfigMap
  <2>2. AccountsDone'
    <3> SUFFICES ASSUME NEW k \in 1..Len(Roles), Passed(k, {"password", "group"})',
                        "ConfigMap" \in fresh'
                 PROVE  Roles[k] \in accounts'
      BY DEF AccountsDone
    <3>1. accounts' = accounts /\ "ConfigMap" \in fresh /\ accountsSeen = accounts
      BY <2>1 DEF KeyCopies
    <3>2. CASE k = worker.i
      BY <2>1, <3>1, <3>2, <1>t
    <3>3. CASE k # worker.i
      BY <2>1, <3>1, <3>3, <1>w DEF SoFar, AccountsDone, Passed
    <3> QED
      BY <3>2, <3>3
  <2>3. PasswordsDone'
    BY <2>1, <1>w, PasswordsStay DEF SoFar, Passed
  <2>4. GroupsDone'
    BY <2>1, <1>w, <1>t, GroupsStay DEF SoFar, Passed
  <2> QED
    BY <2>1, <2>2, <2>3, <2>4, <1>w DEF SoFar
<1>2. CASE UpdatePassword
  <2>1. /\ worker' = [worker EXCEPT !.pc = "group"] /\ worker.pc = "password"
        /\ UNCHANGED <<user, accounts, groups, jumbled, gauge>>
        /\ \/ passwordsSeen[role] = spec.pass[role] /\ UNCHANGED <<passwords, fresh>>
           \/ fresh' = fresh \ {"Secret"}
    BY <1>2 DEF UpdatePassword, Goto
  <2>2. AccountsDone'
    BY <2>1, <1>w, <1>t, AccountsStay DEF SoFar, Passed
  <2>3. PasswordsDone'
    <3> SUFFICES ASSUME NEW k \in 1..Len(Roles), Passed(k, {"group"})', "Secret" \in fresh'
                 PROVE  passwords'[Roles[k]] = user'.spec.pass[Roles[k]]
      BY DEF PasswordsDone
    <3>1. passwordsSeen[role] = spec.pass[role] /\ UNCHANGED <<passwords, fresh>>
      BY <2>1
    <3>2. CASE k = worker.i
      BY <2>1, <3>1, <3>2, <1>t DEF KeyCopies, SoFar, spec
    <3>3. CASE k # worker.i
      BY <2>1, <3>1, <3>3, <1>w DEF SoFar, PasswordsDone, Passed
    <3> QED
      BY <3>2, <3>3
  <2>4. GroupsDone'
    BY <2>1, <1>w, <1>t, GroupsStay DEF SoFar, Passed
  <2> QED
    BY <2>1, <2>2, <2>3, <2>4, <1>w DEF SoFar
<1>3. CASE CreateGroup \/ KeepGroup \/ UpdateGroup
  <2>1. /\ worker.pc = "group" /\ UNCHANGED <<user, accounts, passwords>>
        /\ fresh' \subseteq fresh
        /\ NextRole
    BY <1>3 DEF CreateGroup, KeepGroup, UpdateGroup, WriteGroup
  <2>2. \/ worker' = Idle /\ worker.i = Len(Roles)
        \/ /\ worker'.pc = "account" /\ worker'.i = worker.i + 1
           /\ worker'.held = worker.held
    <3>1. CASE worker.i < Len(Roles)
      BY <2>1, <3>1, <1>w DEF NextRole
    <3>2. CASE ~(worker.i < Len(Roles))
      <4>1. worker.i = Len(Roles)
        BY <3>2, <1>w
      <4> QED
        BY <2>1, <3>2, <4>1 DEF NextRole
    <3> QED
      BY <3>1, <3>2
  <2>3. \A k \in 1..Len(Roles) : worker'.pc = "idle" \/ k < worker'.i => k <= worker.i
    BY <2>2, <1>w
  <2>4. worker'.pc = "idle" \/ worker'.pc = "account"
    BY <2>2 DEF Idle
  <2>5. AccountsDone'
    BY <2>1, <2>3, <2>4, <1>w, AccountsStay DEF SoFar, Passed
  <2>6. PasswordsDone'
    BY <2>1, <2>3, <2>4, <1>w, PasswordsStay DEF SoFar, Passed
  <2>7. GroupsDone'
    <3> SUFFICES ASSUME NEW k \in 1..Len(Roles), Passed(k, {})', Roles[k] \in fresh'
                 PROVE  GroupInOrder(Roles[k])'
      BY DEF GroupsDone
    <3>1. k <= worker.i
      BY <2>3, <2>4 DEF Passed
    <3>2. CASE Roles[k] = role
      <4>1. KeepGroup /\ role \in fresh
        BY <1>3, <2>1, <3>2 DEF CreateGroup, UpdateGroup, WriteGroup
      <4>2. groupsSeen[role] = groups[role] /\ groups[role] # Absent /\ role \notin jumbled
        BY <4>1, <1>t DEF KeepGroup, GroupIsDesired, UserInv, Copies
      <4>3. worker.held = user /\ spec = user.spec
        BY <2>1 DEF SoFar, spec
      <4>4. /\ gauge'[role] = groups[role] \ user.spec.users[role]
            /\ IF user.spec.auth THEN user.spec.users[role] = groups[role]
                                 ELSE groups[role] \union user.spec.users[role] = groups[role]
        BY <4>1, <4>2, <4>3, <1>t DEF KeepGroup, GroupIsDesired, ReportUndeclared,
           DesiredGroupUsers
      <4>5. user.spec.users[role] \subseteq groups[role]
        BY <4>4
      <4>6. UNCHANGED <<user, groups, jumbled>>
        BY <4>1 DEF KeepGroup
      <4> QED
        BY <3>2, <4>2, <4>4, <4>5, <4>6 DEF GroupInOrder
    <3>3. CASE Roles[k] # role
      <4>1. k < worker.i /\ Roles[k] \in Role
        BY <3>1, <3>3, <1>t, <1>w DEF Role
      <4>2. Roles[k] \in fresh
        BY <2>1
      <4>3. GroupInOrder(Roles[k])
        BY <2>1, <4>1, <4>2 DEF SoFar, GroupsDone, Passed
      <4>4. /\ groups'[Roles[k]] = groups[Roles[k]] /\ gauge'[Roles[k]] = gauge[Roles[k]]
            /\ Roles[k] \in jumbled' => Roles[k] \in jumbled
        BY <1>3, <3>3, <4>1, <1>t DEF CreateGroup, KeepGroup, UpdateGroup, WriteGroup,
           ReportUndeclared
      <4> QED
        BY <2>1, <4>3, <4>4 DEF GroupInOrder
    <3> QED
      BY <3>2, <3>3
  <2>8. worker'.pc # "idle" => worker'.held = worker.held
    BY <2>2 DEF Idle
  <2> QED
    BY <2>1, <2>4, <2>5, <2>6, <2>7, <2>8 DEF SoFar
<1> QED
  BY <1>1, <1>2, <1>3

\* Every step keeps what is done so far
LEMMA OrderStep == UserInv /\ OrderInv /\ [Next]_vars => OrderInv'
<1> SUFFICES ASSUME UserInv, OrderInv, [Next]_vars PROVE OrderInv'
  OBVIOUS
<1>k. KeyCopies'
  BY KeyCopiesStep DEF OrderInv
<1> SUFFICES ASSUME Quiet' PROVE SoFar'
  BY <1>k DEF OrderInv
<1> USE DEF objects, copies, bounds
<1>w. /\ worker = [pc |-> worker.pc, i |-> worker.i, held |-> worker.held]
      /\ worker.i \in 1..Len(Roles)
  BY DEF UserInv, TypeOK, WorkerOK
<1>t. Role \intersect {"ConfigMap", "Secret"} = {}
      /\ groups \in [Role -> {Absent} \union SUBSET Users]
  BY ParametersAssumption DEF UserInv, TypeOK
<1>q. UNCHANGED <<user, userFresh, queued>> => Quiet /\ SoFar
  BY DEF Quiet, OrderInv
<1>1. CASE Start
  <2>1. /\ worker'.i = 1 /\ worker'.held = userSeen
        /\ worker'.pc = IF userSeen.phase = "live" THEN "account" ELSE "cleanAccounts"
        /\ UNCHANGED <<user, fresh>> /\ "informer" \in userFresh
    BY <1>1 DEF Start, Held, Idle, Quiet
  <2>2. userSeen = user
    BY <2>1 DEF UserInv, Copies
  <2>3. AccountsDone' /\ PasswordsDone' /\ GroupsDone'
    BY <2>1 DEF AccountsDone, PasswordsDone, GroupsDone, Passed
  <2> QED
    BY <2>1, <2>2, <2>3 DEF SoFar
<1>2. CASE UpdateAccount \/ UpdatePassword \/ CreateGroup \/ KeepGroup \/ UpdateGroup
  <2>1. UNCHANGED <<user, userFresh, queued>>
    BY <1>2 DEF UpdateAccount, UpdatePassword, CreateGroup, KeepGroup, UpdateGroup
  <2> QED
    BY <1>2, <1>q, <2>1, RoleSteps DEF OrderInv
<1>3. CASE RemoveConfigMapEntries \/ RemoveSecretEntries \/ DeleteGroup
  <2>1. /\ UNCHANGED <<user, userFresh, queued>>
        /\ worker'.pc \in {"cleanPasswords", "cleanGroups", "finalizer"}
        /\ worker'.held = worker.held /\ worker.pc # "idle"
    BY <1>3, <1>w DEF RemoveConfigMapEntries, RemoveSecretEntries, DeleteGroup, Goto
  <2>2. AccountsDone' /\ PasswordsDone' /\ GroupsDone'
    BY <2>1 DEF AccountsDone, PasswordsDone, GroupsDone, Passed
  <2> QED
    BY <2>1, <2>2, <1>q DEF SoFar
<1>4. CASE People
  <2>1. ASSUME NEW r \in Role, NEW members \in {Absent} \union SUBSET Users,
               NEW disorder \in BOOLEAN, EditGroup(r, members, disorder)
        PROVE  SoFar'
    <3>1. /\ UNCHANGED <<user, userFresh, queued, worker, accounts, passwords, gauge>>
          /\ groups' = [groups EXCEPT ![r] = members] /\ fresh' = fresh \ {r}
          /\ jumbled' \subseteq jumbled \union {r}
      BY <2>1 DEF EditGroup, WriteGroup
    <3>2. AccountsDone' /\ PasswordsDone'
      BY <3>1, <1>q, AccountsStay, PasswordsStay DEF SoFar, Passed
    <3>3. GroupsDone'
      BY <3>1, <1>q, <1>t, GroupsStay DEF SoFar, Passed
    <3> QED
      BY <3>1, <3>2, <3>3, <1>q DEF SoFar
  <2>2. ASSUME NEW key \in Keys, EditConfigMap(key) PROVE SoFar'
    <3>1. /\ UNCHANGED <<user, userFresh, queued, worker, passwords, groups, jumbled, gauge>>
          /\ fresh' = IF accounts' = accounts THEN fresh ELSE fresh \ {"ConfigMap"}
      BY <2>2 DEF EditConfigMap, PatchConfigMap
    <3>2. AccountsDone' /\ PasswordsDone'
      BY <3>1, <1>q, AccountsStay, PasswordsStay DEF SoFar, Passed
    <3>3. GroupsDone'
      BY <3>1, <1>q, <1>t, GroupsStay DEF SoFar, Passed
    <3> QED
      BY <3>1, <3>2, <3>3, <1>q DEF SoFar
  <2>3. ASSUME NEW r \in Role, LosePassword(r) PROVE SoFar'
    <3>1. /\ UNCHANGED <<user, userFresh, queued, worker, accounts, groups, jumbled, gauge>>
          /\ fresh' = IF passwords' = passwords THEN fresh ELSE fresh \ {"Secret"}
      BY <2>3 DEF LosePassword, PatchSecret
    <3>2. AccountsDone' /\ PasswordsDone'
      BY <3>1, <1>q, AccountsStay, PasswordsStay DEF SoFar, Passed
    <3>3. GroupsDone'
      BY <3>1, <1>q, <1>t, GroupsStay DEF SoFar, Passed
    <3> QED
      BY <3>1, <3>2, <3>3, <1>q DEF SoFar
  <2>4. CASE DeleteUser \/ \E s \in Specs : CreateUser(s) \/ EditUser(s)
    BY <2>4, Loud
  <2> QED
    BY <1>4, <2>1, <2>2, <2>3, <2>4 DEF People
<1>5. CASE UNCHANGED vars
  <2>1. UNCHANGED <<user, userFresh, queued, worker, accounts, passwords, groups, jumbled, gauge,
                  fresh>>
    BY <1>5 DEF vars
  <2>2. AccountsDone' /\ PasswordsDone' /\ GroupsDone'
    BY <2>1, <1>q, AccountsStay, PasswordsStay, GroupsStay DEF SoFar, Passed
  <2> QED
    BY <2>1, <2>2, <1>q DEF SoFar
<1>6. CASE \/ StartGone \/ StartNew \/ UserRefused \/ UpdateAccountPanics \/ PasswordTooLong
           \/ GroupRefused \/ RemoveFinalizer \/ CallFails \/ Deliver \/ Restart
  BY <1>6, Loud
<1> QED
  BY <1>1, <1>2, <1>3, <1>4, <1>5, <1>6 DEF Next, Reconcile

\* The operator never rests before every role of the ArgocdUser is as declared,
\* whatever order of edits, stale copies, refused Updates, panics, failures half
\* way through the roles and restarts led there
THEOREM NothingForgotten == Spec => []InOrderOrPending
<1>1. OrderInv /\ UserInv /\ [Next]_vars => OrderInv'
  BY OrderStep
<1>2. OrderInv => InOrderOrPending
  <2> SUFFICES ASSUME OrderInv, user # Absent, ~Pending
               PROVE  user.phase = "live" /\ \A r \in Role : RoleInOrder(r)
    BY DEF InOrderOrPending
  <2>1. Quiet /\ worker.pc = "idle" /\ fresh = Watched
    BY DEF Pending, Quiet
  <2>2. SoFar
    BY <2>1 DEF OrderInv
  <2>3. ASSUME NEW r \in Role PROVE RoleInOrder(r)
    <3>1. PICK k \in 1..Len(Roles) : r = Roles[k]
      BY DEF Role
    <3> QED
      BY <2>1, <2>2, <3>1 DEF SoFar, AccountsDone, PasswordsDone, GroupsDone, Passed,
         GroupInOrder, RoleInOrder, Provided, Watched
  <2> QED
    BY <2>1, <2>2, <2>3 DEF SoFar
<1> QED
  BY <1>1, <1>2, OrderInit, UserInvariant, PTL DEF Spec
=============================================================================
