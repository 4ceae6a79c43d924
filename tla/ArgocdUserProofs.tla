--------------------------- MODULE ArgocdUserProofs ---------------------------
(***************************************************************************)
(* Theorems about ArgocdUser, for any roles, passwords, users and specs:   *)
(* its types, that merging never loses a member of a Group, and that the   *)
(* finalizer goes only after an up-to-date cleanup.  All three rest on what *)
(* it means to hold a newest version, and on what a cleanup is told.       *)
(***************************************************************************)
EXTENDS ArgocdUser, SequenceTheorems, TLAPS

\* A copy said to be of the newest version is the object itself.  The worker's
\* is from before it added the finalizer, and says the same otherwise.
Copies ==
    /\ "informer" \in userFresh => userSeen = user
    /\ \A r \in Role : r \in fresh =>
            groupsSeen[r] = groups[r] /\ (r \in jumbledSeen <=> r \in jumbled)
    /\ "worker" \in userFresh /\ worker.pc # "idle" =>
            /\ user # Absent /\ user.spec = worker.held.spec
            /\ worker.held.phase = "deleting" => user = worker.held

\* A cleanup is for an ArgocdUser that is to be deleted, and takes the Groups
\* away only if membership is authoritative
Cleaning ==
    /\ worker.pc \in {"cleanAccounts", "cleanPasswords", "cleanGroups", "finalizer"}
            => worker.held.phase = "deleting"
    /\ worker.pc = "cleanGroups" => worker.held.spec.auth

UserInv == TypeOK /\ Copies /\ Cleaning

-----------------------------------------------------------------------------

\* The operator starts with fresh copies and an idle worker
LEMMA UserInit == Init => UserInv
<1> SUFFICES ASSUME Init PROVE UserInv
  OBVIOUS
<1>1. TypeOK
  BY ParametersAssumption, AbsentAssumption DEF Init, TypeOK, WorkerOK, Idle, Watched, User
<1>2. Copies /\ Cleaning
  BY DEF Init, Copies, Cleaning, Idle
<1> QED
  BY <1>1, <1>2 DEF UserInv

\* After one role there is another, or none
LEMMA RoleAfter ==
  ASSUME NEW i \in 1..Len(Roles), i < Len(Roles)
  PROVE  i + 1 \in 1..Len(Roles)
<1>1. Len(Roles) \in Nat
  BY ParametersAssumption, LenProperties
<1> QED
  BY <1>1

\* The role at hand is a role, and the worker holds an ArgocdUser
LEMMA RoleAtHand ==
  ASSUME TypeOK
  PROVE  /\ role \in Role
         /\ worker.pc # "idle" => worker.held \in User /\ spec \in Declaration
BY DEF TypeOK, WorkerOK, role, Role, spec, User

\* Every step keeps the types
LEMMA TypeStep == UserInv /\ [Next]_vars => TypeOK'
<1> SUFFICES ASSUME UserInv, [Next]_vars PROVE TypeOK'
  OBVIOUS
<1> USE DEF UserInv, TypeOK, WorkerOK, objects, copies, bounds
<1>r. role \in Role /\ (worker.pc # "idle" => worker.held \in User /\ spec \in Declaration)
  BY RoleAtHand
<1>a. Absent \notin User /\ 1 \in 1..Len(Roles)
  BY AbsentAssumption, ParametersAssumption
<1>n. ASSUME NextRole, worker.pc = "group" PROVE WorkerOK'
  <2>1. CASE worker.i < Len(Roles)
    BY <1>n, <1>a, <2>1, RoleAfter DEF NextRole
  <2>2. CASE ~(worker.i < Len(Roles))
    BY <1>n, <1>a, <2>2 DEF NextRole, Idle
  <2> QED
    BY <2>1, <2>2
<1>1. CASE StartGone
  BY <1>1 DEF StartGone
<1>2. CASE Start
  BY <1>2, <1>a DEF Start, Held, Idle
<1>3. CASE StartNew
  BY <1>3, <1>a DEF StartNew, Held, Idle, WriteUser, Copies, User
<1>4. CASE UserRefused
  BY <1>4, <1>a DEF UserRefused, Fail, Idle
<1>5. CASE UpdateAccount
  BY <1>5, <1>r DEF UpdateAccount, PatchConfigMap, Goto, Watched, Keys
<1>6. CASE UpdatePassword
  BY <1>6, <1>r DEF UpdatePassword, Goto, Declaration, Watched
<1>7. CASE UpdateAccountPanics \/ PasswordTooLong
  <2>1. Fail /\ UNCHANGED <<objects, copies, userFresh, fresh, gauge, bounds>>
    BY <1>7 DEF PasswordTooLong, UpdateAccountPanics
  <2> QED
    BY <1>a, <2>1 DEF Fail, Idle
<1>8. CASE CreateGroup
  BY <1>8, <1>r, <1>n DEF CreateGroup, WriteGroup, Declaration, Watched
<1>9. CASE KeepGroup
  BY <1>9, <1>r, <1>n DEF KeepGroup, ReportUndeclared
<1>10. CASE UpdateGroup
  BY <1>10, <1>r, <1>n DEF UpdateGroup, ReportUndeclared, WriteGroup, DesiredGroupUsers, Declaration, Watched
<1>11. CASE GroupRefused
  BY <1>11, <1>r, <1>a DEF GroupRefused, ReportUndeclared, Fail, Idle
<1>12. CASE RemoveConfigMapEntries
  BY <1>12 DEF RemoveConfigMapEntries, PatchConfigMap, Goto
<1>13. CASE RemoveSecretEntries
  BY <1>13 DEF RemoveSecretEntries, PatchSecret
<1>14. CASE DeleteGroup
  <2>1. WorkerOK'
    BY <1>14, RoleAfter DEF DeleteGroup
  <2>2. groups' \in [Role -> {Absent} \union SUBSET Users] /\ fresh' \subseteq Watched
        /\ gauge' \in [Role -> {Absent} \union SUBSET Users] /\ jumbled' \subseteq Role
    BY <1>14, <1>r DEF DeleteGroup, WriteGroup
  <2> QED
    BY <1>14, <2>1, <2>2 DEF DeleteGroup
<1>15. CASE RemoveFinalizer
  BY <1>15, <1>a DEF RemoveFinalizer, WriteUser, Idle
<1>16. CASE CallFails
  BY <1>16, <1>r, <1>a DEF CallFails, Trouble, ReportUndeclared, Fail, Idle
<1>17. CASE Deliver
  BY <1>17 DEF Deliver, DeliverUser, DeliverConfigMap, DeliverSecret, DeliverGroup, Watched
<1>18. CASE People
  <2>1. ASSUME NEW s \in Specs, CreateUser(s) PROVE TypeOK'
    BY <2>1, ParametersAssumption DEF CreateUser, Change, WriteUser, User
  <2>2. ASSUME NEW s \in Specs, EditUser(s) PROVE TypeOK'
    BY <2>2, ParametersAssumption DEF EditUser, Change, WriteUser, User
  <2>3. CASE DeleteUser
    BY <2>3 DEF DeleteUser, Change, WriteUser, User
  <2>4. ASSUME NEW r \in Role, NEW members \in {Absent} \union SUBSET Users,
               NEW disorder \in BOOLEAN, EditGroup(r, members, disorder)
        PROVE  TypeOK'
    BY <2>4 DEF EditGroup, Change, WriteGroup
  <2>5. ASSUME NEW key \in Keys, EditConfigMap(key) PROVE TypeOK'
    BY <2>5 DEF EditConfigMap, Change, PatchConfigMap
  <2>6. ASSUME NEW r \in Role, LosePassword(r) PROVE TypeOK'
    BY <2>6 DEF LosePassword, Change, PatchSecret
  <2> HIDE DEF UserInv, TypeOK, WorkerOK, objects, copies, bounds
  <2> QED
    BY <1>18, <2>1, <2>2, <2>3, <2>4, <2>5, <2>6 DEF People
<1>19. CASE Restart
  BY <1>19, <1>a DEF Restart, Trouble, Idle, Watched
<1>20. CASE UNCHANGED vars
  BY <1>20 DEF vars
<1> QED
  BY <1>1, <1>2, <1>3, <1>4, <1>5, <1>6, <1>7, <1>8, <1>9, <1>10, <1>11, <1>12, <1>13,
     <1>14, <1>15, <1>16, <1>17, <1>18, <1>19, <1>20 DEF Next, Reconcile

\* The steps that leave the worker alone, or make it idle
LEMMA WorkerRests ==
  ASSUME \/ StartGone \/ UserRefused \/ UpdateAccountPanics \/ PasswordTooLong
         \/ GroupRefused \/ RemoveFinalizer \/ CallFails \/ Deliver \/ People \/ Restart \/ UNCHANGED vars
  PROVE  worker' = worker \/ worker' = Idle
<1>1. CASE StartGone \/ UserRefused \/ UpdateAccountPanics \/ PasswordTooLong
           \/ GroupRefused \/ RemoveFinalizer \/ CallFails \/ Restart \/ UNCHANGED vars
  BY <1>1 DEF StartGone, UserRefused, UpdateAccountPanics, PasswordTooLong, GroupRefused,
     RemoveFinalizer, CallFails, Fail, Restart, vars
<1>2. CASE Deliver
  BY <1>2 DEF Deliver, DeliverUser, DeliverConfigMap, DeliverSecret, DeliverGroup
<1>3. CASE People
  BY <1>3 DEF People, CreateUser, EditUser, DeleteUser, EditGroup, EditConfigMap, LosePassword
<1> QED
  BY <1>1, <1>2, <1>3

\* Every step keeps the cleanup to what it was told: it begins with a Start that
\* read a deletion, and reaches the Groups only in authoritative mode
LEMMA CleaningStep == UserInv /\ [Next]_vars => Cleaning'
<1> SUFFICES ASSUME UserInv, [Next]_vars PROVE Cleaning'
  OBVIOUS
<1> USE DEF UserInv, Cleaning
<1>w. worker = [pc |-> worker.pc, i |-> worker.i, held |-> worker.held]
  BY DEF TypeOK, WorkerOK
<1>i. worker' = worker \/ worker' = Idle => Cleaning'
  BY DEF Idle
<1>2. CASE Start
  <2>1. worker'.held = userSeen /\ worker'.pc \in {"account", "cleanAccounts"}
    BY <1>2 DEF Start, Held, Idle
  <2>2. worker'.pc = "cleanAccounts" => userSeen.phase = "deleting"
    BY <1>2 DEF Start, Held, Idle
  <2> QED
    BY <2>1, <2>2
<1>3. CASE StartNew
  BY <1>3 DEF StartNew, Held, Idle
<1>4. CASE UpdateAccount \/ UpdatePassword
  BY <1>4, <1>w DEF UpdateAccount, UpdatePassword, Goto
<1>5. CASE CreateGroup \/ KeepGroup \/ UpdateGroup
  <2>1. NextRole
    BY <1>5 DEF CreateGroup, KeepGroup, UpdateGroup
  <2>2. worker' = Idle \/ worker'.pc = "account"
    BY <2>1, <1>w DEF NextRole
  <2> QED
    BY <1>i, <2>2
<1>6. CASE RemoveConfigMapEntries \/ RemoveSecretEntries
  BY <1>6, <1>w DEF RemoveConfigMapEntries, RemoveSecretEntries, Goto, spec
<1>7. CASE DeleteGroup
  BY <1>7, <1>w DEF DeleteGroup
<1> QED
  BY <1>i, <1>2, <1>3, <1>4, <1>5, <1>6, <1>7, WorkerRests DEF Next, Reconcile

\* What is said of the worker's copy holds as long as neither it nor the
\* ArgocdUser changes
LEMMA CopyKept ==
  ASSUME Copies, worker'.held = worker.held, worker.pc # "idle", UNCHANGED <<user, userFresh>>
  PROVE  "worker" \in userFresh' /\ worker'.pc # "idle" =>
            /\ user' # Absent /\ user'.spec = worker'.held.spec
            /\ worker'.held.phase = "deleting" => user' = worker'.held
BY DEF Copies

\* Every step keeps the copies to what they are said to be
LEMMA CopiesStep == UserInv /\ [Next]_vars => Copies'
<1> SUFFICES ASSUME UserInv, [Next]_vars PROVE Copies'
  OBVIOUS
<1> USE DEF UserInv, objects, copies, bounds
<1> DEFINE Reading == "worker" \in userFresh /\ worker.pc # "idle" =>
                        /\ user # Absent /\ user.spec = worker.held.spec
                        /\ worker.held.phase = "deleting" => user = worker.held
           Shown == "informer" \in userFresh => userSeen = user
           ShownGroups == \A r \in Role : r \in fresh =>
                groupsSeen[r] = groups[r] /\ (r \in jumbledSeen <=> r \in jumbled)
<1>c. (Shown /\ ShownGroups /\ Reading) /\ (Shown' /\ ShownGroups' /\ Reading' => Copies')
  BY DEF Copies
<1>w. worker = [pc |-> worker.pc, i |-> worker.i, held |-> worker.held]
  BY DEF TypeOK, WorkerOK
<1>t. /\ role \in Role /\ Role \intersect {"ConfigMap", "Secret"} = {}
      /\ userFresh \subseteq {"informer", "worker"} /\ fresh \subseteq Watched
      /\ groups \in [Role -> {Absent} \union SUBSET Users]
      /\ groupsSeen \in [Role -> {Absent} \union SUBSET Users]
      /\ Absent \notin User /\ user \in {Absent} \union User
  BY RoleAtHand, ParametersAssumption, AbsentAssumption DEF TypeOK
<1>1. CASE StartGone
  BY <1>1 DEF StartGone, Copies
<1>2. CASE Start
  <2>1. Shown' /\ ShownGroups'
    BY <1>2, <1>c DEF Start
  <2>2. worker'.held = userSeen /\ userSeen # Absent
    BY <1>2 DEF Start, Held, Idle
  <2>3. "worker" \in userFresh' => userSeen = user
    BY <1>2, <1>c DEF Start
  <2> QED
    BY <1>2, <1>c, <2>1, <2>2, <2>3 DEF Start
<1>3. CASE StartNew
  <2>1. user = userSeen /\ user \in User /\ worker'.held = userSeen
    BY <1>3, <1>c, <1>t DEF StartNew, Held, Idle
  <2>2. user' = [user EXCEPT !.phase = "live"] /\ userFresh' = {"worker"}
    BY <1>3 DEF StartNew, WriteUser
  <2>3. user' \in User /\ user'.spec = user.spec /\ user.phase = "new"
    BY <2>1, <2>2, <1>3 DEF User, StartNew
  <2>4. Shown' /\ ShownGroups'
    BY <1>3, <1>c, <2>2 DEF StartNew
  <2> QED
    BY <1>c, <1>t, <2>1, <2>2, <2>3, <2>4
<1>4. CASE UpdateAccount
  <2>1. ShownGroups'
    BY <1>4, <1>c, <1>t DEF UpdateAccount, PatchConfigMap
  <2> QED
    BY <1>4, <1>c, <1>w, <2>1, CopyKept DEF UpdateAccount, Goto
<1>5. CASE UpdatePassword
  <2>1. ShownGroups'
    BY <1>5, <1>c, <1>t DEF UpdatePassword
  <2> QED
    BY <1>5, <1>c, <1>w, <2>1, CopyKept DEF UpdatePassword, Goto
<1>6. CASE CreateGroup \/ KeepGroup \/ UpdateGroup
  <2>1. ShownGroups'
    BY <1>6, <1>c, <1>t DEF CreateGroup, KeepGroup, UpdateGroup, WriteGroup
  <2>2. UNCHANGED <<user, userFresh, userSeen>> /\ NextRole /\ worker.pc = "group"
    BY <1>6 DEF CreateGroup, KeepGroup, UpdateGroup
  <2>3. worker' = Idle \/ worker'.held = worker.held
    BY <2>2, <1>w DEF NextRole
  <2>4. Reading'
    BY <2>2, <2>3, CopyKept DEF Idle
  <2> QED
    BY <1>c, <2>1, <2>2, <2>4
<1>7. CASE UserRefused \/ UpdateAccountPanics \/ PasswordTooLong \/ GroupRefused \/ CallFails
  <2>1. /\ UNCHANGED <<user, userSeen, userFresh, groups, groupsSeen, jumbled, jumbledSeen, fresh>>
        /\ worker' = Idle
    BY <1>7 DEF UserRefused, UpdateAccountPanics, PasswordTooLong, GroupRefused, CallFails, Fail
  <2> QED
    BY <1>c, <2>1 DEF Idle
<1>8. CASE RemoveConfigMapEntries
  <2>1. ShownGroups'
    BY <1>8, <1>c, <1>t DEF RemoveConfigMapEntries, PatchConfigMap
  <2> QED
    BY <1>8, <1>c, <1>w, <2>1, CopyKept DEF RemoveConfigMapEntries, Goto
<1>9. CASE RemoveSecretEntries
  <2>1. ShownGroups'
    BY <1>9, <1>c, <1>t DEF RemoveSecretEntries, PatchSecret
  <2> QED
    BY <1>9, <1>c, <1>w, <2>1, CopyKept DEF RemoveSecretEntries
<1>10. CASE DeleteGroup
  <2>1. ShownGroups'
    BY <1>10, <1>c, <1>t DEF DeleteGroup, WriteGroup
  <2>2. worker'.held = worker.held
    BY <1>10, <1>w DEF DeleteGroup
  <2> QED
    BY <1>10, <1>c, <2>1, <2>2, CopyKept DEF DeleteGroup
<1>11. CASE RemoveFinalizer
  BY <1>11, <1>c DEF RemoveFinalizer, WriteUser, Idle
<1>12. CASE Deliver
  <2>1. CASE DeliverUser
    BY <2>1, <1>c DEF DeliverUser
  <2>2. CASE DeliverConfigMap \/ DeliverSecret
    BY <2>2, <1>c, <1>t DEF DeliverConfigMap, DeliverSecret
  <2>3. ASSUME NEW r \in Role, DeliverGroup(r) PROVE Copies'
    BY <2>3, <1>c, <1>t DEF DeliverGroup
  <2> QED
    BY <1>12, <2>1, <2>2, <2>3 DEF Deliver
<1>13. CASE People
  <2>1. CASE (\E s \in Specs : CreateUser(s) \/ EditUser(s)) \/ DeleteUser
    BY <2>1, <1>c DEF CreateUser, EditUser, DeleteUser, WriteUser
  <2>2. ASSUME NEW r \in Role, NEW members \in {Absent} \union SUBSET Users,
               NEW disorder \in BOOLEAN, EditGroup(r, members, disorder)
        PROVE  Copies'
    BY <2>2, <1>c, <1>t DEF EditGroup, WriteGroup
  <2>3. ASSUME NEW key \in Keys, EditConfigMap(key) PROVE Copies'
    BY <2>3, <1>c, <1>t DEF EditConfigMap, PatchConfigMap
  <2>4. ASSUME NEW r \in Role, LosePassword(r) PROVE Copies'
    BY <2>4, <1>c, <1>t DEF LosePassword, PatchSecret
  <2> QED
    BY <1>13, <2>1, <2>2, <2>3, <2>4 DEF People
<1>14. CASE Restart
  BY <1>14 DEF Restart, Copies, Idle
<1>15. CASE UNCHANGED vars
  BY <1>15, <1>c DEF vars
<1> QED
  BY <1>1, <1>2, <1>3, <1>4, <1>5, <1>6, <1>7, <1>8, <1>9, <1>10, <1>11, <1>12, <1>13,
     <1>14, <1>15 DEF Next, Reconcile

\* What holds in every state
LEMMA UserInvariant == Spec => []UserInv
<1>1. UserInv /\ [Next]_vars => UserInv'
  BY TypeStep, CopiesStep, CleaningStep DEF UserInv
<1> QED
  BY <1>1, UserInit, PTL DEF Spec

-----------------------------------------------------------------------------

\* What people do is counted, and nothing else is
LEMMA PeopleCount ==
  ASSUME People
  PROVE  changes' = changes + 1
<1>1. ASSUME NEW s \in Specs, CreateUser(s) \/ EditUser(s) PROVE changes' = changes + 1
  BY <1>1 DEF CreateUser, EditUser, Change
<1>2. CASE DeleteUser
  BY <1>2 DEF DeleteUser, Change
<1>3. ASSUME NEW r \in Role, NEW members \in {Absent} \union SUBSET Users,
             NEW disorder \in BOOLEAN, EditGroup(r, members, disorder)
      PROVE  changes' = changes + 1
  BY <1>3 DEF EditGroup, Change
<1>4. ASSUME NEW key \in Keys, EditConfigMap(key) PROVE changes' = changes + 1
  BY <1>4 DEF EditConfigMap, Change
<1>5. ASSUME NEW r \in Role, LosePassword(r) PROVE changes' = changes + 1
  BY <1>5 DEF LosePassword, Change
<1> QED
  BY <1>1, <1>2, <1>3, <1>4, <1>5 DEF People

\* The types of the variables, in every state
THEOREM TypeCorrect == Spec => []TypeOK
BY UserInvariant, PTL DEF UserInv

\* README, "members added out-of-band stay": reconciling, failing, cleaning up or
\* restarting, the operator takes nobody out of a Group in merge mode.  An Update
\* of a Group starts from its newest version, and a cleanup deletes Groups in
\* authoritative mode only.
THEOREM MembersStay == Spec => MergedMembersStay
<1> DEFINE Keep == changes' = changes =>
      \A r \in Role : groups[r] # Absent /\ ~(worker.held # Absent /\ spec.auth) =>
          groups'[r] # Absent /\ groups[r] \subseteq groups'[r]
<1>1. UserInv /\ [Next]_vars => Keep
  <2> SUFFICES ASSUME UserInv, [Next]_vars, changes' = changes,
                      NEW r \in Role, groups[r] # Absent,
                      ~(worker.held # Absent /\ spec.auth)
               PROVE  groups'[r] # Absent /\ groups[r] \subseteq groups'[r]
    OBVIOUS
  <2> USE DEF objects, copies, bounds
  <2>t. /\ role \in Role /\ groups \in [Role -> {Absent} \union SUBSET Users]
        /\ changes \in Nat
    BY RoleAtHand DEF UserInv, TypeOK
  <2>1. CASE CreateGroup
    BY <2>1, <2>t DEF CreateGroup, WriteGroup
  <2>2. CASE UpdateGroup
    <3>1. groupsSeen[role] = groups[role] /\ worker.pc = "group"
      BY <2>2, <2>t DEF UpdateGroup, UserInv, Copies
    <3>2. worker.held # Absent /\ spec \in Declaration
      BY <3>1, RoleAtHand DEF UserInv, TypeOK, WorkerOK
    <3>3. groups' = [groups EXCEPT ![role] = groups[role] \union spec.users[role]]
      BY <2>2, <3>1, <3>2 DEF UpdateGroup, WriteGroup, DesiredGroupUsers
    <3>4. CASE r = role
      <4>1. groups[r] \in SUBSET Users /\ spec.users[role] \in SUBSET Users
        BY <2>t, <3>2 DEF Declaration
      <4>2. groups'[r] = groups[r] \union spec.users[role]
        BY <2>t, <3>3, <3>4
      <4> QED
        BY <4>1, <4>2, AbsentAssumption
    <3>5. CASE r # role
      BY <2>t, <3>3, <3>5
    <3> QED
      BY <3>4, <3>5
  <2>3. CASE DeleteGroup
    <3>1. worker.held # Absent /\ spec.auth
      BY <2>3 DEF DeleteGroup, UserInv, Cleaning, TypeOK, WorkerOK, spec
    <3> QED
      BY <3>1
  <2>4. CASE People
    BY <2>4, <2>t, PeopleCount
  <2>5. CASE Deliver
    BY <2>5 DEF Deliver, DeliverUser, DeliverConfigMap, DeliverSecret, DeliverGroup
  <2>6. CASE UNCHANGED groups
    BY <2>6
  <2> QED
    BY <2>1, <2>2, <2>3, <2>4, <2>5, <2>6 DEF Next, Reconcile, StartGone, Start, StartNew,
       UserRefused, UpdateAccount, UpdateAccountPanics, UpdatePassword, PasswordTooLong, KeepGroup, GroupRefused,
       RemoveConfigMapEntries, RemoveSecretEntries, RemoveFinalizer, CallFails, Restart, vars
<1> QED
  BY <1>1, UserInvariant, PTL DEF Spec, MergedMembersStay

\* The finalizer goes only with the version of the ArgocdUser that was cleaned up
THEOREM FinalizerGoesLast == Spec => FinalizerLast
<1> DEFINE Last == user # Absent /\ user' = Absent /\ changes' = changes =>
      /\ user.phase = "deleting"
      /\ worker.held.phase = "deleting"
      /\ worker.held.spec = user.spec
<1>1. UserInv /\ [Next]_vars => Last
  <2> SUFFICES ASSUME UserInv, [Next]_vars, user # Absent, user' = Absent, changes' = changes
               PROVE  /\ user.phase = "deleting"
                      /\ worker.held.phase = "deleting"
                      /\ worker.held.spec = user.spec
    OBVIOUS
  <2> USE DEF objects, copies, bounds
  <2>t. user \in User /\ changes \in Nat /\ Absent \notin User
    BY AbsentAssumption DEF UserInv, TypeOK
  <2>1. CASE RemoveFinalizer
    BY <2>1 DEF RemoveFinalizer, UserInv, Copies, Cleaning
  <2>2. ~StartNew
    BY <2>t DEF StartNew, WriteUser, User
  <2>3. ~People
    BY <2>t, PeopleCount
  <2>4. ~Deliver
    BY DEF Deliver, DeliverUser, DeliverConfigMap, DeliverSecret, DeliverGroup
  <2> QED
    BY <2>1, <2>2, <2>3, <2>4 DEF Next, Reconcile, StartGone, Start, UserRefused,
       UpdateAccount, UpdateAccountPanics, UpdatePassword, PasswordTooLong, CreateGroup, KeepGroup, UpdateGroup,
       GroupRefused, RemoveConfigMapEntries, RemoveSecretEntries, DeleteGroup, CallFails,
       Restart, vars
<1> QED
  BY <1>1, UserInvariant, PTL DEF Spec, FinalizerLast

-----------------------------------------------------------------------------
(* What is in order stays in order.                                        *)

\* As long as people do nothing, the operator goes on working for the ArgocdUser as it is
LEMMA UpToDateStays ==
  ASSUME UserInv, [Next]_vars, changes' = changes, UpToDate
  PROVE  UpToDate' /\ UNCHANGED user
<1> USE DEF objects, copies, bounds
<1>t. /\ user \in User /\ Absent \notin User /\ changes \in Nat
      /\ user # Absent /\ user.phase = "live" /\ userSeen = user
      /\ worker.pc \in {"idle", "account", "password", "group"}
      /\ worker.pc # "idle" => worker.held \in User /\ worker.held.spec = user.spec
  BY AbsentAssumption DEF UserInv, TypeOK, WorkerOK, UpToDate
<1>1. ASSUME UNCHANGED <<user, userSeen>>,
             \/ worker' = Idle
             \/ /\ worker'.pc \in {"account", "password", "group"}
                /\ worker'.held = worker.held /\ worker.pc # "idle"
             \/ UNCHANGED worker
      PROVE  UpToDate' /\ UNCHANGED user
  BY <1>1, <1>t DEF UpToDate, Idle
<1>2. CASE Start
  <2>1. worker'.held = user /\ worker'.pc = "account" /\ UNCHANGED <<user, userSeen>>
    BY <1>2, <1>t DEF Start, Held, Idle
  <2> QED
    BY <2>1, <1>t DEF UpToDate
<1>3. CASE UpdateAccount \/ UpdatePassword
  BY <1>1, <1>3 DEF UpdateAccount, UpdatePassword, Goto, UserInv, TypeOK, WorkerOK
<1>4. CASE CreateGroup \/ KeepGroup \/ UpdateGroup
  BY <1>1, <1>4 DEF CreateGroup, KeepGroup, UpdateGroup, NextRole, UserInv, TypeOK, WorkerOK
<1>5. CASE UpdateAccountPanics \/ PasswordTooLong \/ GroupRefused \/ UserRefused \/ CallFails
  BY <1>1, <1>5 DEF UpdateAccountPanics, PasswordTooLong, GroupRefused, UserRefused, CallFails, Fail
<1>6. CASE Deliver \/ Restart
  BY <1>6, <1>t DEF Deliver, DeliverUser, DeliverConfigMap, DeliverSecret, DeliverGroup, Restart,
     UpToDate, Idle
<1>7. ~StartNew /\ ~RemoveConfigMapEntries /\ ~RemoveSecretEntries /\ ~DeleteGroup
        /\ ~RemoveFinalizer
  BY <1>t DEF StartNew, RemoveConfigMapEntries, RemoveSecretEntries, DeleteGroup, RemoveFinalizer
<1>8. ~People
  BY <1>t, PeopleCount
<1>9. CASE StartGone \/ UNCHANGED vars
  BY <1>1, <1>9 DEF StartGone, vars
<1> QED
  BY <1>2, <1>3, <1>4, <1>5, <1>6, <1>7, <1>8, <1>9 DEF Next, Reconcile

\* What may be written on behalf of an ArgocdUser as it is
LEMMA UpToDateWrites ==
  ASSUME UserInv, [Next]_vars, changes' = changes, UpToDate
  PROVE  \/ UpdateAccount \/ UpdatePassword \/ CreateGroup \/ UpdateGroup
         \/ UNCHANGED <<accounts, passwords, groups, jumbled>> /\ fresh \subseteq fresh'
<1> USE DEF objects, copies, bounds
<1>t. /\ changes \in Nat /\ fresh \subseteq Watched
      /\ user # Absent /\ user.phase = "live" /\ userSeen = user
      /\ worker.pc \in {"idle", "account", "password", "group"}
  BY DEF UserInv, TypeOK, WorkerOK, UpToDate
<1>1. ~StartNew /\ ~RemoveConfigMapEntries /\ ~RemoveSecretEntries /\ ~DeleteGroup
        /\ ~RemoveFinalizer
  BY <1>t DEF StartNew, RemoveConfigMapEntries, RemoveSecretEntries, DeleteGroup, RemoveFinalizer
<1>2. ~People
  BY <1>t, PeopleCount
<1>3. CASE Deliver
  BY <1>3 DEF Deliver, DeliverUser, DeliverConfigMap, DeliverSecret, DeliverGroup
<1> QED
  BY <1>t, <1>1, <1>2, <1>3 DEF Next, Reconcile, StartGone, Start, UserRefused,
     UpdateAccountPanics, PasswordTooLong, KeepGroup, GroupRefused, CallFails, Restart, vars

\* A worker at work for the ArgocdUser as it is declares what that one does
LEMMA Declares ==
  ASSUME UserInv, UpToDate, worker.pc # "idle"
  PROVE  /\ spec = user.spec /\ spec \in Declaration /\ role \in Role
         /\ spec.users[role] \in SUBSET Users
BY RoleAtHand DEF UserInv, TypeOK, WorkerOK, UpToDate, spec, Declaration

\* An Update of a Group starts from what the Group is, keeps what is declared, and is
\* needed for the members or for their order
LEMMA GroupUpdated ==
  ASSUME UserInv, UpToDate, UpdateGroup
  PROVE  /\ groups[role] \in SUBSET Users
         /\ groups' = [groups EXCEPT ![role] =
                         IF user.spec.auth THEN user.spec.users[role]
                                           ELSE groups[role] \union user.spec.users[role]]
         /\ role \notin jumbled =>
                /\ user.spec.auth => groups[role] # user.spec.users[role]
                /\ ~user.spec.auth => ~(user.spec.users[role] \subseteq groups[role])
<1>1. spec = user.spec /\ spec \in Declaration /\ role \in Role
  BY Declares DEF UpdateGroup
<1>2. /\ groupsSeen[role] = groups[role] /\ groups[role] \in SUBSET Users
      /\ role \in jumbledSeen <=> role \in jumbled
  BY <1>1 DEF UpdateGroup, UserInv, Copies, TypeOK
<1>3. role \notin jumbled => DesiredGroupUsers(groups[role]) # groups[role]
  BY <1>2 DEF UpdateGroup, GroupIsDesired
<1>4. groups' = [groups EXCEPT ![role] = DesiredGroupUsers(groups[role])]
  BY <1>2 DEF UpdateGroup, WriteGroup
<1> QED
  BY <1>1, <1>2, <1>3, <1>4 DEF DesiredGroupUsers

\* What a role has been given it keeps
LEMMA ProvidedStep ==
  ASSUME UserInv, [Next]_vars, changes' = changes, UpToDate, NEW r \in Role, Provided(r)
  PROVE  Provided(r)'
<1> USE DEF Provided
<1>t. /\ passwords \in [Role -> {Absent} \union Passwords]
      /\ groups \in [Role -> {Absent} \union SUBSET Users]
      /\ UNCHANGED user
  BY UpToDateStays DEF UserInv, TypeOK
<1>1. CASE UpdateAccount
  BY <1>1, <1>t DEF UpdateAccount, PatchConfigMap
<1>2. CASE UpdatePassword
  <2>1. spec = user.spec /\ role \in Role
    BY <1>2, Declares DEF UpdatePassword
  <2>2. /\ passwords' = passwords \/ passwords' = [passwords EXCEPT ![role] = user.spec.pass[role]]
        /\ UNCHANGED <<accounts, groups>>
    BY <1>2, <2>1 DEF UpdatePassword
  <2> QED
    BY <1>t, <2>1, <2>2
<1>3. CASE CreateGroup
  <2>1. role \in Role /\ role # r
    BY <1>3, Declares DEF CreateGroup
  <2> QED
    BY <1>3, <1>t, <2>1 DEF CreateGroup, WriteGroup
<1>4. CASE UpdateGroup
  <2>1. role \in Role /\ user.spec.users[role] \in SUBSET Users
    BY <1>4, Declares DEF UpdateGroup
  <2>2. groups[role] \in SUBSET Users
        /\ groups' = [groups EXCEPT ![role] =
                         IF user.spec.auth THEN user.spec.users[role]
                                           ELSE groups[role] \union user.spec.users[role]]
    BY <1>4, GroupUpdated
  <2>3. UNCHANGED <<accounts, passwords>>
    BY <1>4 DEF UpdateGroup
  <2>4. CASE r = role
    <3>1. /\ groups'[r] \in SUBSET Users /\ user.spec.users[r] \subseteq groups'[r]
          /\ user.spec.auth => groups'[r] = user.spec.users[r]
      BY <1>t, <2>1, <2>2, <2>4
    <3> QED
      BY <1>t, <2>3, <3>1, AbsentAssumption
  <2>5. CASE r # role
    BY <1>t, <2>1, <2>2, <2>3, <2>5
  <2> QED
    BY <2>4, <2>5
<1>5. CASE UNCHANGED <<accounts, passwords, groups>>
  BY <1>5, <1>t
<1> QED
  BY <1>1, <1>2, <1>3, <1>4, <1>5, UpToDateWrites

\* Whatever lags, fails or is restarted, a role keeps the account, the password and the
\* members it has been given
THEOREM WhatIsProvidedStays == Spec => ProvidedStays
<1>1. UserInv /\ [Next]_vars =>
        [UpToDate /\ changes' = changes =>
            UpToDate' /\ \A r \in Role : Provided(r) => Provided(r)']_vars
  BY UpToDateStays, ProvidedStep
<1> QED
  BY <1>1, UserInvariant, PTL DEF Spec, ProvidedStays

\* In a settled cluster a reconcile finds nothing to write
LEMMA NothingToWrite ==
  ASSUME UserInv, [Next]_vars, changes' = changes, Settled
  PROVE  UNCHANGED <<accounts, passwords, groups, jumbled>> /\ fresh \subseteq fresh'
<1>t. /\ UpToDate /\ accountsSeen = accounts /\ passwordsSeen = passwords /\ groupsSeen = groups
      /\ jumbled = {} /\ \A r \in Role : Provided(r)
  BY DEF Settled, copies, objects
<1>1. ASSUME worker.pc # "idle"
      PROVE  Provided(role) /\ spec = user.spec /\ role \in Role
  BY <1>t, <1>1, Declares
<1>2. CASE UpdateAccount
  <2>1. role \in accountsSeen
    BY <1>t, <1>1, <1>2 DEF UpdateAccount, Provided
  <2>2. accounts \union ({role} \ accountsSeen) = accounts
    BY <2>1
  <2> QED
    BY <1>2, <2>2 DEF UpdateAccount, PatchConfigMap
<1>3. CASE UpdatePassword
  BY <1>t, <1>1, <1>3 DEF UpdatePassword, Provided
<1>4. ~CreateGroup
  BY <1>1 DEF CreateGroup, Provided
<1>5. ~UpdateGroup
  BY <1>t, <1>1, GroupUpdated DEF UpdateGroup, Provided
<1> QED
  BY <1>t, <1>2, <1>3, <1>4, <1>5, UpToDateWrites

\* The copies go on showing what is there
LEMMA CopiesStay ==
  ASSUME UserInv, [Next]_vars, changes' = changes, copies = objects, UNCHANGED objects
  PROVE  copies' = objects'
<1>t. /\ userSeen = user /\ accountsSeen = accounts /\ passwordsSeen = passwords
      /\ groupsSeen = groups /\ jumbledSeen = jumbled /\ groups \in [Role -> {Absent} \union SUBSET Users]
      /\ changes \in Nat
  BY DEF copies, objects, UserInv, TypeOK
<1>0. UNCHANGED <<user, accounts, passwords, groups, jumbled>>
  BY DEF objects
<1>1. CASE UNCHANGED copies
  BY <1>1
<1>2. CASE DeliverUser \/ DeliverConfigMap \/ DeliverSecret \/ Restart
  BY <1>2, <1>t, <1>0 DEF DeliverUser, DeliverConfigMap, DeliverSecret, Restart, copies, objects
<1>3. ASSUME NEW r \in Role, DeliverGroup(r) PROVE copies' = objects'
  <2>1. jumbledSeen' = jumbled
    BY <1>3, <1>t DEF DeliverGroup
  <2> QED
    BY <1>3, <1>t, <1>0, <2>1 DEF DeliverGroup, copies, objects
<1>4. ~People
  BY <1>t, PeopleCount
<1> QED
  BY <1>1, <1>2, <1>3, <1>4 DEF Next, Deliver, Reconcile, StartGone, Start, StartNew, UserRefused,
     UpdateAccount, UpdateAccountPanics, UpdatePassword, PasswordTooLong, CreateGroup, KeepGroup,
     UpdateGroup, GroupRefused, RemoveConfigMapEntries, RemoveSecretEntries, DeleteGroup,
     RemoveFinalizer, CallFails, vars

\* Once all roles are as declared, the Groups in order, and the copies show it, the
\* operator makes no version
\* of any object, and so no event for itself
THEOREM WhatIsSettledStays == Spec => SettledStays
<1>1. ASSUME UserInv, [Next]_vars, Settled, changes' = changes
      PROVE  Settled' /\ UNCHANGED objects /\ fresh \subseteq fresh'
  <2>1. UpToDate /\ \A r \in Role : Provided(r)
    BY <1>1 DEF Settled
  <2>2. UNCHANGED objects /\ fresh \subseteq fresh'
    BY <1>1, <2>1, UpToDateStays, NothingToWrite DEF objects
  <2>3. UpToDate' /\ \A r \in Role : Provided(r)'
    BY <1>1, <2>1, UpToDateStays, ProvidedStep
  <2>4. copies' = objects' /\ jumbled' = {}
    BY <1>1, <2>2, CopiesStay DEF Settled, objects
  <2> QED
    BY <2>2, <2>3, <2>4 DEF Settled
<1> QED
  BY <1>1, UserInvariant, PTL DEF Spec, SettledStays
=============================================================================
