----------------------------- MODULE ArgocdUser -----------------------------
(***************************************************************************)
(* The life of one ArgocdUser apart from its AppProject: its finalizer,    *)
(* its accounts in the ConfigMap argocd-cm, their passwords in the Secret  *)
(* argocd-secret, and the OpenShift Groups of its roles.                   *)
(*                                                                         *)
(* Every read comes from an informer's copy that may lag the server.  An   *)
(* Update of the ArgocdUser or of a Group is refused unless it starts from *)
(* the newest version; a Patch of the ConfigMap or Secret is not, and      *)
(* carries only the keys by which it differs from the copy.                *)
(*                                                                         *)
(* Only this controller's worker reads the copies, so the Get and the      *)
(* write that follows it are one step: a delivery between the two is a     *)
(* delivery after them.  ArgocdUsers do not share keys or Groups, and one  *)
(* is enough.                                                              *)
(***************************************************************************)
EXTENDS Naturals, Sequences

CONSTANTS
    Roles,        \* groupRoles: the roles, in the order they are reconciled
    Passwords,    \* ciPass of a role
    TooLong,      \* those that bcrypt refuses
    Users,        \* members of Groups
    Absent,       \* what does not exist
    Specs,        \* bound: the specs people give the ArgocdUser
    MaxChanges,   \* bound: changes made by people
    MaxTroubles   \* bound: API calls that fail, and restarts of the operator

Role == {Roles[i] : i \in 1..Len(Roles)}

\* auth: the annotation, or else the environment, makes membership authoritative.
\* jumbled: the roles whose users are listed out of order, or some of them twice.
Declaration == [pass : [Role -> Passwords], users : [Role -> SUBSET Users],
                jumbled : SUBSET Role, auth : BOOLEAN]
User == [phase : {"new", "live", "deleting"}, spec : Declaration]

ASSUME ParametersAssumption ==
    /\ Roles \in Seq(STRING) /\ Len(Roles) > 0
    /\ Role \intersect {"ConfigMap", "Secret", "others"} = {}
    /\ TooLong \subseteq Passwords
    /\ Specs \subseteq Declaration
    /\ {MaxChanges, MaxTroubles} \subseteq Nat

\* Absent is not an ArgocdUser, what a reconcile is for, a password, an account or a
\* set of members
ASSUME AbsentAssumption ==
    /\ Absent \notin User /\ Absent \notin [goal : {"provide", "withdraw"}, spec : Declaration]
    /\ Absent \notin Passwords /\ Absent # "declared"
    /\ \A members \in SUBSET Users : members # Absent

VARIABLES
    user, userSeen,            \* the ArgocdUser, at the server and as the informer shows it
    userFresh,                 \* who holds its newest version: "informer", "worker"
    accounts, accountsSeen,    \* keys of the ConfigMap: roles with an account, and "others"
    passwords, passwordsSeen,  \* what the hash of each role in the Secret was made from
    groups, groupsSeen,        \* members of each role's Group
    jumbled, jumbledSeen,      \* roles whose Group lists them out of order, or some twice
    fresh,                     \* of the ConfigMap, the Secret and the Group of each role,
                               \* those whose newest version the informer shows
    gauge,                     \* undeclaredGroupMembers: the members counted
    queued,                    \* whether the ArgocdUser waits to be reconciled
    worker,                    \* where its reconcile is
    changes, troubles

objects == <<user, accounts, passwords, groups, jumbled>>
copies  == <<userSeen, accountsSeen, passwordsSeen, groupsSeen, jumbledSeen>>
bounds  == <<changes, troubles>>
vars    == <<objects, copies, userFresh, fresh, gauge, queued, worker, bounds>>

Watched == {"ConfigMap", "Secret"} \union Role

\* Keys of the ConfigMap: the accounts, and whatever else it configures
Keys == Role \union {"others"}

Idle == [pc |-> "idle", i |-> 1, held |-> Absent]

\* The role being reconciled, and what the spec read at the start says of it
role  == Roles[worker.i]
spec  == worker.held.spec

-----------------------------------------------------------------------------
\* The operator starts, in a cluster that may have been managed before
Init ==
    /\ user \in {Absent} \union [phase : {"new", "live", "deleting"}, spec : Specs]
    /\ accounts \in SUBSET Keys
    /\ passwords \in [Role -> (Passwords \ TooLong) \union {Absent}]
    /\ groups \in [Role -> {Absent} \union SUBSET Users]
    /\ jumbled \in SUBSET {r \in Role : groups[r] \notin {Absent, {}}}
    /\ userSeen = user /\ accountsSeen = accounts
    /\ passwordsSeen = passwords /\ groupsSeen = groups /\ jumbledSeen = jumbled
    /\ userFresh = {"informer"}
    /\ fresh = Watched
    /\ gauge = [r \in Role |-> Absent]
    /\ queued = (user # Absent)
    /\ worker = Idle
    /\ changes = 0 /\ troubles = 0

-----------------------------------------------------------------------------
(* ArgocdUserReconciler.Reconcile.                                         *)

Goto(pc) == worker' = [worker EXCEPT !.pc = pc]

\* An error is returned, and the ArgocdUser queued again
Fail == worker' = Idle /\ queued' = TRUE

WriteUser(object, holders) == user' = object /\ userFresh' = holders

\* A Patch that changes nothing makes no version
PatchConfigMap(keys) ==
    /\ accounts' = keys
    /\ fresh' = IF keys = accounts THEN fresh ELSE fresh \ {"ConfigMap"}

PatchSecret(keys) ==
    /\ passwords' = keys
    /\ fresh' = IF keys = passwords THEN fresh ELSE fresh \ {"Secret"}

\* The members, and whether they are listed out of order or twice
WriteGroup(r, members, disorder) ==
    /\ groups' = [groups EXCEPT ![r] = members]
    /\ jumbled' = IF disorder /\ members \notin {Absent, {}} THEN jumbled \union {r}
                                                            ELSE jumbled \ {r}
    /\ fresh' = fresh \ {r}

\* Nothing to do for an ArgocdUser that is gone
StartGone ==
    /\ worker.pc = "idle" /\ queued /\ userSeen = Absent
    /\ queued' = FALSE
    /\ UNCHANGED <<objects, copies, userFresh, fresh, gauge, worker, bounds>>

\* The copy read is kept until the reconcile ends
Held == [Idle EXCEPT !.held = userSeen]

\* The finalizer is there: clean up, or reconcile the first role
Start ==
    /\ worker.pc = "idle" /\ queued /\ userSeen # Absent
    /\ userSeen.phase \in {"live", "deleting"}
    /\ queued' = FALSE
    /\ worker' = [Held EXCEPT !.pc = IF userSeen.phase = "live" THEN "account" ELSE "cleanAccounts"]
    /\ userFresh' = IF "informer" \in userFresh THEN {"informer", "worker"}
                                                 ELSE userFresh \ {"worker"}
    /\ UNCHANGED <<objects, copies, fresh, gauge, bounds>>

\* The finalizer is added first, if nobody changed the ArgocdUser meanwhile
StartNew ==
    /\ worker.pc = "idle" /\ queued /\ userSeen # Absent /\ userSeen.phase = "new"
    /\ "informer" \in userFresh
    /\ WriteUser([user EXCEPT !.phase = "live"], {"worker"})
    /\ queued' = FALSE
    /\ worker' = [Held EXCEPT !.pc = "account"]
    /\ UNCHANGED <<accounts, passwords, groups, jumbled, copies, fresh, gauge, bounds>>

\* (Slip: the whole copy is sent, not what it lacks)
UpdateAccountWhole ==
    /\ worker.pc = "account" /\ accountsSeen # {}
    /\ PatchConfigMap(accountsSeen \union {role})
    /\ Goto("password")
    /\ UNCHANGED <<user, passwords, groups, jumbled, copies, userFresh, gauge, queued, bounds>>

\* UpdateUserArgocdConfig: the account is declared in the ConfigMap
UpdateAccount ==
    /\ worker.pc = "account" /\ accountsSeen # {}
    /\ PatchConfigMap(accounts \union ({role} \ accountsSeen))
    /\ Goto("password")
    /\ UNCHANGED <<user, passwords, groups, jumbled, copies, userFresh, gauge, queued, bounds>>

\* A ConfigMap without keys has a nil map: the assignment panics, and the
\* controller makes an error of it
UpdateAccountPanics ==
    /\ worker.pc = "account" /\ accountsSeen = {}
    /\ Fail
    /\ UNCHANGED <<objects, copies, userFresh, fresh, gauge, bounds>>

\* (Slip: a password that is there already is taken for the right one)
UpdatePasswordOnce ==
    /\ worker.pc = "password" /\ spec.pass[role] \notin TooLong
    /\ IF passwordsSeen[role] # Absent
       THEN UNCHANGED <<passwords, fresh>>
       ELSE /\ passwords' = [passwords EXCEPT ![role] = spec.pass[role]]
            /\ fresh' = fresh \ {"Secret"}
    /\ Goto("group")
    /\ UNCHANGED <<user, accounts, groups, jumbled, copies, userFresh, gauge, queued, bounds>>

\* (Slip: the password is hashed anew each time, and no hash is like another)
UpdatePasswordAlways ==
    /\ worker.pc = "password" /\ spec.pass[role] \notin TooLong
    /\ passwords' = [passwords EXCEPT ![role] = spec.pass[role]]
    /\ fresh' = fresh \ {"Secret"}
    /\ Goto("group")
    /\ UNCHANGED <<user, accounts, groups, jumbled, copies, userFresh, gauge, queued, bounds>>

\* ... and its password is put into the Secret, unless it is there already
UpdatePassword ==
    /\ worker.pc = "password" /\ spec.pass[role] \notin TooLong
    /\ IF passwordsSeen[role] = spec.pass[role]
       THEN UNCHANGED <<passwords, fresh>>
       ELSE /\ passwords' = [passwords EXCEPT ![role] = spec.pass[role]]
            /\ fresh' = fresh \ {"Secret"}
    /\ Goto("group")
    /\ UNCHANGED <<user, accounts, groups, jumbled, copies, userFresh, gauge, queued, bounds>>

\* hashPassword fails, and with it the reconcile of this role and the next ones
PasswordTooLong ==
    /\ worker.pc = "password" /\ spec.pass[role] \in TooLong
    /\ Fail
    /\ UNCHANGED <<objects, copies, userFresh, fresh, gauge, bounds>>

\* (Slip: one role too many)
NextRolePastLast ==
    worker' = IF worker.i <= Len(Roles)
              THEN [worker EXCEPT !.pc = "account", !.i = @ + 1]
              ELSE Idle

\* On to the next role, or done
NextRole ==
    worker' = IF worker.i < Len(Roles)
              THEN [worker EXCEPT !.pc = "account", !.i = @ + 1]
              ELSE Idle

\* desiredGroupUsers: undeclared members stay unless membership is authoritative
DesiredGroupUsers(existing) ==
    IF spec.auth THEN spec.users[role] ELSE existing \union spec.users[role]

\* The Group of the copy needs no Update: lists are compared, and mergeStringSlices
\* makes the desired one sorted, with each member once
GroupIsDesired ==
    DesiredGroupUsers(groupsSeen[role]) = groupsSeen[role] /\ role \notin jumbledSeen

\* The users are listed as the spec lists them
CreateGroup ==
    /\ worker.pc = "group" /\ groupsSeen[role] = Absent /\ groups[role] = Absent
    /\ WriteGroup(role, spec.users[role], role \in spec.jumbled)
    /\ gauge' = [gauge EXCEPT ![role] = {}]
    /\ NextRole
    /\ UNCHANGED <<user, accounts, passwords, copies, userFresh, queued, bounds>>

\* What the Group holds beyond the spec is reported before anything is done
ReportUndeclared == gauge' = [gauge EXCEPT ![role] = groupsSeen[role] \ spec.users[role]]

KeepGroup ==
    /\ worker.pc = "group" /\ groupsSeen[role] # Absent
    /\ GroupIsDesired
    /\ ReportUndeclared
    /\ NextRole
    /\ UNCHANGED <<objects, copies, userFresh, fresh, queued, bounds>>

\* (Slip: the Group is written whatever version it has)
UpdateGroupUnversioned ==
    /\ worker.pc = "group" /\ groupsSeen[role] # Absent
    /\ ~GroupIsDesired
    /\ ReportUndeclared
    /\ WriteGroup(role, DesiredGroupUsers(groupsSeen[role]), FALSE)
    /\ NextRole
    /\ UNCHANGED <<user, accounts, passwords, copies, userFresh, queued, bounds>>

UpdateGroup ==
    /\ worker.pc = "group" /\ groupsSeen[role] # Absent /\ role \in fresh
    /\ ~GroupIsDesired
    /\ ReportUndeclared
    /\ WriteGroup(role, DesiredGroupUsers(groupsSeen[role]), FALSE)
    /\ NextRole
    /\ UNCHANGED <<user, accounts, passwords, copies, userFresh, queued, bounds>>

\* The Group exists although the copy does not show it, or is another version
GroupRefused ==
    /\ worker.pc = "group"
    /\ IF groupsSeen[role] = Absent
       THEN groups[role] # Absent /\ UNCHANGED gauge
       ELSE /\ role \notin fresh
            /\ ~GroupIsDesired
            /\ ReportUndeclared
    /\ Fail
    /\ UNCHANGED <<objects, copies, userFresh, fresh, bounds>>

-----------------------------------------------------------------------------
(* cleanupResources, and the removal of the finalizer.                     *)

\* The Patch removes the keys that the copy shows
RemoveConfigMapEntries ==
    /\ worker.pc = "cleanAccounts"
    /\ PatchConfigMap(accounts \ (accountsSeen \intersect Role))
    /\ Goto("cleanPasswords")
    /\ UNCHANGED <<user, passwords, groups, jumbled, copies, userFresh, gauge, queued, bounds>>

\* (Slip: the Groups are forgotten)
RemoveSecretEntriesLast ==
    /\ worker.pc = "cleanPasswords"
    /\ PatchSecret([r \in Role |-> IF passwordsSeen[r] = Absent THEN passwords[r] ELSE Absent])
    /\ Goto("finalizer")
    /\ UNCHANGED <<user, accounts, groups, jumbled, copies, userFresh, gauge, queued, bounds>>

RemoveSecretEntries ==
    /\ worker.pc = "cleanPasswords"
    /\ PatchSecret([r \in Role |-> IF passwordsSeen[r] = Absent THEN passwords[r] ELSE Absent])
    /\ worker' = [worker EXCEPT !.pc = IF spec.auth THEN "cleanGroups" ELSE "finalizer"]
    /\ UNCHANGED <<user, accounts, groups, jumbled, copies, userFresh, gauge, queued, bounds>>

\* (Slip: a Group that is gone already is an error)
DeleteGroupMustExist ==
    /\ worker.pc = "cleanGroups"
    /\ IF groups[role] = Absent
       THEN Fail /\ UNCHANGED <<groups, jumbled, fresh, gauge>>
       ELSE /\ WriteGroup(role, Absent, FALSE) /\ gauge' = [gauge EXCEPT ![role] = Absent]
            /\ worker' = IF worker.i < Len(Roles) THEN [worker EXCEPT !.i = @ + 1]
                                                  ELSE [worker EXCEPT !.pc = "finalizer"]
            /\ UNCHANGED queued
    /\ UNCHANGED <<user, accounts, passwords, copies, userFresh, bounds>>

\* deleteGroups, one Group after the other, whatever the copies show
DeleteGroup ==
    /\ worker.pc = "cleanGroups"
    /\ IF groups[role] = Absent
       THEN UNCHANGED <<groups, jumbled, fresh, gauge>>
       ELSE WriteGroup(role, Absent, FALSE) /\ gauge' = [gauge EXCEPT ![role] = Absent]
    /\ worker' = IF worker.i < Len(Roles) THEN [worker EXCEPT !.i = @ + 1]
                                          ELSE [worker EXCEPT !.pc = "finalizer"]
    /\ UNCHANGED <<user, accounts, passwords, copies, userFresh, queued, bounds>>

\* (Slip: the ArgocdUser is written whatever version it has)
RemoveFinalizerUnversioned ==
    /\ worker.pc = "finalizer"
    /\ WriteUser(Absent, {})
    /\ worker' = Idle
    /\ UNCHANGED <<accounts, passwords, groups, jumbled, copies, fresh, gauge, queued, bounds>>

RemoveFinalizer ==
    /\ worker.pc = "finalizer" /\ "worker" \in userFresh
    /\ WriteUser(Absent, {})
    /\ worker' = Idle
    /\ UNCHANGED <<accounts, passwords, groups, jumbled, copies, fresh, gauge, queued, bounds>>

\* Somebody changed the ArgocdUser since the worker, or the informer, read it
UserRefused ==
    /\ \/ worker.pc = "finalizer" /\ "worker" \notin userFresh
       \/ /\ worker.pc = "idle" /\ queued /\ userSeen # Absent
          /\ userSeen.phase = "new" /\ "informer" \notin userFresh
    /\ Fail
    /\ UNCHANGED <<objects, copies, userFresh, fresh, gauge, bounds>>

Trouble == troubles < MaxTroubles /\ troubles' = troubles + 1

\* A call fails; that it fails after taking effect is to fail at the next one.
\* The gauge is set before the Group is updated, and stays set.
CallFails ==
    /\ worker.pc # "idle"
    /\ Trouble
    /\ Fail
    /\ \/ UNCHANGED gauge
       \/ worker.pc = "group" /\ groupsSeen[role] # Absent /\ ReportUndeclared
    /\ UNCHANGED <<objects, copies, userFresh, fresh, changes>>

Reconcile ==
    \/ StartGone \/ Start \/ StartNew \/ UserRefused
    \/ UpdateAccount \/ UpdateAccountPanics \/ UpdatePassword \/ PasswordTooLong
    \/ CreateGroup \/ KeepGroup \/ UpdateGroup \/ GroupRefused
    \/ RemoveConfigMapEntries \/ RemoveSecretEntries \/ DeleteGroup \/ RemoveFinalizer

-----------------------------------------------------------------------------
(* The informers, the people, and the operator's death.                    *)

\* Every delivery queues the ArgocdUser: by its own watch, by the watches on the
\* ConfigMap and the Secret, which queue all of them, or by its Group's name
DeliverUser ==
    /\ "informer" \notin userFresh
    /\ userSeen' = user /\ userFresh' = userFresh \union {"informer"}
    /\ queued' = TRUE
    /\ UNCHANGED <<objects, accountsSeen, passwordsSeen, groupsSeen, jumbledSeen, fresh, gauge,
                   worker, bounds>>

DeliverConfigMap ==
    /\ "ConfigMap" \notin fresh
    /\ accountsSeen' = accounts /\ fresh' = fresh \union {"ConfigMap"}
    /\ queued' = (queued \/ userSeen # Absent)
    /\ UNCHANGED <<objects, userSeen, passwordsSeen, groupsSeen, jumbledSeen, userFresh, gauge,
                   worker, bounds>>

DeliverSecret ==
    /\ "Secret" \notin fresh
    /\ passwordsSeen' = passwords /\ fresh' = fresh \union {"Secret"}
    /\ queued' = (queued \/ userSeen # Absent)
    /\ UNCHANGED <<objects, userSeen, accountsSeen, groupsSeen, jumbledSeen, userFresh, gauge,
                   worker, bounds>>

\* (Slip: a Group's event queues nothing)
DeliverGroupUnwatched(r) ==
    /\ r \notin fresh
    /\ groupsSeen' = [groupsSeen EXCEPT ![r] = groups[r]]
    /\ jumbledSeen' = (jumbledSeen \ {r}) \union (jumbled \intersect {r})
    /\ fresh' = fresh \union {r}
    /\ UNCHANGED <<objects, userSeen, accountsSeen, passwordsSeen, userFresh, gauge, queued,
                   worker, bounds>>

DeliverGroup(r) ==
    /\ r \notin fresh
    /\ groupsSeen' = [groupsSeen EXCEPT ![r] = groups[r]]
    /\ jumbledSeen' = (jumbledSeen \ {r}) \union (jumbled \intersect {r})
    /\ fresh' = fresh \union {r}
    /\ queued' = TRUE
    /\ UNCHANGED <<objects, userSeen, accountsSeen, passwordsSeen, userFresh, gauge,
                   worker, bounds>>

Deliver == DeliverUser \/ DeliverConfigMap \/ DeliverSecret \/ \E r \in Role : DeliverGroup(r)

Change == changes < MaxChanges /\ changes' = changes + 1

CreateUser(s) ==
    /\ Change /\ user = Absent
    /\ WriteUser([phase |-> "new", spec |-> s], {})
    /\ UNCHANGED <<accounts, passwords, groups, jumbled, copies, fresh, gauge, queued, worker,
                   troubles>>

EditUser(s) ==
    /\ Change /\ user # Absent /\ user.spec # s
    /\ WriteUser([user EXCEPT !.spec = s], {})
    /\ UNCHANGED <<accounts, passwords, groups, jumbled, copies, fresh, gauge, queued, worker,
                   troubles>>

\* Without the finalizer the ArgocdUser is gone at once
DeleteUser ==
    /\ Change /\ user # Absent /\ user.phase # "deleting"
    /\ WriteUser(IF user.phase = "new" THEN Absent ELSE [user EXCEPT !.phase = "deleting"], {})
    /\ UNCHANGED <<accounts, passwords, groups, jumbled, copies, fresh, gauge, queued, worker,
                   troubles>>

\* Members are added, removed and listed anew, and Groups created and deleted, by hand
EditGroup(r, members, disorder) ==
    /\ Change
    /\ disorder => members \notin {Absent, {}}
    /\ groups[r] # members \/ (r \in jumbled) # disorder
    /\ WriteGroup(r, members, disorder)
    /\ UNCHANGED <<user, accounts, passwords, copies, userFresh, gauge, queued, worker, troubles>>

\* Somebody takes the account or the password of a role away, or the other keys,
\* or puts those into the ConfigMap
EditConfigMap(key) ==
    /\ Change /\ key \in accounts \union {"others"}
    /\ PatchConfigMap(IF key \in accounts THEN accounts \ {key} ELSE accounts \union {key})
    /\ UNCHANGED <<user, passwords, groups, jumbled, copies, userFresh, gauge, queued, worker,
                   troubles>>

LosePassword(r) ==
    /\ Change /\ passwords[r] # Absent
    /\ PatchSecret([passwords EXCEPT ![r] = Absent])
    /\ UNCHANGED <<user, accounts, groups, jumbled, copies, userFresh, gauge, queued, worker,
                   troubles>>

People ==
    \/ \E s \in Specs : CreateUser(s) \/ EditUser(s)
    \/ DeleteUser
    \/ \E r \in Role, members \in {Absent} \union SUBSET Users, disorder \in BOOLEAN :
            EditGroup(r, members, disorder)
    \/ \E key \in Keys : EditConfigMap(key)
    \/ \E r \in Role : LosePassword(r)

\* The operator dies and starts again: its informers list everything, its gauges
\* are gone, and the ArgocdUser that exists is queued
Restart ==
    /\ Trouble
    /\ userSeen' = user /\ accountsSeen' = accounts
    /\ passwordsSeen' = passwords /\ groupsSeen' = groups /\ jumbledSeen' = jumbled
    /\ userFresh' = {"informer"}
    /\ fresh' = Watched
    /\ gauge' = [r \in Role |-> Absent]
    /\ queued' = (user # Absent)
    /\ worker' = Idle
    /\ UNCHANGED <<objects, changes>>

Next == Reconcile \/ CallFails \/ Deliver \/ People \/ Restart

Spec == Init /\ [][Next]_vars

\* The worker runs and watches deliver
Fairness ==
    /\ WF_vars(Reconcile)
    /\ WF_vars(DeliverUser) /\ WF_vars(DeliverConfigMap) /\ WF_vars(DeliverSecret)
    /\ \A r \in Role : WF_vars(DeliverGroup(r))

FairSpec == Spec /\ Fairness

-----------------------------------------------------------------------------
(* Properties.                                                             *)

\* Where a reconcile may be: it holds the ArgocdUser it has read until it ends
WorkerOK ==
    /\ worker \in [pc : {"idle", "account", "password", "group", "cleanAccounts",
                         "cleanPasswords", "cleanGroups", "finalizer"},
                   i : 1..Len(Roles), held : {Absent} \union User]
    /\ worker.pc = "idle" <=> worker.held = Absent

\* The values the variables may have
TypeOK ==
    /\ user \in {Absent} \union User /\ userSeen \in {Absent} \union User
    /\ userFresh \subseteq {"informer", "worker"}
    /\ accounts \subseteq Keys /\ accountsSeen \subseteq Keys
    /\ passwords \in [Role -> {Absent} \union Passwords]
    /\ passwordsSeen \in [Role -> {Absent} \union Passwords]
    /\ groups \in [Role -> {Absent} \union SUBSET Users]
    /\ groupsSeen \in [Role -> {Absent} \union SUBSET Users]
    /\ jumbled \subseteq Role /\ jumbledSeen \subseteq Role
    /\ gauge \in [Role -> {Absent} \union SUBSET Users]
    /\ fresh \subseteq Watched
    /\ queued \in BOOLEAN
    /\ WorkerOK
    /\ changes \in Nat /\ troubles \in Nat

\* What the spec declares for r is what the cluster has
Provided(r) ==
    /\ r \in accounts
    /\ passwords[r] = user.spec.pass[r]
    /\ groups[r] # Absent
    /\ user.spec.users[r] \subseteq groups[r]
    /\ user.spec.auth => groups[r] = user.spec.users[r]

\* ... the Group lists each member once, in order, and the gauge counts those that it
\* has beyond what is declared
RoleInOrder(r) ==
    Provided(r) /\ r \notin jumbled /\ gauge[r] = groups[r] \ user.spec.users[r]

\* Something is still to be delivered, reconciled or retried
Pending ==
    \/ queued \/ worker.pc # "idle"
    \/ "informer" \notin userFresh
    \/ fresh # Watched

\* Every role of an ArgocdUser is as declared, or the operator is still at it:
\* no order of spec changes, edits by hand, lagging copies, refused Updates,
\* failures half way through the roles and restarts makes it stop too early.
\* A Group created with the spec's own list is put in order by the reconcile that its
\* own event brings.  The gauge is among what settles: it is set before the Group is pruned.
InOrderOrPending ==
    user # Absent => Pending \/ (user.phase = "live" /\ \A r \in Role : RoleInOrder(r))

\* "merged: declared users are added, and members added out-of-band stay": no step
\* of the operator takes a member away from a Group, or deletes one, on behalf of
\* a spec that is not authoritative, not even one computed from an old copy
MergedMembersStay ==
    [][changes' = changes =>
        \A r \in Role : groups[r] # Absent /\ ~(worker.held # Absent /\ spec.auth) =>
            groups'[r] # Absent /\ groups[r] \subseteq groups'[r]]_vars

\* The finalizer goes only after a cleanup made for the ArgocdUser as it is: an
\* annotation that makes membership authoritative while an older cleanup runs,
\* which leaves the Groups, starts another
FinalizerLast ==
    [][user # Absent /\ user' = Absent /\ changes' = changes =>
        /\ user.phase = "deleting"
        /\ worker.held.phase = "deleting"
        /\ worker.held.spec = user.spec]_vars

\* The operator knows the ArgocdUser as it is, and works for that one
UpToDate ==
    /\ user # Absent /\ user.phase = "live" /\ userSeen = user
    /\ worker.held # Absent =>
        worker.held.spec = user.spec /\ worker.pc \in {"account", "password", "group"}

\* What a role has been given it keeps: copies of the ConfigMap, the Secret and the
\* Groups may lag as they like, calls fail and the operator be restarted, and still no
\* step of the operator takes away the account, the password or a declared member
ProvidedStays ==
    [][UpToDate /\ changes' = changes =>
        UpToDate' /\ \A r \in Role : Provided(r) => Provided(r)']_vars

\* All roles are as declared, the members of each Group listed once and in order, and the
\* copies show it
Settled == UpToDate /\ copies = objects /\ jumbled = {} /\ \A r \in Role : Provided(r)

\* Reconciling what is in order makes no version of any object, so no event of the
\* operator's own keeps it busy: hashes are compared with the password, not with each
\* other, and patches carry what is missing.  Members are compared as lists: a Group that
\* is right but for the order, as it may be created, is written once more, and then rests.
SettledStays ==
    [][Settled /\ changes' = changes =>
        Settled' /\ UNCHANGED objects /\ fresh \subseteq fresh']_vars

\* Deletion gets to its end, through failures, restarts, and edits meanwhile
DeletionCompletes == (user # Absent /\ user.phase = "deleting") ~> user = Absent

\* Everything settles, unless a password is one that cannot be hashed or the
\* ConfigMap has no key at all
Converges ==
    <>[](user # Absent /\ accounts # {} /\ (\A r \in Role : user.spec.pass[r] \notin TooLong)
            => user.phase = "live" /\ \A r \in Role : RoleInOrder(r))

-----------------------------------------------------------------------------
(* Refinement.  The things that Provision is about are the accounts, the   *)
(* passwords and the Groups of the roles; what was read of the ArgocdUser, *)
(* and how far the worker has got with the roles, is the round.            *)

Thing == {"account", "password", "group"} \X Role

All(kind) == {kind} \X Role

\* The objects that hold them: the ConfigMap, the Secret, and Groups
Holders == {All("account"), All("password")} \union {{<<"group", r>>} : r \in Role}

Contents(a, p, g) ==
    [t \in Thing |-> CASE t[1] = "account"  -> IF t[2] \in a THEN "declared" ELSE Absent
                       [] t[1] = "password" -> p[t[2]]
                       [] OTHER             -> g[t[2]]]

Kept  == Contents(accounts, passwords, groups)
Sight == Contents(accountsSeen, passwordsSeen, groupsSeen)

Wanted(s, t, found) ==
    CASE t[1] = "account"  -> "declared"
      [] t[1] = "password" -> s.pass[t[2]]
      [] OTHER -> IF s.auth \/ found = Absent THEN s.users[t[2]] ELSE found \union s.users[t[2]]

\* Groups are left to others unless membership is authoritative
Outlives(s, t) == t[1] = "group" /\ ~s.auth

Providing == worker.pc \in {"account", "password", "group"}

Round ==
    IF worker.pc = "idle" THEN Absent
    ELSE [goal |-> IF Providing THEN "provide" ELSE "withdraw", spec |-> spec]

\* The roles that the worker has left behind
Behind == {Roles[j] : j \in 1..(worker.i - 1)}

Done ==
    CASE worker.pc = "idle" -> {}
      [] Providing ->
            {"account", "password", "group"} \X Behind \union
            (IF worker.pc = "account" THEN {}
             ELSE {<<"account", role>>} \union
                  IF worker.pc = "group" THEN {<<"password", role>>} ELSE {})
      [] OTHER ->
            (IF worker.pc = "cleanAccounts" THEN {} ELSE All("account")) \union
            (IF worker.pc \in {"cleanGroups", "finalizer"} THEN All("password") ELSE {}) \union
            (IF worker.pc = "cleanGroups" THEN {"group"} \X Behind ELSE {}) \union
            (IF worker.pc = "finalizer" /\ spec.auth THEN All("group") ELSE {})

P == INSTANCE Provision WITH
        Things <- Thing, Specs <- Declaration, None <- Absent, owner <- user, known <- userSeen,
        kept <- Kept, sight <- Sight, round <- Round, done <- Done, due <- queued, acts <- changes

\* With copies that lag, calls that fail half way and the operator killed anywhere, it
\* never writes but what the ArgocdUser it read wants of a thing as it is at that
\* moment, gives up no round without another to follow, and lets an ArgocdUser go only
\* after it has dealt with all that is to go with it
KeepsPromise == P!Spec

-----------------------------------------------------------------------------
\* README.md:171, "When an `ArgocdUser` is deleted, the operator automatically cleans
\* up: ConfigMap entries for static users, Secret entries for passwords".  It does
\* not: the Patch removes what a copy shows, and the copy may lag.
EntriesCleanedUp ==
    [][user # Absent /\ user' = Absent /\ user.phase = "deleting" =>
        \A r \in Role : r \notin accounts /\ passwords[r] = Absent]_vars

=============================================================================
