# A TLA+ model of argocd-complementary-operator

The operator turns `ArgocdUser` objects and two labels on Namespaces into ArgoCD
AppProjects, static accounts, passwords and OpenShift Groups.  It is a Kubernetes
operator of two controllers in one process; what is hard about it is what it shares:
an in-memory cache that one controller writes and both read, AppProjects that both
overwrite, informers' copies that lag the API server, and retries that must find again
what a failed call has left undone.

Paths below are relative to `src/`; `NS` is `internal/controller/namespace_controller.go`,
`AU` is `internal/controller/argocduser_controller.go` and `CO` is
`internal/controller/controller_common.go`.

## Inventory

| Component | State | Operations | Hard about it | What makes it correct |
|---|---|---|---|---|
| Namespace controller (`NS`) | queue of Namespaces, one worker, a mutex | `Reconcile`: load the cache once, take over both labels, push the projects joined and left | the cache changes before the AppProjects do; pushes fail or are refused; the label changes meanwhile; restarts | the cache follows the labels; the AppProjects follow the cache |
| NamespaceCache (`NS` 54-199, `CO` 149) | `projects`, `namespaces`, `sources`, `initOnce`, `initErr` | join, leave, trust, untrust, load | two maps for one relation; readers between two calls; a load that failed | the maps are inverse; it holds what the labels say |
| ArgocdUser controller, AppProject (`AU` 333-413, 666-693) | queue of ArgocdUsers, one worker | create or overwrite the AppProject from the cache; delete it | reads the cache first and the AppProject later; reads a cache not loaded yet | no AppProject stays behind the cache; none outlives its ArgocdUser |
| ArgocdUser controller, the rest (`AU` 99-165, 415-743) | finalizer, `argocd-cm`, `argocd-secret`, one Group per role, a gauge | finalizer, account, password and Group of each role; cleanup | roles are done one after the other; merge or authoritative mode per object; lagging copies; edits by people | everything is as declared in the end; merging loses nobody; the finalizer goes last |
| RBAC objects (`AU` 167-329) | ClusterRole, ClusterRoleBinding | create, update, delete and create again | a crash between Delete and Create; a watch that goes by the owner; the garbage collector | the admins are bound in the end; nothing outlives the ArgocdUser |
| Contents of an AppProject (`CO` 183-332, `AU` 354-407) | its lists | created from the environment, merged, overwritten | two controllers and people write one object; lists compared as lists | nobody's repositories are lost; the updating ends |
| Pure functions (`CO` 98-147, `NS` 389-404, `pkg/nameset`) | none | membership mode, desired members, summaries, label parsing | empty inputs | agreement with a definition on sets |
| Manager (`cmd/main.go`), metrics, Events, API types | wiring | start the two controllers | none of its own | |

The controllers meet in three places: `NamespaceCache` (calls under its lock), the
AppProjects (optimistic concurrency of the API server) and the AppProject watch
(`AU` 795-825), which queues the ArgocdUser whenever anybody, the Namespace controller
included, writes its AppProject.

The hazards, each at its line and with the properties aimed at it, are listed in
`PROJECT.json`.

## Modules

| Module | What it is |
|---|---|
| `Membership` | the abstract specification: what the operator promises about Destinations, without saying how |
| `ProjectSync` | both controllers as far as Destinations and SourceNamespaces go, the cache, the API server, informers, restarts |
| `MCProjectSync` | its starting clusters and constants for TLC |
| `ProjectSyncProofs` | theorems about it |
| `ProjectSyncStability` | the theorem that what has arrived in an AppProject stays |
| `ProjectSyncRefinement` | the theorem that `ProjectSync` implements `Membership` |
| `Provision` | the abstract specification: what the operator promises about all that it provides for one ArgocdUser |
| `ArgocdUser` | the life of one ArgocdUser apart from its AppProject: finalizer, accounts, passwords, Groups, gauge, cleanup |
| `MCArgocdUser` | its specs and starting clusters for TLC |
| `ArgocdUserProofs`, `ArgocdUserOrder` | theorems about it |
| `ArgocdUserRefinement` | the theorem that `ArgocdUser` implements `Provision` |
| `Rbac` | the ClusterRole and the ClusterRoleBinding of one ArgocdUser |
| `MCRbac`, `RbacProofs` | an instance for TLC, and theorems |
| `ProjectLists` | the lists of one AppProject, as lists, under both writers and people |
| `MCProjectLists`, `ProjectListsProofs` | an instance for TLC, and theorems |

One reconcile of the ArgocdUser controller is spread over three modules, in the order of
the code: `Rbac`, then the AppProject (`ProjectSync`, `ProjectLists`), then `ArgocdUser`.
They touch different objects and share the ArgocdUser with its finalizer, which each has;
an error in one part ends the reconcile, which each module has as a failure of its own.

### ProjectSync

*State.*  `labels` and `user` are Namespaces and ArgocdUsers as their informers show
them.  `appProj` and `seen` are the AppProjects at the server and in the informer's copy;
`fresh[p]` names those (`informer`, `ns`, `au`) whose copy is the newest version, which is
what `resourceVersion` decides at an Update.  `projects`, `namespaces`, `sources` and
`initOnce` are `SafeNsCache`.  `nsQueue` and `auQueue` are the work queues; `ns` and `au`
are the workers, with the local variables of the reconcile under way.

*Actions.*  A reconcile is cut where another process can get in between: at every read
of the informer's copy, at every write, and wherever the lock of the cache is taken.

| Action | Code |
|---|---|
| `NsStart`, `NsInitFails` | `NS` 214-223 and `InitOrPass` |
| `NsGone`, `NsRead` | `NS` 227-247; 254-259 and 278-282: both labels, and what is to be pushed |
| `NsTrust`, `NsMove` | the loops `NS` 261-299, one entry of the cache at a time: sources first, then projects to leave, then projects to join |
| `NsSkip`, `NsGet`, `NsUpdate`, `NsConflict`, `NsUpdateFails` | `reconcileAppProject`, `NS` 337-387, once for each project of the loops 305-323 (or 234-240) |
| `NsFinish` | `NS` 325, or 246 for a Namespace that is gone, whose errors are dropped |
| `AuStart`, `AuStartGone`, `AuStartDeleting` | `AU` 105-142 |
| `AuGetNamespaces`, `AuGetSources` | `createAppProj`, `CO` 184 and 194 |
| `AuSkip`, `AuGet`, `AuGetNotFound`, `AuUpdateOrCreate`, `AuRefused` | `reconcileAppProject`, `AU` 339-412 |
| `AuDelete`, `AuDeleteSkips`, `AuRemoveFinalizer` | `AU` 666-693 and 125-130 |
| `AuFails` | a call that fails, done or not done at the server |
| `Deliver`, `ResyncUser`, `ResyncNamespace` | the watches and the informers' resync |
| `Relabel`, `CreateUser`, `DeleteUser`, `EditAppProject` | people and ArgoCD |
| `Restart` | the process dies anywhere and starts again |

`Cached` says that these loops are done; pushing starts then.  `ToUntrust` keeps a
peculiarity of the code: `NS` 259 passes the name of a Namespace to `GetSources`, which takes
the name of a project.  Names are therefore not typed apart, and one run gives a project and
a Namespace the same name.  `MayDiffer` keeps another: slices built in the order of a map's
iteration are compared by `reflect.DeepEqual`, so two equal sets of two names or more may be
found to differ.

*Abstractions.*  Calls that trust or join what is trusted or joined already are left out:
they change nothing.  A copy that is not the newest is an older one; a delivery brings the newest, so an
informer never shows an intermediate version after a later one was written.  The
ArgocdUser is read as it is (its staleness is part of `ArgocdUser`).  An AppProject that
is deleted is gone at once, unlike one with ArgoCD's own finalizer.  Of its contents,
roles are `declared` or `edited`; SourceRepos and the resource lists are in `ProjectLists`.

### Membership, and what implementing it says

`Membership` has a record, which takes over one label at a time, entry by entry, what is to
leave before what is to join; and it publishes that record, one whole AppProject at a time,
either as it is when no label is half taken over, or as it was looked up earlier.  It may be
told what is published, and may lose its memory.  In `ProjectSync` the record is
`namespaces`, the label being taken over is `ns.want` (`Heard`), a restart is `Forget`, and
what was looked up is `au.dest` (`Offer`): the ArgocdUser controller reads the cache whenever
it likes, half way through a label too, and the specification grants it that, one project at
a time.  `PublishesRecord` says that `ProjectSync` implements it.  So Destinations never hold
a mixture of two states of the cache, whatever is interleaved, refused or restarted; nothing
joins before it has left; the Namespace controller publishes only what it has taken over
completely; and AppProjects are taken down for ArgocdUsers that are being deleted only.
What the labels of others say, and when anything is published, is left to `SettledNamespace`,
`InSyncOrPending` and `Converges`.

### ArgocdUser

*State.*  The ArgocdUser, the keys of the ConfigMap (the accounts, and `others` for whatever
else `argocd-cm` configures), what each password's hash was
made from, and each role's Group, at the server and as the informers show them
(`...Seen`); of a Group, its members and whether it is among `jumbled`, those that list
theirs out of order or some of them twice; `userFresh` and `fresh` say whose copy is the newest version.  The gauge holds
the members it counts.  `worker` has the place in the reconcile, the role at hand, and the
copy of the ArgocdUser read at its start.

*Actions.*  `Start`, `StartNew`, `StartGone` (`AU` 99-142); `UpdateAccount`,
`UpdateAccountPanics`, `UpdatePassword`, `PasswordTooLong` (`AU` 450-524, `CO` 293-310); `CreateGroup`,
`KeepGroup`, `UpdateGroup`, `GroupRefused` (`AU` 529-600); `RemoveConfigMapEntries`,
`RemoveSecretEntries`, `DeleteGroup`, `RemoveFinalizer` (`AU` 118-131, 630-664, 695-743);
`UserRefused`, `CallFails`; the four watches `Deliver...` (`AU` 755-859); what people do; and
`Restart`.  Updates are refused unless they start from the newest version.  Merge patches
are not, and carry only the keys by which they differ from the copy, which is why a
cleanup may leave what its copy does not show.

A ConfigMap without any key comes with a nil map, and the assignment at `AU` 473 panics.
controller-runtime, of the version in `go.mod`, recovers and returns an error, so the
reconcile is retried until somebody puts a key there; meanwhile neither accounts nor Groups
of any role are looked after.  `Converges` excepts that case, `InOrderOrPending` does not.

*Abstractions.*  A Get and the write that follows it are one step, since no other process
reads these copies: a delivery in between is a delivery afterwards.  One ArgocdUser is
enough, since two share neither keys nor Groups.  Of the list of a
Group's members two things are kept: the set of them, and whether they are sorted and listed
once.  `CreateGroup` writes the spec's own list (`AU` 545-548), which may be neither; later
reconciles compare lists (`AU` 586) with one that `mergeStringSlices` has sorted, so a Group
that has the right members in another order is updated once more.  The cluster default of the
membership mode is part of the declaration and does not change at a restart.  The ConfigMap
and the Secret exist; the Group CRD is installed.

### Provision, and what implementing it says

`Provision` works in rounds, each for the ArgocdUser as it was told of it, and knows nothing
of roles, ConfigMaps or places in a loop.  In a round it brings each thing to what the
ArgocdUser wants, starting from the thing as it is, or withdraws the things object by object;
it passes over a thing only when it was told that nothing is to be done.  It ends a round
when all is dealt with, or breaks it off with another round due.  News is followed by a
round.  The ArgocdUser is let go only when everything that does not outlive it was dealt with
in this round, for the version that is let go.  Everybody else may do to the things what they
like.

In `ArgocdUser` the things are the account, the password and the Group of each role (`Thing`),
the round is the worker's copy of the ArgocdUser and whether it provides or withdraws
(`Round`), and what is done is what the roles behind the worker, and its place at the role at
hand, amount to (`Done`).  A merge patch computed from a lagging copy removes the keys that
the copy shows and no others, and `Provision` grants that (`Withdraw`): what it leaves behind
is the finding `entries_left_behind`.  `KeepsPromise` says that `ArgocdUser` implements all
this: no write is ever made from a stale copy to what is not wanted of the thing as it is,
no round gets lost, and the order of the cleanup is kept through failures and restarts.  To
`Provision` a Group is its set of members: an Update that only sorts them is a stutter there,
and that they end up sorted is left to `InOrderOrPending` and `Converges`.  When
a round comes, and that there are enough of them, is left to `InOrderOrPending`, `Converges`
and `DeletionCompletes`.

### Rbac

*State.*  The ArgocdUser with a UID, both objects with their owner, at the server and as the
informers show them.  `news[k]` is what the informer has yet to report of an object: nothing,
versions without owner, or one with an owner among them, for `Owns` (`AU` 757-758) queues the
owner in the version before an event and in the version after it, and nobody else.

*Actions.*  `Start`, `StartNew`, `StartGone`, `StartDeleting` (`AU` 99-142); `LeaveAlone`,
`CreateOrUpdate`, `Refused`, `CallFails` for either object (`AU` 192-231, 270-327); `Delete`
and, as a step of its own, the Create after it (`AU` 309-318); `Deliver`, `DeliverUser`,
`Resync`; `Collect`, the garbage collector, which deletes what a UID that is gone has owned;
people; `Restart`.  An empty list of subjects is written at every reconcile (`AU` 297: an
empty slice here, a nil one from the server); the server makes no version of an Update that
changes nothing.

*Abstractions.*  Rules and RoleRef are `declared` or `edited`.  One object has one owner at
most.  A restart loses undelivered events, and queues the ArgocdUser.

### ProjectLists

*State.*  One AppProject, with lists for repositories and Destinations, its roles, and its
lists of cluster resources; the informer's copy; the environment of the operator; the
Namespaces that the cache has for the project; what each worker has read from the cache, in
the order of a map's iteration.

*Actions.*  `AuStart` reads the cache; `AuCreate`, `AuSkip`, `AuUpdate`, `AuRefused`,
`AuFails` are `AU` 339-412, `NsStart`, `NsSkip`, `NsUpdate`, `NsRefused`, `NsFails` are `NS`
284-387; `Restart` may come with other values of `PUBLIC_REPOS` and `CLUSTER_ADMIN_TEAMS`.
A creation lists repositories as the environment does, duplicates included; a reconcile
merges and sorts them (`mergeStringSlices`); the lists of cluster resources are written at
the creation and never again.

*Abstractions.*  The cache is an input: any set may follow any other, and `ProjectSync` says
which do.  Destinations and SourceNamespaces are compared and written alike, and one list
stands for both.  The order of repositories is the constant `Sorted`, of which the proofs
need that it lists each set.  The ArgocdUser exists throughout.

## Runs

All passing runs are exhaustive for their bounds.  `CHECK_DEADLOCK FALSE` stands in every
configuration since the operator may really stop: with no Namespace and no ArgocdUser, and
the bounded changes spent, it has nothing to do.

| Run | Question | Bounds |
|---|---|---|
| `projects_safety` | does the cache follow the labels, does anything remember each AppProject that is behind, and does what has arrived stay? | two Namespaces (interchangeable), one project, any start of a few clusters, 1 change, 1 restart |
| `projects_names` | the same with several projects per reconcile, equal names, the project `default` without an ArgocdUser; and does what is published come from the record? | one Namespace, two projects, from a cluster in order, 1 change, 1 restart |
| `projects_live` | does every label reach its AppProject in the end, and are roles looked after whatever call fails? | one Namespace, one project, 1 change, 1 restart, 1 failed call of each controller |
| `users` | is an ArgocdUser as declared, or still worked on; does merging lose nobody; does the finalizer go last; does what is provided stay, and is what is in order left alone; does the operator keep the promise of `Provision`; do deletions end, and declarations arrive? | two roles, two members, three specs (merging, authoritative, one with a password that cannot be hashed; two of them list a member twice), the ConfigMap with and without other keys, 2 changes, 1 failure or restart |
| `rbac` | do both objects come in order, stay so untouched, and go with their owner? | two lists of admins, one of them empty, 3 changes, 1 restart, 1 failed call |
| `lists` | is anybody's repository lost; does the operator rest only in order; is what is in order left alone; does it come to rest? | two Namespaces, three repositories, two environments, 3 changes, 1 failure or restart |

Why the bounds are enough.  One change is what people do while the operator is at work;
the starting clusters stand for whatever was done before, and the restart for what the
operator has forgotten.  Two Namespaces in one project are needed for one's push to carry
the other's change; two projects for the loops to fail at one of two.  Two roles are what
it takes for one to fail between the steps of another; two changes for an edit of the
ArgocdUser to meet an edit of a Group, or a creation a deletion.  Three changes are what it
takes to delete an ArgocdUser, create it again and edit an object, or to relabel twice around
an edit of the AppProject; two environments, one with a repository listed twice and out of
order, for a restart to meet what an earlier one wrote.

Destinations are compared as lists, and a list of two Namespaces may be built in either
order: each reconcile may then find a difference, update, and queue the ArgocdUser by its
event.  `Rests` claims an end to this only for a project of at most one Namespace, which is
all the code gives.

Six runs expect a violation.  Each shows the code at odds with its own comments or with the
README of the repository, as recorded under `findings`:

| Run | What happens |
|---|---|
| `untrusted_source_kept` | a project taken out of the source label is never untrusted (`NS` 259) |
| `deleted_namespace_kept` | a deleted Namespace stays a destination (`NS` 229-241 never leaves) |
| `failed_update_lost` | after a failed Update the retry finds nothing to push (`NS` 301-325) |
| `project_orphaned` | an AppProject that the informer does not show yet survives its ArgocdUser (`AU` 671) |
| `destinations_wiped_at_start` | before the cache is loaded the ArgocdUser controller writes empty Destinations (`AU` 337, 361) |
| `entries_left_behind` | an account that the copy does not show survives its ArgocdUser (`AU` 705) |

`InSyncOrPending` is checked twice: it holds as long as no call of the Namespace controller
fails, refused Updates included, and is violated when one does.  `RolesOrPending` is the part
of it that no failure breaks: the ArgocdUser controller's own retries look after existence
and roles, and only Destinations depend on the Namespace controller.

`ArrivedStays` leaves out restarts on purpose.  After one the cache is empty until the
Namespace controller has loaded it, and what had arrived is wiped: that is the finding
`destinations_wiped_at_start`.  `ProvidedStays`, and `SettledStays` of `ArgocdUser` and of
`Rbac`, hold through restarts; that of `ProjectLists` as long as the cache and the
environment are what they were.

### Fairness

A worker takes up names and goes on with its reconcile (weak fairness of the steps; strong
fairness for a name in the queue, since controller-runtime's queue is first in first out
and a name added meanwhile does not overtake).  Watches deliver.  ArgocdUsers are resynced:
`cmd/main.go` sets no `SyncPeriod`, and the library's default is ten hours.  Only
`projects_live` needs the resync: after a restart, a change of the source label alone, or a
failed Update it is the only thing that brings an AppProject up to date, and `Converges`
would be violated without it.  `users`, `rbac` and `lists` assume no resync; `rbac` assumes
that the garbage collector collects.  No fairness is assumed of people, failures or
restarts, which are bounded.  `Converges` excepts a cache whose one attempt to load failed
(`initErr` sticks until the next restart) in `ProjectSync`, and a password that cannot be
hashed, or an empty ConfigMap, in `ArgocdUser`.

## Proofs

For every value of the constants, checked by TLAPS:

| Theorem | Says | Along |
|---|---|---|
| `ProjectSyncProofs!TypeCorrect` | `TypeOK`, and that a fresh copy is the object | `Versions` is needed for the types: an Update writes into the object it has read, which must exist |
| `CacheStaysInverse` | `CacheInverse` | inductive with `TypeOK` |
| `NamespaceSettles` | `SettledNamespace` | inductive with `TypeOK`: a step that changes a label, forgets the cache or ends early leaves the Namespace queued (`AllWaiting`), and half way through a label the cache differs from what was settled only by what `NsTrust` and `NsMove` have still to do (`TakingOver`) |
| `NothingForgotten` | `nsFaults = 0 => InSyncOrPending` | `SyncInv`, below |
| `RolesNotForgotten` | `RolesOrPending` | inductive with `TypeOK` and `Versions`: whoever writes makes an event, an ArgocdUser that fails is queued again, and an Update of the Namespace controller starts from the newest version and keeps its roles |
| `ProjectSyncStability!WhatArrivedStays` | `ArrivedStays` | below |
| `CreationIsFinalized` | `CreatedUnderFinalizer` | the worker past `AuStart` has a live ArgocdUser, unless it was asked to be deleted since |
| `ProjectSyncRefinement!OperatorPublishesRecord` | `PublishesRecord` | every action of `ProjectSync` maps to one of `Membership` or to a stutter, below |
| `ArgocdUserProofs!TypeCorrect` | `TypeOK` | with `Copies` |
| `MembersStay` | `MergedMembersStay` | `Copies`: an Update starts from the newest members; `Cleaning`: Groups are deleted in authoritative mode only |
| `FinalizerGoesLast` | `FinalizerLast` | `Copies`: the worker's copy is the newest when the finalizer goes; `Cleaning`: it is one to be deleted |
| `WhatIsProvidedStays` | `ProvidedStays` | `Copies`; Updates start from the newest members, and patches carry what the ArgocdUser read declares |
| `WhatIsSettledStays` | `SettledStays` | `Copies`; with copies that are the objects, and Groups in order, each step of a reconcile finds nothing to write |
| `ArgocdUserRefinement!OperatorKeepsPromise` | `KeepsPromise` | every action of `ArgocdUser` maps to one of `Provision` or to a stutter, below |
| `ArgocdUserOrder!NothingForgotten` | `InOrderOrPending` | `OrderInv`, below |
| `RbacProofs!TypeCorrect` | `TypeOK` | with `Copies`: a copy without news is the object |
| `RbacProofs!NothingForgotten` | `InOrderOrPending` | as in `ArgocdUser`: when all is delivered and nothing queued, what the worker has passed is as declared; an owned object is noticed through its owner, and the others differ from what is declared |
| `RbacProofs!WhatIsSettledStays` | `SettledStays` | with `Copies`: the informers show what is there, `LeaveAlone` or an Update without effect is all that is left, and the garbage collector finds the owner alive |
| `ProjectListsProofs!TypeCorrect` | `TypeOK` | with: a fresh copy is the object |
| `OthersStay` | `OthersKept` | an Update starts from the newest version, and merging keeps what is listed |
| `NothingForgotten` | `InOrderOrPending` | inductive with `TypeOK`: whoever writes makes an event, and `AuSkip` alone ends quietly |
| `OneUpdateIsEnough` | a reconcile of what a reconcile has written computes the same list of repositories | merging and sorting is idempotent: `MergedOnce`, from what `Sorted` is assumed to be |
| `WhatIsSettledStays` | `SettledStays` | a cache of at most one Namespace has one list (`OneList`), and whoever compares finds no difference (`NoDifference`) |

`InSyncOrPending` is not inductive.  `SyncInv` adds: the lists of a worker name what the
cache has changed and not pushed yet; before the cache is loaded nothing is in it; roles
and destinations that differ from what is wanted have somebody pending; what the ArgocdUser
worker has read from the cache is still what the cache says, or the Namespace worker is
going to write the AppProject and its event will queue the ArgocdUser; and a refused Update
is harmless, since the write that caused the refusal is yet to be delivered and its
delivery queues the ArgocdUser.  It was checked by TLC on the instances above before it was
proved.

`OperatorPublishesRecord` needs more than the shape of the steps.  A label may be heard only
when every earlier one has been taken over: that is `TakingOver`, and that a reconcile ends
when `Cached` holds.  An AppProject may be loaded into the record only by one that has none,
so before loading nothing is in the cache (`EmptyUntilLoaded`); and it is taken down only for
an ArgocdUser being deleted, so the worker that cleans up has one (`Cleaning`).

`WhatArrivedStays` is the safety half of `Converges`: what has come right is not undone by the
operator.  `Arrived` cannot be the AppProject alone, since a worker may hold an older reading
of the cache and be about to write it; it therefore says of whatever was read before that it
agrees with the labels.  Then the cache keeps agreeing, by `CacheInverse`, for the Namespace
in question has nothing left to leave or join and others touch their own entries only; what
is read from it agrees (`CacheSays`); what either controller writes, from whatever copy,
agrees (`NsSays`, `AuSays`); and an older copy makes for a refusal at worst.  For a live
ArgocdUser nobody but people takes the AppProject down: that is `Cleaning`.

`OperatorKeepsPromise` needs the invariants of `ArgocdUserProofs`, and one more.  `Provision`
does not know an order of the roles, so what is done is counted as a set, and a step must add
to it just the thing it has dealt with (`OneMoreBehind`, `AnotherRole`).  A cleanup counts
roles only when it comes to the Groups; that nothing is counted before is `CleaningStarts`.
That the finalizer goes only with everything dealt with is `Cleaned`, and that it is dealt
with for the very version let go is `Copies`, by way of the refused Update.

`OrderInv` of `ArgocdUserOrder` says of a quiet moment (the ArgocdUser not queued, and the
informer showing it as it is) that the reconcile under way works for the ArgocdUser as it is,
and that for every role before the one at hand all three parts are as declared, for the role
at hand those before its place, of each object whose newest version has been delivered; and
that the copies of the ConfigMap and the Secret are the objects whenever they are said to be
fresh.  A step of the reconcile that writes leaves an event to come; one that does not write
has found what it looks at in order; and an event to come queues the ArgocdUser.  So when
nothing is to come, every role is done.

The assumptions are those of the modules: `Absent` is no object, name or set of members;
bounds are natural numbers; roles are strings other than the names of the two watched
objects and of the other keys; `Sorted` lists each set of repositories.  `Settled` of
`ProjectLists` supposes at most one Namespace, and its property that the cache is not changed
meanwhile: with two Namespaces, or a cache emptied by a restart, the code does write again
(see the bounds above).

Every invariant and every action property of the passing runs is proved, and so are both
refinements.  Only model-checked: liveness (`Converges`, `DeletionCompletes`, `Collected`,
`Rests`), which is out of the prover's reach, and the counterexamples.

## What could still be added

Of proofs: that `Membership` and `Provision` have, by themselves, the properties their readers
will take from them (a record whose Namespaces all have their label, an ArgocdUser let go with
nothing withdrawn from others), and an abstract specification for `Rbac`.

A larger instance of the composition: two ArgocdUsers whose queue is shared, which differ only
in who waits for whom.  `summarizeUsers` and the splitting of strings, as functions on
sequences of characters, if a property of their text is ever wanted.

## Not modelled, and why

Command line, probes, leader election, scheme registration and generated deep copies: wiring
of the library, no state of the program's own.  Log lines and Events (`summarizeUsers` among
them): nothing in the program reads them.  bcrypt: a hash matches the password it was made
from and no other.  The text of roles and policies in an AppProject, of rules in a
ClusterRole and of names derived from the project's: constants of the project that no step
tells apart; they are `declared` or `edited`.  The splitting of labels and of environment
variables into names: inputs are the sets and lists it yields.
