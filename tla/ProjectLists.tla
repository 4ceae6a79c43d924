---------------------------- MODULE ProjectLists ----------------------------
(***************************************************************************)
(* The lists of one AppProject, as lists: in what order they are written,  *)
(* how repositories are merged, and what belongs to whom when two          *)
(* controllers and people write the same object.  Its ArgocdUser exists.   *)
(*                                                                         *)
(* NamespaceCache is an input here, any value may follow any other; which  *)
(* values it takes is told by ProjectSync.  Destinations are compared and  *)
(* written like SourceNamespaces, and one list stands for both.            *)
(*                                                                         *)
(* A worker reads the cache in one step.  In another it gets the AppProject *)
(* from the informer's copy and writes it: the Update takes the whole copy *)
(* along, and is refused unless the copy is the newest version.  An event  *)
(* between the Get and the write is an event after them.                   *)
(***************************************************************************)
EXTENDS Naturals, Sequences, SequencesExt

CONSTANTS
    Namespaces,  \* names of Namespaces
    Repos,       \* repositories
    Sorted,      \* slices.Sort: each set of repositories as a list in order
    Absent,      \* an AppProject that does not exist
    Envs,        \* bound: the environments the operator is started with
    Edits,       \* bound: what people make of the AppProject
    MaxChanges,  \* bound: changes of the labels and of the AppProject
    MaxTroubles  \* bound: API calls that fail, and restarts of the operator

\* PUBLIC_REPOS, split, and whether CLUSTER_ADMIN_TEAMS names the project
Env == [public : Seq(Repos), admin : BOOLEAN]

\* cluster: the cluster resources are all allowed, all denied, or else
AppProject == [dest : Seq(Namespaces), repos : Seq(Repos),
               roles : {"declared", "edited"}, cluster : {"allowed", "denied", "edited"}]

ASSUME ParametersAssumption ==
    /\ IsFiniteSet(Namespaces)
    /\ Sorted \in [SUBSET Repos -> Seq(Repos)]
    /\ \A S \in SUBSET Repos : Range(Sorted[S]) = S
    /\ Envs \subseteq Env
    /\ Edits \subseteq AppProject \union {Absent}
    /\ {MaxChanges, MaxTroubles} \subseteq Nat

ASSUME AbsentAssumption == Absent \notin AppProject /\ Absent \notin Seq(Namespaces)

VARIABLES
    project, seen,  \* the AppProject, at the server and as the informer shows it
    fresh,          \* whether the informer shows its newest version
    env,            \* the environment of the operator
    cache,          \* the Namespaces of the project in NamespaceCache
    queued,         \* whether the ArgocdUser waits to be reconciled
    au, ns,         \* what each worker read from the cache, while it is busy
    changes, troubles

bounds == <<changes, troubles>>
vars == <<project, seen, fresh, env, cache, queued, au, ns, bounds>>


-----------------------------------------------------------------------------
\* The operator starts, with its cache still empty
Init ==
    /\ project \in AppProject \union {Absent}
    /\ seen = project /\ fresh = TRUE
    /\ env \in Envs
    /\ cache = {}
    /\ queued = TRUE
    /\ au = Absent /\ ns = Absent
    /\ changes = 0 /\ troubles = 0

Write(p) == project' = p /\ fresh' = FALSE

\* (Slip: no list at all for those who are not cluster admins)
CreatedUnlisted == [dest |-> au, repos |-> env.public, roles |-> "declared",
                    cluster |-> IF env.admin THEN "allowed" ELSE "neither"]

\* createAppProj: repositories as they are listed, duplicates included
Created == [dest |-> au, repos |-> env.public, roles |-> "declared",
            cluster |-> IF env.admin THEN "allowed" ELSE "denied"]

\* mergeStringSlices: what both list, each once, in order
Merge(desired, found) == Sorted[Range(desired) \union Range(found)]

\* What the ArgocdUser controller makes of the AppProject found: the lists of
\* cluster resources are the only ones it leaves alone
Reconciled == [seen EXCEPT !.dest = au, !.roles = "declared",
                           !.repos = Merge(env.public, seen.repos)]

-----------------------------------------------------------------------------
(* ArgocdUserReconciler.reconcileAppProject.                               *)

\* An error is returned, and the ArgocdUser queued again
Fail == au' = Absent /\ queued' = TRUE

AuStart ==
    /\ au = Absent /\ queued
    /\ queued' = FALSE
    /\ \E list \in SetToSeqs(cache) : au' = list
    /\ UNCHANGED <<project, seen, fresh, env, cache, ns, bounds>>

AuCreate ==
    /\ au # Absent /\ seen = Absent /\ project = Absent
    /\ Write(Created)
    /\ au' = Absent
    /\ UNCHANGED <<seen, env, cache, queued, ns, bounds>>

\* (Slip: the repositories are not looked at)
AuKeepsRepos ==
    /\ au # Absent /\ seen # Absent /\ [Reconciled EXCEPT !.repos = seen.repos] = seen
    /\ au' = Absent
    /\ UNCHANGED <<project, seen, fresh, env, cache, queued, ns, bounds>>

\* No list differs; an empty one is the same as none
AuSkip ==
    /\ au # Absent /\ seen # Absent /\ Reconciled = seen
    /\ au' = Absent
    /\ UNCHANGED <<project, seen, fresh, env, cache, queued, ns, bounds>>

\* (Slip: the merged repositories stay in the order of a map's iteration)
AuUpdateUnsorted ==
    /\ au # Absent /\ seen # Absent /\ fresh
    /\ \E list \in SetToSeqs(Range(Reconciled.repos)) :
        /\ [Reconciled EXCEPT !.repos = list] # seen
        /\ Write([Reconciled EXCEPT !.repos = list])
    /\ au' = Absent
    /\ UNCHANGED <<seen, env, cache, queued, ns, bounds>>

AuUpdate ==
    /\ au # Absent /\ seen # Absent /\ fresh
    /\ Reconciled # seen
    /\ Write(Reconciled)
    /\ au' = Absent
    /\ UNCHANGED <<seen, env, cache, queued, ns, bounds>>

\* It exists although the copy does not show it, or is another version
AuRefused ==
    /\ au # Absent
    /\ IF seen = Absent THEN project # Absent ELSE Reconciled # seen /\ ~fresh
    /\ Fail
    /\ UNCHANGED <<project, seen, fresh, env, cache, ns, bounds>>

Trouble == troubles < MaxTroubles /\ troubles' = troubles + 1

AuFails ==
    /\ au # Absent
    /\ Trouble
    /\ Fail
    /\ UNCHANGED <<project, seen, fresh, env, cache, ns, changes>>

AuStep == AuStart \/ AuCreate \/ AuSkip \/ AuUpdate \/ AuRefused

-----------------------------------------------------------------------------
(* NamespaceReconciler.reconcileAppProject.                                *)

Change == changes < MaxChanges /\ changes' = changes + 1

\* A Namespace joined or left the project: the cache has it, and it is pushed
NsStart(members) ==
    /\ ns = Absent
    /\ Change
    /\ cache' = members
    /\ \E list \in SetToSeqs(members) : ns' = list
    /\ UNCHANGED <<project, seen, fresh, env, queued, au, troubles>>

Pushed == [seen EXCEPT !.dest = ns]

\* No AppProject, or no difference
NsSkip ==
    /\ ns # Absent
    /\ seen # Absent => Pushed = seen
    /\ ns' = Absent
    /\ UNCHANGED <<project, seen, fresh, env, cache, queued, au, bounds>>

\* (Slip: the copy is written whatever version it is)
NsUpdateUnversioned ==
    /\ ns # Absent /\ seen # Absent /\ project # Absent
    /\ Pushed # seen
    /\ Write(Pushed)
    /\ ns' = Absent
    /\ UNCHANGED <<seen, env, cache, queued, au, bounds>>

NsUpdate ==
    /\ ns # Absent /\ seen # Absent /\ fresh
    /\ Pushed # seen
    /\ Write(Pushed)
    /\ ns' = Absent
    /\ UNCHANGED <<seen, env, cache, queued, au, bounds>>

\* The retry of a refused Update finds nothing to push
NsRefused ==
    /\ ns # Absent /\ seen # Absent /\ ~fresh /\ Pushed # seen
    /\ ns' = Absent
    /\ UNCHANGED <<project, seen, fresh, env, cache, queued, au, bounds>>

\* ... and so does the retry of one that failed
NsFails ==
    /\ ns # Absent
    /\ Trouble
    /\ ns' = Absent
    /\ UNCHANGED <<project, seen, fresh, env, cache, queued, au, changes>>

NsStep == NsSkip \/ NsUpdate \/ NsRefused

-----------------------------------------------------------------------------
(* The informer, the people, and the operator's death.                     *)

\* The AppProject's event queues the ArgocdUser of its name
Deliver ==
    /\ ~fresh
    /\ seen' = project /\ fresh' = TRUE
    /\ queued' = TRUE
    /\ UNCHANGED <<project, env, cache, au, ns, bounds>>

\* People delete the AppProject, or make something of it
Edit(p) ==
    /\ Change /\ project # p
    /\ Write(p)
    /\ UNCHANGED <<seen, env, cache, queued, au, ns, troubles>>

\* The operator dies and starts again, maybe with another environment
Restart ==
    /\ Trouble
    /\ env' \in Envs
    /\ seen' = project /\ fresh' = TRUE
    /\ cache' = {}
    /\ queued' = TRUE
    /\ au' = Absent /\ ns' = Absent
    /\ UNCHANGED <<project, changes>>

Next ==
    \/ AuStep \/ AuFails
    \/ \E members \in SUBSET Namespaces : NsStart(members)
    \/ NsStep \/ NsFails
    \/ Deliver
    \/ \E p \in Edits : Edit(p)
    \/ Restart

Spec == Init /\ [][Next]_vars

\* The workers run and the watch delivers
Fairness == WF_vars(AuStep) /\ WF_vars(NsStep) /\ WF_vars(Deliver)

FairSpec == Spec /\ Fairness

-----------------------------------------------------------------------------
(* Properties.                                                             *)

\* The values the variables may have
TypeOK ==
    /\ project \in AppProject \union {Absent} /\ seen \in AppProject \union {Absent}
    /\ fresh \in BOOLEAN /\ queued \in BOOLEAN
    /\ env \in Envs
    /\ cache \subseteq Namespaces
    /\ au \in Seq(Namespaces) \union {Absent} /\ ns \in Seq(Namespaces) \union {Absent}
    /\ changes \in Nat /\ troubles \in Nat

\* "additive - preserve manually added repos" (argocduser_controller.go:390): no step
\* of either controller takes a repository out of the AppProject or touches its lists
\* of cluster resources, not even from an old copy or after a restart with another
\* environment; neither deletes it
OthersKept ==
    [][changes' = changes /\ project # Absent =>
        /\ project' # Absent
        /\ Range(project.repos) \subseteq Range(project'.repos)
        /\ project'.cluster = project.cluster]_vars

\* Nothing is to be delivered or reconciled
Quiet == fresh /\ ~queued /\ au = Absent

\* When the operator rests there is an AppProject, its roles are as declared, and it
\* lists every public repository of the environment the operator has now, in order
\* and none twice: whatever was edited, refused, failed or written as it was listed
\* in the environment
InOrderOrPending ==
    Quiet =>
        /\ project # Absent
        /\ project.roles = "declared"
        /\ Range(env.public) \subseteq Range(project.repos)
        /\ project.repos = Sorted[Range(project.repos)]

\* The AppProject is what reconciling it makes of it, and so is what the workers are
\* about to write: with at most one Namespace, of which there is but one list
Settled ==
    /\ \A m, n \in cache : m = n
    /\ fresh /\ project # Absent
    /\ project.dest \in SetToSeqs(cache)
    /\ project.roles = "declared"
    /\ project.repos = Merge(env.public, project.repos)
    /\ {au, ns} \subseteq {Absent, project.dest}

\* Reconciling what is in order writes nothing: neither controller finds a difference
\* in the order of a list, in a repository that is listed already, or in what the other
\* one has written, until somebody changes something or the cache is emptied
SettledStays ==
    [][Settled /\ UNCHANGED <<changes, env, cache>> => Settled' /\ UNCHANGED project]_vars

\* With at most one Namespace the operator does come to rest: no comparison of lists
\* keeps the two controllers, or a controller and its own events, updating for ever
Rests == <>[](\A m, n \in cache : m = n) => <>[]Quiet

=============================================================================
