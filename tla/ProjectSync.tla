---------------------------- MODULE ProjectSync ----------------------------
(***************************************************************************)
(* How namespace labels reach the Destinations and SourceNamespaces of the *)
(* ArgoCD AppProjects: the Namespace controller, the AppProject part of    *)
(* the ArgocdUser controller, the NamespaceCache they share, and the API   *)
(* server and informers between them.                                      *)
(*                                                                         *)
(* Each controller is one worker with a queue of names.  The Namespace     *)
(* controller is the only writer of NamespaceCache; both controllers       *)
(* overwrite an AppProject with what the cache says.  Reads come from an   *)
(* informer's copy, which lags the server; an Update is refused unless the *)
(* copy it starts from is the newest version.                              *)
(*                                                                         *)
(* Left to other modules: the roles, policies and repositories of an       *)
(* AppProject, and what the ArgocdUser controller does besides AppProjects.*)
(***************************************************************************)

EXTENDS Naturals

CONSTANTS
    Namespaces,      \* names of Namespaces
    Projects,        \* names of AppProjects; an ArgocdUser has its project's name
    DefaultProject,  \* the name "default", skipped when the cache is loaded
    Absent,          \* an object that does not exist
    Edits,           \* bound: what others make of an AppProject
    MaxChanges,      \* bound: changes made by people
    MaxRestarts,     \* bound: restarts of the operator
    MaxNsFaults,     \* bound: API calls of the Namespace controller that fail
    MaxAuFaults      \* bound: API calls of the ArgocdUser controller that fail

\* The two labels of a Namespace, each read as a set of projects
Label == [proj : SUBSET Projects, src : SUBSET Projects]

\* What the operator writes of an AppProject; roles are as declared in
\* createAppProj or edited by somebody else
AppProject == [dest : SUBSET Namespaces, src : SUBSET Namespaces,
               roles : {"declared", "edited"}]

ASSUME BoundsAssumption ==
    /\ Edits \subseteq AppProject \union {Absent}
    /\ {MaxChanges, MaxRestarts, MaxNsFaults, MaxAuFaults} \subseteq Nat

\* Absent is not a name, nor the value of an object that exists
ASSUME AbsentAssumption ==
    /\ Absent \notin Namespaces \union Projects
    /\ Absent \notin Label \union AppProject
    /\ \A S \in (SUBSET Namespaces) \union (SUBSET Projects) : S # Absent
    /\ Absent \notin [project : Projects, members : SUBSET Namespaces]

VARIABLES
    labels,      \* the two labels of each Namespace, as its informer shows them
    user,        \* each ArgocdUser: none, new (no finalizer), live, deleting
    appProj,     \* AppProjects at the API server
    seen,        \* AppProjects as the informer shows them
    fresh,       \* who holds the newest version of each AppProject
    projects,    \* NamespaceCache.projects
    namespaces,  \* NamespaceCache.namespaces
    sources,     \* NamespaceCache.sources
    initOnce,    \* NamespaceCache.initOnce and initErr: no, ok, failed
    nsQueue,     \* Namespaces waiting to be reconciled
    auQueue,     \* ArgocdUsers waiting to be reconciled
    ns,          \* the worker of the Namespace controller
    au,          \* the worker of the ArgocdUser controller
    changes, restarts, nsFaults, auFaults  \* counted against their bounds

cluster == <<labels, user>>
cache   == <<projects, namespaces, sources, initOnce>>
bounds  == <<changes, restarts, nsFaults, auFaults>>
vars    == <<cluster, appProj, seen, fresh, cache, nsQueue, auQueue, ns, au,
             bounds>>

NsIdle == [pc |-> "idle", name |-> Absent, want |-> Absent, adds |-> {}, removes |-> {},
           gone |-> FALSE, failed |-> FALSE, target |-> Absent]
AuIdle == [pc |-> "idle", name |-> Absent, dest |-> {}, src |-> {}]

Exists(n) == labels[n] # Absent

-----------------------------------------------------------------------------
(* NamespaceCache.                                                         *)

\* GetSources: the namespaces whose trusted projects include p
GetSources(p) == {n \in Namespaces : p \in sources[n]}

\* createAppProj for p, put into the object found
Desired(p, found) == [found EXCEPT !.dest = namespaces[p], !.src = GetSources(p)]

\* InitOrPass: the projects whose destinations are loaded, "default" apart
Loaded == {p \in Projects : p # DefaultProject /\ seen[p] # Absent}

LoadCache ==
    /\ initOnce' = "ok"
    /\ namespaces' = [p \in Projects |-> IF p \in Loaded THEN seen[p].dest ELSE {}]
    /\ projects' = [n \in Namespaces |-> {p \in Loaded : n \in seen[p].dest}]
    /\ sources' = [n \in Namespaces |-> {}]

\* JoinProject: "update both upward and downward edges"
JoinProject(n, p) ==
    /\ projects' = [projects EXCEPT ![n] = @ \union {p}]
    /\ namespaces' = [namespaces EXCEPT ![p] = @ \union {n}]

\* (Slip: LeaveProject forgets one of the two maps)
LeaveProjectOneWay(n, p) ==
    /\ projects' = [projects EXCEPT ![n] = @ \ {p}]
    /\ UNCHANGED namespaces

LeaveProject(n, p) ==
    /\ projects' = [projects EXCEPT ![n] = @ \ {p}]
    /\ namespaces' = [namespaces EXCEPT ![p] = @ \ {n}]

\* (Slip: a Namespace that trusts a project already is taken for done)
ToTrustOnce == IF sources[ns.name] = {} THEN ns.want.src ELSE {}

\* The entries of the cache that the label read does not agree with.  To find the
\* sources to untrust the code asks GetSources, which takes the name of a project,
\* for the name of the namespace, and takes the namespaces it returns for projects.
ToTrust   == ns.want.src \ sources[ns.name]
ToUntrust == (GetSources(ns.name) \ ns.want.src) \intersect sources[ns.name]
ToLeave   == projects[ns.name] \ ns.want.proj
ToJoin    == ns.want.proj \ projects[ns.name]

\* (Slip: projects are pushed before they are joined)
CachedUnjoined == ~ns.gone => ToTrust \union ToUntrust \union ToLeave = {}

\* The cache agrees with the label of the Namespace at hand
Cached == ~ns.gone => ToTrust \union ToUntrust \union ToLeave \union ToJoin = {}

-----------------------------------------------------------------------------
(* The API server and the informers.                                       *)

\* A version of p is written: every copy of it is now an old one
Write(p, object) ==
    /\ appProj' = [appProj EXCEPT ![p] = object]
    /\ fresh' = [fresh EXCEPT ![p] = {}]

\* The worker w reads the informer's copy of p in order to update it
Hold(w, p) ==
    fresh' = [fresh EXCEPT ![p] = IF "informer" \in @ THEN @ \union {w} ELSE @ \ {w}]

\* The worker w lets its copy of p go
Release(w, p) == fresh' = [fresh EXCEPT ![p] = @ \ {w}]

\* reflect.DeepEqual compares slices built in the order of a map's iteration:
\* two slices of the same two names or more may compare as different
Reorderable(S) == \E x, y \in S : x # y

MayDiffer(desired, found) ==
    desired # found \/ Reorderable(desired.dest) \/ Reorderable(desired.src)

-----------------------------------------------------------------------------
\* The operator starts in a cluster that holds any objects
Init ==
    /\ labels \in [Namespaces -> Label \union {Absent}]
    /\ user \in [Projects -> {"none", "new", "live", "deleting"}]
    /\ appProj \in [Projects -> AppProject \union {Absent}]
    /\ initOnce = "no"
    /\ projects = [n \in Namespaces |-> {}]
    /\ namespaces = [p \in Projects |-> {}]
    /\ sources = [n \in Namespaces |-> {}]
    /\ seen = appProj
    /\ fresh = [p \in Projects |-> {"informer"}]
    /\ nsQueue = {n \in Namespaces : Exists(n)}
    /\ auQueue = {p \in Projects : user[p] # "none"}
    /\ ns = NsIdle
    /\ au = AuIdle
    /\ changes = 0 /\ restarts = 0 /\ nsFaults = 0 /\ auFaults = 0

-----------------------------------------------------------------------------
(* NamespaceReconciler.Reconcile, under its mutex from NsStart to NsFinish *)

\* (Slip: the cache is loaded at every reconcile, and what it had learned is lost)
NsStartReloading(n) ==
    /\ ns.pc = "idle" /\ n \in nsQueue
    /\ initOnce # "failed" /\ LoadCache
    /\ nsQueue' = nsQueue \ {n}
    /\ ns' = [NsIdle EXCEPT !.pc = "get", !.name = n]
    /\ UNCHANGED <<cluster, appProj, seen, fresh, auQueue, au, bounds>>

\* Take a name and pass InitOrPass
NsStart(n) ==
    /\ ns.pc = "idle" /\ n \in nsQueue
    /\ \/ initOnce = "ok" /\ UNCHANGED cache
       \/ initOnce = "no" /\ LoadCache
    /\ nsQueue' = nsQueue \ {n}
    /\ ns' = [NsIdle EXCEPT !.pc = "get", !.name = n]
    /\ UNCHANGED <<cluster, appProj, seen, fresh, auQueue, au, bounds>>

\* (Slip: the error of InitOrPass is not returned, the name is not queued again)
NsInitFailsSilently(n) ==
    /\ ns.pc = "idle" /\ n \in nsQueue /\ initOnce = "no"
    /\ nsFaults < MaxNsFaults /\ nsFaults' = nsFaults + 1
    /\ initOnce' = "failed"
    /\ nsQueue' = nsQueue \ {n}
    /\ UNCHANGED <<cluster, appProj, seen, fresh, projects, namespaces, sources,
                   auQueue, ns, au, changes, restarts, auFaults>>

\* The first List fails; the error is returned to every reconcile from now on
NsInitFails(n) ==
    /\ ns.pc = "idle" /\ n \in nsQueue /\ initOnce = "no"
    /\ nsFaults < MaxNsFaults /\ nsFaults' = nsFaults + 1
    /\ initOnce' = "failed"
    /\ UNCHANGED <<cluster, appProj, seen, fresh, projects, namespaces, sources,
                   nsQueue, auQueue, ns, au, changes, restarts, auFaults>>

\* The Namespace is gone: its projects are pushed again, its cache entries stay
NsGone ==
    /\ ns.pc = "get" /\ ~Exists(ns.name)
    /\ ns' = [ns EXCEPT !.pc = "push", !.gone = TRUE, !.removes = projects[ns.name]]
    /\ UNCHANGED <<cluster, appProj, seen, fresh, cache, nsQueue, auQueue, au, bounds>>

\* (Slip: projects left are not pushed)
NsReadAddsOnly ==
    /\ ns.pc = "get" /\ Exists(ns.name)
    /\ LET l == labels[ns.name]
       IN  ns' = [ns EXCEPT !.pc = "push", !.want = l, !.adds = l.proj \ projects[ns.name]]
    /\ UNCHANGED <<cluster, appProj, seen, fresh, cache, nsQueue, auQueue, au, bounds>>

\* (Slip: an early return when the project label has not changed)
NsReadProjectsOnly ==
    /\ ns.pc = "get" /\ Exists(ns.name)
    /\ LET l == labels[ns.name]
       IN  ns' = IF l.proj = projects[ns.name]
                 THEN [ns EXCEPT !.pc = "push", !.gone = TRUE]
                 ELSE [ns EXCEPT !.pc = "push", !.want = l,
                                 !.adds = l.proj \ projects[ns.name],
                                 !.removes = projects[ns.name] \ l.proj]
    /\ UNCHANGED <<cluster, appProj, seen, fresh, cache, nsQueue, auQueue, au, bounds>>

\* Both labels are read once; only projects joined or left are going to be pushed
NsRead ==
    /\ ns.pc = "get" /\ Exists(ns.name)
    /\ LET l == labels[ns.name]
       IN  ns' = [ns EXCEPT !.pc = "push", !.want = l,
                            !.adds = l.proj \ projects[ns.name],
                            !.removes = projects[ns.name] \ l.proj]
    /\ UNCHANGED <<cluster, appProj, seen, fresh, cache, nsQueue, auQueue, au, bounds>>

\* TrustSource and UnTrustSource, one entry at a time, each under the cache's lock
NsTrust(p) ==
    /\ ns.pc = "push" /\ ~ns.gone
    /\ \/ p \in ToTrust /\ sources' = [sources EXCEPT ![ns.name] = @ \union {p}]
       \/ p \in ToUntrust /\ sources' = [sources EXCEPT ![ns.name] = @ \ {p}]
    /\ UNCHANGED <<cluster, appProj, seen, fresh, projects, namespaces, initOnce,
                   nsQueue, auQueue, ns, au, bounds>>

\* Then the projects, those to leave first, one entry of both maps at a time
NsMove(p) ==
    /\ ns.pc = "push" /\ ~ns.gone /\ ToTrust \union ToUntrust = {}
    /\ \/ p \in ToLeave /\ LeaveProject(ns.name, p)
       \/ p \in ToJoin /\ ToLeave = {} /\ JoinProject(ns.name, p)
    /\ UNCHANGED <<cluster, appProj, seen, fresh, sources, initOnce,
                   nsQueue, auQueue, ns, au, bounds>>

\* The next project of the loops: the joined ones first, in any order
NsNext == IF ns.adds # {} THEN ns.adds ELSE ns.removes

NsPopped(p) == [ns EXCEPT !.adds = @ \ {p}, !.removes = IF p \in ns.adds THEN @ ELSE @ \ {p}]

\* reconcileAppProject finds no AppProject, or nothing to change
NsSkip(p) ==
    /\ ns.pc = "push" /\ Cached /\ p \in NsNext
    /\ seen[p] # Absent => seen[p] = Desired(p, seen[p])
    /\ ns' = NsPopped(p)
    /\ UNCHANGED <<cluster, appProj, seen, fresh, cache, nsQueue, auQueue, au, bounds>>

\* reconcileAppProject finds something to change
NsGet(p) ==
    /\ ns.pc = "push" /\ Cached /\ p \in NsNext
    /\ seen[p] # Absent /\ MayDiffer(Desired(p, seen[p]), seen[p])
    /\ ns' = [NsPopped(p) EXCEPT !.pc = "update", !.target = p]
    /\ Hold("ns", p)
    /\ UNCHANGED <<cluster, appProj, seen, cache, nsQueue, auQueue, au, bounds>>

\* Accepted only if nobody wrote the AppProject since the Get
NsWrite ==
    /\ "ns" \in fresh[ns.target]
    /\ Write(ns.target, Desired(ns.target, appProj[ns.target]))

NsUpdate ==
    /\ ns.pc = "update"
    /\ NsWrite
    /\ ns' = [ns EXCEPT !.pc = "push", !.target = Absent]
    /\ UNCHANGED <<cluster, seen, cache, nsQueue, auQueue, au, bounds>>

\* The Update is refused: the AppProject changed or went away since the Get
NsConflict ==
    /\ ns.pc = "update" /\ "ns" \notin fresh[ns.target]
    /\ ns' = [ns EXCEPT !.pc = "push", !.target = Absent, !.failed = TRUE]
    /\ UNCHANGED <<cluster, appProj, seen, fresh, cache, nsQueue, auQueue, au, bounds>>

\* The Update fails on its way to the server, or its answer on the way back
NsUpdateFails ==
    /\ ns.pc = "update"
    /\ nsFaults < MaxNsFaults /\ nsFaults' = nsFaults + 1
    /\ \/ Release("ns", ns.target) /\ UNCHANGED appProj
       \/ NsWrite
    /\ ns' = [ns EXCEPT !.pc = "push", !.target = Absent, !.failed = TRUE]
    /\ UNCHANGED <<cluster, seen, cache, nsQueue, auQueue, au, changes, restarts, auFaults>>

\* Errors are returned, and the name queued again, unless the Namespace is gone
NsFinish ==
    /\ ns.pc = "push" /\ Cached /\ NsNext = {}
    /\ nsQueue' = IF ns.failed /\ ~ns.gone THEN nsQueue \union {ns.name} ELSE nsQueue
    /\ ns' = NsIdle
    /\ UNCHANGED <<cluster, appProj, seen, fresh, cache, auQueue, au, bounds>>

NsStep ==
    \/ NsGone \/ NsRead \/ NsUpdate \/ NsConflict \/ NsFinish
    \/ \E p \in Projects : NsTrust(p) \/ NsMove(p) \/ NsSkip(p) \/ NsGet(p)

-----------------------------------------------------------------------------
(* ArgocdUserReconciler.Reconcile, as far as the AppProject is concerned.  *)

\* What reconcileAppProject wants, from the cache as it was when it was read
Wanted == [dest |-> au.dest, src |-> au.src, roles |-> "declared"]

\* (Slip: the name is forgotten before it is queued again)
AuEndsForgetful(failed) ==
    /\ au' = AuIdle
    /\ auQueue' = IF failed THEN auQueue \union {AuIdle.name} ELSE auQueue

\* The worker is done with its name, and takes it up again if it failed
AuEnds(failed) ==
    /\ au' = AuIdle
    /\ auQueue' = IF failed THEN auQueue \union {au.name} ELSE auQueue

\* Nothing to do for an ArgocdUser that is gone
AuStartGone(p) ==
    /\ au.pc = "idle" /\ p \in auQueue /\ user[p] = "none"
    /\ auQueue' = auQueue \ {p}
    /\ UNCHANGED <<cluster, appProj, seen, fresh, cache, nsQueue, ns, au, bounds>>

AuStartDeleting(p) ==
    /\ au.pc = "idle" /\ p \in auQueue /\ user[p] = "deleting"
    /\ auQueue' = auQueue \ {p}
    /\ au' = [AuIdle EXCEPT !.pc = "delete", !.name = p]
    /\ UNCHANGED <<cluster, appProj, seen, fresh, cache, nsQueue, ns, bounds>>

\* (Slip: the finalizer is not added)
AuStartUnguarded(p) ==
    /\ au.pc = "idle" /\ p \in auQueue /\ user[p] \in {"new", "live"}
    /\ auQueue' = auQueue \ {p}
    /\ au' = [AuIdle EXCEPT !.pc = "namespaces", !.name = p]
    /\ UNCHANGED <<cluster, appProj, seen, fresh, cache, nsQueue, ns, bounds>>

\* The finalizer comes first; adding it queues the name once more
AuStart(p) ==
    /\ au.pc = "idle" /\ p \in auQueue /\ user[p] \in {"new", "live"}
    /\ user' = [user EXCEPT ![p] = "live"]
    /\ auQueue' = IF user[p] = "new" THEN auQueue ELSE auQueue \ {p}
    /\ au' = [AuIdle EXCEPT !.pc = "namespaces", !.name = p]
    /\ UNCHANGED <<labels, appProj, seen, fresh, cache, nsQueue, ns, bounds>>

\* createAppProj reads the cache twice, under two acquisitions of its lock
AuGetNamespaces ==
    /\ au.pc = "namespaces"
    /\ au' = [au EXCEPT !.pc = "sources", !.dest = namespaces[au.name]]
    /\ UNCHANGED <<cluster, appProj, seen, fresh, cache, nsQueue, auQueue, ns, bounds>>

AuGetSources ==
    /\ au.pc = "sources"
    /\ au' = [au EXCEPT !.pc = "get", !.src = GetSources(au.name)]
    /\ UNCHANGED <<cluster, appProj, seen, fresh, cache, nsQueue, auQueue, ns, bounds>>

AuSkip ==
    /\ au.pc = "get" /\ seen[au.name] = Wanted
    /\ AuEnds(FALSE)
    /\ UNCHANGED <<cluster, appProj, seen, fresh, cache, nsQueue, ns, bounds>>

AuGet ==
    /\ au.pc = "get" /\ seen[au.name] # Absent /\ MayDiffer(Wanted, seen[au.name])
    /\ au' = [au EXCEPT !.pc = "update"]
    /\ Hold("au", au.name)
    /\ UNCHANGED <<cluster, appProj, seen, cache, nsQueue, auQueue, ns, bounds>>

AuGetNotFound ==
    /\ au.pc = "get" /\ seen[au.name] = Absent
    /\ au' = [au EXCEPT !.pc = "create"]
    /\ UNCHANGED <<cluster, appProj, seen, fresh, cache, nsQueue, auQueue, ns, bounds>>

\* The Update or Create, accepted by the server
AuWrite ==
    /\ \/ au.pc = "update" /\ "au" \in fresh[au.name]
       \/ au.pc = "create" /\ appProj[au.name] = Absent
    /\ Write(au.name, Wanted)

AuUpdateOrCreate ==
    /\ AuWrite
    /\ AuEnds(FALSE)
    /\ UNCHANGED <<cluster, seen, cache, nsQueue, ns, bounds>>

\* Refused: the AppProject changed since the Get, or exists already
AuRefused ==
    /\ \/ au.pc = "update" /\ "au" \notin fresh[au.name]
       \/ au.pc = "create" /\ appProj[au.name] # Absent
    /\ AuEnds(TRUE)
    /\ UNCHANGED <<cluster, appProj, seen, fresh, cache, nsQueue, ns, bounds>>

\* deleteAppProject sends a Delete, of whatever version, for what it has seen
AuErase ==
    /\ au.pc = "delete" /\ seen[au.name] # Absent
    /\ IF appProj[au.name] # Absent THEN Write(au.name, Absent)
                                    ELSE UNCHANGED <<appProj, fresh>>

AuDelete ==
    /\ AuErase
    /\ au' = [au EXCEPT !.pc = "finalizer"]
    /\ UNCHANGED <<cluster, seen, cache, nsQueue, auQueue, ns, bounds>>

AuDeleteSkips ==
    /\ au.pc = "delete" /\ seen[au.name] = Absent
    /\ au' = [au EXCEPT !.pc = "finalizer"]
    /\ UNCHANGED <<cluster, appProj, seen, fresh, cache, nsQueue, auQueue, ns, bounds>>

AuRemoveFinalizer ==
    /\ au.pc = "finalizer"
    /\ user' = [user EXCEPT ![au.name] = "none"]
    /\ AuEnds(FALSE)
    /\ UNCHANGED <<labels, appProj, seen, fresh, cache, nsQueue, ns, bounds>>

\* (Slip: the error of a call is dropped, the name is not queued again)
AuFailsQuietly ==
    /\ au.pc # "idle"
    /\ auFaults < MaxAuFaults /\ auFaults' = auFaults + 1
    /\ \/ Release("au", au.name) /\ UNCHANGED appProj
       \/ AuWrite
       \/ AuErase
    /\ AuEnds(FALSE)
    /\ UNCHANGED <<cluster, seen, cache, nsQueue, ns, changes, restarts, nsFaults>>

\* A call of the reconcile fails, done or not done at the server
AuFails ==
    /\ au.pc # "idle"
    /\ auFaults < MaxAuFaults /\ auFaults' = auFaults + 1
    /\ \/ Release("au", au.name) /\ UNCHANGED appProj
       \/ AuWrite
       \/ AuErase
    /\ AuEnds(TRUE)
    /\ UNCHANGED <<cluster, seen, cache, nsQueue, ns, changes, restarts, nsFaults>>

AuStep ==
    \/ AuGetNamespaces \/ AuGetSources \/ AuSkip \/ AuGet \/ AuGetNotFound
    \/ AuUpdateOrCreate \/ AuRefused
    \/ AuDelete \/ AuDeleteSkips \/ AuRemoveFinalizer

-----------------------------------------------------------------------------
(* The informers, the people who use the cluster, and the operator's death *)

\* (Slip: no watch on AppProjects)
DeliverUnwatched(p) ==
    /\ "informer" \notin fresh[p]
    /\ seen' = [seen EXCEPT ![p] = appProj[p]]
    /\ fresh' = [fresh EXCEPT ![p] = @ \union {"informer"}]
    /\ UNCHANGED <<cluster, appProj, cache, nsQueue, auQueue, ns, au, bounds>>

\* The informer catches up; the AppProject watch queues the ArgocdUser, if any
Deliver(p) ==
    /\ "informer" \notin fresh[p]
    /\ seen' = [seen EXCEPT ![p] = appProj[p]]
    /\ fresh' = [fresh EXCEPT ![p] = @ \union {"informer"}]
    /\ auQueue' = IF user[p] = "none" THEN auQueue ELSE auQueue \union {p}
    /\ UNCHANGED <<cluster, appProj, cache, nsQueue, ns, au, bounds>>

\* Resync, or an event of another object that queues the ArgocdUser
ResyncUser(p) ==
    /\ user[p] # "none"
    /\ auQueue' = auQueue \union {p}
    /\ UNCHANGED <<cluster, appProj, seen, fresh, cache, nsQueue, ns, au, bounds>>

\* Resync, or an event that changes neither label of the Namespace
ResyncNamespace(n) ==
    /\ Exists(n)
    /\ nsQueue' = nsQueue \union {n}
    /\ UNCHANGED <<cluster, appProj, seen, fresh, cache, auQueue, ns, au, bounds>>

Change == changes < MaxChanges /\ changes' = changes + 1

\* A Namespace is created, labelled otherwise, or deleted
Relabel(n, l) ==
    /\ Change /\ labels[n] # l
    /\ labels' = [labels EXCEPT ![n] = l]
    /\ nsQueue' = nsQueue \union {n}
    /\ UNCHANGED <<user, appProj, seen, fresh, cache, auQueue, ns, au,
                   restarts, nsFaults, auFaults>>

CreateUser(p) ==
    /\ Change /\ user[p] = "none"
    /\ user' = [user EXCEPT ![p] = "new"]
    /\ auQueue' = auQueue \union {p}
    /\ UNCHANGED <<labels, appProj, seen, fresh, cache, nsQueue, ns, au,
                   restarts, nsFaults, auFaults>>

\* The finalizer keeps an ArgocdUser until its controller has cleaned up
DeleteUser(p) ==
    /\ Change /\ user[p] \in {"new", "live"}
    /\ user' = [user EXCEPT ![p] = IF @ = "new" THEN "none" ELSE "deleting"]
    /\ auQueue' = auQueue \union {p}
    /\ UNCHANGED <<labels, appProj, seen, fresh, cache, nsQueue, ns, au,
                   restarts, nsFaults, auFaults>>

\* Somebody else creates, edits or deletes an AppProject
EditAppProject(p, object) ==
    /\ Change /\ appProj[p] # object
    /\ Write(p, object)
    /\ UNCHANGED <<cluster, seen, cache, nsQueue, auQueue, ns, au,
                   restarts, nsFaults, auFaults>>

\* The operator dies at any point and starts again with an empty cache
Restart ==
    /\ restarts < MaxRestarts /\ restarts' = restarts + 1
    /\ initOnce' = "no"
    /\ projects' = [n \in Namespaces |-> {}]
    /\ namespaces' = [p \in Projects |-> {}]
    /\ sources' = [n \in Namespaces |-> {}]
    /\ seen' = appProj
    /\ fresh' = [p \in Projects |-> {"informer"}]
    /\ nsQueue' = {n \in Namespaces : Exists(n)}
    /\ auQueue' = {p \in Projects : user[p] # "none"}
    /\ ns' = NsIdle
    /\ au' = AuIdle
    /\ UNCHANGED <<cluster, appProj, changes, nsFaults, auFaults>>

Next ==
    \/ NsStep \/ NsUpdateFails \/ \E n \in Namespaces : NsStart(n) \/ NsInitFails(n)
    \/ AuStep \/ AuFails
    \/ \E p \in Projects : AuStartGone(p) \/ AuStartDeleting(p) \/ AuStart(p)
    \/ \E p \in Projects : Deliver(p) \/ ResyncUser(p) \/ CreateUser(p) \/ DeleteUser(p)
    \/ \E n \in Namespaces : ResyncNamespace(n)
    \/ \E n \in Namespaces, l \in Label \union {Absent} : Relabel(n, l)
    \/ \E p \in Projects, object \in Edits : EditAppProject(p, object)
    \/ Restart

Spec == Init /\ [][Next]_vars

\* The workers run, watches deliver, and every ArgocdUser is resynced from time
\* to time; a queue hands out its names in turn, whatever is added meanwhile
Fairness ==
    /\ WF_vars(NsStep) /\ \A n \in Namespaces : SF_vars(NsStart(n))
    /\ WF_vars(AuStep)
    /\ \A p \in Projects : /\ SF_vars(AuStartGone(p) \/ AuStartDeleting(p) \/ AuStart(p))
                           /\ WF_vars(Deliver(p))
                           /\ WF_vars(ResyncUser(p))

FairSpec == Spec /\ Fairness

-----------------------------------------------------------------------------
(* Invariants.                                                             *)

\* The values the variables may have
TypeOK ==
    /\ labels \in [Namespaces -> Label \union {Absent}]
    /\ user \in [Projects -> {"none", "new", "live", "deleting"}]
    /\ appProj \in [Projects -> AppProject \union {Absent}]
    /\ seen \in [Projects -> AppProject \union {Absent}]
    /\ fresh \in [Projects -> SUBSET {"informer", "ns", "au"}]
    /\ projects \in [Namespaces -> SUBSET Projects]
    /\ namespaces \in [Projects -> SUBSET Namespaces]
    /\ sources \in [Namespaces -> SUBSET Projects]
    /\ initOnce \in {"no", "ok", "failed"}
    /\ nsQueue \subseteq Namespaces
    /\ auQueue \subseteq Projects
    /\ ns \in [pc : {"idle", "get", "push", "update"}, name : Namespaces \union {Absent},
              want : Label \union {Absent}, adds : SUBSET Projects, removes : SUBSET Projects, gone : BOOLEAN,
              failed : BOOLEAN, target : Projects \union {Absent}]
    /\ ns.pc # "idle" => ns.name \in Namespaces
    /\ ns.pc \in {"push", "update"} /\ ~ns.gone => ns.want \in Label
    /\ ns.pc = "update" => ns.target \in Projects
    /\ au \in [pc : {"idle", "namespaces", "sources", "get", "update", "create",
                    "delete", "finalizer"}, name : Projects \union {Absent},
              dest : SUBSET Namespaces, src : SUBSET Namespaces]
    /\ IF au.pc = "idle" THEN au = AuIdle ELSE au.name \in Projects
    /\ changes \in Nat /\ restarts \in Nat /\ nsFaults \in Nat /\ auFaults \in Nat

\* Who is said to hold the newest version of an AppProject does hold it: the
\* informer shows it, and a worker with a copy to update has one that exists
Versions ==
    \A p \in Projects :
        /\ "informer" \in fresh[p] => seen[p] = appProj[p]
        /\ "ns" \in fresh[p] \/ "au" \in fresh[p] => appProj[p] # Absent

\* The two maps of NamespaceCache are inverse to each other, through loading,
\* joining and leaving: "update both upward and downward edges"
CacheInverse ==
    \A n \in Namespaces, p \in Projects : n \in namespaces[p] <=> p \in projects[n]

\* Once the controller has dealt with the last event of a Namespace, the cache
\* holds exactly its projects, and at least its sources.  Restarts, failures to
\* load and relabelling in the middle of a reconcile must not get in the way.
SettledNamespace ==
    \A n \in Namespaces :
        Exists(n) /\ n \notin nsQueue
            /\ ~(ns.name = n /\ (ns.pc = "get" \/ (ns.pc = "push" /\ ~Cached))) =>
            projects[n] = labels[n].proj /\ labels[n].src \subseteq sources[n]

\* An AppProject says what the cache and the code say
InSync(p) ==
    appProj[p] # Absent /\ appProj[p].dest = namespaces[p] /\ appProj[p].roles = "declared"

\* Somebody is still going to look at the AppProject: its watch has not reported
\* the last write, its ArgocdUser is queued or reconciled, or the Namespace
\* controller has it on its list
Pending(p) ==
    \/ "informer" \notin fresh[p]
    \/ p \in auQueue \/ au.name = p
    \/ p \in ns.adds \union ns.removes \union {ns.target}

\* The AppProject of an ArgocdUser never stays behind the cache with nothing
\* left to bring it up to date.  The two controllers overwrite each other from
\* old reads of the cache, people edit the AppProject under them, and refused
\* Updates are not repeated by the Namespace controller.
InSyncOrPending ==
    \A p \in Projects : user[p] # "none" => InSync(p) \/ Pending(p)

\* Nothing is left to do
Quiescent ==
    /\ nsQueue = {} /\ auQueue = {} /\ ns.pc = "idle" /\ au.pc = "idle"
    /\ \A p \in Projects : "informer" \in fresh[p]

\* Existence and roles of an AppProject stay behind only with somebody about to look
\* at it, however many calls of either controller fail.  (A failed Update of the
\* Namespace controller may lose Destinations; see InSyncOrPending.)
RolesOrPending ==
    \A p \in Projects : user[p] # "none" =>
        \/ appProj[p] # Absent /\ appProj[p].roles = "declared"
        \/ "informer" \notin fresh[p] \/ p \in auQueue \/ au.name = p

-----------------------------------------------------------------------------
(* Action properties.                                                      *)

\* The operator creates an AppProject only while the finalizer of its ArgocdUser
\* promises that it will be cleaned up
CreatedUnderFinalizer ==
    [][\A p \in Projects :
        appProj[p] = Absent /\ appProj'[p] # Absent /\ changes' = changes
            => user[p] \in {"live", "deleting"}]_vars

-----------------------------------------------------------------------------
(* Refinement.  Membership, of which the Namespace label counts only the   *)
(* projects, the AppProject only its destinations, and which hears a label *)
(* when the Namespace controller reads it.                                 *)

Asked == [n \in Namespaces |-> IF Exists(n) THEN labels[n].proj ELSE Absent]

Leaving == {p \in Projects : user[p] = "deleting"}

Dest(objects) == [p \in Projects |-> IF objects[p] = Absent THEN Absent ELSE objects[p].dest]

\* The label that is being taken over, or else what was taken over before
Heard ==
    [n \in Namespaces |-> IF ns.name = n /\ ns.pc \in {"push", "update"} /\ ~ns.gone
                          THEN ns.want.proj ELSE projects[n]]

\* What the ArgocdUser controller has looked up for the AppProject at hand
Offer ==
    IF au.pc \in {"sources", "get", "update", "create"}
    THEN [project |-> au.name, members |-> au.dest] ELSE Absent

M == INSTANCE Membership WITH
        None <- Absent, asked <- Asked, leaving <- Leaving, dest <- Dest(appProj),
        shown <- Dest(seen), heard <- Heard, members <- namespaces, offer <- Offer,
        acts <- changes

\* Whatever the two controllers, failures and restarts do to each other, the
\* Destinations that the operator publishes are a column of its record, as it is
\* or as it was when the ArgocdUser controller looked it up, and never a mixture;
\* the record moves one entry at a time towards a label that was read; and an
\* AppProject is taken down for an ArgocdUser that is being deleted only.
PublishesRecord == M!Spec

-----------------------------------------------------------------------------
(* Liveness.                                                               *)

\* An AppProject that is to stay follows the labels
FollowsLabels(n, p) ==
    user[p] = "live" /\ Exists(n) =>
        /\ appProj[p] # Absent
        /\ n \in appProj[p].dest <=> p \in labels[n].proj
        /\ p \in labels[n].src => n \in appProj[p].src

\* The labels of n have arrived in the AppProject p and in the cache, and whatever a
\* worker has read before and is going to write agrees with them
Arrived(n, p) ==
    /\ initOnce = "ok" /\ user[p] = "live" /\ Exists(n)
    /\ projects[n] = labels[n].proj /\ labels[n].src \subseteq sources[n]
    /\ ns.name = n /\ ns.pc \in {"push", "update"} => ~ns.gone /\ ns.want = labels[n]
    /\ au.name = p =>
        /\ au.pc \in {"sources", "get", "update", "create"} =>
               (n \in au.dest <=> p \in labels[n].proj)
        /\ au.pc \in {"get", "update", "create"} => (p \in labels[n].src => n \in au.src)
    /\ FollowsLabels(n, p)

\* What has arrived stays: two controllers that overwrite the AppProject, each from its
\* own copy and its own reading of the cache, other Namespaces that join and leave, and
\* calls that fail do not undo it.  Only people do, and a restart, after which the cache
\* is empty (see LabelledDestinationKept).
ArrivedStays ==
    [][\A n \in Namespaces, p \in Projects :
        Arrived(n, p) /\ restarts' = restarts /\
        (changes' = changes \/ UNCHANGED <<labels[n], user[p], appProj[p]>>)
            => Arrived(n, p)']_vars

\* Unless the cache could not be loaded, every label change reaches the
\* AppProjects in the end, through all restarts, conflicts and failures (the
\* sources, and what a failed Update has lost, by a resync only)
Converges ==
    <>[](initOnce = "failed" \/ \A n \in Namespaces, p \in Projects : FollowsLabels(n, p))

-----------------------------------------------------------------------------
(* What documentation and comments say, and the code does not do.          *)

\* UnTrustSource: a Namespace that loses a project from its source label is no
\* longer trusted by it ("current namespace is trusted by the teams that are
\* mentioned in the label")
SourcesFollowLabel ==
    Quiescent => \A n \in Namespaces : Exists(n) => sources[n] \subseteq labels[n].src

\* README, "Destinations from labeled namespaces": with nothing left to do, every
\* destination of an AppProject is a Namespace with that label
DestinationsLabelled ==
    Quiescent => \A p \in Projects : user[p] = "live" =>
        \A n \in appProj[p].dest : Exists(n) /\ p \in labels[n].proj

\* README, "automatically cleans up: The associated AppProject": when the finalizer
\* goes, so has the AppProject
CleanedUp ==
    [][\A p \in Projects :
        user[p] = "deleting" /\ user'[p] = "none" => appProj[p] = Absent]_vars

\* README, "Adds namespace as a deployment destination": a Namespace that keeps
\* its label stays a destination of a project that stays
LabelledDestinationKept ==
    [][\A n \in Namespaces, p \in Projects :
        user[p] = "live" /\ Exists(n) /\ p \in labels[n].proj /\
        appProj[p] # Absent /\ n \in appProj[p].dest /\ changes' = changes
            => appProj'[p] # Absent /\ n \in appProj'[p].dest]_vars

=============================================================================
