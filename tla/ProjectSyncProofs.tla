-------------------------- MODULE ProjectSyncProofs --------------------------
(***************************************************************************)
(* What ProjectSync guarantees for every set of Namespaces and projects    *)
(* and whatever the bounds.                                                *)
(***************************************************************************)
EXTENDS ProjectSync, TLAPS

\* A write leaves objects and holders well typed
LEMMA WriteType ==
    ASSUME TypeOK, NEW p \in Projects, NEW object \in AppProject \union {Absent},
           Write(p, object)
    PROVE  /\ appProj' \in [Projects -> AppProject \union {Absent}]
           /\ fresh' \in [Projects -> SUBSET {"informer", "ns", "au"}]
BY DEF TypeOK, Write

\* The object the Namespace controller writes is one that it has read
LEMMA NsWriteType ==
    ASSUME TypeOK, Versions, ns.pc = "update", NsWrite
    PROVE  /\ appProj' \in [Projects -> AppProject \union {Absent}]
           /\ fresh' \in [Projects -> SUBSET {"informer", "ns", "au"}]
<1> DEFINE p == ns.target
<1>1. p \in Projects /\ appProj[p] \in AppProject
  BY DEF TypeOK, Versions, NsWrite
<1>2. Desired(p, appProj[p]) \in AppProject
  BY <1>1 DEF TypeOK, Desired, GetSources, AppProject
<1> QED
  BY <1>1, <1>2, WriteType DEF NsWrite

\* What TypeOK says of the worker of the Namespace controller, by itself
NsWorker == [pc : {"idle", "get", "push", "update"}, name : Namespaces \union {Absent},
             want : Label \union {Absent}, adds : SUBSET Projects, removes : SUBSET Projects,
             gone : BOOLEAN, failed : BOOLEAN, target : Projects \union {Absent}]

LEMMA NsIsWorker == TypeOK => ns \in NsWorker
BY DEF TypeOK, NsWorker

\* An Update, made or failed, only moves the worker on
LEMMA UpdateEnds ==
    ASSUME ns \in NsWorker,
           \/ ns' = [ns EXCEPT !.pc = "push", !.target = Absent]
           \/ ns' = [ns EXCEPT !.pc = "push", !.target = Absent, !.failed = TRUE]
    PROVE  /\ ns' \in NsWorker
           /\ ns'.pc = "push" /\ ns'.target = Absent
           /\ UNCHANGED <<ns.name, ns.want, ns.gone, ns.adds, ns.removes>>
BY DEF NsWorker

\* Every step keeps the types
LEMMA TypeStep == TypeOK /\ Versions /\ [Next]_vars => TypeOK'
<1> SUFFICES ASSUME TypeOK, Versions, [Next]_vars PROVE TypeOK'
  OBVIOUS
<1> USE BoundsAssumption, AbsentAssumption DEF TypeOK, AuIdle, cluster, cache, bounds, AppProject
<1>1. CASE NsGone
  BY <1>1 DEF NsGone
<1>2. CASE NsRead
  <2>1. ns.name \in Namespaces /\ labels[ns.name] \in Label
    BY <1>2 DEF NsRead, Exists
  <2>2. labels[ns.name].proj \subseteq Projects
    BY <2>1 DEF Label
  <2>3. /\ ns' = [ns EXCEPT !.pc = "push", !.want = labels[ns.name],
                           !.adds = labels[ns.name].proj \ projects[ns.name],
                           !.removes = projects[ns.name] \ labels[ns.name].proj]
        /\ UNCHANGED <<cluster, appProj, seen, fresh, cache, nsQueue, auQueue, au, bounds>>
    BY <1>2 DEF NsRead
  <2> QED
    BY <2>1, <2>2, <2>3
<1>3. CASE NsUpdate
  BY <1>3, NsWriteType DEF NsUpdate
<1>4. CASE NsConflict
  BY <1>4 DEF NsConflict
<1>5. CASE NsFinish
  BY <1>5 DEF NsFinish, NsIdle
<1>6. ASSUME NEW p \in Projects, NsSkip(p) PROVE TypeOK'
  BY <1>6 DEF NsSkip, NsPopped
<1>34. ASSUME NEW p \in Projects, NsTrust(p) PROVE TypeOK'
  BY <1>34 DEF NsTrust
<1>35. ASSUME NEW p \in Projects, NsMove(p) PROVE TypeOK'
  <2>1. ns.name \in Namespaces
    BY <1>35 DEF NsMove
  <2>2. /\ projects' \in [Namespaces -> SUBSET Projects]
        /\ namespaces' \in [Projects -> SUBSET Namespaces]
    <3>1. CASE LeaveProject(ns.name, p)
      BY <2>1, <3>1 DEF LeaveProject
    <3>2. CASE JoinProject(ns.name, p)
      BY <2>1, <3>2 DEF JoinProject
    <3> QED
      BY <1>35, <3>1, <3>2 DEF NsMove
  <2>3. UNCHANGED <<cluster, appProj, seen, fresh, sources, initOnce, nsQueue, auQueue, ns, au,
                    bounds>>
    BY <1>35 DEF NsMove
  <2> QED
    BY <2>2, <2>3
<1>7. ASSUME NEW p \in Projects, NsGet(p) PROVE TypeOK'
  BY <1>7 DEF NsGet, NsPopped, Hold
<1>8. CASE NsUpdateFails
  <2>1. /\ appProj' \in [Projects -> AppProject \union {Absent}]
        /\ fresh' \in [Projects -> SUBSET {"informer", "ns", "au"}]
    BY <1>8, NsWriteType DEF NsUpdateFails, Release
  <2>2. /\ ns' = [ns EXCEPT !.pc = "push", !.target = Absent, !.failed = TRUE]
        /\ nsFaults' \in Nat
        /\ UNCHANGED <<cluster, seen, cache, nsQueue, auQueue, au, changes, restarts, auFaults>>
    BY <1>8 DEF NsUpdateFails
  <2>3. /\ ns' \in [pc : {"idle", "get", "push", "update"}, name : Namespaces \union {Absent},
                   want : Label \union {Absent}, adds : SUBSET Projects, removes : SUBSET Projects, gone : BOOLEAN,
                   failed : BOOLEAN, target : Projects \union {Absent}]
        /\ ns'.pc = "push" /\ ns'.name \in Namespaces
        /\ ~ns'.gone => ns'.want \in Label
    <3>1. ns.pc = "update"
      BY <1>8 DEF NsUpdateFails
    <3>2. ns' \in NsWorker /\ ns'.pc = "push" /\ UNCHANGED <<ns.name, ns.want, ns.gone>>
      BY <2>2, NsIsWorker, UpdateEnds
    <3> QED
      BY <3>1, <3>2 DEF NsWorker
  <2> QED
    BY <2>1, <2>2, <2>3
<1>9. ASSUME NEW n \in Namespaces, NsStart(n) PROVE TypeOK'
  <2>1. /\ projects' \in [Namespaces -> SUBSET Projects]
        /\ namespaces' \in [Projects -> SUBSET Namespaces]
        /\ sources' \in [Namespaces -> SUBSET Projects]
        /\ initOnce' \in {"no", "ok", "failed"}
    <3>1. CASE UNCHANGED cache
      BY <3>1
    <3>2. CASE LoadCache
      BY <3>2 DEF LoadCache, Loaded
    <3> QED
      BY <1>9, <3>1, <3>2 DEF NsStart
  <2> QED
    BY <1>9, <2>1 DEF NsStart, NsIdle
<1>10. ASSUME NEW n \in Namespaces, NsInitFails(n) PROVE TypeOK'
  BY <1>10 DEF NsInitFails
<1>11. CASE AuGetNamespaces
  BY <1>11 DEF AuGetNamespaces
<1>12. CASE AuGetSources
  BY <1>12 DEF AuGetSources, GetSources
<1>13. CASE AuSkip
  BY <1>13 DEF AuSkip, AuEnds, AuIdle
<1>14. CASE AuGet
  BY <1>14 DEF AuGet, Hold
<1>15. CASE AuGetNotFound
  BY <1>15 DEF AuGetNotFound
<1>16. CASE AuUpdateOrCreate
  BY <1>16 DEF AuUpdateOrCreate, AuWrite, Wanted, Write, AuEnds, AuIdle
<1>17. CASE AuRefused
  BY <1>17 DEF AuRefused, AuEnds, AuIdle
<1>18. CASE AuDelete
  <2>1. /\ appProj' \in [Projects -> AppProject \union {Absent}]
        /\ fresh' \in [Projects -> SUBSET {"informer", "ns", "au"}]
    BY <1>18, WriteType DEF AuDelete, AuErase
  <2> QED
    BY <1>18, <2>1 DEF AuDelete, AuErase
<1>19. CASE AuDeleteSkips
  BY <1>19 DEF AuDeleteSkips
<1>20. CASE AuRemoveFinalizer
  BY <1>20 DEF AuRemoveFinalizer, AuEnds, AuIdle
<1>21. CASE AuFails
  BY <1>21 DEF AuFails, AuWrite, AuErase, Wanted, Write, Release, AuEnds, AuIdle
<1>22. ASSUME NEW p \in Projects, AuStartGone(p) PROVE TypeOK'
  BY <1>22 DEF AuStartGone
<1>23. ASSUME NEW p \in Projects, AuStartDeleting(p) PROVE TypeOK'
  BY <1>23 DEF AuStartDeleting, AuIdle
<1>24. ASSUME NEW p \in Projects, AuStart(p) PROVE TypeOK'
  BY <1>24 DEF AuStart, AuIdle
<1>25. ASSUME NEW p \in Projects, Deliver(p) PROVE TypeOK'
  BY <1>25 DEF Deliver
<1>26. ASSUME NEW p \in Projects, ResyncUser(p) PROVE TypeOK'
  BY <1>26 DEF ResyncUser
<1>27. ASSUME NEW p \in Projects, CreateUser(p) PROVE TypeOK'
  BY <1>27 DEF CreateUser, Change
<1>28. ASSUME NEW p \in Projects, DeleteUser(p) PROVE TypeOK'
  BY <1>28 DEF DeleteUser, Change
<1>29. ASSUME NEW n \in Namespaces, ResyncNamespace(n) PROVE TypeOK'
  BY <1>29 DEF ResyncNamespace
<1>30. ASSUME NEW n \in Namespaces, NEW l \in Label \union {Absent}, Relabel(n, l) PROVE TypeOK'
  BY <1>30 DEF Relabel, Change
<1>31. ASSUME NEW p \in Projects, NEW object \in Edits, EditAppProject(p, object) PROVE TypeOK'
  BY <1>31 DEF EditAppProject, Change, Write
<1>32. CASE Restart
  BY <1>32 DEF Restart, Exists, NsIdle, AuIdle
<1>33. CASE UNCHANGED vars
  BY <1>33 DEF vars
<1> QED
  BY <1>1, <1>2, <1>3, <1>4, <1>5, <1>6, <1>7, <1>8, <1>9, <1>10, <1>11, <1>12, <1>13, <1>14, <1>15, <1>16, <1>17, <1>18, <1>19, <1>20, <1>21, <1>22, <1>23, <1>24, <1>25, <1>26, <1>27, <1>28, <1>29, <1>30, <1>31, <1>32, <1>33, <1>34, <1>35 DEF Next, NsStep, AuStep

\* Every step keeps track of the newest versions
LEMMA VersionsStep == TypeOK /\ Versions /\ [Next]_vars => Versions'
<1> SUFFICES ASSUME TypeOK, Versions, [Next]_vars PROVE Versions'
  OBVIOUS
<1> USE DEF TypeOK, Versions
\* A write takes the newest version away from everybody
<1>1. ASSUME NEW p \in Projects, NEW object, Write(p, object), UNCHANGED seen PROVE Versions'
  BY <1>1 DEF Write
<1>2. CASE UNCHANGED <<appProj, seen, fresh>>
  BY <1>2
<1>3. ASSUME NEW p \in Projects, NsGet(p) PROVE Versions'
  BY <1>3 DEF NsGet, Hold
<1>4. CASE AuGet
  BY <1>4 DEF AuGet, Hold
<1>5. ASSUME NEW p \in Projects, NEW w, Release(w, p), UNCHANGED <<appProj, seen>> PROVE Versions'
  BY <1>5 DEF Release
<1>6. CASE NsUpdate \/ NsUpdateFails
  BY <1>6, <1>1, <1>5 DEF NsUpdate, NsUpdateFails, NsWrite
<1>7. CASE AuUpdateOrCreate \/ AuDelete \/ AuFails
  BY <1>7, <1>1, <1>2, <1>5 DEF AuUpdateOrCreate, AuDelete, AuFails, AuWrite, AuErase
<1>8. ASSUME NEW p \in Projects, Deliver(p) PROVE Versions'
  BY <1>8 DEF Deliver
<1>9. ASSUME NEW p \in Projects, NEW object \in Edits, EditAppProject(p, object) PROVE Versions'
  BY <1>9, <1>1 DEF EditAppProject
<1>10. CASE Restart
  BY <1>10 DEF Restart
<1> QED
  BY <1>2, <1>3, <1>4, <1>6, <1>7, <1>8, <1>9, <1>10
  DEF Next, NsStep, AuStep, vars, NsGone, NsRead, NsTrust, NsMove, NsConflict, NsFinish, NsSkip, NsStart,
      NsInitFails, AuGetNamespaces, AuGetSources, AuSkip, AuGetNotFound, AuRefused,
      AuDeleteSkips, AuRemoveFinalizer, AuStartGone, AuStartDeleting, AuStart, ResyncUser,
      CreateUser, DeleteUser, ResyncNamespace, Relabel

\* The variables always have their types, and the version that a worker updates
\* is one that exists
THEOREM TypeCorrect == Spec => [](TypeOK /\ Versions)
<1>1. Init => TypeOK /\ Versions
  BY BoundsAssumption, AbsentAssumption DEF Init, TypeOK, Versions, NsIdle, AuIdle, Exists
<1> QED
  BY <1>1, TypeStep, VersionsStep, PTL DEF Spec

-----------------------------------------------------------------------------
\* Steps that change neither map of the cache
LEMMA CacheUnchanged ==
    ASSUME [Next]_vars
    PROVE  \/ UNCHANGED <<projects, namespaces>>
           \/ \E n \in Namespaces : NsStart(n) /\ LoadCache
           \/ \E p \in Projects : NsMove(p)
           \/ Restart
BY DEF Next, NsStep, AuStep, vars, cache, NsGone, NsRead, NsTrust, NsUpdate, NsConflict,
       NsUpdateFails, NsFinish, NsSkip, NsGet, NsStart, NsInitFails, AuGetNamespaces, AuGetSources, AuSkip,
       AuGet, AuGetNotFound, AuUpdateOrCreate, AuRefused, AuDelete, AuDeleteSkips,
       AuRemoveFinalizer, AuFails, AuStartGone, AuStartDeleting, AuStart, Deliver, ResyncUser,
       CreateUser, DeleteUser, ResyncNamespace, Relabel, EditAppProject

\* Whatever is loaded, joined, left and restarted, in whatever order: n is among
\* the namespaces of p exactly if p is among the projects of n
THEOREM CacheStaysInverse == Spec => []CacheInverse
<1>1. Init => CacheInverse
  BY DEF Init, CacheInverse
<1>2. TypeOK /\ CacheInverse /\ [Next]_vars => CacheInverse'
  <2> SUFFICES ASSUME TypeOK, CacheInverse, [Next]_vars PROVE CacheInverse'
    OBVIOUS
  <2>1. CASE UNCHANGED <<projects, namespaces>>
    BY <2>1 DEF CacheInverse
  <2>2. CASE LoadCache
    BY <2>2 DEF LoadCache, Loaded, CacheInverse
  <2>3. ASSUME NEW p \in Projects, NsMove(p) PROVE CacheInverse'
    <3>1. ns.name \in Namespaces /\ (LeaveProject(ns.name, p) \/ JoinProject(ns.name, p))
      BY <2>3 DEF NsMove, TypeOK
    <3> QED
      BY <3>1 DEF LeaveProject, JoinProject, CacheInverse, TypeOK
  <2>4. CASE Restart
    BY <2>4 DEF Restart, CacheInverse
  <2> QED
    BY <2>1, <2>2, <2>3, <2>4, CacheUnchanged
<1> QED
  BY <1>1, <1>2, TypeCorrect, PTL DEF Spec

-----------------------------------------------------------------------------
\* Until the cache is loaded nothing is reconciled and every Namespace waits
AllWaiting ==
    initOnce # "ok" =>
        ns.pc = "idle" /\ \A n \in Namespaces : Exists(n) => n \in nsQueue

\* The label being taken over is the one of now, unless its change has queued the
\* Namespace again; what is still to be left and joined is listed to be pushed, and
\* an Update starts when nothing is
TakingOver ==
    /\ ns.pc = "get" => ~ns.gone
    /\ ns.pc = "update" => Cached
    /\ ns.pc \in {"push", "update"} /\ ~ns.gone /\ Exists(ns.name) /\ ns.name \notin nsQueue
           => labels[ns.name] = ns.want
    /\ ns.pc = "push" /\ ~ns.gone => ToLeave \subseteq ns.removes /\ ToJoin \subseteq ns.adds

\* Steps of the ArgocdUser controller, of the informers, and of the people who
\* write ArgocdUsers and AppProjects leave the Namespaces and their cache alone
LEMMA NamespaceUnchanged ==
    ASSUME [Next]_vars
    PROVE  \/ UNCHANGED <<labels, projects, sources, initOnce, ns, nsQueue>>
           \/ NsStep \/ NsUpdateFails \/ Restart
           \/ \E n \in Namespaces : NsStart(n) \/ NsInitFails(n) \/ ResyncNamespace(n)
           \/ \E n \in Namespaces, l \in Label \union {Absent} : Relabel(n, l)
BY DEF Next, AuStep, vars, cache, cluster, AuGetNamespaces, AuGetSources, AuSkip,
       AuGet, AuGetNotFound, AuUpdateOrCreate, AuRefused, AuDelete, AuDeleteSkips,
       AuRemoveFinalizer, AuFails, AuStartGone, AuStartDeleting, AuStart, Deliver, ResyncUser,
       CreateUser, DeleteUser, EditAppProject

LEMMA TakingOverStep == TypeOK /\ TakingOver /\ [Next]_vars => TakingOver'
<1> SUFFICES ASSUME TypeOK, TakingOver, [Next]_vars PROVE TakingOver'
  OBVIOUS
<1> USE DEF TakingOver, Cached, ToTrust, ToUntrust, ToLeave, ToJoin, GetSources, Exists, cache, cluster
<1>1. CASE UNCHANGED <<labels, projects, sources, initOnce, ns, nsQueue>>
  BY <1>1
<1>2. CASE NsRead
  BY <1>2 DEF NsRead, TypeOK
<1>3. CASE NsGone
  BY <1>3 DEF NsGone, TypeOK
<1>4. ASSUME NEW p \in Projects, NsTrust(p) PROVE TakingOver'
  BY <1>4 DEF NsTrust
<1>5. ASSUME NEW p \in Projects, NsMove(p) PROVE TakingOver'
  BY <1>5 DEF NsMove, LeaveProject, JoinProject, TypeOK
<1>6. ASSUME NEW p \in Projects, NsSkip(p) \/ NsGet(p) PROVE TakingOver'
  <2>1. /\ ns.pc = "push" /\ ns'.pc \in {"push", "update"} /\ Cached
        /\ UNCHANGED <<labels, projects, sources, nsQueue, ns.name, ns.want, ns.gone>>
    <3>1. CASE NsSkip(p)
      BY <3>1, NsIsWorker DEF NsSkip, NsPopped, NsWorker
    <3>2. CASE NsGet(p)
      BY <3>2, NsIsWorker DEF NsGet, NsPopped, NsWorker
    <3> QED
      BY <1>6, <3>1, <3>2
  <2> QED
    BY <2>1
<1>7. CASE NsUpdate \/ NsConflict \/ NsUpdateFails
  <2>1. /\ ns.pc = "update" /\ Cached
        /\ UNCHANGED <<labels, projects, sources, nsQueue>>
    BY <1>7 DEF NsUpdate, NsConflict, NsUpdateFails
  <2>2. \/ ns' = [ns EXCEPT !.pc = "push", !.target = Absent]
        \/ ns' = [ns EXCEPT !.pc = "push", !.target = Absent, !.failed = TRUE]
    BY <1>7 DEF NsUpdate, NsConflict, NsUpdateFails
  <2>3. ns'.pc = "push" /\ UNCHANGED <<ns.name, ns.want, ns.gone>>
    BY <2>2, NsIsWorker, UpdateEnds
  <2> QED
    BY <2>1, <2>3
<1>8. CASE NsFinish \/ Restart
  BY <1>8 DEF NsFinish, Restart, NsIdle
<1>9. ASSUME NEW n \in Namespaces, NsStart(n) PROVE TakingOver'
  BY <1>9 DEF NsStart, NsIdle
<1>10. ASSUME NEW n \in Namespaces, NsInitFails(n) \/ ResyncNamespace(n) PROVE TakingOver'
  BY <1>10 DEF NsInitFails, ResyncNamespace
<1>11. ASSUME NEW n \in Namespaces, NEW l \in Label \union {Absent}, Relabel(n, l)
       PROVE  TakingOver'
  BY <1>11 DEF Relabel, TypeOK
<1> QED
  BY <1>1, <1>2, <1>3, <1>4, <1>5, <1>6, <1>7, <1>8, <1>9, <1>10, <1>11,
     NamespaceUnchanged DEF NsStep

LEMMA WaitingStep == TypeOK /\ AllWaiting /\ [Next]_vars => AllWaiting'
<1> SUFFICES ASSUME TypeOK, AllWaiting, [Next]_vars PROVE AllWaiting'
  OBVIOUS
<1> USE DEF AllWaiting, Exists, cache, cluster
<1>1. CASE UNCHANGED <<labels, projects, sources, initOnce, ns, nsQueue>>
  BY <1>1
<1>2. CASE NsStep \/ NsUpdateFails
  BY <1>2 DEF NsStep, NsGone, NsRead, NsTrust, NsMove, NsSkip, NsGet, NsUpdate, NsConflict,
     NsFinish, NsUpdateFails
<1>3. ASSUME NEW n \in Namespaces, NsStart(n) \/ NsInitFails(n) \/ ResyncNamespace(n)
      PROVE  AllWaiting'
  BY <1>3 DEF NsStart, LoadCache, NsInitFails, ResyncNamespace
<1>4. ASSUME NEW n \in Namespaces, NEW l \in Label \union {Absent}, Relabel(n, l)
      PROVE  AllWaiting'
  BY <1>4 DEF Relabel, TypeOK
<1>5. CASE Restart
  BY <1>5 DEF Restart, NsIdle
<1> QED
  BY <1>1, <1>2, <1>3, <1>4, <1>5, NamespaceUnchanged

\* SettledNamespace carries itself from step to step, but for the Namespace that is
\* being reconciled
LEMMA SettledStep ==
    TypeOK /\ TypeOK' /\ TakingOver /\ AllWaiting /\ SettledNamespace /\ [Next]_vars
        => SettledNamespace'
<1> SUFFICES ASSUME TypeOK, TakingOver, AllWaiting, SettledNamespace, [Next]_vars,
                    TypeOK', NEW n \in Namespaces,
                    (Exists(n) /\ n \notin nsQueue
                        /\ ~(ns.name = n /\ (ns.pc = "get" \/ (ns.pc = "push" /\ ~Cached))))'
             PROVE  (projects[n] = labels[n].proj /\ labels[n].src \subseteq sources[n])'
  BY DEF SettledNamespace
<1> DEFINE Settled == projects[n] = labels[n].proj /\ labels[n].src \subseteq sources[n]
<1>1. TakingOver'
  BY TakingOverStep
\* The Namespace being reconciled has its labels in the cache once it is Cached
<1>2. CASE ns'.name = n /\ ns'.pc \in {"push", "update"} /\ ~ns'.gone
  <2>1. Cached' /\ labels'[n] = ns'.want
    BY <1>1, <1>2 DEF TakingOver
  <2>2. labels'[n] \in Label /\ projects'[n] \subseteq Projects
    BY DEF TypeOK, Exists
  <2>3. /\ ns'.want.src \ sources'[n] = {}
        /\ projects'[n] \ ns'.want.proj = {} /\ ns'.want.proj \ projects'[n] = {}
    BY <1>2, <2>1 DEF Cached, ToTrust, ToUntrust, ToLeave, ToJoin
  <2> QED
    BY <2>1, <2>2, <2>3
\* Otherwise it was settled before
<1>3. ASSUME UNCHANGED <<labels[n], projects[n], sources[n]>>, n \notin nsQueue,
             ns.name = n => ns.pc # "get" /\ (ns.pc = "push" => Cached)
      PROVE  Settled'
  BY <1>3 DEF SettledNamespace, Exists
<1>4. CASE ~(ns'.name = n /\ ns'.pc \in {"push", "update"} /\ ~ns'.gone)
  <2>1. CASE UNCHANGED <<labels, projects, sources, initOnce, ns, nsQueue>>
    BY <1>3, <1>4, <2>1 DEF TypeOK, Cached
  <2>2. ASSUME NEW m \in Namespaces, NsStart(m) PROVE Settled'
    <3>1. m # n /\ n \notin nsQueue
      BY <2>2 DEF NsStart, NsIdle
    <3>2. initOnce = "ok" /\ UNCHANGED <<labels, projects, sources>> /\ ns.pc = "idle"
      BY <2>2, <3>1 DEF NsStart, AllWaiting, Exists, cluster, cache
    <3> QED
      BY <1>3, <3>1, <3>2
  <2>3. CASE NsGone \/ NsRead
    <3>1. ns.pc = "get" /\ ns'.name = ns.name /\ UNCHANGED <<labels, projects, sources, nsQueue>>
      BY <2>3, NsIsWorker DEF NsGone, NsRead, cluster, cache, NsWorker
    <3>2. CASE NsGone
      <4>1. ns.name # n
        BY <3>1, <3>2 DEF NsGone, Exists
      <4> QED
        BY <1>3, <3>1, <4>1
    <3>3. CASE NsRead
      <4>1. ns'.pc = "push" /\ ns'.gone = ns.gone /\ ~ns.gone
        BY <3>1, <3>3 DEF NsRead, TakingOver, TypeOK
      <4>2. ns.name # n
        BY <1>4, <3>1, <4>1
      <4> QED
        BY <1>3, <3>1, <4>2
    <3> QED
      BY <2>3, <3>2, <3>3
  <2>4. ASSUME NEW p \in Projects, NsTrust(p) \/ NsMove(p) PROVE Settled'
    <3>1. UNCHANGED <<ns, labels, nsQueue>> /\ ns.pc = "push" /\ ~ns.gone
      BY <2>4 DEF NsTrust, NsMove, cluster
    <3>2. UNCHANGED <<projects[n], sources[n]>>
      BY <1>4, <2>4, <3>1 DEF NsTrust, NsMove, LeaveProject, JoinProject, TypeOK
    <3> QED
      BY <1>3, <1>4, <3>1, <3>2
  <2>5. ASSUME NEW p \in Projects, NsSkip(p) \/ NsGet(p) PROVE Settled'
    BY <1>3, <2>5 DEF NsSkip, NsGet, cluster, cache
  <2>6. CASE NsUpdate \/ NsConflict \/ NsUpdateFails
    BY <1>3, <2>6 DEF NsUpdate, NsConflict, NsUpdateFails, cluster, cache
  <2>7. CASE NsFinish
    BY <1>3, <2>7 DEF NsFinish, cluster, cache
  <2>8. ASSUME NEW m \in Namespaces, NsInitFails(m) \/ ResyncNamespace(m) PROVE Settled'
    BY <1>3, <1>4, <2>8 DEF NsInitFails, ResyncNamespace, cluster, cache, Cached
  <2>9. ASSUME NEW m \in Namespaces, NEW l \in Label \union {Absent}, Relabel(m, l) PROVE Settled'
    <3>1. m # n /\ UNCHANGED <<projects, sources, ns, labels[n]>> /\ n \notin nsQueue
      BY <2>9 DEF Relabel, cache, TypeOK
    <3> QED
      BY <1>3, <1>4, <3>1 DEF Cached
  <2>10. CASE Restart
    BY <2>10 DEF Restart, Exists, cluster
  <2> QED
    BY <2>1, <2>2, <2>3, <2>4, <2>5, <2>6, <2>7, <2>8, <2>9, <2>10,
       NamespaceUnchanged DEF NsStep
<1> QED
  BY <1>2, <1>4

\* Once the last event of a Namespace is dealt with, the cache holds its labels
THEOREM NamespaceSettles == Spec => []SettledNamespace
<1>1. Init => AllWaiting /\ TakingOver /\ SettledNamespace
  BY DEF Init, AllWaiting, TakingOver, SettledNamespace, NsIdle, Exists
<1> QED
  BY <1>1, WaitingStep, TakingOverStep, SettledStep, TypeCorrect, PTL DEF Spec

-----------------------------------------------------------------------------
(* InSyncOrPending is not inductive: it does not say that the ArgocdUser     *)
(* controller, about to finish, has read the cache as it is, nor that the    *)
(* Namespace controller, about to be refused, leaves the AppProject to       *)
(* somebody else.  The invariant below does.  It is stated as long as no     *)
(* Update of the Namespace controller has failed: such a failure does lose   *)
(* the update.                                                               *)

\* Somebody other than the Namespace controller is going to look at p
Attended(p) == "informer" \notin fresh[p] \/ p \in auQueue \/ au.name = p

\* The Namespace controller has p on its list
Listed(p) == p \in ns.adds \union ns.removes \union {ns.target}

\* The lists are empty outside the loops
Lists ==
    /\ ns.pc \in {"idle", "get"} => ns.adds = {} /\ ns.removes = {}
    /\ ns.pc # "update" => ns.target = Absent

EmptyUntilLoaded == initOnce = "no" => \A p \in Projects : namespaces[p] = {}

\* Roles and existence are the ArgocdUser controller's alone
RolesInSync(p) == (appProj[p] # Absent /\ appProj[p].roles = "declared") \/ Attended(p)

DestInSync(p) ==
    (appProj[p] # Absent /\ appProj[p].dest = namespaces[p]) \/ Attended(p) \/ Listed(p)

\* What the ArgocdUser controller has read of p is what the cache says, or it
\* will be told again, or it will see that the AppProject is another one
ReadInSync(p) ==
    au.name = p /\ au.pc \in {"sources", "get", "update", "create"} =>
        \/ au.dest = namespaces[p]
        \/ "informer" \notin fresh[p] \/ p \in auQueue
        \/ Listed(p)
        \/ seen[p] = Absent
        \/ seen[p] # Absent /\ seen[p].dest = namespaces[p]

\* The Namespace controller's Update of p will be accepted, or is not needed
RefusalHarmless(p) ==
    ns.target = p =>
        \/ "ns" \in fresh[p]
        \/ "informer" \notin fresh[p] \/ p \in auQueue
        \/ au.name = p /\ (au.pc \in {"namespaces", "delete", "finalizer"}
                              \/ au.dest = namespaces[p])
        \/ appProj[p] # Absent /\ appProj[p].dest = namespaces[p]

SyncInv ==
    /\ Lists
    /\ EmptyUntilLoaded
    /\ nsFaults = 0 => \A p \in Projects : user[p] # "none" =>
           RolesInSync(p) /\ DestInSync(p) /\ ReadInSync(p) /\ RefusalHarmless(p)

LEMMA ListsStep == TypeOK /\ Lists /\ [Next]_vars => Lists'
<1> SUFFICES ASSUME TypeOK, Lists, [Next]_vars PROVE Lists'
  OBVIOUS
<1> USE DEF Lists
<1>1. CASE UNCHANGED ns
  BY <1>1
<1>2. CASE NsRead
  BY <1>2 DEF NsRead, TypeOK
<1>3. CASE NsGone \/ NsUpdate \/ NsConflict \/ NsUpdateFails
  <2>1. ns' = [ns EXCEPT !.pc = "push", !.gone = TRUE, !.removes = projects[ns.name]]
        \/ ns' = [ns EXCEPT !.pc = "push", !.target = Absent]
        \/ ns' = [ns EXCEPT !.pc = "push", !.target = Absent, !.failed = TRUE]
    BY <1>3 DEF NsGone, NsUpdate, NsConflict, NsUpdateFails
  <2>2. ns'.pc = "push" /\ (ns.pc = "update" \/ ns'.target = ns.target)
    BY <1>3, <2>1, NsIsWorker DEF NsGone, NsUpdate, NsConflict, NsUpdateFails, NsWorker
  <2>3. ns.pc = "update" => ns'.target = Absent
    BY <1>3, NsIsWorker DEF NsGone, NsUpdate, NsConflict, NsUpdateFails, NsWorker
  <2> QED
    BY <2>2, <2>3
<1>4. ASSUME NEW p \in Projects, NsSkip(p) \/ NsGet(p) PROVE Lists'
  BY <1>4, NsIsWorker DEF NsSkip, NsGet, NsPopped, NsWorker
<1>5. ASSUME NEW n \in Namespaces, NsStart(n) PROVE Lists'
  BY <1>5 DEF NsStart, NsIdle
<1>6. CASE NsFinish \/ Restart
  BY <1>6 DEF NsFinish, Restart, NsIdle
<1> QED
  BY <1>1, <1>2, <1>3, <1>4, <1>5, <1>6
  DEF Next, NsStep, AuStep, vars, NsInitFails, AuGetNamespaces, AuGetSources, AuSkip,
      AuGet, AuGetNotFound, AuUpdateOrCreate, AuRefused, AuDelete, AuDeleteSkips,
      AuRemoveFinalizer, AuFails, AuStartGone, AuStartDeleting, AuStart, Deliver, ResyncUser,
      CreateUser, DeleteUser, ResyncNamespace, Relabel, EditAppProject, NsTrust, NsMove

LEMMA EmptyStep == TypeOK /\ AllWaiting /\ EmptyUntilLoaded /\ [Next]_vars => EmptyUntilLoaded'
<1> SUFFICES ASSUME TypeOK, AllWaiting, EmptyUntilLoaded, [Next]_vars PROVE EmptyUntilLoaded'
  OBVIOUS
<1> USE DEF EmptyUntilLoaded
<1>1. CASE UNCHANGED <<projects, namespaces>>
  BY <1>1, NamespaceUnchanged
  DEF NsStep, NsGone, NsRead, NsTrust, NsMove, NsUpdate, NsConflict, NsFinish, NsSkip, NsGet, NsUpdateFails,
      NsStart, NsInitFails, ResyncNamespace, Relabel, Restart, LoadCache, cache
<1>2. CASE LoadCache
  BY <1>2 DEF LoadCache
<1>3. ASSUME NEW p \in Projects, NsMove(p) PROVE EmptyUntilLoaded'
  BY <1>3 DEF NsMove, AllWaiting
<1>4. CASE Restart
  BY <1>4 DEF Restart
<1> QED
  BY <1>1, <1>2, <1>3, <1>4, CacheUnchanged

\* Only a failure of the Namespace controller's calls is counted as one
LEMMA NsFaultsGrow ==
    ASSUME [Next]_vars
    PROVE  UNCHANGED nsFaults \/ NsUpdateFails \/ \E n \in Namespaces : NsInitFails(n)
BY DEF Next, NsStep, AuStep, vars, bounds, NsGone, NsRead, NsTrust, NsMove, NsUpdate, NsConflict, NsFinish,
       NsSkip, NsGet, NsStart, AuGetNamespaces, AuGetSources, AuSkip, AuGet, AuGetNotFound,
       AuUpdateOrCreate, AuRefused, AuDelete, AuDeleteSkips, AuRemoveFinalizer, AuFails,
       AuStartGone, AuStartDeleting, AuStart, Deliver, ResyncUser, CreateUser, DeleteUser,
       ResyncNamespace, Relabel, EditAppProject, Restart

LEMMA SyncStep ==
    TypeOK /\ Versions /\ TakingOver /\ AllWaiting /\ SyncInv /\ [Next]_vars
        => SyncInv'
<1> SUFFICES ASSUME TypeOK, Versions, TakingOver, AllWaiting, SyncInv, [Next]_vars,
                    nsFaults' = 0, NEW p \in Projects, user'[p] # "none"
             PROVE  (RolesInSync(p) /\ DestInSync(p) /\ ReadInSync(p) /\ RefusalHarmless(p))'
  BY ListsStep, EmptyStep DEF SyncInv
<1> DEFINE Good == RolesInSync(p) /\ DestInSync(p) /\ ReadInSync(p) /\ RefusalHarmless(p)
<1> USE AbsentAssumption DEF RolesInSync, DestInSync, ReadInSync, RefusalHarmless, Attended, Listed
<1>a. nsFaults = 0
  BY NsFaultsGrow DEF NsUpdateFails, NsInitFails, TypeOK
<1>b. user[p] # "none" => Good
  BY <1>a DEF SyncInv
<1>c. Lists /\ EmptyUntilLoaded
  BY DEF SyncInv
<1>1. ASSUME NsGone PROVE Good'
  BY <1>1, <1>b, <1>c DEF NsGone, TypeOK, Lists, cluster, cache
<1>2. ASSUME NsRead PROVE Good'
  BY <1>2, <1>b, <1>c DEF NsRead, Lists, TypeOK, cluster, cache
<1>34. ASSUME NEW q \in Projects, NsTrust(q) PROVE Good'
  BY <1>34, <1>b DEF NsTrust, cluster
<1>35. ASSUME NEW q \in Projects, NsMove(q) PROVE Good'
  <2>1. /\ ns.pc = "push" /\ ns.target = Absent /\ q \in ns.adds \union ns.removes
        /\ UNCHANGED <<user, appProj, seen, fresh, auQueue, ns, au>>
    BY <1>35, <1>c DEF NsMove, Lists, TakingOver, cluster
  \* A project whose namespaces change is listed
  <2>2. namespaces'[p] = namespaces[p] \/ p \in ns.adds \union ns.removes
    BY <1>35, <2>1 DEF NsMove, LeaveProject, JoinProject, TypeOK
  <2> QED
    BY <1>b, <2>1, <2>2
<1>3. ASSUME NsUpdate PROVE Good'
  BY <1>3, <1>b, <1>c DEF NsUpdate, NsWrite, Write, TypeOK, Lists, cluster, cache
<1>4. ASSUME NsConflict PROVE Good'
  BY <1>4, <1>b, <1>c DEF NsConflict, TypeOK, Lists, Versions, cluster, cache
<1>5. ASSUME NsFinish PROVE Good'
  BY <1>5, <1>b, <1>c DEF NsFinish, NsNext, NsIdle, Lists, cluster, cache
<1>6. ASSUME NEW q \in Projects, NsSkip(q) PROVE Good'
  <2>1. /\ ns.pc = "push" /\ ns'.target = Absent
        /\ UNCHANGED <<user, appProj, seen, fresh, namespaces, auQueue, au>>
    BY <1>6, <1>c DEF NsSkip, NsPopped, Lists, TypeOK, cluster, cache
  <2>2. CASE p = q
    <3>1. seen[p] # Absent => seen[p].dest = namespaces[p]
      BY <1>6, <2>2 DEF NsSkip, Desired, TypeOK, AppProject
    <3> QED
      BY <1>b, <2>1, <3>1 DEF Versions
  <2>3. CASE p # q
    <3>1. p \in ns.adds \union ns.removes <=> p \in ns'.adds \union ns'.removes
      BY <1>6, <2>3 DEF NsSkip, NsPopped, TypeOK
    <3> QED
      BY <1>b, <1>c, <2>1, <3>1 DEF Lists
  <2> QED
    BY <2>2, <2>3
<1>7. ASSUME NEW q \in Projects, NsGet(q) PROVE Good'
  BY <1>7, <1>b, <1>c DEF NsGet, NsNext, NsPopped, Hold, TypeOK, Lists, cluster, cache
<1>8. ASSUME NEW n \in Namespaces, NsStart(n) PROVE Good'
  <2>1. /\ ns'.adds = {} /\ ns'.removes = {} /\ ns'.target = Absent
        /\ ns.adds = {} /\ ns.removes = {} /\ ns.target = Absent
        /\ UNCHANGED <<user, appProj, seen, fresh, auQueue, au>>
    BY <1>8, <1>c DEF NsStart, NsIdle, Lists, cluster
  <2>2. CASE UNCHANGED cache
    BY <1>b, <2>1, <2>2 DEF cache
  \* What is loaded is what the informer shows; before, the cache said nothing
  <2>3. CASE initOnce = "no" /\ LoadCache
    <3>1. namespaces[p] = {}
      BY <1>c, <2>3 DEF EmptyUntilLoaded
    <3>2. p = DefaultProject \/ seen[p] = Absent => namespaces'[p] = {}
      BY <2>3 DEF LoadCache, Loaded
    <3>3. p # DefaultProject /\ seen[p] # Absent => namespaces'[p] = seen[p].dest
      BY <2>3 DEF LoadCache, Loaded
    <3> QED
      BY <1>b, <2>1, <3>1, <3>2, <3>3 DEF Versions
  <2> QED
    BY <1>8, <2>2, <2>3 DEF NsStart
<1>9. ASSUME NEW n \in Namespaces, NsInitFails(n) PROVE Good'
  BY <1>9, <1>b, <1>c DEF NsInitFails, cluster
<1>10. ASSUME AuGetNamespaces PROVE Good'
  BY <1>10, <1>b, <1>c DEF AuGetNamespaces, TypeOK, cluster, cache
<1>11. ASSUME AuGetSources PROVE Good'
  BY <1>11, <1>b, <1>c DEF AuGetSources, TypeOK, cluster, cache
<1>12. ASSUME AuSkip PROVE Good'
  <2>1. /\ au'.name = Absent /\ au'.pc = "idle"
        /\ UNCHANGED <<user, appProj, seen, fresh, namespaces, auQueue, ns>>
    BY <1>12 DEF AuSkip, AuEnds, AuIdle, cluster, cache
  <2>2. CASE au.name = p
    <3>1. /\ au.pc = "get" /\ seen[p] # Absent
          /\ seen[p].dest = au.dest /\ seen[p].roles = "declared"
      BY <1>12, <2>2 DEF AuSkip, Wanted, TypeOK, AppProject
    <3>2. "informer" \in fresh[p] => appProj[p] = seen[p]
      BY DEF Versions
    <3> QED
      BY <1>b, <2>1, <2>2, <3>1, <3>2
  <2>3. CASE au.name # p
    BY <1>b, <2>1, <2>3
  <2> QED
    BY <2>2, <2>3
<1>13. ASSUME AuGet PROVE Good'
  BY <1>13, <1>b, <1>c DEF AuGet, Hold, TypeOK, cluster, cache
<1>14. ASSUME AuGetNotFound PROVE Good'
  BY <1>14, <1>b, <1>c DEF AuGetNotFound, TypeOK, cluster, cache
<1>15. ASSUME AuUpdateOrCreate PROVE Good'
  BY <1>15, <1>b, <1>c DEF AuUpdateOrCreate, AuWrite, Write, AuEnds, AuIdle, TypeOK, cluster, cache
<1>16. ASSUME AuRefused PROVE Good'
  BY <1>16, <1>b, <1>c DEF AuRefused, AuEnds, AuIdle, TypeOK, cluster, cache
<1>17. ASSUME AuDelete PROVE Good'
  BY <1>17, <1>b, <1>c DEF AuDelete, AuErase, Write, TypeOK, cluster, cache
<1>18. ASSUME AuDeleteSkips PROVE Good'
  BY <1>18, <1>b, <1>c DEF AuDeleteSkips, TypeOK, cluster, cache
<1>19. ASSUME AuRemoveFinalizer PROVE Good'
  BY <1>19, <1>b, <1>c DEF AuRemoveFinalizer, AuEnds, AuIdle, TypeOK, cache
<1>20. ASSUME AuFails PROVE Good'
  BY <1>20, <1>b, <1>c DEF AuFails, AuWrite, AuErase, Write, Release, AuEnds, AuIdle, TypeOK, cluster, cache
<1>21. ASSUME NEW q \in Projects, AuStartGone(q) PROVE Good'
  BY <1>21, <1>b, <1>c DEF AuStartGone, TypeOK, cluster, cache
<1>22. ASSUME NEW q \in Projects, AuStartDeleting(q) PROVE Good'
  BY <1>22, <1>b, <1>c DEF AuStartDeleting, AuIdle, TypeOK, cluster, cache
<1>23. ASSUME NEW q \in Projects, AuStart(q) PROVE Good'
  BY <1>23, <1>b, <1>c DEF AuStart, AuIdle, TypeOK, cache
<1>24. ASSUME NEW q \in Projects, Deliver(q) PROVE Good'
  BY <1>24, <1>b, <1>c DEF Deliver, TypeOK, cluster, cache
<1>25. ASSUME NEW q \in Projects, ResyncUser(q) PROVE Good'
  BY <1>25, <1>b, <1>c DEF ResyncUser, TypeOK, cluster, cache
<1>26. ASSUME NEW q \in Projects, CreateUser(q) PROVE Good'
  BY <1>26, <1>b, <1>c DEF CreateUser, TypeOK, cache
<1>27. ASSUME NEW q \in Projects, DeleteUser(q) PROVE Good'
  BY <1>27, <1>b, <1>c DEF DeleteUser, TypeOK, cache
<1>28. ASSUME NEW n \in Namespaces, ResyncNamespace(n) PROVE Good'
  BY <1>28, <1>b, <1>c DEF ResyncNamespace, cluster, cache
<1>29. ASSUME NEW n \in Namespaces, NEW l \in Label \union {Absent}, Relabel(n, l) PROVE Good'
  BY <1>29, <1>b, <1>c DEF Relabel, cache
<1>30. ASSUME NEW q \in Projects, NEW object \in Edits, EditAppProject(q, object) PROVE Good'
  BY <1>30, <1>b, <1>c DEF EditAppProject, Write, TypeOK, cluster, cache
<1>31. ASSUME Restart PROVE Good'
  BY <1>31, <1>b, <1>c DEF Restart, NsIdle, AuIdle, cluster
<1>32. ASSUME UNCHANGED vars PROVE Good'
  BY <1>32, <1>b, <1>c DEF vars, cluster, cache
<1>33. ~NsUpdateFails
  BY <1>a DEF NsUpdateFails
<1> QED
  BY <1>1, <1>2, <1>3, <1>4, <1>5, <1>6, <1>7, <1>8, <1>9, <1>10, <1>11, <1>12, <1>13, <1>14, <1>15, <1>16, <1>17, <1>18, <1>19, <1>20, <1>21, <1>22, <1>23, <1>24, <1>25, <1>26, <1>27, <1>28, <1>29, <1>30, <1>31, <1>32, <1>33, <1>34, <1>35 DEF Next, NsStep, AuStep

\* As long as no Update of the Namespace controller has failed, an AppProject that
\* is not what the cache and the code say is always on somebody's list
THEOREM NothingForgotten == Spec => [](nsFaults = 0 => InSyncOrPending)
<1>1. Init => AllWaiting /\ TakingOver /\ SyncInv
  BY AbsentAssumption DEF Init, AllWaiting, TakingOver, SyncInv, Lists, EmptyUntilLoaded,
     RolesInSync, DestInSync, ReadInSync, RefusalHarmless, Attended, NsIdle, AuIdle, Exists
<1>2. TypeOK /\ Versions /\ SyncInv => (nsFaults = 0 => InSyncOrPending)
  BY AbsentAssumption DEF SyncInv, InSyncOrPending, InSync, Pending, RolesInSync, DestInSync,
     Attended, Listed
<1> QED
  BY <1>1, <1>2, SyncStep, WaitingStep, TakingOverStep, TypeCorrect, PTL DEF Spec

-----------------------------------------------------------------------------
\* Existence and roles depend on the ArgocdUser controller only.  What it leaves in
\* order it has seen in order, what it writes is an event to come, and what fails or
\* is refused is queued again; an Update of the other controller keeps the roles.
LEMMA RolesStep == TypeOK /\ Versions /\ RolesOrPending /\ [Next]_vars => RolesOrPending'
<1> SUFFICES ASSUME TypeOK, Versions, RolesOrPending, [Next]_vars,
                    NEW p \in Projects, user'[p] # "none"
             PROVE  RolesInSync(p)'
  BY DEF RolesOrPending, RolesInSync, Attended
<1> USE DEF RolesInSync, Attended
<1>0. user[p] # "none" => RolesInSync(p)
  BY DEF RolesOrPending
\* Steps of others leave p as it is and attended as it was, or write it
<1>1. ASSUME UNCHANGED <<user, appProj, fresh, auQueue, au>> PROVE RolesInSync(p)'
  BY <1>0, <1>1
<1>2. ASSUME NEW q \in Projects, NEW object, Write(q, object),
             UNCHANGED <<user, auQueue, au>>
      PROVE  RolesInSync(p)'
  BY <1>0, <1>2 DEF Write, TypeOK
<1>3. CASE NsUpdate
  BY <1>2, <1>3 DEF NsUpdate, NsWrite, TypeOK, cluster
<1>4. CASE NsUpdateFails
  BY <1>0, <1>2, <1>4 DEF NsUpdateFails, NsWrite, Release, TypeOK, cluster
<1>5. ASSUME NEW q \in Projects, NsGet(q) PROVE RolesInSync(p)'
  BY <1>0, <1>5 DEF NsGet, Hold, TypeOK, cluster
<1>6. ASSUME NEW q \in Projects, NEW object \in Edits, EditAppProject(q, object)
      PROVE  RolesInSync(p)'
  BY <1>2, <1>6 DEF EditAppProject, cluster
\* The reconcile of p itself
<1>7. CASE AuGetNamespaces \/ AuGetSources \/ AuGetNotFound \/ AuDeleteSkips
  BY <1>0, <1>7 DEF AuGetNamespaces, AuGetSources, AuGetNotFound, AuDeleteSkips, TypeOK, cluster
<1>8. CASE AuGet
  BY <1>0, <1>8 DEF AuGet, Hold, TypeOK, cluster
<1>9. CASE AuDelete
  BY <1>0, <1>9 DEF AuDelete, AuErase, Write, TypeOK, cluster
<1>10. CASE AuSkip
  <2>1. /\ au'.name = Absent
        /\ UNCHANGED <<user, appProj, seen, fresh, auQueue>>
    BY <1>10 DEF AuSkip, AuEnds, AuIdle, cluster
  <2>2. CASE au.name = p
    <3>1. seen[p] # Absent /\ seen[p].roles = "declared"
      BY <1>10, <2>2, AbsentAssumption DEF AuSkip, Wanted, TypeOK, AppProject
    <3> QED
      BY <1>0, <2>1, <3>1 DEF Versions
  <2>3. CASE au.name # p
    BY <1>0, <2>1, <2>3
  <2> QED
    BY <2>2, <2>3
<1>11. CASE AuUpdateOrCreate
  BY <1>0, <1>11 DEF AuUpdateOrCreate, AuWrite, Write, AuEnds, AuIdle, TypeOK, cluster
<1>12. CASE AuRefused
  BY <1>0, <1>12 DEF AuRefused, AuEnds, AuIdle, TypeOK, cluster
<1>13. CASE AuFails
  BY <1>0, <1>13 DEF AuFails, AuWrite, AuErase, Write, Release, AuEnds, AuIdle, TypeOK, cluster
<1>14. CASE AuRemoveFinalizer
  BY <1>0, <1>14 DEF AuRemoveFinalizer, AuEnds, AuIdle, TypeOK
\* A name that leaves the queue is taken up, unless its ArgocdUser is gone
<1>15. ASSUME NEW q \in Projects, AuStartGone(q) \/ AuStartDeleting(q) \/ AuStart(q)
       PROVE  RolesInSync(p)'
  <2>1. CASE AuStartGone(q)
    BY <1>0, <1>15, <2>1 DEF AuStartGone, TypeOK, cluster
  <2>2. CASE AuStartDeleting(q) \/ AuStart(q)
    <3>1. /\ au'.name = q /\ au.name = Absent /\ UNCHANGED <<appProj, fresh>>
          /\ user'[p] = user[p] \/ p = q
          /\ p \in auQueue => p \in auQueue' \/ p = q
      <4>1. au = AuIdle /\ au'.name = q /\ UNCHANGED <<appProj, fresh>>
        BY <2>2 DEF AuStartDeleting, AuStart, AuIdle, TypeOK
      <4>2. user' = user \/ user' = [user EXCEPT ![q] = "live"]
        BY <2>2 DEF AuStartDeleting, AuStart, cluster
      <4>3. auQueue' = auQueue \/ auQueue' = auQueue \ {q}
        BY <2>2 DEF AuStartDeleting, AuStart
      <4> QED
        BY <4>1, <4>2, <4>3 DEF AuIdle, TypeOK
    <3> QED
      BY <1>0, <3>1, AbsentAssumption
  <2> QED
    BY <1>15, <2>1, <2>2
<1>16. ASSUME NEW q \in Projects,
              Deliver(q) \/ ResyncUser(q) \/ CreateUser(q) \/ DeleteUser(q)
       PROVE  RolesInSync(p)'
  BY <1>0, <1>16 DEF Deliver, ResyncUser, CreateUser, DeleteUser, TypeOK, cluster
<1>17. CASE Restart
  BY <1>0, <1>17 DEF Restart, cluster
<1> QED
  BY <1>1, <1>3, <1>4, <1>5, <1>6, <1>7, <1>8, <1>9, <1>10, <1>11, <1>12, <1>13, <1>14, <1>15,
     <1>16, <1>17
  DEF Next, NsStep, AuStep, vars, cluster, NsGone, NsRead, NsTrust, NsMove, NsConflict, NsFinish,
      NsSkip, NsStart, NsInitFails, ResyncNamespace, Relabel

\* However many calls fail, an AppProject that is missing, or whose roles are not the
\* declared ones, has somebody about to look at it
THEOREM RolesNotForgotten == Spec => []RolesOrPending
<1>1. Init => RolesOrPending
  BY DEF Init, RolesOrPending
<1> QED
  BY <1>1, RolesStep, TypeCorrect, PTL DEF Spec

-----------------------------------------------------------------------------
\* A worker reconciles only ArgocdUsers that carry the finalizer
Finalized == au.pc # "idle" => user[au.name] \in {"live", "deleting"}

LEMMA FinalizedStep == TypeOK /\ Finalized /\ [Next]_vars => Finalized'
<1> SUFFICES ASSUME TypeOK, Finalized, [Next]_vars PROVE Finalized'
  OBVIOUS
<1> USE DEF Finalized, AuIdle
<1>1. CASE UNCHANGED <<user, au>>
  BY <1>1
<1>2. ASSUME UNCHANGED user, au'.name = au.name, au.pc # "idle" PROVE Finalized'
  BY <1>2
<1>3. ASSUME au' = AuIdle PROVE Finalized'
  BY <1>3
<1>4. CASE AuGetNamespaces \/ AuGetSources \/ AuGet \/ AuGetNotFound \/ AuDelete \/ AuDeleteSkips
  BY <1>4, <1>2 DEF AuGetNamespaces, AuGetSources, AuGet, AuGetNotFound, AuDelete, AuErase,
     AuDeleteSkips, TypeOK, cluster
<1>5. CASE AuSkip \/ AuUpdateOrCreate \/ AuRefused \/ AuRemoveFinalizer \/ AuFails \/ Restart
  BY <1>5, <1>3 DEF AuSkip, AuUpdateOrCreate, AuRefused, AuRemoveFinalizer, AuFails, AuEnds, Restart
<1>6. ASSUME NEW p \in Projects, AuStartDeleting(p) \/ AuStart(p) PROVE Finalized'
  <2>1. au'.name = p
    BY <1>6 DEF AuStartDeleting, AuStart
  <2>2. user'[p] \in {"live", "deleting"}
    BY <1>6 DEF AuStartDeleting, AuStart, TypeOK, cluster
  <2> QED
    BY <2>1, <2>2
<1>7. ASSUME NEW p \in Projects, CreateUser(p) \/ DeleteUser(p) PROVE Finalized'
  BY <1>7 DEF CreateUser, DeleteUser, TypeOK
<1> QED
  BY <1>1, <1>4, <1>5, <1>6, <1>7
  DEF Next, NsStep, AuStep, vars, cluster, NsGone, NsRead, NsTrust, NsMove, NsUpdate, NsConflict, NsFinish,
      NsSkip, NsGet, NsUpdateFails, NsStart, NsInitFails, AuStartGone, Deliver, ResyncUser,
      ResyncNamespace, Relabel, EditAppProject

\* No step of the operator but a Create makes an AppProject exist
LEMMA OnlyCreate ==
    ASSUME TypeOK, Versions, [Next]_vars, NEW p \in Projects,
           appProj[p] = Absent, appProj'[p] # Absent, changes' = changes
    PROVE  au.name = p /\ au.pc # "idle"
<1>1. appProj' # appProj
  OBVIOUS
<1>2. ASSUME NsWrite, ns.pc = "update" PROVE FALSE
  <2>1. ns.target = p
    BY <1>2 DEF NsWrite, Write, TypeOK
  <2> QED
    BY <1>2, <2>1 DEF NsWrite, Versions
<1>3. ASSUME NEW q \in Projects, NEW object, EditAppProject(q, object) PROVE FALSE
  BY <1>3 DEF EditAppProject, Change, TypeOK
<1>4. ASSUME AuWrite \/ AuErase PROVE au.name = p /\ au.pc # "idle"
  <2>1. PICK object : Write(au.name, object)
    BY <1>4, <1>1 DEF AuWrite, AuErase
  <2>2. au.pc # "idle"
    BY <1>4 DEF AuWrite, AuErase
  <2> QED
    BY <2>1, <2>2 DEF Write, TypeOK
<1> QED
  BY <1>1, <1>2, <1>3, <1>4, BoundsAssumption
  DEF Next, NsStep, AuStep, vars, NsGone, NsRead, NsTrust, NsMove, NsUpdate, NsConflict, NsFinish,
      NsSkip, NsGet, NsUpdateFails, NsStart, NsInitFails, AuGetNamespaces, AuGetSources, AuSkip,
      AuGet, AuGetNotFound, AuUpdateOrCreate, AuRefused, AuDelete, AuDeleteSkips,
      AuRemoveFinalizer, AuFails, AuStartGone, AuStartDeleting, AuStart, Deliver, ResyncUser,
      CreateUser, DeleteUser, ResyncNamespace, Relabel, Restart

\* The operator creates an AppProject only under the finalizer of its ArgocdUser
THEOREM CreationIsFinalized == Spec => CreatedUnderFinalizer
<1>1. Init => Finalized
  BY DEF Init, Finalized, AuIdle
<1>2. TypeOK /\ Versions /\ Finalized /\ [Next]_vars =>
        [\A p \in Projects :
            appProj[p] = Absent /\ appProj'[p] # Absent /\ changes' = changes
                => user[p] \in {"live", "deleting"}]_vars
  BY OnlyCreate DEF Finalized
<1> QED
  BY <1>1, <1>2, FinalizedStep, TypeCorrect, PTL DEF Spec, CreatedUnderFinalizer

-----------------------------------------------------------------------------
\* The ArgocdUser controller takes down what belongs to a user being deleted
Cleaning == au.pc \in {"delete", "finalizer"} => user[au.name] = "deleting"

LEMMA CleaningStep == TypeOK /\ Cleaning /\ [Next]_vars => Cleaning'
<1> SUFFICES ASSUME TypeOK, Cleaning, [Next]_vars PROVE Cleaning'
  OBVIOUS
<1> USE DEF Cleaning
<1>1. CASE UNCHANGED <<user, au>>
  BY <1>1
<1>2. ASSUME au'.pc \notin {"delete", "finalizer"} PROVE Cleaning'
  BY <1>2
<1>3. CASE AuGetNamespaces \/ AuGetSources \/ AuGet \/ AuGetNotFound
  BY <1>3, <1>2 DEF AuGetNamespaces, AuGetSources, AuGet, AuGetNotFound, TypeOK
<1>4. CASE AuSkip \/ AuUpdateOrCreate \/ AuRefused \/ AuRemoveFinalizer \/ AuFails \/ Restart
  BY <1>4, <1>2 DEF AuSkip, AuUpdateOrCreate, AuRefused, AuRemoveFinalizer, AuFails, AuEnds,
     AuIdle, Restart
<1>5. CASE AuDelete \/ AuDeleteSkips
  BY <1>5 DEF AuDelete, AuErase, AuDeleteSkips, TypeOK, cluster
<1>6. ASSUME NEW p \in Projects, AuStartDeleting(p) PROVE Cleaning'
  BY <1>6 DEF AuStartDeleting, AuIdle, cluster
<1>7. ASSUME NEW p \in Projects, AuStart(p) PROVE Cleaning'
  BY <1>7 DEF AuStart, AuIdle
<1>8. ASSUME NEW p \in Projects, CreateUser(p) \/ DeleteUser(p) PROVE Cleaning'
  BY <1>8 DEF CreateUser, DeleteUser, TypeOK
<1> QED
  BY <1>1, <1>3, <1>4, <1>5, <1>6, <1>7, <1>8
  DEF Next, NsStep, AuStep, vars, cluster, NsGone, NsRead, NsTrust, NsMove, NsUpdate, NsConflict,
      NsFinish, NsSkip, NsGet, NsUpdateFails, NsStart, NsInitFails, AuStartGone, Deliver,
      ResyncUser, ResyncNamespace, Relabel, EditAppProject

=============================================================================
