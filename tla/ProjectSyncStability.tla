------------------------ MODULE ProjectSyncStability ------------------------
(***************************************************************************)
(* What has arrived stays, for every set of Namespaces and projects and    *)
(* whatever the bounds: the half of Converges that says that nothing is    *)
(* undone.                                                                 *)
(***************************************************************************)
EXTENDS ProjectSyncProofs

\* An AppProject, as far as the labels of n are concerned
Says(object, n, p) ==
    /\ object # Absent
    /\ n \in object.dest <=> p \in labels[n].proj
    /\ p \in labels[n].src => n \in object.src

\* The cache has taken over the labels of n
Taken(n) == projects[n] = labels[n].proj /\ labels[n].src \subseteq sources[n]

\* The worker at n has read its labels as they are
NsAgrees(n) == ns.name = n /\ ns.pc \in {"push", "update"} => ~ns.gone /\ ns.want = labels[n]

\* What the worker at p has read from the cache says the same as the labels
AuAgrees(n, p) ==
    au.name = p =>
        /\ au.pc \in {"sources", "get", "update", "create"} =>
               (n \in au.dest <=> p \in labels[n].proj)
        /\ au.pc \in {"get", "update", "create"} => (p \in labels[n].src => n \in au.src)

\* The parts of Arrived, one by one
LEMMA ArrivedParts ==
    ASSUME NEW n, NEW p
    PROVE  Arrived(n, p) <=> /\ initOnce = "ok" /\ user[p] = "live" /\ Exists(n)
                             /\ Taken(n) /\ NsAgrees(n) /\ AuAgrees(n, p)
                             /\ Says(appProj[p], n, p)
BY DEF Arrived, FollowsLabels, Taken, NsAgrees, AuAgrees, Says

\* As long as the label and the ArgocdUser stay, each part can be looked at by itself
LEMMA ArrivedAgain ==
    ASSUME NEW n, NEW p, Arrived(n, p), UNCHANGED <<initOnce, user[p], labels[n]>>,
           Taken(n)', NsAgrees(n)', AuAgrees(n, p)', Says(appProj[p], n, p)'
    PROVE  Arrived(n, p)'
BY DEF Arrived, FollowsLabels, Taken, NsAgrees, AuAgrees, Says, Exists

\* What the cache says of p, once it has taken over the labels of n
LEMMA CacheSays ==
    ASSUME TypeOK, CacheInverse, NEW n \in Namespaces, NEW p \in Projects, Taken(n), Exists(n)
    PROVE  /\ n \in namespaces[p] <=> p \in labels[n].proj
           /\ p \in labels[n].src => n \in GetSources(p)
BY DEF CacheInverse, Taken, GetSources

\* So the Namespace controller writes what the labels say
LEMMA NsSays ==
    ASSUME TypeOK, Versions, CacheInverse, NEW n \in Namespaces, NEW p \in Projects,
           Taken(n), Exists(n), Says(appProj[p], n, p), UNCHANGED labels,
           ns.pc = "update", NsWrite
    PROVE  Says(appProj[p], n, p)'
<1>1. ns.target \in Projects /\ appProj[ns.target] \in AppProject
  BY DEF TypeOK, Versions, NsWrite
<1>2. CASE ns.target # p
  BY <1>1, <1>2 DEF NsWrite, Write, Says, TypeOK
<1>3. CASE ns.target = p
  <2>1. appProj'[p] = Desired(p, appProj[p])
    BY <1>1, <1>3 DEF NsWrite, Write, TypeOK
  <2>2. /\ Desired(p, appProj[p]).dest = namespaces[p]
        /\ Desired(p, appProj[p]).src = GetSources(p)
        /\ Desired(p, appProj[p]) \in AppProject
    BY <1>1, <1>3 DEF Desired, AppProject, TypeOK, GetSources
  <2> QED
    BY <2>1, <2>2, CacheSays, AbsentAssumption DEF Says
<1> QED
  BY <1>2, <1>3

\* And the ArgocdUser controller what it has read
LEMMA AuSays ==
    ASSUME TypeOK, NEW n \in Namespaces, NEW p \in Projects, AuAgrees(n, p),
           Says(appProj[p], n, p), UNCHANGED labels, AuWrite
    PROVE  Says(appProj[p], n, p)'
<1>1. au.name \in Projects /\ Wanted \in AppProject
  BY DEF AuWrite, TypeOK, Wanted, AppProject
<1>2. CASE au.name # p
  BY <1>1, <1>2 DEF AuWrite, Write, Says, TypeOK
<1>3. CASE au.name = p
  <2>1. au.pc = "update"
    BY <1>3 DEF AuWrite, Says
  <2>2. appProj'[p] = Wanted
    BY <1>1, <1>3 DEF AuWrite, Write, TypeOK
  <2> QED
    BY <1>1, <1>3, <2>1, <2>2, AbsentAssumption DEF Says, Wanted, AuAgrees
<1> QED
  BY <1>2, <1>3

-----------------------------------------------------------------------------
\* The Namespace controller, at n or at another Namespace
LEMMA NsKeepsArrived ==
    ASSUME TypeOK, Versions, CacheInverse, TakingOver,
           NEW n \in Namespaces, NEW p \in Projects, Arrived(n, p),
           NsStep \/ NsUpdateFails \/ \E m \in Namespaces : NsStart(m) \/ NsInitFails(m)
    PROVE  Arrived(n, p)'
<1> USE DEF cluster, cache
<1>0. /\ initOnce = "ok" /\ user[p] = "live" /\ Exists(n) /\ labels[n] \in Label
      /\ Taken(n) /\ NsAgrees(n) /\ AuAgrees(n, p) /\ Says(appProj[p], n, p)
  BY ArrivedParts DEF TypeOK, Exists
\* No step writes labels, ArgocdUsers, or what the other worker has read
<1>1. UNCHANGED <<labels, user, au, initOnce>>
  BY <1>0 DEF NsStep, NsUpdateFails, NsStart, NsInitFails, NsGone, NsRead, NsUpdate, NsConflict,
     NsFinish, NsTrust, NsMove, NsSkip, NsGet
<1>2. AuAgrees(n, p)'
  BY <1>0, <1>1 DEF AuAgrees
<1>3. Taken(n)'
  <2>1. CASE UNCHANGED <<projects, sources>>
    BY <1>0, <1>1, <2>1 DEF Taken
  <2>2. ASSUME NEW q \in Projects, NsTrust(q) \/ NsMove(q) PROVE Taken(n)'
    <3>1. ns.pc = "push" /\ ~ns.gone /\ ns.name \in Namespaces
      BY <2>2 DEF NsTrust, NsMove, TypeOK
    <3>2. CASE ns.name # n
      BY <1>0, <1>1, <2>2, <3>1, <3>2
      DEF Taken, NsTrust, NsMove, LeaveProject, JoinProject, TypeOK
    <3>3. CASE ns.name = n
      <4>1. ns.want = labels[n]
        BY <1>0, <3>1, <3>3 DEF NsAgrees
      <4>2. ToTrust = {} /\ ToLeave = {} /\ ToJoin = {}
        BY <1>0, <3>3, <4>1 DEF Taken, ToTrust, ToLeave, ToJoin
      <4>3. /\ UNCHANGED projects /\ q \notin labels[n].src
            /\ sources' = [sources EXCEPT ![n] = @ \ {q}]
        BY <2>2, <3>3, <4>1, <4>2 DEF NsTrust, NsMove, ToUntrust
      <4> QED
        BY <1>0, <1>1, <4>3 DEF Taken, TypeOK
    <3> QED
      BY <3>2, <3>3
  <2> QED
    BY <1>0, <2>1, <2>2 DEF NsStep, NsUpdateFails, NsStart, NsInitFails, NsGone, NsRead,
       NsUpdate, NsConflict, NsFinish, NsSkip, NsGet
<1>4. NsAgrees(n)'
  <2>1. CASE UNCHANGED ns
    BY <1>0, <1>1, <2>1 DEF NsAgrees
  <2>2. ASSUME ns'.pc \notin {"push", "update"} PROVE NsAgrees(n)'
    BY <2>2 DEF NsAgrees
  <2>3. ASSUME ns.pc \in {"push", "update"}, UNCHANGED <<ns.name, ns.want, ns.gone>>
        PROVE  NsAgrees(n)'
    BY <1>0, <1>1, <2>3 DEF NsAgrees
  <2>4. CASE NsGone
    <3>1. ns'.name = ns.name /\ ns.name # n
      BY <1>0, <2>4, NsIsWorker DEF NsGone, NsWorker
    <3> QED
      BY <3>1 DEF NsAgrees
  <2>5. CASE NsRead
    <3>1. ns'.name = ns.name /\ ns'.want = labels[ns.name] /\ ns'.gone = ns.gone /\ ns.pc = "get"
      BY <2>5, NsIsWorker DEF NsRead, NsWorker
    <3> QED
      BY <1>0, <1>1, <3>1 DEF NsAgrees, TakingOver
  <2>6. ASSUME NEW q \in Projects, NsSkip(q) \/ NsGet(q) PROVE NsAgrees(n)'
    <3>1. ns.pc = "push" /\ UNCHANGED <<ns.name, ns.want, ns.gone>>
      <4>1. CASE NsSkip(q)
        BY <4>1, NsIsWorker DEF NsSkip, NsPopped, NsWorker
      <4>2. CASE NsGet(q)
        BY <4>2, NsIsWorker DEF NsGet, NsPopped, NsWorker
      <4> QED
        BY <2>6, <4>1, <4>2
    <3> QED
      BY <2>3, <3>1
  <2>7. CASE NsUpdate \/ NsConflict \/ NsUpdateFails
    BY <2>3, <2>7, NsIsWorker, UpdateEnds DEF NsUpdate, NsConflict, NsUpdateFails
  <2>8. CASE NsFinish
    BY <2>2, <2>8 DEF NsFinish, NsIdle
  <2>9. ASSUME NEW m \in Namespaces, NsStart(m) PROVE NsAgrees(n)'
    BY <2>2, <2>9 DEF NsStart, NsIdle
  <2> QED
    BY <1>0, <2>1, <2>4, <2>5, <2>6, <2>7, <2>8, <2>9 DEF NsStep, NsTrust, NsMove, NsInitFails
<1>5. Says(appProj[p], n, p)'
  <2>1. CASE UNCHANGED appProj
    BY <1>0, <1>1, <2>1 DEF Says
  <2>2. CASE ns.pc = "update" /\ NsWrite
    BY <1>0, <1>1, <2>2, NsSays
  <2> QED
    BY <2>1, <2>2 DEF NsStep, NsUpdateFails, NsStart, NsInitFails, NsGone, NsRead, NsUpdate,
       NsConflict, NsFinish, NsTrust, NsMove, NsSkip, NsGet
<1> QED
  BY <1>1, <1>2, <1>3, <1>4, <1>5, ArrivedAgain

\* The ArgocdUser controller, at p or at another ArgocdUser.  A live one is not taken down.
LEMMA AuKeepsArrived ==
    ASSUME TypeOK, CacheInverse, Cleaning, NEW n \in Namespaces, NEW p \in Projects,
           Arrived(n, p),
           AuStep \/ AuFails
               \/ \E q \in Projects : AuStartGone(q) \/ AuStartDeleting(q) \/ AuStart(q)
    PROVE  Arrived(n, p)'
<1> USE DEF cluster, cache
<1>0. /\ initOnce = "ok" /\ user[p] = "live" /\ Exists(n) /\ labels[n] \in Label
      /\ Taken(n) /\ NsAgrees(n) /\ AuAgrees(n, p) /\ Says(appProj[p], n, p)
  BY ArrivedParts DEF TypeOK, Exists
<1>1. UNCHANGED <<labels, initOnce, projects, sources, ns>>
  BY DEF AuStep, AuFails, AuStartGone, AuStartDeleting, AuStart, AuGetNamespaces, AuGetSources,
     AuSkip, AuGet, AuGetNotFound, AuUpdateOrCreate, AuRefused, AuDelete, AuDeleteSkips,
     AuRemoveFinalizer
<1>2. Taken(n)' /\ NsAgrees(n)'
  BY <1>0, <1>1 DEF Taken, NsAgrees
<1>3. au.pc \in {"delete", "finalizer"} => au.name # p
  BY <1>0 DEF Cleaning
<1>4. user'[p] = user[p]
  BY <1>0, <1>3
  DEF AuStep, AuFails, AuStartGone, AuStartDeleting, AuStart, AuGetNamespaces, AuGetSources,
      AuSkip, AuGet, AuGetNotFound, AuUpdateOrCreate, AuRefused, AuDelete, AuDeleteSkips,
      AuRemoveFinalizer, TypeOK
<1>5. AuAgrees(n, p)'
  <2>1. ASSUME au'.pc \notin {"sources", "get", "update", "create"} PROVE AuAgrees(n, p)'
    BY <2>1 DEF AuAgrees
  <2>2. CASE AuGetNamespaces
    BY <1>0, <1>1, <2>2, CacheSays DEF AuGetNamespaces, AuAgrees, TypeOK
  <2>3. CASE AuGetSources
    BY <1>0, <1>1, <2>3, CacheSays DEF AuGetSources, AuAgrees, TypeOK
  <2>4. CASE AuGet \/ AuGetNotFound
    BY <1>0, <1>1, <2>4 DEF AuGet, AuGetNotFound, AuAgrees, TypeOK
  <2>5. CASE AuSkip \/ AuUpdateOrCreate \/ AuRefused \/ AuRemoveFinalizer \/ AuFails
    BY <2>1, <2>5 DEF AuSkip, AuUpdateOrCreate, AuRefused, AuRemoveFinalizer, AuFails, AuEnds,
       AuIdle
  <2>6. CASE AuDelete \/ AuDeleteSkips
    BY <2>1, <2>6 DEF AuDelete, AuDeleteSkips, TypeOK
  <2>7. ASSUME NEW q \in Projects, AuStartDeleting(q) \/ AuStart(q) PROVE AuAgrees(n, p)'
    BY <2>1, <2>7 DEF AuStartDeleting, AuStart, AuIdle
  <2>8. CASE UNCHANGED au
    BY <1>0, <1>1, <2>8 DEF AuAgrees
  <2> QED
    BY <2>2, <2>3, <2>4, <2>5, <2>6, <2>7, <2>8 DEF AuStep, AuStartGone
<1>6. Says(appProj[p], n, p)'
  <2>1. CASE UNCHANGED appProj
    BY <1>0, <1>1, <2>1 DEF Says
  <2>2. CASE AuWrite
    BY <1>0, <1>1, <2>2, AuSays
  <2>3. CASE AuErase
    <3>1. appProj'[p] = appProj[p]
      BY <1>3, <2>3 DEF AuErase, Write, TypeOK
    <3> QED
      BY <1>0, <1>1, <3>1 DEF Says
  <2> QED
    BY <2>1, <2>2, <2>3
    DEF AuStep, AuFails, AuStartGone, AuStartDeleting, AuStart, AuGetNamespaces, AuGetSources,
        AuSkip, AuGet, AuGetNotFound, AuUpdateOrCreate, AuRefused, AuDelete, AuDeleteSkips,
        AuRemoveFinalizer
<1> QED
  BY <1>1, <1>2, <1>4, <1>5, <1>6, ArrivedAgain

\* The informers, and people who leave n, p and the AppProject of p alone
LEMMA OthersKeepArrived ==
    ASSUME TypeOK, NEW n \in Namespaces, NEW p \in Projects, Arrived(n, p),
           \/ UNCHANGED vars
           \/ \E q \in Projects : Deliver(q) \/ ResyncUser(q) \/ CreateUser(q) \/ DeleteUser(q)
           \/ \E m \in Namespaces : ResyncNamespace(m)
           \/ \E m \in Namespaces, l \in Label \union {Absent} : Relabel(m, l)
           \/ \E q \in Projects, object \in Edits : EditAppProject(q, object),
           changes' = changes \/ UNCHANGED <<labels[n], user[p], appProj[p]>>
    PROVE  Arrived(n, p)'
<1>1. UNCHANGED <<labels[n], user[p], appProj[p], projects, sources, initOnce, ns, au>>
  <2>1. CASE UNCHANGED vars
    BY <2>1 DEF vars, cluster, cache
  <2>2. ASSUME NEW q \in Projects, Deliver(q) \/ ResyncUser(q) \/ CreateUser(q) \/ DeleteUser(q)
        PROVE  UNCHANGED <<labels[n], user[p], appProj[p], projects, sources, initOnce, ns, au>>
    BY <2>2 DEF Deliver, ResyncUser, CreateUser, DeleteUser, Change, cluster, cache, TypeOK
  <2>3. ASSUME NEW m \in Namespaces, ResyncNamespace(m)
        PROVE  UNCHANGED <<labels[n], user[p], appProj[p], projects, sources, initOnce, ns, au>>
    BY <2>3 DEF ResyncNamespace, cluster, cache
  <2>4. ASSUME NEW m \in Namespaces, NEW l \in Label \union {Absent}, Relabel(m, l)
        PROVE  UNCHANGED <<labels[n], user[p], appProj[p], projects, sources, initOnce, ns, au>>
    BY <2>4 DEF Relabel, Change, cache, TypeOK
  <2>5. ASSUME NEW q \in Projects, NEW object \in Edits, EditAppProject(q, object)
        PROVE  UNCHANGED <<labels[n], user[p], appProj[p], projects, sources, initOnce, ns, au>>
    BY <2>5 DEF EditAppProject, Change, cluster, cache, TypeOK
  <2> QED
    BY <2>1, <2>2, <2>3, <2>4, <2>5
<1> QED
  BY <1>1 DEF Arrived, FollowsLabels, Exists

\* Once the labels of a Namespace have arrived in an AppProject, no step of the operator
\* but a restart undoes it
THEOREM WhatArrivedStays == Spec => ArrivedStays
<1> DEFINE Stays == \A n \in Namespaces, p \in Projects :
        Arrived(n, p) /\ restarts' = restarts /\
        (changes' = changes \/ UNCHANGED <<labels[n], user[p], appProj[p]>>)
            => Arrived(n, p)'
<1>1. Init => Cleaning /\ TakingOver
  BY DEF Init, Cleaning, TakingOver, NsIdle, AuIdle
<1>2. TypeOK /\ Versions /\ CacheInverse /\ TakingOver /\ Cleaning /\ [Next]_vars => [Stays]_vars
  <2> SUFFICES ASSUME TypeOK, Versions, CacheInverse, TakingOver, Cleaning, [Next]_vars,
                      NEW n \in Namespaces, NEW p \in Projects, Arrived(n, p),
                      restarts' = restarts,
                      changes' = changes \/ UNCHANGED <<labels[n], user[p], appProj[p]>>
               PROVE  Arrived(n, p)'
    OBVIOUS
  <2>1. ~Restart
    BY DEF Restart, TypeOK
  <2> QED
    BY <2>1, NsKeepsArrived, AuKeepsArrived, OthersKeepArrived DEF Next
<1> QED
  BY <1>1, <1>2, CleaningStep, TakingOverStep, TypeCorrect, CacheStaysInverse, PTL DEF Spec, ArrivedStays

=============================================================================
