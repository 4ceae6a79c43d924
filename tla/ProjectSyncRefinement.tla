------------------------ MODULE ProjectSyncRefinement ------------------------
(***************************************************************************)
(* The two controllers implement Membership, for every set of Namespaces   *)
(* and projects and whatever the bounds.                                   *)
(***************************************************************************)
EXTENDS ProjectSyncProofs

\* What the steps are seen through: each mapped variable changes with its own
\* variables only
LEMMA Unmoved ==
    /\ UNCHANGED labels => UNCHANGED Asked
    /\ UNCHANGED user => UNCHANGED Leaving
    /\ UNCHANGED appProj => UNCHANGED Dest(appProj)
    /\ UNCHANGED seen => UNCHANGED Dest(seen)
    /\ UNCHANGED <<ns, projects>> => UNCHANGED Heard
    /\ UNCHANGED au => UNCHANGED Offer
BY DEF Asked, Leaving, Dest, Heard, Offer, Exists

\* An AppProject that exists has destinations
LEMMA DestExists ==
    ASSUME NEW objects \in [Projects -> AppProject \union {Absent}], NEW p \in Projects
    PROVE  /\ Dest(objects)[p] = Absent <=> objects[p] = Absent
           /\ objects[p] # Absent => Dest(objects)[p] = objects[p].dest
BY AbsentAssumption DEF Dest, AppProject

\* A write of p is a write of its destinations
LEMMA DestWritten ==
    ASSUME TypeOK, NEW p \in Projects, NEW object \in AppProject, Write(p, object)
    PROVE  Dest(appProj)' = [Dest(appProj) EXCEPT ![p] = object.dest]
<1>1. object # Absent
  BY AbsentAssumption
<1>2. \A q \in Projects : appProj'[q] = IF q = p THEN object ELSE appProj[q]
  BY DEF TypeOK, Write
<1> QED
  BY <1>1, <1>2 DEF Dest

\* While no label is being taken over, all that was heard is recorded
LEMMA HeardIsRecorded ==
    ASSUME TypeOK, CacheInverse, ns.pc \notin {"push", "update"} \/ Cached
    PROVE  /\ Heard = projects
           /\ \A n \in Namespaces : Heard[n] = M!Recorded(n)
<1>1. ASSUME NEW n \in Namespaces PROVE Heard[n] = projects[n]
  <2>1. CASE ns.name = n /\ ns.pc \in {"push", "update"} /\ ~ns.gone
    <3>1. ns.want.proj = projects[n]
      BY <2>1 DEF Cached, ToLeave, ToJoin, TypeOK, Label
    <3> QED
      BY <2>1, <3>1 DEF Heard
  <2>2. CASE ~(ns.name = n /\ ns.pc \in {"push", "update"} /\ ~ns.gone)
    BY <2>2 DEF Heard
  <2> QED
    BY <2>1, <2>2
<1>2. Heard = projects
  BY <1>1 DEF Heard, TypeOK
<1>3. ASSUME NEW n \in Namespaces PROVE projects[n] = M!Recorded(n)
  BY DEF M!Recorded, CacheInverse, TypeOK
<1> QED
  BY <1>2, <1>3

-----------------------------------------------------------------------------
\* The Namespace controller: it hears a label, takes it over, and publishes
LEMMA NsRefines ==
    ASSUME TypeOK, Versions, CacheInverse, EmptyUntilLoaded, TakingOver,
           NsStep \/ NsUpdateFails \/ \E n \in Namespaces : NsStart(n) \/ NsInitFails(n)
    PROVE  M!Next \/ UNCHANGED M!vars
<1> USE DEF cluster, cache, bounds
<1>1. ASSUME NEW n \in Namespaces, NsStart(n) PROVE M!Next \/ UNCHANGED M!vars
  <2>1. /\ UNCHANGED <<Asked, Leaving, Dest(appProj), Dest(seen), Offer, changes>>
    BY <1>1, Unmoved DEF NsStart
  <2>2. ns.pc = "idle" /\ ns'.pc = "get" /\ Heard = projects
    BY <1>1 DEF NsStart, NsIdle, Heard, TypeOK
  <2>5. ASSUME projects' \in [Namespaces -> SUBSET Projects] PROVE Heard' = projects'
    BY <2>2, <2>5 DEF Heard
  <2>3. CASE UNCHANGED cache
    BY <2>1, <2>2, <2>3, <2>5 DEF M!vars, TypeOK
  <2>4. CASE initOnce = "no" /\ LoadCache
    <3>1. \A p \in Projects : p \in Loaded <=> p \in Loaded /\ Dest(seen)[p] # Absent
      BY DestExists DEF TypeOK, Loaded
    <3>2. \A p \in Loaded : Dest(seen)[p] = seen[p].dest
      BY DestExists DEF TypeOK, Loaded
    <3>4. /\ Loaded \subseteq Projects /\ \A p \in Projects : namespaces[p] = {}
          /\ \A p \in Loaded : Dest(seen)[p] # Absent
      BY <2>4, <3>1 DEF Loaded, EmptyUntilLoaded
    <3>5. namespaces' = [p \in Projects |-> IF p \in Loaded /\ Dest(seen)[p] # Absent
                                            THEN Dest(seen)[p] ELSE {}]
      BY <2>4, <3>2, <3>4 DEF LoadCache
    <3>6. Heard' = [m \in Namespaces |-> {p \in Loaded : Dest(seen)[p] # Absent /\ m \in Dest(seen)[p]}]
      BY <2>4, <2>5, <3>2, <3>4 DEF LoadCache
    <3>3. M!Recall(Loaded)
      BY <2>1, <3>4, <3>5, <3>6 DEF M!Recall
    <3> QED
      BY <3>3 DEF M!Next, M!Operate, Loaded
  <2> QED
    BY <1>1, <2>3, <2>4 DEF NsStart
<1>2. CASE NsGone
  BY <1>2, Unmoved DEF NsGone, Heard, TypeOK, M!vars
<1>3. CASE NsRead
  <2> DEFINE n == ns.name
  <2>1. /\ ns.pc = "get" /\ ns'.pc = "push" /\ ns'.name = n /\ ~ns'.gone /\ n \in Namespaces
        /\ ns'.want = labels[n] /\ Exists(n)
        /\ UNCHANGED projects
    BY <1>3 DEF NsRead, TypeOK, TakingOver
  <2>2. UNCHANGED <<Asked, Leaving, Dest(appProj), Dest(seen), Offer, namespaces, changes>>
    BY <1>3, Unmoved DEF NsRead
  <2>3. Heard = projects /\ \A m \in Namespaces : Heard[m] = M!Recorded(m)
    BY <2>1, HeardIsRecorded
  <2>4. Asked[n] = labels[n].proj /\ Asked[n] # Absent
    <3>1. labels[n].proj \in SUBSET Projects
      BY <2>1 DEF TypeOK, Exists, Label
    <3> QED
      BY <2>1, <3>1, AbsentAssumption DEF Asked
  <2>5. Heard' = [Heard EXCEPT ![n] = Asked[n]]
    BY <2>1, <2>3, <2>4 DEF Heard, TypeOK
  <2>6. CASE Asked[n] = Heard[n]
    BY <2>2, <2>3, <2>5, <2>6 DEF M!vars, TypeOK
  <2>7. CASE Asked[n] # Heard[n]
    <3>1. M!Hear(n)
      BY <2>2, <2>3, <2>4, <2>5, <2>7 DEF M!Hear
    <3> QED
      BY <2>1, <3>1 DEF M!Next, M!Operate
  <2> QED
    BY <2>6, <2>7
<1>4. ASSUME NEW p \in Projects, NsTrust(p) PROVE M!Next \/ UNCHANGED M!vars
  BY <1>4, Unmoved DEF NsTrust, M!vars
<1>5. ASSUME NEW p \in Projects, NsMove(p) PROVE M!Next \/ UNCHANGED M!vars
  <2> DEFINE n == ns.name
  <2>1. /\ ns.pc = "push" /\ ~ns.gone /\ n \in Namespaces /\ ns.want.proj \subseteq Projects
        /\ UNCHANGED ns
    BY <1>5 DEF NsMove, TypeOK, Label
  <2>2. UNCHANGED <<Asked, Leaving, Dest(appProj), Dest(seen), Offer, changes>>
    BY <1>5, Unmoved DEF NsMove
  <2>3. Heard[n] = ns.want.proj /\ M!Recorded(n) = projects[n]
    BY <2>1 DEF Heard, M!Recorded, CacheInverse, TypeOK
  <2>4. UNCHANGED Heard
    <3>1. \A m \in Namespaces : m # n => projects'[m] = projects[m]
      BY <1>5 DEF NsMove, LeaveProject, JoinProject, TypeOK
    <3> QED
      BY <2>1, <3>1 DEF Heard
  <2>5. CASE p \in ToLeave /\ LeaveProject(n, p)
    <3>1. M!Leave(n, p)
      BY <2>1, <2>2, <2>3, <2>4, <2>5 DEF M!Leave, LeaveProject, ToLeave, CacheInverse
    <3> QED
      BY <2>1, <3>1 DEF M!Next, M!Operate
  <2>6. CASE p \in ToJoin /\ ToLeave = {} /\ JoinProject(n, p)
    <3>1. M!Join(n, p)
      BY <2>1, <2>2, <2>3, <2>4, <2>6 DEF M!Join, JoinProject, ToLeave, ToJoin, CacheInverse
    <3> QED
      BY <2>1, <3>1 DEF M!Next, M!Operate
  <2> QED
    BY <1>5, <2>5, <2>6 DEF NsMove
<1>6. ASSUME NEW p \in Projects, NsSkip(p) \/ NsGet(p) PROVE M!Next \/ UNCHANGED M!vars
  <2>1. UNCHANGED <<Asked, Leaving, Dest(appProj), Dest(seen), namespaces, Offer, changes>>
    BY <1>6, Unmoved DEF NsSkip, NsGet
  <2>2. /\ ns.pc = "push" /\ ns'.pc \in {"push", "update"}
        /\ UNCHANGED <<projects, ns.name, ns.want, ns.gone>>
    BY <1>6 DEF NsSkip, NsGet, NsPopped, TypeOK
  <2>3. UNCHANGED Heard
    BY <2>2 DEF Heard
  <2> QED
    BY <2>1, <2>3 DEF M!vars
<1>7. CASE NsUpdate \/ NsConflict \/ NsUpdateFails
  <2>1. ns.pc = "update" /\ ns.target \in Projects /\ Cached
    BY <1>7 DEF NsUpdate, NsConflict, NsUpdateFails, TakingOver, TypeOK
  <2>2. UNCHANGED <<Asked, Leaving, Dest(seen), namespaces, projects, Offer, changes>>
    BY <1>7, Unmoved DEF NsUpdate, NsConflict, NsUpdateFails
  <2>3. \/ ns' = [ns EXCEPT !.pc = "push", !.target = Absent]
        \/ ns' = [ns EXCEPT !.pc = "push", !.target = Absent, !.failed = TRUE]
    BY <1>7 DEF NsUpdate, NsConflict, NsUpdateFails
  <2>4. ns'.pc = "push" /\ UNCHANGED <<ns.name, ns.want, ns.gone>>
    BY <2>3 DEF TypeOK
  <2>5. UNCHANGED Heard
    BY <2>1, <2>2, <2>4 DEF Heard
  <2>6. CASE UNCHANGED appProj
    BY <2>2, <2>5, <2>6, Unmoved DEF M!vars
  <2>7. CASE NsWrite
    <3> DEFINE p == ns.target
    <3>1. appProj[p] \in AppProject /\ appProj[p] # Absent
      BY <2>1, <2>7, AbsentAssumption DEF NsWrite, Versions, TypeOK
    <3>2. /\ Desired(p, appProj[p]) \in AppProject
          /\ Desired(p, appProj[p]).dest = namespaces[p]
      BY <2>1, <3>1 DEF Desired, GetSources, AppProject, TypeOK
    <3>3. Dest(appProj)' = [Dest(appProj) EXCEPT ![p] = namespaces[p]]
      BY <2>1, <2>7, <3>2, DestWritten DEF NsWrite
    <3>4. Dest(appProj)[p] # Absent
      BY <2>1, <3>1, DestExists DEF TypeOK
    <3>5. M!Publish(p)
      BY <2>1, <2>2, <2>5, <3>3, <3>4, HeardIsRecorded DEF M!Publish
    <3> QED
      BY <2>1, <3>5 DEF M!Next, M!Operate
  <2> QED
    BY <1>7, <2>6, <2>7 DEF NsUpdate, NsConflict, NsUpdateFails
<1>8. CASE NsFinish
  <2>1. UNCHANGED <<Asked, Leaving, Dest(appProj), Dest(seen), namespaces, projects, Offer, changes>>
    BY <1>8, Unmoved DEF NsFinish
  <2>2. Heard = projects
    BY <1>8, HeardIsRecorded DEF NsFinish
  <2>3. Heard' = projects'
    BY <1>8 DEF NsFinish, NsIdle, Heard, TypeOK
  <2> QED
    BY <2>1, <2>2, <2>3 DEF M!vars
<1>9. ASSUME NEW n \in Namespaces, NsInitFails(n) PROVE M!Next \/ UNCHANGED M!vars
  BY <1>9, Unmoved DEF NsInitFails, M!vars
<1> QED
  BY <1>1, <1>2, <1>3, <1>4, <1>5, <1>6, <1>7, <1>8, <1>9 DEF NsStep

-----------------------------------------------------------------------------
\* The ArgocdUser controller: it looks the record up, publishes what it found or
\* drops it, and takes down what is to go
LEMMA AuRefines ==
    ASSUME TypeOK, Cleaning,
           AuStep \/ AuFails
             \/ \E p \in Projects : AuStartGone(p) \/ AuStartDeleting(p) \/ AuStart(p)
    PROVE  M!Next \/ UNCHANGED M!vars
<1> USE DEF cluster, cache, bounds
<1>1. UNCHANGED <<Asked, Dest(seen), Heard, namespaces, changes>>
  BY Unmoved
  DEF AuStep, AuGetNamespaces, AuGetSources, AuSkip, AuGet, AuGetNotFound, AuUpdateOrCreate,
      AuRefused, AuDelete, AuDeleteSkips, AuRemoveFinalizer, AuFails, AuStartGone,
      AuStartDeleting, AuStart
\* What was looked up is on offer as long as it is worked on
<1>2. ASSUME UNCHANGED <<user, appProj>>, UNCHANGED Offer PROVE UNCHANGED M!vars
  BY <1>1, <1>2, Unmoved DEF M!vars
<1>3. ASSUME UNCHANGED <<user, appProj>>, Offer' = Absent PROVE M!Next \/ UNCHANGED M!vars
  <2>1. UNCHANGED <<Leaving, Dest(appProj)>>
    BY <1>3, Unmoved
  <2>2. CASE Offer = Absent
    BY <1>3, <1>2, <2>2
  <2>3. CASE Offer # Absent
    <3>1. M!DropOffer
      BY <1>1, <1>3, <2>1, <2>3 DEF M!DropOffer
    <3> QED
      BY <3>1 DEF M!Next, M!Operate
  <2> QED
    BY <2>2, <2>3
<1>4. ASSUME UNCHANGED user, AuWrite, Offer' = Absent PROVE M!Next
  <2>1. /\ au.pc \in {"update", "create"} /\ au.name \in Projects
        /\ Wanted \in AppProject /\ Wanted.dest = au.dest
    BY <1>4 DEF AuWrite, Wanted, AppProject, AuIdle, TypeOK
  <2>2. /\ Offer = [project |-> au.name, members |-> au.dest]
        /\ Offer # Absent
    BY <2>1, AbsentAssumption DEF Offer, TypeOK
  <2>3. Dest(appProj)' = [Dest(appProj) EXCEPT ![Offer.project] = Offer.members]
    BY <1>4, <2>1, <2>2, DestWritten DEF AuWrite
  <2>4. M!PublishOffer
    BY <1>1, <1>4, <2>2, <2>3, Unmoved DEF M!PublishOffer
  <2> QED
    BY <2>4 DEF M!Next, M!Operate
<1>5. ASSUME UNCHANGED user, AuErase, Offer' = Absent PROVE M!Next \/ UNCHANGED M!vars
  <2>1. au.pc = "delete" /\ au.name \in Projects /\ au.name \in Leaving /\ Offer = Absent
    BY <1>5 DEF AuErase, Cleaning, Leaving, Offer, TypeOK
  <2>2. CASE UNCHANGED appProj
    BY <1>5, <1>2, <2>1, <2>2
  <2>3. CASE Write(au.name, Absent)
    <3>1. Dest(appProj)' = [Dest(appProj) EXCEPT ![au.name] = Absent]
      BY <2>1, <2>3 DEF Write, Dest, TypeOK
    <3>2. M!TakeDown(au.name)
      BY <1>1, <1>5, <2>1, <3>1, Unmoved DEF M!TakeDown
    <3> QED
      BY <2>1, <3>2 DEF M!Next, M!Operate
  <2> QED
    BY <1>5, <2>2, <2>3 DEF AuErase
<1>6. CASE AuGetNamespaces
  <2>1. /\ Offer = Absent /\ au.name \in Projects
        /\ Offer' = [project |-> au.name, members |-> namespaces[au.name]]
    BY <1>6 DEF AuGetNamespaces, Offer, AuIdle, TypeOK
  <2>2. M!LookUp(au.name)
    BY <1>1, <1>6, <2>1, Unmoved DEF M!LookUp, AuGetNamespaces
  <2> QED
    BY <2>1, <2>2 DEF M!Next, M!Operate
<1>7. CASE AuGetSources \/ AuGet \/ AuGetNotFound
  BY <1>7, <1>2 DEF AuGetSources, AuGet, AuGetNotFound, Offer, TypeOK
<1>8. CASE AuSkip \/ AuRefused
  BY <1>8, <1>3 DEF AuSkip, AuRefused, AuEnds, AuIdle, Offer
<1>9. CASE AuUpdateOrCreate
  BY <1>9, <1>4 DEF AuUpdateOrCreate, AuEnds, AuIdle, Offer
<1>10. CASE AuDelete
  BY <1>10, <1>5 DEF AuDelete, Offer, TypeOK
<1>11. CASE AuDeleteSkips
  BY <1>11, <1>3 DEF AuDeleteSkips, Offer, TypeOK
<1>12. CASE AuRemoveFinalizer
  <2>1. /\ Offer = Absent /\ Offer' = Absent /\ au.name \in Leaving /\ au.name \in Projects
        /\ Leaving' = Leaving \ {au.name}
    BY <1>12 DEF AuRemoveFinalizer, AuEnds, AuIdle, Offer, Leaving, Cleaning, TypeOK
  <2>2. M!LetGo(au.name)
    BY <1>1, <1>12, <2>1, Unmoved DEF M!LetGo, AuRemoveFinalizer
  <2> QED
    BY <2>1, <2>2 DEF M!Next, M!Operate
<1>13. CASE AuFails
  <2>1. UNCHANGED user /\ Offer' = Absent
    BY <1>13 DEF AuFails, AuEnds, AuIdle, Offer
  <2> QED
    BY <1>13, <1>3, <1>4, <1>5, <2>1 DEF AuFails
<1>14. ASSUME NEW p \in Projects, AuStartGone(p) \/ AuStartDeleting(p)
       PROVE  M!Next \/ UNCHANGED M!vars
  BY <1>14, <1>2 DEF AuStartGone, AuStartDeleting, AuIdle, Offer, TypeOK
<1>15. ASSUME NEW p \in Projects, AuStart(p) PROVE M!Next \/ UNCHANGED M!vars
  <2>1. UNCHANGED appProj /\ UNCHANGED Offer /\ UNCHANGED Leaving
    BY <1>15 DEF AuStart, AuIdle, Offer, Leaving, TypeOK
  <2> QED
    BY <1>1, <2>1, Unmoved DEF M!vars
<1> QED
  BY <1>6, <1>7, <1>8, <1>9, <1>10, <1>11, <1>12, <1>13, <1>14, <1>15 DEF AuStep

-----------------------------------------------------------------------------
\* The informers, the people, and the death of the operator
LEMMA OthersRefine ==
    ASSUME TypeOK, TypeOK',
           \/ \E p \in Projects : Deliver(p) \/ ResyncUser(p) \/ CreateUser(p) \/ DeleteUser(p)
           \/ \E n \in Namespaces : ResyncNamespace(n)
           \/ \E n \in Namespaces, l \in Label \union {Absent} : Relabel(n, l)
           \/ \E p \in Projects, object \in Edits : EditAppProject(p, object)
           \/ Restart
    PROVE  M!Next \/ UNCHANGED M!vars
<1> USE DEF cluster, cache, bounds
<1>1. ASSUME NEW p \in Projects, Deliver(p) PROVE M!Next
  <2>1. Dest(seen)' = [Dest(seen) EXCEPT ![p] = Dest(appProj)[p]]
    BY <1>1 DEF Deliver, Dest, TypeOK
  <2>2. M!Show(p)
    BY <1>1, <2>1, Unmoved DEF M!Show, Deliver
  <2> QED
    BY <2>2 DEF M!Next, M!Operate
<1>2. ASSUME NEW p \in Projects, ResyncUser(p) PROVE UNCHANGED M!vars
  BY <1>2, Unmoved DEF ResyncUser, M!vars
<1>3. ASSUME NEW n \in Namespaces, ResyncNamespace(n) PROVE UNCHANGED M!vars
  BY <1>3, Unmoved DEF ResyncNamespace, M!vars
<1>4. ASSUME NEW p \in Projects, CreateUser(p) \/ DeleteUser(p) PROVE M!Next
  <2>1. /\ UNCHANGED <<Asked, Dest(appProj), Dest(seen), Heard, namespaces, Offer>>
        /\ changes' = changes + 1
    BY <1>4, Unmoved DEF CreateUser, DeleteUser, Change
  <2>2. PICK S \in SUBSET Projects : Leaving' = Leaving \union S
    <3>1. Leaving' = Leaving \/ Leaving' = Leaving \union {p}
      BY <1>4 DEF CreateUser, DeleteUser, Leaving, TypeOK
    <3>2. Leaving = Leaving \union {} /\ {} \in SUBSET Projects /\ {p} \in SUBSET Projects
      OBVIOUS
    <3> QED
      BY <3>1, <3>2
  <2>3. M!Act
    BY <2>1, <2>2 DEF M!Act
  <2> QED
    BY <2>3 DEF M!Next
<1>5. ASSUME NEW n \in Namespaces, NEW l \in Label \union {Absent}, Relabel(n, l) PROVE M!Next
  <2>1. /\ UNCHANGED <<Leaving, Dest(appProj), Dest(seen), Heard, namespaces, Offer>>
        /\ changes' = changes + 1
    BY <1>5, Unmoved DEF Relabel, Change
  <2>2. PICK s \in (SUBSET Projects) \union {Absent} : Asked' = [Asked EXCEPT ![n] = s]
    <3> DEFINE s == IF l = Absent THEN Absent ELSE l.proj
    <3>1. s \in (SUBSET Projects) \union {Absent}
      BY DEF Label
    <3>2. Asked' = [Asked EXCEPT ![n] = s]
      BY <1>5 DEF Relabel, Asked, Exists, TypeOK
    <3> HIDE DEF s
    <3> QED
      BY <3>1, <3>2
  <2>3. M!Act
    BY <2>1, <2>2 DEF M!Act
  <2> QED
    BY <2>3 DEF M!Next
<1>6. ASSUME NEW p \in Projects, NEW object \in Edits, EditAppProject(p, object) PROVE M!Next
  <2>1. /\ UNCHANGED <<Asked, Leaving, Dest(seen), Heard, namespaces, Offer>>
        /\ changes' = changes + 1
    BY <1>6, Unmoved DEF EditAppProject, Change
  <2>2. PICK d \in M!Published : Dest(appProj)' = [Dest(appProj) EXCEPT ![p] = d]
    <3> DEFINE d == IF object = Absent THEN Absent ELSE object.dest
    <3>1. object \in AppProject \union {Absent}
      BY BoundsAssumption
    <3>2. d \in M!Published
      BY <3>1 DEF M!Published, AppProject
    <3>3. Dest(appProj)' = [Dest(appProj) EXCEPT ![p] = d]
      BY <1>6 DEF EditAppProject, Write, Dest, TypeOK
    <3> HIDE DEF d
    <3> QED
      BY <3>2, <3>3
  <2>3. M!Act
    BY <2>1, <2>2 DEF M!Act
  <2> QED
    BY <2>3 DEF M!Next
<1>7. CASE Restart
  <2>1. UNCHANGED <<Asked, Leaving, Dest(appProj), changes>>
    BY <1>7, Unmoved DEF Restart
  <2>2. Dest(seen)' = Dest(appProj)
    BY <1>7 DEF Restart, Dest
  <2>3. /\ Heard' = [n \in Namespaces |-> {}]
        /\ namespaces' = [p \in Projects |-> {}]
        /\ Offer' = Absent
    BY <1>7 DEF Restart, NsIdle, AuIdle, Heard, Offer
  <2>4. M!Forget
    BY <2>1, <2>2, <2>3 DEF M!Forget
  <2> QED
    BY <2>4 DEF M!Next, M!Operate
<1> QED
  BY <1>1, <1>2, <1>3, <1>4, <1>5, <1>6, <1>7

-----------------------------------------------------------------------------
\* The operator starts with nothing in its record
LEMMA InitRefines == Init => M!Init
<1> SUFFICES ASSUME Init PROVE M!Init
  OBVIOUS
<1> USE DEF Init
<1>1. Asked \in [Namespaces -> (SUBSET Projects) \union {Absent}]
  BY DEF Asked, Exists, Label
<1>2. Dest(appProj) \in [Projects -> M!Published]
  BY DEF Dest, M!Published, AppProject
<1>3. Heard = [n \in Namespaces |-> {}] /\ Offer = Absent /\ Leaving \in SUBSET Projects
  BY DEF Heard, NsIdle, Offer, AuIdle, Leaving
<1> QED
  BY <1>1, <1>2, <1>3 DEF M!Init

\* Whatever the two controllers, failures and restarts do to each other, what the
\* operator publishes is its record, as it is or as it was when it was looked up
THEOREM OperatorPublishesRecord == Spec => PublishesRecord
<1>1. Init => AllWaiting /\ TakingOver /\ EmptyUntilLoaded /\ Cleaning
  BY DEF Init, AllWaiting, TakingOver, EmptyUntilLoaded, Cleaning, NsIdle, AuIdle, Exists
<1>2. TypeOK /\ TypeOK' /\ Versions /\ CacheInverse /\ EmptyUntilLoaded /\ TakingOver
        /\ Cleaning /\ [Next]_vars => [M!Next]_(M!vars)
  <2> SUFFICES ASSUME TypeOK, TypeOK', Versions, CacheInverse, EmptyUntilLoaded, TakingOver,
                      Cleaning, [Next]_vars
               PROVE  M!Next \/ UNCHANGED M!vars
    OBVIOUS
  <2>1. CASE UNCHANGED vars
    BY <2>1, Unmoved DEF vars, cluster, cache, bounds, M!vars
  <2> QED
    BY <2>1, NsRefines, AuRefines, OthersRefine DEF Next
<1> QED
  BY <1>1, <1>2, InitRefines, WaitingStep, TakingOverStep, EmptyStep, CleaningStep, TypeCorrect,
     CacheStaysInverse, PTL DEF Spec, PublishesRecord, M!Spec

=============================================================================
