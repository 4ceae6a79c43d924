------------------------- MODULE ProjectListsProofs -------------------------
(***************************************************************************)
(* Theorems about ProjectLists, for any lists, environments and edits: its *)
(* types, that nobody's repositories are lost, and that the operator rests *)
(* only when its own are there, in order.  What is used of sorting is that *)
(* it loses nothing and adds nothing.                                      *)
(***************************************************************************)
EXTENDS ProjectLists, FiniteSetTheorems, TLAPS

\* The informer shows the newest version, if it says so
Copy == fresh => seen = project

ListInv == TypeOK /\ Copy

-----------------------------------------------------------------------------

\* The entries of a list of repositories
LEMMA Listed ==
  ASSUME NEW S, NEW list \in Seq(S)
  PROVE  Range(list) \in SUBSET S
<1>1. list \in [1..Len(list) -> S]
  OBVIOUS
<1> QED
  BY <1>1 DEF Range

\* Merging repositories makes a list of them all
LEMMA Merged ==
  ASSUME NEW desired \in Seq(Repos), NEW found \in Seq(Repos)
  PROVE  /\ Merge(desired, found) \in Seq(Repos)
         /\ Range(Merge(desired, found)) = Range(desired) \union Range(found)
<1>1. Range(desired) \union Range(found) \in SUBSET Repos
  BY Listed
<1> QED
  BY <1>1, ParametersAssumption DEF Merge

\* An order of Namespaces is a list of them
LEMMA Ordered ==
  ASSUME NEW S \in SUBSET Namespaces, NEW list \in SetToSeqs(S)
  PROVE  list \in Seq(Namespaces)
<1>1. list \in [1..Cardinality(S) -> S]
  BY DEF SetToSeqs
<1>2. Cardinality(S) \in Nat
  BY ParametersAssumption, FS_Subset, FS_CardinalityType
<1> QED
  BY <1>1, <1>2

\* What the ArgocdUser controller writes is an AppProject
LEMMA ReconciledIsProject ==
  ASSUME TypeOK, au # Absent, seen # Absent
  PROVE  /\ Reconciled \in AppProject
         /\ Reconciled.roles = "declared" /\ Reconciled.cluster = seen.cluster
         /\ Reconciled.repos = Merge(env.public, seen.repos)
<1>1. seen \in AppProject /\ au \in Seq(Namespaces) /\ env.public \in Seq(Repos)
  BY ParametersAssumption DEF TypeOK, Env
<1>2. Merge(env.public, seen.repos) \in Seq(Repos)
  BY <1>1, Merged DEF AppProject
<1> QED
  BY <1>1, <1>2 DEF Reconciled, AppProject

\* The operator starts with a fresh copy
LEMMA ListInit == Init => ListInv
BY ParametersAssumption DEF Init, ListInv, TypeOK, Copy

\* Every step keeps the types and the copy
LEMMA ListStep == ListInv /\ [Next]_vars => ListInv'
<1> SUFFICES ASSUME ListInv, [Next]_vars PROVE ListInv'
  OBVIOUS
<1> USE DEF ListInv, TypeOK, Copy, bounds
<1>1. CASE AuStart
  BY <1>1, Ordered DEF AuStart
<1>2. CASE AuCreate
  <2>1. au \in Seq(Namespaces) /\ env \in Env
    BY <1>2, ParametersAssumption DEF AuCreate
  <2>2. Created \in AppProject
    BY <2>1 DEF Created, AppProject, Env
  <2> QED
    BY <1>2, <2>2 DEF AuCreate, Write
<1>3. CASE AuUpdate
  <2>1. Reconciled \in AppProject
    BY <1>3, ReconciledIsProject DEF AuUpdate
  <2> QED
    BY <1>3, <2>1 DEF AuUpdate, Write
<1>4. CASE AuSkip \/ AuRefused \/ AuFails
  <2>1. UNCHANGED <<project, seen, fresh, env, cache, ns, changes>> /\ au' = Absent
    BY <1>4 DEF AuSkip, AuRefused, AuFails, Fail
  <2>2. queued' \in BOOLEAN
    BY <1>4 DEF AuSkip, AuRefused, AuFails, Fail
  <2>3. troubles' \in Nat
    BY <1>4 DEF AuSkip, AuRefused, AuFails, Trouble
  <2> QED
    BY <2>1, <2>2, <2>3
<1>5. ASSUME NEW members \in SUBSET Namespaces, NsStart(members) PROVE ListInv'
  BY <1>5, Ordered DEF NsStart, Change
<1>6. CASE NsUpdate
  <2>1. seen \in AppProject /\ ns \in Seq(Namespaces)
    BY <1>6 DEF NsUpdate
  <2>2. Pushed \in AppProject
    BY <2>1 DEF Pushed, AppProject
  <2> QED
    BY <1>6, <2>2 DEF NsUpdate, Write
<1>7. CASE NsSkip \/ NsRefused \/ NsFails
  BY <1>7 DEF NsSkip, NsRefused, NsFails, Trouble
<1>8. CASE Deliver
  BY <1>8 DEF Deliver
<1>9. ASSUME NEW p \in Edits, Edit(p) PROVE ListInv'
  <2>1. p \in AppProject \union {Absent}
    BY ParametersAssumption
  <2>2. /\ project' = p /\ ~fresh' /\ fresh' \in BOOLEAN
        /\ UNCHANGED <<seen, env, cache, queued, au, ns, troubles>>
    BY <1>9 DEF Edit, Write
  <2>3. changes' \in Nat
    BY <1>9 DEF Edit, Change
  <2> QED
    BY <2>1, <2>2, <2>3
<1>10. CASE Restart
  BY <1>10 DEF Restart, Trouble
<1>11. CASE UNCHANGED vars
  BY <1>11 DEF vars
<1> QED
  BY <1>1, <1>2, <1>3, <1>4, <1>5, <1>6, <1>7, <1>8, <1>9, <1>10, <1>11 DEF Next, AuStep, NsStep

LEMMA ListInvariant == Spec => []ListInv
BY ListInit, ListStep, PTL DEF Spec

\* The types of the variables, in every state
THEOREM TypeCorrect == Spec => []TypeOK
BY ListInvariant, PTL DEF ListInv

-----------------------------------------------------------------------------

\* "preserve manually added repos": an Update takes the newest version, merges what
\* it lists and leaves the lists of cluster resources alone
THEOREM OthersStay == Spec => OthersKept
<1> DEFINE Kept == changes' = changes /\ project # Absent =>
      /\ project' # Absent
      /\ Range(project.repos) \subseteq Range(project'.repos)
      /\ project'.cluster = project.cluster
<1>1. ListInv /\ [Next]_vars => Kept
  <2> SUFFICES ASSUME ListInv, [Next]_vars, changes' = changes, project # Absent PROVE Kept
    OBVIOUS
  <2> USE DEF bounds
  <2>t. changes \in Nat /\ Absent \notin AppProject
    BY AbsentAssumption DEF ListInv, TypeOK
  <2>1. CASE AuUpdate
    <3>1. project' = Reconciled /\ seen = project /\ Reconciled \in AppProject
          /\ Reconciled.cluster = project.cluster
          /\ Reconciled.repos = Merge(env.public, project.repos)
      BY <2>1, ReconciledIsProject DEF AuUpdate, Write, ListInv, Copy
    <3>2. env.public \in Seq(Repos) /\ project.repos \in Seq(Repos)
      BY ParametersAssumption DEF ListInv, TypeOK, Env, AppProject
    <3> QED
      BY <3>1, <3>2, <2>t, Merged
  <2>2. CASE NsUpdate
    <3>1. project' = Pushed /\ seen = project
      BY <2>2 DEF NsUpdate, Write, ListInv, Copy
    <3>2. Pushed \in AppProject /\ Pushed.repos = seen.repos /\ Pushed.cluster = seen.cluster
      BY <2>2 DEF NsUpdate, Pushed, AppProject, ListInv, TypeOK
    <3> QED
      BY <3>1, <3>2, <2>t
  <2>3. ~AuCreate
    BY DEF AuCreate
  <2>4. ASSUME NEW members \in SUBSET Namespaces, NsStart(members) PROVE FALSE
    BY <2>4, <2>t DEF NsStart, Change
  <2>5. ASSUME NEW p \in Edits, Edit(p) PROVE FALSE
    BY <2>5, <2>t DEF Edit, Change
  <2>6. CASE UNCHANGED project
    BY <2>6
  <2> QED
    BY <2>1, <2>2, <2>3, <2>4, <2>5, <2>6 DEF Next, AuStep, NsStep, AuStart, AuSkip, AuRefused,
       AuFails, NsSkip, NsRefused, NsFails, Deliver, Restart, vars
<1> QED
  BY <1>1, ListInvariant, PTL DEF Spec, OthersKept

\* A reconcile that finds no difference found what it wants
LEMMA SkippedInOrder ==
  ASSUME ListInv, AuSkip, fresh
  PROVE  /\ project # Absent /\ project.roles = "declared"
         /\ Range(env.public) \subseteq Range(project.repos)
         /\ project.repos = Sorted[Range(project.repos)]
<1>1. /\ seen = project /\ Reconciled = seen /\ seen # Absent
      /\ seen.roles = "declared" /\ seen.repos = Merge(env.public, seen.repos)
  BY ReconciledIsProject DEF AuSkip, ListInv, Copy
<1>2. env.public \in Seq(Repos) /\ seen.repos \in Seq(Repos)
  BY <1>1, ParametersAssumption DEF ListInv, TypeOK, Env, AppProject
<1>3. Range(seen.repos) = Range(env.public) \union Range(seen.repos)
  BY <1>1, <1>2, Merged
<1> QED
  BY <1>1, <1>3 DEF Merge

\* The operator rests only when the AppProject exists, with roles and public
\* repositories as they should be, whatever was edited, refused or restarted
THEOREM NothingForgotten == Spec => []InOrderOrPending
<1>1. Init => InOrderOrPending
  BY DEF Init, InOrderOrPending, Quiet
<1>2. ListInv /\ InOrderOrPending /\ [Next]_vars => InOrderOrPending'
  <2> SUFFICES ASSUME ListInv, InOrderOrPending, [Next]_vars, Quiet' PROVE InOrderOrPending'
    BY DEF InOrderOrPending
  <2> USE DEF bounds
  <2>0. ASSUME UNCHANGED <<project, fresh, env, queued, au>> PROVE InOrderOrPending'
    BY <2>0 DEF InOrderOrPending, Quiet
  <2>1. CASE AuSkip
    <3>1. UNCHANGED <<project, fresh, env>> /\ fresh
      BY <2>1 DEF AuSkip, Quiet
    <3> QED
      BY <2>1, <3>1, SkippedInOrder DEF InOrderOrPending
  <2>2. CASE AuCreate \/ AuUpdate \/ NsUpdate
    BY <2>2 DEF AuCreate, AuUpdate, NsUpdate, Write, Quiet
  <2>3. CASE AuRefused \/ AuFails \/ Deliver \/ Restart
    BY <2>3 DEF AuRefused, AuFails, Fail, Deliver, Restart, Quiet
  <2>4. CASE AuStart
    <3>1. PICK list \in SetToSeqs(cache) : au' = list
      BY <2>4 DEF AuStart
    <3> QED
      BY <3>1, Ordered, AbsentAssumption DEF Quiet, ListInv, TypeOK
  <2>5. ASSUME NEW members \in SUBSET Namespaces, NsStart(members) PROVE InOrderOrPending'
    BY <2>0, <2>5 DEF NsStart
  <2>6. CASE NsSkip \/ NsRefused \/ NsFails
    BY <2>0, <2>6 DEF NsSkip, NsRefused, NsFails
  <2>7. ASSUME NEW p \in Edits, Edit(p) PROVE InOrderOrPending'
    BY <2>7 DEF Edit, Write, Quiet
  <2>8. CASE UNCHANGED vars
    BY <2>0, <2>8 DEF vars
  <2> QED
    BY <2>1, <2>2, <2>3, <2>4, <2>5, <2>6, <2>7, <2>8 DEF Next, AuStep, NsStep
<1> QED
  BY <1>1, <1>2, ListInvariant, PTL DEF Spec

-----------------------------------------------------------------------------

\* Merging once is enough: what is merged already has nothing to be merged into it
LEMMA MergedOnce ==
  ASSUME NEW desired \in Seq(Repos), NEW found \in Seq(Repos)
  PROVE  Merge(desired, Merge(desired, found)) = Merge(desired, found)
<1>1. Range(desired) \union Range(Merge(desired, found)) = Range(desired) \union Range(found)
  BY Merged
<1> QED
  BY <1>1 DEF Merge

\* Of at most one Namespace there is but one list
LEMMA OneList ==
  ASSUME \A m, n \in cache : m = n,
         NEW s \in SetToSeqs(cache), NEW t \in SetToSeqs(cache)
  PROVE  s = t
<1> DEFINE D == 1..Cardinality(cache)
<1>1. s \in [D -> cache] /\ t \in [D -> cache]
  BY DEF SetToSeqs
<1> HIDE DEF D
<1>2. \A i \in D : s[i] = t[i]
  BY <1>1
<1> QED
  BY <1>1, <1>2

\* Reconciling is idempotent: one Update by the ArgocdUser controller makes of whatever
\* AppProject it found, for a cache that did not change meanwhile, one that it need not
\* write again
THEOREM OneUpdateIsEnough ==
  ASSUME ListInv, AuUpdate, au \in SetToSeqs(cache)
  PROVE  (/\ project # Absent
          /\ project.dest \in SetToSeqs(cache)
          /\ project.roles = "declared"
          /\ project.repos = Merge(env.public, project.repos))'
<1>1. /\ project' = Reconciled /\ Reconciled \in AppProject
      /\ Reconciled.roles = "declared" /\ Reconciled.repos = Merge(env.public, seen.repos)
      /\ UNCHANGED <<env, cache>>
  BY ReconciledIsProject DEF AuUpdate, Write, ListInv
<1>2. Reconciled.dest = au
  BY <1>1 DEF Reconciled, AuUpdate, ListInv, TypeOK, AppProject
<1>3. env.public \in Seq(Repos) /\ seen.repos \in Seq(Repos)
  BY ParametersAssumption DEF AuUpdate, ListInv, TypeOK, Env, AppProject
<1> QED
  BY <1>1, <1>2, <1>3, MergedOnce, AbsentAssumption

\* What is settled is an AppProject that neither worker would write otherwise
LEMMA NoDifference ==
  ASSUME ListInv, Settled
  PROVE  /\ project \in AppProject /\ seen = project /\ seen # Absent
         /\ au # Absent => Reconciled = seen
         /\ ns # Absent => Pushed = seen
<1>1. project \in AppProject /\ seen = project /\ seen # Absent
  BY DEF ListInv, TypeOK, Copy, Settled
<1>2. ASSUME au # Absent PROVE Reconciled = seen
  <2>1. /\ au = seen.dest /\ seen.roles = "declared"
        /\ Merge(env.public, seen.repos) = seen.repos
    BY <1>1, <1>2 DEF Settled
  <2> QED
    BY <1>1, <2>1 DEF Reconciled, AppProject
<1>3. ASSUME ns # Absent PROVE Pushed = seen
  <2>1. ns = seen.dest
    BY <1>1, <1>3 DEF Settled
  <2> QED
    BY <1>1, <2>1 DEF Pushed, AppProject
<1> QED
  BY <1>1, <1>2, <1>3

LEMMA SettledStep ==
  ASSUME ListInv, Settled, [Next]_vars, UNCHANGED <<changes, env, cache>>
  PROVE  Settled' /\ UNCHANGED project
<1>t. /\ seen = project /\ seen # Absent /\ fresh /\ changes \in Nat
      /\ au # Absent => Reconciled = seen
      /\ ns # Absent => Pushed = seen
  BY NoDifference DEF ListInv, TypeOK, Settled
\* Whatever reads the cache reads the list that is written already
<1>1. ASSUME UNCHANGED project, fresh', {au', ns'} \subseteq {Absent, project.dest}
      PROVE  Settled'
  BY <1>1 DEF Settled
<1>2. {au, ns} \subseteq {Absent, project.dest}
  BY DEF Settled
<1>3. CASE AuStart
  <2>1. PICK list \in SetToSeqs(cache) : au' = list
    BY <1>3 DEF AuStart
  <2>2. list = project.dest
    BY OneList DEF Settled
  <2> QED
    BY <1>1, <1>2, <1>3, <1>t, <2>1, <2>2 DEF AuStart
<1>4. CASE AuSkip \/ AuRefused \/ AuFails
  BY <1>1, <1>2, <1>4, <1>t DEF AuSkip, AuRefused, AuFails, Fail
<1>5. CASE NsSkip \/ NsRefused \/ NsFails
  BY <1>1, <1>2, <1>5, <1>t DEF NsSkip, NsRefused, NsFails
<1>6. ~AuCreate /\ ~AuUpdate /\ ~NsUpdate /\ ~Deliver
  BY <1>t DEF AuCreate, AuUpdate, NsUpdate, Deliver
<1>7. ~Change
  BY <1>t DEF Change
<1>8. CASE Restart
  BY <1>1, <1>8 DEF Restart
<1>9. CASE UNCHANGED vars
  BY <1>1, <1>2, <1>9, <1>t DEF vars
<1> QED
  BY <1>3, <1>4, <1>5, <1>6, <1>7, <1>8, <1>9 DEF Next, AuStep, NsStep, NsStart, Edit

\* Reconciling what is in order writes nothing
THEOREM WhatIsSettledStays == Spec => SettledStays
<1>1. ListInv /\ [Next]_vars =>
        [Settled /\ UNCHANGED <<changes, env, cache>> => Settled' /\ UNCHANGED project]_vars
  BY SettledStep
<1> QED
  BY <1>1, ListInvariant, PTL DEF Spec, SettledStays

=============================================================================
