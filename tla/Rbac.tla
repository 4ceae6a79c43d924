-------------------------------- MODULE Rbac --------------------------------
(***************************************************************************)
(* The ClusterRole and the ClusterRoleBinding by which the admins of an    *)
(* ArgocdUser may change it.  Its controller keeps both as declared, and   *)
(* replaces a binding that refers to another role, by a Delete and then a  *)
(* Create; the garbage collector takes both away when their owner is gone. *)
(*                                                                         *)
(* Other than the objects of ArgocdUser, these two are watched through     *)
(* their OwnerReferences: an event queues the ArgocdUser only if the       *)
(* object has, or had, one for its owner.                                  *)
(*                                                                         *)
(* Reads come from an informer's copy; as only this worker reads it, a Get *)
(* and the Update, Create or Delete that follows it are one step.          *)
(***************************************************************************)
EXTENDS Naturals

CONSTANTS
    Admins,       \* lists of admin users; also the subjects of a binding
    NoAdmins,     \* the empty list
    Absent,       \* an object, or an owner, that does not exist
    Edits,        \* bound: what others make of the two objects
    MaxChanges,   \* bound: changes made by people
    MaxRestarts,  \* bound: restarts of the operator
    MaxFaults     \* bound: API calls that fail

Kind == {"ClusterRole", "ClusterRoleBinding"}

\* An ArgocdUser created again under its name has another UID
User == [uid : Nat, phase : {"new", "live", "deleting"}, admins : Admins]
Owner == Nat \union {Absent}

\* A ClusterRole has rules; a ClusterRoleBinding has subjects and a RoleRef
Object == [owner : Owner, rules : {"declared", "edited"}]
            \union [owner : Owner, subjects : Admins, roleRef : {"declared", "edited"}]

ASSUME ParametersAssumption ==
    /\ NoAdmins \in Admins
    /\ Edits \in [Kind -> SUBSET (Object \union {Absent})]
    /\ {MaxChanges, MaxRestarts, MaxFaults} \subseteq Nat

ASSUME AbsentAssumption == Absent \notin User /\ Absent \notin Object /\ Absent \notin Nat

VARIABLES
    user, userSeen,  \* the ArgocdUser, at the server and as the informer shows it
    userFresh,       \* whether the informer shows its newest version
    object, seen,    \* the two objects, likewise
    news,            \* what the informer has yet to report of each: nothing, versions
                     \* without owner only, or one with an owner among them
    queued,          \* whether the ArgocdUser waits to be reconciled
    worker,          \* where its reconcile is, and the copy of the ArgocdUser it read
    changes, restarts, faults

bounds == <<changes, restarts, faults>>
vars == <<user, userSeen, userFresh, object, seen, news, queued, worker, bounds>>

Idle == [pc |-> "idle", held |-> Absent]

Owned(o) == o # Absent /\ o.owner # Absent

-----------------------------------------------------------------------------
\* The operator starts, in a cluster that may have been managed before
Init ==
    /\ user \in {Absent} \union [uid : {0}, phase : {"new", "live", "deleting"}, admins : Admins]
    /\ object \in [Kind -> Object \union {Absent}]
    /\ userSeen = user /\ userFresh = TRUE
    /\ seen = object /\ news = [k \in Kind |-> "nothing"]
    /\ queued = (user # Absent \/ \E k \in Kind : Owned(object[k]))
    /\ worker = Idle
    /\ changes = 0 /\ restarts = 0 /\ faults = 0

-----------------------------------------------------------------------------
(* ArgocdUserReconciler.Reconcile.                                         *)

\* An error is returned, and the ArgocdUser queued again
Fail == worker' = Idle /\ queued' = TRUE

\* (Slip: SetControllerReference is left out)
DesiredUnowned(u, k) ==
    IF k = "ClusterRole" THEN [owner |-> Absent, rules |-> "declared"]
    ELSE [owner |-> Absent, subjects |-> u.admins, roleRef |-> "declared"]

\* What u declares; SetControllerReference makes u the owner
Desired(u, k) ==
    IF k = "ClusterRole" THEN [owner |-> u.uid, rules |-> "declared"]
    ELSE [owner |-> u.uid, subjects |-> u.admins, roleRef |-> "declared"]

\* Somebody writes an object; the informer will report that, and whose it was
Write(k, o) ==
    /\ object' = [object EXCEPT ![k] = o]
    /\ news' = [news EXCEPT ![k] = IF @ = "owned" \/ Owned(object[k]) \/ Owned(o)
                                   THEN "owned" ELSE "unowned"]

WriteUser(u) == user' = u /\ userFresh' = FALSE

\* (Slip: an ArgocdUser that is not found is reconciled)
StartBlindly ==
    /\ worker.pc = "idle" /\ queued /\ userSeen = Absent
    /\ queued' = FALSE
    /\ worker' = [pc |-> "ClusterRole", held |-> userSeen]
    /\ UNCHANGED <<user, userSeen, userFresh, object, seen, news, bounds>>

\* Nothing to do for an ArgocdUser that is gone
StartGone ==
    /\ worker.pc = "idle" /\ queued /\ userSeen = Absent
    /\ queued' = FALSE
    /\ UNCHANGED <<user, userSeen, userFresh, object, seen, news, worker, bounds>>

\* The ClusterRole comes first, before all that module ArgocdUser models
Start ==
    /\ worker.pc = "idle" /\ queued /\ userSeen # Absent /\ userSeen.phase = "live"
    /\ queued' = FALSE
    /\ worker' = [pc |-> "ClusterRole", held |-> userSeen]
    /\ UNCHANGED <<user, userSeen, userFresh, object, seen, news, bounds>>

\* The finalizer is added to an ArgocdUser that has none
StartNew ==
    /\ worker.pc = "idle" /\ queued /\ userSeen # Absent /\ userSeen.phase = "new"
    /\ userFresh
    /\ queued' = FALSE
    /\ WriteUser([user EXCEPT !.phase = "live"])
    /\ worker' = [pc |-> "ClusterRole", held |-> [user EXCEPT !.phase = "live"]]
    /\ UNCHANGED <<userSeen, object, seen, news, bounds>>

\* The clean-up, of which nothing concerns these objects, and the finalizer's end
StartDeleting ==
    /\ worker.pc = "idle" /\ queued /\ userSeen # Absent /\ userSeen.phase = "deleting"
    /\ userFresh
    /\ queued' = FALSE
    /\ WriteUser(Absent)
    /\ UNCHANGED <<userSeen, object, seen, news, worker, bounds>>

\* The object is written, or left alone: the ClusterRoleBinding is next
Proceed ==
    /\ worker' = IF worker.pc = "ClusterRole" THEN [worker EXCEPT !.pc = "ClusterRoleBinding"] ELSE Idle
    /\ UNCHANGED queued

\* An empty list of subjects comes back from the server as none, and reflect.DeepEqual
\* tells the two apart: it is written at every reconcile
Differs(k, o) ==
    o # Desired(worker.held, k) \/ (k = "ClusterRoleBinding" /\ worker.held.admins = NoAdmins)

\* (Slip: a binding is replaced whatever differs)
MustRecreateAlways(k) == k = "ClusterRoleBinding"

\* Kubernetes does not let a RoleRef be updated
MustRecreate(k) == k = "ClusterRoleBinding" /\ seen[k].roleRef # "declared"

LeaveAlone(k) ==
    /\ worker.pc = k /\ seen[k] # Absent /\ ~Differs(k, seen[k])
    /\ Proceed
    /\ UNCHANGED <<user, userSeen, userFresh, object, seen, news, bounds>>

Creates(k) == worker.pc = k /\ seen[k] = Absent
Updates(k) == worker.pc = k /\ seen[k] # Absent /\ Differs(k, seen[k]) /\ ~MustRecreate(k)

\* A Create finds no object; an Update starts from the newest version, and makes none
\* if it changes nothing
Accepted(k) ==
    \/ Creates(k) /\ object[k] = Absent
    \/ Updates(k) /\ news[k] = "nothing"
    \/ k = "ClusterRoleBinding" /\ worker.pc = "recreate" /\ object[k] = Absent

Reconcile(k) ==
    IF object[k] = Desired(worker.held, k) THEN UNCHANGED <<object, news>>
                                           ELSE Write(k, Desired(worker.held, k))

CreateOrUpdate(k) ==
    /\ Accepted(k) /\ Reconcile(k)
    /\ Proceed
    /\ UNCHANGED <<user, userSeen, userFresh, seen, bounds>>

\* (Slip: the reconcile ends with the Delete, for the watch to bring it back)
DeleteOnly(k) ==
    /\ worker.pc = k /\ seen[k] # Absent /\ Differs(k, seen[k]) /\ MustRecreate(k)
    /\ object[k] # Absent
    /\ Write(k, Absent)
    /\ worker' = Idle
    /\ UNCHANGED <<user, userSeen, userFresh, seen, queued, bounds>>

\* A binding of another role is deleted, in whatever version, to be created again
Deletes(k) ==
    worker.pc = k /\ seen[k] # Absent /\ Differs(k, seen[k]) /\ MustRecreate(k)

Delete(k) ==
    /\ Deletes(k) /\ object[k] # Absent
    /\ Write(k, Absent)
    /\ worker' = [worker EXCEPT !.pc = "recreate"]
    /\ UNCHANGED <<user, userSeen, userFresh, seen, queued, bounds>>

\* The object exists already, was changed since, or is gone; the ArgocdUser was changed
Refused ==
    /\ \/ worker.pc = "idle" /\ queued /\ userSeen # Absent
          /\ userSeen.phase \in {"new", "deleting"} /\ ~userFresh
       \/ \E k \in Kind : ~Accepted(k) /\ (Creates(k) \/ Updates(k))
       \/ worker.pc = "recreate" /\ object["ClusterRoleBinding"] # Absent
       \/ \E k \in Kind : Deletes(k) /\ object[k] = Absent
    /\ Fail
    /\ UNCHANGED <<user, userSeen, userFresh, object, seen, news, bounds>>

\* A call fails, done or not done at the server
CallFails ==
    /\ worker.pc # "idle"
    /\ faults < MaxFaults /\ faults' = faults + 1
    /\ \/ UNCHANGED <<object, news>>
       \/ \E k \in Kind : Accepted(k) /\ Reconcile(k)
       \/ \E k \in Kind : Deletes(k) /\ object[k] # Absent /\ Write(k, Absent)
    /\ Fail
    /\ UNCHANGED <<user, userSeen, userFresh, seen, changes, restarts>>

WorkerStep ==
    \/ StartGone \/ Start \/ StartNew \/ StartDeleting \/ Refused
    \/ \E k \in Kind : LeaveAlone(k) \/ CreateOrUpdate(k) \/ Delete(k)

-----------------------------------------------------------------------------
(* The informers, the garbage collector, people, and the operator's death. *)

\* (Slip: only the last version is asked for its owner)
DeliverLast(k) ==
    /\ news[k] # "nothing"
    /\ seen' = [seen EXCEPT ![k] = object[k]]
    /\ news' = [news EXCEPT ![k] = "nothing"]
    /\ queued' = (queued \/ Owned(object[k]))
    /\ UNCHANGED <<user, userSeen, userFresh, object, worker, bounds>>

\* The events of an object, each of which queues the owner in the version before it
\* and in the version after it
Deliver(k) ==
    /\ news[k] # "nothing"
    /\ seen' = [seen EXCEPT ![k] = object[k]]
    /\ news' = [news EXCEPT ![k] = "nothing"]
    /\ queued' = (queued \/ news[k] = "owned")
    /\ UNCHANGED <<user, userSeen, userFresh, object, worker, bounds>>

DeliverUser ==
    /\ ~userFresh
    /\ userSeen' = user /\ userFresh' = TRUE
    /\ queued' = TRUE
    /\ UNCHANGED <<user, object, seen, news, worker, bounds>>

\* Resync
Resync ==
    /\ userSeen # Absent
    /\ queued' = TRUE
    /\ UNCHANGED <<user, userSeen, userFresh, object, seen, news, worker, bounds>>

\* The garbage collector deletes what an ArgocdUser that is gone has owned
Collect(k) ==
    /\ Owned(object[k])
    /\ user # Absent => user.uid # object[k].owner
    /\ Write(k, Absent)
    /\ UNCHANGED <<user, userSeen, userFresh, seen, queued, worker, bounds>>

Change == changes < MaxChanges /\ changes' = changes + 1

\* The number of the change serves as the UID
CreateUser(admins) ==
    /\ Change /\ user = Absent
    /\ WriteUser([uid |-> changes', phase |-> "new", admins |-> admins])
    /\ UNCHANGED <<userSeen, object, seen, news, queued, worker, restarts, faults>>

EditUser(admins) ==
    /\ Change /\ user # Absent /\ user.admins # admins
    /\ WriteUser([user EXCEPT !.admins = admins])
    /\ UNCHANGED <<userSeen, object, seen, news, queued, worker, restarts, faults>>

\* The finalizer, if it is there, keeps the ArgocdUser until it is cleaned up
DeleteUser ==
    /\ Change /\ user # Absent /\ user.phase # "deleting"
    /\ WriteUser(IF user.phase = "new" THEN Absent ELSE [user EXCEPT !.phase = "deleting"])
    /\ UNCHANGED <<userSeen, object, seen, news, queued, worker, restarts, faults>>

Edit(k, o) ==
    /\ Change /\ object[k] # o
    /\ Write(k, o)
    /\ UNCHANGED <<user, userSeen, userFresh, seen, queued, worker, restarts, faults>>

Restart ==
    /\ restarts < MaxRestarts /\ restarts' = restarts + 1
    /\ userSeen' = user /\ userFresh' = TRUE
    /\ seen' = object /\ news' = [k \in Kind |-> "nothing"]
    /\ queued' = (user # Absent \/ \E k \in Kind : Owned(object[k]))
    /\ worker' = Idle
    /\ UNCHANGED <<user, object, changes, faults>>

Next ==
    \/ WorkerStep \/ CallFails
    \/ \E k \in Kind : Deliver(k) \/ Collect(k) \/ \E o \in Edits[k] : Edit(k, o)
    \/ DeliverUser \/ Resync
    \/ \E admins \in Admins : CreateUser(admins) \/ EditUser(admins)
    \/ DeleteUser \/ Restart

Spec == Init /\ [][Next]_vars

\* The worker runs, watches deliver, the collector collects; no resync is needed
Fairness ==
    /\ WF_vars(WorkerStep) /\ WF_vars(DeliverUser)
    /\ \A k \in Kind : WF_vars(Deliver(k)) /\ WF_vars(Collect(k))

-----------------------------------------------------------------------------
\* The values the variables may have
TypeOK ==
    /\ user \in User \union {Absent} /\ userSeen \in User \union {Absent}
    /\ userFresh \in BOOLEAN
    /\ object \in [Kind -> Object \union {Absent}]
    /\ seen \in [Kind -> Object \union {Absent}]
    /\ news \in [Kind -> {"nothing", "unowned", "owned"}]
    /\ queued \in BOOLEAN
    /\ worker \in [pc : Kind \union {"idle", "recreate"}, held : User \union {Absent}]
    /\ worker.pc # "idle" => worker.held \in User
    /\ changes \in Nat /\ restarts \in Nat /\ faults \in Nat

Stays == user # Absent /\ user.phase # "deleting"
InOrder == \A k \in Kind : object[k] = Desired(user, k)

\* Somebody is going to reconcile the ArgocdUser, or has yet to hear of a change
Pending == queued \/ worker.pc # "idle" \/ ~userFresh \/ \E k \in Kind : news[k] # "nothing"

\* The ClusterRole and ClusterRoleBinding of an ArgocdUser never stay other than
\* declared with nothing left to bring them in order: not when they lose their owner
\* and with it the watch, not when the operator dies or fails between the Delete and
\* the Create of a binding, not when the garbage collector comes for them after the
\* ArgocdUser was created anew
InOrderOrPending == Stays => InOrder \/ Pending

\* The operator knows the ArgocdUser and its two objects, which are as declared, and
\* works for that one
Settled ==
    /\ Stays /\ user.phase = "live" /\ userSeen = user
    /\ InOrder /\ seen = object
    /\ worker.pc # "idle" => worker.pc \in Kind /\ worker.held = user

\* What is in order is left alone: although a binding without admins is written at
\* every reconcile, nothing the operator or the garbage collector does, failures and
\* restarts among it, makes a version of an object that is as declared, for which its
\* watch would queue the ArgocdUser again
SettledStays ==
    [][Settled /\ changes' = changes =>
        /\ Settled' /\ UNCHANGED <<user, object>>
        /\ \A k \in Kind : news[k] = "nothing" => news'[k] = "nothing"]_vars

\* In the end the admins of an ArgocdUser that stays are bound to the declared role
Converges == <>[](Stays => InOrder)

\* README, "automatically cleans up ... (via OwnerReferences)": of an ArgocdUser that
\* is gone nothing stays but what others have written
Collected == <>[](user = Absent => \A k \in Kind : object[k] \in Edits[k] \union {Absent})

=============================================================================
