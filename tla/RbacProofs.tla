------------------------------ MODULE RbacProofs ------------------------------
(***************************************************************************)
(* What Rbac guarantees for all lists of admins and whatever the bounds.   *)
(***************************************************************************)
EXTENDS Rbac, TLAPS

\* What an ArgocdUser declares is an object
LEMMA DesiredType ==
    ASSUME NEW u \in User, NEW k \in Kind
    PROVE  Desired(u, k) \in Object /\ Desired(u, k).owner = u.uid /\ Owned(Desired(u, k))
BY AbsentAssumption DEF User, Object, Owner, Kind, Desired, Owned

\* A write leaves objects and news well typed
LEMMA WriteType ==
    ASSUME TypeOK, NEW k \in Kind, NEW o \in Object \union {Absent}, Write(k, o)
    PROVE  /\ object' \in [Kind -> Object \union {Absent}]
           /\ news' \in [Kind -> {"nothing", "unowned", "owned"}]
BY DEF TypeOK, Write

\* So does a reconcile, done or refused
LEMMA ReconcileType ==
    ASSUME TypeOK, NEW k \in Kind,
           (Accepted(k) /\ Reconcile(k)) \/ Write(k, Absent) \/ UNCHANGED <<object, news>>
    PROVE  /\ object' \in [Kind -> Object \union {Absent}]
           /\ news' \in [Kind -> {"nothing", "unowned", "owned"}]
<1>1. CASE Accepted(k) /\ Reconcile(k)
  <2>1. worker.held \in User
    BY <1>1 DEF TypeOK, Accepted, Creates, Updates, Kind
  <2> QED
    BY <1>1, <2>1, DesiredType, WriteType DEF Reconcile, TypeOK
<1> QED
  BY <1>1, WriteType DEF TypeOK

\* What the informer is said to show it does show; and it keeps quiet about an owner
\* only if there was none
Copies ==
    /\ userFresh => userSeen = user
    /\ \A k \in Kind :
        /\ news[k] = "nothing" => seen[k] = object[k]
        /\ news[k] = "unowned" => ~Owned(seen[k]) /\ ~Owned(object[k])

LEMMA TypeStep == TypeOK /\ Copies /\ [Next]_vars => TypeOK'
<1> SUFFICES ASSUME TypeOK, Copies, [Next]_vars PROVE TypeOK'
  OBVIOUS
<1> USE AbsentAssumption, ParametersAssumption DEF TypeOK, bounds, Idle
<1>1. CASE StartGone
  BY <1>1 DEF StartGone
<1>2. CASE Start
  BY <1>2 DEF Start, Kind
<1>3. CASE StartNew
  <2>1. user \in User /\ [user EXCEPT !.phase = "live"] \in User
    BY <1>3 DEF StartNew, WriteUser, User, Copies
  <2> QED
    BY <1>3, <2>1 DEF StartNew, WriteUser, Kind
<1>4. CASE StartDeleting
  BY <1>4 DEF StartDeleting, WriteUser
<1>5. CASE Refused
  BY <1>5 DEF Refused, Fail
<1>6. ASSUME NEW k \in Kind, LeaveAlone(k) PROVE TypeOK'
  BY <1>6 DEF LeaveAlone, Proceed, Kind
<1>7. ASSUME NEW k \in Kind, CreateOrUpdate(k) PROVE TypeOK'
  BY <1>7, ReconcileType DEF CreateOrUpdate, Proceed, Kind
<1>8. ASSUME NEW k \in Kind, Delete(k) PROVE TypeOK'
  BY <1>8, ReconcileType DEF Delete, Deletes, Kind
<1>9. CASE CallFails
  BY <1>9, ReconcileType DEF CallFails, Fail, Kind
<1>10. ASSUME NEW k \in Kind, Deliver(k) PROVE TypeOK'
  BY <1>10 DEF Deliver
<1>11. ASSUME NEW k \in Kind, Collect(k) PROVE TypeOK'
  BY <1>11, WriteType DEF Collect
<1>12. ASSUME NEW k \in Kind, NEW o \in Edits[k], Edit(k, o) PROVE TypeOK'
  BY <1>12, WriteType DEF Edit, Change
<1>13. CASE DeliverUser \/ Resync
  BY <1>13 DEF DeliverUser, Resync
<1>18. CASE Restart
  <2>1. queued' \in BOOLEAN
    BY <1>18, Zenon DEF Restart
  <2>2. /\ userSeen' = user /\ userFresh' = TRUE /\ seen' = object /\ worker' = Idle
        /\ news' = [k \in Kind |-> "nothing"] /\ restarts' = restarts + 1
        /\ UNCHANGED <<user, object, changes, faults>>
    BY <1>18 DEF Restart
  <2> QED
    BY <2>1, <2>2
\* A new version of the ArgocdUser is written, in a change
<1>a. ASSUME NEW u \in User \union {Absent}, WriteUser(u), Change,
             UNCHANGED <<userSeen, object, seen, news, queued, worker, restarts, faults>>
      PROVE  TypeOK'
  <2>1. changes' \in Nat
    BY <1>a DEF Change
  <2>2. user' = u /\ userFresh' = FALSE
    BY <1>a DEF WriteUser
  <2> QED
    BY <1>a, <2>1, <2>2
<1>14. ASSUME NEW admins \in Admins, CreateUser(admins) PROVE TypeOK'
  <2>1. [uid |-> changes', phase |-> "new", admins |-> admins] \in User
    BY <1>14 DEF CreateUser, Change, User
  <2> QED
    BY <1>14, <1>a, <2>1 DEF CreateUser
<1>15. ASSUME NEW admins \in Admins, EditUser(admins) PROVE TypeOK'
  <2>1. [user EXCEPT !.admins = admins] \in User
    BY <1>15 DEF EditUser, User
  <2> QED
    BY <1>15, <1>a, <2>1 DEF EditUser
<1>16. CASE DeleteUser
  <2>1. [user EXCEPT !.phase = "deleting"] \in User
    BY <1>16 DEF DeleteUser, User
  <2> QED
    BY <1>16, <1>a, <2>1 DEF DeleteUser
<1>17. CASE UNCHANGED vars
  BY <1>17 DEF vars
<1> QED
  BY <1>1, <1>2, <1>3, <1>4, <1>5, <1>6, <1>7, <1>8, <1>9, <1>10, <1>11, <1>12, <1>13, <1>14,
     <1>15, <1>16, <1>17, <1>18 DEF Next, WorkerStep

LEMMA CopiesStep == TypeOK /\ Copies /\ [Next]_vars => Copies'
<1> SUFFICES ASSUME TypeOK, Copies, [Next]_vars PROVE Copies'
  OBVIOUS
<1> USE DEF Copies, TypeOK
\* Writes are reported
<1>1. ASSUME NEW k \in Kind, NEW o, Write(k, o), UNCHANGED <<user, userSeen, userFresh, seen>>
      PROVE  Copies'
  BY <1>1 DEF Write
<1>2. ASSUME NEW k \in Kind, Reconcile(k), UNCHANGED <<user, userSeen, userFresh, seen>>
      PROVE  Copies'
  BY <1>1, <1>2 DEF Reconcile
<1>3. ASSUME NEW u, WriteUser(u), UNCHANGED <<object, seen, news>> PROVE Copies'
  BY <1>3 DEF WriteUser
<1>4. CASE UNCHANGED <<user, userSeen, userFresh, object, seen, news>>
  BY <1>4
<1>5. ASSUME NEW k \in Kind, CreateOrUpdate(k) \/ Delete(k) \/ Collect(k) PROVE Copies'
  BY <1>1, <1>2, <1>5 DEF CreateOrUpdate, Delete, Collect
<1>6. CASE CallFails
  BY <1>1, <1>2, <1>4, <1>6 DEF CallFails
<1>7. ASSUME NEW k \in Kind, NEW o \in Edits[k], Edit(k, o) PROVE Copies'
  BY <1>1, <1>7 DEF Edit
<1>8. ASSUME NEW k \in Kind, Deliver(k) PROVE Copies'
  BY <1>8 DEF Deliver
<1>9. CASE StartNew \/ StartDeleting \/ DeleteUser
  BY <1>3, <1>9 DEF StartNew, StartDeleting, DeleteUser
<1>10. ASSUME NEW admins \in Admins, CreateUser(admins) \/ EditUser(admins) PROVE Copies'
  BY <1>3, <1>10 DEF CreateUser, EditUser
<1>11. CASE DeliverUser \/ Restart
  BY <1>11 DEF DeliverUser, Restart
<1> QED
  BY <1>4, <1>5, <1>6, <1>7, <1>8, <1>9, <1>10, <1>11
  DEF Next, WorkerStep, vars, StartGone, Start, Refused, LeaveAlone, Resync

\* The variables always have their types
THEOREM TypeCorrect == Spec => [](TypeOK /\ Copies)
<1>1. Init => TypeOK /\ Copies
  BY ParametersAssumption, AbsentAssumption DEF Init, TypeOK, Copies, User, Idle, Kind
<1> QED
  BY <1>1, TypeStep, CopiesStep, PTL DEF Spec

-----------------------------------------------------------------------------
(* InOrderOrPending is not inductive: it does not say what the reconcile     *)
(* that is about to end has seen to.  As long as the ArgocdUser is neither   *)
(* queued nor changed, its reconcile has read it as it is, and what it has   *)
(* dealt with is as declared, or an event that names the owner is under way. *)

Current == ~queued /\ userFresh

Answered(k) == news[k] = "owned" \/ object[k] = Desired(user, k)

Dealt(k) ==
    IF k = "ClusterRole" THEN worker.pc # "ClusterRole" ELSE worker.pc = "idle"

OrderInv ==
    /\ Current /\ worker.pc # "idle" => worker.held = user
    /\ Current /\ Stays => \A k \in Kind : Dealt(k) => Answered(k)

LEMMA OrderStep == TypeOK /\ Copies /\ OrderInv /\ [Next]_vars => OrderInv'
<1> SUFFICES ASSUME TypeOK, Copies, OrderInv, [Next]_vars PROVE OrderInv'
  OBVIOUS
<1> USE DEF OrderInv, Current, Stays, Dealt, Idle
<1>1. ASSUME queued' = TRUE \/ userFresh' = FALSE PROVE OrderInv'
  BY <1>1
\* Whoever writes an object, it stays answered: what is as declared has an owner
<1>2. ASSUME NEW k \in Kind, NEW o, Write(k, o), UNCHANGED <<user, userFresh, queued, worker>>
      PROVE  OrderInv'
  <2>1. ASSUME NEW l \in Kind, Answered(l), user \in User PROVE Answered(l)'
    BY <1>2, <2>1, DesiredType DEF Write, Answered, TypeOK
  <2> QED
    BY <1>2, <2>1 DEF TypeOK
<1>3. CASE UNCHANGED <<user, userFresh, queued, worker, object, news>>
  BY <1>3 DEF Answered
<1>4. CASE StartGone \/ Start
  BY <1>4 DEF StartGone, Start, Copies, Answered, Kind
<1>5. CASE StartNew \/ StartDeleting \/ DeleteUser
  BY <1>1, <1>5 DEF StartNew, StartDeleting, DeleteUser, WriteUser
<1>6. CASE Refused \/ CallFails
  BY <1>1, <1>6 DEF Refused, CallFails, Fail
\* An object left alone is as declared, unless it was changed since
<1>7. ASSUME NEW k \in Kind, LeaveAlone(k) PROVE OrderInv'
  <2>1. /\ worker.pc = k /\ seen[k] = Desired(worker.held, k) /\ worker.held \in User
        /\ UNCHANGED <<user, userFresh, object, news, queued>>
    BY <1>7 DEF LeaveAlone, Differs, Proceed, TypeOK, Kind
  <2>2. Current => Answered(k)
    BY <2>1, DesiredType DEF Copies, Answered, TypeOK, Kind
  <2>3. worker'.held = worker.held \/ worker'.pc = "idle"
    BY <1>7 DEF LeaveAlone, Proceed, TypeOK
  <2>4. \A l \in Kind : Dealt(l)' => l = k \/ Dealt(l)
    BY <1>7, <2>1 DEF LeaveAlone, Proceed, TypeOK, Kind
  <2> QED
    BY <2>1, <2>2, <2>3, <2>4 DEF Answered, Kind
<1>8. ASSUME NEW k \in Kind, CreateOrUpdate(k) PROVE OrderInv'
  <2>1. /\ worker.pc = k \/ (k = "ClusterRoleBinding" /\ worker.pc = "recreate")
        /\ worker.held \in User
        /\ UNCHANGED <<user, userFresh, queued>>
        /\ object'[k] = Desired(worker.held, k)
    BY <1>8 DEF CreateOrUpdate, Accepted, Creates, Updates, Reconcile, Write, Proceed, TypeOK, Kind
  <2>2. Current => Answered(k)'
    BY <2>1 DEF Answered, Kind
  <2>3. worker'.held = worker.held \/ worker'.pc = "idle"
    BY <1>8 DEF CreateOrUpdate, Proceed, TypeOK
  <2>4. \A l \in Kind : Dealt(l)' => l = k \/ Dealt(l)
    BY <1>8, <2>1 DEF CreateOrUpdate, Proceed, TypeOK, Kind
  <2>5. \A l \in Kind : l # k => UNCHANGED <<object[l], news[l]>>
    BY <1>8 DEF CreateOrUpdate, Reconcile, Write, TypeOK
  <2> QED
    BY <2>1, <2>2, <2>3, <2>4, <2>5 DEF Answered, Kind
<1>9. ASSUME NEW k \in Kind, Delete(k) PROVE OrderInv'
  <2>1. /\ k = "ClusterRoleBinding" /\ worker.pc = k /\ worker'.pc = "recreate"
        /\ worker'.held = worker.held
        /\ UNCHANGED <<user, userFresh, queued>>
        /\ UNCHANGED <<object["ClusterRole"], news["ClusterRole"]>>
    BY <1>9 DEF Delete, Deletes, MustRecreate, Write, TypeOK, Kind
  <2> QED
    BY <2>1 DEF Answered, Kind
<1>10. ASSUME NEW k \in Kind, Deliver(k) PROVE OrderInv'
  <2>1. CASE news[k] = "owned"
    BY <1>1, <1>10, <2>1 DEF Deliver
  <2>2. CASE news[k] # "owned"
    BY <1>10, <2>2 DEF Deliver, Answered, TypeOK
  <2> QED
    BY <2>1, <2>2
<1>11. ASSUME NEW k \in Kind, Collect(k) PROVE OrderInv'
  BY <1>2, <1>11 DEF Collect
<1>12. ASSUME NEW k \in Kind, NEW o \in Edits[k], Edit(k, o) PROVE OrderInv'
  BY <1>2, <1>12 DEF Edit
<1>13. CASE DeliverUser \/ Resync
  BY <1>1, <1>13 DEF DeliverUser, Resync
<1>14. ASSUME NEW admins \in Admins, CreateUser(admins) \/ EditUser(admins) PROVE OrderInv'
  BY <1>1, <1>14 DEF CreateUser, EditUser, WriteUser
<1>15. CASE Restart
  BY <1>15 DEF Restart
<1> QED
  BY <1>3, <1>4, <1>5, <1>6, <1>7, <1>8, <1>9, <1>10, <1>11, <1>12, <1>13, <1>14, <1>15
  DEF Next, WorkerStep, vars

\* The two objects of an ArgocdUser never stay other than declared with nothing left to
\* bring them in order
THEOREM NothingForgotten == Spec => []InOrderOrPending
<1>1. Init => OrderInv
  <2> SUFFICES ASSUME Init PROVE OrderInv
    OBVIOUS
  <2>1. queued \/ user = Absent
    BY Zenon DEF Init
  <2>2. worker.pc = "idle"
    BY DEF Init, Idle
  <2> QED
    BY <2>1, <2>2 DEF OrderInv, Current, Stays
<1>2. TypeOK /\ OrderInv => InOrderOrPending
  <2> SUFFICES ASSUME OrderInv, Stays, ~Pending, NEW k \in Kind
               PROVE  object[k] = Desired(user, k)
    BY DEF InOrderOrPending, InOrder
  <2>1. Current /\ Dealt(k) /\ news[k] = "nothing"
    BY DEF Pending, Current, Dealt
  <2> QED
    BY <2>1 DEF OrderInv, Answered
<1> QED
  BY <1>1, <1>2, OrderStep, TypeCorrect, PTL DEF Spec

-----------------------------------------------------------------------------
(* What is in order is left alone.                                           *)

\* What is said of an ArgocdUser whose objects are as declared
LEMMA SettledObjects ==
    ASSUME TypeOK, Settled
    PROVE  /\ user \in User /\ user.phase = "live" /\ userSeen = user /\ seen = object
           /\ \A k \in Kind : /\ object[k] = Desired(user, k) /\ object[k] # Absent
                              /\ object[k].owner = user.uid
                              /\ ~MustRecreate(k)
<1>1. user \in User /\ user.phase = "live" /\ userSeen = user /\ seen = object
  BY DEF TypeOK, Settled, Stays
<1>2. ASSUME NEW k \in Kind
      PROVE  object[k] = Desired(user, k) /\ object[k] # Absent /\ object[k].owner = user.uid
  BY <1>1, <1>2, DesiredType, AbsentAssumption DEF Settled, InOrder
<1>3. ASSUME NEW k \in Kind PROVE ~MustRecreate(k)
  BY <1>1, <1>2, <1>3 DEF MustRecreate, Desired
<1> QED
  BY <1>1, <1>2, <1>3

\* What the reconcile of such an ArgocdUser does to its objects: nothing, even where it
\* writes
LEMMA SettledWrites ==
    ASSUME TypeOK, Settled, NEW k \in Kind
    PROVE  /\ Accepted(k) /\ Reconcile(k) => UNCHANGED <<object, news>>
           /\ ~Deletes(k)
<1>1. object[k] = Desired(user, k) /\ object[k] # Absent /\ ~MustRecreate(k)
  BY SettledObjects
<1>2. Accepted(k) => worker.held = user
  BY DEF Settled, Accepted, Creates, Updates, Kind
<1> QED
  BY <1>1, <1>2 DEF Reconcile, Deletes

LEMMA SettledStep ==
    ASSUME TypeOK, Settled, [Next]_vars, changes' = changes
    PROVE  /\ Settled' /\ UNCHANGED <<user, object>>
           /\ \A k \in Kind : news[k] = "nothing" => news'[k] = "nothing"
<1> DEFINE Goal == /\ Settled' /\ UNCHANGED <<user, object>>
                   /\ \A k \in Kind : news[k] = "nothing" => news'[k] = "nothing"
<1>t. /\ user \in User /\ user.phase = "live" /\ userSeen = user /\ seen = object
      /\ changes \in Nat /\ news \in [Kind -> {"nothing", "unowned", "owned"}]
      /\ worker \in [pc : Kind \union {"idle", "recreate"}, held : User \union {Absent}]
  BY SettledObjects DEF TypeOK
\* Goal depends on the worker alone where objects and copies are unchanged
<1>1. ASSUME UNCHANGED <<user, userSeen, object, seen>>,
             worker'.pc # "idle" => worker'.pc \in Kind /\ worker'.held = user
      PROVE  Settled'
  BY <1>1 DEF Settled, Stays, InOrder
<1>2. CASE UNCHANGED <<user, userSeen, object, seen, news, worker>>
  BY <1>1, <1>2 DEF Settled
<1>3. CASE Start
  BY <1>1, <1>3, <1>t DEF Start, Kind
<1>4. CASE Refused
  BY <1>1, <1>4, <1>t DEF Refused, Fail, Idle
<1>5. ASSUME NEW k \in Kind, LeaveAlone(k) \/ CreateOrUpdate(k) PROVE Goal
  <2>1. worker.pc = k /\ worker.held = user
    BY <1>5 DEF LeaveAlone, CreateOrUpdate, Accepted, Creates, Updates, Settled, Kind
  <2>2. UNCHANGED <<user, userSeen, object, seen, news>>
    BY <1>5, SettledWrites DEF LeaveAlone, CreateOrUpdate
  <2>3. worker'.pc # "idle" => worker'.pc \in Kind /\ worker'.held = user
    BY <1>5, <1>t, <2>1 DEF LeaveAlone, CreateOrUpdate, Proceed, Idle, Kind
  <2> QED
    BY <1>1, <2>2, <2>3
<1>6. CASE CallFails
  <2>1. UNCHANGED <<user, userSeen, object, seen, news>>
    BY <1>6, SettledWrites DEF CallFails
  <2> QED
    BY <1>1, <1>6, <2>1 DEF CallFails, Fail, Idle
<1>7. ASSUME NEW k \in Kind, Deliver(k) PROVE Goal
  <2>1. seen' = seen
    BY <1>7, <1>t DEF Deliver, TypeOK
  <2> QED
    BY <1>1, <1>7, <1>t, <2>1 DEF Deliver, Settled
<1>8. CASE DeliverUser
  BY <1>1, <1>8, <1>t DEF DeliverUser, Settled
<1>9. CASE Restart
  BY <1>1, <1>9, <1>t DEF Restart, Idle
\* The garbage collector leaves the objects of an ArgocdUser that is there
<1>10. ~(\E k \in Kind : Collect(k) \/ Delete(k))
  BY SettledObjects, SettledWrites, AbsentAssumption, <1>t DEF Collect, Delete, User
<1>11. ~StartGone /\ ~StartNew /\ ~StartDeleting
  BY <1>t, AbsentAssumption DEF StartGone, StartNew, StartDeleting
<1>12. ~Change
  BY <1>t DEF Change
<1> QED
  <2>1. CASE Resync \/ UNCHANGED vars
    BY <1>2, <2>1 DEF Resync, vars
  <2> QED
    BY <1>3, <1>4, <1>5, <1>6, <1>7, <1>8, <1>9, <1>10, <1>11, <1>12, <2>1
    DEF Next, WorkerStep, Edit, CreateUser, EditUser, DeleteUser, Start, Refused

\* Nothing the operator or the garbage collector does makes a version of an object that
\* is as declared
THEOREM WhatIsSettledStays == Spec => SettledStays
<1>1. TypeOK /\ [Next]_vars =>
        [Settled /\ changes' = changes =>
            /\ Settled' /\ UNCHANGED <<user, object>>
            /\ \A k \in Kind : news[k] = "nothing" => news'[k] = "nothing"]_vars
  BY SettledStep
<1> QED
  BY <1>1, TypeCorrect, PTL DEF Spec, SettledStays

=============================================================================
