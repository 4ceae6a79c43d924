------------------------------- MODULE MCRbac -------------------------------
(* An instance of Rbac for TLC. *)
EXTENDS Rbac

CONSTANT a1  \* a list of admin users

\* Others delete the objects, or write them without owner
Edited ==
    [k \in Kind |->
        {Absent} \union
        IF k = "ClusterRole" THEN {[owner |-> Absent, rules |-> "edited"]}
        ELSE {[owner |-> Absent, subjects |-> NoAdmins, roleRef |-> "edited"]}]

\* Init, with objects that others have written, and those the user owns in order
Managed ==
    /\ object \in [Kind -> {Absent}] \union
         {[k \in Kind |-> Desired([uid |-> 0, phase |-> "live", admins |-> NoAdmins], k)]}
    /\ Init

FairSpec == Managed /\ [][Next]_vars /\ Fairness
=============================================================================
