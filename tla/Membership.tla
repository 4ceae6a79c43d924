----------------------------- MODULE Membership -----------------------------
(***************************************************************************)
(* What the operator promises about the Destinations of AppProjects,       *)
(* without saying how: it hears what the label of a Namespace asks for,    *)
(* takes that over into a record of its own one Namespace and project at a *)
(* time, and publishes the record, one whole project at a time, either as  *)
(* it is or as it was when it was last looked up.  It publishes nothing    *)
(* else, and takes a project down only when its ArgocdUser is to go.       *)
(*                                                                         *)
(* Everybody else may relabel, and write and delete AppProjects; acts      *)
(* counts what they do, so that their doing is not the operator's.         *)
(***************************************************************************)
EXTENDS Naturals

CONSTANTS
    Namespaces,
    Projects,
    None          \* no label, no AppProject, nothing looked up

VARIABLES
    asked,        \* the projects in the label of each Namespace
    leaving,      \* projects whose ArgocdUser is being deleted
    dest,         \* the Destinations of each AppProject, as published
    shown,        \* the same as the operator was last told
    heard,        \* the label of each Namespace that is being, or was, taken over
    members,      \* the record: the Namespaces of each project
    offer,        \* what was looked up for a project in order to publish it
    acts

vars == <<asked, leaving, dest, shown, heard, members, offer, acts>>

Published == (SUBSET Namespaces) \union {None}

\* What the record says of n
Recorded(n) == {p \in Projects : n \in members[p]}

Init ==
    /\ asked \in [Namespaces -> (SUBSET Projects) \union {None}]
    /\ leaving \in SUBSET Projects
    /\ dest \in [Projects -> Published]
    /\ shown = dest
    /\ heard = [n \in Namespaces |-> {}]
    /\ members = [p \in Projects |-> {}]
    /\ offer = None
    /\ acts = 0

-----------------------------------------------------------------------------
(* The operator.                                                           *)

\* The label of n is heard, when every label heard before has been taken over
Hear(n) ==
    /\ asked[n] # None /\ asked[n] # heard[n]
    /\ \A m \in Namespaces : heard[m] = Recorded(m)
    /\ heard' = [heard EXCEPT ![n] = asked[n]]
    /\ UNCHANGED <<asked, leaving, dest, shown, members, offer, acts>>

\* n leaves a project that its label does not name
Leave(n, p) ==
    /\ p \notin heard[n] /\ n \in members[p]
    /\ members' = [members EXCEPT ![p] = @ \ {n}]
    /\ UNCHANGED <<asked, leaving, dest, shown, heard, offer, acts>>

\* n joins a project that its label names, once it has left all it is to leave
Join(n, p) ==
    /\ p \in heard[n] /\ n \notin members[p] /\ Recorded(n) \subseteq heard[n]
    /\ members' = [members EXCEPT ![p] = @ \union {n}]
    /\ UNCHANGED <<asked, leaving, dest, shown, heard, offer, acts>>

\* What was published is taken for the record, by an operator that has none
Recall(S) ==
    /\ \A p \in Projects : members[p] = {}
    /\ members' = [p \in Projects |-> IF p \in S /\ shown[p] # None THEN shown[p] ELSE {}]
    /\ heard' = [n \in Namespaces |-> {p \in S : shown[p] # None /\ n \in shown[p]}]
    /\ UNCHANGED <<asked, leaving, dest, shown, offer, acts>>

\* The record is published, where there is an AppProject and all labels heard are
\* taken over
Publish(p) ==
    /\ dest[p] # None
    /\ \A m \in Namespaces : heard[m] = Recorded(m)
    /\ dest' = [dest EXCEPT ![p] = members[p]]
    /\ UNCHANGED <<asked, leaving, shown, heard, members, offer, acts>>

\* The record of p is looked up
LookUp(p) ==
    /\ offer = None
    /\ offer' = [project |-> p, members |-> members[p]]
    /\ UNCHANGED <<asked, leaving, dest, shown, heard, members, acts>>

\* What was looked up is published, in a new AppProject if need be
PublishOffer ==
    /\ offer # None
    /\ dest' = [dest EXCEPT ![offer.project] = offer.members]
    /\ offer' = None
    /\ UNCHANGED <<asked, leaving, shown, heard, members, acts>>

\* There is no use for it, or the publication fails
DropOffer ==
    /\ offer # None /\ offer' = None
    /\ UNCHANGED <<asked, leaving, dest, shown, heard, members, acts>>

TakeDown(p) ==
    /\ p \in leaving
    /\ dest' = [dest EXCEPT ![p] = None]
    /\ UNCHANGED <<asked, leaving, shown, heard, members, offer, acts>>

\* The ArgocdUser of p is let go
LetGo(p) ==
    /\ p \in leaving /\ leaving' = leaving \ {p}
    /\ UNCHANGED <<asked, dest, shown, heard, members, offer, acts>>

Show(p) ==
    /\ shown' = [shown EXCEPT ![p] = dest[p]]
    /\ UNCHANGED <<asked, leaving, dest, heard, members, offer, acts>>

\* The operator loses its memory, and is told everything anew
Forget ==
    /\ shown' = dest
    /\ heard' = [n \in Namespaces |-> {}]
    /\ members' = [p \in Projects |-> {}]
    /\ offer' = None
    /\ UNCHANGED <<asked, leaving, dest, acts>>

Operate ==
    \/ \E n \in Namespaces : Hear(n) \/ \E p \in Projects : Leave(n, p) \/ Join(n, p)
    \/ \E S \in SUBSET Projects : Recall(S)
    \/ \E p \in Projects : Publish(p) \/ LookUp(p) \/ TakeDown(p) \/ LetGo(p) \/ Show(p)
    \/ PublishOffer \/ DropOffer \/ Forget

-----------------------------------------------------------------------------
\* Everybody else changes a label, an AppProject or an ArgocdUser
Act ==
    /\ acts' = acts + 1
    /\ \/ /\ \E n \in Namespaces, l \in (SUBSET Projects) \union {None} :
                 asked' = [asked EXCEPT ![n] = l]
          /\ UNCHANGED <<leaving, dest>>
       \/ /\ \E p \in Projects, d \in Published : dest' = [dest EXCEPT ![p] = d]
          /\ UNCHANGED <<asked, leaving>>
       \/ /\ \E S \in SUBSET Projects : leaving' = leaving \union S
          /\ UNCHANGED <<asked, dest>>
    /\ UNCHANGED <<shown, heard, members, offer>>

Next == Operate \/ Act

Spec == Init /\ [][Next]_vars
=============================================================================
