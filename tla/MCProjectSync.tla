--------------------------- MODULE MCProjectSync ---------------------------
(***************************************************************************)
(* Instances of ProjectSync for TLC.  Each starts the operator in one of a *)
(* few clusters, chosen so that Init stays small; Next is not restricted.  *)
(***************************************************************************)
EXTENDS ProjectSync, TLC

LabelledFor(S) == [proj |-> S, src |-> S]

Empty == [dest |-> {}, src |-> {}, roles |-> "declared"]
Edited == [dest |-> Namespaces, src |-> {}, roles |-> "edited"]

SomeEdits == {Absent, Empty, Edited}
FewEdits == {Absent, Edited}

\* Namespaces that are labelled or missing; AppProjects missing, new, or edited
AnyStart ==
    /\ labels \in [Namespaces -> {Absent, LabelledFor(Projects)}]
    /\ user \in [Projects -> {"none", "new", "live", "deleting"}]
    /\ appProj \in [Projects -> {Absent, Empty, Edited}]
    /\ Init

\* Every Namespace labelled, every ArgocdUser live, every AppProject in order
InOrder ==
    /\ labels = [n \in Namespaces |-> LabelledFor(Projects)]
    /\ user = [p \in Projects |-> "live"]
    /\ appProj = [p \in Projects |->
                   [dest |-> Namespaces, src |-> Namespaces, roles |-> "declared"]]
    /\ Init

\* The same, but the project "default" has no ArgocdUser
NoDefaultUser ==
    /\ labels = [n \in Namespaces |-> LabelledFor(Projects)]
    /\ user = [p \in Projects |-> IF p = DefaultProject THEN "none" ELSE "live"]
    /\ appProj = [p \in Projects |->
                   [dest |-> Namespaces, src |-> Namespaces, roles |-> "declared"]]
    /\ Init

\* Every Namespace labelled, but ArgocdUsers may be new and AppProjects missing
Unsettled ==
    /\ labels = [n \in Namespaces |-> LabelledFor(Projects)]
    /\ user \in [Projects -> {"new", "live"}]
    /\ appProj \in [Projects -> {Absent, Edited}]
    /\ Init

\* A cluster nobody has used yet
Unused ==
    /\ labels = [n \in Namespaces |-> Absent]
    /\ user = [p \in Projects |-> "none"]
    /\ appProj = [p \in Projects |-> Absent]
    /\ Init

AnySpec == AnyStart /\ [][Next]_vars
OrderSpec == InOrder /\ [][Next]_vars
NoDefaultSpec == NoDefaultUser /\ [][Next]_vars
UnusedSpec == Unused /\ [][Next]_vars
FairUnsettledSpec == Unsettled /\ [][Next]_vars /\ Fairness

Names == Permutations(Namespaces)
=============================================================================
