---------------------------- MODULE MCArgocdUser ----------------------------
(***************************************************************************)
(* Instances of ArgocdUser for TLC: two roles, so that one can fail between *)
(* the other's steps; the specs differ in password, members and mode, and  *)
(* two of them list a member twice.                                        *)
(***************************************************************************)
EXTENDS ArgocdUser, TLC

CONSTANTS a, b, long, u, v

TwoRoles == <<"admin", "view">>

Same(x) == [r \in Role |-> x]

Merging == [pass |-> Same(a), users |-> Same({u}), jumbled |-> {"admin"}, auth |-> FALSE]
Strict  == [pass |-> Same(b), users |-> ("admin" :> {u} @@ "view" :> {}),
            jumbled |-> {"admin"}, auth |-> TRUE]
Broken  == [pass |-> ("admin" :> long @@ "view" :> a), users |-> Same({}),
            jumbled |-> {}, auth |-> TRUE]

SomeSpecs == {Merging, Strict, Broken}

\* A cluster without the ArgocdUser: Argo CD is as installed, its ConfigMap without
\* a key, or it is configured and there are Groups of the ArgocdUser's names
Unused ==
    /\ user = Absent
    /\ \/ accounts = {} /\ groups = [r \in Role |-> Absent]
       \/ accounts = {"others"} /\ groups = [r \in Role |-> {v}]
    /\ passwords = [r \in Role |-> Absent]
    /\ jumbled = {}
    /\ Init

\* A cluster where everything is as the spec declares
Managed ==
    /\ user \in [phase : {"live"}, spec : Specs \ {Broken}]
    /\ accounts = Keys
    /\ passwords = user.spec.pass
    /\ groups = user.spec.users
    /\ jumbled = {}
    /\ Init

MCSpec == (Unused \/ Managed) /\ [][Next]_vars
FairMCSpec == MCSpec /\ Fairness
=============================================================================
