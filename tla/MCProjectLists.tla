--------------------------- MODULE MCProjectLists ---------------------------
(***************************************************************************)
(* An instance of ProjectLists for TLC: the environment lists repositories  *)
(* out of order, twice, or not at all; people add one of their own, in any *)
(* place, and write lists that the operator would not.                     *)
(***************************************************************************)
EXTENDS ProjectLists

\* Repositories are numbers, and their order is that of numbers
InOrder == [S \in SUBSET Repos |-> SetToSortSeq(S, <)]

SomeEnvs == {[public |-> <<2, 1, 2>>, admin |-> FALSE],
             [public |-> <<>>, admin |-> TRUE]}

Edited(list, roles) == [dest |-> <<>>, repos |-> list, roles |-> roles, cluster |-> "edited"]

SomeEdits == {Absent, Edited(<<3, 1>>, "declared"), Edited(<<3, 3>>, "edited"),
              Edited(<<>>, "declared")}

\* No AppProject yet, or one that the operator wrote
Before == {Absent,
           [dest |-> <<>>, repos |-> <<>>, roles |-> "declared", cluster |-> "denied"],
           [dest |-> <<"m", "n">>, repos |-> <<1, 2>>, roles |-> "declared",
            cluster |-> "denied"]}

BeforeInit == project \in Before /\ Init

MCSpec == BeforeInit /\ [][Next]_vars /\ Fairness
=============================================================================
