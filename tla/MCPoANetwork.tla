---------------------------- MODULE MCPoANetwork ----------------------------
(***************************************************************************)
(* Small instances of PoANetwork for TLC: the three nodes of keys.py, the  *)
(* lists of nodes a client may pass, and the symmetry of the model.        *)
(***************************************************************************)
EXTENDS PoANetwork, TLC

(* Every order in which a client may list all the nodes.                   *)
AllRoutes == {r \in [1..Cardinality(Nodes) -> Nodes] :
                 \A i, j \in DOMAIN r : r[i] = r[j] => i = j}

(* The orders of test_any_node_can_be_the_proposal_entry_point.            *)
EntryRoutes ==
    LET size == Cardinality(Nodes)
        first == CHOOSE r \in AllRoutes : TRUE
    IN  {[i \in 1..size |-> first[((i + shift - 1) % size) + 1]] : shift \in {0, size - 1}}

(* Nodes, clients and payloads are interchangeable: nothing in the code or *)
(* the invariants names one of them.                                       *)
Symmetry == Permutations(Nodes) \union Permutations(Clients) \union Permutations(Payloads)
=============================================================================
