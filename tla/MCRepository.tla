---------------------------- MODULE MCRepository ----------------------------
(* Repository on small instances: symmetry and a narrower start for the      *)
(* safety runs.                                                              *)
EXTENDS RepositoryInvariant, TLC

Symmetric == Permutations(Client)

\* The tables hold every document, and every shell references every Submodel:
\* all the handlers have something to race for from the first mutation on.
PopulatedInit ==
    /\ Init
    /\ db = [k \in Key |-> IF k \in Shell THEN Submodel ELSE {}]

PopulatedSpec == PopulatedInit /\ [][CarefulNext]_vars
=============================================================================
