----------------------------- MODULE MCScengen -----------------------------
(***************************************************************************)
(* Directory trees for TLC: a root with n directories, of which the first  *)
(* holds m and the second k.                                               *)
(***************************************************************************)
EXTENDS Scengen

Tree(n, m, k) ==
  {<<>>} \cup {<<i>> : i \in 1..n}
         \cup {<<1, i>> : i \in 1..(IF n > 0 THEN m ELSE 0)}
         \cup {<<2, i>> : i \in 1..(IF n > 1 THEN k ELSE 0)}

Chain(n) == {[i \in 1..l |-> 1] : l \in 0..n}

MCTrees == {Tree(n, m, k) : n \in {0, 1, 2, 4, 6, 9, 10, 11}, m \in {0, 1, 5, 6, 9, 10}, k \in {0, 6, 10}}
           \cup {Chain(n) : n \in 1..4}
WideTrees == {Tree(n, 0, 0) : n \in 0..11}
=============================================================================
