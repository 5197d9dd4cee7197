------------------------------ MODULE MCTaskPlan ------------------------------
(* Instances of TaskPlan for TLC. *)
EXTENDS TaskPlan, TLC

CONSTANTS a, b, c

Chains == {<<>>} \cup {<<k>> : k \in Keys}
Symmetry == Permutations(Keys)

\* Up to three steps that wait for one another, for two others, or name one twice.
Lists == {<<>>, <<a>>, <<a, b>>, <<b, b>>}
=============================================================================
