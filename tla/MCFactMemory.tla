---------------------------- MODULE MCFactMemory ----------------------------
EXTENDS FactMemory, TLC

CONSTANTS w1, w2, w3, d1, d2, p1, p2

Sure(k)   == [key |-> k, confidence |-> 9]
Unsure(k) == [key |-> k, confidence |-> 6]

\* A certain and a doubtful preference in conflict, and a fact of no key.
SomeInputs == {Sure(1), Unsure(1), Sure(None)}
\* Preferences in conflict only.
OneKey == {Sure(1), Unsure(1)}

ASeed == Sure(1)

MemorySymmetry == Permutations({w1, w2, w3}) \cup Permutations({p1, p2})
=============================================================================
