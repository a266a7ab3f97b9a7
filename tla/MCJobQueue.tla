----------------------------- MODULE MCJobQueue -----------------------------
\* Instances of JobQueue for TLC: workers and keys are interchangeable.
EXTENDS JobQueue, TLC

Symmetry == Permutations(Workers) \cup Permutations(Keys) \cup Permutations(Operators)
=============================================================================
