---------------------------- MODULE MCQboConnection ----------------------------
EXTENDS QboConnection, TLC

\* Replicas, syncs and grants are interchangeable.
Alike == Permutations(Workers) \cup Permutations(Syncs) \cup Permutations(Grants)
=============================================================================
