------------------------------- MODULE MCWharf -------------------------------
EXTENDS Wharf, TLC
Symmetry == Permutations(Session) \cup Permutations(Nonce) \cup Permutations(Artifact)
=============================================================================
