-------------------------- MODULE MCLoginSessions --------------------------
EXTENDS LoginSessions, TLC
LoginSymmetry == Permutations(Kids) \union Permutations(Sessions) \union Permutations(Attempts)
=============================================================================
