---------------------------- MODULE MCMembership ----------------------------
EXTENDS Membership, TLC

Symmetry ==
    Permutations(Requests) \cup Permutations(Users) \cup Permutations(Agents)
        \cup Permutations(Vocabulary) \cup Permutations(Challenges)
        \cup Permutations(Sockets)
=============================================================================
