-------------------------- MODULE MCRequestPoolClients -------------------------
EXTENDS RequestPoolClients, TLC

\* Threads with the same calls are interchangeable.
ThreadSymmetry == Permutations(Getters)
================================================================================
