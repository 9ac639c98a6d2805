------------------------------ MODULE MCEaBridge ------------------------------
EXTENDS EaBridge, TLC

CONSTANTS a1, a2, t1, t2, t3

Symmetry == Permutations(Ticket)
=============================================================================
