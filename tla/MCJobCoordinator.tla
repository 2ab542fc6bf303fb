-------------------------- MODULE MCJobCoordinator --------------------------
EXTENDS JobCoordinator, TLC

JobSymmetric == Permutations(Job)
=============================================================================
