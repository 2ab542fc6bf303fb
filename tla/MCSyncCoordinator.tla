------------------------- MODULE MCSyncCoordinator -------------------------
(* Small instance of SyncCoordinator for TLC. *)
EXTENDS SyncCoordinator, TLC

\* Enrollments, entities and payloads are interchangeable in every action and property.
Symmetric == Permutations(Enrollment) \cup Permutations(Entity) \cup Permutations(Payload)
=============================================================================
