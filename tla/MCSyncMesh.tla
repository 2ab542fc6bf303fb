----------------------------- MODULE MCSyncMesh -----------------------------
(* Small instance of SyncMesh for TLC. *)
EXTENDS SyncMesh, TLC

\* Devices, entities and payloads are interchangeable.
MeshSymmetric == Permutations(Enrollment) \cup Permutations(Entity) \cup Permutations(Payload)
=============================================================================
