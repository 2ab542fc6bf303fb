-------------------------- MODULE MCSyncSnapshots --------------------------
(* Small instance of SyncSnapshots for TLC. *)
EXTENDS SyncSnapshots, TLC

\* Publications, chunks and entities are interchangeable.
Symmetric == Permutations(Publication) \cup Permutations(Chunk) \cup Permutations(Entity)
=============================================================================
