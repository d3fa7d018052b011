----------------------------- MODULE MCSyncJobs -----------------------------
(* Instances of SyncJobs for TLC.                                          *)
EXTENDS SyncJobs, TLC

Symmetry == Permutations(Jobs) \union Permutations(Creators)
               \union Permutations(Accounts) \union Permutations(Cancellers)
=============================================================================
