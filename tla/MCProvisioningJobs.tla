------------------------- MODULE MCProvisioningJobs -------------------------
(* Instances of ProvisioningJobs for TLC.                                  *)
EXTENDS ProvisioningJobsInvariant, TLC, FiniteSets

(* Ids of jobs and threads are interchangeable; the requests themselves    *)
(* (key, payload, credential) are chosen by the actions.                   *)
Symmetry == Permutations(Jobs) \union Permutations(Creators)
               \union Permutations(Keys) \union Permutations(Cancellers)

(* One credential is registered, a real or a demo one.                     *)
RaceInit == Init /\ Cardinality(credentials) = 1
RaceSpec == RaceInit /\ [][Next]_vars
=============================================================================
