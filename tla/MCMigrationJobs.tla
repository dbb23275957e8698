--------------------------- MODULE MCMigrationJobs ---------------------------
(* Instances of MigrationJobs for TLC; each .cfg picks its sizes.          *)
EXTENDS MigrationJobs, TLC

\* Mappings, pool threads and request threads are interchangeable.
Symmetry == Permutations(Mappings) \cup Permutations(Workers) \cup Permutations(Creators)

\* Bound: one job is cancelled, or is about to be, or one mapping is deleted.
OneIntervention ==
    LET hit == {j \in Jobs : status[j] = "cancelled" \/ j \in Range(xjob)} IN
    Cardinality(hit) + Cardinality(Mappings \ present) <= 1
=============================================================================
