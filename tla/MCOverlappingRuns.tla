-------------------------- MODULE MCOverlappingRuns --------------------------
(* Instances of OverlappingRuns for TLC; the .cfg picks the sizes.         *)
EXTENDS OverlappingRuns

\* Bound of the run: after requests that overlapped, a job is cancelled or a
\* third one asked for, not both.
OneIntervention ==
    \/ raced = {} \/ \A r \in Runs : job[r] # "cancelled"
    \/ Cardinality({r \in Runs : job[r] # "none"}) < 3
=============================================================================
