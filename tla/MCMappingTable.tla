---------------------------- MODULE MCMappingTable ----------------------------
(* Instances of MappingTable for TLC; the .cfg picks the sizes.            *)
EXTENDS MappingTable, TLC

Symmetry == Permutations(Users) \cup Permutations(Addresses)

\* The form as it comes, with a date for the mail, for the mail alone, as a dry run.
WholeOrder == [cats |-> Categories, full |-> Categories, dry |-> FALSE]

MCOrders == {
    WholeOrder,
    [cats |-> Categories, full |-> {"event"},  dry |-> FALSE],
    [cats |-> {"mail"},   full |-> {"mail"},   dry |-> FALSE],
    [cats |-> Categories, full |-> Categories, dry |-> TRUE]}

\* Not everything in one behaviour: mappings are deleted and secrets purged, at most
\* twice, or an item fails, or a job is not of the whole mailbox.
FewOddities ==
    2 * (Cardinality(failed) + Cardinality({j \in Jobs : order[j] \notin {NoOrder, WholeOrder}}))
        + (IF purged > 0 THEN 1 ELSE 0) + (Len(made) - Cardinality(Taken)) <= 2
=============================================================================
