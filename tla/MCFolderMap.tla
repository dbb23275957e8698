----------------------------- MODULE MCFolderMap -----------------------------
(* Instances of FolderMap for TLC; each .cfg picks its sizes.              *)
EXTENDS FolderMap, TLC

Symmetry == Permutations(Folders \ WellKnown) \cup Permutations(Names \ WellKnown)
=============================================================================
