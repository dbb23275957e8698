--------------------------- MODULE MCMailboxImport ---------------------------
(* Instances of MailboxImport for TLC; each .cfg picks its sizes.          *)
EXTENDS MailboxImport, TLC

Symmetry == Permutations(Mail) \cup Permutations(Dav)
=============================================================================
