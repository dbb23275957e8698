----------------------------- MODULE MCGraphClient -----------------------------
(* Instances of GraphClient for TLC; the .cfg picks the sizes.             *)
EXTENDS GraphClient
=============================================================================
