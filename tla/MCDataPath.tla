----------------------------- MODULE MCDataPath -----------------------------
(***************************************************************************)
(* Instances of DataPath for TLC: the constants come from the .cfg files.  *)
(***************************************************************************)
EXTENDS DataPath

=============================================================================
