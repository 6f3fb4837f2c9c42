------------------------------- MODULE MCAuth -------------------------------
(***************************************************************************)
(* Instances of Auth for TLC: the bound comes from the .cfg file.          *)
(***************************************************************************)
EXTENDS Auth

=============================================================================
