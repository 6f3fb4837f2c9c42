----------------------------- MODULE MCTunDevice -----------------------------
(***************************************************************************)
(* Instances of TunDevice for TLC: the bounds come from the .cfg file.     *)
(***************************************************************************)
EXTENDS TunDevice

=============================================================================
