----------------------------- MODULE MCLinuxNet -----------------------------
(***************************************************************************)
(* Instances of LinuxNet for TLC: global mode, one excluded network, and a *)
(* name whose two answers overlap.                                         *)
(***************************************************************************)
EXTENDS LinuxNet, TLC

\* No property speaks of what follows once sessions have run into each other.
Apart == Spared({"overlap", "early"})

SnifferSymmetry == Permutations(Sniffers)

=============================================================================
