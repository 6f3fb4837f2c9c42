---------------------------- MODULE MCLifecycle ----------------------------
(***************************************************************************)
(* Instances of Lifecycle for TLC.                                         *)
(***************************************************************************)
EXTENDS Lifecycle, TLC

\* Clients are interchangeable in the runs that check only safety.
ClientSymmetry == Permutations(Clients)

\* Nothing ever reads routes or intent, and what the races run checks speaks
\* of neither beyond their types: states that differ only there count as one.
Observed == <<sessVars, threadVars, goVars, asked, agent>>

=============================================================================
