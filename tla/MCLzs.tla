------------------------------- MODULE MCLzs --------------------------------
(***************************************************************************)
(* Instances of Lzs for TLC.  Small is a codec with bytes of 4 bits, short *)
(* offsets below 8, a window of 16 and inputs of at most 32 bytes; Tight   *)
(* has a smaller compressBuf, Tiny a smaller decompressBuf; Real has the   *)
(* widths of the code.                                                     *)
(***************************************************************************)
EXTENDS Lzs

Small == [w |-> 4, x |-> 1, p |-> 5, cap |-> 64, room |-> 33]
Tight == [w |-> 4, x |-> 1, p |-> 5, cap |-> 6, room |-> 24]
Tiny  == [w |-> 4, x |-> 1, p |-> 5, cap |-> 64, room |-> 4]
Real  == [w |-> 8, x |-> 4, p |-> 16, cap |-> 4096, room |-> 16384]
MCCodecs == {Small, Tight, Tiny, Real}

AllUpTo(n, S) == UNION {[1..k -> S] : k \in 0..n}

\* A pattern repeated, with one byte changed: long matches, the limits of the
\* length code, and distances beyond the window.
Repeats(lens, pats) ==
  {[i \in 1..n |-> IF i = d THEN 15 ELSE u[((i - 1) % Len(u)) + 1]] :
     n \in lens, u \in pats, d \in {0, 1, 7, 18, 27}}

Patterns == AllUpTo(3, {1, 2}) \ {<<>>}
Primes == {[i \in 1..n |-> (i * i * i + i) % 11] : n \in 1..33}
Ramps  == {[i \in 1..n |-> (i % m)] : n \in {30, 31, 32, 33}, m \in 7..16}

MCPackets(c) ==
  CASE c = Small -> AllUpTo(9, {1, 2}) \cup AllUpTo(6, {0, 8, 15})
                      \cup Repeats(10..33, Patterns) \cup Primes \cup Ramps
    [] c = Tight -> AllUpTo(8, {1, 2}) \cup Repeats({12, 24}, Patterns)
    [] c = Tiny  -> {}
    [] c = Real  -> {g.src : g \in Golden} \cup {[i \in 1..n |-> (i * 7) % 256] : n \in 1..20}
                      \cup {[i \in 1..160 |-> (i % m) + 96] : m \in {3, 130, 140}}
MCFrames(c) ==
  CASE c = Small -> AllUpTo(3, 0..15)
    [] c = Tiny  -> {<<1>> \o f : f \in [1..4 -> {0, 3, 6, 8, 14, 15}]}
    [] OTHER -> {}

=============================================================================
