----------------------------- MODULE LzsProofs ------------------------------
(***************************************************************************)
(* Proofs about Lzs, for every codec and every packet: the hash chains are *)
(* sound and what is sent as a match is one (ChainSound), neither buffer   *)
(* is overrun (BuffersHold), and what is decompressed is what was          *)
(* compressed (RoundTrip).                                                 *)
(*                                                                         *)
(* The first half proves the invariant Inv of the compressor's tables and  *)
(* of the two buffers.  The second follows the bits: the output so far is  *)
(* a bit string that falls into symbols, each of which stands for the      *)
(* bytes of the packet between two positions, and the decompressor reads   *)
(* the same symbols and copies those bytes.                                *)
(***************************************************************************)
EXTENDS Lzs, WellFoundedInduction, TLAPS

-----------------------------------------------------------------------------
(* Arithmetic.                                                             *)

\* What the provers know of the remainder for a divisor that is a variable.
LEMMA DivMod ==
  ASSUME NEW m \in Nat \ {0}, NEW i \in Nat
  PROVE  /\ i % m \in 0..(m - 1) /\ i \div m \in Nat
         /\ i % m = i - m * (i \div m)
  OBVIOUS

\* A remainder, read off.
LEMMA Residue ==
  ASSUME NEW m \in Nat \ {0}, NEW q \in Nat, NEW r \in 0..(m - 1)
  PROVE  (m * q + r) % m = r
  <1> m * q + r \in Nat
    OBVIOUS
  <1> QED
    OBVIOUS

\* Positions that are less than m apart have different residues.
LEMMA Apart ==
  ASSUME NEW m \in Nat \ {0}, NEW i \in Nat, NEW j \in Nat, i < j, j - i < m
  PROVE  i % m # j % m
  <1> DEFINE a == i \div m
             b == j \div m
  <1>1. /\ i % m = i - m * a /\ j % m = j - m * b
        /\ a \in Nat /\ b \in Nat
    BY DivMod
  <1> HIDE DEF a, b
  <1> SUFFICES ASSUME i % m = j % m PROVE FALSE
    OBVIOUS
  <1>2. j - i = m * b - m * a
    BY <1>1, m * a \in Int, m * b \in Int
  <1>3. CASE b <= a
    <2>1. m * b <= m * a
      BY <1>1, <1>3
    <2> QED
      BY <1>1, <1>2, <2>1, m * a \in Int, m * b \in Int
  <1>4. CASE b > a
    <2>1. m * a + m <= m * b
      BY <1>1, <1>4
    <2> QED
      BY <1>1, <1>2, <2>1, m * a \in Int, m * b \in Int
  <1> QED
    BY <1>1, <1>3, <1>4

\* One turn back in the window leaves the remainder as it is.
LEMMA Shift ==
  ASSUME NEW m \in Nat \ {0}, NEW i \in Nat, i >= m
  PROVE  (i - m) % m = i % m
  <1> DEFINE a == (i - m) \div m
             r == (i - m) % m
  <1>1. i - m \in Nat
    OBVIOUS
  <1>2. r \in 0..(m - 1) /\ a \in Nat /\ r = (i - m) - m * a
    BY <1>1, DivMod
  <1> HIDE DEF a, r
  <1>3. i = m * (a + 1) + r
    BY <1>2
  <1>4. i % m = r
    BY <1>2, <1>3, Residue, a + 1 \in Nat
  <1> QED
    BY <1>4 DEF r

\* A set of numbers has a least element.
LEMMA Least ==
  ASSUME NEW T, T \subseteq Nat, T # {}
  PROVE  \E x \in T : \A y \in T : x <= y
  <1> DEFINE R == OpToRel(<, Nat)
  <1>1. IsWellFoundedOn(R, Nat)
    BY NatLessThanWellFounded
  <1>2. \A y, x \in Nat : y < x => <<y, x>> \in R
    BY DEF OpToRel
  <1> HIDE DEF R
  <1>3. PICK x \in T : \A y \in T : ~(<<y, x>> \in R)
    BY <1>1, WFMin
  <1>4. \A y \in T : ~(y < x)
    BY <1>2, <1>3, Zenon
  <1>5. \A y \in Nat : ~(y < x) => x <= y
    OBVIOUS
  <1> QED
    BY <1>4, <1>5, Zenon

-----------------------------------------------------------------------------
(* The widths of the codec in use.                                         *)

Widths ==
  /\ codec \in Codecs
  /\ W \in Nat /\ W >= 4
  /\ codec.x \in Nat /\ codec.x < W
  /\ codec.cap \in Nat /\ codec.room \in Nat
  /\ \A n \in 0..(3 * W) : 2 ^ n \in Nat \ {0}
  /\ \A m, n \in 0..(3 * W) : m + n <= 3 * W => 2 ^ (m + n) = 2 ^ m * 2 ^ n
  /\ MaxHistory \in Nat \ {0}
  /\ InvalidOfs \in Nat

\* Every codec has them.
LEMMA CodecWidths ==
  ASSUME codec \in Codecs PROVE Widths
  <1>1. /\ W \in Nat /\ W >= 4 /\ codec.x \in Nat /\ codec.x < W
        /\ codec.cap \in Nat /\ codec.room \in Nat
    BY CodecAssumption DEF W
  <1>2. /\ \A n \in 0..(3 * W) : 2 ^ n \in Nat \ {0}
        /\ \A m, n \in 0..(3 * W) : m + n <= 3 * W => 2 ^ (m + n) = 2 ^ m * 2 ^ n
        /\ 2 ^ codec.p \in Nat \ {0}
    BY PowerAssumption DEF W
  <1>3. W - 1 + codec.x \in 0..(3 * W)
    BY <1>1
  <1>4. MaxHistory \in Nat \ {0} /\ InvalidOfs \in Nat
    BY <1>2, <1>3 DEF MaxHistory, InvalidOfs
  <1> QED
    BY <1>1, <1>2, <1>4 DEF Widths

LEMMA Powers ==
  ASSUME Widths
  PROVE  \A n \in 0..(2 * W) : 2 ^ n \in Nat \ {0}
  <1>1. \A n \in 0..(2 * W) : n \in 0..(3 * W)
    BY DEF Widths
  <1> QED
    BY <1>1 DEF Widths

-----------------------------------------------------------------------------
(* putBits: nothing is lost, and less than a byte stays pending.           *)

Made(st) == W * Len(st.dst) + st.nr
Pending == [dst : Seq(Bytes(codec)), acc : Nat, nr : 0..(3 * W - 1), full : BOOLEAN]
Output == {st \in Pending : Len(st.dst) <= codec.cap /\ (st.full \/ st.nr < W)}
Tokens == [nr : 0..(2 * W), val : Nat]

\* One byte goes out of those that are pending, or the buffer is full.
LEMMA PutByteSound ==
  ASSUME Widths, NEW st \in Pending, st.nr >= W, Len(st.dst) <= codec.cap
  PROVE  /\ PutByte(st) \in Pending
         /\ Len(PutByte(st).dst) <= codec.cap
         /\ Made(PutByte(st)) = Made(st)
         /\ PutByte(st).full /\ ~st.full => Made(st) >= W * codec.cap + W
         /\ ~PutByte(st).full => PutByte(st).nr = st.nr - W
  <1>1. /\ st.acc \in Nat /\ st.dst \in Seq(Bytes(codec)) /\ st.nr \in 0..(3 * W - 1)
        /\ st.full \in BOOLEAN /\ Len(st.dst) \in Nat
        /\ st = [dst |-> st.dst, acc |-> st.acc, nr |-> st.nr, full |-> st.full]
    BY DEF Pending
  <1>2. W \in Nat /\ W >= 4 /\ codec.cap \in Nat
    BY DEF Widths
  <1>3. CASE Len(st.dst) = codec.cap
    <2>1. PutByte(st) = [dst |-> st.dst, acc |-> st.acc, nr |-> st.nr, full |-> TRUE]
      BY <1>1, <1>3 DEF PutByte
    <2>2. PutByte(st) \in Pending /\ Made(PutByte(st)) = Made(st) /\ PutByte(st).full
      BY <1>1, <2>1 DEF Pending, Made
    <2>3. Made(st) >= W * codec.cap + W
      BY <1>1, <1>2, <1>3 DEF Made
    <2> QED
      BY <1>2, <1>3, <2>1, <2>2, <2>3
  <1>4. CASE Len(st.dst) # codec.cap
    <2> DEFINE byte == (st.acc \div 2 ^ (st.nr - W)) % 2 ^ W
               low  == st.acc % 2 ^ (st.nr - W)
    <2>1. st.nr - W \in 0..(2 * W) /\ W \in 0..(2 * W)
      BY <1>1, <1>2
    <2>2. 2 ^ (st.nr - W) \in Nat \ {0} /\ 2 ^ W \in Nat \ {0}
      BY <2>1 DEF Widths
    <2>3. byte \in Bytes(codec) /\ low \in Nat
      <3>1. st.acc \div 2 ^ (st.nr - W) \in Nat /\ low \in Nat
        BY <1>1, <2>2, DivMod
      <3>2. byte \in 0..(2 ^ W - 1)
        BY <2>2, <3>1, DivMod
      <3> QED
        BY <3>1, <3>2 DEF Bytes, W
    <2>4. PutByte(st) = [st EXCEPT !.dst = Append(@, byte), !.acc = low, !.nr = @ - W]
      BY <1>4 DEF PutByte
    <2> HIDE DEF byte, low
    <2>5. PutByte(st) = [dst |-> Append(st.dst, byte), acc |-> low, nr |-> st.nr - W, full |-> st.full]
      BY <1>1, <2>4
    <2>6. Append(st.dst, byte) \in Seq(Bytes(codec)) /\ Len(Append(st.dst, byte)) = Len(st.dst) + 1
      BY <1>1, <2>3
    <2>7. st.nr - W \in 0..(3 * W - 1)
      BY <1>1, <1>2
    <2>8. PutByte(st) \in Pending
      BY <1>1, <2>3, <2>5, <2>6, <2>7 DEF Pending
    <2>9. W * (Len(st.dst) + 1) + (st.nr - W) = W * Len(st.dst) + st.nr
      BY <1>1, <1>2
    <2>10. Made(PutByte(st)) = Made(st)
      BY <2>5, <2>6, <2>9 DEF Made
    <2> QED
      BY <1>1, <1>2, <1>4, <2>5, <2>6, <2>8, <2>10
  <1> QED
    BY <1>3, <1>4

\* A token adds its bits; the buffer only fills up when they do not fit.
LEMMA PutBitsSound ==
  ASSUME Widths, NEW st \in Output, NEW t \in Tokens
  PROVE  /\ PutBits(st, t) \in Output
         /\ Made(PutBits(st, t)) <= Made(st) + t.nr
         /\ PutBits(st, t).full /\ ~st.full => Made(st) + t.nr >= W * codec.cap + W
         /\ st.full => PutBits(st, t).full
  <1> DEFINE sum   == st.acc * 2 ^ t.nr + t.val
             added == [dst |-> st.dst, acc |-> sum, nr |-> st.nr + t.nr, full |-> st.full]
             wide  == IF t.nr > W THEN PutByte(added) ELSE added
             last  == IF wide.nr >= W THEN PutByte(wide) ELSE wide
  <1>1. /\ st.dst \in Seq(Bytes(codec)) /\ st.acc \in Nat /\ st.nr \in Nat
        /\ st.full \in BOOLEAN /\ Len(st.dst) \in Nat /\ Len(st.dst) <= codec.cap
        /\ st = [dst |-> st.dst, acc |-> st.acc, nr |-> st.nr, full |-> st.full]
        /\ st \in Pending
    BY DEF Output, Pending
  <1>2. t.nr \in 0..(2 * W) /\ t.val \in Nat
    BY DEF Tokens
  <1>3. W \in Nat /\ W >= 4 /\ codec.cap \in Nat
    BY DEF Widths
  <1>4. W * Len(st.dst) \in Nat /\ Made(st) \in Nat
    BY <1>1, <1>3 DEF Made
  <1>5. sum \in Nat
    <2>1. 2 ^ t.nr \in Nat
      BY <1>2 DEF Widths
    <2> QED
      BY <1>1, <1>2, <2>1
  <1>6. PutBits(st, t) = IF st.full \/ wide.full THEN [st EXCEPT !.full = TRUE] ELSE last
    BY DEF PutBits
  <1> HIDE DEF sum
  <1>7. CASE st.full
    <2>1. PutBits(st, t) = st
      BY <1>1, <1>6, <1>7
    <2> QED
      BY <1>2, <1>3, <1>4, <1>7, <2>1
  <1>8. CASE ~st.full
    <2>1. st.nr < W /\ st.nr + t.nr \in 0..(3 * W - 1)
      <3>1. st.nr < W
        BY <1>8 DEF Output
      <3> QED
        BY <1>1, <1>2, <1>3, <3>1
    <2>2. added = [dst |-> st.dst, acc |-> sum, nr |-> st.nr + t.nr, full |-> st.full]
      OBVIOUS
    <2>3. added \in Pending
      BY <1>1, <1>5, <2>1, <2>2 DEF Pending
    <2>4. /\ added.dst = st.dst /\ added.nr = st.nr + t.nr /\ ~added.full
          /\ Made(added) = Made(st) + t.nr
      <3>1. added.dst = st.dst /\ added.nr = st.nr + t.nr /\ added.full = st.full
        BY <2>2
      <3>2. W * Len(st.dst) + (st.nr + t.nr) = (W * Len(st.dst) + st.nr) + t.nr
        BY <1>1, <1>2, <1>3, <1>4
      <3> QED
        BY <1>8, <3>1, <3>2 DEF Made
    <2> HIDE DEF added
    <2>5. /\ wide \in Pending /\ Len(wide.dst) <= codec.cap
          /\ Made(wide) = Made(added)
          /\ wide.full => Made(added) >= W * codec.cap + W
          /\ ~wide.full => wide.nr < 2 * W
      <3>1. CASE t.nr > W
        <4>1. added.nr >= W /\ added.nr - W < 2 * W
          BY <1>1, <1>2, <1>3, <2>1, <2>4, <3>1
        <4> QED
          BY <1>1, <2>3, <2>4, <3>1, <4>1, PutByteSound
      <3>2. CASE ~(t.nr > W)
        <4>1. wide = added
          BY <3>2
        <4>2. added.nr < 2 * W
          BY <1>1, <1>2, <1>3, <2>1, <2>4, <3>2
        <4> QED
          BY <1>1, <2>3, <2>4, <4>1, <4>2
      <3> QED
        BY <3>1, <3>2
    <2> HIDE DEF wide
    <2>6. CASE wide.full
      <3>1. PutBits(st, t) = [dst |-> st.dst, acc |-> st.acc, nr |-> st.nr, full |-> TRUE]
        BY <1>1, <1>6, <2>6
      <3>2. PutBits(st, t) \in Pending
        BY <1>1, <3>1 DEF Pending
      <3>3. PutBits(st, t) \in Output
        BY <1>1, <3>1, <3>2 DEF Output
      <3>4. Made(PutBits(st, t)) = Made(st)
        BY <3>1 DEF Made
      <3> QED
        BY <1>2, <1>4, <1>8, <2>4, <2>5, <2>6, <3>3, <3>4
    <2>7. CASE ~wide.full
      <3>1. PutBits(st, t) = last
        BY <1>6, <1>8, <2>7
      <3>2. CASE wide.nr >= W
        <4>1. last = PutByte(wide)
          BY <3>2
        <4>2. /\ last \in Pending /\ Len(last.dst) <= codec.cap /\ Made(last) = Made(wide)
              /\ last.full => Made(wide) >= W * codec.cap + W
              /\ ~last.full => last.nr = wide.nr - W
          BY <2>5, <2>7, <3>2, <4>1, PutByteSound
        <4>3. ~last.full => last.nr < W
          BY <1>3, <2>5, <2>7, <4>2 DEF Pending
        <4> QED
          BY <1>2, <1>4, <1>8, <2>4, <2>5, <3>1, <4>2, <4>3 DEF Output
      <3>3. CASE ~(wide.nr >= W)
        <4>1. last = wide
          BY <3>3
        <4>2. wide.nr < W
          BY <1>3, <2>5, <3>3 DEF Pending
        <4> QED
          BY <1>2, <1>4, <1>8, <2>4, <2>5, <2>7, <3>1, <4>1, <4>2 DEF Output
      <3> QED
        BY <3>2, <3>3
    <2> QED
      BY <2>6, <2>7
  <1> QED
    BY <1>7, <1>8

-----------------------------------------------------------------------------
(* getBits: reads within the frame, and a byte boundary is never passed by *)
(* more than the bits it holds.                                            *)

Reader == [si : Nat, left : 1..W, data : Nat, short : BOOLEAN]
WithinFrame(st) == st.si <= Len(frame.data)

\* Reading leaves the reader within the frame.
LEMMA GetBitsSound ==
  ASSUME Widths, frame.data \in Seq(Bytes(codec)),
         NEW st \in Reader, WithinFrame(st), NEW n \in 0..(W + 1)
  PROVE  GetBits(st, n) \in Reader /\ WithinFrame(GetBits(st, n))
  <1> DEFINE more == st.left + W - n
             head == (F(st.si) * 2 ^ (n - st.left)) % 2 ^ n
             both == n > W \/ more < W
             flush == n > W /\ more = 0
             tail == IF both THEN F(st.si + 1) \div 2 ^ more ELSE 0
  <1>1. /\ st.si \in Nat /\ st.left \in 1..W /\ st.data \in Nat
        /\ st = [si |-> st.si, left |-> st.left, data |-> st.data, short |-> st.short]
        /\ st.short \in BOOLEAN
    BY DEF Reader
  <1>2. W \in Nat /\ W >= 4 /\ Len(frame.data) \in Nat
    BY DEF Widths
  <1>3. CASE st.short \/ Len(frame.data) - st.si < 2
    <2>1. GetBits(st, n) = [si |-> st.si, left |-> st.left, data |-> st.data, short |-> TRUE]
      BY <1>1, <1>3 DEF GetBits
    <2> QED
      BY <1>1, <2>1 DEF Reader, WithinFrame
  <1>4. CASE ~(st.short \/ Len(frame.data) - st.si < 2)
    <2>1. st.si + 2 <= Len(frame.data)
      BY <1>1, <1>2, <1>4
    <2>2. F(st.si) \in Nat /\ F(st.si + 1) \in Nat
      <3>1. st.si + 1 \in 1..Len(frame.data) /\ st.si + 1 + 1 \in 1..Len(frame.data)
        BY <1>1, <1>2, <2>1
      <3>2. \A b \in Bytes(codec) : b \in Nat
        BY DEF Bytes
      <3> QED
        BY <3>1, <3>2 DEF F
    <2>3. 2 ^ n \in Nat \ {0}
      BY <1>2 DEF Widths
    <2>4. CASE n >= W \/ n >= st.left
      <3>1. n - st.left \in 0..(2 * W) /\ more \in 0..(2 * W) /\ more <= W
        BY <1>1, <1>2, <2>4
      <3>2. 2 ^ (n - st.left) \in Nat \ {0} /\ 2 ^ more \in Nat \ {0}
        BY <3>1 DEF Widths
      <3>3. F(st.si) * 2 ^ (n - st.left) \in Nat
        BY <2>2, <3>2
      <3>4. head \in Nat
        <4> DEFINE shifted == F(st.si) * 2 ^ (n - st.left)
        <4>1. shifted \in Nat
          BY <3>3
        <4> HIDE DEF shifted
        <4>2. shifted % 2 ^ n \in Nat
          BY <2>3, <4>1, DivMod
        <4> QED
          BY <4>2 DEF shifted
      <3>5. tail \in Nat
        BY <2>2, <3>2, DivMod
      <3>6. GetBits(st, n) = [si    |-> st.si + (IF flush THEN 2 ELSE 1),
                              left  |-> IF flush THEN W ELSE more,
                              data  |-> head + tail,
                              short |-> FALSE]
        BY <1>4, <2>4 DEF GetBits
      <3>7. (IF flush THEN W ELSE more) \in 1..W
        BY <1>1, <1>2, <2>4, <3>1
      <3>8. /\ st.si + (IF flush THEN 2 ELSE 1) \in Nat
            /\ st.si + (IF flush THEN 2 ELSE 1) <= Len(frame.data)
        BY <1>1, <1>2, <2>1
      <3> HIDE DEF more, head, tail, flush
      <3> QED
        BY <3>4, <3>5, <3>6, <3>7, <3>8 DEF Reader, WithinFrame
    <2>5. CASE ~(n >= W \/ n >= st.left)
      <3> DEFINE val == (F(st.si) \div 2 ^ (st.left - n)) % 2 ^ n
      <3>1. st.left - n \in 0..(2 * W) /\ st.left - n \in 1..W
        BY <1>1, <1>2, <2>5
      <3>2. 2 ^ (st.left - n) \in Nat \ {0}
        BY <3>1 DEF Widths
      <3>3. F(st.si) \div 2 ^ (st.left - n) \in Nat
        BY <2>2, <3>2, DivMod
      <3>4. val \in Nat
        BY <2>3, <3>3, DivMod
      <3>5. GetBits(st, n) = [si |-> st.si, left |-> st.left - n, data |-> val, short |-> FALSE]
        BY <1>4, <2>5 DEF GetBits
      <3> HIDE DEF val
      <3> QED
        BY <1>1, <3>1, <3>4, <3>5 DEF Reader, WithinFrame
    <2> QED
      BY <2>4, <2>5
  <1> QED
    BY <1>3, <1>4

-----------------------------------------------------------------------------
(* The hash table and the chains.                                          *)

TableOK(t, n) == \A h \in DOMAIN t : t[h] \in 0..(n - 1) /\ Hash(t[h]) = h

Link(q, i) == q = InvalidOfs \/ (q \in 0..(i - 1) /\ Hash(q) = Hash(i))

LinksOK(c, n) ==
  \A i \in 0..(n - 1) : i + MaxHistory >= n =>
    i % MaxHistory \in DOMAIN c /\ Link(c[i % MaxHistory], i)

\* What the table has for two bytes links the position they are at.
LEMMA LookupLinks ==
  ASSUME NEW n \in Nat, TableOK(hashTable, n)
  PROVE  Link(Lookup(Hash(n)), n)
  BY DEF TableOK, Link, Lookup

\* Inserting the next position keeps both sound: the entry of the chain that it
\* overwrites belongs to a position that has just left the window.
LEMMA InsertSound ==
  ASSUME Widths, NEW n \in Nat, TableOK(hashTable, n), LinksOK(hashChain, n), Insert(n)
  PROVE  TableOK(hashTable', n + 1) /\ LinksOK(hashChain', n + 1)
  <1>1. TableOK(hashTable', n + 1)
    <2> SUFFICES ASSUME NEW h \in DOMAIN hashTable'
                 PROVE  hashTable'[h] \in 0..n /\ Hash(hashTable'[h]) = h
      BY DEF TableOK
    <2>1. hashTable' = [j \in DOMAIN hashTable \cup {Hash(n)} |->
                          IF j = Hash(n) THEN n ELSE hashTable[j]]
      BY DEF Insert, With
    <2>2. CASE h = Hash(n)
      BY <2>1, <2>2
    <2>3. CASE h # Hash(n)
      <3>1. h \in DOMAIN hashTable /\ hashTable'[h] = hashTable[h]
        BY <2>1, <2>3
      <3>2. hashTable[h] \in 0..(n - 1) /\ Hash(hashTable[h]) = h
        BY <3>1 DEF TableOK
      <3> QED
        BY <3>1, <3>2
    <2> QED
      BY <2>2, <2>3
  <1>2. LinksOK(hashChain', n + 1)
    <2> SUFFICES ASSUME NEW i \in 0..n, i + MaxHistory >= n + 1
                 PROVE  /\ i % MaxHistory \in DOMAIN hashChain'
                        /\ Link(hashChain'[i % MaxHistory], i)
      BY DEF LinksOK
    <2>1. hashChain' = [j \in DOMAIN hashChain \cup {n % MaxHistory} |->
                          IF j = n % MaxHistory THEN Lookup(Hash(n)) ELSE hashChain[j]]
      BY DEF Insert, With
    <2>2. CASE i = n
      BY <2>1, <2>2, LookupLinks
    <2>3. CASE i # n
      <3>1. i \in 0..(n - 1) /\ i + MaxHistory >= n /\ i < n /\ n - i < MaxHistory
        BY <2>3 DEF Widths
      <3>2. i % MaxHistory # n % MaxHistory
        <4>1. MaxHistory \in Nat \ {0} /\ i \in Nat
          BY DEF Widths
        <4> QED
          BY <3>1, <4>1, Apart
      <3>3. i % MaxHistory \in DOMAIN hashChain /\ Link(hashChain[i % MaxHistory], i)
        BY <3>1 DEF LinksOK
      <3> QED
        BY <2>1, <3>2, <3>3
    <2> QED
      BY <2>2, <2>3
  <1> QED
    BY <1>1, <1>2

-----------------------------------------------------------------------------
(* The search for the longest match.                                       *)

\* The loop that lengthens a match stops, at the first byte that differs or at
\* the end of the input.
LEMMA MatchLengthSound ==
  ASSUME NEW h \in Nat, NEW len \in Nat, inpos \in Nat, SrcLen \in Nat, len + inpos < SrcLen
  PROVE  /\ MatchLength(h, len) \in (len + 1)..(SrcLen - inpos)
         /\ \A j \in (len + 1)..(MatchLength(h, len) - 1) : B(j + inpos) = B(j + h)
  <1> DEFINE Stop(k) == k + inpos = SrcLen \/ B(k + inpos) # B(k + h)
             T == {k \in (len + 1)..(SrcLen - inpos) : Stop(k)}
  <1>1. T \subseteq Nat /\ SrcLen - inpos \in T
    OBVIOUS
  <1>2. PICK k \in T : \A y \in T : k <= y
    BY <1>1, Least
  <1>3. \A j \in (len + 1)..(k - 1) : B(j + inpos) = B(j + h)
    <2> SUFFICES ASSUME NEW j \in (len + 1)..(k - 1), B(j + inpos) # B(j + h) PROVE FALSE
      OBVIOUS
    <2>1. j \in T
      BY <1>2
    <2> QED
      BY <1>2, <2>1
  <1>4. \E m \in (len + 1)..(SrcLen - inpos) :
           /\ m + inpos = SrcLen \/ B(m + inpos) # B(m + h)
           /\ \A j \in (len + 1)..(m - 1) : B(j + inpos) = B(j + h)
    BY <1>2, <1>3
  <1> QED
    BY <1>4 DEF MatchLength

\* A step along the chain keeps the longest match a match.
LEMMA LongerMatch ==
  ASSUME Widths, inpos \in Nat, SrcLen \in Nat,
         NEW h \in 0..(inpos - 1), h + MaxHistory > inpos, Hash(h) = Hash(inpos),
         NEW len \in Nat, len >= 2, len + inpos < SrcLen,
         \A j \in 2..len : B(h + j) = B(inpos + j)
  PROVE  IsMatch(inpos, h, MatchLength(h, len))
  <1> DEFINE k == MatchLength(h, len)
  <1>1. /\ k \in (len + 1)..(SrcLen - inpos)
        /\ \A j \in (len + 1)..(k - 1) : B(j + inpos) = B(j + h)
    BY MatchLengthSound
  <1> HIDE DEF k
  <1>2. \A j \in 0..(k - 1) : B(h + j) = B(inpos + j)
    <2> SUFFICES ASSUME NEW j \in 0..(k - 1) PROVE B(h + j) = B(inpos + j)
      OBVIOUS
    <2>1. CASE j < 2
      <3>1. B(h) = B(inpos) /\ B(h + 1) = B(inpos + 1)
        BY DEF Hash
      <3>2. j = 0 \/ j = 1
        BY <2>1
      <3>3. h + 0 = h /\ inpos + 0 = inpos
        OBVIOUS
      <3> QED
        BY <3>1, <3>2, <3>3
    <2>2. CASE j \in 2..len
      BY <2>2
    <2>3. CASE j \in (len + 1)..(k - 1)
      <3>1. j + inpos = inpos + j /\ j + h = h + j
        OBVIOUS
      <3> QED
        BY <1>1, <2>3, <3>1
    <2> QED
      BY <1>1, <2>1, <2>2, <2>3
  <1> QED
    BY <1>1, <1>2 DEF IsMatch, k

\* Bytes that repeat at a distance are those of the first period.
LEMMA Periodic ==
  ASSUME NEW at \in Nat, NEW ofs \in Nat, ofs < at, NEW len \in Nat,
         \A j \in 0..(len - 1) : B(ofs + j) = B(at + j)
  PROVE  \A k \in 0..(len - 1) : B(at + k) = B(ofs + (k % (at - ofs)))
  <1> DEFINE d == at - ofs
             T == {k \in 0..(len - 1) : B(at + k) # B(ofs + (k % d))}
  <1>1. d \in Nat \ {0} /\ at = ofs + d
    OBVIOUS
  <1> HIDE DEF d
  <1> SUFFICES ASSUME T # {} PROVE FALSE
    BY DEF d
  <1>2. PICK k \in T : \A y \in T : k <= y
    <2>1. T \subseteq Nat
      OBVIOUS
    <2> QED
      BY <2>1, Least
  <1>3. k \in Nat /\ k <= len - 1 /\ B(at + k) # B(ofs + (k % d))
    BY <1>2
  <1>4. B(ofs + k) = B(at + k)
    BY <1>3
  <1>5. CASE k < d
    <2>1. k % d = k
      BY <1>1, <1>3, <1>5
    <2> QED
      BY <1>3, <1>4, <2>1
  <1>6. CASE ~(k < d)
    <2>1. k - d \in 0..(len - 1) /\ ~(k <= k - d) /\ k >= d
      BY <1>1, <1>3, <1>6
    <2>2. k - d \notin T
      BY <1>2, <2>1
    <2>3. B(at + (k - d)) = B(ofs + ((k - d) % d))
      BY <2>1, <2>2
    <2>4. (k - d) % d = k % d
      BY <1>1, <1>3, <2>1, Shift
    <2>5. at + (k - d) = ofs + k
      BY <1>1, <1>3
    <2> QED
      BY <1>3, <1>4, <2>3, <2>4, <2>5
  <1> QED
    BY <1>5, <1>6

\* The receiver's copy of a match is what the packet has there.
LEMMA CopyRestores ==
  ASSUME src \in Seq(Bytes(codec)), NEW at \in Nat, NEW ofs, NEW len, IsMatch(at, ofs, len)
  PROVE  Copied(SubSeq(src, 1, at), at - ofs, len) = SubSeq(src, 1, at + len)
  <1> DEFINE s == SubSeq(src, 1, at)
             d == at - ofs
  <1>1. /\ ofs \in Nat /\ ofs < at /\ len \in Nat /\ SrcLen \in Nat
        /\ at + len <= SrcLen /\ len >= 2
    BY DEF IsMatch, SrcLen
  <1>2. \A k \in 0..(len - 1) : B(at + k) = B(ofs + (k % d))
    BY <1>1, Periodic DEF IsMatch
  <1>3. /\ Len(s) = at /\ \A j \in 1..at : s[j] = src[j]
    BY <1>1 DEF SrcLen
  <1>4. /\ SubSeq(src, 1, at + len) = [i \in 1..(at + len) |-> src[i]]
    BY <1>1 DEF SrcLen
  <1>5. d \in Nat \ {0} /\ at - d = ofs
    BY <1>1
  <1> HIDE DEF s, d
  <1>6. ASSUME NEW i \in 1..(at + len)
        PROVE  (IF i <= at THEN s[i] ELSE s[at - d + 1 + ((i - at - 1) % d)]) = src[i]
    <2>1. CASE i <= at
      BY <1>1, <1>3, <2>1
    <2>2. CASE ~(i <= at)
      <3> DEFINE k == i - at - 1
      <3>1. k \in 0..(len - 1) /\ at + k + 1 = i
        BY <1>1, <2>2
      <3> HIDE DEF k
      <3>2. k % d \in 0..(d - 1)
        BY <1>1, <1>5, <3>1, k \in Nat, DivMod
      <3>3. ofs + (k % d) + 1 \in 1..at /\ at - d + 1 + (k % d) = ofs + (k % d) + 1
        BY <1>1, <1>5, <3>2 DEF d
      <3>4. src[at + k + 1] = src[ofs + (k % d) + 1]
        BY <1>2, <3>1 DEF B
      <3> QED
        BY <1>3, <2>2, <3>1, <3>3, <3>4 DEF k
    <2> QED
      BY <2>1, <2>2
  <1>7. Copied(s, d, len)
          = [i \in 1..(at + len) |->
               IF i <= at THEN s[i] ELSE s[at - d + 1 + ((i - at - 1) % d)]]
    BY <1>3 DEF Copied
  <1>8. Copied(s, d, len) = SubSeq(src, 1, at + len)
    BY <1>4, <1>6, <1>7
  <1> QED
    BY <1>8 DEF s, d

-----------------------------------------------------------------------------
(* The inductive invariant.                                                *)

Coding == {"scan", "chain", "blocks", "hash", "tail"}
Decoding == {"decode", "long", "end"}
Matches == [ofs : Nat, len : Nat]

TypeOK ==
  /\ codec \in Codecs
  /\ pc \in Coding \cup {"send"} \cup Decoding
  /\ src \in Seq(Bytes(codec)) /\ out \in Seq(Bytes(codec))
  /\ inpos \in Nat /\ hofs \in Nat /\ rest \in Nat
  /\ longest \in Matches /\ match \in Matches
  /\ bits \in Output
  /\ frame \in [typ : {0, 8}, data : Seq(Bytes(codec))]
  /\ in \in Reader /\ WithinFrame(in)

\* Where each stage of the compressor is in the packet, and that the receiver
\* has not begun.
Stages ==
  /\ pc \in {"scan", "tail"} => inpos <= SrcLen
  /\ pc \in {"chain", "blocks"} => inpos + 2 < SrcLen
  /\ pc = "chain" => Link(hofs, inpos)
  /\ pc = "blocks" => longest.len >= 8
  /\ pc = "hash" => rest >= 1 /\ inpos + rest + 2 < SrcLen
  /\ pc \notin Decoding => in = Start /\ out = <<>>

\* What the bits may be at the stages that BuffersHold leaves out: a block of
\* eight bits stands for thirty bytes, and a match is paid for in advance.
Budget ==
  /\ pc = "blocks" => 30 * Made(bits) + 8 * rest
                         <= 30 * ((W + 1) * inpos + (W + 1 + codec.x)) + 8 * (longest.len + 7)
  /\ pc = "hash" => Made(bits) <= (W + 1) * (inpos + rest)

Inv == TypeOK /\ Stages /\ Budget /\ ChainSound /\ BuffersHold

Most == (W + 1) * SrcLen + 2 * W

\* What the types say, as the steps below use it.
LEMMA TypeFacts ==
  ASSUME TypeOK
  PROVE  /\ Widths
         /\ W \in Nat /\ W >= 4 /\ codec.x \in Nat /\ codec.x < W
         /\ codec.cap \in Nat /\ codec.room \in Nat
         /\ MaxHistory \in Nat \ {0} /\ InvalidOfs \in Nat
         /\ SrcLen \in Nat /\ inpos \in Nat /\ hofs \in Nat /\ rest \in Nat
         /\ longest.ofs \in Nat /\ longest.len \in Nat
         /\ longest = [ofs |-> longest.ofs, len |-> longest.len]
         /\ Made(bits) \in Nat /\ Most \in Nat
         /\ (W + 1) * inpos \in Nat /\ (W + 1) * SrcLen \in Nat
  <1>1. Widths
    BY CodecWidths DEF TypeOK
  <1>2. /\ W \in Nat /\ W >= 4 /\ codec.x \in Nat /\ codec.x < W
        /\ codec.cap \in Nat /\ codec.room \in Nat
        /\ MaxHistory \in Nat \ {0} /\ InvalidOfs \in Nat
    BY <1>1 DEF Widths
  <1>3. /\ SrcLen \in Nat /\ inpos \in Nat /\ hofs \in Nat /\ rest \in Nat
        /\ longest.ofs \in Nat /\ longest.len \in Nat
        /\ longest = [ofs |-> longest.ofs, len |-> longest.len]
    BY DEF TypeOK, Matches, SrcLen
  <1>4. bits.nr \in Nat /\ Len(bits.dst) \in Nat
    <2>1. bits \in Pending
      BY DEF TypeOK, Output
    <2>2. \A n \in 0..(3 * W - 1) : n \in Nat
      OBVIOUS
    <2> QED
      BY <2>1, <2>2 DEF Pending
  <1>5. Made(bits) \in Nat
    BY <1>2, <1>4 DEF Made
  <1>6. (W + 1) * inpos \in Nat /\ (W + 1) * SrcLen \in Nat
    BY <1>2, <1>3
  <1>7. Most \in Nat
    BY <1>2, <1>6 DEF Most
  <1> QED
    BY <1>1, <1>2, <1>3, <1>5, <1>6, <1>7

\* Positions times the width of a literal.
LEMMA Width ==
  ASSUME NEW w \in Nat, NEW a \in Nat, NEW b \in Nat
  PROVE  /\ (w + 1) * (a + b) = (w + 1) * a + (w + 1) * b
         /\ a <= b => (w + 1) * a <= (w + 1) * b
  OBVIOUS

\* BuffersHold and ChainSound in the terms of the lemmas above.
LEMMA BuffersMeans ==
  BuffersHold <=>
    /\ Made(bits) <= IF pc \in {"scan", "chain", "tail"} THEN (W + 1) * inpos ELSE Most
    /\ Len(bits.dst) <= codec.cap
    /\ bits.full => Most > W * codec.cap
    /\ frame.typ = 8 => Len(out) <= codec.room
  BY DEF BuffersHold, Made, Most

\* ChainSound, in terms of the table and of the chains.
LEMMA ChainMeans ==
  ChainSound <=>
    /\ pc \in Coding => TableOK(hashTable, Hashed)
    /\ pc \in Coding \ {"tail"} => LinksOK(hashChain, Hashed)
    /\ pc \in {"chain", "blocks"} =>
         /\ IsMatch(inpos, longest.ofs, longest.len)
         /\ Copied(SubSeq(src, 1, inpos), inpos - longest.ofs, longest.len)
              = SubSeq(src, 1, inpos + longest.len)
  BY DEF ChainSound, TableSound, LinksSound, TableOK, LinksOK, Link, Coding

\* The same after a step: what has to be shown of it.
LEMMA BuffersNext ==
  ASSUME UNCHANGED <<codec, src>>,
         Made(bits') <= IF pc' \in {"scan", "chain", "tail"} THEN (W + 1) * inpos' ELSE Most,
         Len(bits'.dst) <= codec.cap, bits'.full => Most > W * codec.cap,
         frame'.typ = 8 => Len(out') <= codec.room
  PROVE  BuffersHold'
  BY DEF BuffersHold, Made, Most, W, SrcLen

\* ChainSound after a step.
LEMMA ChainNext ==
  ASSUME TypeOK, UNCHANGED <<codec, src>>,
         pc' \in Coding => TableOK(hashTable', Hashed'),
         pc' \in Coding \ {"tail"} => LinksOK(hashChain', Hashed'),
         pc' \in {"chain", "blocks"} => inpos' = inpos /\ IsMatch(inpos, longest'.ofs, longest'.len)
  PROVE  ChainSound'
  <1>1. TableSound' /\ LinksSound'
    BY DEF TableSound, LinksSound, TableOK, LinksOK, Link, Coding, Hash, B, MaxHistory,
           InvalidOfs, W
  <1>2. ASSUME pc' \in {"chain", "blocks"}
        PROVE  /\ IsMatch(inpos, longest.ofs, longest.len)'
               /\ (Copied(SubSeq(src, 1, inpos), inpos - longest.ofs, longest.len)
                     = SubSeq(src, 1, inpos + longest.len))'
    <2>1. inpos' = inpos /\ IsMatch(inpos, longest'.ofs, longest'.len)
      BY <1>2
    <2>2. Copied(SubSeq(src, 1, inpos), inpos - longest'.ofs, longest'.len)
            = SubSeq(src, 1, inpos + longest'.len)
      BY <2>1, CopyRestores DEF TypeOK
    <2>3. IsMatch(inpos, longest.ofs, longest.len)'
      BY <2>1 DEF IsMatch, B, SrcLen, MaxHistory, W
    <2> QED
      BY <2>1, <2>2, <2>3 DEF Copied
  <1> QED
    BY <1>1, <1>2 DEF ChainSound

\* What depends on the codec and the packet only.
LEMMA SamePacket ==
  ASSUME codec' = codec, src' = src
  PROVE  /\ W' = W /\ Most' = Most /\ SrcLen' = SrcLen
         /\ Output' = Output /\ Reader' = Reader /\ Start' = Start
         /\ \A t, n : TableOK(t, n)' = TableOK(t, n)
         /\ \A c, n : LinksOK(c, n)' = LinksOK(c, n)
         /\ \A q, i : Link(q, i)' = Link(q, i)
         /\ \A i, o, l : IsMatch(i, o, l)' = IsMatch(i, o, l)
  BY DEF W, Most, SrcLen, Output, Pending, Reader, Start, TableOK, LinksOK, Link, Hash, B,
         IsMatch, MaxHistory, InvalidOfs, Bytes

\* The tokens of the compressor.
LEMMA TokenTypes ==
  ASSUME TypeOK
  PROVE  /\ \A v \in Nat : {Token(2, v), Token(4, v), Token(8, v)} \subseteq Tokens
         /\ \A i \in 0..(SrcLen - 1) : Literal(i) \in Tokens /\ Literal(i).nr = W + 1
         /\ \A o \in Nat : OffsetToken(o) \in Tokens /\ OffsetToken(o).nr <= W + 1 + codec.x
         /\ Token(2 * W, 3 * 2 ^ (2 * W - 2)) \in Tokens
  <1>1. /\ W \in Nat /\ W >= 4 /\ codec.x \in Nat /\ codec.x < W /\ SrcLen \in Nat
    BY TypeFacts
  <1>2. {2, 4, 8, W + 1, W + 1 + codec.x, 2 * W} \subseteq 0..(2 * W)
    BY <1>1
  <1>3. \A n \in 0..(2 * W), v \in Nat : Token(n, v) \in Tokens /\ Token(n, v).nr = n
    BY DEF Token, Tokens
  <1>4. 2 ^ (W - 1) \in Nat /\ 2 ^ (W + codec.x) \in Nat /\ 2 ^ (2 * W - 2) \in Nat
    <2>1. {W - 1, W + codec.x, 2 * W - 2} \subseteq 0..(2 * W)
      BY <1>1
    <2> QED
      BY <2>1, TypeFacts DEF Widths
  <1>5. ASSUME NEW i \in 0..(SrcLen - 1)
        PROVE  Literal(i) \in Tokens /\ Literal(i).nr = W + 1
    <2>1. B(i) \in Nat
      <3>1. i + 1 \in 1..Len(src) /\ src \in Seq(Bytes(codec))
        BY <1>1 DEF TypeOK, SrcLen
      <3>2. src[i + 1] \in Bytes(codec)
        BY <3>1
      <3>3. \A b \in Bytes(codec) : b \in Nat
        BY DEF Bytes
      <3> QED
        BY <3>2, <3>3 DEF B
    <2> QED
      BY <1>2, <1>3, <2>1 DEF Literal
  <1>6. ASSUME NEW o \in Nat
        PROVE  OffsetToken(o) \in Tokens /\ OffsetToken(o).nr <= W + 1 + codec.x
    <2>1. 3 * 2 ^ (W - 1) + o \in Nat /\ 2 ^ (W + codec.x) + o \in Nat
      BY <1>4
    <2>2. CASE o < 2 ^ (W - 1)
      <3>1. OffsetToken(o) = Token(W + 1, 3 * 2 ^ (W - 1) + o)
        BY <2>2 DEF OffsetToken
      <3> QED
        BY <1>1, <1>2, <1>3, <2>1, <3>1
    <2>3. CASE ~(o < 2 ^ (W - 1))
      <3>1. OffsetToken(o) = Token(W + 1 + codec.x, 2 ^ (W + codec.x) + o)
        BY <2>3 DEF OffsetToken
      <3> QED
        BY <1>1, <1>2, <1>3, <2>1, <3>1
    <2> QED
      BY <2>2, <2>3
  <1>7. 3 * 2 ^ (2 * W - 2) \in Nat
    BY <1>4
  <1> QED
    BY <1>2, <1>3, <1>5, <1>6, <1>7

\* A token that fits into the packet's budget.
LEMMA Fits ==
  ASSUME TypeOK, NEW st \in Output, NEW t \in Tokens,
         Made(st) + t.nr <= Most, st.full => Most > W * codec.cap
  PROVE  /\ PutBits(st, t) \in Output /\ Made(PutBits(st, t)) <= Made(st) + t.nr
         /\ PutBits(st, t).full => Most > W * codec.cap
         /\ Made(st) \in Nat /\ Made(PutBits(st, t)) \in Nat
         /\ Len(PutBits(st, t).dst) <= codec.cap
  <1>1. /\ Widths /\ W \in Nat /\ W >= 4 /\ codec.cap \in Nat /\ Most \in Nat
    BY TypeFacts
  <1>2. \A o \in Output : Made(o) \in Nat /\ Len(o.dst) <= codec.cap
    <2> SUFFICES ASSUME NEW o \in Output PROVE Made(o) \in Nat /\ Len(o.dst) <= codec.cap
      OBVIOUS
    <2>1. o.nr \in 0..(3 * W - 1) /\ o.dst \in Seq(Bytes(codec)) /\ Len(o.dst) <= codec.cap
      BY DEF Output, Pending
    <2>2. o.nr \in Nat /\ Len(o.dst) \in Nat
      BY <1>1, <2>1
    <2> QED
      BY <1>1, <2>1, <2>2 DEF Made
  <1>3. /\ PutBits(st, t) \in Output
        /\ Made(PutBits(st, t)) <= Made(st) + t.nr
        /\ PutBits(st, t).full /\ ~st.full => Made(st) + t.nr >= W * codec.cap + W
    BY <1>1, PutBitsSound
  <1>4. t.nr \in Nat /\ W * codec.cap \in Nat
    BY <1>1 DEF Tokens
  <1>5. Made(st) + t.nr >= W * codec.cap + W => Most > W * codec.cap
    BY <1>1, <1>2, <1>4
  <1> QED
    BY <1>2, <1>3, <1>5

\* The types, after a step of the compressor.
LEMMA EncoderTypes ==
  ASSUME TypeOK, UNCHANGED <<codec, src, frame, decVars>>, pc' \in Coding \cup {"send"},
         inpos' \in Nat, hofs' \in Nat, rest' \in Nat, longest' \in Matches, bits' \in Output
  PROVE  TypeOK'
  <1>1. Output' = Output /\ Reader' = Reader
    BY SamePacket
  <1> QED
    BY <1>1 DEF TypeOK, decVars, WithinFrame

\* Inv is kept by every step: ScanLiteral.
LEMMA StepScanLiteral ==
  ASSUME Inv, ScanLiteral PROVE Inv'
  <1> USE DEF Inv
  <1>1. /\ Widths /\ W \in Nat /\ W >= 4 /\ SrcLen \in Nat /\ inpos \in Nat /\ Made(bits) \in Nat
        /\ (W + 1) * inpos \in Nat /\ (W + 1) * SrcLen \in Nat /\ Most \in Nat
    BY TypeFacts
  <1>2. /\ pc = "scan" /\ inpos + 2 < SrcLen /\ Insert(inpos)
        /\ bits' = PutBits(bits, Literal(inpos)) /\ inpos' = inpos + 1
        /\ pc' = IF bits'.full THEN "send" ELSE "scan"
        /\ UNCHANGED <<codec, src, hofs, longest, rest, frame, decVars>>
    BY <1>1 DEF ScanLiteral
  <1>3. Literal(inpos) \in Tokens /\ Literal(inpos).nr = W + 1
    BY <1>1, <1>2, TokenTypes
  <1>4. Made(bits) <= (W + 1) * inpos /\ (bits.full => Most > W * codec.cap)
    BY <1>2, BuffersMeans
  <1>5. /\ (W + 1) * (inpos + 1) = (W + 1) * inpos + (W + 1)
        /\ (W + 1) * (inpos + 1) <= (W + 1) * SrcLen
    BY <1>1, <1>2, Width
  <1>6. Made(bits) + (W + 1) <= (W + 1) * (inpos + 1) /\ (W + 1) * (inpos + 1) <= Most
    BY <1>1, <1>4, <1>5 DEF Most
  <1>7. /\ bits' \in Output /\ Made(PutBits(bits, Literal(inpos))) <= Made(bits) + (W + 1)
        /\ (bits'.full => Most > W * codec.cap) /\ Len(bits'.dst) <= codec.cap
        /\ Made(PutBits(bits, Literal(inpos))) \in Nat
    BY <1>1, <1>2, <1>3, <1>4, <1>6, Fits DEF TypeOK
  <1>8. TypeOK'
    BY <1>1, <1>2, <1>7, EncoderTypes DEF TypeOK, Coding
  <1>9. Stages' /\ Budget'
    BY <1>1, <1>2, SamePacket DEF Stages, Budget, decVars, Decoding
  <1>10. ChainSound'
    <2>1. TableOK(hashTable', inpos + 1) /\ LinksOK(hashChain', inpos + 1)
      BY <1>1, <1>2, ChainMeans, InsertSound DEF Hashed, Coding
    <2>2. Hashed' = inpos + 1 /\ pc' \in {"scan", "send"}
      BY <1>2 DEF Hashed
    <2> QED
      BY <1>2, <2>1, <2>2, ChainNext
  <1>11. BuffersHold'
    <2>1. Made(bits') <= (W + 1) * inpos' /\ Made(bits') <= Most
      BY <1>1, <1>2, <1>5, <1>6, <1>7
    <2>2. frame'.typ = 8 => Len(out') <= codec.room
      BY <1>2, BuffersMeans DEF decVars
    <2> QED
      BY <1>2, <1>7, <2>1, <2>2, BuffersNext
  <1> QED
    BY <1>8, <1>9, <1>10, <1>11

LEMMA StepScanMatch ==
  ASSUME Inv, ScanMatch PROVE Inv'
  <1> USE DEF Inv
  <1>1. /\ Widths /\ W \in Nat /\ SrcLen \in Nat /\ inpos \in Nat /\ InvalidOfs \in Nat
        /\ rest \in Nat
    BY TypeFacts
  <1> DEFINE first == Lookup(Hash(inpos))
  <1>2. /\ pc = "scan" /\ inpos + 2 < SrcLen /\ Insert(inpos) /\ InWindow(first)
        /\ hofs' = first /\ longest' = [ofs |-> first, len |-> 2] /\ pc' = "chain"
        /\ UNCHANGED <<codec, src, inpos, rest, bits, frame, decVars>>
    BY <1>1 DEF ScanMatch
  <1>3. TableOK(hashTable, inpos) /\ LinksOK(hashChain, inpos)
    BY <1>2, ChainMeans DEF Hashed, Coding
  <1>4. first \in 0..(inpos - 1) /\ Hash(first) = Hash(inpos) /\ first + MaxHistory > inpos
    BY <1>1, <1>2, <1>3, LookupLinks DEF Link, InWindow
  <1> HIDE DEF first
  <1>5. IsMatch(inpos, first, 2)
    <2>1. B(first) = B(inpos) /\ B(first + 1) = B(inpos + 1)
      BY <1>4 DEF Hash
    <2>2. \A j \in 0..(2 - 1) : B(first + j) = B(inpos + j)
      <3>1. \A j \in 0..(2 - 1) : j = 0 \/ j = 1
        OBVIOUS
      <3>2. first + 0 = first /\ inpos + 0 = inpos
        BY <1>1, <1>4
      <3> QED
        BY <2>1, <3>1, <3>2
    <2> QED
      BY <1>1, <1>2, <1>4, <2>2 DEF IsMatch
  <1>6. TypeOK'
    <2>1. first \in Nat /\ longest' \in Matches /\ bits \in Output
      BY <1>1, <1>2, <1>4 DEF Matches, TypeOK
    <2> QED
      BY <1>1, <1>2, <2>1, EncoderTypes DEF Coding
  <1>7. Stages' /\ Budget'
    <2>1. Link(hofs, inpos)'
      BY <1>2, <1>4, SamePacket DEF Link
    <2> QED
      BY <1>1, <1>2, <2>1, SamePacket DEF Stages, Budget, decVars, Decoding
  <1>8. ChainSound'
    <2>1. TableOK(hashTable', inpos + 1) /\ LinksOK(hashChain', inpos + 1)
      BY <1>1, <1>2, <1>3, InsertSound
    <2>2. Hashed' = inpos + 1 /\ longest'.ofs = first /\ longest'.len = 2
      BY <1>2 DEF Hashed
    <2> QED
      BY <1>2, <1>5, <2>1, <2>2, ChainNext
  <1>9. BuffersHold'
    BY <1>2, BuffersMeans, BuffersNext DEF decVars
  <1> QED
    BY <1>6, <1>7, <1>8, <1>9

LEMMA StepFollowChain ==
  ASSUME Inv, FollowChain PROVE Inv'
  <1> USE DEF Inv
  <1>1. /\ Widths /\ W \in Nat /\ SrcLen \in Nat /\ inpos \in Nat /\ hofs \in Nat /\ rest \in Nat
        /\ MaxHistory \in Nat \ {0} /\ InvalidOfs \in Nat /\ longest.len \in Nat /\ longest.ofs \in Nat
    BY TypeFacts
  <1>2. /\ pc = "chain" /\ InWindow(hofs) /\ longest.len + inpos # SrcLen
        /\ hofs' = hashChain[hofs % MaxHistory] /\ pc' = "chain"
        /\ UNCHANGED <<codec, src, inpos, hashVars, rest, bits, frame, decVars>>
    BY DEF FollowChain, GotMatch
  <1>3. /\ IsMatch(inpos, longest.ofs, longest.len) /\ TableOK(hashTable, inpos + 1)
        /\ LinksOK(hashChain, inpos + 1)
    BY <1>2, ChainMeans DEF Hashed, Coding
  <1>4. longest.len >= 2 /\ longest.len + inpos < SrcLen
    BY <1>1, <1>2, <1>3 DEF IsMatch
  <1>5. hofs \in 0..(inpos - 1) /\ Hash(hofs) = Hash(inpos) /\ hofs + MaxHistory > inpos
    BY <1>2 DEF Stages, Link, InWindow
  <1>6. Link(hofs', inpos) /\ hofs' \in Nat
    <2>1. hofs \in 0..((inpos + 1) - 1) /\ hofs + MaxHistory >= inpos + 1
      BY <1>1, <1>5
    <2>2. Link(hofs', hofs)
      BY <1>2, <1>3, <2>1 DEF LinksOK
    <2>3. hofs' = InvalidOfs \/ (hofs' \in 0..(hofs - 1) /\ Hash(hofs') = Hash(hofs))
      BY <2>2 DEF Link
    <2>4. CASE hofs' = InvalidOfs
      BY <1>1, <2>4 DEF Link
    <2>5. CASE hofs' \in 0..(hofs - 1) /\ Hash(hofs') = Hash(hofs)
      <3>1. hofs' \in 0..(inpos - 1) /\ Hash(hofs') = Hash(inpos)
        BY <1>1, <1>5, <2>5
      <3> QED
        BY <1>1, <3>1 DEF Link
    <2> QED
      BY <2>3, <2>4, <2>5
  <1>7. IsMatch(inpos, longest'.ofs, longest'.len) /\ longest' \in Matches
    <2>1. CASE \A j \in 2..longest.len : B(hofs + j) = B(inpos + j)
      <3>1. longest' = [ofs |-> hofs, len |-> MatchLength(hofs, longest.len)]
        BY <2>1 DEF FollowChain
      <3>2. IsMatch(inpos, hofs, MatchLength(hofs, longest.len))
        BY <1>1, <1>4, <1>5, <2>1, LongerMatch
      <3>3. MatchLength(hofs, longest.len) \in Nat
        BY <1>1, <3>2 DEF IsMatch
      <3> QED
        BY <1>1, <3>1, <3>2, <3>3 DEF Matches
    <2>2. CASE ~(\A j \in 2..longest.len : B(hofs + j) = B(inpos + j))
      <3>1. longest' = longest
        BY <2>2 DEF FollowChain
      <3> QED
        BY <1>3, <3>1 DEF TypeOK
    <2> QED
      BY <2>1, <2>2
  <1>8. TypeOK'
    BY <1>1, <1>2, <1>6, <1>7, EncoderTypes DEF Coding, TypeOK
  <1>9. Stages' /\ Budget'
    <2>1. Link(hofs, inpos)'
      BY <1>2, <1>6, SamePacket DEF Link
    <2> QED
      BY <1>1, <1>2, <2>1, SamePacket DEF Stages, Budget, decVars, Decoding
  <1>10. ChainSound'
    <2>1. Hashed' = inpos + 1 /\ hashTable' = hashTable /\ hashChain' = hashChain
      BY <1>2 DEF Hashed, hashVars
    <2> QED
      BY <1>2, <1>3, <1>7, <2>1, ChainNext
  <1>11. BuffersHold'
    BY <1>2, BuffersMeans, BuffersNext DEF decVars
  <1> QED
    BY <1>8, <1>9, <1>10, <1>11

\* The end of a match whose bits are within its budget.
LEMMA StepEndMatch ==
  ASSUME Inv, pc \in {"chain", "blocks"}, EndMatch,
         UNCHANGED <<codec, src, hashVars, hofs, longest, frame, decVars>>,
         bits' \in Output, Made(bits') <= (W + 1) * (inpos + longest.len),
         Made(bits') \in Nat, bits'.full => Most > W * codec.cap
  PROVE  Inv'
  <1> USE DEF Inv
  <1>1. /\ Widths /\ W \in Nat /\ SrcLen \in Nat /\ inpos \in Nat /\ hofs \in Nat /\ rest \in Nat
        /\ longest.len \in Nat /\ longest.ofs \in Nat /\ Most \in Nat /\ (W + 1) * SrcLen \in Nat
    BY TypeFacts
  <1>2. /\ IsMatch(inpos, longest.ofs, longest.len) /\ TableOK(hashTable, inpos + 1)
        /\ LinksOK(hashChain, inpos + 1)
    BY ChainMeans DEF Hashed, Coding
  <1>3. longest.len >= 2 /\ inpos + longest.len <= SrcLen
    BY <1>1, <1>2 DEF IsMatch
  <1>4. Made(bits') <= Most
    <2>1. (W + 1) * (inpos + longest.len) <= (W + 1) * SrcLen /\ (W + 1) * (inpos + longest.len) \in Nat
      BY <1>1, <1>3, Width
    <2> QED
      BY <1>1, <2>1 DEF Most
  <1>5. Len(bits'.dst) <= codec.cap /\ (frame'.typ = 8 => Len(out') <= codec.room)
    BY BuffersMeans DEF Output, decVars
  <1>6. CASE bits'.full
    <2>1. pc' = "send" /\ UNCHANGED <<inpos, rest>>
      BY <1>6 DEF EndMatch
    <2>2. TypeOK'
      BY <1>1, <2>1, EncoderTypes DEF TypeOK, Coding
    <2>3. Stages' /\ Budget'
      BY <2>1, SamePacket DEF Stages, Budget, decVars, Decoding
    <2>4. ChainSound'
      BY <2>1, ChainNext DEF Coding
    <2>5. BuffersHold'
      BY <1>4, <1>5, <2>1, BuffersNext
    <2> QED
      BY <2>2, <2>3, <2>4, <2>5
  <1>7. CASE ~bits'.full /\ inpos + longest.len >= SrcLen - 2
    <2>1. pc' = "tail" /\ inpos' = inpos + longest.len /\ rest' = rest
      BY <1>7 DEF EndMatch
    <2>2. TypeOK'
      BY <1>1, <2>1, EncoderTypes DEF TypeOK, Coding
    <2>3. Stages' /\ Budget'
      BY <1>1, <1>3, <2>1, SamePacket DEF Stages, Budget, decVars, Decoding
    <2>4. ChainSound'
      <3>1. TableOK(hashTable, inpos + longest.len)
        BY <1>1, <1>2, <1>3 DEF TableOK
      <3> QED
        BY <2>1, <3>1, ChainNext DEF Coding, Hashed, hashVars
    <2>5. BuffersHold'
      BY <1>5, <2>1, BuffersNext
    <2> QED
      BY <2>2, <2>3, <2>4, <2>5
  <1>8. CASE ~bits'.full /\ ~(inpos + longest.len >= SrcLen - 2)
    <2>1. pc' = "hash" /\ inpos' = inpos + 1 /\ rest' = longest.len - 1
      BY <1>8 DEF EndMatch
    <2>2. TypeOK'
      BY <1>1, <1>3, <2>1, EncoderTypes DEF TypeOK, Coding
    <2>3. Stages'
      <3>1. rest' >= 1 /\ inpos' + rest' + 2 < SrcLen
        BY <1>1, <1>3, <1>8, <2>1
      <3> QED
        BY <2>1, <3>1, SamePacket DEF Stages, decVars, Decoding
    <2>4. Budget'
      <3>1. inpos' + rest' = inpos + longest.len
        BY <1>1, <2>1
      <3>2. Made(bits') <= (W + 1) * (inpos' + rest')
        BY <3>1
      <3> QED
        BY <2>1, <3>2, SamePacket DEF Budget, Made
    <2>5. ChainSound'
      BY <1>2, <2>1, ChainNext DEF Coding, Hashed, hashVars
    <2>6. BuffersHold'
      BY <1>4, <1>5, <2>1, BuffersNext
    <2> QED
      BY <2>2, <2>3, <2>4, <2>5, <2>6
  <1> QED
    BY <1>6, <1>7, <1>8

LEMMA StepPutShortMatch ==
  ASSUME Inv, PutShortMatch PROVE Inv'
  <1> USE DEF Inv
  <1> DEFINE len == longest.len
             d   == inpos - longest.ofs
             ot  == OffsetToken(d)
             ofs == PutBits(bits, ot)
             lt  == IF len < 5 THEN Token(2, len - 2) ELSE Token(4, len + 7)
  <1>1. /\ Widths /\ W \in Nat /\ W >= 4 /\ codec.x \in Nat /\ codec.x < W /\ SrcLen \in Nat
        /\ inpos \in Nat /\ len \in Nat /\ longest.ofs \in Nat /\ Most \in Nat
        /\ (W + 1) * SrcLen \in Nat /\ (W + 1) * inpos \in Nat /\ Made(bits) \in Nat
    BY TypeFacts
  <1>2. /\ pc = "chain" /\ len < 8 /\ bits' = PutBits(ofs, lt) /\ EndMatch
        /\ UNCHANGED <<codec, src, hashVars, hofs, longest, frame, decVars>>
    BY DEF PutShortMatch
  <1>3. IsMatch(inpos, longest.ofs, len)
    BY <1>2, ChainMeans
  <1>4. len >= 2 /\ inpos + len <= SrcLen /\ d \in Nat
    BY <1>1, <1>3 DEF IsMatch
  <1>5. ot \in Tokens /\ ot.nr <= W + 1 + codec.x /\ ot.nr \in Nat
    <2> HIDE DEF d
    <2>1. ot \in Tokens /\ ot.nr <= W + 1 + codec.x
      BY <1>4, TokenTypes
    <2> HIDE DEF ot
    <2>2. ot.nr \in 0..(2 * W)
      BY <2>1 DEF Tokens
    <2> QED
      BY <1>1, <2>1, <2>2
  <1>6. lt \in Tokens /\ lt.nr = (IF len < 5 THEN 2 ELSE 4)
    <2>1. len - 2 \in Nat /\ len + 7 \in Nat
      BY <1>1, <1>4
    <2> QED
      BY <2>1, TokenTypes DEF Token
  <1>7. Made(bits) <= (W + 1) * inpos /\ (bits.full => Most > W * codec.cap) /\ bits \in Output
    BY <1>2, BuffersMeans DEF TypeOK
  <1>8. /\ (W + 1) * inpos + (W + 1 + codec.x) + (IF len < 5 THEN 2 ELSE 4) <= (W + 1) * (inpos + len)
        /\ (W + 1) * (inpos + len) <= Most /\ (W + 1) * (inpos + len) \in Nat
    <2>1. /\ (W + 1) * (inpos + len) = (W + 1) * inpos + (W + 1) * len
          /\ (W + 1) * (inpos + len) <= (W + 1) * SrcLen
      BY <1>1, <1>4, Width
    <2>2. (W + 1) * len \in Nat /\ (len >= 2 => (W + 1) * 2 <= (W + 1) * len)
                             /\ (len >= 5 => (W + 1) * 5 <= (W + 1) * len)
      BY <1>1, Width
    <2> HIDE DEF len
    <2> QED
      BY <1>1, <1>4, <2>1, <2>2 DEF Most
  <1> HIDE DEF len, d, ot, lt
  <1>9. Made(bits) + ot.nr <= Most
    BY <1>1, <1>5, <1>7, <1>8
  <1>10. /\ ofs \in Output /\ Made(ofs) <= Made(bits) + ot.nr /\ Made(ofs) \in Nat
         /\ (ofs.full => Most > W * codec.cap)
    BY <1>5, <1>7, <1>9, Fits
  <1> HIDE DEF ofs
  <1>11. /\ Made(ofs) + lt.nr <= (W + 1) * (inpos + len) /\ Made(ofs) + lt.nr <= Most
    BY <1>1, <1>5, <1>6, <1>7, <1>8, <1>10
  <1>12. /\ bits' \in Output /\ Made(bits') <= Made(ofs) + lt.nr /\ Made(bits') \in Nat
         /\ (bits'.full => Most > W * codec.cap)
    BY <1>2, <1>6, <1>10, <1>11, Fits
  <1>13. Made(bits') <= (W + 1) * (inpos + longest.len)
    BY <1>1, <1>6, <1>8, <1>10, <1>11, <1>12 DEF len
  <1> QED
    BY <1>2, <1>12, <1>13, StepEndMatch

LEMMA StepPutLongMatch ==
  ASSUME Inv, PutLongMatch PROVE Inv'
  <1> USE DEF Inv
  <1> DEFINE len == longest.len
             d   == inpos - longest.ofs
             ot  == OffsetToken(d)
  <1>1. /\ Widths /\ W \in Nat /\ W >= 4 /\ codec.x \in Nat /\ codec.x < W /\ SrcLen \in Nat
        /\ inpos \in Nat /\ len \in Nat /\ longest.ofs \in Nat /\ Most \in Nat /\ hofs \in Nat
        /\ (W + 1) * SrcLen \in Nat /\ (W + 1) * inpos \in Nat /\ Made(bits) \in Nat
    BY TypeFacts
  <1>2. /\ pc = "chain" /\ len >= 8 /\ bits' = PutBits(bits, ot) /\ rest' = len + 7
        /\ pc' = IF bits'.full THEN "send" ELSE "blocks"
        /\ UNCHANGED <<codec, src, inpos, hashVars, hofs, longest, frame, decVars>>
    BY DEF PutLongMatch
  <1>3. /\ IsMatch(inpos, longest.ofs, len) /\ TableOK(hashTable, inpos + 1)
        /\ LinksOK(hashChain, inpos + 1)
    BY <1>2, ChainMeans DEF Hashed, Coding
  <1>4. inpos + len <= SrcLen /\ d \in Nat
    BY <1>1, <1>3 DEF IsMatch
  <1>5. ot \in Tokens /\ ot.nr <= W + 1 + codec.x /\ ot.nr \in Nat
    <2> HIDE DEF d
    <2>1. ot \in Tokens /\ ot.nr <= W + 1 + codec.x
      BY <1>4, TokenTypes
    <2> HIDE DEF ot
    <2>2. ot.nr \in 0..(2 * W)
      BY <2>1 DEF Tokens
    <2> QED
      BY <1>1, <2>1, <2>2
  <1>6. Made(bits) <= (W + 1) * inpos /\ (bits.full => Most > W * codec.cap) /\ bits \in Output
    BY <1>2, BuffersMeans DEF TypeOK
  <1>7. (W + 1) * inpos + (W + 1 + codec.x) <= Most
    <2>1. (W + 1) * (inpos + 2) = (W + 1) * inpos + (W + 1) * 2 /\ (W + 1) * (inpos + 2) <= (W + 1) * SrcLen
      BY <1>1, <1>2, <1>4, Width
    <2> QED
      BY <1>1, <2>1 DEF Most
  <1> HIDE DEF ot
  <1>8. /\ bits' \in Output /\ Made(bits') <= Made(bits) + ot.nr /\ Made(bits') \in Nat
        /\ (bits'.full => Most > W * codec.cap) /\ Len(bits'.dst) <= codec.cap
    <2>1. Made(bits) + ot.nr <= Most
      BY <1>1, <1>5, <1>6, <1>7
    <2> QED
      BY <1>2, <1>5, <1>6, <2>1, Fits
  <1>9. Made(bits') <= (W + 1) * inpos + (W + 1 + codec.x) /\ Made(bits') <= Most
    BY <1>1, <1>5, <1>6, <1>7, <1>8
  <1>10. TypeOK'
    BY <1>1, <1>2, <1>8, EncoderTypes DEF TypeOK, Coding
  <1>11. Stages'
    BY <1>1, <1>2, SamePacket DEF Stages, decVars, Decoding
  <1>12. Budget'
    <2>1. 30 * Made(bits') + 8 * rest'
            <= 30 * ((W + 1) * inpos + (W + 1 + codec.x)) + 8 * (len + 7)
      <3> HIDE DEF len
      <3> DEFINE paid == (W + 1) * inpos + (W + 1 + codec.x)
      <3>1. paid \in Nat
        BY <1>1
      <3>2. Made(bits') <= paid
        BY <1>9
      <3> HIDE DEF paid
      <3>3. 30 * Made(bits') + 8 * (len + 7) <= 30 * paid + 8 * (len + 7)
        BY <1>1, <1>8, <3>1, <3>2
      <3> QED
        BY <1>2, <3>3 DEF paid
    <2> QED
      BY <1>2, <2>1, SamePacket DEF Budget, Made
  <1>13. ChainSound'
    BY <1>2, <1>3, ChainNext DEF Hashed, hashVars, Coding
  <1>14. BuffersHold'
    <2>1. frame'.typ = 8 => Len(out') <= codec.room
      BY <1>2, BuffersMeans DEF decVars
    <2> QED
      BY <1>2, <1>8, <1>9, <2>1, BuffersNext
  <1> QED
    BY <1>10, <1>11, <1>12, <1>13, <1>14

\* What a match of eight or more leaves for its last block.
LEMMA LongBudget ==
  ASSUME TypeOK, longest.len >= 8, inpos + longest.len <= SrcLen
  PROVE  /\ 30 * ((W + 1) * inpos + (W + 1 + codec.x)) + 8 * (longest.len + 7) + 240
              <= 30 * ((W + 1) * (inpos + longest.len))
         /\ (W + 1) * (inpos + longest.len) <= Most
         /\ (W + 1) * (inpos + longest.len) \in Nat
  <1> DEFINE len == longest.len
  <1>1. /\ W \in Nat /\ W >= 4 /\ codec.x \in Nat /\ codec.x < W /\ SrcLen \in Nat
        /\ inpos \in Nat /\ len \in Nat /\ (W + 1) * SrcLen \in Nat /\ (W + 1) * inpos \in Nat
    BY TypeFacts
  <1>2. /\ (W + 1) * (inpos + len) = (W + 1) * inpos + (W + 1) * len
        /\ (W + 1) * (inpos + len) <= (W + 1) * SrcLen
    BY <1>1, Width
  <1>3. (W + 1) * len \in Nat /\ (W + 1) * len >= (W + 1) * 8 + 5 * (len - 8)
    <2>1. PICK e \in Nat : len = 8 + e
      <3>1. len - 8 \in Nat /\ len = 8 + (len - 8)
        BY <1>1
      <3> QED
        BY <3>1
    <2>2. (W + 1) * (8 + e) = (W + 1) * 8 + (W + 1) * e
      BY <1>1, <2>1, Width
    <2>3. (W + 1) * e >= 5 * e /\ (W + 1) * e \in Nat
      BY <1>1, <2>1
    <2> QED
      BY <1>1, <2>1, <2>2, <2>3
  <1> HIDE DEF len
  <1>4. len >= 8
    BY DEF len
  <1>5. 30 * ((W + 1) * inpos + (W + 1 + codec.x)) + 8 * (len + 7) + 240
              <= 30 * ((W + 1) * (inpos + len))
    BY <1>1, <1>2, <1>3, <1>4
  <1> QED
    BY <1>1, <1>2, <1>3, <1>5 DEF len, Most

LEMMA StepPutBlock ==
  ASSUME Inv, PutBlock PROVE Inv'
  <1> USE DEF Inv
  <1> DEFINE paid == 30 * ((W + 1) * inpos + (W + 1 + codec.x)) + 8 * (longest.len + 7)
             goal == (W + 1) * (inpos + longest.len)
             t    == Token(8, 255)
  <1>1. /\ W \in Nat /\ codec.x \in Nat /\ SrcLen \in Nat /\ inpos \in Nat /\ rest \in Nat
        /\ hofs \in Nat /\ longest.len \in Nat /\ longest.ofs \in Nat /\ Most \in Nat
        /\ (W + 1) * inpos \in Nat /\ Made(bits) \in Nat
    BY TypeFacts
  <1>2. /\ pc = "blocks" /\ rest >= 30 /\ bits' = PutBits(bits, t) /\ rest' = rest - 30
        /\ pc' = IF bits'.full THEN "send" ELSE "blocks"
        /\ UNCHANGED <<codec, src, inpos, hashVars, hofs, longest, frame, decVars>>
    BY DEF PutBlock
  <1>3. /\ IsMatch(inpos, longest.ofs, longest.len) /\ TableOK(hashTable, inpos + 1)
        /\ LinksOK(hashChain, inpos + 1)
    BY <1>2, ChainMeans DEF Hashed, Coding
  <1>4. longest.len >= 8 /\ inpos + longest.len <= SrcLen
    BY <1>1, <1>2, <1>3 DEF Stages, IsMatch
  <1>5. paid \in Nat /\ goal \in Nat /\ paid + 240 <= 30 * goal /\ goal <= Most
    BY <1>1, <1>4, LongBudget
  <1>6. 30 * Made(bits) + 8 * rest <= paid
    BY <1>2 DEF Budget
  <1> HIDE DEF paid, goal
  <1>7. t \in Tokens /\ t.nr = 8
    <2>1. Token(8, 255) \in Tokens
      BY 255 \in Nat, TokenTypes
    <2> QED
      BY <2>1 DEF Token
  <1>8. (bits.full => Most > W * codec.cap) /\ bits \in Output
    BY <1>2, BuffersMeans DEF TypeOK
  <1> HIDE DEF t
  <1>9. Made(bits) + 8 <= Most
    BY <1>1, <1>2, <1>5, <1>6
  <1>10. /\ bits' \in Output /\ Made(bits') <= Made(bits) + 8 /\ Made(bits') \in Nat
         /\ (bits'.full => Most > W * codec.cap) /\ Len(bits'.dst) <= codec.cap
    BY <1>2, <1>7, <1>8, <1>9, Fits
  <1>11. 30 * Made(bits') + 8 * rest' <= paid /\ Made(bits') <= Most /\ rest' \in Nat
    <2>1. rest' = rest - 30 /\ rest >= 30
      BY <1>2
    <2> QED
      BY <1>1, <1>5, <1>6, <1>9, <1>10, <2>1
  <1>12. TypeOK'
    BY <1>1, <1>2, <1>10, <1>11, EncoderTypes DEF TypeOK, Coding
  <1>13. Stages'
    BY <1>1, <1>2, SamePacket DEF Stages, decVars, Decoding
  <1>14. Budget'
    BY <1>2, <1>11, SamePacket DEF Budget, Made, paid
  <1>15. ChainSound'
    BY <1>2, <1>3, ChainNext DEF Hashed, hashVars, Coding
  <1>16. BuffersHold'
    <2>1. frame'.typ = 8 => Len(out') <= codec.room
      BY <1>2, BuffersMeans DEF decVars
    <2> QED
      BY <1>2, <1>10, <1>11, <2>1, BuffersNext
  <1> QED
    BY <1>12, <1>13, <1>14, <1>15, <1>16

LEMMA StepPutLastBlock ==
  ASSUME Inv, PutLastBlock PROVE Inv'
  <1> USE DEF Inv
  <1> DEFINE paid == 30 * ((W + 1) * inpos + (W + 1 + codec.x)) + 8 * (longest.len + 7)
             goal == (W + 1) * (inpos + longest.len)
             t    == IF rest >= 15 THEN Token(8, 240 + rest - 15) ELSE Token(4, rest)
  <1>1. /\ W \in Nat /\ codec.x \in Nat /\ SrcLen \in Nat /\ inpos \in Nat /\ rest \in Nat
        /\ longest.len \in Nat /\ longest.ofs \in Nat /\ Most \in Nat
        /\ (W + 1) * inpos \in Nat /\ Made(bits) \in Nat
    BY TypeFacts
  <1>2. /\ pc = "blocks" /\ rest < 30 /\ bits' = PutBits(bits, t) /\ EndMatch
        /\ UNCHANGED <<codec, src, hashVars, hofs, longest, frame, decVars>>
    BY DEF PutLastBlock
  <1>3. IsMatch(inpos, longest.ofs, longest.len)
    BY <1>2, ChainMeans
  <1>4. longest.len >= 8 /\ inpos + longest.len <= SrcLen
    BY <1>1, <1>2, <1>3 DEF Stages, IsMatch
  <1>5. paid \in Nat /\ goal \in Nat /\ paid + 240 <= 30 * goal /\ goal <= Most
    BY <1>1, <1>4, LongBudget
  <1>6. 30 * Made(bits) + 8 * rest <= paid
    BY <1>2 DEF Budget
  <1> HIDE DEF paid, goal
  <1>7. t \in Tokens /\ t.nr \in {4, 8}
    <2>1. rest >= 15 => 240 + rest - 15 \in Nat
      BY <1>1
    <2> QED
      BY <1>1, <2>1, TokenTypes DEF Token
  <1>8. (bits.full => Most > W * codec.cap) /\ bits \in Output
    BY <1>2, BuffersMeans DEF TypeOK
  <1> HIDE DEF t
  <1>9. Made(bits) + t.nr <= goal /\ Made(bits) + t.nr <= Most
    BY <1>1, <1>2, <1>5, <1>6, <1>7
  <1>10. /\ bits' \in Output /\ Made(bits') <= Made(bits) + t.nr /\ Made(bits') \in Nat
         /\ (bits'.full => Most > W * codec.cap)
    BY <1>2, <1>7, <1>8, <1>9, Fits
  <1>11. Made(bits') <= (W + 1) * (inpos + longest.len)
    BY <1>1, <1>5, <1>7, <1>9, <1>10 DEF goal
  <1> QED
    BY <1>2, <1>10, <1>11, StepEndMatch

LEMMA StepHashRest ==
  ASSUME Inv, HashRest PROVE Inv'
  <1> USE DEF Inv
  <1>1. /\ Widths /\ W \in Nat /\ SrcLen \in Nat /\ inpos \in Nat /\ rest \in Nat /\ hofs \in Nat
        /\ Made(bits) \in Nat /\ Most \in Nat
    BY TypeFacts
  <1>2. /\ pc = "hash" /\ Insert(inpos) /\ inpos' = inpos + 1 /\ rest' = rest - 1
        /\ pc' = IF rest = 1 THEN "scan" ELSE "hash"
        /\ UNCHANGED <<codec, src, hofs, longest, bits, frame, decVars>>
    BY DEF HashRest
  <1>3. rest >= 1 /\ inpos + rest + 2 < SrcLen /\ Made(bits) <= (W + 1) * (inpos + rest)
    BY <1>2 DEF Stages, Budget
  <1>4. inpos' + rest' = inpos + rest /\ (rest = 1 => inpos' = inpos + rest)
    BY <1>1, <1>2
  <1>5. TypeOK'
    <2>1. inpos' \in Nat /\ rest' \in Nat /\ pc' \in Coding
      BY <1>1, <1>2, <1>3 DEF Coding
    <2> QED
      BY <1>1, <1>2, <2>1, EncoderTypes DEF TypeOK
  <1>6. Stages'
    <2>1. pc' = "scan" => inpos' <= SrcLen
      BY <1>1, <1>2, <1>3, <1>4
    <2>2. pc' = "hash" => rest' >= 1 /\ inpos' + rest' + 2 < SrcLen
      BY <1>1, <1>2, <1>3, <1>4
    <2> QED
      BY <1>2, <2>1, <2>2, SamePacket DEF Stages, decVars, Decoding
  <1>7. Budget'
    <2>1. Made(bits') <= (W + 1) * (inpos' + rest')
      BY <1>2, <1>3, <1>4
    <2> QED
      BY <1>2, <2>1, SamePacket DEF Budget, Made
  <1>8. ChainSound'
    <2>1. TableOK(hashTable', inpos + 1) /\ LinksOK(hashChain', inpos + 1)
      BY <1>1, <1>2, ChainMeans, InsertSound DEF Hashed, Coding
    <2>2. Hashed' = inpos + 1
      BY <1>2 DEF Hashed
    <2> QED
      BY <1>2, <2>1, <2>2, ChainNext
  <1>9. BuffersHold'
    <2>1. Made(bits) <= Most /\ (bits.full => Most > W * codec.cap) /\ Len(bits.dst) <= codec.cap
          /\ (frame.typ = 8 => Len(out) <= codec.room)
      BY <1>2, BuffersMeans
    <2>2. rest = 1 => Made(bits) <= (W + 1) * inpos'
      BY <1>3, <1>4
    <2> QED
      BY <1>2, <2>1, <2>2, BuffersNext DEF decVars
  <1> QED
    BY <1>5, <1>6, <1>7, <1>8, <1>9

\* The last two bytes, one, or none.
LEMMA TailSound ==
  ASSUME Inv, pc \in {"scan", "tail"}
  PROVE  /\ TailBits \in Output /\ Made(TailBits) \in Nat /\ Made(TailBits) <= (W + 1) * SrcLen
         /\ (TailBits.full => Most > W * codec.cap)
  <1> USE DEF Inv
  <1>1. /\ W \in Nat /\ W >= 4 /\ codec.x \in Nat /\ codec.x < W /\ SrcLen \in Nat /\ inpos \in Nat
        /\ rest \in Nat /\ hofs \in Nat /\ (W + 1) * inpos \in Nat /\ (W + 1) * SrcLen \in Nat
        /\ Made(bits) \in Nat /\ Most \in Nat /\ InvalidOfs \in Nat
    BY TypeFacts
  <1>3. inpos <= SrcLen /\ TableOK(hashTable, inpos)
    BY ChainMeans DEF Stages, Hashed, Coding
  <1>4. Made(bits) <= (W + 1) * inpos /\ (bits.full => Most > W * codec.cap) /\ bits \in Output
    BY BuffersMeans DEF TypeOK
  <1>5. (W + 1) * inpos <= (W + 1) * SrcLen
    BY <1>1, <1>3, Width
  <1>6. /\ TailBits \in Output /\ Made(TailBits) \in Nat /\ Made(TailBits) <= (W + 1) * SrcLen
        /\ (TailBits.full => Most > W * codec.cap)
    <2>1. ASSUME NEW a \in Tokens, NEW b \in Tokens, a.nr + b.nr <= (W + 1) * 2,
                 inpos = SrcLen - 2
          PROVE  /\ PutBits(PutBits(bits, a), b) \in Output
                 /\ Made(PutBits(PutBits(bits, a), b)) \in Nat
                 /\ Made(PutBits(PutBits(bits, a), b)) <= (W + 1) * SrcLen
                 /\ (PutBits(PutBits(bits, a), b).full => Most > W * codec.cap)
      <3> DEFINE one == PutBits(bits, a)
      <3>1. a.nr \in Nat /\ b.nr \in Nat
        <4>1. a.nr \in 0..(2 * W) /\ b.nr \in 0..(2 * W)
          BY DEF Tokens
        <4> QED
          BY <1>1, <4>1
      <3>2. (W + 1) * SrcLen = (W + 1) * inpos + (W + 1) * 2
        <4>1. SrcLen = inpos + 2
          BY <1>1, <2>1
        <4> QED
          BY <1>1, <4>1, Width
      <3>3. Made(bits) + a.nr + b.nr <= (W + 1) * SrcLen /\ (W + 1) * SrcLen <= Most
        BY <1>1, <1>4, <2>1, <3>1, <3>2 DEF Most
      <3>4. Made(bits) + a.nr <= Most
        BY <1>1, <3>1, <3>3
      <3>5. /\ one \in Output /\ Made(one) <= Made(bits) + a.nr /\ Made(one) \in Nat
            /\ (one.full => Most > W * codec.cap)
        BY <1>4, <3>4, Fits
      <3> HIDE DEF one
      <3>6. Made(one) + b.nr <= (W + 1) * SrcLen /\ Made(one) + b.nr <= Most
        BY <1>1, <3>1, <3>3, <3>5
      <3>7. /\ PutBits(one, b) \in Output /\ Made(PutBits(one, b)) <= Made(one) + b.nr
            /\ Made(PutBits(one, b)) \in Nat /\ (PutBits(one, b).full => Most > W * codec.cap)
        BY <3>5, <3>6, Fits
      <3>8. Made(PutBits(one, b)) <= (W + 1) * SrcLen
        BY <1>1, <3>1, <3>5, <3>6, <3>7
      <3> QED
        BY <3>7, <3>8 DEF one
    <2>2. CASE inpos = SrcLen - 2
      <3> DEFINE h == Lookup(Hash(inpos))
      <3>1. CASE InWindow(h)
        <4>1. inpos - h \in Nat
          BY <1>1, <1>3, <3>1, LookupLinks DEF Link, InWindow
        <4>2. TailBits = PutBits(PutBits(bits, OffsetToken(inpos - h)), Token(2, 0))
          BY <1>1, <2>2, <3>1 DEF TailBits
        <4> HIDE DEF h
        <4>3. /\ OffsetToken(inpos - h) \in Tokens /\ OffsetToken(inpos - h).nr <= W + 1 + codec.x
              /\ Token(2, 0) \in Tokens /\ Token(2, 0).nr = 2
          BY <4>1, TokenTypes DEF Token
        <4>4. OffsetToken(inpos - h).nr + 2 <= (W + 1) * 2
          <5>1. OffsetToken(inpos - h).nr \in 0..(2 * W)
            BY <4>3 DEF Tokens
          <5> QED
            BY <1>1, <4>3, <5>1
        <4> QED
          BY <2>1, <2>2, <4>2, <4>3, <4>4
      <3>2. CASE ~InWindow(h)
        <4>1. TailBits = PutBits(PutBits(bits, Literal(inpos)), Literal(inpos + 1))
          BY <1>1, <2>2, <3>2 DEF TailBits
        <4>2. /\ Literal(inpos) \in Tokens /\ Literal(inpos).nr = W + 1
              /\ Literal(inpos + 1) \in Tokens /\ Literal(inpos + 1).nr = W + 1
          <5>1. inpos \in 0..(SrcLen - 1) /\ inpos + 1 \in 0..(SrcLen - 1)
            BY <1>1, <2>2
          <5> QED
            BY <5>1, TokenTypes
        <4>3. Literal(inpos).nr + Literal(inpos + 1).nr <= (W + 1) * 2
          BY <1>1, <4>2
        <4> QED
          BY <2>1, <2>2, <4>1, <4>2, <4>3
      <3> QED
        BY <3>1, <3>2
    <2>3. CASE inpos = SrcLen - 1
      <3>1. TailBits = PutBits(bits, Literal(inpos))
        BY <1>1, <2>3 DEF TailBits
      <3>2. Literal(inpos) \in Tokens /\ Literal(inpos).nr = W + 1
        <4>1. inpos \in 0..(SrcLen - 1)
          BY <1>1, <2>3
        <4> QED
          BY <4>1, TokenTypes
      <3>3. (W + 1) * SrcLen = (W + 1) * inpos + (W + 1) * 1
        <4>1. SrcLen = inpos + 1
          BY <1>1, <2>3
        <4> QED
          BY <1>1, <4>1, Width
      <3>4. Made(bits) + (W + 1) <= (W + 1) * SrcLen /\ (W + 1) * SrcLen <= Most
        BY <1>1, <1>4, <3>3 DEF Most
      <3>5. Made(bits) + (W + 1) <= Most
        BY <1>1, <3>4
      <3>6. /\ TailBits \in Output /\ Made(TailBits) <= Made(bits) + (W + 1) /\ Made(TailBits) \in Nat
            /\ (TailBits.full => Most > W * codec.cap)
        BY <1>4, <3>1, <3>2, <3>5, Fits
      <3> QED
        BY <1>1, <3>4, <3>6
    <2>4. CASE inpos # SrcLen - 2 /\ inpos # SrcLen - 1
      <3>1. TailBits = bits
        BY <2>4 DEF TailBits
      <3> QED
        BY <1>1, <1>4, <1>5, <3>1
    <2> QED
      BY <2>2, <2>3, <2>4
  <1> QED
    BY <1>6

LEMMA StepPutTail ==
  ASSUME Inv, PutTail PROVE Inv'
  <1> USE DEF Inv
  <1> DEFINE end == Token(2 * W, 3 * 2 ^ (2 * W - 2))
  <1>1. /\ W \in Nat /\ W >= 4 /\ codec.x \in Nat /\ codec.x < W /\ SrcLen \in Nat /\ inpos \in Nat
        /\ rest \in Nat /\ hofs \in Nat /\ (W + 1) * inpos \in Nat /\ (W + 1) * SrcLen \in Nat
        /\ Made(bits) \in Nat /\ Most \in Nat /\ InvalidOfs \in Nat
    BY TypeFacts
  <1>2. /\ pc \in {"scan", "tail"} /\ bits' = PutBits(TailBits, end) /\ pc' = "send"
        /\ UNCHANGED <<codec, src, inpos, hashVars, hofs, longest, rest, frame, decVars>>
    BY DEF PutTail
  <1>3. inpos <= SrcLen /\ TableOK(hashTable, inpos)
    BY <1>2, ChainMeans DEF Stages, Hashed, Coding
  <1>4. Made(bits) <= (W + 1) * inpos /\ (bits.full => Most > W * codec.cap) /\ bits \in Output
    BY <1>2, BuffersMeans DEF TypeOK
  <1>5. (W + 1) * inpos <= (W + 1) * SrcLen
    BY <1>1, <1>3, Width
  <1>6. /\ TailBits \in Output /\ Made(TailBits) \in Nat /\ Made(TailBits) <= (W + 1) * SrcLen
        /\ (TailBits.full => Most > W * codec.cap)
    BY <1>2, TailSound
  <1>7. end \in Tokens /\ end.nr = 2 * W
    BY TokenTypes DEF Token
  <1> HIDE DEF end
  <1>8. Made(TailBits) + 2 * W <= Most
    BY <1>1, <1>6 DEF Most
  <1>9. /\ bits' \in Output /\ Made(bits') <= Made(TailBits) + 2 * W /\ Made(bits') \in Nat
        /\ (bits'.full => Most > W * codec.cap) /\ Len(bits'.dst) <= codec.cap
    BY <1>2, <1>6, <1>7, <1>8, Fits
  <1>10. Made(bits') <= Most
    BY <1>1, <1>6, <1>8, <1>9
  <1>11. TypeOK'
    BY <1>1, <1>2, <1>9, EncoderTypes DEF TypeOK, Coding
  <1>12. Stages' /\ Budget'
    BY <1>2, SamePacket DEF Stages, Budget, decVars, Decoding
  <1>13. ChainSound'
    BY <1>2, ChainNext DEF Coding
  <1>14. BuffersHold'
    <2>1. frame'.typ = 8 => Len(out') <= codec.room
      BY <1>2, BuffersMeans DEF decVars
    <2> QED
      BY <1>2, <1>9, <1>10, <2>1, BuffersNext
  <1> QED
    BY <1>11, <1>12, <1>13, <1>14

LEMMA StepSendFrame ==
  ASSUME Inv, SendFrame PROVE Inv'
  <1> USE DEF Inv
  <1>1. /\ pc = "send" /\ UNCHANGED <<codec, encVars, in, match, err>>
        /\ \/ frame' = [typ |-> 8, data |-> bits.dst] /\ pc' = "decode" /\ out' = out
           \/ frame' = [typ |-> 0, data |-> src] /\ pc' = "end" /\ out' = src
    BY DEF SendFrame
  <1>2. in = Start /\ out = <<>> /\ codec.room \in Nat /\ W \in Nat
    BY <1>1, TypeFacts DEF Stages, Decoding
  <1>3. bits.dst \in Seq(Bytes(codec)) /\ src \in Seq(Bytes(codec))
    BY DEF TypeOK, Output, Pending
  <1>4. WithinFrame(in)'
    <2>1. in' = in /\ in.si = 0
      BY <1>1, <1>2 DEF Start
    <2>2. Len(frame'.data) \in Nat
      BY <1>1, <1>3
    <2> QED
      BY <2>1, <2>2 DEF WithinFrame
  <1>5. TypeOK'
    <2>1. Output' = Output /\ Reader' = Reader
      BY <1>1, SamePacket DEF encVars
    <2>2. frame' \in [typ : {0, 8}, data : Seq(Bytes(codec))] /\ out' \in Seq(Bytes(codec))
      BY <1>1, <1>3 DEF TypeOK
    <2>3. pc' \in Decoding
      BY <1>1 DEF Decoding
    <2> QED
      BY <1>1, <1>4, <2>1, <2>2, <2>3 DEF TypeOK, encVars
  <1>6. Stages' /\ Budget' /\ ChainSound'
    BY <1>1, ChainNext DEF Stages, Budget, Decoding, Coding, encVars
  <1>7. BuffersHold'
    <2>1. frame'.typ = 8 => Len(out') <= codec.room
      BY <1>1, <1>2
    <2>2. Made(bits) <= Most /\ (bits.full => Most > W * codec.cap) /\ Len(bits.dst) <= codec.cap
      BY <1>1, BuffersMeans
    <2> QED
      BY <1>1, <2>1, <2>2, BuffersNext DEF encVars
  <1> QED
    BY <1>5, <1>6, <1>7

\* Copying reads within what is there already.
LEMMA CopiedType ==
  ASSUME NEW S, NEW s \in Seq(S), NEW offset \in 1..Len(s), NEW len \in Nat
  PROVE  Copied(s, offset, len) \in Seq(S) /\ Len(Copied(s, offset, len)) = Len(s) + len
  <1> DEFINE e(i) == IF i <= Len(s) THEN s[i] ELSE s[Len(s) - offset + 1 + ((i - Len(s) - 1) % offset)]
  <1>1. Len(s) \in Nat /\ offset \in Nat \ {0} /\ Len(s) + len \in Nat
    OBVIOUS
  <1>2. ASSUME NEW i \in 1..(Len(s) + len) PROVE e(i) \in S
    <2>1. CASE i <= Len(s)
      BY <1>1, <2>1
    <2>2. CASE ~(i <= Len(s))
      <3> DEFINE k == i - Len(s) - 1
      <3>1. k \in Nat
        BY <1>1, <2>2
      <3> HIDE DEF k
      <3>2. k % offset \in 0..(offset - 1)
        BY <1>1, <3>1, DivMod
      <3>3. Len(s) - offset + 1 + (k % offset) \in 1..Len(s)
        BY <1>1, <3>2
      <3>4. s[Len(s) - offset + 1 + (k % offset)] \in S
        BY <3>3
      <3> QED
        BY <2>2, <3>4 DEF k
    <2> QED
      BY <2>1, <2>2
  <1>3. Copied(s, offset, len) = [i \in 1..(Len(s) + len) |-> e(i)]
    BY DEF Copied
  <1> HIDE DEF e
  <1> QED
    BY <1>1, <1>2, <1>3

\* Copying a match stays within decompressBuf, or fails.
LEMMA CopyMatchSound ==
  ASSUME TypeOK, NEW offset \in Nat, NEW len \in Nat, CopyMatch(offset, len),
         Len(out) <= codec.room \/ frame.typ # 8
  PROVE  /\ out' \in Seq(Bytes(codec)) /\ (frame.typ = 8 => Len(out') <= codec.room)
         /\ pc' \in {"decode", "end"}
  <1>1. out \in Seq(Bytes(codec)) /\ Len(out) \in Nat /\ codec.room \in Nat
    BY TypeFacts DEF TypeOK
  <1>2. CASE offset = 0 \/ offset > Len(out)
    BY <1>1, <1>2 DEF CopyMatch, Fail
  <1>3. CASE ~(offset = 0 \/ offset > Len(out)) /\ len + Len(out) > codec.room
    BY <1>1, <1>3 DEF CopyMatch, Fail
  <1>4. CASE ~(offset = 0 \/ offset > Len(out)) /\ ~(len + Len(out) > codec.room)
    <2>1. out' = Copied(out, offset, len) /\ pc' = "decode"
      BY <1>4 DEF CopyMatch
    <2>2. offset \in 1..Len(out)
      BY <1>1, <1>4
    <2>3. out' \in Seq(Bytes(codec)) /\ Len(out') = Len(out) + len
      BY <1>1, <2>1, <2>2, CopiedType
    <2>4. Len(out') <= codec.room
      BY <1>1, <1>4, <2>3
    <2> QED
      BY <2>1, <2>3, <2>4
  <1> QED
    BY <1>2, <1>3, <1>4

\* A step of the decompressor.
LEMMA StepDecoder ==
  ASSUME Inv, UNCHANGED <<codec, encVars, frame>>, pc \in {"decode", "long"}, pc' \in Decoding,
         in' \in Reader, WithinFrame(in'), match' \in Matches,
         out' \in Seq(Bytes(codec)), frame.typ = 8 => Len(out') <= codec.room
  PROVE  Inv'
  <1> USE DEF Inv
  <1>1. TypeOK'
    <2>1. Output' = Output /\ Reader' = Reader
      BY SamePacket DEF encVars
    <2> QED
      BY <2>1 DEF TypeOK, encVars, WithinFrame
  <1>2. Stages' /\ Budget' /\ ChainSound'
    BY ChainNext DEF Stages, Budget, Decoding, Coding, encVars
  <1>3. BuffersHold'
    <2>1. Made(bits) <= Most /\ (bits.full => Most > W * codec.cap) /\ Len(bits.dst) <= codec.cap
      BY BuffersMeans
    <2>2. pc' \notin {"scan", "chain", "tail"}
      BY DEF Decoding
    <2> QED
      BY <2>1, <2>2, BuffersNext DEF encVars
  <1> QED
    BY <1>1, <1>2, <1>3

\* What the decompressor starts a symbol from.
LEMMA SymbolSound ==
  ASSUME Inv
  PROVE  /\ Widths /\ frame.data \in Seq(Bytes(codec)) /\ in \in Reader /\ WithinFrame(in)
         /\ Symbol \in Reader /\ WithinFrame(Symbol)
         /\ out \in Seq(Bytes(codec)) /\ match \in Matches
         /\ frame.typ = 8 => Len(out) <= codec.room
         /\ Len(out) \in Nat /\ codec.room \in Nat
  <1>1. /\ Widths /\ frame.data \in Seq(Bytes(codec)) /\ in \in Reader /\ WithinFrame(in)
        /\ out \in Seq(Bytes(codec)) /\ match \in Matches /\ W \in Nat
        /\ Len(out) \in Nat /\ codec.room \in Nat
    BY TypeFacts DEF Inv, TypeOK
  <1>2. W + 1 \in 0..(W + 1)
    BY <1>1
  <1> QED
    BY <1>1, <1>2, GetBitsSound, BuffersMeans DEF Symbol, Inv

LEMMA StepDecodeShort ==
  ASSUME Inv, DecodeShort PROVE Inv'
  BY SymbolSound, StepDecoder DEF DecodeShort, Fail, Decoding

LEMMA StepDecodeEnd ==
  ASSUME Inv, DecodeEnd PROVE Inv'
  BY SymbolSound, StepDecoder DEF DecodeEnd, Decoding

LEMMA StepDecodeLiteral ==
  ASSUME Inv, DecodeLiteral PROVE Inv'
  <1>1. /\ pc = "decode" /\ Symbol.data < 2 ^ W /\ in' = Symbol
        /\ UNCHANGED <<codec, encVars, frame, match>>
    BY DEF DecodeLiteral
  <1>2. CASE Len(out) = codec.room
    BY <1>1, <1>2, SymbolSound, StepDecoder DEF DecodeLiteral, Fail, Decoding
  <1>3. CASE Len(out) # codec.room
    <2>1. out' = Append(out, Symbol.data) /\ pc' = pc
      BY <1>3 DEF DecodeLiteral
    <2>2. Symbol.data \in Bytes(codec)
      <3>1. Symbol.data \in Nat
        BY SymbolSound DEF Reader
      <3>2. 2 ^ W \in Nat
        <4>1. W \in 0..(2 * W)
          BY SymbolSound DEF Widths
        <4> QED
          BY <4>1, SymbolSound DEF Widths
      <3>3. Symbol.data \in 0..(2 ^ W - 1)
        BY <1>1, <3>1, <3>2
      <3> QED
        BY <3>3 DEF Bytes, W
    <2>3. out' \in Seq(Bytes(codec)) /\ Len(out') = Len(out) + 1
      BY <2>1, <2>2, SymbolSound
    <2>4. frame.typ = 8 => Len(out') <= codec.room
      BY <1>3, <2>3, SymbolSound
    <2> QED
      BY <1>1, <2>1, <2>3, <2>4, SymbolSound, StepDecoder DEF Decoding
  <1> QED
    BY <1>2, <1>3

LEMMA StepDecodeMatch ==
  ASSUME Inv, DecodeMatch PROVE Inv'
  <1> DEFINE sym  == Symbol
             long == sym.data < EndMarker
             ofs  == IF long THEN GetBits(sym, codec.x) ELSE sym
             offset == IF long THEN (sym.data % 2 ^ (W - 1)) * 2 ^ codec.x + ofs.data
                               ELSE sym.data % 2 ^ (W - 1)
             a == GetBits(ofs, 2)
             b == GetBits(a, 2)
  <1>1. /\ Widths /\ frame.data \in Seq(Bytes(codec)) /\ sym \in Reader /\ WithinFrame(sym)
        /\ out \in Seq(Bytes(codec)) /\ match \in Matches
        /\ frame.typ = 8 => Len(out) <= codec.room
    BY SymbolSound
  <1>2. /\ pc = "decode" /\ UNCHANGED <<codec, encVars, frame>>
        /\ \/ in' = b /\ Fail("short") /\ UNCHANGED match
           \/ ~a.short /\ a.data # 3 /\ in' = a /\ CopyMatch(offset, a.data + 2) /\ UNCHANGED match
           \/ ~b.short /\ a.data = 3 /\ b.data # 3 /\ in' = b
                /\ CopyMatch(offset, b.data + 5) /\ UNCHANGED match
           \/ in' = b /\ match' = [ofs |-> offset, len |-> 8] /\ pc' = "long" /\ out' = out
    BY DEF DecodeMatch
  <1> HIDE DEF sym
  <1>3. W \in Nat /\ W >= 4 /\ codec.x \in Nat /\ codec.x < W
    BY <1>1 DEF Widths
  <1>4. ofs \in Reader /\ WithinFrame(ofs)
    <2>1. codec.x \in 0..(W + 1)
      BY <1>3
    <2> QED
      BY <1>1, <2>1, GetBitsSound
  <1>5. offset \in Nat
    <2> HIDE DEF ofs, long
    <2>1. sym.data \in Nat /\ ofs.data \in Nat
      BY <1>1, <1>4 DEF Reader
    <2>2. 2 ^ (W - 1) \in Nat \ {0} /\ 2 ^ codec.x \in Nat \ {0}
      <3>1. W - 1 \in 0..(2 * W) /\ codec.x \in 0..(2 * W)
        BY <1>3
      <3> QED
        BY <1>1, <3>1 DEF Widths
    <2>3. sym.data % 2 ^ (W - 1) \in Nat
      <3>1. \A k \in Nat \ {0} : sym.data % k \in Nat
        BY <2>1, DivMod
      <3> QED
        BY <2>2, <3>1
    <2>4. (sym.data % 2 ^ (W - 1)) * 2 ^ codec.x + ofs.data \in Nat
      BY <2>1, <2>2, <2>3
    <2> QED
      BY <2>3, <2>4
  <1> HIDE DEF ofs, offset
  <1>6. a \in Reader /\ WithinFrame(a)
    <2>1. 2 \in 0..(W + 1)
      BY <1>3
    <2> QED
      BY <1>1, <1>4, <2>1, GetBitsSound
  <1> HIDE DEF a
  <1>7. b \in Reader /\ WithinFrame(b)
    <2>1. 2 \in 0..(W + 1)
      BY <1>3
    <2> QED
      BY <1>1, <1>6, <2>1, GetBitsSound
  <1> HIDE DEF b
  <1>8. a.data + 2 \in Nat /\ b.data + 5 \in Nat
    BY <1>6, <1>7 DEF Reader
  <1>9. CASE in' = b /\ Fail("short") /\ UNCHANGED match
    BY <1>1, <1>2, <1>7, <1>9, StepDecoder DEF Fail, Decoding
  <1>10. CASE in' = a /\ CopyMatch(offset, a.data + 2) /\ UNCHANGED match
    <2>1. /\ out' \in Seq(Bytes(codec)) /\ (frame.typ = 8 => Len(out') <= codec.room)
          /\ pc' \in {"decode", "end"}
      BY <1>1, <1>5, <1>8, <1>10, CopyMatchSound DEF Inv
    <2> QED
      BY <1>1, <1>2, <1>6, <1>10, <2>1, StepDecoder DEF Decoding
  <1>11. CASE in' = b /\ CopyMatch(offset, b.data + 5) /\ UNCHANGED match
    <2>1. /\ out' \in Seq(Bytes(codec)) /\ (frame.typ = 8 => Len(out') <= codec.room)
          /\ pc' \in {"decode", "end"}
      BY <1>1, <1>5, <1>8, <1>11, CopyMatchSound DEF Inv
    <2> QED
      BY <1>1, <1>2, <1>7, <1>11, <2>1, StepDecoder DEF Decoding
  <1>12. CASE in' = b /\ match' = [ofs |-> offset, len |-> 8] /\ pc' = "long" /\ out' = out
    <2>1. match' \in Matches
      BY <1>5, <1>12 DEF Matches
    <2> QED
      BY <1>1, <1>2, <1>7, <1>12, <2>1, StepDecoder DEF Decoding
  <1> QED
    BY <1>2, <1>9, <1>10, <1>11, <1>12

LEMMA StepDecodeLong ==
  ASSUME Inv, DecodeLong PROVE Inv'
  <1> DEFINE g == GetBits(in, 4)
  <1>1. /\ Widths /\ frame.data \in Seq(Bytes(codec)) /\ in \in Reader /\ WithinFrame(in)
        /\ out \in Seq(Bytes(codec)) /\ match \in Matches
        /\ frame.typ = 8 => Len(out) <= codec.room
    BY SymbolSound
  <1>2. /\ pc = "long" /\ in' = g /\ UNCHANGED <<codec, encVars, frame>>
        /\ \/ Fail("short") /\ UNCHANGED match
           \/ match' = [match EXCEPT !.len = @ + 15] /\ UNCHANGED <<pc, out>>
           \/ CopyMatch(match.ofs, match.len + g.data) /\ UNCHANGED match
    BY DEF DecodeLong
  <1>3. g \in Reader /\ WithinFrame(g)
    <2>1. 4 \in 0..(W + 1)
      BY <1>1 DEF Widths
    <2> QED
      BY <1>1, <2>1, GetBitsSound
  <1> HIDE DEF g
  <1>4. match.ofs \in Nat /\ match.len + g.data \in Nat
    BY <1>1, <1>3 DEF Matches, Reader
  <1>5. CASE Fail("short") /\ UNCHANGED match
    BY <1>1, <1>2, <1>3, <1>5, StepDecoder DEF Fail, Decoding
  <1>6. CASE match' = [match EXCEPT !.len = @ + 15] /\ UNCHANGED <<pc, out>>
    <2>1. match' \in Matches
      BY <1>1, <1>6 DEF Matches
    <2> QED
      BY <1>1, <1>2, <1>3, <1>6, <2>1, StepDecoder DEF Decoding
  <1>7. CASE CopyMatch(match.ofs, match.len + g.data) /\ UNCHANGED match
    <2>1. /\ out' \in Seq(Bytes(codec)) /\ (frame.typ = 8 => Len(out') <= codec.room)
          /\ pc' \in {"decode", "end"}
      BY <1>1, <1>4, <1>7, CopyMatchSound DEF Inv
    <2> QED
      BY <1>1, <1>2, <1>3, <1>7, <2>1, StepDecoder DEF Decoding
  <1> QED
    BY <1>2, <1>5, <1>6, <1>7

-----------------------------------------------------------------------------
(* The initial states, and all the steps.                                  *)

\* The initial states.
LEMMA InitInv == Init => Inv
  <1> SUFFICES ASSUME Init PROVE Inv
    OBVIOUS
  <1>1. /\ codec \in Codecs /\ inpos = 0 /\ hashTable = <<>> /\ hashChain = <<>> /\ bits = NoBits
        /\ hofs = 0 /\ longest = NoMatch /\ rest = 0
        /\ in = Start /\ match = NoMatch /\ out = <<>> /\ pc \in {"scan", "send", "decode"}
    BY DEF Init
  <1>2. Widths /\ W \in Nat /\ W >= 4 /\ codec.cap \in Nat /\ codec.room \in Nat
    BY <1>1, CodecWidths DEF Widths
  <1>3. src \in Seq(Bytes(codec)) /\ frame \in [typ : {0, 8}, data : Seq(Bytes(codec))]
    <2>1. Packets(codec) \subseteq Seq(Bytes(codec)) /\ Frames(codec) \subseteq Seq(Bytes(codec))
      BY <1>1, CodecAssumption
    <2>2. CASE src \in Packets(codec) /\ frame = [typ |-> 0, data |-> <<>>]
      BY <2>1, <2>2
    <2>3. CASE src = <<>> /\ \E f \in Frames(codec) : frame = [typ |-> 8, data |-> f]
      BY <2>1, <2>3
    <2> QED
      BY <2>2, <2>3 DEF Init
  <1>4. SrcLen \in Nat /\ Len(frame.data) \in Nat
    BY <1>3 DEF SrcLen
  <1>5. TypeOK
    <2>1. bits \in Output
      BY <1>1, <1>2 DEF NoBits, Output, Pending
    <2>2. in \in Reader /\ WithinFrame(in)
      BY <1>1, <1>2, <1>4 DEF Start, Reader, WithinFrame
    <2>3. longest \in Matches /\ match \in Matches
      BY <1>1 DEF NoMatch, Matches
    <2>4. pc \in Coding \cup {"send"} \cup Decoding
      BY <1>1 DEF Coding, Decoding
    <2> QED
      BY <1>1, <1>3, <2>1, <2>2, <2>3, <2>4 DEF TypeOK
  <1>6. Stages /\ Budget
    BY <1>1, <1>4 DEF Stages, Budget, Decoding
  <1>7. ChainSound
    <2>1. TableOK(hashTable, Hashed) /\ LinksOK(hashChain, Hashed)
      BY <1>1 DEF TableOK, LinksOK, Hashed
    <2> QED
      BY <1>1, <2>1, ChainMeans
  <1>8. BuffersHold
    <2>1. Made(bits) = 0 /\ Len(bits.dst) = 0 /\ ~bits.full /\ Len(out) = 0
      BY <1>1, <1>2 DEF Made, NoBits
    <2>2. Most \in Nat /\ (W + 1) * inpos = 0
      BY <1>1, <1>2, <1>5, TypeFacts
    <2> QED
      BY <1>1, <1>2, <2>1, <2>2, BuffersMeans
  <1> QED
    BY <1>5, <1>6, <1>7, <1>8 DEF Inv

\* A step that changes nothing.
LEMMA StutterInv == Inv /\ UNCHANGED vars => Inv'
  <1> SUFFICES ASSUME Inv, UNCHANGED vars PROVE Inv'
    OBVIOUS
  <1>1. UNCHANGED <<codec, pc, encVars, frame, decVars>>
    BY DEF vars
  <1>2. TypeOK'
    BY <1>1, SamePacket DEF Inv, TypeOK, WithinFrame, encVars, hashVars, decVars
  <1>3. Stages' /\ Budget'
    BY <1>1, SamePacket DEF Inv, Stages, Budget, Made, encVars, hashVars, decVars
  <1>4. ChainSound'
    BY <1>1, ChainNext, ChainMeans DEF Inv, Hashed, encVars, hashVars
  <1>5. BuffersHold'
    BY <1>1, BuffersNext, BuffersMeans DEF Inv, encVars, decVars
  <1> QED
    BY <1>2, <1>3, <1>4, <1>5 DEF Inv

\* All the steps.
LEMMA NextInv == Inv /\ [Next]_vars => Inv'
  BY StutterInv, StepScanLiteral, StepScanMatch, StepFollowChain, StepPutShortMatch,
     StepPutLongMatch, StepPutBlock, StepPutLastBlock, StepHashRest, StepPutTail,
     StepSendFrame, StepDecodeShort, StepDecodeLiteral, StepDecodeEnd, StepDecodeMatch,
     StepDecodeLong DEF Next, Compress, Decompress

-----------------------------------------------------------------------------
(* The bits of a stream.                                                   *)

\* The quotient and the remainder of a number that is given by them.
LEMMA Quotient ==
  ASSUME NEW m \in Nat \ {0}, NEW q \in Nat, NEW r \in 0..(m - 1)
  PROVE  (q * m + r) \div m = q /\ (q * m + r) % m = r
  <1> q * m + r \in Nat
    OBVIOUS
  <1> QED
    OBVIOUS

\* Dividing by a product is dividing twice.
LEMMA QuotientTwice ==
  ASSUME NEW a \in Nat \ {0}, NEW b \in Nat \ {0}, NEW v \in Nat
  PROVE  v \div (a * b) = (v \div a) \div b
  <1> DEFINE q == v \div a
             r == v % a
             s == q \div b
             t == q % b
  <1>1. q \in Nat /\ r \in 0..(a - 1) /\ r = v - a * q
    BY DivMod
  <1>2. s \in Nat /\ t \in 0..(b - 1) /\ t = q - b * s
    BY <1>1, DivMod
  <1> HIDE DEF q, r, s, t
  <1>3. a * b \in Nat \ {0} /\ a * t \in Nat /\ a * t <= a * (b - 1)
    BY <1>2
  <1>4. a * t + r \in 0..(a * b - 1)
    BY <1>1, <1>2, <1>3
  <1>5. v = s * (a * b) + (a * t + r)
    <2>1. v = a * (b * s + t) + r
      BY <1>1, <1>2
    <2> QED
      BY <1>1, <1>2, <2>1
  <1>6. v \div (a * b) = s
    <2> DEFINE m == a * b
               u == a * t + r
    <2>1. m \in Nat \ {0} /\ u \in 0..(m - 1)
      BY <1>3, <1>4
    <2> HIDE DEF m, u
    <2>2. (s * m + u) \div m = s
      BY <1>2, <2>1, Quotient
    <2> QED
      BY <1>5, <2>2 DEF m, u
  <1> QED
    BY <1>6 DEF s, q

\* V[p] is the number that the first p bits of a stream make up.
Field(V, p, n) == V[p + n] - V[p] * 2 ^ n

BitString(V, T) ==
  /\ \A p \in 0..T : V[p] \in Nat
  /\ \A p \in 0..T, n \in 0..(2 * W) : p + n <= T => Field(V, p, n) \in 0..(2 ^ n - 1)

\* The powers of two, for numbers in Nat.
LEMMA Power ==
  ASSUME Widths
  PROVE  /\ \A n \in 0..(3 * W) : 2 ^ n \in Nat \ {0}
         /\ \A m, n \in Nat : m + n <= 3 * W => 2 ^ (m + n) = 2 ^ m * 2 ^ n
         /\ 2 ^ 0 = 1
  <1>1. \A n \in 0..(3 * W) : 2 ^ n \in Nat \ {0}
    BY DEF Widths
  <1>2. W \in Nat
    BY DEF Widths
  <1>3. \A m, n \in Nat : m + n <= 3 * W => 2 ^ (m + n) = 2 ^ m * 2 ^ n
    <2> SUFFICES ASSUME NEW m \in Nat, NEW n \in Nat, m + n <= 3 * W
                 PROVE  2 ^ (m + n) = 2 ^ m * 2 ^ n
      OBVIOUS
    <2>1. m \in 0..(3 * W) /\ n \in 0..(3 * W)
      BY <1>2
    <2> QED
      BY <2>1 DEF Widths
  <1>4. 2 ^ 0 = 1
    <2> DEFINE one == 2 ^ 0
    <2>1. one \in Nat \ {0}
      BY <1>1, <1>2
    <2>2. one = one * one
      <3>1. 0 \in Nat /\ 0 + 0 = 0 /\ 0 + 0 <= 3 * W
        BY <1>2
      <3>2. 2 ^ (0 + 0) = 2 ^ 0 * 2 ^ 0
        BY <1>3, <3>1
      <3> QED
        BY <3>1, <3>2
    <2> HIDE DEF one
    <2>3. one = 1
      BY <2>1, <2>2
    <2> QED
      BY <2>3 DEF one
  <1> QED
    BY <1>1, <1>3, <1>4

\* The arithmetic of SplitField.
LEMMA Polynomial ==
  ASSUME NEW x \in Int, NEW y \in Int, NEW z \in Int, NEW a \in Int, NEW b \in Int
  PROVE  z - x * (a * b) = (y - x * a) * b + (z - y * b)
  OBVIOUS

\* A field of a + b bits is its first a bits, then the other b.
LEMMA SplitField ==
  ASSUME Widths, NEW T \in Nat, NEW V, BitString(V, T),
         NEW p \in Nat, NEW a \in Nat, NEW b \in Nat, a + b <= 3 * W, p + a + b <= T
  PROVE  Field(V, p, a + b) = Field(V, p, a) * 2 ^ b + Field(V, p + a, b)
  <1>1. W \in Nat
    BY DEF Widths
  <1>2. p \in 0..T /\ p + a \in 0..T /\ p + (a + b) \in 0..T /\ (p + a) + b = p + (a + b)
    BY <1>1
  <1>3. V[p] \in Nat /\ V[p + a] \in Nat /\ V[p + (a + b)] \in Nat
    BY <1>2 DEF BitString
  <1>4. a \in 0..(3 * W) /\ b \in 0..(3 * W)
    BY <1>1
  <1>5. 2 ^ a \in Nat /\ 2 ^ b \in Nat /\ 2 ^ (a + b) = 2 ^ a * 2 ^ b
    BY <1>4, Power
  <1>6. V[p + (a + b)] - V[p] * (2 ^ a * 2 ^ b)
          = (V[p + a] - V[p] * 2 ^ a) * 2 ^ b + (V[p + (a + b)] - V[p + a] * 2 ^ b)
    BY <1>3, <1>5, Polynomial
  <1> QED
    BY <1>2, <1>5, <1>6 DEF Field

Extends(V2, V, T) == \A q \in 0..T : V2[q] = V[q]

\* What a longer stream has within the shorter one.
LEMMA SameField ==
  ASSUME NEW T \in Nat, NEW V, NEW V2, Extends(V2, V, T),
         NEW p \in Nat, NEW n \in Nat, p + n <= T
  PROVE  Field(V2, p, n) = Field(V, p, n)
  <1>1. p \in 0..T /\ p + n \in 0..T
    OBVIOUS
  <1> QED
    BY <1>1 DEF Extends, Field

\* The leading k of n bits of a number.
LEMMA Leading ==
  ASSUME Widths, NEW n \in 0..(2 * W), NEW v \in 0..(2 ^ n - 1)
  PROVE  LET hi(k) == v \div 2 ^ (n - k)
         IN  /\ hi(0) = 0 /\ hi(n) = v
             /\ \A k \in 0..n : hi(k) \in Nat
             /\ \A j, k \in 0..n : j + k <= n => hi(j + k) - hi(j) * 2 ^ k \in 0..(2 ^ k - 1)
  <1> DEFINE hi(k) == v \div 2 ^ (n - k)
  <1>1. W \in Nat /\ n \in Nat
    BY DEF Widths
  <1>2. \A k \in 0..n : 2 ^ k \in Nat \ {0}
    <2>1. \A k \in 0..n : k \in 0..(3 * W)
      BY <1>1
    <2> QED
      BY <2>1, Power
  <1>3. v \in Nat /\ 2 ^ n \in Nat \ {0}
    BY <1>1, <1>2
  <1>4. hi(0) = 0
    <2>1. n - 0 = n
      BY <1>1
    <2>2. v \div 2 ^ n = 0
      <3> DEFINE m == 2 ^ n
      <3>1. m \in Nat \ {0} /\ v \in 0..(m - 1)
        BY <1>3
      <3> HIDE DEF m
      <3>2. v \div m = 0
        BY <3>1
      <3> QED
        BY <3>2 DEF m
    <2> QED
      BY <2>1, <2>2
  <1>5. hi(n) = v
    <2>1. n - n = 0 /\ 2 ^ 0 = 1
      BY <1>1, Power
    <2>2. v \div 1 = v
      BY <1>3
    <2> QED
      BY <2>1, <2>2
  <1>6. ASSUME NEW k \in 0..n PROVE hi(k) \in Nat
    <2>1. 2 ^ (n - k) \in Nat \ {0}
      BY <1>1, <1>2, n - k \in 0..n
    <2> QED
      BY <1>3, <2>1, DivMod
  <1>7. ASSUME NEW j \in 0..n, NEW k \in 0..n, j + k <= n
        PROVE  hi(j + k) - hi(j) * 2 ^ k \in 0..(2 ^ k - 1)
    <2> DEFINE l == n - (j + k)
               a == 2 ^ l
               b == 2 ^ k
               u == v \div a
    <2>1. l \in 0..n /\ l \in Nat /\ k \in Nat /\ l + k = n - j /\ l + k <= 3 * W
      BY <1>1, <1>7
    <2>2. a \in Nat \ {0} /\ b \in Nat \ {0}
      BY <1>2, <2>1
    <2>3. 2 ^ (n - j) = a * b
      <3> HIDE DEF l
      <3>1. 2 ^ (l + k) = 2 ^ l * 2 ^ k
        BY <2>1, Power
      <3> QED
        BY <2>1, <3>1
    <2> HIDE DEF a, b
    <2>4. v \div (a * b) = u \div b
      BY <1>3, <2>2, QuotientTwice
    <2>5. u \in Nat
      BY <1>3, <2>2, DivMod
    <2> HIDE DEF u
    <2>6. u % b \in 0..(b - 1) /\ u % b = u - b * (u \div b) /\ u \div b \in Nat
      BY <2>2, <2>5, DivMod
    <2>7. u - (u \div b) * b \in 0..(b - 1)
      BY <2>2, <2>5, <2>6
    <2>8. hi(j + k) = u
      BY DEF u, a
    <2>9. hi(j) = u \div b
      BY <2>3, <2>4
    <2> QED
      BY <2>7, <2>8, <2>9 DEF b
  <1> QED
    BY <1>4, <1>5, <1>6, <1>7

\* Two digits make a number below the product of their bases.
LEMMA Compound ==
  ASSUME NEW a \in Nat, NEW b \in Nat, NEW f \in 0..(a - 1), NEW h \in 0..(b - 1)
  PROVE  f * b + h \in 0..(a * b - 1)
  <1>1. f * b <= (a - 1) * b /\ f * b \in Nat
    OBVIOUS
  <1>2. (a - 1) * b = a * b - b /\ a * b \in Nat
    OBVIOUS
  <1> QED
    BY <1>1, <1>2

\* A stream goes on with n bits.
LEMMA Appended ==
  ASSUME Widths, NEW T \in Nat, NEW V, BitString(V, T),
         NEW n \in 0..(2 * W), NEW v \in 0..(2 ^ n - 1)
  PROVE  \E V2 : BitString(V2, T + n) /\ Extends(V2, V, T) /\ Field(V2, T, n) = v
  <1> DEFINE hi(k) == v \div 2 ^ (n - k)
             V2 == [q \in 0..(T + n) |-> IF q <= T THEN V[q] ELSE V[T] * 2 ^ (q - T) + hi(q - T)]
  <1>1. W \in Nat /\ n \in Nat
    BY DEF Widths
  <1>2. \A k \in 0..(3 * W) : 2 ^ k \in Nat \ {0}
    BY Power
  <1>3. /\ hi(0) = 0 /\ hi(n) = v
        /\ \A k \in 0..n : hi(k) \in Nat
        /\ \A j, k \in 0..n : j + k <= n => hi(j + k) - hi(j) * 2 ^ k \in 0..(2 ^ k - 1)
    BY Leading
  <1> HIDE DEF hi
  <1>4. V[T] \in Nat /\ \A q \in 0..T : V[q] \in Nat
    BY DEF BitString
  <1>5. \A q \in 0..T : V2[q] = V[q]
    BY <1>1
  <1>6. ASSUME NEW k \in 0..n
        PROVE  V2[T + k] = V[T] * 2 ^ k + hi(k) /\ V2[T + k] \in Nat /\ 2 ^ k \in Nat \ {0}
    <2>1. T + k \in 0..(T + n) /\ (T + k) - T = k /\ k \in 0..(3 * W) /\ k \in Nat
      BY <1>1
    <2>2. 2 ^ k \in Nat \ {0} /\ hi(k) \in Nat
      BY <1>2, <1>3, <2>1
    <2>3. CASE k = 0
      <3>1. T + k \in 0..T /\ T + k = T
        BY <2>1, <2>3
      <3>2. V[T] * 1 + 0 = V[T]
        BY <1>4
      <3> QED
        BY <1>3, <1>4, <1>5, <2>2, <2>3, <3>1, <3>2, Power
    <2>4. CASE k > 0
      <3>1. ~(T + k <= T)
        BY <2>1, <2>4
      <3>2. V2[T + k] = V[T] * 2 ^ k + hi(k)
        BY <2>1, <3>1
      <3>3. V[T] * 2 ^ k + hi(k) \in Nat
        <4>1. \A x, y, z \in Nat : x * y + z \in Nat
          OBVIOUS
        <4> QED
          BY <1>4, <2>2, <4>1
      <3> QED
        BY <2>2, <3>2, <3>3
    <2> QED
      BY <2>1, <2>3, <2>4
  <1>7. ASSUME NEW q \in 0..(T + n) PROVE V2[q] \in Nat
    <2>1. CASE q <= T
      BY <1>4, <1>5, <2>1
    <2>2. CASE q > T
      <3>1. q - T \in 0..n /\ T + (q - T) = q
        BY <1>1, <2>2
      <3> QED
        BY <1>6, <3>1
    <2> QED
      BY <2>1, <2>2
  <1> HIDE DEF V2
  <1>8. ASSUME NEW p \in 0..(T + n), NEW m \in 0..(2 * W), p + m <= T + n
        PROVE  Field(V2, p, m) \in 0..(2 ^ m - 1)
    <2>1. p \in Nat /\ m \in Nat
      BY <1>1
    <2>2. CASE p + m <= T
      <3>1. p \in 0..T /\ p + m \in 0..T
        BY <2>1, <2>2
      <3>2. Field(V2, p, m) = Field(V, p, m)
        BY <1>5, <3>1 DEF Field
      <3> QED
        BY <2>2, <3>1, <3>2 DEF BitString
    <2>3. CASE p <= T /\ p + m > T
      <3> DEFINE a == T - p
                 k == p + m - T
                 f == Field(V, p, a)
      <3>1. /\ a \in 0..(2 * W) /\ k \in 0..n /\ a \in Nat /\ k \in Nat /\ p \in 0..T
            /\ a + k = m /\ p + a = T /\ T + k = p + m /\ p + a <= T /\ a + k <= 3 * W
            /\ a \in 0..(3 * W)
        BY <1>1, <1>8, <2>1, <2>3
      <3>2. f \in 0..(2 ^ a - 1)
        BY <3>1 DEF BitString
      <3>3. V2[p] = V[p] /\ V[p] \in Nat
        BY <1>4, <1>5, <3>1
      <3> HIDE DEF a, k
      <3>4. V2[p + m] = V[T] * 2 ^ k + hi(k) /\ 2 ^ k \in Nat \ {0} /\ hi(k) \in Nat
        BY <1>3, <1>6, <3>1
      <3>5. f = V[T] - V[p] * 2 ^ a
        BY <3>1 DEF Field
      <3>6. hi(k) \in 0..(2 ^ k - 1)
        <4>1. 0 \in 0..n /\ 0 + k = k /\ k <= n
          BY <1>1, <3>1
        <4>2. hi(0 + k) - hi(0) * 2 ^ k \in 0..(2 ^ k - 1)
          BY <1>3, <3>1, <4>1
        <4>3. hi(k) - 0 * 2 ^ k = hi(k)
          BY <3>4
        <4> QED
          BY <1>3, <4>1, <4>2, <4>3
      <3>7. 2 ^ m = 2 ^ a * 2 ^ k /\ 2 ^ a \in Nat
        <4>1. 2 ^ (a + k) = 2 ^ a * 2 ^ k
          BY <3>1, Power
        <4> QED
          BY <1>2, <3>1, <4>1
      <3> HIDE DEF f
      <3>8. f * 2 ^ k + hi(k) \in 0..(2 ^ a * 2 ^ k - 1)
        BY <3>2, <3>4, <3>6, <3>7, Compound
      <3>9. Field(V2, p, m) = f * 2 ^ k + hi(k)
        <4>1. (V[T] * 2 ^ k + hi(k)) - V[p] * (2 ^ a * 2 ^ k)
                = (V[T] - V[p] * 2 ^ a) * 2 ^ k + hi(k)
          <5>1. \A x, y, z, c, d \in Int : (x * d + z) - y * (c * d) = (x - y * c) * d + z
            OBVIOUS
          <5>2. {V[T], V[p], 2 ^ a, 2 ^ k, hi(k)} \subseteq Int
            BY <1>4, <3>3, <3>4, <3>7
          <5> QED
            BY <5>1, <5>2
        <4> QED
          BY <3>3, <3>4, <3>5, <3>7, <4>1 DEF Field
      <3> QED
        BY <3>7, <3>8, <3>9
    <2>4. CASE p > T
      <3> DEFINE j == p - T
      <3>1. /\ j \in 0..n /\ m \in 0..n /\ j + m \in 0..n /\ j + m <= n /\ T + j = p
            /\ T + (j + m) = p + m /\ j \in Nat /\ j + m <= 3 * W
        BY <1>1, <1>8, <2>1, <2>4
      <3> HIDE DEF j
      <3>2. /\ V2[p] = V[T] * 2 ^ j + hi(j) /\ 2 ^ j \in Nat /\ hi(j) \in Nat
            /\ V2[p + m] = V[T] * 2 ^ (j + m) + hi(j + m) /\ hi(j + m) \in Nat
            /\ 2 ^ m \in Nat
        BY <1>3, <1>6, <3>1
      <3>3. 2 ^ (j + m) = 2 ^ j * 2 ^ m
        BY <2>1, <3>1, Power
      <3>4. (V[T] * (2 ^ j * 2 ^ m) + hi(j + m)) - (V[T] * 2 ^ j + hi(j)) * 2 ^ m
              = hi(j + m) - hi(j) * 2 ^ m
        BY <1>4, <3>2
      <3>5. hi(j + m) - hi(j) * 2 ^ m \in 0..(2 ^ m - 1)
        BY <1>3, <3>1
      <3> QED
        BY <3>2, <3>3, <3>4, <3>5 DEF Field
    <2> QED
      BY <2>1, <2>2, <2>3, <2>4
  <1>9. Field(V2, T, n) = v
    <2>1. V2[T + n] = V[T] * 2 ^ n + hi(n) /\ 2 ^ n \in Nat
      BY <1>1, <1>6, n \in 0..n
    <2>2. V2[T] = V[T]
      BY <1>5
    <2>3. (V[T] * 2 ^ n + v) - V[T] * 2 ^ n = v
      <3>1. V[T] * 2 ^ n \in Int /\ v \in Int
        BY <1>4, <2>1
      <3> QED
        BY <3>1
    <2> QED
      BY <1>3, <2>1, <2>2, <2>3 DEF Field
  <1>10. BitString(V2, T + n) /\ Extends(V2, V, T)
    BY <1>5, <1>7, <1>8 DEF BitString, Extends
  <1> QED
    BY <1>9, <1>10

-----------------------------------------------------------------------------
(* putBits writes the stream.                                              *)

\* The bytes that are out and the bits that are pending are those of the stream.
Encodes(V, st) ==
  /\ BitString(V, Made(st))
  /\ \A k \in 1..Len(st.dst) : st.dst[k] = Field(V, W * (k - 1), W)
  /\ st.acc = Field(V, W * Len(st.dst), st.nr)

\* The byte that goes out is the next one of the stream.
LEMMA PutByteEncodes ==
  ASSUME Widths, NEW st \in Pending, st.nr >= W, Len(st.dst) <= codec.cap,
         ~PutByte(st).full, NEW V, Encodes(V, st)
  PROVE  Encodes(V, PutByte(st))
  <1> DEFINE L == Len(st.dst)
             p == W * L
             b == st.nr - W
             hi == Field(V, p, W)
             lo == Field(V, p + W, b)
             byte == (st.acc \div 2 ^ b) % 2 ^ W
             low  == st.acc % 2 ^ b
  <1>1. /\ st.acc \in Nat /\ st.dst \in Seq(Bytes(codec)) /\ st.nr \in 0..(3 * W - 1)
        /\ st.full \in BOOLEAN /\ L \in Nat
        /\ st = [dst |-> st.dst, acc |-> st.acc, nr |-> st.nr, full |-> st.full]
    BY DEF Pending
  <1>2. W \in Nat /\ W >= 4 /\ codec.cap \in Nat
    BY DEF Widths
  <1>3. L # codec.cap
    <2>1. L = codec.cap => PutByte(st) = [dst |-> st.dst, acc |-> st.acc, nr |-> st.nr, full |-> TRUE]
      BY <1>1 DEF PutByte
    <2> QED
      BY <2>1
  <1>4. PutByte(st) = [st EXCEPT !.dst = Append(@, byte), !.acc = low, !.nr = @ - W]
    BY <1>3 DEF PutByte
  <1>5. b \in 0..(2 * W) /\ b \in Nat /\ W + b = st.nr /\ p \in Nat /\ st.nr <= 3 * W
    BY <1>1, <1>2
  <1>6. Made(st) = p + (W + b) /\ p + W + b = p + (W + b)
    BY <1>1, <1>2, <1>5 DEF Made
  <1>7. Made(PutByte(st)) = Made(st)
    BY PutByteSound
  <1>8. BitString(V, Made(st)) /\ st.acc = Field(V, p, W + b)
    BY <1>5 DEF Encodes
  <1> HIDE DEF b, p
  <1>9. hi \in 0..(2 ^ W - 1) /\ lo \in 0..(2 ^ b - 1)
    <2>1. /\ p \in 0..Made(st) /\ p + W \in 0..Made(st) /\ W \in 0..(2 * W)
          /\ p + W <= Made(st) /\ p + W + b <= Made(st)
      BY <1>2, <1>5, <1>6
    <2> QED
      BY <1>5, <1>8, <2>1 DEF BitString
  <1>10. st.acc = hi * 2 ^ b + lo
    <2> DEFINE T == Made(st)
               a == W
    <2>1. BitString(V, T)
      BY <1>8
    <2>2. T \in Nat /\ a \in Nat /\ a + b <= 3 * W /\ p + a + b <= T
      BY <1>2, <1>5, <1>6
    <2> HIDE DEF T, a
    <2>3. Field(V, p, a + b) = Field(V, p, a) * 2 ^ b + Field(V, p + a, b)
      BY <1>5, <2>1, <2>2, SplitField
    <2> QED
      BY <1>8, <2>3 DEF a
  <1>11. 2 ^ b \in Nat \ {0} /\ 2 ^ W \in Nat \ {0}
    BY <1>2, <1>5, b \in 0..(3 * W), W \in 0..(3 * W), Power
  <1> HIDE DEF hi, lo
  <1>12. st.acc \div 2 ^ b = hi /\ low = lo
    BY <1>9, <1>10, <1>11, hi \in Nat, Quotient
  <1>13. byte = hi
    <2>1. hi % 2 ^ W = hi
      <3>1. (0 * 2 ^ W + hi) % 2 ^ W = hi
        BY <1>9, <1>11, Quotient
      <3>2. 0 * 2 ^ W + hi = hi
        BY <1>9, <1>11
      <3> QED
        BY <3>1, <3>2
    <2> QED
      BY <1>12, <2>1
  <1> HIDE DEF byte, low
  <1>14. PutByte(st) = [dst |-> Append(st.dst, hi), acc |-> lo, nr |-> b, full |-> st.full]
    BY <1>1, <1>4, <1>12, <1>13 DEF b
  <1>15. hi \in Bytes(codec)
    BY <1>9 DEF Bytes, W
  <1>16. /\ Len(Append(st.dst, hi)) = L + 1 /\ Append(st.dst, hi)[L + 1] = hi
         /\ \A k \in 1..L : Append(st.dst, hi)[k] = st.dst[k]
    BY <1>1, <1>15
  <1>17. W * (L + 1) = p + W /\ W * ((L + 1) - 1) = p
    BY <1>1, <1>2 DEF p
  <1>18. ASSUME NEW k \in 1..(L + 1)
         PROVE  Append(st.dst, hi)[k] = Field(V, W * (k - 1), W)
    <2>1. CASE k = L + 1
      BY <1>16, <1>17, <2>1 DEF hi
    <2>2. CASE k # L + 1
      <3>1. k \in 1..L
        BY <1>1, <2>2
      <3> QED
        BY <1>16, <3>1 DEF Encodes
    <2> QED
      BY <2>1, <2>2
  <1> HIDE DEF L
  <1>19. lo = Field(V, W * (L + 1), b)
    BY <1>17 DEF lo
  <1>20. BitString(V, Made(PutByte(st)))
    BY <1>7, <1>8
  <1> QED
    BY <1>14, <1>16, <1>18, <1>19, <1>20 DEF Encodes

\* A token whose value has no more bits than it says goes on the stream.
Fit == {t \in Tokens : t.val \in 0..(2 ^ t.nr - 1)}

\* A token is the next field of the stream, however its bits are cut into bytes.
LEMMA PutBitsEncodes ==
  ASSUME Widths, NEW st \in Output, NEW t \in Fit, ~PutBits(st, t).full, NEW V, Encodes(V, st)
  PROVE  /\ PutBits(st, t) \in Output /\ Made(PutBits(st, t)) = Made(st) + t.nr /\ ~st.full
         /\ \E V2 : /\ Extends(V2, V, Made(st)) /\ Encodes(V2, PutBits(st, t))
                    /\ Field(V2, Made(st), t.nr) = t.val
  <1> DEFINE sum   == st.acc * 2 ^ t.nr + t.val
             added == [dst |-> st.dst, acc |-> sum, nr |-> st.nr + t.nr, full |-> st.full]
             wide  == IF t.nr > W THEN PutByte(added) ELSE added
             last  == IF wide.nr >= W THEN PutByte(wide) ELSE wide
             L     == Len(st.dst)
             p     == W * L
  <1>1. /\ st.dst \in Seq(Bytes(codec)) /\ st.acc \in Nat /\ st.nr \in Nat
        /\ st.full \in BOOLEAN /\ L \in Nat /\ Len(st.dst) <= codec.cap
        /\ st = [dst |-> st.dst, acc |-> st.acc, nr |-> st.nr, full |-> st.full]
        /\ st \in Pending
    BY DEF Output, Pending
  <1>2. t \in Tokens /\ t.nr \in 0..(2 * W) /\ t.nr \in Nat /\ t.val \in Nat /\ t.val \in 0..(2 ^ t.nr - 1)
    BY DEF Tokens, Fit
  <1>3. W \in Nat /\ W >= 4 /\ codec.cap \in Nat
    BY DEF Widths
  <1>4. /\ PutBits(st, t) \in Output /\ ~st.full
    <2>1. PutBits(st, t) \in Output /\ (st.full => PutBits(st, t).full)
      BY <1>2, PutBitsSound
    <2> QED
      BY <2>1
  <1>5. PutBits(st, t) = IF st.full \/ wide.full THEN [st EXCEPT !.full = TRUE] ELSE last
    BY DEF PutBits
  <1>6. p \in Nat /\ Made(st) = p + st.nr /\ Made(st) \in Nat
    BY <1>1, <1>3 DEF Made
  <1>7. st.nr < W /\ st.nr + t.nr \in 0..(3 * W - 1) /\ st.nr + t.nr <= 3 * W
    <2> HIDE DEF L, p
    <2>1. st.nr < W
      BY <1>4 DEF Output
    <2>2. st.nr \in Nat /\ t.nr \in Nat /\ t.nr <= 2 * W
      BY <1>1, <1>2
    <2> QED
      BY <1>3, <2>1, <2>2
  <1>8. 2 ^ t.nr \in Nat \ {0} /\ sum \in Nat
    <2>1. 2 ^ t.nr \in Nat \ {0}
      BY <1>2, <1>3, t.nr \in 0..(3 * W), Power
    <2> QED
      BY <1>1, <1>2, <2>1
  <1> HIDE DEF sum
  <1>9. added \in Pending
    BY <1>1, <1>7, <1>8 DEF Pending
  <1>10. added.dst = st.dst /\ added.nr = st.nr + t.nr /\ ~added.full /\ added.acc = sum
    BY <1>4
  <1>11. Made(added) = Made(st) + t.nr
    BY <1>1, <1>2, <1>6, <1>10 DEF Made
  <1> HIDE DEF added
  <1>12. BitString(V, Made(st)) /\ st.acc = Field(V, p, st.nr)
    BY DEF Encodes
  <1>13. PICK V2 : /\ BitString(V2, Made(st) + t.nr) /\ Extends(V2, V, Made(st))
                   /\ Field(V2, Made(st), t.nr) = t.val
    BY <1>2, <1>6, <1>12, Appended
  <1>14. Encodes(V2, added)
    <2>1. ASSUME NEW k \in 1..L PROVE st.dst[k] = Field(V2, W * (k - 1), W)
      <3>1. k - 1 \in Nat /\ W * (k - 1) \in Nat
        BY <1>1, <1>3
      <3>2. W * (k - 1) + W <= p
        <4>1. W * (k - 1) + W = W * k
          BY <1>1, <1>3
        <4>2. W * k <= W * L
          BY <1>1, <1>3
        <4> QED
          BY <4>1, <4>2
      <3>3. W * (k - 1) + W <= Made(st)
        BY <1>1, <1>3, <1>6, <3>1, <3>2
      <3>4. Field(V2, W * (k - 1), W) = Field(V, W * (k - 1), W)
        BY <1>3, <1>6, <1>13, <3>1, <3>3, SameField
      <3> QED
        BY <3>4 DEF Encodes
    <2>2. sum = Field(V2, p, st.nr + t.nr)
      <3> HIDE DEF p
      <3>1. Field(V2, p, st.nr) = st.acc
        BY <1>1, <1>6, <1>12, <1>13, SameField
      <3>2. Made(st) + t.nr \in Nat /\ p + st.nr + t.nr <= Made(st) + t.nr
        BY <1>1, <1>2, <1>6
      <3> DEFINE T == Made(st) + t.nr
                 a == st.nr
                 b == t.nr
      <3>3. /\ BitString(V2, T) /\ T \in Nat /\ a \in Nat /\ b \in Nat /\ p \in Nat
            /\ p + a + b <= T /\ a + b <= 3 * W
        BY <1>1, <1>2, <1>6, <1>7, <1>13, <3>2
      <3> HIDE DEF T, a, b
      <3>4. Field(V2, p, a + b) = Field(V2, p, a) * 2 ^ b + Field(V2, p + a, b)
        BY <3>3, SplitField
      <3> QED
        BY <1>6, <1>13, <3>1, <3>4 DEF sum, a, b
    <2> QED
      BY <1>10, <1>11, <1>13, <2>1, <2>2 DEF Encodes
  <1>15. ~wide.full
    <2>1. wide.full => PutBits(st, t) = [dst |-> st.dst, acc |-> st.acc, nr |-> st.nr, full |-> TRUE]
      BY <1>1, <1>5
    <2> QED
      BY <2>1
  <1>16. /\ wide \in Pending /\ Len(wide.dst) <= codec.cap
         /\ Made(wide) = Made(added) /\ Encodes(V2, wide)
    <2>1. CASE t.nr > W
      <3>1. added.nr >= W /\ wide = PutByte(added) /\ Len(added.dst) <= codec.cap
        BY <1>1, <1>2, <1>3, <1>10, <2>1
      <3> QED
        BY <1>9, <1>14, <1>15, <3>1, PutByteSound, PutByteEncodes
    <2>2. CASE ~(t.nr > W)
      BY <1>1, <1>9, <1>10, <1>14, <2>2
    <2> QED
      BY <2>1, <2>2
  <1>17. PutBits(st, t) = last
    BY <1>4, <1>5, <1>15
  <1> HIDE DEF wide
  <1>18. Made(last) = Made(wide) /\ Encodes(V2, last)
    <2>1. CASE wide.nr >= W
      <3>1. last = PutByte(wide) /\ ~PutByte(wide).full
        BY <1>17, <2>1
      <3> QED
        BY <1>16, <2>1, <3>1, PutByteSound, PutByteEncodes
    <2>2. CASE ~(wide.nr >= W)
      BY <1>16, <2>2
    <2> QED
      BY <2>1, <2>2
  <1> QED
    BY <1>4, <1>11, <1>13, <1>16, <1>17, <1>18

-----------------------------------------------------------------------------
(* getBits reads it.                                                       *)

\* A field of n bits is a number of n bits.
LEMMA FieldRange ==
  ASSUME Widths, NEW T \in Nat, NEW V, BitString(V, T),
         NEW p \in Nat, NEW n \in Nat, n <= 2 * W, p + n <= T
  PROVE  Field(V, p, n) \in 0..(2 ^ n - 1) /\ Field(V, p, n) \in Nat /\ 2 ^ n \in Nat \ {0}
  <1>1. W \in Nat
    BY DEF Widths
  <1>2. p \in 0..T /\ n \in 0..(2 * W) /\ n \in 0..(3 * W)
    BY <1>1
  <1>3. Field(V, p, n) \in 0..(2 ^ n - 1) /\ 2 ^ n \in Nat \ {0}
    BY <1>2, Power DEF BitString
  <1> QED
    BY <1>3

\* The leading bits of a field.
LEMMA ReadFirst ==
  ASSUME Widths, NEW T \in Nat, NEW V, BitString(V, T),
         NEW p \in Nat, NEW a \in Nat, NEW b \in Nat, a <= 2 * W, b <= 2 * W, a + b <= 3 * W, p + a + b <= T
  PROVE  Field(V, p, a + b) \div 2 ^ b = Field(V, p, a) /\ Field(V, p, a + b) % 2 ^ b = Field(V, p + a, b)
  <1> DEFINE hi == Field(V, p, a)
             lo == Field(V, p + a, b)
  <1>1. W \in Nat
    BY DEF Widths
  <1>2. hi \in Nat
    BY <1>1, FieldRange
  <1>3. lo \in 0..(2 ^ b - 1) /\ 2 ^ b \in Nat \ {0}
    BY <1>1, p + a \in Nat, FieldRange
  <1>4. Field(V, p, a + b) = hi * 2 ^ b + lo
    BY SplitField
  <1> HIDE DEF hi, lo
  <1>5. (hi * 2 ^ b + lo) \div 2 ^ b = hi /\ (hi * 2 ^ b + lo) % 2 ^ b = lo
    BY <1>2, <1>3, Quotient
  <1> QED
    BY <1>4, <1>5 DEF hi, lo

\* The bits after the first a of a byte, moved up by e.
LEMMA ReadHead ==
  ASSUME Widths, NEW T \in Nat, NEW V, BitString(V, T), NEW p \in Nat, p + W <= T,
         NEW q \in Nat, p <= q, NEW l \in Nat, q + l = p + W,
         NEW e \in Nat, NEW n \in Nat, n = l + e, n <= W + 1
  PROVE  (Field(V, p, W) * 2 ^ e) % 2 ^ n = Field(V, q, l) * 2 ^ e
  <1> DEFINE a  == q - p
             hi == Field(V, p, a)
             lo == Field(V, p + a, l)
             m  == 2 ^ (l + e)
  <1>1. W \in Nat /\ W >= 4
    BY DEF Widths
  <1>0. a \in Nat /\ a + l = W /\ p + a = q /\ a + l <= W /\ l + e <= W + 1 /\ p + a + l <= T
    BY <1>1
  <1> HIDE DEF a
  <1>2. hi \in Nat
    BY <1>0, <1>1, a <= 2 * W, p + a <= T, FieldRange
  <1>3. lo \in 0..(2 ^ l - 1) /\ 2 ^ l \in Nat \ {0}
    BY <1>0, <1>1, l <= 2 * W, p + a \in Nat, FieldRange
  <1>4. Field(V, p, a + l) = hi * 2 ^ l + lo
    BY <1>0, <1>1, a + l <= 3 * W, SplitField
  <1>5. /\ 2 ^ e \in Nat \ {0} /\ m = 2 ^ l * 2 ^ e /\ m \in Nat \ {0}
    <2>1. e \in 0..(3 * W) /\ l + e \in 0..(3 * W) /\ l + e <= 3 * W
      BY <1>0, <1>1
    <2> QED
      BY <2>1, Power
  <1> HIDE DEF hi, lo, m
  <1>6. lo * 2 ^ e \in 0..(m - 1)
    <2>1. lo * 2 ^ e + 0 \in 0..(2 ^ l * 2 ^ e - 1)
      BY <1>3, <1>5, 0 \in 0..(2 ^ e - 1), Compound
    <2>2. lo * 2 ^ e + 0 = lo * 2 ^ e
      BY <1>3, <1>5
    <2> QED
      BY <1>5, <2>1, <2>2
  <1>7. (hi * 2 ^ l + lo) * 2 ^ e = hi * m + lo * 2 ^ e
    <2>1. \A x, y, z, c \in Int : (x * y + z) * c = x * (y * c) + z * c
      OBVIOUS
    <2>2. {hi, lo, 2 ^ l, 2 ^ e} \subseteq Int
      BY <1>2, <1>3, <1>5
    <2> QED
      BY <1>5, <2>1, <2>2
  <1>8. (hi * m + lo * 2 ^ e) % m = lo * 2 ^ e
    <2> DEFINE r == lo * 2 ^ e
    <2>1. r \in 0..(m - 1)
      BY <1>6
    <2> HIDE DEF r
    <2>2. (hi * m + r) % m = r
      BY <1>2, <1>5, <2>1, Quotient
    <2> QED
      BY <2>2 DEF r
  <1> QED
    BY <1>0, <1>4, <1>7, <1>8 DEF lo, m

\* n bits out of the middle of a byte.
LEMMA ReadWithin ==
  ASSUME Widths, NEW T \in Nat, NEW V, BitString(V, T), NEW p \in Nat, p + W <= T,
         NEW q \in Nat, p <= q, NEW n \in Nat, NEW c \in Nat, q + n + c = p + W
  PROVE  (Field(V, p, W) \div 2 ^ c) % 2 ^ n = Field(V, q, n)
  <1>1. W \in Nat /\ W >= 4
    BY DEF Widths
  <1> DEFINE a == q - p
             k == a + n
  <1>2. /\ k \in Nat /\ k <= 2 * W /\ c <= 2 * W /\ k + c <= 3 * W /\ p + k + c <= T /\ k + c = W
        /\ a \in Nat /\ a <= 2 * W /\ n <= 2 * W /\ a + n <= 3 * W /\ p + a + n <= T /\ p + a = q
    BY <1>1
  <1> HIDE DEF k
  <1>3. Field(V, p, k + c) \div 2 ^ c = Field(V, p, k)
    BY <1>2, ReadFirst
  <1> HIDE DEF a
  <1>4. Field(V, p, a + n) % 2 ^ n = Field(V, p + a, n)
    BY <1>2, ReadFirst
  <1> QED
    BY <1>2, <1>3, <1>4 DEF k

Carries(V, data) ==
  /\ BitString(V, W * Len(data))
  /\ \A k \in 1..Len(data) : data[k] = Field(V, W * (k - 1), W)

\* How many bits have been read.
Pos(st) == W * st.si + (W - st.left)

\* n bits from two bytes of which the first has l left.
LEMMA ReadTwo ==
  ASSUME Widths, NEW T \in Nat, NEW V, BitString(V, T), NEW p \in Nat, p + 2 * W <= T,
         NEW q \in Nat, p <= q, NEW l \in Nat, l >= 1, q + l = p + W,
         NEW n \in Nat, n <= W + 1, NEW e \in Nat, n = l + e, NEW m \in Nat, e + m = W
  PROVE  /\ e = 0 => (Field(V, p, W) * 2 ^ e) % 2 ^ n = Field(V, q, n) /\ Field(V, q, n) \in Nat
         /\ e > 0 => ((Field(V, p, W) * 2 ^ e) % 2 ^ n) + Field(V, p + W, W) \div 2 ^ m
                       = Field(V, q, n)
  <1>1. W \in Nat /\ W >= 4 /\ l <= W /\ p + W <= T
    BY DEF Widths
  <1>2. (Field(V, p, W) * 2 ^ e) % 2 ^ n = Field(V, q, l) * 2 ^ e
    BY <1>1, ReadHead
  <1>3. ASSUME e = 0
        PROVE  (Field(V, p, W) * 2 ^ e) % 2 ^ n = Field(V, q, n) /\ Field(V, q, n) \in Nat
    <2>1. n = l /\ q + l <= T /\ l <= 2 * W
      BY <1>1, <1>3
    <2>2. Field(V, q, l) \in Nat
      BY <2>1, FieldRange
    <2>3. Field(V, q, l) * 1 = Field(V, q, l)
      BY <2>2
    <2>4. 2 ^ e = 1
      BY <1>3, Power
    <2> QED
      BY <1>2, <2>1, <2>2, <2>3, <2>4
  <1>4. ((Field(V, p, W) * 2 ^ e) % 2 ^ n) + Field(V, p + W, W) \div 2 ^ m = Field(V, q, n)
    <2> DEFINE r == p + W
    <2>1. /\ r \in Nat /\ e <= 2 * W /\ m <= 2 * W /\ e + m <= 3 * W /\ l + e <= 3 * W
          /\ r + e + m <= T /\ q + l + e <= T /\ q + l = r
      BY <1>1
    <2> HIDE DEF r
    <2>2. Field(V, r, e + m) \div 2 ^ m = Field(V, r, e)
      BY <2>1, ReadFirst
    <2>3. Field(V, q, l + e) = Field(V, q, l) * 2 ^ e + Field(V, q + l, e)
      BY <2>1, SplitField
    <2>4. ((Field(V, p, W) * 2 ^ e) % 2 ^ n) + Field(V, r, W) \div 2 ^ m = Field(V, q, n)
      BY <1>2, <2>1, <2>2, <2>3
    <2> QED
      BY <2>4 DEF r
  <1> QED
    BY <1>3, <1>4

\* What getBits makes of two bytes, in the first or across both.
Value(one, two, l, n) ==
  IF n < l THEN (one \div 2 ^ (l - n)) % 2 ^ n
  ELSE ((one * 2 ^ (n - l)) % 2 ^ n) + (IF n > l THEN two \div 2 ^ (l + W - n) ELSE 0)

\* The bits that getBits puts together from two bytes.
LEMMA ReadOut ==
  ASSUME Widths, NEW T \in Nat, NEW V, BitString(V, T), NEW p \in Nat, p + 2 * W <= T,
         NEW q \in Nat, p <= q, NEW l \in Nat, l >= 1, q + l = p + W, NEW n \in Nat, n <= W + 1,
         NEW one, one = Field(V, p, W), NEW two, two = Field(V, p + W, W)
  PROVE  Value(one, two, l, n) = Field(V, q, n)
  <1>1. W \in Nat /\ W >= 4 /\ l <= W /\ p + W <= T
    BY DEF Widths
  <1>2. CASE n < l
    <2>1. PICK c \in Nat : c = l - n
      BY <1>2
    <2>2. q + n + c = p + W /\ ~(n = l) /\ ~(n > l)
      BY <1>1, <1>2, <2>1
    <2>3. (Field(V, p, W) \div 2 ^ c) % 2 ^ n = Field(V, q, n)
      BY <1>1, <2>2, ReadWithin
    <2> QED
      BY <1>2, <2>1, <2>3 DEF Value
  <1>3. CASE n >= l
    <2>1. n - l \in Nat /\ l + W - n \in Nat
      BY <1>1, <1>3
    <2>2. PICK e \in Nat, m \in Nat : e = n - l /\ m = l + W - n
      BY <2>1
    <2>3. n = l + e /\ e + m = W /\ ~(n < l) /\ (n = l => e = 0) /\ (n > l => e > 0)
      BY <1>1, <1>3, <2>2
    <2>4. /\ e = 0 => (Field(V, p, W) * 2 ^ e) % 2 ^ n = Field(V, q, n) /\ Field(V, q, n) \in Nat
          /\ e > 0 => ((Field(V, p, W) * 2 ^ e) % 2 ^ n) + Field(V, p + W, W) \div 2 ^ m
                        = Field(V, q, n)
      BY <2>3, ReadTwo
    <2>5. CASE e = 0
      <3>1. Field(V, q, n) + 0 = Field(V, q, n)
        BY <2>4, <2>5
      <3>2. ~(n > l)
        BY <2>3, <2>5
      <3> QED
        BY <2>2, <2>3, <2>4, <2>5, <3>1, <3>2 DEF Value
    <2>6. CASE e > 0
      <3>1. n > l
        BY <2>3, <2>6
      <3> QED
        BY <2>2, <2>3, <2>4, <2>6, <3>1 DEF Value
    <2> QED
      BY <2>5, <2>6
  <1> QED
    BY <1>2, <1>3

\* With two bytes left, getBits returns the next n bits of the stream.
LEMMA GetBitsReads ==
  ASSUME Widths, frame.data \in Seq(Bytes(codec)), NEW V, Carries(V, frame.data),
         NEW st \in Reader, ~st.short, st.si + 2 <= Len(frame.data), NEW n \in 0..(W + 1)
  PROVE  /\ GetBits(st, n) \in Reader /\ ~GetBits(st, n).short
         /\ Pos(GetBits(st, n)) = Pos(st) + n
         /\ GetBits(st, n).data = Field(V, Pos(st), n)
  <1>1. W \in Nat /\ W >= 4 /\ Len(frame.data) \in Nat /\ n \in Nat /\ n <= W + 1
    BY DEF Widths
  <1>2. PICK si \in Nat, l \in Nat : si = st.si /\ l = st.left /\ l >= 1 /\ l <= W
    BY DEF Reader, Widths
  <1>3. si + 2 <= Len(frame.data)
    BY <1>2
  <1>4. PICK p \in Nat, T \in Nat : p = W * si /\ T = W * Len(frame.data)
    BY <1>1, <1>2
  <1>5. p + 2 * W <= T /\ W * (si + 1) = p + W /\ W * (si + 2) = p + 2 * W
    <2>1. \A k, m, w \in Nat : k + 2 <= m => w * (k + 2) <= w * m
      OBVIOUS
    <2>2. W * (si + 2) <= T
      BY <1>1, <1>3, <1>4, <2>1
    <2>3. W * (si + 2) = p + 2 * W /\ W * (si + 1) = p + W
      BY <1>1, <1>4
    <2> QED
      BY <2>2, <2>3
  <1>6. PICK one, two : one = F(si) /\ two = F(si + 1)
    OBVIOUS
  <1>7. BitString(V, T) /\ one = Field(V, p, W) /\ two = Field(V, p + W, W)
    <2>1. si + 1 \in 1..Len(frame.data) /\ (si + 1) + 1 \in 1..Len(frame.data)
          /\ (si + 1) - 1 = si /\ ((si + 1) + 1) - 1 = si + 1
      BY <1>1, <1>3
    <2>2. F(si) = Field(V, W * ((si + 1) - 1), W) /\ F(si + 1) = Field(V, W * (((si + 1) + 1) - 1), W)
      BY <2>1 DEF Carries, F
    <2> QED
      BY <1>4, <1>5, <1>6, <2>1, <2>2 DEF Carries
  <1>8. PICK q \in Nat : q = p + (W - l) /\ p <= q /\ q + l = p + W
    <2>1. p + (W - l) \in Nat /\ p <= p + (W - l) /\ (p + (W - l)) + l = p + W
      BY <1>1, <1>2
    <2> QED
      BY <2>1
  <1>9. Pos(st) = q
    BY <1>2, <1>4, <1>8 DEF Pos
  <1> DEFINE more == l + W - n
             head == (one * 2 ^ (n - l)) % 2 ^ n
             tail == two \div 2 ^ more
             both == n > W \/ more < W
             flush == n > W /\ more = 0
             g == GetBits(st, n)
             res == Field(V, q, n)
  <1>10. Value(one, two, l, n) = res
    <2>1. /\ BitString(V, T) /\ p + 2 * W <= T /\ p <= q /\ l >= 1 /\ q + l = p + W
          /\ n \in Nat /\ n <= W + 1
      BY <1>1, <1>2, <1>5, <1>7, <1>8
    <2>2. one = Field(V, p, W) /\ two = Field(V, p + W, W)
      BY <1>7
    <2> QED
      BY <2>1, <2>2, ReadOut
  <1>11. g \in Reader
    BY <1>1, <1>2, WithinFrame(st), GetBitsSound DEF WithinFrame
  <1>12. ~(st.short \/ Len(frame.data) - si < 2)
    BY <1>1, <1>3
  <1>13. n >= W \/ n >= l =>
          g = [si    |-> si + (IF flush THEN 2 ELSE 1),
               left  |-> IF flush THEN W ELSE more,
               data  |-> head + (IF both THEN tail ELSE 0),
               short |-> FALSE]
    BY <1>2, <1>6, <1>12 DEF GetBits
  <1>14. ~(n >= W \/ n >= l) =>
          g = [si |-> si, left |-> l - n, data |-> (one \div 2 ^ (l - n)) % 2 ^ n, short |-> FALSE]
    BY <1>2, <1>6, <1>12 DEF GetBits
  <1> HIDE DEF g, head, tail, res
  <1>15. CASE n < l
    <2>1. ~(n >= W \/ n >= l)
      BY <1>1, <1>2, <1>15
    <2>2. g = [si |-> si, left |-> l - n, data |-> res, short |-> FALSE]
      BY <1>10, <1>14, <1>15, <2>1 DEF Value
    <2>3. p + (W - (l - n)) = q + n
      BY <1>1, <1>8
    <2>4. Pos(g) = p + (W - (l - n))
      BY <1>4, <2>2 DEF Pos
    <2> QED
      BY <1>9, <1>11, <2>2, <2>3, <2>4 DEF g, res
  <1>16. CASE n = l
    <2>1. ~flush /\ ~both /\ more = W /\ n >= l
      BY <1>1, <1>2, <1>16
    <2>2. head + 0 = res
      BY <1>1, <1>10, <1>16 DEF Value, head
    <2>3. g = [si |-> si + 1, left |-> W, data |-> res, short |-> FALSE]
      BY <1>13, <2>1, <2>2
    <2>4. (p + W) + (W - W) = q + n
      BY <1>1, <1>8, <1>16
    <2>5. Pos(g) = (p + W) + (W - W)
      BY <1>5, <2>3 DEF Pos
    <2> QED
      BY <1>9, <1>11, <2>3, <2>4, <2>5 DEF g, res
  <1>17. CASE n > l
    <2>1. both /\ n >= l
      BY <1>1, <1>2, <1>17
    <2>2. head + tail = res
      <3>1. ~(n < l)
        BY <1>1, <1>17
      <3> QED
        BY <1>10, <1>17, <3>1 DEF Value, head, tail
    <2>5. g.data = res /\ ~g.short
      BY <1>13, <2>1, <2>2
    <2>3. CASE flush
      <3>1. g.si = si + 2 /\ g.left = W
        BY <1>13, <2>1, <2>3
      <3>2. (p + 2 * W) + (W - W) = q + n
        BY <1>1, <1>8, <2>3
      <3>3. Pos(g) = (p + 2 * W) + (W - W)
        BY <1>5, <3>1 DEF Pos
      <3> QED
        BY <1>9, <1>11, <2>5, <3>2, <3>3 DEF g, res
    <2>4. CASE ~flush
      <3>1. g.si = si + 1 /\ g.left = more
        BY <1>13, <2>1, <2>4
      <3>2. (p + W) + (W - more) = q + n
        BY <1>1, <1>8
      <3>3. Pos(g) = (p + W) + (W - more)
        BY <1>5, <3>1 DEF Pos
      <3> QED
        BY <1>9, <1>11, <2>5, <3>2, <3>3 DEF g, res
    <2> QED
      BY <2>3, <2>4
  <1> QED
    BY <1>1, <1>15, <1>16, <1>17

-----------------------------------------------------------------------------
(* The symbols of the stream and the path along them.                      *)

LiteralAt(V, p, f, q, h) ==
  f < SrcLen /\ h = f + 1 /\ q = p + (W + 1) /\ Field(V, p, W + 1) = B(f)

OffsetAt(V, p, d, q) ==
  q = p + OffsetToken(d).nr /\ Field(V, p, OffsetToken(d).nr) = OffsetToken(d).val

Nibbles(V, p, k) == \A i \in 0..(k - 1) : Field(V, p + 4 * i, 4) = 15

LongLength(V, p, len, q, k, r) ==
  /\ k \in Nat /\ r \in 0..14 /\ 15 * k + r = len + 7
  /\ Nibbles(V, p, k) /\ Field(V, p + 4 * k, 4) = r /\ q = p + 4 * k + 4

LengthAt(V, p, len, q) ==
  \/ len < 5 /\ q = p + 2 /\ Field(V, p, 2) = len - 2
  \/ len >= 5 /\ len < 8 /\ q = p + 4 /\ Field(V, p, 4) = len + 7
  \/ len >= 8 /\ \E k, r : LongLength(V, p, len, q, k, r)

MatchAt(V, p, f, q, h) ==
  \E ofs, len, m \in Nat :
    IsMatch(f, ofs, len) /\ OffsetAt(V, p, f - ofs, m) /\ LengthAt(V, m, len, q) /\ h = f + len

\* The symbol at bit p of the stream, which stands for the bytes from f to h, ends
\* at q.
SymbolAt(V, p, f, q, h) == LiteralAt(V, p, f, q, h) \/ MatchAt(V, p, f, q, h)

\* The boundaries S of the symbols, from the start to bit T and byte g.
Path(V, S, T, g) ==
  /\ <<0, 0>> \in S /\ <<T, g>> \in S
  /\ \A p, f : <<p, f>> \in S =>
       /\ p \in Nat /\ f \in Nat /\ p <= T
       /\ (p = T /\ f = g) \/ \E q, h : <<q, h>> \in S /\ SymbolAt(V, p, f, q, h)

Coded(st, g) ==
  ~st.full /\ \E V, S : Encodes(V, st) /\ Path(V, S, Made(st), g)

\* No token has a value wider than its bits.
LEMMA TokenFits ==
  ASSUME TypeOK
  PROVE  /\ \A n \in {2, 4, 8} : \A v \in 0..(2 ^ n - 1) : Token(n, v) \in Fit
         /\ \A i \in 0..(SrcLen - 1) : Literal(i) \in Fit /\ B(i) \in 0..(2 ^ W - 1)
         /\ \A d \in 0..(MaxHistory - 1) : OffsetToken(d) \in Fit /\ OffsetToken(d).nr \in Nat /\ OffsetToken(d).nr > 0
         /\ Token(2 * W, 3 * 2 ^ (2 * W - 2)) \in Fit
  <1>1. /\ Widths /\ W \in Nat /\ W >= 4 /\ codec.x \in Nat /\ codec.x < W /\ SrcLen \in Nat
    BY TypeFacts
  <1>2. \A n, v : Token(n, v).nr = n /\ Token(n, v).val = v
    BY DEF Token
  <1>3. \A n \in 0..(2 * W) : \A v \in 0..(2 ^ n - 1) : Token(n, v) \in Fit
    <2> SUFFICES ASSUME NEW n \in 0..(2 * W), NEW v \in 0..(2 ^ n - 1) PROVE Token(n, v) \in Fit
      OBVIOUS
    <2>1. v \in Nat
      OBVIOUS
    <2>2. Token(n, v) \in Tokens
      BY <2>1 DEF Token, Tokens
    <2> QED
      BY <1>2, <2>2 DEF Fit
  <1>4. \A n \in {2, 4, 8} : n \in 0..(2 * W)
    BY <1>1
  <1>5. \A n \in {2, 4, 8} : \A v \in 0..(2 ^ n - 1) : Token(n, v) \in Fit
    BY <1>3, <1>4
  <1>6. ASSUME NEW i \in 0..(SrcLen - 1) PROVE Literal(i) \in Fit /\ B(i) \in 0..(2 ^ W - 1)
    <2>1. B(i) \in 0..(2 ^ W - 1)
      <3>1. i + 1 \in 1..Len(src) /\ src \in Seq(Bytes(codec))
        BY <1>1 DEF TypeOK, SrcLen
      <3>2. src[i + 1] \in Bytes(codec)
        BY <3>1
      <3> QED
        BY <3>2 DEF B, Bytes, W
    <2>2. W + 1 \in 0..(2 * W) /\ W + 1 <= 3 * W /\ W \in 0..(3 * W)
      BY <1>1
    <2>3. 2 ^ (W + 1) = 2 ^ W * 2 ^ 1 /\ 2 ^ W \in Nat
      BY <1>1, <2>2, 1 \in Nat, Power
    <2>4. 2 ^ 1 = 2
      OBVIOUS
    <2>5. 2 ^ (W + 1) = 2 ^ W * 2
      BY <2>3, <2>4
    <2>6. B(i) \in 0..(2 ^ (W + 1) - 1)
      <3> DEFINE w == 2 ^ W
      <3>1. w \in Nat /\ B(i) \in 0..(w - 1)
        BY <2>1, <2>3
      <3> HIDE DEF w
      <3>2. B(i) \in 0..(w * 2 - 1)
        BY <3>1
      <3> QED
        BY <2>5, <3>2 DEF w
    <2> QED
      BY <1>3, <2>1, <2>2, <2>6 DEF Literal
  <1>7. ASSUME NEW d \in 0..(MaxHistory - 1)
        PROVE  OffsetToken(d) \in Fit /\ OffsetToken(d).nr \in Nat /\ OffsetToken(d).nr > 0
    <2>1. PICK a \in Nat, b \in Nat : a = 2 ^ (W - 1) /\ b = 2 ^ codec.x /\ a # 0 /\ b # 0
      <3>1. W - 1 \in 0..(3 * W) /\ codec.x \in 0..(3 * W)
        BY <1>1
      <3> QED
        BY <1>1, <3>1, Power
    <2>2. 2 ^ (W + 1) = 4 * a /\ 2 ^ (W + codec.x) = 2 * (a * b) /\ 2 ^ (W + 1 + codec.x) = 4 * (a * b)
          /\ MaxHistory = a * b
      <3>1. 2 ^ 2 = 4 /\ 2 ^ 1 = 2
        OBVIOUS
      <3>2. PICK u \in Nat, x \in Nat : u = W - 1 /\ x = codec.x
        BY <1>1
      <3>3. u + 2 <= 3 * W /\ u + x <= 3 * W /\ u + x + 1 <= 3 * W /\ u + x + 2 <= 3 * W /\ u + x \in Nat
        BY <1>1, <3>2
      <3>4. /\ 2 ^ (u + 2) = 2 ^ u * 2 ^ 2 /\ 2 ^ (u + x) = 2 ^ u * 2 ^ x
            /\ 2 ^ ((u + x) + 1) = 2 ^ (u + x) * 2 ^ 1 /\ 2 ^ ((u + x) + 2) = 2 ^ (u + x) * 2 ^ 2
        BY <1>1, <3>3, Power
      <3>5. /\ u + 2 = W + 1 /\ u + x = W - 1 + codec.x /\ (u + x) + 1 = W + codec.x
            /\ (u + x) + 2 = W + 1 + codec.x
        BY <1>1, <3>2
      <3>6. 2 ^ u = a /\ 2 ^ x = b
        BY <2>1, <3>2
      <3>7. MaxHistory = a * b
        BY <3>4, <3>5, <3>6 DEF MaxHistory
      <3>8. 2 ^ (W + 1) = a * 4 /\ 2 ^ (W + codec.x) = (a * b) * 2 /\ 2 ^ (W + 1 + codec.x) = (a * b) * 4
        BY <3>1, <3>4, <3>5, <3>6
      <3>9. \A c \in Nat : c * 4 = 4 * c /\ c * 2 = 2 * c
        OBVIOUS
      <3> QED
        BY <2>1, <3>7, <3>8, <3>9, a * b \in Nat
    <2>3. a * b \in Nat /\ d \in Nat /\ d < a * b
      BY <2>1, <2>2
    <2>4. W + 1 \in 0..(2 * W) /\ W + 1 + codec.x \in 0..(2 * W) /\ W + 1 > 0 /\ W + 1 + codec.x > 0
      BY <1>1
    <2>5. CASE d < 2 ^ (W - 1)
      <3>1. OffsetToken(d) = Token(W + 1, 3 * 2 ^ (W - 1) + d)
        BY <2>5 DEF OffsetToken
      <3>2. 3 * 2 ^ (W - 1) + d \in 0..(2 ^ (W + 1) - 1)
        <4>1. 3 * a + d \in 0..(4 * a - 1)
          BY <2>1, <2>3, <2>5
        <4> QED
          BY <2>1, <2>2, <4>1
      <3> QED
        BY <1>1, <1>2, <1>3, <2>4, <3>1, <3>2
    <2>6. CASE ~(d < 2 ^ (W - 1))
      <3>1. OffsetToken(d) = Token(W + 1 + codec.x, 2 ^ (W + codec.x) + d)
        BY <2>6 DEF OffsetToken
      <3>2. 2 ^ (W + codec.x) + d \in 0..(2 ^ (W + 1 + codec.x) - 1)
        <4>1. PICK c \in Nat : c = a * b
          BY <2>3
        <4>2. 2 * c + d \in 0..(4 * c - 1)
          BY <2>3, <4>1
        <4> QED
          BY <2>2, <4>1, <4>2
      <3> QED
        BY <1>1, <1>2, <1>3, <2>4, <3>1, <3>2
    <2> QED
      BY <2>5, <2>6
  <1>8. Token(2 * W, 3 * 2 ^ (2 * W - 2)) \in Fit
    <2>1. PICK u \in Nat : u = 2 * W - 2 /\ u + 2 = 2 * W /\ u + 2 <= 3 * W /\ u \in 0..(3 * W)
      BY <1>1
    <2>0. 2 ^ 2 = 4
      OBVIOUS
    <2>2. 2 ^ (u + 2) = 2 ^ u * 2 ^ 2 /\ 2 ^ u \in Nat \ {0}
      BY <1>1, <2>1, 2 \in Nat, Power
    <2>3. PICK a \in Nat : a = 2 ^ u /\ a # 0
      BY <2>2
    <2>4. 3 * a \in 0..(a * 4 - 1)
      BY <2>3
    <2> QED
      BY <1>1, <1>3, <2>0, <2>1, <2>2, <2>3, <2>4, 2 * W \in 0..(2 * W)
  <1> QED
    BY <1>5, <1>6, <1>7, <1>8

\* A longer stream has the symbols of the shorter one.
LEMMA SameOffset ==
  ASSUME TypeOK, NEW T \in Nat, NEW V, NEW V2, Extends(V2, V, T),
         NEW p \in Nat, NEW d \in 0..(MaxHistory - 1), NEW q \in Nat, q <= T, OffsetAt(V, p, d, q)
  PROVE  OffsetAt(V2, p, d, q) /\ p < q
  <1>1. PICK n \in Nat : n = OffsetToken(d).nr /\ n > 0
    BY TokenFits
  <1>2. q = p + n
    BY <1>1 DEF OffsetAt
  <1>3. Field(V2, p, n) = Field(V, p, n)
    BY <1>2, SameField
  <1> QED
    BY <1>1, <1>2, <1>3 DEF OffsetAt

\* Nor does a length change,
LEMMA SameNibbles ==
  ASSUME NEW T \in Nat, NEW V, NEW V2, Extends(V2, V, T),
         NEW p \in Nat, NEW k \in Nat, p + 4 * k <= T, Nibbles(V, p, k)
  PROVE  Nibbles(V2, p, k)
  <1> SUFFICES ASSUME NEW i \in 0..(k - 1) PROVE Field(V2, p + 4 * i, 4) = 15
    BY DEF Nibbles
  <1>1. p + 4 * i \in Nat /\ p + 4 * i + 4 <= T
    OBVIOUS
  <1>2. Field(V2, p + 4 * i, 4) = Field(V, p + 4 * i, 4)
    BY <1>1, SameField
  <1> QED
    BY <1>2 DEF Nibbles

\* in whichever form,
LEMMA SameLength ==
  ASSUME NEW T \in Nat, NEW V, NEW V2, Extends(V2, V, T),
         NEW p \in Nat, NEW len \in Nat, NEW q \in Nat, q <= T, LengthAt(V, p, len, q)
  PROVE  LengthAt(V2, p, len, q) /\ p < q
  <1>1. CASE len < 5 /\ q = p + 2 /\ Field(V, p, 2) = len - 2
    BY <1>1, 2 \in Nat, SameField DEF LengthAt
  <1>2. CASE len >= 5 /\ len < 8 /\ q = p + 4 /\ Field(V, p, 4) = len + 7
    BY <1>2, 4 \in Nat, SameField DEF LengthAt
  <1>3. CASE len >= 8 /\ \E k, r : LongLength(V, p, len, q, k, r)
    <2>1. PICK k, r : LongLength(V, p, len, q, k, r)
      BY <1>3
    <2>2. k \in Nat /\ q = p + 4 * k + 4 /\ Nibbles(V, p, k) /\ Field(V, p + 4 * k, 4) = r
      BY <2>1 DEF LongLength
    <2>3. p + 4 * k \in Nat /\ p + 4 * k <= T /\ p + 4 * k + 4 <= T /\ p < q
      BY <2>2
    <2>4. Nibbles(V2, p, k) /\ Field(V2, p + 4 * k, 4) = r
      BY <2>2, <2>3, SameNibbles, SameField
    <2>5. LongLength(V2, p, len, q, k, r)
      BY <2>1, <2>4 DEF LongLength
    <2> QED
      BY <1>3, <2>3, <2>5 DEF LengthAt
  <1> QED
    BY <1>1, <1>2, <1>3 DEF LengthAt

\* What a length says of the bits it takes.
LEMMA LengthTakes ==
  ASSUME NEW V, NEW p \in Nat, NEW len \in Nat, NEW q, LengthAt(V, p, len, q)
  PROVE  q \in Nat /\ p < q
  <1>1. ASSUME NEW k, NEW r, LongLength(V, p, len, q, k, r) PROVE q \in Nat /\ p < q
    BY <1>1 DEF LongLength
  <1> QED
    BY <1>1 DEF LengthAt

\* Where a match lies.
LEMMA MatchFacts ==
  ASSUME TypeOK, NEW f \in Nat, NEW ofs, NEW len, IsMatch(f, ofs, len)
  PROVE  /\ ofs \in Nat /\ ofs < f /\ len \in Nat /\ len >= 2 /\ f + len <= SrcLen
         /\ f - ofs \in 0..(MaxHistory - 1) /\ f - ofs \in Nat /\ f - ofs > 0
  <1>1. MaxHistory \in Nat /\ SrcLen \in Nat
    BY TypeFacts
  <1> QED
    BY <1>1 DEF IsMatch

\* nor a symbol,
LEMMA SameSymbol ==
  ASSUME TypeOK, NEW T \in Nat, NEW V, NEW V2, Extends(V2, V, T),
         NEW p \in Nat, NEW f \in Nat, NEW q \in Nat, NEW h, q <= T, SymbolAt(V, p, f, q, h)
  PROVE  SymbolAt(V2, p, f, q, h)
  <1>1. CASE LiteralAt(V, p, f, q, h)
    <2>1. PICK n \in Nat : n = W + 1
      BY TypeFacts
    <2>2. Field(V2, p, n) = Field(V, p, n)
      BY <1>1, <2>1, SameField DEF LiteralAt
    <2> QED
      BY <1>1, <2>1, <2>2 DEF LiteralAt, SymbolAt
  <1>2. CASE MatchAt(V, p, f, q, h)
    <2>1. PICK ofs, len, m \in Nat : /\ IsMatch(f, ofs, len) /\ OffsetAt(V, p, f - ofs, m)
                                     /\ LengthAt(V, m, len, q) /\ h = f + len
      BY <1>2 DEF MatchAt
    <2>2. LengthAt(V2, m, len, q) /\ m < q
      BY <2>1, SameLength
    <2>3. OffsetAt(V2, p, f - ofs, m)
      <3>1. PICK d \in 0..(MaxHistory - 1) : d = f - ofs
        BY <2>1, MatchFacts
      <3>2. m <= T
        BY <2>2
      <3> QED
        BY <2>1, <3>1, <3>2, SameOffset
    <2> QED
      BY <2>1, <2>2, <2>3 DEF MatchAt, SymbolAt
  <1> QED
    BY <1>1, <1>2 DEF SymbolAt

\* nor the path along them.
LEMMA SamePath ==
  ASSUME TypeOK, NEW T \in Nat, NEW V, NEW V2, Extends(V2, V, T), NEW S, NEW g, Path(V, S, T, g)
  PROVE  Path(V2, S, T, g)
  <1> SUFFICES ASSUME NEW p, NEW f, <<p, f>> \in S, ~(p = T /\ f = g)
               PROVE  \E q, h : <<q, h>> \in S /\ SymbolAt(V2, p, f, q, h)
    BY DEF Path
  <1>1. PICK q, h : <<q, h>> \in S /\ SymbolAt(V, p, f, q, h)
    BY DEF Path
  <1>2. p \in Nat /\ f \in Nat /\ q \in Nat /\ q <= T
    BY <1>1 DEF Path
  <1>3. SymbolAt(V2, p, f, q, h)
    BY <1>1, <1>2, SameSymbol
  <1> QED
    BY <1>1, <1>3

\* One symbol more.
LEMMA LongerPath ==
  ASSUME TypeOK, NEW T \in Nat, NEW V, NEW V2, Extends(V2, V, T), NEW S, NEW g, Path(V, S, T, g),
         NEW q \in Nat, T <= q, NEW h \in Nat, SymbolAt(V2, T, g, q, h)
  PROVE  Path(V2, S \cup {<<q, h>>}, q, h)
  <1>1. Path(V2, S, T, g)
    BY SamePath
  <1>2. \A p, f : <<p, f>> \in {<<q, h>>} => p = q /\ f = h
    OBVIOUS
  <1>3. ASSUME NEW p, NEW f, <<p, f>> \in S
        PROVE  /\ p \in Nat /\ f \in Nat /\ p <= q
               /\ \E q1, h1 : <<q1, h1>> \in S \cup {<<q, h>>} /\ SymbolAt(V2, p, f, q1, h1)
    <2>1. p \in Nat /\ f \in Nat /\ p <= T
      BY <1>1, <1>3 DEF Path
    <2>2. CASE p = T /\ f = g
      BY <2>1, <2>2
    <2>3. CASE ~(p = T /\ f = g)
      <3>1. PICK q1, h1 : <<q1, h1>> \in S /\ SymbolAt(V2, p, f, q1, h1)
        BY <1>1, <1>3, <2>3 DEF Path
      <3> QED
        BY <2>1, <3>1
    <2> QED
      BY <2>2, <2>3
  <1>4. ASSUME NEW p, NEW f, <<p, f>> \in S \cup {<<q, h>>}
        PROVE  /\ p \in Nat /\ f \in Nat /\ p <= q
               /\ \/ p = q /\ f = h
                  \/ \E q1, h1 : <<q1, h1>> \in S \cup {<<q, h>>} /\ SymbolAt(V2, p, f, q1, h1)
    <2>1. CASE <<p, f>> \in S
      BY <1>3, <2>1
    <2>2. CASE <<p, f>> \in {<<q, h>>}
      BY <1>2, <2>2
    <2> QED
      BY <1>4, <2>1, <2>2
  <1>5. <<0, 0>> \in S \cup {<<q, h>>} /\ <<q, h>> \in S \cup {<<q, h>>}
    BY DEF Path
  <1> QED
    BY <1>4, <1>5 DEF Path

-----------------------------------------------------------------------------
(* What the compressor writes.                                             *)

\* The number of bits written.
LEMMA MadeNat ==
  ASSUME TypeOK, NEW st \in Output
  PROVE  Made(st) \in Nat
  <1>1. W \in Nat
    BY TypeFacts
  <1>2. st.nr \in 0..(3 * W - 1) /\ Len(st.dst) \in Nat
    BY DEF Output, Pending
  <1> QED
    BY <1>1, <1>2 DEF Made

\* A token on a stream that is in use.
LEMMA Put ==
  ASSUME TypeOK, NEW st \in Output, NEW t \in Fit, ~PutBits(st, t).full, NEW V, Encodes(V, st)
  PROVE  /\ PutBits(st, t) \in Output /\ Made(PutBits(st, t)) = Made(st) + t.nr
         /\ Made(st) \in Nat /\ t.nr \in Nat /\ ~st.full
         /\ \E V2 : /\ Extends(V2, V, Made(st)) /\ Encodes(V2, PutBits(st, t))
                    /\ Field(V2, Made(st), t.nr) = t.val
  <1>1. Widths /\ W \in Nat
    BY TypeFacts
  <1>2. t.nr \in Nat
    BY <1>1 DEF Fit, Tokens
  <1> QED
    BY <1>1, <1>2, MadeNat, PutBitsEncodes

\* A literal is the next symbol.
LEMMA CodeLiteral ==
  ASSUME TypeOK, NEW st \in Output, NEW f \in Nat, f < SrcLen, Coded(st, f),
         ~PutBits(st, Literal(f)).full
  PROVE  PutBits(st, Literal(f)) \in Output /\ Coded(PutBits(st, Literal(f)), f + 1)
  <1>1. W \in Nat /\ SrcLen \in Nat
    BY TypeFacts
  <1>2. PICK t \in Fit : t = Literal(f)
    BY <1>1, f \in 0..(SrcLen - 1), TokenFits
  <1>3. t.nr = W + 1 /\ t.val = B(f)
    BY <1>2 DEF Literal, Token
  <1>4. PICK V, S : Encodes(V, st) /\ Path(V, S, Made(st), f)
    BY DEF Coded
  <1>5. PICK T \in Nat : T = Made(st)
    BY MadeNat
  <1>6. PICK o \in Output : o = PutBits(st, t) /\ ~o.full /\ Made(o) = T + t.nr
    BY <1>2, <1>4, <1>5, Put
  <1>7. PICK V2 : Extends(V2, V, T) /\ Encodes(V2, o) /\ Field(V2, T, t.nr) = t.val
    BY <1>2, <1>4, <1>5, <1>6, Put
  <1>8. SymbolAt(V2, T, f, T + (W + 1), f + 1)
    BY <1>3, <1>7 DEF SymbolAt, LiteralAt
  <1>9. PICK q \in Nat : q = T + (W + 1) /\ T <= q
    BY <1>1
  <1>10. Path(V2, S \cup {<<q, f + 1>>}, q, f + 1)
    BY <1>4, <1>5, <1>7, <1>8, <1>9, f + 1 \in Nat, LongerPath
  <1> QED
    BY <1>2, <1>3, <1>6, <1>7, <1>9, <1>10 DEF Coded


\* The offset of a match at byte f is out, and k blocks of its length.
Partial(st, f, ofs, k) ==
  /\ ~st.full
  /\ \E V, S : \E T, m \in Nat :
       /\ Encodes(V, st) /\ Path(V, S, T, f) /\ OffsetAt(V, T, f - ofs, m)
       /\ T <= m /\ Made(st) = m + 4 * k /\ Nibbles(V, m, k)

\* The offset starts the symbol of a match.
LEMMA CodeOffset ==
  ASSUME TypeOK, NEW st \in Output, NEW f \in Nat, NEW ofs, NEW len, IsMatch(f, ofs, len),
         Coded(st, f), ~PutBits(st, OffsetToken(f - ofs)).full
  PROVE  /\ PutBits(st, OffsetToken(f - ofs)) \in Output
         /\ Partial(PutBits(st, OffsetToken(f - ofs)), f, ofs, 0)
  <1>1. PICK d \in 0..(MaxHistory - 1) : d = f - ofs
    BY MatchFacts
  <1>2. PICK t \in Fit : t = OffsetToken(d)
    BY TokenFits
  <1>3. PICK V, S : Encodes(V, st) /\ Path(V, S, Made(st), f)
    BY DEF Coded
  <1>4. PICK T \in Nat : T = Made(st)
    BY MadeNat
  <1>5. PICK o \in Output : o = PutBits(st, t) /\ ~o.full /\ Made(o) = T + t.nr /\ t.nr \in Nat
    BY <1>1, <1>2, <1>3, <1>4, Put
  <1>6. PICK V2 : Extends(V2, V, T) /\ Encodes(V2, o) /\ Field(V2, T, t.nr) = t.val
    BY <1>1, <1>2, <1>3, <1>4, <1>5, Put
  <1>7. Path(V2, S, T, f)
    BY <1>3, <1>4, <1>6, SamePath
  <1>8. PICK m \in Nat : m = T + t.nr /\ T <= m /\ m = m + 4 * 0
    BY <1>5
  <1>9. OffsetAt(V2, T, f - ofs, m)
    BY <1>1, <1>2, <1>6, <1>8 DEF OffsetAt
  <1>10. Nibbles(V2, m, 0)
    BY DEF Nibbles
  <1>11. Made(o) = m + 4 * 0
    BY <1>5, <1>8
  <1>12. Partial(o, f, ofs, 0)
    BY <1>5, <1>6, <1>7, <1>8, <1>9, <1>10, <1>11 DEF Partial
  <1> QED
    BY <1>1, <1>2, <1>5, <1>12

\* The bits of a token that follows.
LEMMA PutPartial ==
  ASSUME TypeOK, NEW st \in Output, NEW f \in Nat, NEW ofs, NEW len, IsMatch(f, ofs, len),
         NEW k \in Nat, Partial(st, f, ofs, k), NEW t \in Fit, ~PutBits(st, t).full
  PROVE  /\ PutBits(st, t) \in Output
         /\ \E V, S : \E T, m \in Nat :
              /\ Encodes(V, PutBits(st, t)) /\ Path(V, S, T, f) /\ OffsetAt(V, T, f - ofs, m)
              /\ T <= m /\ Made(PutBits(st, t)) = m + 4 * k + t.nr /\ Nibbles(V, m, k)
              /\ Field(V, m + 4 * k, t.nr) = t.val
  <1>1. PICK d \in 0..(MaxHistory - 1) : d = f - ofs
    BY MatchFacts
  <1>2. PICK V, S : \E T, m \in Nat :
          /\ Encodes(V, st) /\ Path(V, S, T, f) /\ OffsetAt(V, T, f - ofs, m)
          /\ T <= m /\ Made(st) = m + 4 * k /\ Nibbles(V, m, k)
    BY DEF Partial
  <1>3. PICK T \in Nat, m \in Nat :
          /\ Encodes(V, st) /\ Path(V, S, T, f) /\ OffsetAt(V, T, d, m)
          /\ T <= m /\ Made(st) = m + 4 * k /\ Nibbles(V, m, k)
    BY <1>1, <1>2
  <1>4. PICK M \in Nat : M = Made(st) /\ M = m + 4 * k /\ m <= M /\ T <= M
    BY <1>3
  <1>5. PICK o \in Output : o = PutBits(st, t) /\ Made(o) = M + t.nr
    BY <1>3, <1>4, Put
  <1>6. PICK V2 : Extends(V2, V, M) /\ Encodes(V2, o) /\ Field(V2, M, t.nr) = t.val
    BY <1>3, <1>4, <1>5, Put
  <1>7. Extends(V2, V, T)
    BY <1>4, <1>6 DEF Extends
  <1>8. Path(V2, S, T, f)
    BY <1>3, <1>7, SamePath
  <1>9. OffsetAt(V2, T, d, m)
    BY <1>3, <1>4, <1>6, SameOffset
  <1>10. Nibbles(V2, m, k)
    BY <1>3, <1>4, <1>6, SameNibbles
  <1>11. /\ Encodes(V2, o) /\ Path(V2, S, T, f) /\ OffsetAt(V2, T, f - ofs, m)
         /\ T <= m /\ Made(o) = m + 4 * k + t.nr /\ Nibbles(V2, m, k)
         /\ Field(V2, m + 4 * k, t.nr) = t.val
    BY <1>1, <1>3, <1>4, <1>5, <1>6, <1>8, <1>9, <1>10
  <1> QED
    BY <1>5, <1>11

\* Two blocks are two nibbles.
LEMMA TwoNibbles ==
  ASSUME TypeOK, NEW V, NEW p \in Nat, BitString(V, p + 8), NEW r \in 0..15, Field(V, p, 8) = 240 + r
  PROVE  Field(V, p, 4) = 15 /\ Field(V, p + 4, 4) = r
  <1>1. Widths /\ W \in Nat /\ W >= 4
    BY TypeFacts
  <1>2. PICK T \in Nat : T = p + 8
    OBVIOUS
  <1>3. PICK c \in Nat : c = 4
    OBVIOUS
  <1>4. BitString(V, T) /\ c <= 2 * W /\ c + c <= 3 * W /\ p + c + c <= T
    BY <1>1, <1>2, <1>3
  <1>5. Field(V, p, c + c) \div 2 ^ c = Field(V, p, c) /\ Field(V, p, c + c) % 2 ^ c = Field(V, p + c, c)
    BY <1>1, <1>4, ReadFirst
  <1>6. c + c = 8
    BY <1>3
  <1>7. 2 ^ 4 = 16
    OBVIOUS
  <1>8. (240 + r) \div 16 = 15 /\ (240 + r) % 16 = r
    OBVIOUS
  <1> QED
    BY <1>3, <1>5, <1>6, <1>7, <1>8

\* Two blocks of 15 continue it.
LEMMA CodeBlock ==
  ASSUME TypeOK, NEW st \in Output, NEW f \in Nat, NEW ofs, NEW len, IsMatch(f, ofs, len),
         NEW k \in Nat, Partial(st, f, ofs, k), ~PutBits(st, Token(8, 255)).full
  PROVE  Partial(PutBits(st, Token(8, 255)), f, ofs, k + 2)
  <1>1. PICK t \in Fit : t = Token(8, 255) /\ t.nr = 8 /\ t.val = 255
    <2>1. 2 ^ 8 = 256
      OBVIOUS
    <2>2. 255 \in 0..(2 ^ 8 - 1)
      BY <2>1
    <2>3. Token(8, 255) \in Fit
      BY <2>2, TokenFits
    <2> QED
      BY <2>3 DEF Token
  <1>2. PICK o \in Output : o = PutBits(st, t) /\ ~o.full
    BY <1>1, PutPartial
  <1>3. PICK V, S : \E T, m \in Nat :
              /\ Encodes(V, o) /\ Path(V, S, T, f) /\ OffsetAt(V, T, f - ofs, m)
              /\ T <= m /\ Made(o) = m + 4 * k + 8 /\ Nibbles(V, m, k)
              /\ Field(V, m + 4 * k, 8) = 255
    BY <1>1, <1>2, PutPartial
  <1>4. PICK T \in Nat, m \in Nat :
              /\ Encodes(V, o) /\ Path(V, S, T, f) /\ OffsetAt(V, T, f - ofs, m)
              /\ T <= m /\ Made(o) = m + 4 * k + 8 /\ Nibbles(V, m, k)
              /\ Field(V, m + 4 * k, 8) = 255
    BY <1>3
  <1>5. PICK p \in Nat : p = m + 4 * k /\ m + 4 * (k + 1) = p + 4 /\ m + 4 * (k + 2) = p + 8
    <2>1. m + 4 * k \in Nat /\ m + 4 * (k + 1) = m + 4 * k + 4 /\ m + 4 * (k + 2) = m + 4 * k + 8
      OBVIOUS
    <2> QED
      BY <2>1
  <1>6. Field(V, p, 4) = 15 /\ Field(V, p + 4, 4) = 15
    <2>1. BitString(V, p + 8) /\ Field(V, p, 8) = 240 + 15
      BY <1>4, <1>5 DEF Encodes
    <2> QED
      BY <2>1, 15 \in 0..15, TwoNibbles
  <1>7. Nibbles(V, m, k + 2)
    <2> SUFFICES ASSUME NEW i \in 0..(k + 1) PROVE Field(V, m + 4 * i, 4) = 15
      BY DEF Nibbles
    <2>1. CASE i = k
      BY <1>5, <1>6, <2>1
    <2>2. CASE i = k + 1
      BY <1>5, <1>6, <2>2
    <2>3. CASE i \in 0..(k - 1)
      BY <1>4, <2>3 DEF Nibbles
    <2> QED
      BY <2>1, <2>2, <2>3
  <1>8. Made(o) = m + 4 * (k + 2)
    BY <1>4, <1>5
  <1>9. Partial(o, f, ofs, k + 2)
    BY <1>2, <1>4, <1>7, <1>8 DEF Partial
  <1> QED
    BY <1>1, <1>2, <1>9

\* The last of a match: its bits complete the length.
LEMMA CodeMatch ==
  ASSUME TypeOK, NEW st \in Output, NEW f \in Nat, NEW ofs, NEW len, IsMatch(f, ofs, len),
         NEW k \in Nat, Partial(st, f, ofs, k), NEW t \in Fit, ~PutBits(st, t).full,
         \A V : \A m \in Nat :
           /\ BitString(V, m + 4 * k + t.nr) /\ Nibbles(V, m, k) /\ Field(V, m + 4 * k, t.nr) = t.val
           => LengthAt(V, m, len, m + 4 * k + t.nr)
  PROVE  PutBits(st, t) \in Output /\ Coded(PutBits(st, t), f + len)
  <1>1. PICK o \in Output : o = PutBits(st, t) /\ ~o.full
    BY PutPartial
  <1>2. PICK V, S : \E T, m \in Nat :
              /\ Encodes(V, o) /\ Path(V, S, T, f) /\ OffsetAt(V, T, f - ofs, m)
              /\ T <= m /\ Made(o) = m + 4 * k + t.nr /\ Nibbles(V, m, k)
              /\ Field(V, m + 4 * k, t.nr) = t.val
    BY <1>1, PutPartial
  <1>3. PICK T \in Nat, m \in Nat :
              /\ Encodes(V, o) /\ Path(V, S, T, f) /\ OffsetAt(V, T, f - ofs, m)
              /\ T <= m /\ Made(o) = m + 4 * k + t.nr /\ Nibbles(V, m, k)
              /\ Field(V, m + 4 * k, t.nr) = t.val
    BY <1>2
  <1>4. PICK q \in Nat : q = Made(o)
    BY MadeNat
  <1>5. LengthAt(V, m, len, q)
    BY <1>3, <1>4 DEF Encodes
  <1>6. ofs \in Nat /\ len \in Nat /\ f + len \in Nat
    BY MatchFacts
  <1>7. m < q
    BY <1>5, <1>6, LengthTakes
  <1>8. SymbolAt(V, T, f, q, f + len)
    BY <1>3, <1>5, <1>6 DEF SymbolAt, MatchAt
  <1>9. Extends(V, V, T) /\ T <= q
    BY <1>3, <1>7 DEF Extends
  <1>10. Path(V, S \cup {<<q, f + len>>}, q, f + len)
    BY <1>3, <1>6, <1>8, <1>9, LongerPath
  <1> QED
    BY <1>1, <1>3, <1>4, <1>10 DEF Coded

\* The length of a short match.
LEMMA CodeShort ==
  ASSUME TypeOK, NEW st \in Output, NEW f \in Nat, NEW ofs, NEW len, IsMatch(f, ofs, len), len < 8,
         Partial(st, f, ofs, 0), NEW t,
         t = IF len < 5 THEN Token(2, len - 2) ELSE Token(4, len + 7),
         ~PutBits(st, t).full
  PROVE  PutBits(st, t) \in Output /\ Coded(PutBits(st, t), f + len)
  <1>1. len \in Nat /\ len >= 2
    BY MatchFacts
  <1>2. CASE len < 5
    <2>1. 2 ^ 2 = 4
      OBVIOUS
    <2>2. len - 2 \in 0..(2 ^ 2 - 1)
      BY <1>1, <1>2, <2>1
    <2>3. t \in Fit /\ t.nr = 2 /\ t.val = len - 2
      BY <1>2, <2>2, TokenFits DEF Token
    <2>4. ASSUME NEW V, NEW m \in Nat, Field(V, m + 4 * 0, t.nr) = t.val
          PROVE  LengthAt(V, m, len, m + 4 * 0 + t.nr)
      <3>1. m + 4 * 0 = m
        OBVIOUS
      <3> QED
        BY <1>2, <2>3, <2>4, <3>1 DEF LengthAt
    <2> QED
      BY <2>3, <2>4, 0 \in Nat, CodeMatch
  <1>3. CASE ~(len < 5)
    <2>1. 2 ^ 4 = 16
      OBVIOUS
    <2>2. len + 7 \in 0..(2 ^ 4 - 1) /\ len >= 5
      BY <1>1, <1>3, <2>1
    <2>3. t \in Fit /\ t.nr = 4 /\ t.val = len + 7
      BY <1>3, <2>2, TokenFits DEF Token
    <2>4. ASSUME NEW V, NEW m \in Nat, Field(V, m + 4 * 0, t.nr) = t.val
          PROVE  LengthAt(V, m, len, m + 4 * 0 + t.nr)
      <3>1. m + 4 * 0 = m
        OBVIOUS
      <3> QED
        BY <2>2, <2>3, <2>4, <3>1 DEF LengthAt
    <2> QED
      BY <2>3, <2>4, 0 \in Nat, CodeMatch
  <1> QED
    BY <1>2, <1>3

\* The last block of a long one.
LEMMA CodeLast ==
  ASSUME TypeOK, NEW st \in Output, NEW f \in Nat, NEW ofs, NEW len, IsMatch(f, ofs, len), len >= 8,
         NEW k \in Nat, NEW rem \in Nat, 15 * k + rem = len + 7, rem < 30,
         Partial(st, f, ofs, k), NEW t,
         t = IF rem >= 15 THEN Token(8, 240 + rem - 15) ELSE Token(4, rem),
         ~PutBits(st, t).full
  PROVE  PutBits(st, t) \in Output /\ Coded(PutBits(st, t), f + len)
  <1>1. len \in Nat
    BY MatchFacts
  <1>2. CASE rem < 15
    <2>1. 2 ^ 4 = 16
      OBVIOUS
    <2>2. rem \in 0..(2 ^ 4 - 1) /\ rem \in 0..14 /\ ~(rem >= 15)
      BY <1>2, <2>1
    <2>3. t \in Fit /\ t.nr = 4 /\ t.val = rem
      BY <2>2, TokenFits DEF Token
    <2>4. ASSUME NEW V, NEW m \in Nat, Nibbles(V, m, k), Field(V, m + 4 * k, t.nr) = t.val
          PROVE  LengthAt(V, m, len, m + 4 * k + t.nr)
      <3>1. LongLength(V, m, len, m + 4 * k + t.nr, k, rem)
        BY <2>2, <2>3, <2>4 DEF LongLength
      <3> QED
        BY <3>1 DEF LengthAt
    <2> QED
      BY <2>3, <2>4, CodeMatch
  <1>3. CASE rem >= 15
    <2>1. 2 ^ 8 = 256
      OBVIOUS
    <2>2. PICK r \in 0..14 : rem = 15 + r /\ 240 + rem - 15 = 240 + r
      <3>1. rem - 15 \in 0..14 /\ rem = 15 + (rem - 15) /\ 240 + rem - 15 = 240 + (rem - 15)
        BY <1>3
      <3> QED
        BY <3>1
    <2>3. 240 + r \in 0..(2 ^ 8 - 1) /\ r \in 0..15
      BY <2>1
    <2>4. t \in Fit /\ t.nr = 8 /\ t.val = 240 + r
      BY <1>3, <2>2, <2>3, TokenFits DEF Token
    <2>5. ASSUME NEW V, NEW m \in Nat, BitString(V, m + 4 * k + t.nr), Nibbles(V, m, k),
                 Field(V, m + 4 * k, t.nr) = t.val
          PROVE  LengthAt(V, m, len, m + 4 * k + t.nr)
      <3>1. PICK p \in Nat : /\ p = m + 4 * k /\ m + 4 * (k + 1) = p + 4
                             /\ m + 4 * (k + 1) + 4 = m + 4 * k + 8
        <4>1. m + 4 * k \in Nat /\ m + 4 * (k + 1) = m + 4 * k + 4
              /\ m + 4 * (k + 1) + 4 = m + 4 * k + 8
          OBVIOUS
        <4> QED
          BY <4>1
      <3>2. Field(V, p, 4) = 15 /\ Field(V, p + 4, 4) = r
        <4>1. BitString(V, p + 8) /\ Field(V, p, 8) = 240 + r
          BY <2>4, <2>5, <3>1
        <4> QED
          BY <2>3, <4>1, TwoNibbles
      <3>3. Nibbles(V, m, k + 1)
        <4> SUFFICES ASSUME NEW i \in 0..k PROVE Field(V, m + 4 * i, 4) = 15
          BY DEF Nibbles
        <4>1. CASE i = k
          BY <3>1, <3>2, <4>1
        <4>2. CASE i \in 0..(k - 1)
          BY <2>5, <4>2 DEF Nibbles
        <4> QED
          BY <4>1, <4>2
      <3>4. 15 * (k + 1) + r = len + 7 /\ k + 1 \in Nat
        BY <1>1, <2>2
      <3>5. Field(V, m + 4 * (k + 1), 4) = r
        BY <3>1, <3>2
      <3>6. m + 4 * k + t.nr = m + 4 * (k + 1) + 4
        BY <2>4, <3>1
      <3>7. LongLength(V, m, len, m + 4 * k + t.nr, k + 1, r)
        BY <3>3, <3>4, <3>5, <3>6 DEF LongLength
      <3> QED
        BY <3>7 DEF LengthAt
    <2> QED
      BY <2>4, <2>5, CodeMatch
  <1> QED
    BY <1>2, <1>3

\* The tail of the packet.
LEMMA CodeTail ==
  ASSUME Inv, pc \in {"scan", "tail"}, inpos >= SrcLen - 2, Coded(bits, inpos), ~TailBits.full
  PROVE  TailBits \in Output /\ Coded(TailBits, SrcLen)
  <1> USE DEF Inv
  <1>1. /\ SrcLen \in Nat /\ inpos \in Nat /\ InvalidOfs \in Nat /\ MaxHistory \in Nat /\ Widths
        /\ bits \in Output /\ inpos <= SrcLen
    BY TypeFacts DEF TypeOK, Stages
  <1>2. CASE inpos = SrcLen - 2
    <2> DEFINE h == Lookup(Hash(inpos))
    <2>1. CASE InWindow(h)
      <3>1. TailBits = PutBits(PutBits(bits, OffsetToken(inpos - h)), Token(2, 0))
        BY <1>1, <1>2, <2>1 DEF TailBits
      <3>2. TableOK(hashTable, inpos)
        BY ChainMeans DEF Hashed, Coding
      <3>3. h \in 0..(inpos - 1) /\ Hash(h) = Hash(inpos) /\ h + MaxHistory > inpos
        BY <1>1, <2>1, <3>2, LookupLinks DEF Link, InWindow
      <3> HIDE DEF h
      <3>4. IsMatch(inpos, h, 2)
        <4>1. B(h) = B(inpos) /\ B(h + 1) = B(inpos + 1)
          BY <3>3 DEF Hash
        <4>2. \A j \in 0..(2 - 1) : B(h + j) = B(inpos + j)
          <5>1. \A j \in 0..(2 - 1) : j = 0 \/ j = 1
            OBVIOUS
          <5>2. h + 0 = h /\ inpos + 0 = inpos
            BY <1>1, <3>3
          <5> QED
            BY <4>1, <5>1, <5>2
        <4> QED
          BY <1>1, <1>2, <3>3, <4>2 DEF IsMatch
      <3>5. PICK t : t = Token(2, 0)
        OBVIOUS
      <3>6. PICK o : o = PutBits(bits, OffsetToken(inpos - h))
        OBVIOUS
      <3>7. ~o.full
        <4>1. o \in Output
          <5>1. PICK d \in 0..(MaxHistory - 1) : d = inpos - h
            BY <1>1, <3>4, MatchFacts
          <5>2. OffsetToken(d) \in Tokens
            BY TokenFits DEF Fit
          <5> QED
            BY <1>1, <3>6, <5>1, <5>2, PutBitsSound
        <4>2. t \in Tokens
          BY <3>5, 0 \in Nat, TokenTypes
        <4> QED
          BY <1>1, <3>1, <3>5, <3>6, <4>1, <4>2, PutBitsSound
      <3>8. o \in Output /\ Partial(o, inpos, h, 0)
        BY <1>1, <3>4, <3>6, <3>7, CodeOffset
      <3>9. t = IF 2 < 5 THEN Token(2, 2 - 2) ELSE Token(4, 2 + 7)
        BY <3>5
      <3>10. PutBits(o, t) \in Output /\ Coded(PutBits(o, t), inpos + 2)
        BY <1>1, <3>1, <3>4, <3>5, <3>6, <3>8, <3>9, 2 < 8, CodeShort
      <3>11. inpos + 2 = SrcLen
        BY <1>1, <1>2
      <3> QED
        BY <3>1, <3>5, <3>6, <3>10, <3>11
    <2>2. CASE ~InWindow(h)
      <3>1. TailBits = PutBits(PutBits(bits, Literal(inpos)), Literal(inpos + 1))
        BY <1>1, <1>2, <2>2 DEF TailBits
      <3>2. inpos < SrcLen /\ inpos + 1 < SrcLen /\ inpos + 1 \in Nat /\ (inpos + 1) + 1 = SrcLen
        BY <1>1, <1>2
      <3>3. PICK o : o = PutBits(bits, Literal(inpos))
        OBVIOUS
      <3>4. ~o.full
        <4>1. Literal(inpos) \in Tokens /\ Literal(inpos + 1) \in Tokens
          BY <1>1, <3>2, inpos \in 0..(SrcLen - 1), inpos + 1 \in 0..(SrcLen - 1), TokenTypes
        <4>2. o \in Output
          BY <1>1, <3>3, <4>1, PutBitsSound
        <4> QED
          BY <1>1, <3>1, <3>3, <4>1, <4>2, PutBitsSound
      <3>5. o \in Output /\ Coded(o, inpos + 1)
        BY <1>1, <3>2, <3>3, <3>4, CodeLiteral
      <3>6. PICK i \in Nat : i = inpos + 1 /\ i < SrcLen /\ i + 1 = SrcLen
        BY <3>2
      <3>7. PutBits(o, Literal(i)) \in Output /\ Coded(PutBits(o, Literal(i)), i + 1)
        BY <3>1, <3>3, <3>5, <3>6, CodeLiteral
      <3> QED
        BY <3>1, <3>3, <3>6, <3>7
    <2> QED
      BY <2>1, <2>2
  <1>3. CASE inpos = SrcLen - 1
    <2>1. inpos # SrcLen - 2 /\ inpos < SrcLen /\ inpos + 1 = SrcLen
      BY <1>1, <1>3
    <2>2. TailBits = PutBits(bits, Literal(inpos))
      BY <1>3, <2>1 DEF TailBits
    <2> QED
      BY <1>1, <2>1, <2>2, CodeLiteral
  <1>4. CASE inpos = SrcLen
    <2>1. inpos # SrcLen - 2 /\ inpos # SrcLen - 1
      BY <1>1, <1>4
    <2>2. TailBits = bits
      BY <2>1 DEF TailBits
    <2> QED
      BY <1>1, <1>4, <2>2
  <1> QED
    BY <1>1, <1>2, <1>3, <1>4

\* A stream that is complete: the path leads to the end of the packet, and then
\* the end marker follows, with at least two more bytes to read it from.
Whole(V, S, e, data) ==
  /\ Carries(V, data) /\ e \in Nat /\ Path(V, S, e, SrcLen)
  /\ W * Len(data) >= e + (W + 1) /\ Field(V, e, W + 1) = EndMarker

\* After the end marker the output is a whole frame.
LEMMA CodeEnd ==
  ASSUME TypeOK, NEW st \in Output, Coded(st, SrcLen),
         NEW t, t = Token(2 * W, 3 * 2 ^ (2 * W - 2)), ~PutBits(st, t).full
  PROVE  \E V, S, e : Whole(V, S, e, PutBits(st, t).dst)
  <1>1. Widths /\ W \in Nat /\ W >= 4
    BY TypeFacts
  <1>2. t \in Fit /\ t.nr = 2 * W /\ t.val = 3 * 2 ^ (2 * W - 2)
    BY TokenFits DEF Token
  <1>3. PICK V, S : Encodes(V, st) /\ Path(V, S, Made(st), SrcLen)
    BY DEF Coded
  <1>4. PICK e \in Nat : e = Made(st)
    BY MadeNat
  <1>5. PICK o \in Output : o = PutBits(st, t) /\ ~o.full /\ Made(o) = e + 2 * W
    BY <1>2, <1>3, <1>4, Put
  <1>6. PICK V2 : Extends(V2, V, e) /\ Encodes(V2, o) /\ Field(V2, e, 2 * W) = 3 * 2 ^ (2 * W - 2)
    BY <1>2, <1>3, <1>4, <1>5, Put
  <1>7. Path(V2, S, e, SrcLen)
    BY <1>3, <1>4, <1>6, SamePath
  <1>8. PICK L \in Nat : L = Len(o.dst)
    BY DEF Output, Pending
  <1>9. o.nr \in Nat /\ o.nr < W
    <2>1. o.nr \in 0..(3 * W - 1) /\ o.nr < W
      BY <1>5 DEF Output, Pending
    <2> QED
      BY <1>1, <2>1
  <1>10. PICK T \in Nat : T = W * L
    BY <1>1
  <1>11. T + o.nr = e + 2 * W /\ T >= e + (W + 1) /\ T <= e + 2 * W
    <2>1. T + o.nr = e + 2 * W
      BY <1>5, <1>8, <1>10 DEF Made
    <2> QED
      BY <1>1, <1>9, <2>1
  <1>12. PICK M \in Nat : M = e + 2 * W /\ T <= M /\ BitString(V2, M)
    BY <1>1, <1>5, <1>6, <1>11 DEF Encodes
  <1>13. BitString(V2, T)
    BY <1>12 DEF BitString
  <1>14. Carries(V2, o.dst)
    BY <1>6, <1>8, <1>10, <1>13 DEF Carries, Encodes
  <1>15. Field(V2, e, W + 1) = EndMarker
    <2>1. PICK a \in Nat, b \in Nat : a = W + 1 /\ b = W - 1
      BY <1>1
    <2>2. /\ a <= 2 * W /\ b <= 2 * W /\ a + b <= 3 * W /\ e + a + b <= M /\ a + b = 2 * W
          /\ b + b = 2 * W - 2 /\ b + b <= 3 * W /\ b \in 0..(3 * W)
      BY <1>1, <1>12, <2>1
    <2>3. Field(V2, e, a + b) \div 2 ^ b = Field(V2, e, a)
      BY <1>1, <1>12, <2>2, ReadFirst
    <2>4. 2 ^ (b + b) = 2 ^ b * 2 ^ b /\ 2 ^ b \in Nat \ {0}
      BY <1>1, <2>2, Power
    <2>5. PICK c \in Nat \ {0} : c = 2 ^ b
      BY <2>4
    <2>6. ((3 * c) * c + 0) \div c = 3 * c
      BY <2>5, 3 * c \in Nat, 0 \in 0..(c - 1), Quotient
    <2>7. 3 * (c * c) = (3 * c) * c + 0
      OBVIOUS
    <2>8. Field(V2, e, a + b) = 3 * (c * c)
      BY <1>6, <2>2, <2>4, <2>5
    <2>9. Field(V2, e, a) = 3 * c
      BY <2>3, <2>5, <2>6, <2>7, <2>8
    <2> QED
      BY <2>1, <2>5, <2>9 DEF EndMarker
  <1>16. Whole(V2, S, e, o.dst)
    BY <1>7, <1>8, <1>10, <1>11, <1>14, <1>15 DEF Whole
  <1> QED
    BY <1>5, <1>16

-----------------------------------------------------------------------------
(* What the decompressor makes of it.                                      *)

\* At a symbol, or within one, getBits has the two bytes that it asks for.
LEMMA ReadAt ==
  ASSUME TypeOK, NEW V, NEW S, NEW e, Whole(V, S, e, frame.data),
         NEW st \in Reader, ~st.short, Pos(st) <= e, NEW n \in 0..(W + 1)
  PROVE  /\ GetBits(st, n) \in Reader /\ ~GetBits(st, n).short
         /\ Pos(GetBits(st, n)) = Pos(st) + n
         /\ GetBits(st, n).data = Field(V, Pos(st), n)
  <1>1. Widths /\ W \in Nat /\ W >= 4 /\ frame.data \in Seq(Bytes(codec))
    BY TypeFacts DEF TypeOK
  <1>2. PICK L \in Nat : L = Len(frame.data)
    BY <1>1
  <1>3. PICK si \in Nat, l \in Nat : si = st.si /\ l = st.left /\ l >= 1 /\ l <= W
    BY <1>1 DEF Reader
  <1>4. e \in Nat /\ W * L >= e + (W + 1) /\ Carries(V, frame.data)
    BY <1>2 DEF Whole
  <1>5. PICK p \in Nat : p = W * si /\ W * (si + 1) = p + W
    <2>1. W * si \in Nat /\ W * (si + 1) = W * si + W
      BY <1>1
    <2> QED
      BY <2>1
  <1>6. p <= e
    <2>1. p + (W - l) <= e
      BY <1>3, <1>5 DEF Pos
    <2> QED
      BY <1>1, <1>3, <1>4, <2>1
  <1>7. si + 2 <= L
    <2> SUFFICES ASSUME L <= si + 1 PROVE FALSE
      OBVIOUS
    <2>1. \A w, a, b \in Nat : a <= b => w * a <= w * b
      OBVIOUS
    <2>2. W * L <= W * (si + 1) /\ W * L \in Nat
      BY <1>1, <2>1, si + 1 \in Nat
    <2> QED
      BY <1>1, <1>4, <1>5, <1>6, <2>2
  <1> QED
    BY <1>1, <1>2, <1>3, <1>4, <1>7, GetBitsReads

\* The copy of a match.
LEMMA CopyDone ==
  ASSUME TypeOK, SrcLen <= codec.room, NEW f \in Nat, NEW ofs, NEW len, IsMatch(f, ofs, len),
         out = SubSeq(src, 1, f), CopyMatch(f - ofs, len)
  PROVE  out' = SubSeq(src, 1, f + len) /\ pc' = "decode" /\ err' = err
  <1>1. SrcLen \in Nat /\ codec.room \in Nat /\ src \in Seq(Bytes(codec))
    BY TypeFacts DEF TypeOK
  <1>2. PICK d \in Nat : d = f - ofs /\ d > 0 /\ d <= f
    BY MatchFacts
  <1>3. len \in Nat /\ f + len <= SrcLen
    BY MatchFacts
  <1>4. Len(out) = f
    BY <1>1, <1>3 DEF SrcLen
  <1>5. Copied(out, d, len) = SubSeq(src, 1, f + len)
    BY <1>1, <1>2, CopyRestores
  <1>6. ~(d = 0 \/ d > Len(out)) /\ ~(len + Len(out) > codec.room)
    BY <1>1, <1>2, <1>3, <1>4
  <1> QED
    BY <1>2, <1>5, <1>6 DEF CopyMatch

-----------------------------------------------------------------------------
(* What the decompressor makes of a symbol.                                *)

\* The path stays within the stream and the packet.
LEMMA PathPoint ==
  ASSUME TypeOK, NEW V, NEW S, NEW e \in Nat, Path(V, S, e, SrcLen), NEW p, NEW f, <<p, f>> \in S
  PROVE  p \in Nat /\ f \in Nat /\ p <= e /\ f <= SrcLen
  <1>1. p \in Nat /\ f \in Nat /\ p <= e /\ SrcLen \in Nat
    BY TypeFacts DEF Path
  <1>2. CASE p = e /\ f = SrcLen
    BY <1>1, <1>2
  <1>3. ASSUME NEW q, NEW h, SymbolAt(V, p, f, q, h) PROVE f <= SrcLen
    <2>1. CASE LiteralAt(V, p, f, q, h)
      BY <1>1, <2>1 DEF LiteralAt
    <2>2. ASSUME NEW ofs, NEW len, IsMatch(f, ofs, len) PROVE f <= SrcLen
      BY <1>1, <2>2, MatchFacts
    <2> QED
      BY <1>3, <2>1, <2>2 DEF SymbolAt, MatchAt
  <1> QED
    BY <1>1, <1>2, <1>3 DEF Path

OffsetReader == IF Symbol.data < EndMarker THEN GetBits(Symbol, codec.x) ELSE Symbol
Offset == IF Symbol.data < EndMarker
            THEN (Symbol.data % 2 ^ (W - 1)) * 2 ^ codec.x + OffsetReader.data
            ELSE Symbol.data % 2 ^ (W - 1)

\* The two parts of a long offset d, with h = 2 ^ (W - 1) and y = 2 ^ x.
Parts(h, y, d, s, r) ==
  /\ d \in 0..(h * y - 1)
  /\ s = ((2 * h) * y + d) \div y /\ r = ((2 * h) * y + d) % y

Joined(h, y, d, s, r) == s \in Nat /\ s >= 2 * h /\ s < 3 * h /\ (s % h) * y + r = d

\* They make up the offset again.
LEMMA LongOffset ==
  ASSUME NEW h \in Nat \ {0}, NEW y \in Nat \ {0}, NEW d, NEW s, NEW r, Parts(h, y, d, s, r)
  PROVE  Joined(h, y, d, s, r)
  <1> PICK v : v = (2 * h) * y + d
    OBVIOUS
  <1> d \in 0..(h * y - 1) /\ s = v \div y /\ r = v % y
    BY DEF Parts
  <1> DEFINE q == d \div y
             t == d % y
  <1>1. d \in Nat
    OBVIOUS
  <1>2. q \in Nat /\ t \in 0..(y - 1) /\ t = d - y * q
    BY <1>1, DivMod
  <1> HIDE DEF q, t
  <1>3. q < h
    <2>1. SUFFICES ASSUME q >= h PROVE FALSE
      BY <1>2
    <2>2. y * q >= y * h
      BY <1>2, <2>1
    <2>3. y * h = h * y /\ y * q \in Nat /\ h * y \in Nat
      BY <1>2
    <2> QED
      BY <1>1, <1>2, <2>2, <2>3
  <1>4. v = (2 * h + q) * y + t
    <2>1. (2 * h + q) * y = (2 * h) * y + y * q /\ y * q \in Nat /\ (2 * h) * y \in Nat
      BY <1>2
    <2> QED
      BY <1>1, <1>2, <2>1
  <1>5. PICK u \in Nat : u = 2 * h + q
    BY <1>2
  <1>6. s = u /\ r = t
    <2>1. v = u * y + t
      BY <1>4, <1>5
    <2>2. (u * y + t) \div y = u /\ (u * y + t) % y = t
      BY <1>2, Quotient
    <2> QED
      BY <2>1, <2>2
  <1>7. q \in 0..(h - 1) /\ 2 \in Nat
    BY <1>2, <1>3
  <1>8. s % h = q
    <2>1. (2 * h + q) % h = q
      BY <1>7, Quotient
    <2> QED
      BY <1>5, <1>6, <2>1
  <1>9. q * y + t = d
    <2>1. q * y = y * q /\ y * q \in Nat
      BY <1>2
    <2> QED
      BY <1>1, <1>2, <2>1
  <1>10. s \in Nat /\ s >= 2 * h /\ s < 3 * h
    BY <1>2, <1>3, <1>5, <1>6
  <1> QED
    BY <1>6, <1>8, <1>9, <1>10 DEF Joined

\* The decompressor reads the offset that was written.
LEMMA OffsetReads ==
  ASSUME TypeOK, NEW V, NEW S, NEW e \in Nat, Whole(V, S, e, frame.data), ~in.short,
         NEW d \in 0..(MaxHistory - 1), d > 0, NEW p \in Nat, p = Pos(in), p <= e,
         NEW m \in Nat, OffsetAt(V, p, d, m), m <= e
  PROVE  /\ ~Symbol.short /\ Symbol.data >= 2 ^ W /\ Symbol.data # EndMarker
         /\ OffsetReader \in Reader /\ ~OffsetReader.short /\ Pos(OffsetReader) = m
         /\ Offset = d
  <1>1. /\ Widths /\ W \in Nat /\ W >= 4 /\ codec.x \in Nat /\ codec.x < W /\ in \in Reader
        /\ MaxHistory \in Nat
    BY TypeFacts DEF TypeOK
  <1>2. W + 1 \in 0..(W + 1) /\ codec.x \in 0..(W + 1)
    BY <1>1
  <1>3. PICK s \in Reader : /\ s = Symbol /\ ~s.short /\ Pos(s) = p + (W + 1)
                            /\ s.data = Field(V, p, W + 1)
    BY <1>1, <1>2, ReadAt DEF Symbol
  <1>4. PICK h \in Nat \ {0}, y \in Nat \ {0} : h = 2 ^ (W - 1) /\ y = 2 ^ codec.x
    <2>1. W - 1 \in 0..(3 * W) /\ codec.x \in 0..(3 * W)
      BY <1>1
    <2> QED
      BY <1>1, <2>1, Power
  <1>5. 2 ^ W = 2 * h /\ MaxHistory = h * y /\ 2 ^ (W + codec.x) = (2 * h) * y
    <2>1. 2 ^ ((W - 1) + 1) = 2 ^ (W - 1) * 2 ^ 1
      BY <1>1, W - 1 \in Nat, 1 \in Nat, (W - 1) + 1 <= 3 * W, Power
    <2>2. 2 ^ 1 = 2 /\ (W - 1) + 1 = W
      BY <1>1
    <2>3. 2 ^ ((W - 1) + codec.x) = 2 ^ (W - 1) * 2 ^ codec.x
      BY <1>1, W - 1 \in Nat, (W - 1) + codec.x <= 3 * W, Power
    <2>4. 2 ^ (W + codec.x) = 2 ^ W * 2 ^ codec.x
      BY <1>1, W + codec.x <= 3 * W, Power
    <2>5. 2 ^ W = 2 * h
      BY <1>4, <2>1, <2>2
    <2> QED
      BY <1>4, <2>3, <2>4, <2>5 DEF MaxHistory
  <1>6. EndMarker = 3 * h
    BY <1>4 DEF EndMarker
  <1>7. d \in Nat /\ d < h * y
    BY <1>1, <1>5
  <1>8. CASE d < h
    <2>1. OffsetToken(d).nr = W + 1 /\ OffsetToken(d).val = 3 * h + d
      BY <1>4, <1>8 DEF OffsetToken, Token
    <2>2. s.data = 3 * h + d /\ m = p + (W + 1)
      BY <1>3, <2>1 DEF OffsetAt
    <2>3. s.data % h = d
      <3>1. d \in 0..(h - 1) /\ 3 \in Nat
        BY <1>7, <1>8
      <3>2. (3 * h + d) % h = d
        BY <3>1, Quotient
      <3> QED
        BY <2>2, <3>2
    <2>4. ~(s.data < EndMarker) /\ s.data >= 2 ^ W /\ s.data # EndMarker
      BY <1>5, <1>6, <1>7, <2>2
    <2>5. OffsetReader = s /\ Offset = s.data % 2 ^ (W - 1)
      BY <1>3, <2>4 DEF OffsetReader, Offset
    <2> QED
      BY <1>3, <1>4, <2>2, <2>3, <2>4, <2>5
  <1>9. CASE ~(d < h)
    <2>0. PICK x \in Nat : x = codec.x /\ x < W
      BY <1>1
    <2>1. OffsetToken(d).nr = W + 1 + x /\ OffsetToken(d).val = (2 * h) * y + d
      BY <1>4, <1>5, <1>9, <2>0 DEF OffsetToken, Token
    <2>2. PICK v : v = Field(V, p, (W + 1) + x) /\ v = (2 * h) * y + d
      BY <2>1 DEF OffsetAt
    <2>3. m = p + (W + 1) + x
      BY <1>1, <2>0, <2>1 DEF OffsetAt
    <2>4. PICK T \in Nat : T = W * Len(frame.data) /\ BitString(V, T) /\ T >= e
      <3>1. Len(frame.data) \in Nat
        BY DEF TypeOK
      <3>2. W * Len(frame.data) \in Nat
        BY <1>1, <3>1
      <3> QED
        BY <1>1, <3>2 DEF Whole, Carries
    <2>5. PICK a \in Nat : a = W + 1
      BY <1>1
    <2>6. a <= 2 * W /\ x <= 2 * W /\ a + x <= 3 * W /\ p + a + x <= T
      <3>1. p + a + x = m
        BY <1>1, <2>0, <2>3, <2>5
      <3>2. m <= T
        BY <2>4
      <3> QED
        BY <1>1, <2>0, <2>5, <3>1, <3>2
    <2>7. Field(V, p, a + x) \div 2 ^ x = Field(V, p, a) /\ Field(V, p, a + x) % 2 ^ x = Field(V, p + a, x)
      BY <1>1, <2>4, <2>6, ReadFirst
    <2>8. PICK r : r = v % y /\ r = Field(V, p + a, x)
      BY <1>4, <2>0, <2>2, <2>5, <2>7
    <2>9. s.data = v \div y
      BY <1>3, <1>4, <2>0, <2>2, <2>5, <2>7
    <2>10. d \in 0..(h * y - 1)
      BY <1>7
    <2>16. PICK g : g = s.data
      OBVIOUS
    <2>17. g \in Nat /\ g >= 2 * h /\ g < 3 * h /\ (g % h) * y + r = d
      <3>1. Parts(h, y, d, g, r)
        BY <2>2, <2>8, <2>9, <2>10, <2>16 DEF Parts
      <3>2. Joined(h, y, d, g, r)
        BY <3>1, LongOffset
      <3> QED
        BY <3>2 DEF Joined
    <2>11. s.data \in Nat /\ s.data >= 2 * h /\ s.data < 3 * h /\ (s.data % h) * y + r = d
      BY <2>16, <2>17
    <2>12. Pos(s) = p + a /\ Pos(s) <= e /\ x \in 0..(W + 1)
      BY <1>1, <1>3, <2>0, <2>3, <2>5
    <2>13. PICK o \in Reader : o = GetBits(s, x) /\ ~o.short /\ Pos(o) = m /\ o.data = r
      <3>1. /\ GetBits(s, x) \in Reader /\ ~GetBits(s, x).short /\ Pos(GetBits(s, x)) = Pos(s) + x
            /\ GetBits(s, x).data = Field(V, Pos(s), x)
        BY <1>3, <2>12, ReadAt
      <3>2. Pos(s) + x = m
        BY <1>1, <2>3, <2>5, <2>12
      <3> QED
        BY <2>8, <2>12, <3>1, <3>2
    <2>14. s.data < EndMarker /\ s.data >= 2 ^ W /\ s.data # EndMarker
      BY <1>5, <1>6, <2>11
    <2>15. OffsetReader = o /\ Offset = (s.data % h) * y + r
      BY <1>3, <1>4, <2>0, <2>13, <2>14 DEF OffsetReader, Offset
    <2> QED
      BY <1>3, <2>11, <2>13, <2>14, <2>15
  <1> QED
    BY <1>7, <1>8, <1>9

\* What two and four bits of a length are read as.
LengthRead(V, m, len, q, a, b) ==
  \/ len < 5 /\ a.data = len - 2 /\ a.data # 3 /\ Pos(a) = q
  \/ len >= 5 /\ len < 8 /\ a.data = 3 /\ ~b.short /\ b.data = len - 5 /\ b.data # 3 /\ Pos(b) = q
  \/ /\ len >= 8 /\ a.data = 3 /\ ~b.short /\ b.data = 3 /\ Pos(b) = m + 4
     /\ \E k, r : LongLength(V, m, len, q, k, r) /\ k >= 1

\* Four bits, read two by two.
LEMMA TwoPairs ==
  ASSUME Widths, NEW T \in Nat, NEW V, BitString(V, T), NEW p \in Nat, p + 4 <= T
  PROVE  Field(V, p, 4) = 4 * Field(V, p, 2) + Field(V, p + 2, 2) /\ Field(V, p, 2) \in 0..3
         /\ Field(V, p + 2, 2) \in 0..3
  <1>1. W \in Nat /\ W >= 4
    BY DEF Widths
  <1>2. PICK c \in Nat : c = 2
    OBVIOUS
  <1>3. c <= 2 * W /\ c + c <= 3 * W /\ p + c + c <= T /\ p + c <= T /\ p + c \in Nat
    BY <1>1, <1>2
  <1>4. Field(V, p, c + c) = Field(V, p, c) * 2 ^ c + Field(V, p + c, c)
    BY <1>3, SplitField
  <1>5. Field(V, p, c) \in 0..(2 ^ c - 1) /\ Field(V, p + c, c) \in 0..(2 ^ c - 1)
    BY <1>3, FieldRange
  <1>6. 2 ^ 2 = 4
    OBVIOUS
  <1>7. c + c = 4 /\ 2 ^ c = 4 /\ p + c = p + 2
    BY <1>2, <1>6
  <1>8. Field(V, p, 4) = Field(V, p, 2) * 4 + Field(V, p + 2, 2)
    BY <1>2, <1>4, <1>7
  <1>9. Field(V, p, 2) \in 0..3 /\ Field(V, p + 2, 2) \in 0..3
    BY <1>2, <1>5, <1>7
  <1> QED
    BY <1>8, <1>9

\* It reads the length, or the start of a long one.
LEMMA LengthReads ==
  ASSUME TypeOK, NEW V, NEW S, NEW e \in Nat, Whole(V, S, e, frame.data),
         NEW st \in Reader, ~st.short, NEW m \in Nat, Pos(st) = m, m <= e,
         NEW len \in Nat, len >= 2, NEW q \in Nat, q <= e, LengthAt(V, m, len, q),
         NEW a, a = GetBits(st, 2), NEW b, b = GetBits(a, 2)
  PROVE  a \in Reader /\ ~a.short /\ LengthRead(V, m, len, q, a, b)
  <1>1. Widths /\ W \in Nat /\ W >= 4
    BY TypeFacts
  <1>2. 2 \in 0..(W + 1)
    BY <1>1
  <1>3. a \in Reader /\ ~a.short /\ Pos(a) = m + 2 /\ a.data = Field(V, m, 2)
    BY <1>2, ReadAt
  <1>4. CASE len < 5 /\ q = m + 2 /\ Field(V, m, 2) = len - 2
    BY <1>3, <1>4 DEF LengthRead
  <1>5. ASSUME q >= m + 4
        PROVE  /\ ~b.short /\ Pos(b) = m + 4 /\ b.data = Field(V, m + 2, 2)
               /\ Field(V, m, 4) = 4 * a.data + b.data /\ a.data \in 0..3 /\ b.data \in 0..3
    <2>1. PICK n \in Nat : n = m + 2 /\ n <= e
      BY <1>5
    <2>2. ~b.short /\ Pos(b) = n + 2 /\ b.data = Field(V, n, 2)
      BY <1>2, <1>3, <2>1, ReadAt
    <2>3. PICK T \in Nat : T = W * Len(frame.data) /\ BitString(V, T) /\ T >= e
      <3>1. Len(frame.data) \in Nat
        BY DEF TypeOK
      <3>2. W * Len(frame.data) \in Nat
        BY <1>1, <3>1
      <3> QED
        BY <1>1, <3>2 DEF Whole, Carries
    <2>4. m + 4 <= T
      BY <1>5, <2>3
    <2>5. /\ Field(V, m, 4) = 4 * Field(V, m, 2) + Field(V, m + 2, 2)
          /\ Field(V, m, 2) \in 0..3 /\ Field(V, m + 2, 2) \in 0..3
      BY <1>1, <2>3, <2>4, TwoPairs
    <2> QED
      BY <1>3, <2>1, <2>2, <2>5
  <1>6. CASE len >= 5 /\ len < 8 /\ q = m + 4 /\ Field(V, m, 4) = len + 7
    <2>1. a.data = 3 /\ b.data = len - 5
      BY <1>5, <1>6
    <2> QED
      BY <1>3, <1>5, <1>6, <2>1 DEF LengthRead
  <1>7. ASSUME len >= 8, NEW k, NEW r, LongLength(V, m, len, q, k, r)
        PROVE  LengthRead(V, m, len, q, a, b)
    <2>1. k \in Nat /\ k >= 1 /\ q >= m + 4
      BY <1>7 DEF LongLength
    <2>2. Field(V, m + 4 * 0, 4) = 15
      BY <1>7, <2>1, 0 \in 0..(k - 1) DEF LongLength, Nibbles
    <2>3. m + 4 * 0 = m
      OBVIOUS
    <2>4. a.data = 3 /\ b.data = 3
      BY <1>5, <2>1, <2>2, <2>3
    <2> QED
      BY <1>3, <1>5, <1>7, <2>1, <2>4 DEF LengthRead
  <1> QED
    BY <1>3, <1>4, <1>6, <1>7 DEF LengthAt

\* The decompressor is at the start of a symbol, with what comes before it.
AtSymbol(i, o, data) ==
  /\ ~i.short
  /\ \E V, S, e : Whole(V, S, e, data)
       /\ \E f : <<Pos(i), f>> \in S /\ o = SubSeq(src, 1, f)

\* It is within a long length: n of its blocks of 15 have been read.
InLong(i, o, mt, data) ==
  /\ ~i.short
  /\ \E V, S, e : Whole(V, S, e, data)
       /\ \E f, ofs, len, m, q, k, r, n \in Nat :
            /\ <<q, f + len>> \in S /\ IsMatch(f, ofs, len) /\ LongLength(V, m, len, q, k, r)
            /\ n \in 1..k /\ Pos(i) = m + 4 * n
            /\ mt = [ofs |-> f - ofs, len |-> 8 + 15 * (n - 1)]
            /\ o = SubSeq(src, 1, f)

\* What a step of the decompressor leads to.
GoesOn ==
  \/ pc' = "decode" /\ err' = err /\ AtSymbol(in', out', frame.data)
  \/ pc' = "long" /\ err' = err /\ InLong(in', out', match', frame.data)
  \/ pc' = "end" /\ err' = err /\ out' = src

\* The end marker: the packet is complete.
LEMMA EndSymbol ==
  ASSUME TypeOK, NEW V, NEW S, NEW e, Whole(V, S, e, frame.data), ~in.short, Pos(in) = e,
         out = SubSeq(src, 1, SrcLen), pc = "decode",
         DecodeShort \/ DecodeLiteral \/ DecodeEnd \/ DecodeMatch
  PROVE  GoesOn
  <1>1. Widths /\ W \in Nat /\ W >= 4 /\ in \in Reader /\ e \in Nat /\ src \in Seq(Bytes(codec))
    BY TypeFacts DEF TypeOK, Whole
  <1>2. ~Symbol.short /\ Symbol.data = Field(V, e, W + 1)
    BY <1>1, W + 1 \in 0..(W + 1), e <= e, ReadAt DEF Symbol
  <1>3. Symbol.data = EndMarker
    BY <1>2 DEF Whole
  <1>4. ~(EndMarker < 2 ^ W)
    <2>1. 2 ^ ((W - 1) + 1) = 2 ^ (W - 1) * 2 ^ 1 /\ 2 ^ (W - 1) \in Nat
      BY <1>1, W - 1 \in Nat, 1 \in Nat, (W - 1) + 1 <= 3 * W, W - 1 \in 0..(3 * W), Power
    <2>2. 2 ^ 1 = 2 /\ (W - 1) + 1 = W
      BY <1>1
    <2> QED
      BY <2>1, <2>2 DEF EndMarker
  <1>5. DecodeEnd
    BY <1>2, <1>3, <1>4 DEF DecodeShort, DecodeLiteral, DecodeMatch
  <1>6. out = src
    BY <1>1 DEF SrcLen
  <1> QED
    BY <1>5, <1>6 DEF DecodeEnd, GoesOn

\* A literal is the next byte of the packet.
LEMMA LiteralSymbol ==
  ASSUME TypeOK, SrcLen <= codec.room, NEW V, NEW S, NEW e, Whole(V, S, e, frame.data), ~in.short,
         NEW f \in Nat, NEW q, NEW h, <<q, h>> \in S, LiteralAt(V, Pos(in), f, q, h), Pos(in) <= e,
         out = SubSeq(src, 1, f), pc = "decode",
         DecodeShort \/ DecodeLiteral \/ DecodeEnd \/ DecodeMatch
  PROVE  GoesOn
  <1>1. /\ Widths /\ W \in Nat /\ W >= 4 /\ in \in Reader /\ e \in Nat /\ src \in Seq(Bytes(codec))
        /\ SrcLen \in Nat /\ codec.room \in Nat
    BY TypeFacts DEF TypeOK, Whole
  <1>2. f < SrcLen /\ h = f + 1 /\ q = Pos(in) + (W + 1) /\ Field(V, Pos(in), W + 1) = B(f)
    BY DEF LiteralAt
  <1>3. ~Symbol.short /\ Symbol.data = B(f) /\ Pos(Symbol) = q
    BY <1>1, <1>2, W + 1 \in 0..(W + 1), ReadAt DEF Symbol
  <1>4. B(f) \in 0..(2 ^ W - 1) /\ 2 ^ W \in Nat
    BY <1>1, <1>2, f \in 0..(SrcLen - 1), W \in 0..(3 * W), TokenFits, Power
  <1>5. EndMarker \in Nat /\ EndMarker >= 2 ^ W
    <2>1. 2 ^ ((W - 1) + 1) = 2 ^ (W - 1) * 2 ^ 1 /\ 2 ^ (W - 1) \in Nat
      BY <1>1, W - 1 \in Nat, 1 \in Nat, (W - 1) + 1 <= 3 * W, W - 1 \in 0..(3 * W), Power
    <2>2. 2 ^ 1 = 2 /\ (W - 1) + 1 = W
      BY <1>1
    <2> QED
      BY <2>1, <2>2 DEF EndMarker
  <1>6. DecodeLiteral
    BY <1>3, <1>4, <1>5 DEF DecodeShort, DecodeEnd, DecodeMatch
  <1>7. Len(out) = f /\ Len(out) # codec.room
    BY <1>1, <1>2 DEF SrcLen
  <1>8. out' = Append(out, B(f)) /\ in' = Symbol /\ err' = err /\ pc' = "decode"
    BY <1>3, <1>6, <1>7 DEF DecodeLiteral
  <1>9. Append(out, B(f)) = SubSeq(src, 1, f + 1)
    BY <1>1, <1>2 DEF SrcLen, B
  <1>10. AtSymbol(in', out', frame.data)
    BY <1>2, <1>3, <1>8, <1>9 DEF AtSymbol
  <1> QED
    BY <1>8, <1>10 DEF GoesOn

\* A match is copied, or its length is read on.
LEMMA MatchSymbol ==
  ASSUME TypeOK, SrcLen <= codec.room, NEW V, NEW S, NEW e, Whole(V, S, e, frame.data), ~in.short,
         NEW p \in Nat, p = Pos(in), p <= e, NEW f \in Nat, NEW q, NEW h, <<q, h>> \in S, q <= e,
         MatchAt(V, p, f, q, h),
         out = SubSeq(src, 1, f), pc = "decode",
         DecodeShort \/ DecodeLiteral \/ DecodeEnd \/ DecodeMatch
  PROVE  GoesOn
  <1>1. PICK ofs \in Nat, len \in Nat, m \in Nat :
          IsMatch(f, ofs, len) /\ OffsetAt(V, p, f - ofs, m) /\ LengthAt(V, m, len, q) /\ h = f + len
    BY DEF MatchAt
  <1>2. PICK d \in 0..(MaxHistory - 1) : d = f - ofs /\ d > 0
    BY <1>1, MatchFacts
  <1>3. len >= 2 /\ q \in Nat /\ m < q /\ e \in Nat /\ m <= e
    BY <1>1, MatchFacts, LengthTakes DEF Whole
  <1>4. PICK o \in Reader :
          /\ ~Symbol.short /\ Symbol.data >= 2 ^ W /\ Symbol.data # EndMarker
          /\ o = OffsetReader /\ ~o.short /\ Pos(o) = m /\ Offset = d
    BY <1>1, <1>2, <1>3, OffsetReads
  <1>5. PICK a \in Reader : a = GetBits(o, 2)
    BY <1>1, <1>3, <1>4, LengthReads
  <1>6. PICK b : b = GetBits(a, 2)
    OBVIOUS
  <1>7. ~a.short /\ LengthRead(V, m, len, q, a, b)
    BY <1>1, <1>3, <1>4, <1>5, <1>6, LengthReads
  <1>8. 2 ^ W \in Nat /\ Symbol.data \in Nat
    <2>1. Widths /\ W \in Nat /\ in \in Reader
      BY TypeFacts DEF TypeOK
    <2>2. Symbol.data \in Nat
      <3>1. Symbol \in Reader
        BY <1>3, <2>1, W + 1 \in 0..(W + 1), ReadAt DEF Symbol
      <3> QED
        BY <3>1 DEF Reader
    <2> QED
      BY <2>1, <2>2, W \in 0..(3 * W), Power
  <1>9. DecodeMatch
    BY <1>4, <1>8 DEF DecodeShort, DecodeLiteral, DecodeEnd
  <1>10. \/ /\ a.short \/ (a.data = 3 /\ b.short)
            /\ in' = b /\ Fail("short") /\ UNCHANGED match
         \/ /\ ~a.short /\ a.data # 3
            /\ in' = a /\ CopyMatch(d, a.data + 2) /\ UNCHANGED match
         \/ /\ ~b.short /\ a.data = 3 /\ b.data # 3
            /\ in' = b /\ CopyMatch(d, b.data + 5) /\ UNCHANGED match
         \/ /\ ~b.short /\ a.data = 3 /\ b.data = 3
            /\ in' = b /\ match' = [ofs |-> d, len |-> 8] /\ pc' = "long"
            /\ UNCHANGED <<out, err>>
    BY <1>4, <1>5, <1>6, <1>9 DEF DecodeMatch, OffsetReader, Offset
  <1>11. ASSUME NEW i, in' = i, ~i.short, Pos(i) = q, CopyMatch(d, len)
         PROVE  GoesOn
    <2>1. out' = SubSeq(src, 1, f + len) /\ pc' = "decode" /\ err' = err
      BY <1>1, <1>2, <1>11, CopyDone
    <2>2. AtSymbol(in', out', frame.data)
      BY <1>1, <1>11, <2>1 DEF AtSymbol
    <2> QED
      BY <2>1, <2>2 DEF GoesOn
  <1>12. CASE len < 5 /\ a.data = len - 2 /\ a.data # 3 /\ Pos(a) = q
    <2>1. in' = a /\ CopyMatch(d, a.data + 2) /\ a.data + 2 = len
      BY <1>7, <1>10, <1>12
    <2> QED
      BY <1>7, <1>11, <1>12, <2>1
  <1>13. CASE /\ len >= 5 /\ len < 8 /\ a.data = 3 /\ ~b.short /\ b.data = len - 5 /\ b.data # 3
              /\ Pos(b) = q
    <2>1. in' = b /\ CopyMatch(d, b.data + 5) /\ b.data + 5 = len
      BY <1>7, <1>10, <1>13
    <2> QED
      BY <1>11, <1>13, <2>1
  <1>14. CASE /\ len >= 8 /\ a.data = 3 /\ ~b.short /\ b.data = 3 /\ Pos(b) = m + 4
              /\ \E k, r : LongLength(V, m, len, q, k, r) /\ k >= 1
    <2>1. in' = b /\ match' = [ofs |-> d, len |-> 8] /\ pc' = "long" /\ out' = out /\ err' = err
      BY <1>7, <1>10, <1>14
    <2>2. PICK k, r : LongLength(V, m, len, q, k, r) /\ k >= 1
      BY <1>14
    <2>3. k \in Nat /\ r \in Nat
      BY <2>2 DEF LongLength
    <2>4. PICK n \in Nat : n = 1
      OBVIOUS
    <2>5. n \in 1..k /\ Pos(b) = m + 4 * n /\ match' = [ofs |-> f - ofs, len |-> 8 + 15 * (n - 1)]
      BY <1>2, <1>14, <2>1, <2>2, <2>3, <2>4
    <2>6. InLong(in', out', match', frame.data)
      <3>1. <<q, f + len>> \in S /\ ~in'.short /\ Pos(in') = m + 4 * n /\ out' = SubSeq(src, 1, f)
        BY <1>1, <1>14, <2>1, <2>5
      <3> QED
        BY <1>1, <1>3, <2>2, <2>3, <2>5, <3>1 DEF InLong
    <2> QED
      BY <2>1, <2>6 DEF GoesOn
  <1> QED
    BY <1>7, <1>12, <1>13, <1>14 DEF LengthRead

\* So a symbol leads to the next one, or to the end.
LEMMA DecodeGoesOn ==
  ASSUME TypeOK, SrcLen <= codec.room, pc = "decode", AtSymbol(in, out, frame.data),
         DecodeShort \/ DecodeLiteral \/ DecodeEnd \/ DecodeMatch
  PROVE  GoesOn
  <1>1. ~in.short
    BY DEF AtSymbol
  <1>2. PICK V, S, e : Whole(V, S, e, frame.data)
          /\ \E f : <<Pos(in), f>> \in S /\ out = SubSeq(src, 1, f)
    BY DEF AtSymbol
  <1>3. PICK f : <<Pos(in), f>> \in S /\ out = SubSeq(src, 1, f)
    BY <1>2
  <1>4. PICK p : p = Pos(in)
    OBVIOUS
  <1>5. e \in Nat /\ Path(V, S, e, SrcLen) /\ p \in Nat /\ f \in Nat /\ p <= e
    BY <1>2, <1>3, <1>4, PathPoint DEF Whole
  <1>6. CASE p = e /\ f = SrcLen
    BY <1>1, <1>2, <1>3, <1>4, <1>6, EndSymbol
  <1>7. ASSUME NEW q, NEW h, <<q, h>> \in S, SymbolAt(V, p, f, q, h)
        PROVE  GoesOn
    <2>1. q <= e
      BY <1>5, <1>7, PathPoint
    <2>2. CASE LiteralAt(V, p, f, q, h)
      BY <1>1, <1>2, <1>3, <1>4, <1>5, <1>7, <2>2, LiteralSymbol
    <2>3. CASE MatchAt(V, p, f, q, h)
      BY <1>1, <1>2, <1>3, <1>4, <1>5, <1>7, <2>1, <2>3, MatchSymbol
    <2> QED
      BY <1>7, <2>2, <2>3 DEF SymbolAt
  <1> QED
    BY <1>3, <1>4, <1>5, <1>6, <1>7 DEF Path

\* A block of a long length: one more of 15, or the last.
LEMMA LongGoesOn ==
  ASSUME TypeOK, SrcLen <= codec.room, pc = "long", InLong(in, out, match, frame.data), DecodeLong
  PROVE  GoesOn
  <1>1. Widths /\ W \in Nat /\ W >= 4 /\ in \in Reader /\ ~in.short
    BY TypeFacts DEF TypeOK, InLong
  <1>2. PICK V, S, e : Whole(V, S, e, frame.data)
       /\ \E f, ofs, len, m, q, k, r, n \in Nat :
            /\ <<q, f + len>> \in S /\ IsMatch(f, ofs, len) /\ LongLength(V, m, len, q, k, r)
            /\ n \in 1..k /\ Pos(in) = m + 4 * n
            /\ match = [ofs |-> f - ofs, len |-> 8 + 15 * (n - 1)]
            /\ out = SubSeq(src, 1, f)
    BY DEF InLong
  <1>3. PICK f \in Nat, ofs \in Nat, len \in Nat, m \in Nat, q \in Nat, k \in Nat, r \in Nat, n \in Nat :
            /\ <<q, f + len>> \in S /\ IsMatch(f, ofs, len) /\ LongLength(V, m, len, q, k, r)
            /\ n \in 1..k /\ Pos(in) = m + 4 * n
            /\ match = [ofs |-> f - ofs, len |-> 8 + 15 * (n - 1)]
            /\ out = SubSeq(src, 1, f)
    BY <1>2
  <1>4. e \in Nat /\ q <= e
    BY <1>2, <1>3, PathPoint DEF Whole
  <1>5. r \in 0..14 /\ 15 * k + r = len + 7 /\ q = m + 4 * k + 4
    BY <1>3 DEF LongLength
  <1>6. PICK p \in Nat : p = m + 4 * n /\ p = Pos(in) /\ p <= e
    BY <1>3, <1>4, <1>5
  <1>7. PICK g : /\ g = GetBits(in, 4) /\ ~g.short /\ Pos(g) = p + 4 /\ g.data = Field(V, p, 4)
    <2>1. 4 \in 0..(W + 1)
      BY <1>1
    <2>2. Whole(V, S, e, frame.data) /\ Pos(in) <= e
      BY <1>2, <1>6
    <2>3. /\ ~GetBits(in, 4).short /\ Pos(GetBits(in, 4)) = Pos(in) + 4
          /\ GetBits(in, 4).data = Field(V, Pos(in), 4)
      BY <1>1, <2>1, <2>2, ReadAt
    <2> QED
      BY <1>6, <2>3
  <1>8. /\ in' = g
        /\ \/ g.short /\ Fail("short") /\ UNCHANGED match
           \/ /\ ~g.short /\ g.data = 15
              /\ match' = [match EXCEPT !.len = @ + 15] /\ UNCHANGED <<pc, out, err>>
           \/ /\ ~g.short /\ g.data # 15
              /\ CopyMatch(match.ofs, match.len + g.data) /\ UNCHANGED match
    BY <1>7 DEF DecodeLong
  <1>9. CASE n < k
    <2>1. Field(V, p, 4) = 15
      BY <1>3, <1>6, <1>9, n \in 0..(k - 1) DEF LongLength, Nibbles
    <2>2. match' = [match EXCEPT !.len = @ + 15] /\ UNCHANGED <<pc, out, err>>
      BY <1>7, <1>8, <2>1
    <2>3. PICK j \in Nat : j = n + 1
      OBVIOUS
    <2>4. 8 + 15 * (n - 1) + 15 = 8 + 15 * (j - 1)
      BY <2>3
    <2>5. match' = [ofs |-> f - ofs, len |-> 8 + 15 * (j - 1)]
      BY <1>3, <2>2, <2>4
    <2>6. j \in 1..k /\ Pos(in') = m + 4 * j /\ ~in'.short /\ out' = SubSeq(src, 1, f)
      <3>1. p + 4 = m + 4 * j /\ j \in 1..k
        BY <1>3, <1>6, <1>9, <2>3
      <3>2. out = SubSeq(src, 1, f) /\ out' = out
        BY <1>3, <2>2
      <3> QED
        BY <1>7, <1>8, <3>1, <3>2
    <2>7. InLong(in', out', match', frame.data)
      BY <1>2, <1>3, <2>5, <2>6 DEF InLong
    <2> QED
      BY <2>2, <2>7 DEF GoesOn
  <1>10. CASE n = k
    <2>1. Field(V, p, 4) = r /\ p + 4 = q
      BY <1>3, <1>5, <1>6, <1>10 DEF LongLength
    <2>2. CopyMatch(match.ofs, match.len + g.data)
      BY <1>5, <1>7, <1>8, <2>1
    <2>3. match.ofs = f - ofs /\ match.len + g.data = len
      BY <1>3, <1>5, <1>7, <1>10, <2>1
    <2>4. out' = SubSeq(src, 1, f + len) /\ pc' = "decode" /\ err' = err
      BY <1>3, <2>2, <2>3, CopyDone
    <2>5. AtSymbol(in', out', frame.data)
      BY <1>2, <1>3, <1>7, <1>8, <2>1, <2>4 DEF AtSymbol
    <2> QED
      BY <2>4, <2>5 DEF GoesOn
  <1> QED
    BY <1>3, <1>9, <1>10

-----------------------------------------------------------------------------
(* The invariant of the round trip.                                        *)

\* What has been written stands for what has been read of the packet, and the
\* frame for all of it; the receiver is between two symbols, or within a length,
\* with what comes before them.
RoundInv ==
  /\ SrcLen <= codec.room
  /\ pc # "end" => err = "none"
  /\ pc = "tail" => inpos >= SrcLen - 2
  /\ pc \in {"scan", "chain", "tail"} => Coded(bits, inpos)
  /\ pc = "blocks" => \E k \in Nat : /\ 15 * k + rest = longest.len + 7
                                     /\ Partial(bits, inpos, longest.ofs, k)
  /\ pc = "hash" => Coded(bits, inpos + rest)
  /\ pc = "send" /\ SrcLen <= MaxInputSize /\ ~bits.full => \E V, S, e : Whole(V, S, e, bits.dst)
  /\ pc = "decode" /\ src # <<>> => AtSymbol(in, out, frame.data)
  /\ pc = "long" /\ src # <<>> => InLong(in, out, match, frame.data)
  /\ RoundTrip

\* All this depends on the codec and the packet only.
LEMMA SameStream ==
  ASSUME codec' = codec, src' = src
  PROVE  /\ SrcLen' = SrcLen /\ MaxInputSize' = MaxInputSize
         /\ \A st, g : Coded(st, g)' = Coded(st, g)
         /\ \A st, f, ofs, k : Partial(st, f, ofs, k)' = Partial(st, f, ofs, k)
         /\ \A V, S, e, data : Whole(V, S, e, data)' = Whole(V, S, e, data)
         /\ \A i, o, data : AtSymbol(i, o, data)' = AtSymbol(i, o, data)
         /\ \A i, o, mt, data : InLong(i, o, mt, data)' = InLong(i, o, mt, data)
  <1>1. W' = W /\ SrcLen' = SrcLen /\ MaxInputSize' = MaxInputSize /\ EndMarker' = EndMarker
    BY DEF W, SrcLen, MaxInputSize, InvalidOfs, EndMarker
  <1>2. \A i : B(i)' = B(i)
    BY DEF B
  <1>3. \A d : OffsetToken(d)' = OffsetToken(d)
    BY DEF OffsetToken, W
  <1>4. \A i, o, l : IsMatch(i, o, l)' = IsMatch(i, o, l)
    BY SamePacket
  <1>5. \A V, T : BitString(V, T)' = BitString(V, T)
    BY <1>1 DEF BitString, Field
  <1>6. \A st : Made(st)' = Made(st) /\ Pos(st)' = Pos(st)
    BY <1>1 DEF Made, Pos
  <1>7. \A V, st : Encodes(V, st)' = Encodes(V, st)
    BY <1>1, <1>5, <1>6 DEF Encodes, Field
  <1>8. \A V, data : Carries(V, data)' = Carries(V, data)
    BY <1>1, <1>5 DEF Carries, Field
  <1>9. \A V, p, d, q : OffsetAt(V, p, d, q)' = OffsetAt(V, p, d, q)
    BY <1>3 DEF OffsetAt, Field
  <1>10. \A V, p, k : Nibbles(V, p, k)' = Nibbles(V, p, k)
    BY DEF Nibbles, Field
  <1>11. \A V, p, len, q, k, r : LongLength(V, p, len, q, k, r)' = LongLength(V, p, len, q, k, r)
    BY <1>10 DEF LongLength, Field
  <1>12. \A V, p, len, q : LengthAt(V, p, len, q)' = LengthAt(V, p, len, q)
    BY <1>11 DEF LengthAt, Field
  <1>13. \A V, p, f, q, h : LiteralAt(V, p, f, q, h)' = LiteralAt(V, p, f, q, h)
    BY <1>1, <1>2 DEF LiteralAt, Field
  <1>14. \A V, p, f, q, h : MatchAt(V, p, f, q, h)' = MatchAt(V, p, f, q, h)
    BY <1>4, <1>9, <1>12 DEF MatchAt
  <1>15. \A V, p, f, q, h : SymbolAt(V, p, f, q, h)' = SymbolAt(V, p, f, q, h)
    BY <1>13, <1>14 DEF SymbolAt
  <1>16. \A V, S, T, g : Path(V, S, T, g)' = Path(V, S, T, g)
    <2> TAKE V, S, T, g
    <2> DEFINE Step(p, f)  == \E q, h : <<q, h>> \in S /\ SymbolAt(V, p, f, q, h)
    <2>1. \A p, f : Step(p, f)' = Step(p, f)
      BY <1>15
    <2>2. Path(V, S, T, g) = (/\ <<0, 0>> \in S /\ <<T, g>> \in S
                              /\ \A p, f : <<p, f>> \in S =>
                                   /\ p \in Nat /\ f \in Nat /\ p <= T
                                   /\ (p = T /\ f = g) \/ Step(p, f))
      BY DEF Path
    <2>3. Path(V, S, T, g)' = (/\ <<0, 0>> \in S /\ <<T, g>> \in S
                              /\ \A p, f : <<p, f>> \in S =>
                                   /\ p \in Nat /\ f \in Nat /\ p <= T
                                   /\ (p = T /\ f = g) \/ Step(p, f)')
      BY DEF Path
    <2> HIDE DEF Step
    <2> QED
      BY <2>1, <2>2, <2>3
  <1>17. \A st, g : Coded(st, g)' = Coded(st, g)
    BY <1>6, <1>7, <1>16 DEF Coded
  <1>18. \A st, f, ofs, k : Partial(st, f, ofs, k)' = Partial(st, f, ofs, k)
    BY <1>6, <1>7, <1>9, <1>10, <1>16 DEF Partial
  <1>19. \A V, S, e, data : Whole(V, S, e, data)' = Whole(V, S, e, data)
    BY <1>1, <1>8, <1>16 DEF Whole, Field
  <1>20. \A i, o, data : AtSymbol(i, o, data)' = AtSymbol(i, o, data)
    BY <1>6, <1>19 DEF AtSymbol
  <1>21. \A i, o, mt, data : InLong(i, o, mt, data)' = InLong(i, o, mt, data)
    <2> TAKE i, o, mt, data
    <2> DEFINE Within(V, S, f, ofs, len, m, q, k, r, n) ==
                 /\ <<q, f + len>> \in S /\ IsMatch(f, ofs, len) /\ LongLength(V, m, len, q, k, r)
                 /\ n \in 1..k /\ Pos(i) = m + 4 * n
                 /\ mt = [ofs |-> f - ofs, len |-> 8 + 15 * (n - 1)]
                 /\ o = SubSeq(src, 1, f)
    <2>1. \A V, S, f, ofs, len, m, q, k, r, n :
            Within(V, S, f, ofs, len, m, q, k, r, n)' = Within(V, S, f, ofs, len, m, q, k, r, n)
      BY <1>4, <1>6, <1>11
    <2>2. InLong(i, o, mt, data)
            = (~i.short /\ \E V, S, e : Whole(V, S, e, data)
                 /\ \E f, ofs, len, m, q, k, r, n \in Nat : Within(V, S, f, ofs, len, m, q, k, r, n))
      BY DEF InLong
    <2>3. InLong(i, o, mt, data)'
            = (~i.short /\ \E V, S, e : Whole(V, S, e, data)'
                 /\ \E f, ofs, len, m, q, k, r, n \in Nat : Within(V, S, f, ofs, len, m, q, k, r, n)')
      BY DEF InLong
    <2> HIDE DEF Within
    <2> QED
      BY <1>19, <2>1, <2>2, <2>3
  <1> QED
    BY <1>1, <1>17, <1>18, <1>19, <1>20, <1>21

\* What has to be shown of a step.
LEMMA RoundNext ==
  ASSUME RoundInv, UNCHANGED <<codec, src>>,
         pc' # "end" => err' = "none",
         pc' = "tail" => inpos' >= SrcLen - 2,
         pc' \in {"scan", "chain", "tail"} => Coded(bits', inpos'),
         pc' = "blocks" => \E k \in Nat : /\ 15 * k + rest' = longest'.len + 7
                                          /\ Partial(bits', inpos', longest'.ofs, k),
         pc' = "hash" => Coded(bits', inpos' + rest'),
         pc' = "send" /\ SrcLen <= MaxInputSize /\ ~bits'.full => \E V, S, e : Whole(V, S, e, bits'.dst),
         pc' = "decode" /\ src # <<>> => AtSymbol(in', out', frame'.data),
         pc' = "long" /\ src # <<>> => InLong(in', out', match', frame'.data),
         pc' = "end" /\ src # <<>> => out' = src /\ err' = "none"
  PROVE  RoundInv'
  <1>1. /\ SrcLen' = SrcLen /\ MaxInputSize' = MaxInputSize
        /\ \A st, g : Coded(st, g)' = Coded(st, g)
        /\ \A st, f, ofs, k : Partial(st, f, ofs, k)' = Partial(st, f, ofs, k)
        /\ \A V, S, e, data : Whole(V, S, e, data)' = Whole(V, S, e, data)
        /\ \A i, o, data : AtSymbol(i, o, data)' = AtSymbol(i, o, data)
        /\ \A i, o, mt, data : InLong(i, o, mt, data)' = InLong(i, o, mt, data)
    BY SameStream
  <1>2. (SrcLen <= codec.room)' /\ (pc = "tail" => inpos >= SrcLen - 2)'
    BY <1>1 DEF RoundInv
  <1>3. (pc \in {"scan", "chain", "tail"} => Coded(bits, inpos))'
    BY <1>1
  <1>4. (pc = "blocks" => \E k \in Nat : /\ 15 * k + rest = longest.len + 7
                                         /\ Partial(bits, inpos, longest.ofs, k))'
    BY <1>1
  <1>5. (pc = "hash" => Coded(bits, inpos + rest))'
    BY <1>1
  <1>6. (pc = "send" /\ SrcLen <= MaxInputSize /\ ~bits.full => \E V, S, e : Whole(V, S, e, bits.dst))'
    BY <1>1
  <1>7. (pc = "decode" /\ src # <<>> => AtSymbol(in, out, frame.data))'
    BY <1>1
  <1>8. (pc = "long" /\ src # <<>> => InLong(in, out, match, frame.data))'
    BY <1>1
  <1>9. RoundTrip'
    BY DEF RoundTrip
  <1> QED
    BY <1>2, <1>3, <1>4, <1>5, <1>6, <1>7, <1>8, <1>9 DEF RoundInv

\* RoundInv is kept by every step: ScanLiteral.
LEMMA RoundScanLiteral ==
  ASSUME Inv, RoundInv, ScanLiteral PROVE RoundInv'
  <1>1. TypeOK /\ SrcLen \in Nat /\ inpos \in Nat /\ bits \in Output
    BY TypeFacts DEF Inv, TypeOK
  <1>2. /\ pc = "scan" /\ inpos < SrcLen
        /\ bits' = PutBits(bits, Literal(inpos)) /\ inpos' = inpos + 1
        /\ pc' = IF bits'.full THEN "send" ELSE "scan"
        /\ UNCHANGED <<codec, src, hofs, longest, rest, frame, decVars>>
    BY <1>1 DEF ScanLiteral
  <1>3. Coded(bits, inpos) /\ err = "none"
    BY <1>2 DEF RoundInv
  <1>4. ~bits'.full => Coded(bits', inpos')
    BY <1>1, <1>2, <1>3, CodeLiteral
  <1> QED
    BY <1>2, <1>3, <1>4, RoundNext DEF decVars

LEMMA RoundScanMatch ==
  ASSUME Inv, RoundInv, ScanMatch PROVE RoundInv'
  <1>1. pc = "scan" /\ pc' = "chain" /\ UNCHANGED <<codec, src, inpos, rest, bits, frame, decVars>>
    BY DEF ScanMatch
  <1>2. Coded(bits, inpos) /\ err = "none"
    BY <1>1 DEF RoundInv
  <1> QED
    BY <1>1, <1>2, RoundNext DEF decVars

LEMMA RoundFollowChain ==
  ASSUME Inv, RoundInv, FollowChain PROVE RoundInv'
  <1>1. pc = "chain" /\ UNCHANGED <<codec, pc, src, inpos, hashVars, rest, bits, frame, decVars>>
    BY DEF FollowChain
  <1>2. Coded(bits, inpos) /\ err = "none"
    BY <1>1 DEF RoundInv
  <1> QED
    BY <1>1, <1>2, RoundNext DEF decVars

\* The end of a match, of either kind.
LEMMA RoundEndMatch ==
  ASSUME Inv, RoundInv, pc \in {"chain", "blocks"}, EndMatch, UNCHANGED <<codec, src, decVars>>,
         ~bits'.full => Coded(bits', inpos + longest.len), bits' \in Output
  PROVE  RoundInv'
  <1>1. inpos \in Nat /\ longest.len \in Nat
    BY TypeFacts DEF Inv
  <1>2. err' = "none"
    BY DEF RoundInv, decVars
  <1>0. bits'.full \in BOOLEAN
    BY DEF Output, Pending
  <1>3. CASE bits'.full
    <2>1. pc' = "send"
      BY <1>3 DEF EndMatch
    <2> QED
      BY <1>2, <1>3, <2>1, RoundNext
  <1>4. CASE ~bits'.full /\ inpos + longest.len >= SrcLen - 2
    <2>1. pc' = "tail" /\ inpos' = inpos + longest.len
      BY <1>4 DEF EndMatch
    <2> QED
      BY <1>2, <1>4, <2>1, RoundNext
  <1>5. CASE ~bits'.full /\ ~(inpos + longest.len >= SrcLen - 2)
    <2>1. pc' = "hash" /\ inpos' = inpos + 1 /\ rest' = longest.len - 1
      BY <1>5 DEF EndMatch
    <2>2. inpos' + rest' = inpos + longest.len
      BY <1>1, <2>1
    <2> QED
      BY <1>2, <1>5, <2>1, <2>2, RoundNext
  <1> QED
    BY <1>0, <1>3, <1>4, <1>5

\* A match that the compressor has found.
LEMMA FoundMatch ==
  ASSUME Inv, pc \in {"chain", "blocks"}
  PROVE  /\ TypeOK /\ Widths /\ inpos \in Nat /\ bits \in Output /\ rest \in Nat /\ longest.len \in Nat
         /\ IsMatch(inpos, longest.ofs, longest.len)
  BY TypeFacts DEF Inv, TypeOK, ChainSound

\* A full buffer stays full.
LEMMA StaysFull ==
  ASSUME Widths, NEW st \in Output, NEW t \in Fit
  PROVE  PutBits(st, t) \in Output /\ (st.full => PutBits(st, t).full)
  BY PutBitsSound DEF Fit

LEMMA RoundPutShortMatch ==
  ASSUME Inv, RoundInv, PutShortMatch PROVE RoundInv'
  <1>1. PICK t : t = IF longest.len < 5 THEN Token(2, longest.len - 2) ELSE Token(4, longest.len + 7)
    OBVIOUS
  <1>2. PICK st : st = PutBits(bits, OffsetToken(inpos - longest.ofs))
    OBVIOUS
  <1>3. /\ pc = "chain" /\ longest.len < 8 /\ bits' = PutBits(st, t) /\ EndMatch
        /\ UNCHANGED <<codec, src, decVars>>
    BY <1>1, <1>2 DEF PutShortMatch
  <1>4. /\ TypeOK /\ Widths /\ inpos \in Nat /\ bits \in Output /\ longest.len \in Nat
        /\ IsMatch(inpos, longest.ofs, longest.len)
    BY <1>3, FoundMatch
  <1>5. Coded(bits, inpos)
    BY <1>3 DEF RoundInv
  <1>6. st \in Output
    <2>1. inpos - longest.ofs \in 0..(MaxHistory - 1)
      BY <1>4, MatchFacts
    <2>2. OffsetToken(inpos - longest.ofs) \in Fit
      BY <1>4, <2>1, TokenFits
    <2> QED
      BY <1>2, <1>4, <2>2, StaysFull
  <1>7. t \in Fit
    <2>1. 2 ^ 2 = 4 /\ 2 ^ 4 = 16
      OBVIOUS
    <2>2. longest.len >= 2
      BY <1>4, MatchFacts
    <2>3. /\ longest.len < 5 => longest.len - 2 \in 0..(2 ^ 2 - 1)
          /\ ~(longest.len < 5) => longest.len + 7 \in 0..(2 ^ 4 - 1)
      BY <1>3, <1>4, <2>1, <2>2
    <2> QED
      BY <1>1, <1>4, <2>3, TokenFits
  <1>8. bits' \in Output /\ (st.full => bits'.full)
    BY <1>3, <1>4, <1>6, <1>7, StaysFull
  <1>9. ASSUME ~bits'.full PROVE Coded(bits', inpos + longest.len)
    <2>1. ~st.full
      BY <1>8, <1>9
    <2>2. Partial(st, inpos, longest.ofs, 0)
      BY <1>2, <1>4, <1>5, <2>1, CodeOffset
    <2> QED
      BY <1>1, <1>3, <1>4, <1>6, <1>9, <2>2, CodeShort
  <1> QED
    BY <1>3, <1>8, <1>9, RoundEndMatch

LEMMA RoundPutLongMatch ==
  ASSUME Inv, RoundInv, PutLongMatch PROVE RoundInv'
  <1>1. /\ pc = "chain" /\ bits' = PutBits(bits, OffsetToken(inpos - longest.ofs))
        /\ rest' = longest.len + 7 /\ pc' = IF bits'.full THEN "send" ELSE "blocks"
        /\ UNCHANGED <<codec, src, inpos, longest, decVars>>
    BY DEF PutLongMatch
  <1>2. /\ TypeOK /\ inpos \in Nat /\ bits \in Output /\ longest.len \in Nat
        /\ IsMatch(inpos, longest.ofs, longest.len)
    BY <1>1, FoundMatch
  <1>3. Coded(bits, inpos) /\ err' = "none"
    BY <1>1 DEF RoundInv, decVars
  <1>4. CASE bits'.full
    BY <1>1, <1>3, <1>4, RoundNext
  <1>5. CASE ~bits'.full
    <2>1. Partial(bits', inpos', longest'.ofs, 0)
      BY <1>1, <1>2, <1>3, <1>5, CodeOffset
    <2>2. 15 * 0 + rest' = longest'.len + 7
      BY <1>1, <1>2
    <2>3. \E k \in Nat : 15 * k + rest' = longest'.len + 7 /\ Partial(bits', inpos', longest'.ofs, k)
      BY <2>1, <2>2, 0 \in Nat
    <2> QED
      BY <1>1, <1>3, <1>5, <2>3, RoundNext
  <1> QED
    BY <1>4, <1>5

LEMMA RoundPutBlock ==
  ASSUME Inv, RoundInv, PutBlock PROVE RoundInv'
  <1>1. /\ pc = "blocks" /\ rest >= 30 /\ bits' = PutBits(bits, Token(8, 255))
        /\ rest' = rest - 30 /\ pc' = IF bits'.full THEN "send" ELSE "blocks"
        /\ UNCHANGED <<codec, src, inpos, longest, decVars>>
    BY DEF PutBlock
  <1>2. /\ TypeOK /\ inpos \in Nat /\ bits \in Output /\ longest.len \in Nat /\ rest \in Nat
        /\ IsMatch(inpos, longest.ofs, longest.len)
    BY <1>1, FoundMatch
  <1>3. err' = "none"
    BY <1>1 DEF RoundInv, decVars
  <1>4. PICK k \in Nat : 15 * k + rest = longest.len + 7 /\ Partial(bits, inpos, longest.ofs, k)
    BY <1>1 DEF RoundInv
  <1>5. CASE bits'.full
    BY <1>1, <1>3, <1>5, RoundNext
  <1>6. CASE ~bits'.full
    <2>1. PICK n \in Nat : n = k + 2
      OBVIOUS
    <2>2. Partial(bits', inpos', longest'.ofs, n)
      BY <1>1, <1>2, <1>4, <1>6, <2>1, CodeBlock
    <2>3. 15 * n + rest' = longest'.len + 7
      BY <1>1, <1>2, <1>4, <2>1
    <2>4. \E j \in Nat : 15 * j + rest' = longest'.len + 7 /\ Partial(bits', inpos', longest'.ofs, j)
      BY <2>2, <2>3
    <2> QED
      BY <1>1, <1>3, <1>6, <2>4, RoundNext
  <1> QED
    BY <1>5, <1>6

LEMMA RoundPutLastBlock ==
  ASSUME Inv, RoundInv, PutLastBlock PROVE RoundInv'
  <1>1. PICK t : t = IF rest >= 15 THEN Token(8, 240 + rest - 15) ELSE Token(4, rest)
    OBVIOUS
  <1>2. /\ pc = "blocks" /\ rest < 30 /\ bits' = PutBits(bits, t) /\ EndMatch
        /\ UNCHANGED <<codec, src, decVars>>
    BY <1>1 DEF PutLastBlock
  <1>3. /\ TypeOK /\ Widths /\ inpos \in Nat /\ bits \in Output /\ longest.len \in Nat /\ rest \in Nat
        /\ IsMatch(inpos, longest.ofs, longest.len)
    BY <1>2, FoundMatch
  <1>4. longest.len >= 8
    BY <1>2 DEF Inv, Stages
  <1>5. PICK k \in Nat : 15 * k + rest = longest.len + 7 /\ Partial(bits, inpos, longest.ofs, k)
    BY <1>2 DEF RoundInv
  <1>6. t \in Fit
    <2>1. 2 ^ 4 = 16 /\ 2 ^ 8 = 256
      OBVIOUS
    <2>2. /\ rest >= 15 => 240 + rest - 15 \in 0..(2 ^ 8 - 1)
          /\ ~(rest >= 15) => rest \in 0..(2 ^ 4 - 1)
      BY <1>2, <1>3, <2>1
    <2> QED
      BY <1>1, <1>3, <2>2, TokenFits
  <1>7. bits' \in Output
    BY <1>2, <1>3, <1>6, StaysFull
  <1>8. ASSUME ~bits'.full PROVE Coded(bits', inpos + longest.len)
    BY <1>1, <1>2, <1>3, <1>4, <1>5, <1>8, CodeLast
  <1> QED
    BY <1>2, <1>7, <1>8, RoundEndMatch

LEMMA RoundHashRest ==
  ASSUME Inv, RoundInv, HashRest PROVE RoundInv'
  <1>1. /\ pc = "hash" /\ inpos' = inpos + 1 /\ rest' = rest - 1
        /\ pc' = IF rest = 1 THEN "scan" ELSE "hash"
        /\ UNCHANGED <<codec, src, bits, decVars>>
    BY DEF HashRest
  <1>2. inpos \in Nat /\ rest \in Nat
    BY TypeFacts DEF Inv
  <1>3. Coded(bits, inpos + rest) /\ err' = "none"
    BY <1>1 DEF RoundInv, decVars
  <1>4. inpos' + rest' = inpos + rest /\ (rest = 1 => inpos' = inpos + rest)
    BY <1>1, <1>2
  <1>5. CASE rest = 1
    BY <1>1, <1>3, <1>4, <1>5, RoundNext
  <1>6. CASE rest # 1
    BY <1>1, <1>3, <1>4, <1>6, RoundNext
  <1> QED
    BY <1>5, <1>6

LEMMA RoundPutTail ==
  ASSUME Inv, RoundInv, PutTail PROVE RoundInv'
  <1>1. PICK t : t = Token(2 * W, 3 * 2 ^ (2 * W - 2))
    OBVIOUS
  <1>2. /\ pc \in {"scan", "tail"} /\ (pc = "scan" => inpos >= SrcLen - 2)
        /\ bits' = PutBits(TailBits, t) /\ pc' = "send" /\ UNCHANGED <<codec, src, decVars>>
    BY <1>1 DEF PutTail
  <1>0. inpos >= SrcLen - 2
    BY <1>2 DEF RoundInv
  <1>3. TypeOK /\ Widths /\ SrcLen \in Nat /\ inpos \in Nat
    BY TypeFacts DEF Inv
  <1>4. Coded(bits, inpos) /\ err' = "none"
    BY <1>2 DEF RoundInv, decVars
  <1>5. TailBits \in Output /\ t \in Fit
    BY <1>1, <1>2, <1>3, TailSound, TokenFits
  <1>6. ASSUME ~bits'.full PROVE \E V, S, e : Whole(V, S, e, bits'.dst)
    <2>1. ~TailBits.full
      BY <1>2, <1>3, <1>5, <1>6, StaysFull
    <2>2. Coded(TailBits, SrcLen)
      BY <1>0, <1>2, <1>4, <2>1, CodeTail
    <2> QED
      BY <1>1, <1>2, <1>3, <1>5, <1>6, <2>2, CodeEnd
  <1> QED
    BY <1>2, <1>4, <1>6, RoundNext

\* The receiver starts at the first symbol.
LEMMA StartsAtSymbol ==
  ASSUME Inv, RoundInv, pc = "send", SrcLen <= MaxInputSize, ~bits.full
  PROVE  AtSymbol(in, out, bits.dst)
  <1>1. in = Start /\ out = <<>> /\ W \in Nat /\ src \in Seq(Bytes(codec))
    BY TypeFacts DEF Inv, Stages, Decoding, TypeOK
  <1>2. ~in.short /\ Pos(in) = 0
    BY <1>1 DEF Start, Pos
  <1>3. PICK V, S, e : Whole(V, S, e, bits.dst)
    BY DEF RoundInv
  <1>4. <<0, 0>> \in S
    BY <1>3 DEF Whole, Path
  <1>5. out = SubSeq(src, 1, 0)
    BY <1>1
  <1> QED
    BY <1>2, <1>3, <1>4, <1>5 DEF AtSymbol

\* The frame is sent.
LEMMA RoundSendFrame ==
  ASSUME Inv, RoundInv, SendFrame PROVE RoundInv'
  <1>1. /\ pc = "send" /\ UNCHANGED <<codec, src, in, match, err>>
        /\ \/ /\ SrcLen <= MaxInputSize /\ ~bits.full
              /\ frame' = [typ |-> 8, data |-> bits.dst] /\ pc' = "decode" /\ out' = out
           \/ pc' = "end" /\ out' = src
    BY DEF SendFrame, encVars
  <1>2. err' = "none"
    BY <1>1 DEF RoundInv
  <1>3. CASE pc' = "end" /\ out' = src
    BY <1>1, <1>2, <1>3, RoundNext
  <1>4. CASE /\ SrcLen <= MaxInputSize /\ ~bits.full
             /\ frame' = [typ |-> 8, data |-> bits.dst] /\ pc' = "decode" /\ out' = out
    <2>1. AtSymbol(in', out', frame'.data)
      <3>1. AtSymbol(in, out, bits.dst)
        BY <1>1, <1>4, StartsAtSymbol
      <3>2. frame'.data = bits.dst /\ in' = in
        BY <1>1, <1>4
      <3> QED
        BY <1>4, <3>1, <3>2
    <2> QED
      BY <1>1, <1>2, <1>4, <2>1, RoundNext
  <1> QED
    BY <1>1, <1>3, <1>4

\* Every step of the decompressor.
LEMMA RoundDecompress ==
  ASSUME Inv, RoundInv, Decompress PROVE RoundInv'
  <1>1. UNCHANGED <<codec, src, frame>> /\ pc \in {"decode", "long"} /\ TypeOK
    BY DEF Decompress, DecodeShort, DecodeLiteral, DecodeEnd, DecodeMatch, DecodeLong, encVars, Inv
  <1>2. err = "none" /\ SrcLen <= codec.room
    BY <1>1 DEF RoundInv
  <1>3. pc' \in {"decode", "long", "end"} /\ (pc' # "end" => err' = err)
    <2>1. ASSUME NEW o, NEW l, CopyMatch(o, l)
          PROVE  pc' \in {"decode", "end"} /\ (pc' # "end" => err' = err)
      BY <2>1 DEF CopyMatch, Fail
    <2>2. CASE DecodeShort \/ DecodeLiteral \/ DecodeEnd
      BY <2>2 DEF DecodeShort, DecodeLiteral, DecodeEnd, Fail
    <2>3. CASE DecodeMatch
      BY <2>1, <2>3 DEF DecodeMatch, Fail
    <2>4. CASE DecodeLong
      BY <2>1, <2>4 DEF DecodeLong, Fail
    <2> QED
      BY <2>2, <2>3, <2>4 DEF Decompress
  <1>4. CASE src = <<>>
    BY <1>1, <1>2, <1>3, <1>4, RoundNext
  <1>5. CASE src # <<>>
    <2>1. GoesOn
      <3>1. CASE pc = "decode"
        <4>1. AtSymbol(in, out, frame.data)
          BY <1>5, <3>1 DEF RoundInv
        <4>2. DecodeShort \/ DecodeLiteral \/ DecodeEnd \/ DecodeMatch
          BY <3>1 DEF Decompress, DecodeLong
        <4> QED
          BY <1>1, <1>2, <3>1, <4>1, <4>2, DecodeGoesOn
      <3>2. CASE pc = "long"
        <4>1. InLong(in, out, match, frame.data)
          BY <1>5, <3>2 DEF RoundInv
        <4>2. DecodeLong
          BY <3>2 DEF Decompress, DecodeShort, DecodeLiteral, DecodeEnd, DecodeMatch
        <4> QED
          BY <1>1, <1>2, <3>2, <4>1, <4>2, LongGoesOn
      <3> QED
        BY <1>1, <3>1, <3>2
    <2>2. /\ pc' = "decode" => AtSymbol(in', out', frame.data)
          /\ pc' = "long" => InLong(in', out', match', frame.data)
          /\ pc' = "end" => out' = src
          /\ err' = "none"
      BY <1>2, <2>1 DEF GoesOn
    <2>3. frame'.data = frame.data
      BY <1>1
    <2> QED
      BY <1>1, <1>3, <2>2, <2>3, RoundNext
  <1> QED
    BY <1>4, <1>5

\* A step that changes nothing.
LEMMA RoundStutter ==
  ASSUME RoundInv, UNCHANGED vars PROVE RoundInv'
  BY RoundNext DEF RoundInv, RoundTrip, vars, encVars, decVars, hashVars

\* Nothing has been written of anything.
LEMMA NothingCoded ==
  ASSUME TypeOK PROVE Coded(NoBits, 0)
  <1> DEFINE V == [q \in 0..0 |-> 0]
             S == {<<0, 0>>}
  <1>1. W \in Nat /\ W >= 4 /\ Widths
    BY TypeFacts
  <1>2. Made(NoBits) = 0 /\ NoBits.acc = 0 /\ Len(NoBits.dst) = 0 /\ NoBits.nr = 0 /\ ~NoBits.full
    BY <1>1 DEF Made, NoBits
  <1>3. V[0] = 0 /\ \A p \in 0..0 : p = 0
    OBVIOUS
  <1> HIDE DEF V
  <1>4. 2 ^ 0 = 1
    BY <1>1, Power
  <1>5. Field(V, 0, 0) = 0
    BY <1>3, <1>4 DEF Field
  <1>6. BitString(V, 0)
    <2>1. \A p \in 0..0, n \in 0..(2 * W) : p + n <= 0 => p = 0 /\ n = 0
      BY <1>1
    <2>2. \A p \in 0..0, n \in 0..(2 * W) : p + n <= 0 => Field(V, p, n) \in 0..(2 ^ n - 1)
      <3> SUFFICES ASSUME NEW p \in 0..0, NEW n \in 0..(2 * W), p + n <= 0
                   PROVE  Field(V, p, n) \in 0..(2 ^ n - 1)
        OBVIOUS
      <3>1. p = 0 /\ n = 0
        BY <2>1
      <3>2. 0 \in 0..(1 - 1)
        OBVIOUS
      <3> QED
        BY <1>4, <1>5, <3>1, <3>2
    <2> QED
      BY <1>3, <2>2 DEF BitString
  <1>7. Encodes(V, NoBits)
    BY <1>1, <1>2, <1>5, <1>6 DEF Encodes
  <1>8. Path(V, S, 0, 0)
    <2>1. \A p, f : <<p, f>> \in S => p = 0 /\ f = 0
      OBVIOUS
    <2> QED
      BY <2>1 DEF Path
  <1> QED
    BY <1>2, <1>7, <1>8 DEF Coded

\* The initial states.
LEMMA RoundInit == Init /\ Inv => RoundInv
  <1> SUFFICES ASSUME Init, Inv PROVE RoundInv
    OBVIOUS
  <1>1. TypeOK /\ codec \in Codecs /\ inpos = 0 /\ bits = NoBits /\ err = "none" /\ codec.room \in Nat
    BY TypeFacts DEF Init, Inv
  <1>2. Coded(bits, inpos)
    BY <1>1, NothingCoded
  <1>3. CASE src \in Packets(codec) /\ pc = IF SrcLen > MaxInputSize THEN "send" ELSE "scan"
    <2>1. SrcLen <= codec.room
      BY <1>1, <1>3, CodecAssumption DEF SrcLen
    <2>2. pc = "send" => ~(SrcLen <= MaxInputSize)
      <3>1. SrcLen \in Nat /\ MaxInputSize \in Nat
        BY <1>1, TypeFacts DEF MaxInputSize
      <3> QED
        BY <1>3, <3>1
    <2> QED
      BY <1>1, <1>2, <1>3, <2>1, <2>2 DEF RoundInv, RoundTrip
  <1>4. CASE src = <<>> /\ pc = "decode"
    <2>1. SrcLen <= codec.room
      BY <1>1, <1>4 DEF SrcLen
    <2> QED
      BY <1>1, <1>4, <2>1 DEF RoundInv, RoundTrip
  <1> QED
    BY <1>3, <1>4 DEF Init

\* All the steps.
LEMMA RoundStep == Inv /\ RoundInv /\ [Next]_vars => RoundInv'
  BY RoundStutter, RoundScanLiteral, RoundScanMatch, RoundFollowChain, RoundPutShortMatch,
     RoundPutLongMatch, RoundPutBlock, RoundPutLastBlock, RoundHashRest, RoundPutTail,
     RoundSendFrame, RoundDecompress DEF Next, Compress

-----------------------------------------------------------------------------
(* The theorems.                                                           *)

\* The inductive invariant holds: types, where each stage is in the packet, and
\* what the bits written so far may amount to.
THEOREM CodecInv == Spec => []Inv
  BY InitInv, NextInv, PTL DEF Spec

\* For every codec and packet, the table and the chains of lzsCompress only lead
\* to earlier positions with the same two bytes, and the match it sends is one
\* that the receiver's copy expands to the packet's own bytes (compress.go:272).
THEOREM ChainIsSound == Spec => []ChainSound
  BY CodecInv, PTL DEF Inv

\* For every codec, packet and frame, the compressor writes at most w + 1 bits
\* for each byte and the marker, so that only a packet that needs more than
\* compressBuf fills it, and the decompressor stays within decompressBuf.
THEOREM BuffersAreEnough == Spec => []BuffersHold
  BY CodecInv, PTL DEF Inv

\* For every codec, and every packet that decompressBuf has room for, what
\* lzsDecompress makes of what lzsCompress made of it is the packet itself, bit by
\* bit and through every match, and no error: TestLZSRoundtrip for all inputs.
THEOREM PacketsSurvive == Spec => []RoundTrip
  <1>1. Init => Inv /\ RoundInv
    BY InitInv, RoundInit
  <1>2. Inv /\ RoundInv /\ [Next]_vars => Inv' /\ RoundInv'
    BY NextInv, RoundStep
  <1>3. RoundInv => RoundTrip
    BY DEF RoundInv
  <1> QED
    BY <1>1, <1>2, <1>3, PTL DEF Spec

=============================================================================
