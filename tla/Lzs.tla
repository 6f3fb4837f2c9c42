-------------------------------- MODULE Lzs ---------------------------------
(***************************************************************************)
(* The LZS codec of proto/compress.go between a sender and a receiver      *)
(* (payloadOutTLSToServer and tlsChannel, or their DTLS twins): one action *)
(* per turn of each of the compressor's loops, then the frame, then one    *)
(* per symbol of the decompressor, down to putBits and getBits.            *)
(*                                                                         *)
(* The widths are parameters, so that a window that wraps, an input at the *)
(* limit and an output buffer that fills up come about with short inputs:  *)
(*   w   bits of a byte (8); a literal takes w + 1 bits, a short offset    *)
(*       w - 1, the padded end marker 2w                                   *)
(*   x   extra bits of a long offset (4)                                   *)
(*   p   bits of a position in the hash table (16)                         *)
(*   cap, room  bytes of compressBuf and decompressBuf (4096, 16384)       *)
(***************************************************************************)
EXTENDS Integers, Sequences

CONSTANTS
  Codecs,         \* set of [w, x, p, cap, room]
  Packets(_),     \* what a sender compresses with a codec
  Frames(_)       \* compressed frames that come from elsewhere

Bytes(c) == 0..(2 ^ c.w - 1)

\* A token of four bits leaves less than a byte pending, and a long offset is
\* no wider than two bytes; packets and frames are sequences of bytes, and the
\* decompressBuf has room for a packet (16384 bytes; a packet is at most 2048).
ASSUME CodecAssumption ==
  \A c \in Codecs :
    /\ {c.w, c.x, c.p, c.cap, c.room} \subseteq Nat
    /\ c.w >= 4 /\ c.x < c.w
    /\ Packets(c) \subseteq Seq(Bytes(c)) /\ Frames(c) \subseteq Seq(Bytes(c))
    /\ \A p \in Packets(c) : Len(p) <= c.room

\* Arithmetic of the shifts, which are by up to three bytes.
ASSUME PowerAssumption ==
  \A c \in Codecs :
    /\ \A n \in 0..(3 * c.w) \cup {c.p} : 2 ^ n \in Nat \ {0}
    /\ \A m, n \in 0..(3 * c.w) : m + n <= 3 * c.w => 2 ^ (m + n) = 2 ^ m * 2 ^ n

VARIABLES
  codec,
  pc,             \* "scan", "chain", "blocks", "hash", "tail", "send",
                  \* "decode", "long", "end"
  src,            \* the packet
  inpos,          \* position in src, from 0
  hashTable,      \* two bytes -> the last position they are at
  hashChain,      \* position in the window -> the position before
  hofs,           \* the candidate of the search along the chain
  longest,        \* the best match so far: [ofs, len]
  rest,           \* what is left to encode of a length, or to hash of a match
  bits,           \* output: [dst, acc, nr, full] with nr bits pending in acc
  frame,          \* what is on the wire: [typ, data]
  in,             \* getBits: [si, left, data, short]
  match,          \* a match whose length is still being read: [ofs, len]
  out, err        \* what the receiver has so far, and its error

hashVars == <<hashTable, hashChain>>
encVars == <<src, inpos, hashVars, hofs, longest, rest, bits>>
decVars == <<in, match, out, err>>
vars == <<codec, pc, encVars, frame, decVars>>

W == codec.w
B(i) == src[i + 1]
SrcLen == Len(src)
MaxHistory == 2 ^ (W - 1 + codec.x)
InvalidOfs == 2 ^ codec.p - 1
MaxInputSize == InvalidOfs + 1

NoBits == [dst |-> <<>>, acc |-> 0, nr |-> 0, full |-> FALSE]
Start == [si |-> 0, left |-> W, data |-> 0, short |-> FALSE]
NoMatch == [ofs |-> 0, len |-> 0]

Init ==
  /\ codec \in Codecs
  /\ inpos = 0 /\ hashTable = <<>> /\ hashChain = <<>> /\ bits = NoBits
  /\ hofs = 0 /\ longest = NoMatch /\ rest = 0
  /\ in = Start /\ match = NoMatch /\ out = <<>> /\ err = "none"
  /\ \/ /\ src \in Packets(codec)
        /\ frame = [typ |-> 0, data |-> <<>>]
        /\ pc = IF SrcLen > MaxInputSize THEN "send" ELSE "scan"
     \/ /\ src = <<>> /\ pc = "decode"
        /\ \E f \in Frames(codec) : frame = [typ |-> 8, data |-> f]

(***************************************************************************)
(* putBits                                                                 *)
(***************************************************************************)

Token(nr, val) == [nr |-> nr, val |-> val]

\* The next byte goes out when at least w bits are pending.
PutByte(st) ==
  IF Len(st.dst) = codec.cap THEN [st EXCEPT !.full = TRUE]
  ELSE [st EXCEPT !.dst = Append(@, (st.acc \div 2 ^ (st.nr - W)) % 2 ^ W),
                  !.acc = @ % 2 ^ (st.nr - W),
                  !.nr  = @ - W]

\* Up to two bytes go out: one for a token wider than a byte, one more if
\* that many bits are left.
PutBits(st, t) ==
  LET added == [dst |-> st.dst, acc |-> st.acc * 2 ^ t.nr + t.val,
                nr |-> st.nr + t.nr, full |-> st.full]
      wide  == IF t.nr > W THEN PutByte(added) ELSE added
  IN  IF st.full \/ wide.full THEN [st EXCEPT !.full = TRUE]
      ELSE IF wide.nr >= W THEN PutByte(wide) ELSE wide

(***************************************************************************)
(* lzsCompress                                                             *)
(***************************************************************************)

Hash(i) == <<B(i), B(i + 1)>>
Lookup(h) == IF h \in DOMAIN hashTable THEN hashTable[h] ELSE InvalidOfs
With(f, k, v) == [j \in DOMAIN f \cup {k} |-> IF j = k THEN v ELSE f[j]]

\* Mutant of Insert: the table is written before the chain.
InsertSwapped(i) ==
  /\ hashTable' = With(hashTable, Hash(i), i)
  /\ hashChain' = With(hashChain, i % MaxHistory, i)

\* A position enters the hash table, the one it replaces the chain.
Insert(i) ==
  /\ hashChain' = With(hashChain, i % MaxHistory, Lookup(Hash(i)))
  /\ hashTable' = With(hashTable, Hash(i), i)

\* Mutant of InWindow: one position too many.
InWindowPlus(h) == h # InvalidOfs /\ h + MaxHistory >= inpos

InWindow(h) == h # InvalidOfs /\ h + MaxHistory > inpos

\* Mutant of Literal: one bit too many.
LiteralWide(i) == Token(W + 2, B(i))

Literal(i) == Token(W + 1, B(i))

\* Two bytes that are not in the window.
ScanLiteral ==
  /\ pc = "scan" /\ inpos < SrcLen - 2
  /\ ~InWindow(Lookup(Hash(inpos)))
  /\ Insert(inpos)
  /\ bits' = PutBits(bits, Literal(inpos))
  /\ inpos' = inpos + 1
  /\ pc' = IF bits'.full THEN "send" ELSE "scan"
  /\ UNCHANGED <<codec, src, hofs, longest, rest, frame, decVars>>

\* Two bytes that are: the search for the longest match starts there.
ScanMatch ==
  /\ pc = "scan" /\ inpos < SrcLen - 2
  /\ InWindow(Lookup(Hash(inpos)))
  /\ Insert(inpos)
  /\ hofs' = Lookup(Hash(inpos))
  /\ longest' = [ofs |-> Lookup(Hash(inpos)), len |-> 2]
  /\ pc' = "chain"
  /\ UNCHANGED <<codec, src, inpos, rest, bits, frame, decVars>>

\* How far the match at h, known to be longer than len, goes.
MatchLength(h, len) ==
  CHOOSE k \in (len + 1)..(SrcLen - inpos) :
    /\ k + inpos = SrcLen \/ B(k + inpos) # B(k + h)
    /\ \A j \in (len + 1)..(k - 1) : B(j + inpos) = B(j + h)

GotMatch == ~InWindow(hofs) \/ longest.len + inpos = SrcLen

\* One step along the chain; only a longer match replaces the longest so far.
FollowChain ==
  /\ pc = "chain" /\ ~GotMatch
  /\ longest' = IF \A j \in 2..longest.len : B(hofs + j) = B(inpos + j)
                  THEN [ofs |-> hofs, len |-> MatchLength(hofs, longest.len)]
                  ELSE longest
  /\ hofs' = hashChain[hofs % MaxHistory]
  /\ UNCHANGED <<codec, pc, src, inpos, hashVars, rest, bits, frame, decVars>>

\* Mutant of OffsetToken: the short form is not used.
OffsetTokenLong(offset) == Token(W + 1 + codec.x, 2 ^ (W + codec.x) + offset)

OffsetToken(offset) ==
  IF offset < 2 ^ (W - 1) THEN Token(W + 1, 3 * 2 ^ (W - 1) + offset)
                          ELSE Token(W + 1 + codec.x, 2 ^ (W + codec.x) + offset)

\* After the match: the rest of it is hashed, unless the end has been reached.
EndMatch ==
  LET ends == inpos + longest.len >= SrcLen - 2
  IN  CASE bits'.full -> pc' = "send" /\ UNCHANGED <<inpos, rest>>
        [] ~bits'.full /\ ends ->
             pc' = "tail" /\ inpos' = inpos + longest.len /\ UNCHANGED rest
        [] ~bits'.full /\ ~ends ->
             pc' = "hash" /\ inpos' = inpos + 1 /\ rest' = longest.len - 1

\* Lengths 2..4 take two bits, 5..7 four.
PutShortMatch ==
  LET ofs == PutBits(bits, OffsetToken(inpos - longest.ofs))
      len == longest.len
  IN  /\ pc = "chain" /\ GotMatch /\ len < 8
      /\ bits' = PutBits(ofs, IF len < 5 THEN Token(2, len - 2) ELSE Token(4, len + 7))
      /\ EndMatch
      /\ UNCHANGED <<codec, src, hashVars, hofs, longest, frame, decVars>>

\* The rest take blocks of 15 in four bits each, two at a time.
PutLongMatch ==
  /\ pc = "chain" /\ GotMatch /\ longest.len >= 8
  /\ bits' = PutBits(bits, OffsetToken(inpos - longest.ofs))
  /\ rest' = longest.len + 7
  /\ pc' = IF bits'.full THEN "send" ELSE "blocks"
  /\ UNCHANGED <<codec, src, inpos, hashVars, hofs, longest, frame, decVars>>

PutBlock ==
  /\ pc = "blocks" /\ rest >= 30
  /\ bits' = PutBits(bits, Token(8, 255))
  /\ rest' = rest - 30
  /\ pc' = IF bits'.full THEN "send" ELSE "blocks"
  /\ UNCHANGED <<codec, src, inpos, hashVars, hofs, longest, frame, decVars>>

PutLastBlock ==
  /\ pc = "blocks" /\ rest < 30
  /\ bits' = PutBits(bits, IF rest >= 15 THEN Token(8, 240 + rest - 15) ELSE Token(4, rest))
  /\ EndMatch
  /\ UNCHANGED <<codec, src, hashVars, hofs, longest, frame, decVars>>

\* The positions that the match covers.
HashRest ==
  /\ pc = "hash"
  /\ Insert(inpos)
  /\ inpos' = inpos + 1
  /\ rest' = rest - 1
  /\ pc' = IF rest = 1 THEN "scan" ELSE "hash"
  /\ UNCHANGED <<codec, src, hofs, longest, bits, frame, decVars>>

\* What is left at the end: two bytes, one, or none.
TailBits ==
  CASE inpos = SrcLen - 2 ->
         LET h == Lookup(Hash(inpos)) IN
         IF InWindow(h) THEN PutBits(PutBits(bits, OffsetToken(inpos - h)), Token(2, 0))
                        ELSE PutBits(PutBits(bits, Literal(inpos)), Literal(inpos + 1))
    [] inpos = SrcLen - 1 -> PutBits(bits, Literal(inpos))
    [] OTHER -> bits

\* The tail and the end marker, with w - 1 zero bits to flush it.
PutTail ==
  /\ pc = "tail" \/ (pc = "scan" /\ inpos >= SrcLen - 2)
  /\ bits' = PutBits(TailBits, Token(2 * W, 3 * 2 ^ (2 * W - 2)))
  /\ pc' = "send"
  /\ UNCHANGED <<codec, src, inpos, hashVars, hofs, longest, rest, frame, decVars>>

(***************************************************************************)
(* The frame (payloadOutTLSToServer, tlsChannel)                           *)
(***************************************************************************)

\* Compressed data are sent when compressing succeeded and they are shorter;
\* the receiver takes both.
SendFrame ==
  /\ pc = "send"
  /\ IF SrcLen <= MaxInputSize /\ ~bits.full /\ Len(bits.dst) < SrcLen
       THEN frame' = [typ |-> 8, data |-> bits.dst] /\ pc' = "decode" /\ UNCHANGED out
       ELSE frame' = [typ |-> 0, data |-> src] /\ pc' = "end" /\ out' = src
  /\ UNCHANGED <<codec, encVars, in, match, err>>

(***************************************************************************)
(* lzsDecompress                                                           *)
(***************************************************************************)

F(i) == frame.data[i + 1]

\* getBits: refuses when fewer than two bytes are left, whatever it needs.
GetBits(st, n) ==
  LET more == st.left + W - n
      head == (F(st.si) * 2 ^ (n - st.left)) % 2 ^ n
      both == n > W \/ more < W
      flush == n > W /\ more = 0
  IN  IF st.short \/ Len(frame.data) - st.si < 2 THEN [st EXCEPT !.short = TRUE]
      ELSE IF n >= W \/ n >= st.left
        THEN [si    |-> st.si + (IF flush THEN 2 ELSE 1),
              left  |-> IF flush THEN W ELSE more,
              data  |-> head + (IF both THEN F(st.si + 1) \div 2 ^ more ELSE 0),
              short |-> FALSE]
        ELSE [si    |-> st.si,
              left  |-> st.left - n,
              data  |-> (F(st.si) \div 2 ^ (st.left - n)) % 2 ^ n,
              short |-> FALSE]

Fail(e) == err' = e /\ pc' = "end" /\ UNCHANGED out

\* The input ends within a symbol.
Symbol == GetBits(in, W + 1)
DecodeShort ==
  /\ pc = "decode" /\ Symbol.short
  /\ in' = Symbol /\ Fail("short")
  /\ UNCHANGED <<codec, encVars, frame, match>>

DecodeLiteral ==
  /\ pc = "decode" /\ ~Symbol.short /\ Symbol.data < 2 ^ W
  /\ in' = Symbol
  /\ IF Len(out) = codec.room THEN Fail("full")
     ELSE out' = Append(out, Symbol.data) /\ UNCHANGED <<err, pc>>
  /\ UNCHANGED <<codec, encVars, frame, match>>

EndMarker == 3 * 2 ^ (W - 1)
DecodeEnd ==
  /\ pc = "decode" /\ ~Symbol.short /\ Symbol.data = EndMarker
  /\ in' = Symbol /\ pc' = "end"
  /\ UNCHANGED <<codec, encVars, frame, match, out, err>>

\* The bytes at offset from the end, byte by byte, so that a match longer than
\* its offset repeats itself.
Copied(s, offset, len) ==
  [i \in 1..(Len(s) + len) |->
     IF i <= Len(s) THEN s[i] ELSE s[Len(s) - offset + 1 + ((i - Len(s) - 1) % offset)]]

CopyMatch(offset, len) ==
  IF offset = 0 \/ offset > Len(out) THEN Fail("invalid")
  ELSE IF len + Len(out) > codec.room THEN Fail("full")
  ELSE out' = Copied(out, offset, len) /\ pc' = "decode" /\ UNCHANGED err

\* An offset, short or long, and a length below 8 or the start of a longer one.
DecodeMatch ==
  LET sym  == Symbol
      long == sym.data < EndMarker
      ofs  == IF long THEN GetBits(sym, codec.x) ELSE sym
      offset == IF long THEN (sym.data % 2 ^ (W - 1)) * 2 ^ codec.x + ofs.data
                        ELSE sym.data % 2 ^ (W - 1)
      a == GetBits(ofs, 2)
      b == GetBits(a, 2)
  IN  /\ pc = "decode" /\ ~sym.short /\ sym.data >= 2 ^ W /\ sym.data # EndMarker
      /\ \/ /\ a.short \/ (a.data = 3 /\ b.short)
            /\ in' = b /\ Fail("short") /\ UNCHANGED match
         \/ /\ ~a.short /\ a.data # 3
            /\ in' = a /\ CopyMatch(offset, a.data + 2) /\ UNCHANGED match
         \/ /\ ~b.short /\ a.data = 3 /\ b.data # 3
            /\ in' = b /\ CopyMatch(offset, b.data + 5) /\ UNCHANGED match
         \/ /\ ~b.short /\ a.data = 3 /\ b.data = 3
            /\ in' = b /\ match' = [ofs |-> offset, len |-> 8] /\ pc' = "long"
            /\ UNCHANGED <<out, err>>
      /\ UNCHANGED <<codec, encVars, frame>>

\* Blocks of four bits, each 15 of them but the last.
DecodeLong ==
  LET g == GetBits(in, 4)
  IN  /\ pc = "long" /\ in' = g
      /\ \/ g.short /\ Fail("short") /\ UNCHANGED match
         \/ /\ ~g.short /\ g.data = 15
            /\ match' = [match EXCEPT !.len = @ + 15] /\ UNCHANGED <<pc, out, err>>
         \/ /\ ~g.short /\ g.data # 15
            /\ CopyMatch(match.ofs, match.len + g.data) /\ UNCHANGED match
      /\ UNCHANGED <<codec, encVars, frame>>

Compress ==
  \/ ScanLiteral \/ ScanMatch \/ FollowChain
  \/ PutShortMatch \/ PutLongMatch \/ PutBlock \/ PutLastBlock
  \/ HashRest \/ PutTail

Decompress == DecodeShort \/ DecodeLiteral \/ DecodeEnd \/ DecodeMatch \/ DecodeLong

Next == Compress \/ SendFrame \/ Decompress

Spec == Init /\ [][Next]_vars

(***************************************************************************)
(* Properties                                                              *)
(***************************************************************************)

\* What the receiver gets is what the sender had, whether it was sent
\* compressed or not: the test TestLZSRoundtrip, for every packet of a bounded
\* set, windows that wrap and inputs at the limit included.
RoundTrip == pc = "end" /\ src # <<>> => out = src /\ err = "none"

\* The positions that have been hashed are those below Hashed.
Hashed == IF pc \in {"chain", "blocks"} THEN inpos + 1 ELSE inpos

\* The table leads from two bytes to an earlier position with those bytes.
TableSound ==
  pc \in {"scan", "chain", "blocks", "hash", "tail"} =>
    \A h \in DOMAIN hashTable : hashTable[h] \in 0..(Hashed - 1) /\ Hash(hashTable[h]) = h

\* Each position of the window, however often the chain array has wrapped,
\* leads to an earlier one with the same two bytes.
LinksSound ==
  pc \in {"scan", "chain", "blocks", "hash"} =>
    \A i \in 0..(Hashed - 1) : i + MaxHistory >= Hashed =>
      /\ i % MaxHistory \in DOMAIN hashChain
      /\ LET q == hashChain[i % MaxHistory]
         IN  q = InvalidOfs \/ (q \in 0..(i - 1) /\ Hash(q) = Hash(i))

\* A match at ofs of the bytes from i on, within the window and the input.
IsMatch(i, ofs, len) ==
  /\ ofs \in 0..(i - 1) /\ ofs + MaxHistory > i
  /\ len \in 2..(SrcLen - i)
  /\ \A j \in 0..(len - 1) : B(ofs + j) = B(i + j)

\* compress.go:272, "the 16 bit hash guarantees that the first two bytes
\* match": the table and the chains only lead to positions in the window with
\* those two bytes, from each to an earlier one.  So what is sent as a match is
\* one, however its length was put together along the chain, and a receiver that
\* has what comes before it copies what the packet has there.
ChainSound ==
  /\ TableSound /\ LinksSound
  /\ pc \in {"chain", "blocks"} =>
       /\ IsMatch(inpos, longest.ofs, longest.len)
       /\ Copied(SubSeq(src, 1, inpos), inpos - longest.ofs, longest.len)
            = SubSeq(src, 1, inpos + longest.len)

\* Neither buffer is overrun.  However little there is to compress, the output
\* is at most w + 1 bits for each byte, and the marker: only a packet that needs
\* more than compressBuf can fill it, and none of the size of a tunnel's MTU does
\* (tls.go:120, dtls.go:253).  Whatever frame arrives, what comes out of it fits
\* into the decompressBuf (compress.go:197).
BuffersHold ==
  LET made == W * Len(bits.dst) + bits.nr
      most == (W + 1) * SrcLen + 2 * W
  IN  /\ made <= IF pc \in {"scan", "chain", "tail"} THEN (W + 1) * inpos ELSE most
      /\ Len(bits.dst) <= codec.cap
      /\ bits.full => most > W * codec.cap
      /\ frame.typ = 8 => Len(out) <= codec.room

\* compress_test.go:11-23: bit for bit what openconnect's lzs.c makes of some
\* inputs, with the widths of the real codec.
Golden ==
  {[src |-> <<97, 98, 99>>, want |-> <<48, 152, 140, 120, 0>>],
   [src |-> [i \in 1..20 |-> 65], want |-> <<32, 224, 126, 240, 0>>],
   [src |-> <<>>, want |-> <<192, 0>>],
   [src |-> <<104, 101, 108, 108, 111, 32, 104, 101, 108, 108, 111, 32,
              104, 101, 108, 108, 111>>,
    want |-> <<52, 25, 77, 134, 195, 120, 131, 13, 231, 128>>]}
MatchesOpenconnect ==
  pc \in {"send", "end"} /\ W = 8 =>
    \A g \in Golden : g.src = src /\ frame.typ = 0 => bits.dst = g.want

=============================================================================
